------------------------------- MODULE Cierre -------------------------------
(***************************************************************************)
(* The closing of a pass (scheduler/pipeline_cierre.py): the canonical     *)
(* steps as jobs of the queue that the closing itself consumes, what an    *)
(* earlier closing left in it, the dependencies between steps, the inline  *)
(* path when the jobs cannot be enqueued, and the alert window of each     *)
(* step (observability/alerts.py).  One closing at a time (the `scrape`    *)
(* concurrency group); beside it the sweep of the worker, time, and the    *)
(* end of the process: a death, or a statement that raises, which no       *)
(* handler of the loop catches.                                            *)
(***************************************************************************)
EXTENDS JobsTabla, Cerrojos, Sequences, FiniteSets

CONSTANTS
    Orden,          \* CANONICAL_STEPS
    Deps,           \* STEP_DEPS
    VueltasPorPaso, \* laps of the loop for each step: 4 in the code
    Cierra,         \* the worker id "pipeline_cierre"
    Alertas,        \* the holder of the alert windows
    Cooldown,       \* COOLDOWN_RECORDATORIO_DIARIO_S, in ticks
    MaxAverias,     \* bound: failed enqueues, window statements and mails
    MaxCaidas       \* bound: closings that do not get to their end

Pasos == { Orden[k] : k \in 1 .. Len(Orden) }
N == Len(Orden)

(* A dependency comes earlier in the order than the step that declares it  *)
(* (tests/test_s5_cierre_dependencias.py:52).                              *)
ASSUME CierreAssumption ==
    /\ Orden \in Seq(Pasos) /\ N > 0
    /\ Cardinality(Pasos) = N
    /\ Deps \in [Pasos -> SUBSET Pasos]
    /\ \A a, b \in 1 .. N : Orden[b] \in Deps[Orden[a]] => b < a
    /\ Consumidores = {Cierra} /\ Cardinality(Tipos) = 1
    /\ Nombres = Pasos /\ Duenos = {Alertas} /\ Cooldown \in 1 .. MaxTTL
    /\ VueltasPorPaso \in Nat \ {0} /\ MaxAverias \in Nat /\ MaxCaidas \in Nat

VARIABLES
    pasoDe,     \* payload.paso of each job
    cierre,     \* the closing in course
    res,        \* results
    avisos,     \* per step: what the mails have said (observed)
    averias,
    caidas

vars == <<jobs, cerrojos, pasoDe, cierre, res, avisos, averias, caidas>>

Vueltas == VueltasPorPaso * N

Fases ==
    {"libre", "encolar", "bucle", "linea", "reclamado", "corriendo", "anotar", "avisar",
     "enviar", "cerrar"}
Resultados == {"ok", "skipped", "error", "skipped_por_dependencia"}

Curso ==
    [ fase    : Fases,
      mios    : SUBSET Ids,
      job     : Ids \union {0},         \* the claimed job
      paso    : 1 .. N + 1,             \* the step enqueued or run next, in line
      linea   : BOOLEAN,
      ventana : BOOLEAN,                \* the alert's window is ours
      vueltas : 0 .. Vueltas,
      vivos   : SUBSET Ids,             \* not closed when the loop began (observed)
      restos  : SUBSET Ids ]            \* those of others there to claim (observed)

(* avisado: a mail of this incident went out.  porCerrar: the window may   *)
(* be left from an incident that is over, or that was never mailed,        *)
(* because the statement that frees it failed or was not reached.          *)
(* huerfana: the window was opened by a statement that raised all the      *)
(* same, and whoever asked for it does not know that it has it.            *)
Avisos == [avisado : BOOLEAN, porCerrar : BOOLEAN, huerfana : BOOLEAN]
SinAviso == [avisado |-> FALSE, porCerrar |-> FALSE, huerfana |-> FALSE]

TypeOK ==
    /\ TablaTypeOK
    /\ CerrojosTypeOK
    /\ pasoDe \in [Ids -> Pasos]
    /\ cierre \in Curso
    /\ res \in [Pasos -> Resultados \union {"sin"}]
    /\ avisos \in [Pasos -> Avisos]
    /\ averias \in 0 .. MaxAverias
    /\ caidas \in 0 .. MaxCaidas

Parado ==
    [ fase |-> "libre", mios |-> {}, job |-> 0, paso |-> 1, linea |-> FALSE,
      ventana |-> FALSE, vueltas |-> 0, vivos |-> {}, restos |-> {} ]

SinResultado == [s \in Pasos |-> "sin"]

Init ==
    /\ TablaInit
    /\ CerrojosInit
    /\ pasoDe = [j \in Ids |-> Orden[1]]
    /\ cierre = Parado
    /\ res = SinResultado
    /\ avisos = [s \in Pasos |-> SinAviso]
    /\ averias = 0
    /\ caidas = 0

Falla == averias < MaxAverias /\ averias' = averias + 1

-----------------------------------------------------------------------------
(* The jobs are enqueued one by one, in order. *)
Empezar ==
    /\ cierre.fase = "libre"
    /\ Cardinality({ j \in Ids : jobs[j].estado = "ausente" }) >= N
    /\ cierre' = [Parado EXCEPT !.fase = "encolar"]
    /\ UNCHANGED <<jobs, cerrojos, pasoDe, res, avisos, averias, caidas>>

EncolarPaso(j, t) ==
    /\ Insertar(j, t)
    /\ pasoDe' = [pasoDe EXCEPT ![j] = Orden[cierre.paso]]

Encolar ==
    /\ cierre.fase = "encolar" /\ cierre.paso <= N
    /\ \E j \in Ids, t \in Tipos :
         /\ EncolarPaso(j, t)
         /\ cierre' = [cierre EXCEPT !.paso = @ + 1, !.mios = @ \union {j}]
    /\ UNCHANGED <<cerrojos, res, avisos, averias, caidas>>

Encolado ==
    /\ cierre.fase = "encolar" /\ cierre.paso > N
    /\ cierre' = [cierre EXCEPT !.fase = "bucle", !.vivos = { j \in Ids : jobs[j].estado \in Activos },
                                !.restos = Reclamables(Tipos) \ cierre.mios]
    /\ UNCHANGED <<jobs, cerrojos, pasoDe, res, avisos, averias, caidas>>

(* ColaNoDisponible: the steps run in line, and what was enqueued stays,   *)
(* the row of the statement that raised among it, if it was committed.     *)
ColaNoDisponible ==
    /\ cierre.fase = "encolar" /\ cierre.paso <= N
    /\ Falla
    /\ \/ UNCHANGED <<jobs, pasoDe>>
       \/ \E j \in Ids, t \in Tipos : EncolarPaso(j, t)
    /\ cierre' = [Parado EXCEPT !.fase = "linea", !.linea = TRUE]
    /\ UNCHANGED <<cerrojos, res, avisos, caidas>>

-----------------------------------------------------------------------------
Paso == IF cierre.linea THEN Orden[cierre.paso] ELSE pasoDe[cierre.job]

(* dependencias_incumplidas() *)
Incumplidas(s) == { d \in Deps[s] : res[d] \in {"error", "skipped_por_dependencia"} }

ConResultados == { s \in Pasos : res[s] # "sin" }
SinTerminar == Cardinality(ConResultados) < Cardinality(cierre.mios)

(* Mutant: room for the closing's own jobs only. *)
SoloLosPropios == cierre.vueltas < N /\ SinTerminar

Sigue == cierre.vueltas < Vueltas /\ SinTerminar

Reclamo ==
    /\ cierre.fase = "bucle" /\ Sigue
    /\ \E j \in Ids :
         /\ Reclamar(Cierra, Tipos, j)
         /\ cierre' = [cierre EXCEPT !.fase = "reclamado", !.job = j, !.vueltas = @ + 1]
    /\ UNCHANGED <<cerrojos, pasoDe, res, avisos, averias, caidas>>

(* Mutant: a left over job is one more. *)
Propio == TRUE

EsMio == cierre.linea \/ cierre.job \in cierre.mios

Descartar ==
    /\ cierre.fase = "reclamado" /\ ~EsMio
    /\ MarcarTerminado(cierre.job)
    /\ cierre' = [cierre EXCEPT !.fase = "bucle", !.job = 0]
    /\ UNCHANGED <<cerrojos, pasoDe, res, avisos, averias, caidas>>

(* The next step, in line. *)
PasoEnLinea ==
    /\ cierre.fase = "linea" /\ cierre.paso <= N
    /\ cierre' = [cierre EXCEPT !.fase = "reclamado"]
    /\ UNCHANGED <<jobs, cerrojos, pasoDe, res, avisos, averias, caidas>>

Siguiente ==
    IF cierre.linea THEN [cierre EXCEPT !.fase = "linea", !.paso = @ + 1]
                    ELSE [cierre EXCEPT !.fase = "bucle", !.job = 0]

Saltar ==
    /\ cierre.fase = "reclamado" /\ EsMio
    /\ Incumplidas(Paso) # {}
    /\ IF cierre.linea THEN UNCHANGED jobs ELSE MarcarTerminado(cierre.job)
    /\ res' = [res EXCEPT ![Paso] = "skipped_por_dependencia"]
    /\ cierre' = Siguiente
    /\ UNCHANGED <<cerrojos, pasoDe, avisos, averias, caidas>>

Correr ==
    /\ cierre.fase = "reclamado" /\ EsMio
    /\ Incumplidas(Paso) = {}
    /\ cierre' = [cierre EXCEPT !.fase = "corriendo"]
    /\ UNCHANGED <<jobs, cerrojos, pasoDe, res, avisos, averias, caidas>>

(* latido(): a beat, while the step runs; beats may be lost. *)
Latir ==
    /\ cierre.fase = "corriendo" /\ ~cierre.linea
    /\ RenovarLock(cierre.job, Cierra)
    /\ UNCHANGED <<cerrojos, pasoDe, cierre, res, avisos, averias, caidas>>

(* The step returns or raises.  A step that ends ok ends its incident, and *)
(* its window has to be closed at the end of the closing.                  *)
Recuperado(a) == [a EXCEPT !.avisado = FALSE, !.porCerrar = TRUE, !.huerfana = FALSE]

PasoTermina(r) ==
    /\ cierre.fase = "corriendo"
    /\ res' = [res EXCEPT ![Paso] = r]
    /\ avisos' = IF r = "ok" THEN [avisos EXCEPT ![Paso] = Recuperado(@)] ELSE avisos
    /\ cierre' = [cierre EXCEPT !.fase = "anotar"]
    /\ UNCHANGED <<jobs, cerrojos, pasoDe, averias, caidas>>

(* ack(), or fail() with terminal=True and then the alert. *)
Anotar ==
    /\ cierre.fase = "anotar"
    /\ IF cierre.linea THEN UNCHANGED jobs
       ELSE IF res[Paso] = "error" THEN MarcarFallido(cierre.job)
                                   ELSE MarcarTerminado(cierre.job)
    /\ cierre' = IF res[Paso] = "error" THEN [cierre EXCEPT !.fase = "avisar"] ELSE Siguiente
    /\ UNCHANGED <<cerrojos, pasoDe, res, avisos, averias, caidas>>

-----------------------------------------------------------------------------
(* notify(): the window of the step is opened, or is open and the alert is *)
(* not sent, or the statement raises, committed or not, and the alert is   *)
(* sent as if there were no window.                                        *)
Abierta(a, huerfana) == [a EXCEPT !.porCerrar = FALSE, !.huerfana = huerfana]

AbrirVentana(huerfana) ==
    /\ Adquirir(Paso, Alertas, Cooldown)
    /\ avisos' = [avisos EXCEPT ![Paso] = Abierta(@, huerfana)]

Callar ==
    /\ cierre.fase = "avisar"
    /\ ~Adquirible(Paso)
    /\ cierre' = Siguiente
    /\ UNCHANGED <<jobs, cerrojos, pasoDe, res, avisos, averias, caidas>>

Avisar ==
    /\ cierre.fase = "avisar"
    /\ \/ /\ AbrirVentana(FALSE)
          /\ cierre' = [cierre EXCEPT !.fase = "enviar", !.ventana = TRUE]
          /\ UNCHANGED averias
       \/ /\ Falla
          /\ AbrirVentana(TRUE) \/ UNCHANGED <<cerrojos, avisos>>
          /\ cierre' = [cierre EXCEPT !.fase = "enviar"]
    /\ UNCHANGED <<jobs, pasoDe, res, caidas>>

SinVentana == [Siguiente EXCEPT !.ventana = FALSE]

Enviado ==
    /\ cierre.fase = "enviar"
    /\ avisos' = [avisos EXCEPT ![Paso].avisado = TRUE]
    /\ cierre' = SinVentana
    /\ UNCHANGED <<jobs, cerrojos, pasoDe, res, averias, caidas>>

(* Mutant: the window of a mail that did not go out is kept. *)
SeQueda(s) == UNCHANGED cerrojos

(* _soltar_ventana() *)
SoltarVentana(s) == Soltar(s, Alertas)

NoEnviado ==
    /\ cierre.fase = "enviar"
    /\ Falla
    /\ \/ cierre.ventana /\ SoltarVentana(Paso) /\ UNCHANGED avisos
       \/ ~cierre.ventana /\ UNCHANGED <<cerrojos, avisos>>
       \/ /\ cierre.ventana
          /\ UNCHANGED cerrojos
          /\ avisos' = [avisos EXCEPT ![Paso].porCerrar = TRUE]
    /\ cierre' = SinVentana
    /\ UNCHANGED <<jobs, pasoDe, res, caidas>>

-----------------------------------------------------------------------------
(* Every step has its result, or there is nothing to claim, or the laps    *)
(* are used up.                                                            *)
Acabar ==
    /\ \/ cierre.fase = "bucle" /\ (~Sigue \/ Reclamables(Tipos) = {})
       \/ cierre.fase = "linea" /\ cierre.paso > N
    /\ cierre' = [cierre EXCEPT !.fase = "cerrar"]
    /\ UNCHANGED <<jobs, cerrojos, pasoDe, res, avisos, averias, caidas>>

(* Mutant: the recovered steps keep their windows. *)
Ninguno == {}

Recuperados == { s \in Pasos : res[s] = "ok" }

(* _cerrar_avisos_de_pasos_recuperados(): one statement, whose failure is  *)
(* swallowed.                                                              *)
CerrarVentanas ==
    /\ cierre.fase = "cerrar"
    /\ \/ /\ SoltarVarios(Recuperados, Alertas)
          /\ avisos' = [s \in Pasos |->
                          [avisos[s] EXCEPT !.porCerrar = @ /\ res[s] # "ok"]]
          /\ UNCHANGED averias
       \/ Falla /\ UNCHANGED <<cerrojos, avisos>>
    /\ cierre' = Parado /\ res' = SinResultado
    /\ UNCHANGED <<jobs, pasoDe, caidas>>

-----------------------------------------------------------------------------
(* The process ends before its time.  Between the window and the mail, the *)
(* window is left with nobody told.                                        *)
Morir ==
    /\ cierre.fase # "libre"
    /\ caidas < MaxCaidas
    /\ caidas' = caidas + 1
    /\ avisos' = IF cierre.fase = "enviar" THEN [avisos EXCEPT ![Paso].porCerrar = TRUE]
                                           ELSE avisos
    /\ cierre' = Parado /\ res' = SinResultado
    /\ UNCHANGED <<jobs, cerrojos, pasoDe, averias>>

(* The sweep of the worker, over every type of job. *)
Barrer ==
    /\ \E j \in Ids : Caducado(j)
    /\ ReclamarCaducados
    /\ UNCHANGED <<cerrojos, pasoDe, cierre, res, avisos, averias, caidas>>

Tiempo ==
    /\ PasaElTiempo
    /\ CerrojosEnvejecen
    /\ UNCHANGED <<pasoDe, cierre, res, avisos, averias, caidas>>

Next ==
    \/ Empezar \/ Encolar \/ Encolado \/ ColaNoDisponible
    \/ Reclamo \/ Descartar \/ PasoEnLinea \/ Saltar \/ Correr \/ Latir
    \/ \E r \in {"ok", "skipped", "error"} : PasoTermina(r)
    \/ Anotar \/ Callar \/ Avisar \/ Enviado \/ NoEnviado
    \/ Acabar \/ CerrarVentanas
    \/ Morir \/ Barrer \/ Tiempo

Spec == Init /\ [][Next]_vars

-----------------------------------------------------------------------------
(* A step runs only after the steps it depends on had their turn in this   *)
(* same closing and left their input: neither a job of an earlier closing  *)
(* nor the sweep runs `digests` first (pipeline_cierre.py:208).            *)
DependenciasPrimero ==
    cierre.fase = "corriendo" => \A d \in Deps[Paso] : res[d] \in {"ok", "skipped"}

(* A closing that gets to its end has a result for every step and has      *)
(* closed the jobs of others it found waiting, as long as what it found,   *)
(* its own jobs and theirs, fits in its laps (pipeline_cierre.py:237, 280). *)
CierreCompleto ==
    (cierre.fase = "cerrar" /\ Cardinality(cierre.vivos) <= Vueltas)
        => /\ ConResultados = Pasos
           /\ \A j \in cierre.restos : jobs[j].estado \in Terminales

(* An alert is left out only while its incident has been mailed, or while  *)
(* there is a window nobody could close: the statement that frees it       *)
(* failed or was not reached, or the one that opened it raised having      *)
(* opened it.  A relapse is told at once (pipeline_cierre.py:58,           *)
(* alerts.py:348).                                                         *)
CalladaSoloSiAvisada ==
    [][Callar => \/ avisos[Paso].avisado \/ avisos[Paso].porCerrar
                 \/ avisos[Paso].huerfana]_vars
=============================================================================
