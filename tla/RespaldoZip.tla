----------------------------- MODULE RespaldoZip -----------------------------
(***************************************************************************)
(* The ingestion of the daily lane: a pass over the feed and, when the     *)
(* cursor of PLACSP stands still, the fall back to the monthly ZIP         *)
(* (scheduler/respaldo_zip_placsp.py).  One process at a time (the         *)
(* `scrape` concurrency group), which may die at any step; beside it, days *)
(* go by and notices are published.                                        *)
(***************************************************************************)
EXTENDS Pasada

CONSTANTS
    MesDe,          \* the month of each day
    Umbral,         \* PLACSP_ATOM_PASADAS_SIN_AVANCE_ZIP
    DiscoEfimero    \* a new disk for each pass (Actions), or the worker's own

ASSUME RespaldoAssumption ==
    /\ MesDe \in [1 .. MaxDias -> 1 .. MaxMes]
    /\ Umbral \in Nat \ {0}
    /\ DiscoEfimero \in BOOLEAN

VARIABLES
    dia,        \* today
    respaldo,   \* ingestion_cursors, the row placsp_atom_respaldo_zip
    descargas,  \* per month: the notices of the ZIP that stays on disk
    carril,     \* where the process is
    cortado     \* a ZIP of the month before was not finished (observed)

vars == <<lectura, entorno, dia, respaldo, descargas, carril, cortado>>

Dias == 1 .. MaxDias
Meses == 1 .. MaxMes
NoDescargado == [hay |-> FALSE, avisos |-> {}]

Carril ==
    [ paso  : {"libre", "feed", "zip"},
      antes : 0 .. MaxAvisos,     \* cursor_antes
      meses : SUBSET Meses ]      \* ZIPs left

TypeOK ==
    /\ PasadaTypeOK
    /\ dia \in Dias
    /\ respaldo \in [cursor : 0 .. MaxAvisos, pasadas : 0 .. Umbral - 1, ultimo : {0} \union Dias]
    /\ descargas \in [Meses -> [hay : BOOLEAN, avisos : SUBSET Avisos]]
    /\ carril \in Carril
    /\ cortado \in BOOLEAN

Libre == [paso |-> "libre", antes |-> 0, meses |-> {}]

Init ==
    /\ PasadaInit
    /\ dia = 1
    /\ respaldo = [cursor |-> 0, pasadas |-> 0, ultimo |-> 0]
    /\ descargas = [m \in Meses |-> NoDescargado]
    /\ carril = Libre
    /\ cortado = FALSE

tablas == <<cursor, guardado, alcanzado, noAnotados, huecos, dlq>>
leido == <<tablas, averias>>

-----------------------------------------------------------------------------
(* The pass over the feed. *)
Empezar ==
    /\ carril.paso = "libre"
    /\ EmpezarFeed
    /\ carril' = [Libre EXCEPT !.paso = "feed", !.antes = cursor.marca]
    /\ UNCHANGED <<tablas, entorno, dia, respaldo, descargas, cortado>>

(* A ZIP of an earlier month that is cut will not be asked for again: the  *)
(* state already says that today's fall back took place.                   *)
CortaElAnterior ==
    carril.paso = "zip" /\ ({pasada.fuente} \union carril.meses) \ {Feed, MesDe[dia]} # {}

Ingerir ==
    /\ \/ Avanzar /\ UNCHANGED cortado
       \/ Fallar /\ cortado' = (cortado \/ CortaElAnterior)
    /\ UNCHANGED <<entorno, dia, respaldo, descargas, carril>>

(* The date the gap starts at: the last fall back of the episode, or the   *)
(* cursor that stands still.                                               *)
DiaDelCursor == IF carril.antes = 0 THEN 1 ELSE publicado[carril.antes]
MismoEpisodio == respaldo.cursor = carril.antes
Ultimo == IF MismoEpisodio THEN respaldo.ultimo ELSE 0
Pasadas == IF MismoEpisodio THEN respaldo.pasadas + 1 ELSE 1

(* Mutant: one pass late. *)
TocaTarde == Pasadas > Umbral

TocaRespaldo == Pasadas >= Umbral

(* Mutant: the month of today only. *)
SoloMesEnCurso == {MesDe[dia]}

(* meses_de_respaldo(): the previous month too if the gap began before     *)
(* this one.                                                               *)
MesesDeRespaldo ==
    LET desde == IF Ultimo # 0 THEN Ultimo ELSE DiaDelCursor IN
    { m \in Meses : m = MesDe[dia] \/ (m = MesDe[dia] - 1 /\ MesDe[desde] < MesDe[dia]) }

(* tras_pasada_atom().  The state is saved before anything is downloaded.  *)
TrasPasada ==
    /\ carril.paso = "feed" /\ pasada.fase = "cerrada"
    /\ \/ /\ asc \/ pasada.fallida
          /\ carril' = Libre
          /\ UNCHANGED respaldo
       \/ /\ ~asc /\ ~pasada.fallida /\ cursor.marca > carril.antes
          /\ carril' = Libre
          /\ respaldo' = IF respaldo.pasadas > 0 \/ respaldo.ultimo # 0
                         THEN [cursor |-> cursor.marca, pasadas |-> 0, ultimo |-> 0]
                         ELSE respaldo
       \/ /\ ~asc /\ ~pasada.fallida /\ cursor.marca = carril.antes
          /\ ~TocaRespaldo
          /\ carril' = Libre
          /\ respaldo' = [cursor |-> carril.antes, pasadas |-> Pasadas, ultimo |-> Ultimo]
       \/ /\ ~asc /\ ~pasada.fallida /\ cursor.marca = carril.antes
          /\ TocaRespaldo
          /\ carril' = [Libre EXCEPT !.paso = "zip", !.meses = MesesDeRespaldo]
          /\ respaldo' = [cursor |-> carril.antes, pasadas |-> 0, ultimo |-> dia]
    /\ pasada' = Parada
    /\ UNCHANGED <<leido, entorno, dia, descargas, cortado>>

(* What the ZIP of a month holds today: the notices up to yesterday.       *)
EnZip(m) == { n \in 1 .. EnFeed : MesDe[publicado[n]] = m /\ publicado[n] < dia }

(* download_month(force=False): a ZIP that is on disk is not asked for     *)
(* again.                                                                  *)
Descargado(m) == IF descargas[m].hay THEN descargas[m].avisos ELSE EnZip(m)

(* The ZIPs, the oldest month first. *)
BajarZip ==
    /\ carril.paso = "zip" /\ pasada.fase = "parada"
    /\ \E m \in carril.meses :
         /\ \A k \in carril.meses : m <= k
         /\ EmpezarZip(m, Descargado(m))
         /\ descargas' = [descargas EXCEPT ![m] =
                            IF DiscoEfimero \/ Descargado(m) = {} THEN @
                            ELSE [hay |-> TRUE, avisos |-> Descargado(m)]]
         /\ carril' = [carril EXCEPT !.meses = @ \ {m}]
    /\ UNCHANGED <<leido, entorno, dia, respaldo, cortado>>

TrasZip ==
    /\ carril.paso = "zip" /\ pasada.fase = "cerrada"
    /\ pasada' = Parada
    /\ carril' = IF carril.meses = {} THEN Libre ELSE carril
    /\ UNCHANGED <<leido, entorno, dia, respaldo, descargas, cortado>>

(* Wherever the process is, it dies; the next one starts over. *)
Caida ==
    /\ carril.paso # "libre"
    /\ Morir
    /\ carril' = Libre
    /\ cortado' = (cortado \/ CortaElAnterior)
    /\ UNCHANGED <<entorno, dia, respaldo, descargas>>

-----------------------------------------------------------------------------
(* Around it.  Bound: nothing is published on the last day, which no ZIP   *)
(* of the model would hold.                                                *)
Publicar ==
    /\ EnFeed < MaxAvisos /\ dia < MaxDias
    /\ publicado' = Append(publicado, dia)
    /\ UNCHANGED <<lectura, rotos, asc, dia, respaldo, descargas, carril, cortado>>

CambiarDia ==
    /\ dia < MaxDias
    /\ dia' = dia + 1
    /\ UNCHANGED <<lectura, entorno, respaldo, descargas, carril, cortado>>

Proceso == Empezar \/ Ingerir \/ TrasPasada \/ BajarZip \/ TrasZip

Next == Proceso \/ Caida \/ Publicar \/ CambiarDia

Spec == Init /\ [][Next]_vars

(* The lane is launched every four hours and each step of it ends; days go *)
(* by.  Nothing is published or broken of necessity: failures are bounded. *)
FairSpec == Spec /\ WF_vars(Proceso) /\ WF_vars(CambiarDia)

-----------------------------------------------------------------------------
(* Within the feed a tender never goes back to an older version            *)
(* (base.py:572-580): not in a run that meets it in several batches, not   *)
(* when a cut or exhausted pass makes the next one read again with the     *)
(* same parser.                                                            *)
NoRegresa ==
    [][carril.paso # "zip" => \A e \in Expedientes : guardado'[e] >= guardado[e]]_vars

(* Every notice gets in, or leaves a record of why it did not: by the feed *)
(* or, when the feed is ahead of the page limit and the cursor cannot      *)
(* move, by the ZIPs (respaldo_zip_placsp.py:11-12) - unless the ZIP of    *)
(* the month before was cut, or the notice was lost in one of the two ways *)
(* NadaSeSalta names.                                                      *)
TodoAvisoEntra ==
    \A n \in Avisos :
       (n <= EnFeed) ~> \/ Ingerido(n) \/ Anotado(n, Fuentes) \/ cortado
                        \/ NoAnotado(n, Fuentes) \/ n \in huecos
=============================================================================
