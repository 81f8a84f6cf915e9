------------------------------ MODULE JobQueue ------------------------------
(***************************************************************************)
(* The life of a job: the consumers of the queue (scheduler/worker.py and  *)
(* services/jobs.py) against the table.  A consumer claims a job, runs its *)
(* handler while a heartbeat thread renews the lock, and closes the row;   *)
(* between any two of its statements it may die, be redeployed, or lose    *)
(* the database for a while (a "corte"), and the sweep of another consumer *)
(* frees the locks that fell silent.                                       *)
(***************************************************************************)
EXTENDS JobsTabla

CONSTANTS
    TiposADemanda,  \* the types the worker claims; the rest are the closing's
    MaxSilencio,    \* longest silence, in ticks, of a live consumer that
                    \* reaches the database: the heartbeat's period plus a lost beat
    MaxCaidas,      \* bound: crashes and redeployments
    MaxCortes       \* bound: times a consumer loses the database

(* latido() beats every third of the TTL, so that one lost beat leaves the *)
(* lock alive.                                                             *)
ASSUME LatidoAssumption ==
    /\ TiposADemanda \subseteq Tipos
    /\ MaxSilencio \in Nat \ {0}
    /\ MaxSilencio <= TTL
    /\ MaxCaidas \in Nat
    /\ MaxCortes \in Nat

VARIABLES
    vida,       \* per consumer: its loop runs, is stopping, or is gone
    tarea,      \* per consumer: the Job it holds in memory and how far it got
    aislado,    \* per consumer: it cannot reach the database (or is frozen)
    caidas,     \* crashes and redeployments so far
    cortes      \* losses of the database so far

vars == <<jobs, vida, tarea, aislado, caidas, cortes>>

Fases == {"libre", "handler", "ok", "error"}

Tarea ==
    [ fase     : Fases,        \* "ok" / "error": the handler ended, the row is not closed
      job      : Ids \union {0},
      intentos : Nat,          \* the counter as this consumer read it when it claimed
      late     : BOOLEAN ]     \* its heartbeat thread still beats

Libre == [fase |-> "libre", job |-> 0, intentos |-> 0, late |-> FALSE]

TypeOK ==
    /\ TablaTypeOK
    /\ vida \in [Consumidores -> {"activo", "parando", "parado"}]
    /\ tarea \in [Consumidores -> Tarea]
    /\ aislado \in [Consumidores -> BOOLEAN]
    /\ caidas \in Nat
    /\ cortes \in Nat

Init ==
    /\ TablaInit
    /\ vida = [w \in Consumidores |-> "activo"]
    /\ tarea = [w \in Consumidores |-> Libre]
    /\ aislado = [w \in Consumidores |-> FALSE]
    /\ caidas = 0
    /\ cortes = 0

Ocupado(w) == tarea[w].fase # "libre"
Puede(w)   == vida[w] # "parado" /\ ~aislado[w]

-----------------------------------------------------------------------------
(* enqueue() of a type without deduplication or quota: a plain insert.     *)
Encolar ==
    /\ \E j \in Ids, t \in Tipos : Insertar(j, t)
    /\ UNCHANGED <<vida, tarea, aislado, caidas, cortes>>

(* claim(): the loop asks for work only while nobody has asked it to stop. *)
Tomar(w) ==
    /\ vida[w] = "activo" /\ Puede(w) /\ ~Ocupado(w)
    /\ \E j \in Ids :
         /\ Reclamar(w, TiposADemanda, j)
         /\ tarea' = [tarea EXCEPT ![w] =
                        [fase |-> "handler", job |-> j,
                         intentos |-> jobs[j].intentos + 1, late |-> TRUE]]
    /\ UNCHANGED <<vida, aislado, caidas, cortes>>

(* A beat of latido(): a renewal that finds no lock ends the thread.       *)
Latir(w) ==
    /\ Puede(w) /\ tarea[w].fase = "handler" /\ tarea[w].late
    /\ RenovarLock(tarea[w].job, w)
    /\ tarea' = [tarea EXCEPT ![w].late = LockEs(tarea[w].job, w)]
    /\ UNCHANGED <<vida, aislado, caidas, cortes>>

(* ejecutar() returns or raises; leaving the block stops the heartbeat.    *)
HandlerTermina(w, fase) ==
    /\ vida[w] # "parado" /\ tarea[w].fase = "handler"
    /\ tarea' = [tarea EXCEPT ![w].fase = fase, ![w].late = FALSE]
    /\ UNCHANGED <<jobs, vida, aislado, caidas, cortes>>

Ack(w) ==
    /\ Puede(w) /\ tarea[w].fase = "ok"
    /\ MarcarTerminado(tarea[w].job)
    /\ tarea' = [tarea EXCEPT ![w] = Libre]
    /\ UNCHANGED <<vida, aislado, caidas, cortes>>

(* fail(): the attempts compared are those of the claimed snapshot.        *)
Fail(w) ==
    /\ Puede(w) /\ tarea[w].fase = "error"
    /\ IF tarea[w].intentos >= MaxIntentos
         THEN MarcarFallido(tarea[w].job)
         ELSE Reprogramar(tarea[w].job, Backoff(tarea[w].intentos))
    /\ tarea' = [tarea EXCEPT ![w] = Libre]
    /\ UNCHANGED <<vida, aislado, caidas, cortes>>

(* The closing statement itself raises: procesar_uno propagates it, the    *)
(* loop logs it and goes on, and the row stays as it was.                  *)
CierrePerdido(w) ==
    /\ vida[w] # "parado" /\ aislado[w] /\ tarea[w].fase \in {"ok", "error"}
    /\ tarea' = [tarea EXCEPT ![w] = Libre]
    /\ UNCHANGED <<jobs, vida, aislado, caidas, cortes>>

(* reclamar_caducados(), only between two batches of the same loop.        *)
Barrer(w) ==
    /\ vida[w] = "activo" /\ Puede(w) /\ ~Ocupado(w)
    /\ \E j \in Ids : Caducado(j)
    /\ ReclamarCaducados
    /\ UNCHANGED <<vida, tarea, aislado, caidas, cortes>>

(* detener(): the loop ends after the job in hand. *)
Detener(w) ==
    /\ vida[w] = "activo" /\ caidas < MaxCaidas
    /\ vida' = [vida EXCEPT ![w] = "parando"]
    /\ caidas' = caidas + 1
    /\ UNCHANGED <<jobs, tarea, aislado, cortes>>

Salir(w) ==
    /\ vida[w] = "parando" /\ ~Ocupado(w)
    /\ vida' = [vida EXCEPT ![w] = "parado"]
    /\ UNCHANGED <<jobs, tarea, aislado, caidas, cortes>>

(* The process dies, in the middle of anything. *)
Caer(w) ==
    /\ vida[w] # "parado" /\ caidas < MaxCaidas
    /\ vida' = [vida EXCEPT ![w] = "parado"]
    /\ tarea' = [tarea EXCEPT ![w] = Libre]
    /\ caidas' = caidas + 1
    /\ UNCHANGED <<jobs, aislado, cortes>>

Arrancar(w) ==
    /\ vida[w] = "parado"
    /\ vida' = [vida EXCEPT ![w] = "activo"]
    /\ UNCHANGED <<jobs, tarea, aislado, caidas, cortes>>

Aislar(w) ==
    /\ ~aislado[w] /\ cortes < MaxCortes
    /\ aislado' = [aislado EXCEPT ![w] = TRUE]
    /\ cortes' = cortes + 1
    /\ UNCHANGED <<jobs, vida, tarea, caidas>>

Reconectar(w) ==
    /\ aislado[w]
    /\ aislado' = [aislado EXCEPT ![w] = FALSE]
    /\ UNCHANGED <<jobs, vida, tarea, caidas, cortes>>

(* Time waits for the heartbeats and the closings of the consumers that    *)
(* reach the database: none of them is silent for more than MaxSilencio.   *)
Tick ==
    /\ \A w \in Consumidores :
         (Puede(w) /\ Ocupado(w) /\ LockEs(tarea[w].job, w))
            => jobs[tarea[w].job].silencio < MaxSilencio
    /\ PasaElTiempo
    /\ UNCHANGED <<vida, tarea, aislado, caidas, cortes>>

Paso(w) ==
    \/ Tomar(w)
    \/ Latir(w)
    \/ HandlerTermina(w, "ok")
    \/ HandlerTermina(w, "error")
    \/ Ack(w)
    \/ Fail(w)
    \/ CierrePerdido(w)
    \/ Barrer(w)
    \/ Salir(w)

Entorno(w) ==
    \/ Detener(w)
    \/ Caer(w)
    \/ Arrancar(w)
    \/ Aislar(w)
    \/ Reconectar(w)

Next ==
    \/ Encolar
    \/ Tick
    \/ \E w \in Consumidores : Paso(w) \/ Entorno(w)

Spec == Init /\ [][Next]_vars

(* The loop of a live process keeps running (a failed cycle is logged and  *)
(* repeated), handlers end, the platform restarts a process that is gone,  *)
(* and a lost database comes back.  Nothing forces a job to be enqueued, a *)
(* process to die or the database to be lost.                              *)
Fairness ==
    /\ WF_vars(Tick)
    /\ \A w \in Consumidores :
         /\ WF_vars(Tomar(w))
         /\ WF_vars(Latir(w))
         /\ WF_vars(HandlerTermina(w, "ok") \/ HandlerTermina(w, "error"))
         /\ WF_vars(Ack(w))
         /\ WF_vars(Fail(w))
         /\ WF_vars(CierrePerdido(w))
         /\ WF_vars(Barrer(w))
         /\ WF_vars(Salir(w))
         /\ WF_vars(Arrancar(w))
         /\ WF_vars(Reconectar(w))

FairSpec == Spec /\ Fairness

-----------------------------------------------------------------------------
(* While no consumer has lost the database, whoever executes or is closing *)
(* a job owns its row: it is running, locked by it, at the attempt it      *)
(* claimed.  Hence two consumers never execute the same job, whatever      *)
(* crashes, redeployments and sweeps happen (claim, latido, the sweep).    *)
LockDelEjecutor ==
    cortes = 0 =>
      \A w \in Consumidores : Ocupado(w) =>
         /\ LockEs(tarea[w].job, w)
         /\ tarea[w].intentos = jobs[tarea[w].job].intentos

(* The attempt number is a fencing token, lost locks included: no consumer *)
(* holds a number above its row's, and two consumers that execute the same *)
(* job always hold different numbers (reclamar counts the attempt in the   *)
(* statement that takes the lock, and nothing ever lowers the counter).    *)
IntentoEsFicha ==
    \A w \in Consumidores : Ocupado(w) =>
       /\ 1 <= tarea[w].intentos /\ tarea[w].intentos <= jobs[tarea[w].job].intentos
       /\ \A v \in Consumidores \ {w} :
            (Ocupado(v) /\ tarea[v].job = tarea[w].job)
               => tarea[v].intentos # tarea[w].intentos

(* What db/repositories/jobs.py:25-28 and services/jobs.py:467-469 say of  *)
(* the counter: no job is attempted more than JOBS_MAX_INTENTOS times.     *)
(* It holds until a consumer loses the database (JobQueue_proofs); after *)
(* that, its late fail closes by id and may reopen what another finished.  *)
IntentosAcotados == \A j \in Ids : jobs[j].intentos <= MaxIntentos

(* Every job that was enqueued for the worker ends done or failed, and     *)
(* stays so, in spite of crashes, redeployments and database losses.       *)
TodoTermina ==
    \A j \in Ids :
       <>[](jobs[j].tipo \in TiposADemanda => jobs[j].estado \in Terminales \union {"ausente"})

(* Up to the first loss of the database the queue keeps the promise of     *)
(* JobPromesa: one attempt at a time, at most JOBS_MAX_INTENTOS of them,   *)
(* failed only when they are used up, done and failed for good.            *)
Fase == [ausente |-> "nada", pending |-> "espera", running |-> "intento",
         done |-> "hecho", failed |-> "fallido"]

Promesa == INSTANCE JobPromesa
             WITH Jobs   <- Ids,
                  fase   <- [j \in Ids |-> Fase[jobs[j].estado]],
                  usados <- [j \in Ids |-> jobs[j].intentos],
                  roto   <- cortes > 0

CumplePromesa == Promesa!Spec
=============================================================================
