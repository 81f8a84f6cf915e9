----------------------------- MODULE PlanoCron ------------------------------
(***************************************************************************)
(* The cron plane of the worker (scheduler/cron_plane.py) for one job: the *)
(* instances that are alive at once during a deployment, the lock          *)
(* `cron:<job>`, the daemon thread _run_job leaves behind when it gives up *)
(* waiting (scheduler/loop.py), restarts, and a database that fails        *)
(* between two statements.  An instance may tick whenever it is waiting:   *)
(* its interval and its backoff only say when.                             *)
(***************************************************************************)
EXTENDS Cerrojos

CONSTANTS
    Instancias,     \* processes with SCHEDULER_PLANE = worker
    Muerta,         \* the holder of a process that is gone
    Cron,           \* the name of the job's lock
    TTL,            \* the job's budget: its timeout and its lock's TTL
    MaxAverias,     \* bound: statements that fail
    MaxCaidas       \* bound: deaths of a process

ASSUME PlanoAssumption ==
    /\ TTL \in 1 .. MaxTTL
    /\ Nombres = {Cron}
    /\ Duenos = Instancias \union {Muerta}
    /\ Muerta \notin Instancias
    /\ MaxAverias \in Nat /\ MaxCaidas \in Nat

VARIABLES
    pase,       \* per instance: its _con_lock in course
    hilo,       \* per instance: the thread in _active_jobs
    averias,
    caidas

vars == <<cerrojos, pase, hilo, averias, caidas>>

Pase ==
    [ paso   : {"espera", "lanzar", "join", "finally"},
      propio : BOOLEAN,     \* holder is not ""
      edad   : 0 .. TTL,    \* since the lock was asked for
      plazo  : 0 .. TTL ]   \* what is left of t.join(timeout)

(* An age is not told apart above TTL. *)
Hilo == [vivo : BOOLEAN, propio : BOOLEAN, edad : 0 .. TTL]

TypeOK ==
    /\ CerrojosTypeOK
    /\ pase \in [Instancias -> Pase]
    /\ hilo \in [Instancias -> Hilo]
    /\ averias \in 0 .. MaxAverias
    /\ caidas \in 0 .. MaxCaidas

EnEspera == [paso |-> "espera", propio |-> FALSE, edad |-> 0, plazo |-> 0]
SinHilo  == [vivo |-> FALSE, propio |-> FALSE, edad |-> 0]

Init ==
    /\ CerrojosInit
    /\ pase = [i \in Instancias |-> EnEspera]
    /\ hilo = [i \in Instancias |-> SinHilo]
    /\ averias = 0
    /\ caidas = 0

Falla == averias < MaxAverias /\ averias' = averias + 1

-----------------------------------------------------------------------------
(* tick() and the first half of _con_lock(): the lock is taken, or somebody *)
(* has it and the job waits for its next turn (no step), or the statement  *)
(* raises, written or not, and the job runs without it.                    *)
Empezado(i, propio) ==
    pase' = [pase EXCEPT ![i] =
               [paso |-> "lanzar", propio |-> propio, edad |-> 0, plazo |-> 0]]

Tomar(i) ==
    /\ pase[i].paso = "espera"
    /\ Adquirir(Cron, i, TTL)
    /\ Empezado(i, TRUE)
    /\ UNCHANGED <<hilo, averias, caidas>>

TomarAverias(i) ==
    /\ pase[i].paso = "espera"
    /\ Falla
    /\ Adquirir(Cron, i, TTL) \/ UNCHANGED cerrojos
    /\ Empezado(i, FALSE)
    /\ UNCHANGED <<hilo, caidas>>

(* _run_job(): a thread, unless the one before is alive. *)
Lanzar(i) ==
    /\ pase[i].paso = "lanzar"
    /\ IF hilo[i].vivo
       THEN /\ pase' = [pase EXCEPT ![i].paso = "finally"]
            /\ UNCHANGED hilo
       ELSE /\ pase' = [pase EXCEPT ![i] = [@ EXCEPT !.paso = "join", !.plazo = TTL]]
            /\ hilo' = [hilo EXCEPT ![i] =
                          [vivo |-> TRUE, propio |-> pase[i].propio, edad |-> pase[i].edad]]
    /\ UNCHANGED <<cerrojos, averias, caidas>>

(* t.join(timeout) comes back: the thread ended, or the time was up. *)
FinDelJoin(i) ==
    /\ pase[i].paso = "join"
    /\ ~hilo[i].vivo \/ pase[i].plazo = 0
    /\ pase' = [pase EXCEPT ![i].paso = "finally"]
    /\ UNCHANGED <<cerrojos, hilo, averias, caidas>>

(* The finally of _con_lock(): renewed while the thread is alive, released *)
(* if not; a failure of either is swallowed.                               *)
Finally(i) ==
    /\ pase[i].paso = "finally"
    /\ pase' = [pase EXCEPT ![i] = EnEspera]
    /\ \/ /\ ~pase[i].propio
          /\ UNCHANGED <<cerrojos, averias>>
       \/ /\ pase[i].propio /\ hilo[i].vivo
          /\ Renovar(Cron, i, TTL)
          /\ UNCHANGED averias
       \/ /\ pase[i].propio /\ ~hilo[i].vivo
          /\ Soltar(Cron, i)
          /\ UNCHANGED averias
       \/ /\ pase[i].propio
          /\ Falla
          /\ UNCHANGED cerrojos
    /\ UNCHANGED <<hilo, caidas>>

-----------------------------------------------------------------------------
(* The job returns or raises: nobody can make it. *)
Terminar(i) ==
    /\ hilo[i].vivo
    /\ hilo' = [hilo EXCEPT ![i] = SinHilo]
    /\ UNCHANGED <<cerrojos, pase, averias, caidas>>

(* The process dies with its threads; its row stays, under a name (host    *)
(* and pid) nobody bears any more, and a new process takes its place.      *)
Caida(i) ==
    /\ caidas < MaxCaidas
    /\ caidas' = caidas + 1
    /\ cerrojos' = [n \in Nombres |->
                      [cerrojos[n] EXCEPT !.dueno = IF @ = i THEN Muerta ELSE @]]
    /\ pase' = [pase EXCEPT ![i] = EnEspera]
    /\ hilo' = [hilo EXCEPT ![i] = SinHilo]
    /\ UNCHANGED averias

Mas(n) == IF n < TTL THEN n + 1 ELSE TTL

Tiempo ==
    /\ CerrojosEnvejecen
    /\ pase' = [i \in Instancias |->
                  [pase[i] EXCEPT !.edad  = IF pase[i].paso = "lanzar" THEN Mas(@) ELSE @,
                                  !.plazo = IF @ > 0 THEN @ - 1 ELSE 0]]
    /\ hilo' = [i \in Instancias |->
                  [hilo[i] EXCEPT !.edad = IF hilo[i].vivo THEN Mas(@) ELSE 0]]
    /\ UNCHANGED <<averias, caidas>>

Instancia(i) == Tomar(i) \/ TomarAverias(i) \/ Lanzar(i) \/ FinDelJoin(i) \/ Finally(i)

Next ==
    \/ \E i \in Instancias : Instancia(i) \/ Terminar(i) \/ Caida(i)
    \/ Tiempo

Spec == Init /\ [][Next]_vars

(* The loop of each instance goes on, time goes by, and a job comes back   *)
(* some day: the code cannot make it, and a job that never does keeps its  *)
(* own instance from running it again.                                     *)
FairSpec ==
    /\ Spec
    /\ WF_vars(Tiempo)
    /\ \A i \in Instancias :
         /\ WF_vars(Tomar(i) \/ Lanzar(i) \/ FinDelJoin(i))
         /\ WF_vars(Finally(i))
         /\ WF_vars(Terminar(i))

-----------------------------------------------------------------------------
(* Two instances run the job at once only if one of them has been at it    *)
(* for the whole TTL, or could not take the lock (cron_plane.py:177, the   *)
(* ownership checks of job_locks.py:92 and 139).                           *)
SolapeSoloSiTarda ==
    \A i, k \in Instancias :
        (i # k /\ hilo[i].vivo /\ hilo[k].vivo) =>
            \E x \in {i, k} : hilo[x].edad = TTL \/ ~hilo[x].propio

(* The cron never goes quiet: whatever was left in the table by a death, a *)
(* timeout or a failed release, the job is launched again                  *)
(* (cron_plane.py:164, run_forever).                                       *)
SiempreVuelve == []<>(\E i \in Instancias : pase[i].paso = "join")
=============================================================================
