------------------------------ MODULE JobsTabla ------------------------------
(***************************************************************************)
(* The table `jobs` and the SQL statements of db/repositories/jobs.py, one *)
(* operator per statement.  Each statement is one transaction, so each     *)
(* operator is one atomic step of whoever calls it.                        *)
(*                                                                         *)
(* The two timestamps are kept relative to the server's NOW():             *)
(*   espera[j]   = run_after - NOW()   (the row is due when it is <= 0)    *)
(*   silencio[j] = NOW() - locked_at   (0 when the row has no lock)        *)
(* so a passing tick moves both, and the state space stays finite without  *)
(* bounding the clock.  A row due for longer than Horizonte, and a lock    *)
(* silent for longer than TTL, are not told apart any further.             *)
(***************************************************************************)
EXTENDS Integers

CONSTANTS
    MaxJobs,        \* bound: how many ids the sequence hands out
    Consumidores,   \* values of locked_by: the worker ids
    Nadie,          \* locked_by IS NULL
    Tipos,          \* job types
    TTL,            \* JOBS_LOCK_TTL_SEGUNDOS, in ticks
    MaxIntentos,    \* JOBS_MAX_INTENTOS
    BackoffBase,    \* JOBS_BACKOFF_BASE_SEGUNDOS, in ticks
    Horizonte       \* bound: ages of a due row that are told apart

ASSUME TablaAssumption ==
    /\ MaxJobs \in Nat \ {0}
    /\ TTL \in Nat \ {0}
    /\ MaxIntentos \in Nat \ {0}
    /\ Horizonte \in Nat
    /\ Nadie \notin Consumidores
    /\ Tipos # {}

(* The exponential of the backoff is a natural number: a fact of           *)
(* arithmetic the provers are not given.                                   *)
ASSUME BackoffAssumption ==
    \A n \in 0 .. MaxIntentos : BackoffBase * 2^n \in Nat

VARIABLE jobs       \* the table, a row per id

Ids == 1 .. MaxJobs

(* "ausente" is an id the sequence has not handed out yet. *)
Activos    == {"pending", "running"}
Terminales == {"done", "failed"}
Estados    == {"ausente"} \union Activos \union Terminales

Fila ==
    [ estado    : Estados,
      tipo      : Tipos,
      intentos  : Nat,
      espera    : Int,
      locked_by : Consumidores \union {Nadie},
      silencio  : Nat ]

TablaTypeOK == jobs \in [Ids -> Fila]

SinFila ==
    [ estado |-> "ausente", tipo |-> CHOOSE t \in Tipos : TRUE, intentos |-> 0,
      espera |-> 0, locked_by |-> Nadie, silencio |-> 0 ]

TablaInit == jobs = [j \in Ids |-> SinFila]

-----------------------------------------------------------------------------
(* What a statement writes in a row: taking its lock counts the attempt,   *)
(* closing it drops the lock.  A closed row's run_after is read by metrics *)
(* only and is not kept.                                                   *)
Tomada(f, w) ==
    [f EXCEPT !.estado = "running", !.intentos = @ + 1,
              !.locked_by = w, !.silencio = 0]

Suelta(f, estado, espera) ==
    [f EXCEPT !.estado = estado, !.espera = espera,
              !.locked_by = Nadie, !.silencio = 0]

(* INSERT INTO jobs: the next id of the sequence, pending and due now.     *)
Insertar(j, t) ==
    /\ jobs[j].estado = "ausente"
    /\ \A i \in Ids : i < j => jobs[i].estado # "ausente"
    /\ jobs' = [jobs EXCEPT ![j] = [@ EXCEPT !.estado = "pending", !.tipo = t]]

(* Mutant: whatever the state of the row. *)
ReclamablesSinEstado(ts) ==
    { j \in Ids : /\ jobs[j].estado # "ausente"
                  /\ jobs[j].espera <= 0
                  /\ jobs[j].tipo \in ts }

Reclamables(ts) ==
    { j \in Ids : /\ jobs[j].estado = "pending"
                  /\ jobs[j].espera <= 0
                  /\ jobs[j].tipo \in ts }

(* ORDER BY run_after, id *)
Antes(j, k) ==
    \/ jobs[j].espera < jobs[k].espera
    \/ jobs[j].espera = jobs[k].espera /\ j < k

(* The oldest due row of those types becomes running, locked by w.         *)
Reclamar(w, ts, j) ==
    /\ j \in Reclamables(ts)
    /\ \A k \in Reclamables(ts) \ {j} : Antes(j, k)
    /\ jobs' = [jobs EXCEPT ![j] = Tomada(@, w)]

(* WHERE id = j AND estado = 'running' AND locked_by = w: the row is still *)
(* this consumer's.                                                        *)
LockEs(j, w) == jobs[j].estado = "running" /\ jobs[j].locked_by = w

RenovarLock(j, w) ==
    jobs' = IF LockEs(j, w) THEN [jobs EXCEPT ![j].silencio = 0] ELSE jobs

(* The three closing statements look only at the id: neither the state nor *)
(* the holder of the row is a condition.                                   *)
Cerrar(j, estado, espera) ==
    jobs' = [jobs EXCEPT ![j] = Suelta(@, estado, espera)]

(* Mutant: a state the CHECK of the table does not know. *)
MarcarFallidoError(j) == Cerrar(j, "error", 0)

MarcarTerminado(j)     == Cerrar(j, "done", 0)
MarcarFallido(j)       == Cerrar(j, "failed", 0)
Reprogramar(j, espera) == Cerrar(j, "pending", espera)

(* Mutant: every running row, whatever its age. *)
CaducadoSinTTL(j) == jobs[j].estado = "running"

Caducado(j) == jobs[j].estado = "running" /\ jobs[j].silencio > TTL

(* Mutants: the sweep restarts the counter; it has no cap; it drops the    *)
(* lock and forgets the state.                                             *)
ReclamarCaducadosDeCero ==
    jobs' = [j \in Ids |->
               IF ~Caducado(j) THEN jobs[j]
               ELSE [Suelta(jobs[j], "pending", jobs[j].espera) EXCEPT !.intentos = 0]]

ReclamarCaducadosSinTope ==
    jobs' = [j \in Ids |->
               IF Caducado(j) THEN Suelta(jobs[j], "pending", jobs[j].espera) ELSE jobs[j]]

ReclamarCaducadosSinEstado ==
    jobs' = [j \in Ids |->
               IF Caducado(j) THEN Suelta(jobs[j], "running", jobs[j].espera) ELSE jobs[j]]

(* What the sweep does to a row: back to pending with its old run_after,   *)
(* or failed when the attempts are used up.                                *)
Barrida(f) ==
    IF f.intentos >= MaxIntentos
      THEN Suelta(f, "failed", 0)
      ELSE Suelta(f, "pending", f.espera)

(* One UPDATE over every expired lock, whatever its type.                  *)
ReclamarCaducados ==
    jobs' = [j \in Ids |-> IF Caducado(j) THEN Barrida(jobs[j]) ELSE jobs[j]]

(* services/jobs.py fail(): base * 2^(intentos - 1), with the attempt the  *)
(* caller claimed.                                                         *)
Backoff(intentos) == BackoffBase * 2^(intentos - 1)

(* The server's clock advances by one tick. *)
Envejecida(f) ==
    [f EXCEPT !.espera = IF f.estado \in Activos /\ @ > -Horizonte THEN @ - 1 ELSE @,
              !.silencio = IF f.estado = "running" /\ @ <= TTL THEN @ + 1 ELSE @]

PasaElTiempo == jobs' = [j \in Ids |-> Envejecida(jobs[j])]
=============================================================================
