----------------------------- MODULE JobPromesa -----------------------------
(***************************************************************************)
(* What the job queue promises to whoever enqueues, without consumers,     *)
(* locks or time: a job waits, is attempted, and each attempt ends in      *)
(* success, in another wait, or in giving up once every attempt is used.   *)
(* The promise holds until it is declared broken (roto): a consumer that   *)
(* lost the database may close a job that is no longer its own.            *)
(***************************************************************************)
EXTENDS Naturals

CONSTANTS Jobs, MaxIntentos

VARIABLES
    fase,       \* per job
    usados,     \* per job: attempts begun
    roto        \* the promise no longer binds

vars == <<fase, usados, roto>>

Init ==
    /\ fase = [j \in Jobs |-> "nada"]
    /\ usados = [j \in Jobs |-> 0]
    /\ roto = FALSE

Pasa(j, de, a) == fase[j] = de /\ fase'[j] = a

Encolado(j) == Pasa(j, "nada", "espera") /\ usados'[j] = usados[j]

Intento(j) ==
    /\ Pasa(j, "espera", "intento")
    /\ usados[j] < MaxIntentos
    /\ usados'[j] = usados[j] + 1

Exito(j) == Pasa(j, "intento", "hecho") /\ usados'[j] = usados[j]

Reintento(j) ==
    /\ Pasa(j, "intento", "espera")
    /\ usados[j] < MaxIntentos
    /\ usados'[j] = usados[j]

Abandono(j) ==
    /\ Pasa(j, "intento", "fallido")
    /\ usados[j] = MaxIntentos
    /\ usados'[j] = usados[j]

Quieto(j) == fase'[j] = fase[j] /\ usados'[j] = usados[j]

(* Jobs are independent: one step may move several (a sweep does). *)
Cumple ==
    /\ \A j \in Jobs :
         Quieto(j) \/ Encolado(j) \/ Intento(j) \/ Exito(j) \/ Reintento(j) \/ Abandono(j)
    /\ roto' = roto

Rompe == roto'

Spec == Init /\ [][Cumple \/ Rompe]_vars
=============================================================================
