------------------------------ MODULE Cerrojos ------------------------------
(***************************************************************************)
(* The table `job_locks` and the statements of db/job_locks.py, one        *)
(* operator per transaction.  expires_at is kept relative to the clock, as *)
(* the time that is left: 0 is expired, however long ago.                  *)
(***************************************************************************)
EXTENDS Integers

CONSTANTS
    Nombres,    \* names of locks
    Duenos,     \* values of `holder`
    Libre,      \* no row
    MaxTTL      \* bound: the longest TTL asked for

ASSUME CerrojosAssumption == MaxTTL \in Nat \ {0} /\ Libre \notin Duenos

VARIABLE cerrojos

Cerrojo == [dueno : Duenos \union {Libre}, resta : 0 .. MaxTTL]
SinCerrojo == [dueno |-> Libre, resta |-> 0]

CerrojosTypeOK == cerrojos \in [Nombres -> Cerrojo]
CerrojosInit == cerrojos = [n \in Nombres |-> SinCerrojo]

(* Mutants: a row is never given up, expired or not; and the release of    *)
(* whoever holds it now.                                                   *)
AdquiribleSiNoHay(n) == cerrojos[n].dueno = Libre
EsDeCualquiera(n, h) == cerrojos[n].dueno # Libre

Vigente(n) == cerrojos[n].resta > 0
EsDe(n, h) == cerrojos[n].dueno = h

(* acquire(): INSERT .. ON CONFLICT DO UPDATE .. WHERE expires_at <= now.  *)
(* The holder of the row is no condition: a holder does not re-enter.      *)
Adquirible(n) == ~Vigente(n)
Adquirir(n, h, ttl) ==
    /\ Adquirible(n)
    /\ cerrojos' = [cerrojos EXCEPT ![n] = [dueno |-> h, resta |-> ttl]]

(* release(), release_many() and renew() look at the name and the holder,  *)
(* and not at whether the row has expired.                                 *)
SoltarVarios(S, h) ==
    cerrojos' = [n \in Nombres |->
                   IF n \in S /\ EsDe(n, h) THEN SinCerrojo ELSE cerrojos[n]]
Soltar(n, h) == SoltarVarios({n}, h)

Renovar(n, h, ttl) ==
    cerrojos' = IF EsDe(n, h) THEN [cerrojos EXCEPT ![n].resta = ttl] ELSE cerrojos

(* The clock advances by one tick. *)
CerrojosEnvejecen ==
    cerrojos' = [n \in Nombres |->
                   [cerrojos[n] EXCEPT !.resta = IF @ > 0 THEN @ - 1 ELSE 0]]
=============================================================================
