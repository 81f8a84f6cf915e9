--------------------------------- MODULE Dlq ---------------------------------
(***************************************************************************)
(* The table `failed_extractions` and the statements of db/dlq.py, one     *)
(* operator per transaction.  Rows are kept in the order of created_at.    *)
(* A row's due time is reduced to whether it has come: every attempt moves *)
(* it to the future, requeueing moves it to the past.                      *)
(***************************************************************************)
EXTENDS Integers, Sequences, FiniteSets

CONSTANTS
    Entradas,       \* keys (fuente, scope, payload_ref)
    MaxFilas,       \* bound: rows of the table
    MaxReintentos   \* DLQ_MAX_RETRIES; retry_count is not told apart above it

ASSUME DlqAssumption == MaxFilas \in Nat \ {0} /\ MaxReintentos \in Nat \ {0}

VARIABLE dlq

Fila ==
    [ clave    : Entradas,
      intentos : 0 .. MaxReintentos,
      vencida  : BOOLEAN,                           \* the backoff has expired
      agotada  : BOOLEAN,                           \* exhausted_at IS NOT NULL
      resuelta : {"no", "reintento", "descarte"} ]  \* resolved_at, and who set it

DlqTypeOK == dlq \in Seq(Fila) /\ Len(dlq) <= MaxFilas

Filas     == DOMAIN dlq
Abierta(f) == f.resuelta = "no" /\ ~f.agotada
Abiertas  == { d \in Filas : Abierta(dlq[d]) }
AbiertasDe(k) == { d \in Abiertas : dlq[d].clave = k }

Nueva(k) == [clave |-> k, intentos |-> 0, vencida |-> FALSE, agotada |-> FALSE,
             resuelta |-> "no"]

Intentada(f) ==
    [f EXCEPT !.intentos = IF @ < MaxReintentos THEN @ + 1 ELSE @, !.vencida = FALSE]

(* Mutant: a new entry for each failure. *)
AnotarOtra(k) == dlq' = Append(dlq, Nueva(k))

(* record_failure(): one more attempt of the open entry, or a new one.     *)
Anotable(k) == AbiertasDe(k) # {} \/ Len(dlq) < MaxFilas
Anotar(k) ==
    IF AbiertasDe(k) # {}
    THEN dlq' = [d \in Filas |-> IF d \in AbiertasDe(k) THEN Intentada(dlq[d]) ELSE dlq[d]]
    ELSE dlq' = Append(dlq, Nueva(k))

(* The three unconditional UPDATEs by id. *)
MarcarResuelta(d) == dlq' = [dlq EXCEPT ![d].resuelta = "reintento"]
Incrementar(d)    == dlq' = [dlq EXCEPT ![d] = Intentada(@)]
AgotarIds(S)      == dlq' = [d \in Filas |-> [dlq[d] EXCEPT !.agotada = @ \/ d \in S]]

(* Mutant: nothing is ever used up. *)
NadaAgotable == {}

(* The SELECT of sweep_exhausted(). *)
Agotables == { d \in Abiertas : dlq[d].intentos >= MaxReintentos }

(* The newest `limite` of S: rows are in the order of created_at. *)
Ultimas(limite, S) == { d \in S : Cardinality({ k \in S : k > d }) < limite }

(* list_unresolved(): the newest `limite` open entries, without the        *)
(* excluded sources.                                                       *)
Listadas(limite, incluidas) ==
    Ultimas(limite, { d \in Abiertas : dlq[d].clave \in incluidas })

(* requeue(): what the SELECTs decide, and the UPDATE that comes after.    *)
Reencolable(d) ==
    /\ dlq[d].resuelta = "no"
    /\ dlq[d].agotada => AbiertasDe(dlq[d].clave) = {}

(* Mutant: the UPDATE trusts the SELECT. *)
ReencolarACiegas(d) ==
    dlq' = [dlq EXCEPT ![d] = [@ EXCEPT !.intentos = 0, !.vencida = TRUE, !.agotada = FALSE,
                                        !.resuelta = "no"]]

(* The UPDATE finds no row if it was resolved meanwhile, and violates      *)
(* idx_fail_unique_unresolved if a twin was opened meanwhile.              *)
Reencolar(d) ==
    IF dlq[d].resuelta # "no" \/ AbiertasDe(dlq[d].clave) \ {d} # {}
    THEN dlq' = dlq
    ELSE dlq' = [dlq EXCEPT ![d] = [@ EXCEPT !.intentos = 0, !.vencida = TRUE,
                                             !.agotada = FALSE]]

(* discard() *)
Descartar(d) ==
    dlq' = [dlq EXCEPT ![d].resuelta = IF @ = "no" THEN "descarte" ELSE @]

(* Time goes by: an open entry's backoff expires. *)
Vencer(d) ==
    /\ d \in Abiertas /\ ~dlq[d].vencida
    /\ dlq' = [dlq EXCEPT ![d].vencida = TRUE]
=============================================================================
