------------------------------ MODULE Reintentos ------------------------------
(***************************************************************************)
(* The retry of the DLQ (scheduler/dlq_retry.py) in the daily lane: passes *)
(* over the feed put failures in the queue, each cycle sweeps the used up  *)
(* ones and runs the connector again for those whose backoff expired.  One *)
(* process at a time, which may die at any step; beside it, notices are    *)
(* published, the parser is repaired, backoffs expire and an administrator *)
(* requeues or discards entries (api/routes/admin_dlq.py).                 *)
(***************************************************************************)
EXTENDS Pasada

CONSTANTS
    LoteReintentos, \* DLQ_BATCH_SIZE
    MaxOrdenes      \* bound: operations of the administrator

ASSUME ReintentosAssumption == LoteReintentos \in Nat \ {0} /\ MaxOrdenes \in Nat

VARIABLES
    caida,      \* the source stopped answering, for good
    ciclo,      \* where the process is
    panel,      \* requeue() between its SELECTs and its UPDATE
    ordenes     \* operations of the administrator so far

reintentosVars == <<lectura, entorno, caida, ciclo, panel, ordenes>>

Ciclo ==
    [ paso     : {"libre", "ingesta", "barrer", "agotar", "listar", "reintento"},
      elegidas : SUBSET (1 .. MaxFilas),    \* what the sweep selected
      cola     : SUBSET (1 .. MaxFilas) ]   \* entries left to retry, newest first

ReintentosTypeOK ==
    /\ PasadaTypeOK
    /\ caida \in BOOLEAN
    /\ ciclo \in Ciclo
    /\ panel \in 0 .. MaxFilas
    /\ ordenes \in 0 .. MaxOrdenes

CicloLibre == [paso |-> "libre", elegidas |-> {}, cola |-> {}]

ReintentosInit ==
    /\ PasadaInit
    /\ caida = FALSE
    /\ ciclo = CicloLibre
    /\ panel = 0
    /\ ordenes = 0

tablasIngesta == <<cursor, guardado, alcanzado, noAnotados, huecos>>
escrito == <<tablasIngesta, averias>>
fuera == <<entorno, caida, panel, ordenes>>

-----------------------------------------------------------------------------
(* The ingestion of the lane. *)
EmpezarCiclo ==
    /\ ciclo.paso = "libre"
    /\ EmpezarFeed
    /\ ciclo' = [CicloLibre EXCEPT !.paso = "ingesta"]
    /\ UNCHANGED <<tablasIngesta, dlq, fuera>>

IngerirEnCiclo ==
    /\ \/ ~caida /\ Avanzar
       \/ Fallar
       \/ caida /\ Abortar /\ UNCHANGED averias
    /\ UNCHANGED <<entorno, caida, ciclo, panel, ordenes>>

TrasIngesta ==
    /\ ciclo.paso = "ingesta" /\ pasada.fase = "cerrada"
    /\ pasada' = Parada
    /\ ciclo' = [CicloLibre EXCEPT !.paso = "barrer"]
    /\ UNCHANGED <<escrito, dlq, fuera>>

(* sweep_exhausted(): the SELECT, and the UPDATE by id. *)
Barrer ==
    /\ ciclo.paso = "barrer"
    /\ ciclo' = [ciclo EXCEPT !.paso = IF Agotables = {} THEN "listar" ELSE "agotar",
                              !.elegidas = Agotables]
    /\ UNCHANGED <<lectura, fuera>>

Agotar ==
    /\ ciclo.paso = "agotar"
    /\ AgotarIds(ciclo.elegidas)
    /\ ciclo' = [ciclo EXCEPT !.paso = "listar", !.elegidas = {}]
    /\ UNCHANGED <<escrito, pasada, fuera>>

(* The due ones among the newest 3 * batch, not the newest due ones.  The  *)
(* daily lane leaves out the bulk_ sources.                                *)
Elegidas ==
    Ultimas(LoteReintentos,
            { d \in Listadas(3 * LoteReintentos, EntradasDe(Feed)) : dlq[d].vencida })

Listar ==
    /\ ciclo.paso = "listar"
    /\ ciclo' = IF Elegidas = {} THEN CicloLibre
                ELSE [ciclo EXCEPT !.paso = "reintento", !.cola = Elegidas]
    /\ UNCHANGED <<lectura, fuera>>

(* dispatch_retry(): the whole connector, from its cursor. *)
Reintentar ==
    /\ ciclo.paso = "reintento" /\ pasada.fase = "parada"
    /\ EmpezarFeed
    /\ UNCHANGED <<tablasIngesta, dlq, ciclo, fuera>>

(* A run without errors resolves the entry. *)
CerrarReintento(d) == IF pasada.errores THEN Incrementar(d) ELSE MarcarResuelta(d)

TrasReintento ==
    /\ ciclo.paso = "reintento" /\ pasada.fase = "cerrada"
    /\ \E d \in Ultimas(1, ciclo.cola) :
         /\ CerrarReintento(d)
         /\ ciclo' = IF ciclo.cola = {d} THEN CicloLibre ELSE [ciclo EXCEPT !.cola = @ \ {d}]
    /\ pasada' = Parada
    /\ UNCHANGED <<escrito, fuera>>

(* Wherever the process is, it dies; the next one starts over. *)
MorirCiclo ==
    /\ ciclo.paso # "libre"
    /\ Morir
    /\ ciclo' = CicloLibre
    /\ UNCHANGED fuera

-----------------------------------------------------------------------------
PublicarUno ==
    /\ EnFeed < MaxAvisos
    /\ publicado' = Append(publicado, 1)
    /\ UNCHANGED <<lectura, rotos, asc, caida, ciclo, panel, ordenes>>

CaerFuente ==
    /\ ~caida
    /\ caida' = TRUE
    /\ UNCHANGED <<lectura, entorno, ciclo, panel, ordenes>>

(* A new version of the parser, between two processes. *)
ArreglarParser ==
    /\ ciclo.paso = "libre" /\ rotos # {}
    /\ rotos' = {}
    /\ UNCHANGED <<lectura, publicado, asc, caida, ciclo, panel, ordenes>>

VenceEspera ==
    /\ \E d \in Filas : Vencer(d)
    /\ UNCHANGED <<escrito, pasada, ciclo, fuera>>

(* POST /dlq/{id}/reintentar: what the SELECTs of requeue() find ... *)
PedirReencolado ==
    /\ panel = 0 /\ ordenes < MaxOrdenes
    /\ \E d \in Filas : Reencolable(d) /\ panel' = d
    /\ ordenes' = ordenes + 1
    /\ UNCHANGED <<lectura, entorno, caida, ciclo>>

(* ... and its UPDATE. *)
AplicarReencolado ==
    /\ panel # 0
    /\ Reencolar(panel)
    /\ panel' = 0
    /\ UNCHANGED <<escrito, pasada, entorno, caida, ciclo, ordenes>>

(* POST /dlq/{id}/descartar *)
PedirDescarte ==
    /\ ordenes < MaxOrdenes
    /\ \E d \in Filas : dlq[d].resuelta = "no" /\ Descartar(d)
    /\ ordenes' = ordenes + 1
    /\ UNCHANGED <<escrito, pasada, entorno, caida, ciclo, panel>>

ProcesoReintentos ==
    \/ EmpezarCiclo \/ IngerirEnCiclo \/ TrasIngesta
    \/ Barrer \/ Agotar \/ Listar \/ Reintentar \/ TrasReintento

ReintentosNext ==
    \/ ProcesoReintentos \/ MorirCiclo
    \/ PublicarUno \/ CaerFuente \/ ArreglarParser \/ VenceEspera
    \/ PedirReencolado \/ AplicarReencolado \/ PedirDescarte

ReintentosSpec == ReintentosInit /\ [][ReintentosNext]_reintentosVars

(* The lane is launched every four hours and each step of it ends;         *)
(* backoffs expire.  Nothing is published, repaired, ordered or broken of  *)
(* necessity.                                                              *)
ReintentosFairSpec ==
    /\ ReintentosSpec
    /\ WF_reintentosVars(ProcesoReintentos)
    /\ WF_reintentosVars(VenceEspera)
    /\ WF_reintentosVars(AplicarReencolado)

-----------------------------------------------------------------------------
(* Closing an entry is final: a requeueing that read it open before it was *)
(* resolved does not open it again (dlq.py:205-256).                       *)
ResueltaEsFinal ==
    [][\A d \in Filas : dlq[d].resuelta # "no" => dlq'[d].resuelta # "no"]_reintentosVars

(* No entry stays in the retry queue for ever: it is resolved, discarded   *)
(* or used up (dlq_retry.py:249-341).                                      *)
TodaEntradaSale ==
    \A d \in 1 .. MaxFilas :
       (d \in Abiertas /\ dlq[d].clave.fuente = Feed) ~> (d \notin Abiertas)
=============================================================================
