------------------------------ MODULE Webhooks ------------------------------
(***************************************************************************)
(* The deliveries of one webhook (db/webhooks.py, db/repositories/         *)
(* webhooks.py, shared/webhook_retry.py, scheduler/jobs/                   *)
(* webhook_reintentos.py).                                                 *)
(*                                                                         *)
(* An emitter makes the first attempt and writes the row afterwards; the   *)
(* retry pass reads the overdue rows once and sends them one by one; the   *)
(* owner of the webhook redelivers, deactivates, reactivates or deletes    *)
(* it meanwhile.  A request, its row and the webhook's failure count are   *)
(* three steps, and a process may die between any two of them.             *)
(***************************************************************************)
EXTENDS Naturals, FiniteSets

CONSTANTS
    MaxEntregas,    \* bound: deliveries
    Emisores,       \* callers of entregar_firmado: outbox passes, watchlist alerts
    Reintentador,   \* the pass of webhook_reintentos; the scrape group runs one
    Lote,           \* MAX_POR_PASADA
    MaxIntentos,    \* MAX_INTENTOS
    Umbral,         \* _MAX_FAILURES_BEFORE_DISABLE
    MaxClics,       \* bound: manual redeliveries, pings and (de)activations
    MaxCaidas       \* bound: processes that die

ASSUME WebhooksAssumption ==
    /\ MaxEntregas \in Nat
    /\ IsFiniteSet(Emisores) /\ Reintentador \notin Emisores
    /\ Lote \in Nat \ {0}
    /\ MaxIntentos \in Nat \ {0}
    /\ Umbral \in Nat \ {0}
    /\ MaxClics \in Nat
    /\ MaxCaidas \in Nat

VARIABLES
    webhook,    \* its row
    entrega,    \* webhook_deliveries, a row per delivery
    intento,    \* per process: the attempt in its hands
    lote,       \* what the retry pass read and has not sent: <<id, intentos>>
    enviadas,   \* per delivery: requests that went out (observed)
    sabidas,    \* deliveries the receiver accepted, but for those whose sender
                \* died before it wrote the answer down (observed)
    clics,      \* per delivery: manual redeliveries accepted (observed)
    definitivos,\* failures that exhausted a delivery, were blocked, or were
                \* of a ping (observed)
    ediciones,  \* redeliveries, pings and (de)activations so far
    caidas      \* processes that died so far

vars == <<webhook, entrega, intento, lote, enviadas, sabidas, clics,
          definitivos, ediciones, caidas>>

Entregas == 1 .. MaxEntregas
Procesos == Emisores \union {Reintentador}
Estados  == {"pending", "delivered", "failed"}

(* toca: proximo_intento <= NOW.  "nada": there is no row. *)
Fila    == [estado : Estados \union {"nada"}, intentos : Nat, toca : BOOLEAN]
Intento == [ fase    : {"libre", "enviar", "anotar", "contar"},
             entrega : Entregas \union {0},
             hechos  : Nat,         \* attempts made, this one included
             exito   : BOOLEAN ]

TypeOK ==
    /\ webhook \in [existe : BOOLEAN, activo : BOOLEAN, fallos : Nat]
    /\ entrega \in [Entregas -> Fila]
    /\ intento \in [Procesos -> Intento]
    /\ lote \subseteq Entregas \X Nat
    /\ sabidas \subseteq Entregas
    /\ enviadas \in [Entregas -> Nat] /\ clics \in [Entregas -> Nat]
    /\ definitivos \in Nat /\ ediciones \in Nat /\ caidas \in Nat

SinFila == [estado |-> "nada", intentos |-> 0, toca |-> FALSE]
Libre   == [fase |-> "libre", entrega |-> 0, hechos |-> 0, exito |-> FALSE]

Init ==
    /\ webhook = [existe |-> TRUE, activo |-> TRUE, fallos |-> 0]
    /\ entrega = [e \in Entregas |-> SinFila]
    /\ intento = [p \in Procesos |-> Libre]
    /\ lote = {}
    /\ enviadas = [e \in Entregas |-> 0] /\ sabidas = {}
    /\ clics = [e \in Entregas |-> 0]
    /\ definitivos = 0 /\ ediciones = 0 /\ caidas = 0

-----------------------------------------------------------------------------
SinEsperaMas(n) == n > MaxIntentos + 1      \* mutant: off by one

(* espera_para(intento) is None: no attempt of that number is made.        *)
SinEspera(n) == n > MaxIntentos

(* decidir(): the fate of a delivery after an attempt.                     *)
Decidir(exito, hechos) ==
    IF exito THEN "delivered" ELSE IF SinEspera(hechos + 1) THEN "failed" ELSE "pending"

Definitivo(i) == ~i.exito /\ Decidir(FALSE, i.hechos) = "failed"

(* Mutant: the query also asks for attempts left. *)
VencidasConTope == { e \in Entregas : /\ entrega[e].estado = "pending" /\ entrega[e].toca
                                      /\ entrega[e].intentos < MaxIntentos }

Vencidas == { e \in Entregas : entrega[e].estado = "pending" /\ entrega[e].toca }

(* Attempts of a delivery whose request is out and not written down yet.   *)
EnVuelo(e) == { p \in Procesos : intento[p].fase = "anotar" /\ intento[p].entrega = e }

(* Ids no process has used yet: delivery_uid is fresh in every emission.   *)
Nuevas == { e \in Entregas : /\ entrega[e].estado = "nada" /\ enviadas[e] = 0
                             /\ \A p \in Procesos : intento[p].entrega # e }

Fase(p, f) == intento[p].fase = f

(* The attempt is over for its process. *)
Deja(p) == intento' = [intento EXCEPT ![p] = Libre]

-----------------------------------------------------------------------------
(* The emitter reads the active subscribers and begins a delivery.         *)
Emitir(p) ==
    /\ p \in Emisores /\ Fase(p, "libre")
    /\ webhook.existe /\ webhook.activo
    /\ \E e \in Nuevas :
         /\ \A f \in Nuevas : e <= f
         /\ intento' = [intento EXCEPT ![p] =
              [fase |-> "enviar", entrega |-> e, hechos |-> 1, exito |-> FALSE]]
    /\ UNCHANGED <<webhook, entrega, lote, enviadas, sabidas, clics, definitivos,
                   ediciones, caidas>>

(* pendientes_de_reintento(): up to Lote overdue rows, read once.          *)
Leer ==
    /\ Fase(Reintentador, "libre") /\ lote = {} /\ Vencidas # {}
    /\ \E S \in SUBSET Vencidas :
         /\ Cardinality(S) = (IF Cardinality(Vencidas) < Lote
                              THEN Cardinality(Vencidas) ELSE Lote)
         /\ lote' = { <<e, entrega[e].intentos>> : e \in S }
    /\ UNCHANGED <<webhook, entrega, intento, enviadas, sabidas, clics, definitivos,
                   ediciones, caidas>>

(* reenviar() of the next of them: the attempts made are those of the copy *)
(* plus one.  A webhook deleted meanwhile took its rows with it: marking   *)
(* them is a no-op.                                                        *)
Reenviar ==
    /\ Fase(Reintentador, "libre")
    /\ \E x \in lote :
         /\ lote' = lote \ {x}
         /\ intento' = IF ~webhook.existe THEN intento
                       ELSE [intento EXCEPT ![Reintentador] =
                              [fase |-> "enviar", entrega |-> x[1],
                               hechos |-> x[2] + 1, exito |-> FALSE]]
    /\ UNCHANGED <<webhook, entrega, enviadas, sabidas, clics, definitivos,
                   ediciones, caidas>>

(* _intentar_entrega(): the request, and its answer. *)
Enviar(p, exito) ==
    /\ Fase(p, "enviar")
    /\ enviadas' = [enviadas EXCEPT ![intento[p].entrega] = @ + 1]
    /\ sabidas' = IF exito THEN sabidas \union {intento[p].entrega} ELSE sabidas
    /\ intento' = [intento EXCEPT ![p].fase = "anotar", ![p].exito = exito]
    /\ UNCHANGED <<webhook, entrega, lote, clics, definitivos, ediciones, caidas>>

(* Mutant: the retry does not count itself. *)
ReintentadaSinContar(f, estado) ==
    IF f.estado = "nada" THEN f ELSE [f EXCEPT !.estado = estado, !.toca = FALSE]

(* marcar_para_reintento(): UPDATE of a row, nothing if there is none.     *)
Reintentada(f, estado) ==
    IF f.estado = "nada" THEN f
    ELSE [estado |-> estado, toca |-> FALSE, intentos |-> f.intentos + 1]

(* validate_outbound_url() rejects the destination: a first attempt leaves *)
(* no row and counts as a failure, a retry ends its row and counts nothing. *)
Bloquear(p) ==
    /\ Fase(p, "enviar")
    /\ IF p \in Emisores
         THEN /\ intento' = [intento EXCEPT ![p].fase = "contar", ![p].hechos = MaxIntentos]
              /\ definitivos' = definitivos + 1
              /\ UNCHANGED entrega
         ELSE /\ Deja(p)
              /\ entrega' = [entrega EXCEPT ![intento[p].entrega] = Reintentada(@, "failed")]
              /\ UNCHANGED definitivos
    /\ UNCHANGED <<webhook, lote, enviadas, sabidas, clics, ediciones, caidas>>

(* crear_entrega() inserts the row of a first attempt, unless the INSERT   *)
(* fails, which is only logged; marcar_para_reintento() updates the row of *)
(* a retry, if it is still there, whatever its state.                      *)
Anotar(p) ==
    /\ Fase(p, "anotar")
    /\ LET i == intento[p]
           estado == Decidir(i.exito, i.hechos)
       IN  /\ IF p \in Emisores
                THEN \/ webhook.existe /\ entrega' = [entrega EXCEPT ![i.entrega] =
                                                     [estado |-> estado, toca |-> FALSE,
                                                      intentos |-> 1]]
                     \/ UNCHANGED entrega
                ELSE entrega' = [entrega EXCEPT ![i.entrega] = Reintentada(@, estado)]
           /\ definitivos' = definitivos + (IF Definitivo(i) THEN 1 ELSE 0)
    /\ intento' = [intento EXCEPT ![p].fase = "contar"]
    /\ UNCHANGED <<webhook, lote, enviadas, sabidas, clics, ediciones, caidas>>

(* A failure that counts: at the threshold the webhook is disabled. *)
Suma(w) == [w EXCEPT !.fallos = w.fallos + 1, !.activo = w.activo /\ w.fallos + 1 < Umbral]

(* Mutant: every failed attempt counts, as before C2.4. *)
TrasIntentoTodo(w, i) == IF i.exito THEN [w EXCEPT !.fallos = 0] ELSE Suma(w)

(* _record_delivery() and marcar_webhook_tras_intento(): what an attempt   *)
(* does to failure_count and active.                                       *)
TrasIntento(w, i) ==
    IF i.exito THEN [w EXCEPT !.fallos = 0]
    ELSE IF Definitivo(i) THEN Suma(w) ELSE w

Contar(p) ==
    /\ Fase(p, "contar")
    /\ webhook' = IF webhook.existe THEN TrasIntento(webhook, intento[p]) ELSE webhook
    /\ Deja(p)
    /\ UNCHANGED <<entrega, lote, enviadas, sabidas, clics, definitivos, ediciones, caidas>>

(* The backoff of a pending delivery goes by. *)
Vencer(e) ==
    /\ entrega[e].estado = "pending" /\ ~entrega[e].toca
    /\ entrega' = [entrega EXCEPT ![e].toca = TRUE]
    /\ UNCHANGED <<webhook, intento, lote, enviadas, sabidas, clics, definitivos,
                   ediciones, caidas>>

-----------------------------------------------------------------------------
ReenviableSiempre(e) == entrega[e].estado \in Estados       \* mutant: delivered ones too

Reenviable(e) == entrega[e].estado \in Estados \ {"delivered"}

(* POST .../redeliver answered 202: encolar_reintento().                   *)
EncolarReintento(e) ==
    /\ ediciones < MaxClics
    /\ Reenviable(e)
    /\ entrega' = [entrega EXCEPT ![e].estado = "pending", ![e].toca = TRUE]
    /\ clics' = [clics EXCEPT ![e] = @ + 1]
    /\ ediciones' = ediciones + 1
    /\ UNCHANGED <<webhook, intento, lote, enviadas, sabidas, definitivos, caidas>>

(* PATCH active: the failure count is left as it is. *)
Activar(valor) ==
    /\ ediciones < MaxClics /\ webhook.existe /\ webhook.activo # valor
    /\ webhook' = [webhook EXCEPT !.activo = valor]
    /\ ediciones' = ediciones + 1
    /\ UNCHANGED <<entrega, intento, lote, enviadas, sabidas, clics, definitivos, caidas>>

(* DELETE: its deliveries go in cascade. *)
Borrar ==
    /\ webhook.existe
    /\ webhook' = [webhook EXCEPT !.existe = FALSE]
    /\ entrega' = [e \in Entregas |-> SinFila]
    /\ UNCHANGED <<intento, lote, enviadas, sabidas, clics, definitivos, ediciones, caidas>>

(* POST .../ping: an attempt apart, with no row to retry.  record_delivery *)
(* counts any failure of it, and disables the webhook at the threshold.    *)
Ping(exito) ==
    /\ ediciones < MaxClics /\ webhook.existe
    /\ webhook' = IF exito THEN [webhook EXCEPT !.fallos = 0] ELSE Suma(webhook)
    /\ definitivos' = definitivos + (IF exito THEN 0 ELSE 1)
    /\ ediciones' = ediciones + 1
    /\ UNCHANGED <<entrega, intento, lote, enviadas, sabidas, clics, caidas>>

(* A process dies, or a statement of it raises: the pass ends with it, and *)
(* an answer it had not written down is lost.                              *)
Morir(p) ==
    /\ caidas < MaxCaidas
    /\ ~Fase(p, "libre") \/ (p = Reintentador /\ lote # {})
    /\ Deja(p)
    /\ sabidas' = IF Fase(p, "anotar") THEN sabidas \ {intento[p].entrega} ELSE sabidas
    /\ lote' = IF p = Reintentador THEN {} ELSE lote
    /\ caidas' = caidas + 1
    /\ UNCHANGED <<webhook, entrega, enviadas, clics, definitivos, ediciones>>

Sigue(p) ==
    \/ Enviar(p, TRUE)
    \/ Enviar(p, FALSE)
    \/ Bloquear(p)
    \/ Anotar(p)
    \/ Contar(p)

Next ==
    \/ \E p \in Procesos : Emitir(p) \/ Sigue(p) \/ Morir(p)
    \/ Leer
    \/ Reenviar
    \/ \E e \in Entregas : Vencer(e) \/ EncolarReintento(e)
    \/ \E valor \in BOOLEAN : Activar(valor) \/ Ping(valor)
    \/ Borrar

Spec == Init /\ [][Next]_vars

(* Time goes by, an attempt that began goes on (a request has a timeout),  *)
(* and every closing runs a retry pass.  Nothing forces a delivery to be   *)
(* emitted, an endpoint to answer, or the owner to act.                    *)
Fairness ==
    /\ \A e \in Entregas : WF_vars(Vencer(e))
    /\ \A p \in Procesos : WF_vars(Sigue(p))
    /\ WF_vars(Leer)
    /\ WF_vars(Reenviar)

FairSpec == Spec /\ Fairness

-----------------------------------------------------------------------------
(* The counter of a delivery never misses a request that went out, except  *)
(* the one in flight and one per process that died, so the cap limits what *)
(* the receiver sees (marcar_para_reintento counts in the UPDATE itself).  *)
NoSeEnviaSinContar ==
    \A e \in Entregas : entrega[e].estado # "nada" =>
       enviadas[e] <= entrega[e].intentos + Cardinality(EnVuelo(e)) + caidas

(* A delivery is attempted at most MAX_INTENTOS times by the system, and   *)
(* once more per manual redelivery: redelivering does not restart the six. *)
IntentosAcotados ==
    \A e \in Entregas : entrega[e].intentos <= MaxIntentos + clics[e]

(* C2.4: the failure count of a webhook grows by deliveries exhausted and  *)
(* by pings of its owner that failed, never by the attempts of a delivery  *)
(* that is still to be retried: a receiver that comes back in time does    *)
(* not get disabled by its own retries.                                    *)
SoloCuentaLoDefinitivo ==
    webhook.fallos + Cardinality({ p \in Procesos : Fase(p, "contar") /\ Definitivo(intento[p]) })
       <= definitivos

(* What the receiver accepted is over, from its answer on and not only from *)
(* the row that records it: neither the retry pass, nor a manual redelivery *)
(* in between, nor a row that could not be inserted sends it again, and the *)
(* row is not reopened.  The one exception is an answer that is lost with  *)
(* its sender before it is written: that delivery is still pending and is  *)
(* sent again.                                                             *)
EntregadaEsFinal ==
    [][\A e \in Entregas :
         /\ e \in sabidas => enviadas'[e] = enviadas[e]
         /\ entrega[e].estado = "delivered" =>
              entrega'[e].estado \in {"delivered", "nada"}]_vars

(* No delivery stays pending for ever: it is accepted, it exhausts its     *)
(* attempts or its webhook is deleted, in spite of deaths and redeliveries. *)
TodaEntregaTermina ==
    \A e \in Entregas : <>[](entrega[e].estado # "pending")
=============================================================================
