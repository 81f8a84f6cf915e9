------------------------------- MODULE Outbox -------------------------------
(***************************************************************************)
(* The outbox: domain_events, domain_event_dispatches and the passes of    *)
(* the dispatcher (db/events.py, scheduler/jobs/event_dispatch.py).        *)
(*                                                                         *)
(* A pass expires what is too old, reads the pending events once, and for  *)
(* each of them claims every channel, delivers it and, when a delivery     *)
(* raises, releases the claim and reopens the event.  Each claim, release  *)
(* and mark is a transaction of its own.  Passes overlap: the closing of   *)
(* the pipeline runs one and the worker runs others on demand.             *)
(***************************************************************************)
EXTENDS Naturals, Sequences, FiniteSets

CONSTANTS
    MaxEventos,     \* bound: ids of domain_events
    Tipos,          \* event types
    Canales,        \* in_app, digest, webhook, cache
    CanalesDe,      \* the channels of a type, in order; none for a log event
    Repetibles,     \* channels whose repetition a recipient notices: an immediate
                    \* email, a webhook; in_app, daily digest and cache overwrite
    Despachadores,  \* passes that may run at once
    Lote,           \* LOTE_POR_PASADA
    MaxCaidas       \* bound: passes that die

ASSUME OutboxAssumption ==
    /\ MaxEventos \in Nat
    /\ Tipos # {}
    /\ CanalesDe \in [Tipos -> Seq(Canales)]
    /\ \A t \in Tipos : \A i, k \in DOMAIN CanalesDe[t] :
         CanalesDe[t][i] = CanalesDe[t][k] => i = k
    /\ Repetibles \subseteq Canales
    /\ Lote \in Nat \ {0}
    /\ MaxCaidas \in Nat

VARIABLES
    evento,     \* domain_events, a row per id
    reclamos,   \* domain_event_dispatches: the claimed (event_id, canal) pairs
    pase,       \* per dispatcher: where its pass is
    entregas,   \* the channels whose first recipient has got the event (observed)
    repetida,   \* some recipient has got an event twice by a channel (observed)
    caidas,     \* passes that died so far
    fallos,     \* no channel raised, some did, or some did after reaching
                \* a part of its recipients (observed)
    solape      \* two passes have overlapped (observed)

vars == <<evento, reclamos, pase, entregas, repetida, caidas, fallos, solape>>

Eventos == 1 .. MaxEventos

Fila == [ tipo     : Tipos,
          estado   : {"nada", "pendiente", "despachado"},   \* dispatched_at
          viejo    : BOOLEAN,   \* created_at is before the expiry mark
          caducado : BOOLEAN ]  \* it was dispatched by expiring (observed)

Pase == [ fase  : {"libre", "leer", "evento", "entregar", "liberar"},
          lote  : SUBSET Eventos,   \* the snapshot's events not yet finished
          canal : Nat,              \* index of the channel in turn
          fallo : BOOLEAN ]

TypeOK ==
    /\ evento \in [Eventos -> Fila]
    /\ reclamos \subseteq Eventos \X Canales
    /\ pase \in [Despachadores -> Pase]
    /\ entregas \subseteq Eventos \X Canales
    /\ repetida \in BOOLEAN
    /\ caidas \in Nat
    /\ fallos \in {"no", "si", "parcial"} /\ solape \in BOOLEAN

Parado == [fase |-> "libre", lote |-> {}, canal |-> 1, fallo |-> FALSE]

Init ==
    /\ evento = [e \in Eventos |->
                   [tipo |-> CHOOSE t \in Tipos : TRUE, estado |-> "nada",
                    viejo |-> FALSE, caducado |-> FALSE]]
    /\ reclamos = {}
    /\ pase = [d \in Despachadores |-> Parado]
    /\ entregas = {} /\ repetida = FALSE
    /\ caidas = 0 /\ fallos = "no" /\ solape = FALSE

Pendientes == { e \in Eventos : evento[e].estado = "pendiente" }

CanalesEv(e) == CanalesDe[evento[e].tipo]

(* The event in turn of a pass, and its channel in turn. *)
Actual(d)   == CHOOSE e \in pase[d].lote : \A f \in pase[d].lote : e <= f
QuedanMenos(d) == pase[d].canal < Len(CanalesEv(Actual(d)))    \* mutant: off by one
Quedan(d)   == pase[d].canal <= Len(CanalesEv(Actual(d)))
CanalDe(d)  == CanalesEv(Actual(d))[pase[d].canal]

-----------------------------------------------------------------------------
(* append_event() in the transaction of the mutation. *)
Publicar ==
    /\ \E e \in Eventos, t \in Tipos :
         /\ evento[e].estado = "nada"
         /\ \A f \in Eventos : f < e => evento[f].estado # "nada"
         /\ evento' = [evento EXCEPT ![e].estado = "pendiente", ![e].tipo = t]
    /\ UNCHANGED <<reclamos, pase, entregas, repetida, caidas, fallos, solape>>

(* EVENT_DISPATCH_MAX_AGE_HOURS go by. *)
Envejecer(e) ==
    /\ evento[e].estado # "nada" /\ ~evento[e].viejo
    /\ evento' = [evento EXCEPT ![e].viejo = TRUE]
    /\ UNCHANGED <<reclamos, pase, entregas, repetida, caidas, fallos, solape>>

NuncaCaduca(e) == FALSE             \* mutant: caducar_viejos does nothing

Caduca(e) == e \in Pendientes /\ evento[e].viejo

(* A pass begins by expiring: caducar_viejos(), one statement.             *)
Empezar(d) ==
    /\ pase[d].fase = "libre"
    /\ evento' = [e \in Eventos |->
                    IF Caduca(e)
                    THEN [evento[e] EXCEPT !.estado = "despachado", !.caducado = TRUE]
                    ELSE evento[e]]
    /\ pase' = [pase EXCEPT ![d].fase = "leer"]
    /\ solape' = (solape \/ \E o \in Despachadores \ {d} : pase[o].fase # "libre")
    /\ UNCHANGED <<reclamos, entregas, repetida, caidas, fallos>>

(* pending_events(limit): the oldest pending ones, read once per pass.     *)
Leer(d) ==
    /\ pase[d].fase = "leer"
    /\ LET lote == { e \in Pendientes :
                       Cardinality({ f \in Pendientes : f < e }) < Lote }
       IN  pase' = [pase EXCEPT ![d] =
                      IF lote = {} THEN Parado
                      ELSE [Parado EXCEPT !.fase = "evento", !.lote = lote]]
    /\ UNCHANGED <<evento, reclamos, entregas, repetida, caidas, fallos, solape>>

NadaReclamado(par) == FALSE         \* mutant: claimed without looking at the conflict

Reclamado(par) == par \in reclamos

(* claim_channel(): INSERT ... ON CONFLICT DO NOTHING.  A channel another  *)
(* attempt claimed is skipped.                                             *)
Reclamar(d) ==
    /\ pase[d].fase = "evento" /\ Quedan(d)
    /\ LET par == <<Actual(d), CanalDe(d)>>
       IN  /\ reclamos' = reclamos \union {par}
           /\ pase' = IF Reclamado(par) THEN [pase EXCEPT ![d].canal = @ + 1]
                                         ELSE [pase EXCEPT ![d].fase = "entregar"]
    /\ UNCHANGED <<evento, entregas, repetida, caidas, fallos, solape>>

(* A channel reaches its recipients one after another; what the first of   *)
(* them gets is what a repetition would repeat.                            *)
Alcanza(d) ==
    LET par == <<Actual(d), CanalDe(d)>>
    IN  /\ entregas' = entregas \union {par}
        /\ repetida' = (repetida \/ par \in entregas)

(* _despachar_canal() returns. *)
Entregar(d) ==
    /\ pase[d].fase = "entregar"
    /\ Alcanza(d)
    /\ pase' = [pase EXCEPT ![d].fase = "evento", ![d].canal = @ + 1]
    /\ UNCHANGED <<evento, reclamos, caidas, fallos, solape>>

(* _despachar_canal() raises: before its first recipient, or after it when *)
(* that makes a difference.                                                *)
FallaCanal(d) ==
    /\ pase[d].fase = "entregar"
    /\ \/ /\ fallos' = IF fallos = "no" THEN "si" ELSE fallos
          /\ UNCHANGED <<entregas, repetida>>
       \/ CanalDe(d) \in Repetibles /\ fallos' = "parcial" /\ Alcanza(d)
    /\ pase' = [pase EXCEPT ![d].fase = "liberar"]
    /\ UNCHANGED <<evento, reclamos, caidas, solape>>

(* release_channel(): the claim goes and the event is reopened, together.  *)
Liberar(d) ==
    /\ pase[d].fase = "liberar"
    /\ reclamos' = reclamos \ {<<Actual(d), CanalDe(d)>>}
    /\ evento' = [evento EXCEPT ![Actual(d)].estado = "pendiente",
                                ![Actual(d)].caducado = FALSE]
    /\ pase' = [pase EXCEPT ![d].fase = "evento", ![d].fallo = TRUE, ![d].canal = @ + 1]
    /\ UNCHANGED <<entregas, repetida, caidas, fallos, solape>>

SinFallosSiempre(d) == TRUE         \* mutant: the failures of the pass are forgotten

SinFallos(d) == ~pase[d].fallo

(* mark_dispatched(): WHERE dispatched_at IS NULL. *)
MarcarDespachado(e) ==
    IF e \in Pendientes THEN [evento EXCEPT ![e].estado = "despachado"] ELSE evento

(* The event's channels are done: mark_dispatched() unless one failed, and *)
(* on to the next event of the snapshot.                                   *)
Terminar(d) ==
    /\ pase[d].fase = "evento" /\ ~Quedan(d)
    /\ evento' = IF SinFallos(d) THEN MarcarDespachado(Actual(d)) ELSE evento
    /\ LET resto == pase[d].lote \ {Actual(d)}
       IN  pase' = [pase EXCEPT ![d] =
                      IF resto = {} THEN Parado
                      ELSE [Parado EXCEPT !.fase = "evento", !.lote = resto]]
    /\ UNCHANGED <<reclamos, entregas, repetida, caidas, fallos, solape>>

(* The process dies, or a statement of the pass raises, between two steps. *)
Morir(d) ==
    /\ pase[d].fase # "libre" /\ caidas < MaxCaidas
    /\ pase' = [pase EXCEPT ![d] = Parado]
    /\ caidas' = caidas + 1
    /\ UNCHANGED <<evento, reclamos, entregas, repetida, fallos, solape>>

Paso(d) ==
    \/ Empezar(d)
    \/ Leer(d)
    \/ Reclamar(d)
    \/ Entregar(d)
    \/ FallaCanal(d)
    \/ Liberar(d)
    \/ Terminar(d)

Next ==
    \/ Publicar
    \/ \E e \in Eventos : Envejecer(e)
    \/ \E d \in Despachadores : Paso(d) \/ Morir(d)

Spec == Init /\ [][Next]_vars

(* Time goes by, a pass that began goes on, and passes are started again   *)
(* and again (every closing runs the event_dispatch step).  A delivery may *)
(* fail every time.                                                        *)
Fairness ==
    /\ \A e \in Eventos : WF_vars(Envejecer(e))
    /\ \A d \in Despachadores : WF_vars(Paso(d))

FairSpec == Spec /\ Fairness

-----------------------------------------------------------------------------
EnCurso(e) == \E d \in Despachadores : e \in pase[d].lote

Cerrado(e) == evento[e].estado = "despachado" /\ ~evento[e].caducado

(* However passes overlap, fail, die and retry, a channel of an event goes *)
(* out at most once (the unique pair of domain_event_dispatches), until    *)
(* some channel raises between two of its recipients: then, and only then, *)
(* a retry repeats it to those it had reached.                             *)
UnaEntregaPorCanal == repetida => fallos = "parcial"

(* While no delivery has raised and no pass has died, an event that leaves *)
(* the queue without expiring has had every channel delivered, or has it   *)
(* in the hands of a pass that is delivering it, overlaps included: a pass *)
(* that finds everything claimed may mark the event before the other ends. *)
SinFallosTodoLlega ==
    (fallos = "no" /\ caidas = 0) =>
      \A e \in Eventos : Cerrado(e) =>
         \A i \in DOMAIN CanalesEv(e) :
            \/ <<e, CanalesEv(e)[i]>> \in entregas
            \/ \E d \in Despachadores :
                 /\ pase[d].fase = "entregar" /\ Actual(d) = e /\ pase[d].canal = i

(* While passes have not overlapped, an event that leaves the queue without *)
(* expiring has every channel claimed, whatever failed or died: a failed   *)
(* channel is always tried again.                                          *)
SinSolapeTodoReclamado ==
    ~solape =>
      \A e \in Eventos : Cerrado(e) =>
         \A i \in DOMAIN CanalesEv(e) : <<e, CanalesEv(e)[i]>> \in reclamos

(* When passes stop overlapping, no event stays pending for ever: it is    *)
(* delivered or, when a channel fails pass after pass, it expires          *)
(* (caducar_viejos, event_dispatch.py:695-698).  Two passes that for ever  *)
(* fail and reopen each other's stale snapshots do keep it pending.        *)
ColaSeVacia ==
    <>[](Cardinality({ d \in Despachadores : pase[d].fase # "libre" }) <= 1)
      => \A e \in Eventos : <>[](evento[e].estado # "pendiente")

(* event_dispatch.py:18-24: if the process dies half way the retry takes   *)
(* the event again, and idempotence is not paid with lost messages.        *)
NadaSePierde ==
    \A e \in Eventos : (Cerrado(e) /\ ~EnCurso(e)) =>
       \A i \in DOMAIN CanalesEv(e) : <<e, CanalesEv(e)[i]>> \in entregas
=============================================================================
