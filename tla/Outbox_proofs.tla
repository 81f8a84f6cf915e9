---------------------------- MODULE Outbox_proofs -----------------------------
(* Proofs about the outbox: however the passes overlap, fail and die, a     *)
(* channel goes out once, and an event leaves the queue with every channel  *)
(* claimed.                                                                 *)
EXTENDS Outbox, WellFoundedInduction, TLAPS

(* The event in turn, as a function of the snapshot alone. *)
Menor(S) == CHOOSE e \in S : \A f \in S : e <= f

EnTurno(d) == pase[d].fase \in {"evento", "entregar", "liberar"}
EnMano(d)  == pase[d].fase \in {"entregar", "liberar"}
Par(d)     == <<Actual(d), CanalDe(d)>>

(* A pass at work has an event in turn, published, and the channel it has   *)
(* in hand is one of its channels.                                          *)
Formado(d) ==
    /\ EnTurno(d) => /\ pase[d].lote # {}
                     /\ pase[d].canal >= 1
                     /\ \A e \in pase[d].lote : evento[e].estado # "nada"
    /\ EnMano(d) => Quedan(d)

Forma == \A d \in Despachadores : Formado(d)

(* What a pass has in hand it has claimed, and no other pass has it. *)
Exclusivo ==
    \A d \in Despachadores : EnMano(d) =>
       /\ Par(d) \in reclamos
       /\ \A o \in Despachadores \ {d} : EnMano(o) => Par(o) # Par(d)

(* Until a channel raises half way, what is out is claimed, and what is in  *)
(* hand is not out yet.                                                     *)
SinRepetir ==
    fallos # "parcial" =>
       /\ ~repetida
       /\ entregas \subseteq reclamos
       /\ \A d \in Despachadores : EnMano(d) => Par(d) \notin entregas

SinLiberar == fallos = "no" => \A d \in Despachadores : pase[d].fase # "liberar"

Solo ==
    ~solape => \A d, o \in Despachadores :
       (pase[d].fase # "libre" /\ pase[o].fase # "libre") => d = o

(* While claims are not taken away behind a pass's back: the channels       *)
(* behind a pass without failures are claimed, and those of an event closed *)
(* are all claimed.                                                         *)
Tranquilo == ~solape \/ fallos = "no"

Avance ==
    Tranquilo =>
       \A d \in Despachadores : (EnTurno(d) /\ ~pase[d].fallo) =>
          \A i \in DOMAIN CanalesEv(Actual(d)) :
             i < pase[d].canal => <<Actual(d), CanalesEv(Actual(d))[i]>> \in reclamos

CerradoReclamado ==
    Tranquilo =>
       \A e \in Eventos : Cerrado(e) =>
          \A i \in DOMAIN CanalesEv(e) : <<e, CanalesEv(e)[i]>> \in reclamos

(* While nothing fails and nobody dies, what is claimed is out or in hand. *)
ReclamadoLlega ==
    (fallos = "no" /\ caidas = 0) =>
       \A par \in reclamos :
          par \in entregas \/ \E d \in Despachadores : pase[d].fase = "entregar" /\ Par(d) = par

Inv ==
    /\ TypeOK
    /\ Forma
    /\ Exclusivo
    /\ SinRepetir
    /\ SinLiberar
    /\ Solo
    /\ Avance
    /\ CerradoReclamado
    /\ ReclamadoLlega

-----------------------------------------------------------------------------
(* The operators: a snapshot has an oldest event, and it is the one in turn. *)
LEMMA MenorEs ==
    ASSUME NEW S, S \subseteq Nat, S # {}
    PROVE  Menor(S) \in S
  <1> DEFINE R == OpToRel(<, Nat)
  <1>1. IsWellFoundedOn(R, Nat)
    BY NatLessThanWellFounded
  <1>2. \A x, y \in Nat : y < x => <<y, x>> \in R
    BY DEF OpToRel
  <1> HIDE DEF R
  <1>3. PICK x \in S : \A y \in S : ~ (<<y, x>> \in R)
    BY <1>1, WFMin
  <1>4. \A y \in S : x <= y
    <2>1. ASSUME NEW y \in S PROVE x <= y
      <3>1. ~ (y < x)
        BY <1>2, <1>3
      <3>2. x \in Nat /\ y \in Nat
        OBVIOUS
      <3> QED
        BY <3>1, <3>2
    <2> QED
      BY <2>1
  <1> QED
    BY <1>4 DEF Menor

LEMMA ActualEs ==
    ASSUME NEW d \in Despachadores
    PROVE  /\ Actual(d) = Menor(pase[d].lote)
           /\ Actual(d)' = Menor(pase'[d].lote)
  BY DEF Actual, Menor

LEMMA ActualEnLote ==
    ASSUME TypeOK, Forma, NEW d \in Despachadores, EnTurno(d)
    PROVE  /\ Actual(d) \in pase[d].lote
           /\ Actual(d) \in Eventos
           /\ evento[Actual(d)].estado # "nada"
  <1>1. pase[d].lote \subseteq Eventos /\ pase[d].lote # {}
    BY DEF TypeOK, Pase, Forma, Formado
  <1>2. Menor(pase[d].lote) \in pase[d].lote
    BY <1>1, MenorEs DEF Eventos
  <1>3. Actual(d) \in pase[d].lote
    BY <1>2, ActualEs
  <1> QED
    BY <1>1, <1>3 DEF Forma, Formado

-----------------------------------------------------------------------------
(* What each action does to a pass: it moves its own and no other. *)
Resto(d) == \A o \in Despachadores \ {d} : pase'[o] = pase[o]

LEMMA ParadoEs ==
    /\ Parado \in Pase /\ Parado.fase = "libre" /\ Parado.lote = {}
    /\ Parado.canal = 1 /\ ~Parado.fallo
  BY DEF Parado, Pase

LEMMA FilaCambia ==
    \A f \in Fila, t \in Tipos :
       /\ [f EXCEPT !.estado = "pendiente", !.tipo = t] \in Fila
       /\ [f EXCEPT !.viejo = TRUE] \in Fila
       /\ [f EXCEPT !.estado = "despachado", !.caducado = TRUE] \in Fila
       /\ [f EXCEPT !.estado = "despachado"] \in Fila
       /\ [f EXCEPT !.estado = "pendiente", !.caducado = FALSE] \in Fila
  BY DEF Fila

LEMMA PaseCambia ==
    \A p \in Pase, f \in {"libre", "leer", "evento", "entregar", "liberar"} :
       /\ [p EXCEPT !.fase = f] \in Pase
       /\ [p EXCEPT !.canal = @ + 1] \in Pase
       /\ [p EXCEPT !.fase = f, !.canal = @ + 1] \in Pase
       /\ [p EXCEPT !.fase = f, !.fallo = TRUE, !.canal = @ + 1] \in Pase
       /\ \A l \in SUBSET Eventos : [p EXCEPT !.fase = f, !.lote = l] \in Pase
  <1> TAKE p \in Pase, f \in {"libre", "leer", "evento", "entregar", "liberar"}
  <1>1. p.canal + 1 \in Nat
    BY DEF Pase
  <1> DEFINE n == p.canal + 1
  <1> HIDE DEF n
  <1>2. /\ [p EXCEPT !.fase = f] \in Pase
        /\ \A l \in SUBSET Eventos : [p EXCEPT !.fase = f, !.lote = l] \in Pase
    BY DEF Pase
  <1>3. n \in Nat =>
        /\ [p EXCEPT !.canal = n] \in Pase
        /\ [p EXCEPT !.fase = f, !.canal = n] \in Pase
        /\ [p EXCEPT !.fase = f, !.fallo = TRUE, !.canal = n] \in Pase
    BY DEF Pase
  <1> QED
    BY <1>1, <1>2, <1>3 DEF n

LEMMA EmpezarEs ==
    ASSUME TypeOK, NEW d \in Despachadores, Empezar(d)
    PROVE  /\ pase' \in [Despachadores -> Pase] /\ Resto(d)
           /\ pase'[d].fase = "leer"
  <1>1. pase' = [pase EXCEPT ![d] = [pase[d] EXCEPT !.fase = "leer"]]
    BY DEF Empezar
  <1>2. pase[d] \in Pase /\ [pase[d] EXCEPT !.fase = "leer"] \in Pase
    BY PaseCambia DEF TypeOK
  <1>3. [pase[d] EXCEPT !.fase = "leer"].fase = "leer"
    BY <1>2 DEF Pase
  <1> QED
    BY <1>1, <1>2, <1>3 DEF TypeOK, Resto

(* The snapshot, or the rest of it: a fresh pass over a nonempty lot. *)
Fresco(l) == IF l = {} THEN Parado ELSE [Parado EXCEPT !.fase = "evento", !.lote = l]

LEMMA FrescoEs ==
    ASSUME NEW l \in SUBSET Eventos
    PROVE  /\ Fresco(l) \in Pase
           /\ Fresco(l).lote = l /\ Fresco(l).canal = 1 /\ ~Fresco(l).fallo
           /\ Fresco(l).fase = IF l = {} THEN "libre" ELSE "evento"
  <1>1. CASE l = {}
    BY <1>1, ParadoEs DEF Fresco
  <1>2. CASE l # {}
    <2> DEFINE p == [Parado EXCEPT !.fase = "evento", !.lote = l]
    <2>1. p \in Pase
      BY ParadoEs, PaseCambia
    <2>2. p.lote = l /\ p.canal = 1 /\ ~p.fallo /\ p.fase = "evento"
      BY DEF Parado
    <2>3. Fresco(l) = p
      BY <1>2 DEF Fresco
    <2> HIDE DEF p
    <2> QED
      BY <1>2, <2>1, <2>2, <2>3
  <1> QED
    BY <1>1, <1>2

(* A pass that goes on with the lot l, or stops. *)
LEMMA FrescoEnPase ==
    ASSUME TypeOK, NEW d \in Despachadores, NEW l \in SUBSET Eventos,
           pase' = [pase EXCEPT ![d] = Fresco(l)]
    PROVE  /\ pase' \in [Despachadores -> Pase] /\ Resto(d)
           /\ pase'[d].lote = l /\ pase'[d].canal = 1 /\ ~pase'[d].fallo
           /\ pase'[d].fase = IF l = {} THEN "libre" ELSE "evento"
  BY FrescoEs DEF TypeOK, Resto

LEMMA LeerEs ==
    ASSUME TypeOK, NEW d \in Despachadores, Leer(d)
    PROVE  /\ pase' \in [Despachadores -> Pase] /\ Resto(d)
           /\ pase'[d].lote \subseteq Pendientes
           /\ pase'[d].canal = 1 /\ ~pase'[d].fallo
           /\ pase'[d].fase = IF pase'[d].lote = {} THEN "libre" ELSE "evento"
  <1> DEFINE l == { e \in Pendientes : Cardinality({ f \in Pendientes : f < e }) < Lote }
  <1>1. l \in SUBSET Eventos /\ l \subseteq Pendientes
    BY DEF Pendientes
  <1>2. pase' = [pase EXCEPT ![d] = Fresco(l)]
    BY DEF Leer, Fresco
  <1> HIDE DEF l
  <1> QED
    BY <1>1, <1>2, FrescoEnPase

LEMMA TerminarEs ==
    ASSUME TypeOK, NEW d \in Despachadores, Terminar(d)
    PROVE  /\ pase' \in [Despachadores -> Pase] /\ Resto(d)
           /\ pase'[d].lote \subseteq pase[d].lote
           /\ pase'[d].canal = 1 /\ ~pase'[d].fallo
           /\ pase'[d].fase = IF pase'[d].lote = {} THEN "libre" ELSE "evento"
  <1> DEFINE l == pase[d].lote \ {Actual(d)}
  <1>1. l \in SUBSET Eventos /\ l \subseteq pase[d].lote
    BY DEF TypeOK, Pase
  <1>2. pase' = [pase EXCEPT ![d] = Fresco(l)]
    BY DEF Terminar, Fresco
  <1> HIDE DEF l
  <1>3. /\ pase' \in [Despachadores -> Pase] /\ Resto(d)
        /\ pase'[d].lote = l /\ pase'[d].canal = 1 /\ ~pase'[d].fallo
        /\ pase'[d].fase = IF l = {} THEN "libre" ELSE "evento"
    BY <1>1, <1>2, FrescoEnPase
  <1> QED
    BY <1>1, <1>3

(* Between the snapshot and the end of an event a pass keeps its event. *)
LEMMA ReclamarEs ==
    ASSUME TypeOK, NEW d \in Despachadores, Reclamar(d)
    PROVE  /\ pase' \in [Despachadores -> Pase] /\ Resto(d)
           /\ pase'[d].lote = pase[d].lote /\ pase'[d].fallo = pase[d].fallo
           /\ Par(d) \in reclamos =>
                pase'[d].fase = "evento" /\ pase'[d].canal = pase[d].canal + 1
           /\ Par(d) \notin reclamos =>
                pase'[d].fase = "entregar" /\ pase'[d].canal = pase[d].canal
           /\ reclamos' = reclamos \union {Par(d)}
  <1> DEFINE sig == [pase[d] EXCEPT !.canal = @ + 1]
             ent == [pase[d] EXCEPT !.fase = "entregar"]
  <1>1. pase' = [pase EXCEPT ![d] = IF Par(d) \in reclamos THEN sig ELSE ent]
    <2>1. CASE Par(d) \in reclamos
      <3>1. pase' = [pase EXCEPT ![d].canal = @ + 1]
        BY <2>1 DEF Reclamar, Reclamado, Par
      <3> QED
        BY <2>1, <3>1
    <2>2. CASE Par(d) \notin reclamos
      BY <2>2 DEF Reclamar, Reclamado, Par
    <2> QED
      BY <2>1, <2>2
  <1>2. pase[d] \in Pase /\ sig \in Pase /\ ent \in Pase /\ pase[d].fase = "evento"
    BY PaseCambia DEF TypeOK, Reclamar
  <1>3. /\ sig.lote = pase[d].lote /\ sig.fallo = pase[d].fallo
        /\ sig.canal = pase[d].canal + 1 /\ sig.fase = "evento"
        /\ ent.lote = pase[d].lote /\ ent.fallo = pase[d].fallo
        /\ ent.canal = pase[d].canal /\ ent.fase = "entregar"
    BY <1>2 DEF Pase
  <1>4. reclamos' = reclamos \union {Par(d)}
    BY DEF Reclamar, Par
  <1> HIDE DEF sig, ent
  <1>5. pase'[d] = IF Par(d) \in reclamos THEN sig ELSE ent
    BY <1>1 DEF TypeOK
  <1> QED
    BY <1>1, <1>2, <1>3, <1>4, <1>5 DEF TypeOK, Resto

LEMMA EntregarEs ==
    ASSUME TypeOK, NEW d \in Despachadores, Entregar(d)
    PROVE  /\ pase' \in [Despachadores -> Pase] /\ Resto(d)
           /\ pase'[d].lote = pase[d].lote /\ pase'[d].fallo = pase[d].fallo
           /\ pase'[d].fase = "evento" /\ pase'[d].canal = pase[d].canal + 1
  <1> DEFINE sig == [pase[d] EXCEPT !.fase = "evento", !.canal = @ + 1]
  <1>1. pase' = [pase EXCEPT ![d] = sig]
    BY DEF Entregar, TypeOK
  <1>2. pase[d] \in Pase /\ sig \in Pase
    BY PaseCambia DEF TypeOK
  <1>3. /\ sig.lote = pase[d].lote /\ sig.fallo = pase[d].fallo
        /\ sig.canal = pase[d].canal + 1 /\ sig.fase = "evento"
    BY <1>2 DEF Pase
  <1> HIDE DEF sig
  <1> QED
    BY <1>1, <1>2, <1>3 DEF TypeOK, Resto

LEMMA FallaCanalEs ==
    ASSUME TypeOK, NEW d \in Despachadores, FallaCanal(d)
    PROVE  /\ pase' \in [Despachadores -> Pase] /\ Resto(d)
           /\ pase'[d].lote = pase[d].lote /\ pase'[d].fallo = pase[d].fallo
           /\ pase'[d].fase = "liberar" /\ pase'[d].canal = pase[d].canal
  <1> DEFINE sig == [pase[d] EXCEPT !.fase = "liberar"]
  <1>1. pase' = [pase EXCEPT ![d] = sig]
    BY DEF FallaCanal, TypeOK
  <1>2. pase[d] \in Pase /\ sig \in Pase
    BY PaseCambia DEF TypeOK
  <1>3. /\ sig.lote = pase[d].lote /\ sig.fallo = pase[d].fallo
        /\ sig.canal = pase[d].canal /\ sig.fase = "liberar"
    BY <1>2 DEF Pase
  <1> HIDE DEF sig
  <1> QED
    BY <1>1, <1>2, <1>3 DEF TypeOK, Resto

LEMMA LiberarEs ==
    ASSUME TypeOK, NEW d \in Despachadores, Liberar(d)
    PROVE  /\ pase' \in [Despachadores -> Pase] /\ Resto(d)
           /\ pase'[d].lote = pase[d].lote /\ pase'[d].fallo
           /\ pase'[d].fase = "evento" /\ pase'[d].canal = pase[d].canal + 1
  <1> DEFINE sig == [pase[d] EXCEPT !.fase = "evento", !.fallo = TRUE, !.canal = @ + 1]
  <1>1. pase' = [pase EXCEPT ![d] = sig]
    BY DEF Liberar, TypeOK
  <1>2. pase[d] \in Pase /\ sig \in Pase
    BY PaseCambia DEF TypeOK
  <1>3. /\ sig.lote = pase[d].lote /\ sig.fallo
        /\ sig.canal = pase[d].canal + 1 /\ sig.fase = "evento"
    BY <1>2 DEF Pase
  <1> HIDE DEF sig
  <1> QED
    BY <1>1, <1>2, <1>3 DEF TypeOK, Resto

LEMMA MorirEs ==
    ASSUME TypeOK, NEW d \in Despachadores, Morir(d)
    PROVE  /\ pase' \in [Despachadores -> Pase] /\ Resto(d)
           /\ pase'[d] = Parado
  BY ParadoEs DEF Morir, TypeOK, Resto

-----------------------------------------------------------------------------
(* The types. *)
LEMMA TipoInicial == Init => TypeOK
  <1> SUFFICES ASSUME Init PROVE TypeOK
    OBVIOUS
  <1>1. (CHOOSE t \in Tipos : TRUE) \in Tipos
    BY OutboxAssumption
  <1>2. evento \in [Eventos -> Fila]
    BY <1>1 DEF Init, Fila
  <1>3. pase \in [Despachadores -> Pase]
    BY ParadoEs DEF Init
  <1> QED
    BY <1>2, <1>3 DEF Init, TypeOK

(* Rows change one at a time, or several at once by expiring. *)
LEMMA EventoTipado ==
    ASSUME TypeOK, [Next]_vars
    PROVE  evento' \in [Eventos -> Fila]
  <1> USE DEF TypeOK
  <1>1. ASSUME NEW e \in Eventos, NEW t \in Tipos,
               evento' = [evento EXCEPT ![e].estado = "pendiente", ![e].tipo = t]
        PROVE  evento' \in [Eventos -> Fila]
    <2>1. evento' = [evento EXCEPT ![e] = [evento[e] EXCEPT !.estado = "pendiente", !.tipo = t]]
      BY <1>1
    <2> QED
      BY <2>1, FilaCambia
  <1>2. ASSUME NEW e \in Eventos, Envejecer(e) PROVE evento' \in [Eventos -> Fila]
    <2>1. evento' = [evento EXCEPT ![e] = [evento[e] EXCEPT !.viejo = TRUE]]
      BY <1>2 DEF Envejecer
    <2>2. \E t : t \in Tipos
      BY OutboxAssumption
    <2> QED
      BY <2>1, <2>2, FilaCambia
  <1>3. ASSUME NEW d \in Despachadores, Empezar(d) PROVE evento' \in [Eventos -> Fila]
    <2>1. \E t : t \in Tipos
      BY OutboxAssumption
    <2>2. \A e \in Eventos :
             [evento[e] EXCEPT !.estado = "despachado", !.caducado = TRUE] \in Fila
      BY <2>1, FilaCambia
    <2> QED
      BY <1>3, <2>2 DEF Empezar
  <1>4. ASSUME NEW d \in Despachadores, Liberar(d) PROVE evento' \in [Eventos -> Fila]
    <2> DEFINE e == Actual(d)
    <2>1. evento' = [evento EXCEPT ![e] =
                       [evento[e] EXCEPT !.estado = "pendiente", !.caducado = FALSE]]
      BY <1>4 DEF Liberar
    <2>2. \E t : t \in Tipos
      BY OutboxAssumption
    <2> HIDE DEF e
    <2>3. CASE e \in Eventos
      <3>1. evento[e] \in Fila
        BY <2>3
      <3> QED
        BY <2>1, <2>2, <2>3, <3>1, FilaCambia
    <2>4. CASE e \notin Eventos
      BY <2>1, <2>4
    <2> QED
      BY <2>3, <2>4
  <1>5. ASSUME NEW d \in Despachadores, Terminar(d) PROVE evento' \in [Eventos -> Fila]
    <2> DEFINE e == Actual(d)
    <2>1. \/ evento' = evento
          \/ evento' = [evento EXCEPT ![e] = [evento[e] EXCEPT !.estado = "despachado"]]
      BY <1>5 DEF Terminar, MarcarDespachado
    <2>2. \E t : t \in Tipos
      BY OutboxAssumption
    <2> HIDE DEF e
    <2>3. CASE e \in Eventos
      <3>1. evento[e] \in Fila
        BY <2>3
      <3> QED
        BY <2>1, <2>2, <2>3, <3>1, FilaCambia
    <2>4. CASE e \notin Eventos
      BY <2>1, <2>4
    <2> QED
      BY <2>3, <2>4
  <1> QED
    BY <1>1, <1>2, <1>3, <1>4, <1>5 DEF Next, Paso, Publicar, Leer, Reclamar, Entregar,
       FallaCanal, Morir, vars

(* A published event keeps its type, and is never unpublished. *)
LEMMA EventoFijo ==
    ASSUME TypeOK, [Next]_vars, NEW e \in Eventos, evento[e].estado # "nada"
    PROVE  evento'[e].estado # "nada" /\ evento'[e].tipo = evento[e].tipo
  <1> USE DEF TypeOK, Fila
  <1>1. ASSUME Publicar PROVE evento'[e].estado # "nada" /\ evento'[e].tipo = evento[e].tipo
    BY <1>1 DEF Publicar
  <1>2. ASSUME NEW f \in Eventos, Envejecer(f)
        PROVE  evento'[e].estado # "nada" /\ evento'[e].tipo = evento[e].tipo
    BY <1>2 DEF Envejecer
  <1>3. ASSUME NEW d \in Despachadores, Empezar(d)
        PROVE  evento'[e].estado # "nada" /\ evento'[e].tipo = evento[e].tipo
    BY <1>3 DEF Empezar
  <1>4. ASSUME NEW d \in Despachadores, Liberar(d)
        PROVE  evento'[e].estado # "nada" /\ evento'[e].tipo = evento[e].tipo
    BY <1>4 DEF Liberar
  <1>5. ASSUME NEW d \in Despachadores, Terminar(d)
        PROVE  evento'[e].estado # "nada" /\ evento'[e].tipo = evento[e].tipo
    BY <1>5 DEF Terminar, MarcarDespachado
  <1> QED
    BY <1>1, <1>2, <1>3, <1>4, <1>5 DEF Next, Paso, Leer, Reclamar, Entregar,
       FallaCanal, Morir, vars

(* Only the closing of a pass closes an event: expiring it does not count,  *)
(* and a release reopens it.                                                *)
LEMMA CerradoFijo ==
    ASSUME TypeOK, [Next]_vars, NEW e \in Eventos, Cerrado(e)'
    PROVE  \/ Cerrado(e) /\ evento'[e].tipo = evento[e].tipo
                 /\ \A d \in Despachadores : Liberar(d) => Actual(d) # e
           \/ \E d \in Despachadores : Terminar(d) /\ ~pase[d].fallo /\ Actual(d) = e
  <1> USE DEF TypeOK, Fila, Cerrado
  <1> DEFINE Igual == evento'[e] = evento[e]
  <1>1. ASSUME Publicar PROVE Igual
    BY <1>1 DEF Publicar
  <1>2. ASSUME NEW f \in Eventos, Envejecer(f) PROVE Cerrado(e) /\ evento'[e].tipo = evento[e].tipo
    BY <1>2 DEF Envejecer
  <1>3. ASSUME NEW d \in Despachadores, Empezar(d) PROVE Igual
    BY <1>3 DEF Empezar
  <1>4. ASSUME NEW d \in Despachadores, Liberar(d) PROVE Igual /\ Actual(d) # e
    BY <1>4 DEF Liberar
  <1>5. ASSUME NEW d \in Despachadores, Terminar(d)
        PROVE  Igual \/ (~pase[d].fallo /\ Actual(d) = e)
    BY <1>5 DEF Terminar, MarcarDespachado, SinFallos
  <1>6. ASSUME NEW d \in Despachadores, Liberar(d)
        PROVE  Cerrado(e) /\ evento'[e].tipo = evento[e].tipo
    BY <1>4, <1>6
  <1> QED
    BY <1>1, <1>2, <1>3, <1>4, <1>5, <1>6 DEF Next, Paso, Leer, Reclamar, Entregar,
       FallaCanal, Morir, vars, Publicar

LEMMA ParTipado ==
    ASSUME TypeOK, Forma, NEW d \in Despachadores, EnTurno(d), Quedan(d)
    PROVE  /\ pase[d].canal \in DOMAIN CanalesEv(Actual(d))
           /\ Par(d) \in Eventos \X Canales
  <1>1. Actual(d) \in Eventos
    BY ActualEnLote
  <1>2. CanalesEv(Actual(d)) \in Seq(Canales)
    BY <1>1, OutboxAssumption DEF CanalesEv, TypeOK, Fila
  <1>3. pase[d].canal \in 1 .. Len(CanalesEv(Actual(d)))
    BY <1>2 DEF Forma, Formado, Quedan, TypeOK, Pase
  <1> QED
    BY <1>1, <1>2, <1>3 DEF Par, CanalDe

LEMMA TipoPaso == TypeOK /\ Forma /\ [Next]_vars => TypeOK'
  <1> SUFFICES ASSUME TypeOK, Forma, [Next]_vars PROVE TypeOK'
    OBVIOUS
  <1>0. evento' \in [Eventos -> Fila]
    BY EventoTipado
  <1>1. CASE Publicar
    BY <1>0, <1>1 DEF Publicar, TypeOK
  <1>2. ASSUME NEW e \in Eventos, Envejecer(e) PROVE TypeOK'
    BY <1>0, <1>2 DEF Envejecer, TypeOK
  <1>3. ASSUME NEW d \in Despachadores, Empezar(d) PROVE TypeOK'
    BY <1>0, <1>3, EmpezarEs DEF Empezar, TypeOK
  <1>4. ASSUME NEW d \in Despachadores, Leer(d) PROVE TypeOK'
    BY <1>0, <1>4, LeerEs DEF Leer, TypeOK
  <1>5. ASSUME NEW d \in Despachadores, Reclamar(d) PROVE TypeOK'
    <2>1. Par(d) \in Eventos \X Canales
      BY <1>5, ParTipado DEF Reclamar, EnTurno
    <2> QED
      BY <1>0, <1>5, <2>1, ReclamarEs DEF Reclamar, TypeOK
  <1>6. ASSUME NEW d \in Despachadores, Alcanza(d), EnMano(d)
        PROVE  entregas' \subseteq Eventos \X Canales /\ repetida' \in BOOLEAN
    <2>1. Par(d) \in Eventos \X Canales
      BY <1>6, ParTipado DEF EnTurno, EnMano, Forma, Formado
    <2> QED
      BY <1>6, <2>1 DEF Alcanza, TypeOK, Par
  <1>7. ASSUME NEW d \in Despachadores, Entregar(d) PROVE TypeOK'
    BY <1>0, <1>6, <1>7, EntregarEs DEF Entregar, EnMano, TypeOK
  <1>8. ASSUME NEW d \in Despachadores, FallaCanal(d) PROVE TypeOK'
    <2>1. entregas' \subseteq Eventos \X Canales /\ repetida' \in BOOLEAN
      BY <1>6, <1>8 DEF FallaCanal, EnMano, TypeOK
    <2>2. fallos' \in {"no", "si", "parcial"}
      BY <1>8 DEF FallaCanal, TypeOK
    <2> QED
      BY <1>0, <1>8, <2>1, <2>2, FallaCanalEs DEF FallaCanal, TypeOK
  <1>9. ASSUME NEW d \in Despachadores, Liberar(d) PROVE TypeOK'
    BY <1>0, <1>9, LiberarEs DEF Liberar, TypeOK
  <1>10. ASSUME NEW d \in Despachadores, Terminar(d) PROVE TypeOK'
    BY <1>0, <1>10, TerminarEs DEF Terminar, TypeOK
  <1>11. ASSUME NEW d \in Despachadores, Morir(d) PROVE TypeOK'
    <2>1. caidas' \in Nat
      BY <1>11 DEF Morir, TypeOK
    <2> QED
      BY <1>0, <1>11, <2>1, MorirEs DEF Morir, TypeOK
  <1>12. CASE UNCHANGED vars
    BY <1>12 DEF vars, TypeOK
  <1> QED
    BY <1>1, <1>2, <1>3, <1>4, <1>5, <1>7, <1>8, <1>9, <1>10, <1>11, <1>12 DEF Next, Paso

-----------------------------------------------------------------------------
(* A pass that keeps its snapshot keeps its event in turn and the channels  *)
(* of it.                                                                   *)
LEMMA TurnoFijo ==
    ASSUME TypeOK, Forma, [Next]_vars, NEW d \in Despachadores, EnTurno(d),
           pase'[d].lote = pase[d].lote
    PROVE  /\ Actual(d)' = Actual(d)
           /\ CanalesEv(Actual(d))' = CanalesEv(Actual(d))
           /\ pase'[d].canal = pase[d].canal => Par(d)' = Par(d) /\ (Quedan(d)' <=> Quedan(d))
  <1>1. Actual(d)' = Actual(d)
    BY ActualEs
  <1>2. evento'[Actual(d)].tipo = evento[Actual(d)].tipo
    BY ActualEnLote, EventoFijo
  <1>3. CanalesEv(Actual(d))' = CanalesEv(Actual(d))
    BY <1>1, <1>2 DEF CanalesEv
  <1> QED
    BY <1>1, <1>3 DEF Par, CanalDe, Quedan

LEMMA OtroFijo ==
    ASSUME TypeOK, Forma, [Next]_vars, NEW o \in Despachadores, pase'[o] = pase[o]
    PROVE  /\ EnTurno(o)' <=> EnTurno(o)
           /\ EnMano(o)' <=> EnMano(o)
           /\ EnTurno(o) => /\ Actual(o)' = Actual(o) /\ Par(o)' = Par(o)
                            /\ CanalesEv(Actual(o))' = CanalesEv(Actual(o))
                            /\ Quedan(o)' <=> Quedan(o)
  BY TurnoFijo DEF EnTurno, EnMano

LEMMA ManoEnTurno == \A d \in Despachadores : EnMano(d) => EnTurno(d)
  BY DEF EnMano, EnTurno

(* A pass is moved by its own steps alone. *)
LEMMA SoloLoSuyo ==
    ASSUME TypeOK, [Next]_vars, NEW o \in Despachadores
    PROVE  pase'[o] = pase[o] \/ Paso(o) \/ Morir(o)
  <1>1. ASSUME NEW d \in Despachadores \ {o}, Paso(d) \/ Morir(d) PROVE pase'[o] = pase[o]
    BY <1>1, EmpezarEs, LeerEs, ReclamarEs, EntregarEs, FallaCanalEs, LiberarEs, TerminarEs,
       MorirEs DEF Paso, Resto
  <1> QED
    BY <1>1 DEF Next, Publicar, Envejecer, vars

(* Every step leaves a pass with an event in turn and a channel of it. *)
LEMMA FormaPaso == TypeOK /\ Forma /\ [Next]_vars => Forma'
  <1> SUFFICES ASSUME TypeOK, Forma, [Next]_vars, NEW o \in Despachadores
               PROVE  Formado(o)'
    BY DEF Forma
  <1> USE DEF Formado
  <1>1. ASSUME pase'[o] = pase[o] PROVE Formado(o)'
    <2>1. EnTurno(o) => \A e \in pase[o].lote : e \in Eventos
      BY DEF TypeOK, Pase
    <2> QED
      BY <1>1, <2>1, OtroFijo, ManoEnTurno, EventoFijo DEF Forma
  <1>2. CASE Empezar(o)
    BY <1>2, EmpezarEs DEF EnTurno, EnMano
  <1>3. CASE Leer(o)
    <2>1. evento' = evento
      BY <1>3 DEF Leer
    <2> QED
      BY <1>3, <2>1, LeerEs DEF EnTurno, EnMano, Pendientes
  <1>4. ASSUME EnTurno(o), pase'[o].lote = pase[o].lote,
               pase'[o].canal = pase[o].canal \/ pase'[o].canal = pase[o].canal + 1
        PROVE  /\ pase'[o].lote # {}
               /\ pase'[o].canal >= 1
               /\ \A e \in pase'[o].lote : evento'[e].estado # "nada"
    <2>1. \A e \in pase[o].lote : e \in Eventos
      BY DEF TypeOK, Pase
    <2>2. pase[o].canal \in Nat
      BY DEF TypeOK, Pase
    <2> QED
      BY <1>4, <2>1, <2>2, EventoFijo DEF Forma
  <1>5. CASE Reclamar(o)
    BY <1>4, <1>5, ReclamarEs, TurnoFijo DEF EnTurno, EnMano, Reclamar
  <1>6. CASE Entregar(o)
    BY <1>4, <1>6, EntregarEs DEF EnTurno, EnMano, Entregar
  <1>7. CASE FallaCanal(o)
    BY <1>4, <1>7, FallaCanalEs, TurnoFijo DEF EnTurno, EnMano, FallaCanal, Forma
  <1>8. CASE Liberar(o)
    BY <1>4, <1>8, LiberarEs DEF EnTurno, EnMano, Liberar
  <1>9. CASE Terminar(o)
    <2>1. EnTurno(o)
      BY <1>9 DEF Terminar, EnTurno
    <2>2. \A e \in pase[o].lote : e \in Eventos /\ evento'[e].estado # "nada"
      BY <2>1, EventoFijo DEF TypeOK, Pase, Forma
    <2> QED
      BY <1>9, <2>2, TerminarEs DEF EnTurno, EnMano
  <1>10. CASE Morir(o)
    BY <1>10, MorirEs, ParadoEs DEF EnTurno, EnMano
  <1> QED
    BY <1>1, <1>2, <1>3, <1>5, <1>6, <1>7, <1>8, <1>9, <1>10, SoloLoSuyo DEF Paso

-----------------------------------------------------------------------------
(* What a pass has in hand it had, or it has just claimed it. *)
LEMMA ManoPaso ==
    ASSUME TypeOK, Forma, [Next]_vars, NEW o \in Despachadores, EnMano(o)'
    PROVE  /\ Par(o)' = Par(o)
           /\ \/ EnMano(o)
              \/ /\ Reclamar(o) /\ Par(o) \notin reclamos
                 /\ reclamos' = reclamos \union {Par(o)}
  <1>1. CASE pase'[o] = pase[o]
    BY <1>1, OtroFijo, ManoEnTurno
  <1>2. CASE Reclamar(o)
    <2>1. EnTurno(o) /\ Par(o) \notin reclamos
      BY <1>2, ReclamarEs DEF Reclamar, EnTurno, EnMano
    <2> QED
      BY <1>2, <2>1, ReclamarEs, TurnoFijo
  <1>3. CASE FallaCanal(o)
    <2>1. EnMano(o)
      BY <1>3 DEF FallaCanal, EnMano
    <2> QED
      BY <1>3, <2>1, FallaCanalEs, TurnoFijo, ManoEnTurno
  <1>4. ~Empezar(o) /\ ~Entregar(o) /\ ~Liberar(o)
    BY EmpezarEs, EntregarEs, LiberarEs DEF EnMano
  <1>5. ~Leer(o) /\ ~Terminar(o) /\ ~Morir(o)
    BY LeerEs, TerminarEs, MorirEs, ParadoEs DEF EnMano
  <1> QED
    BY <1>1, <1>2, <1>3, <1>4, <1>5, SoloLoSuyo DEF Paso

(* The claims change by a claim or by a release of what was in hand. *)
LEMMA ReclamosPaso ==
    ASSUME TypeOK, [Next]_vars
    PROVE  \/ reclamos' = reclamos
           \/ \E d \in Despachadores : Reclamar(d) /\ reclamos' = reclamos \union {Par(d)}
           \/ \E d \in Despachadores :
                Liberar(d) /\ reclamos' = reclamos \ {Par(d)} /\ EnMano(d) /\ ~EnMano(d)'
  <1>1. ASSUME NEW d \in Despachadores, Reclamar(d) PROVE reclamos' = reclamos \union {Par(d)}
    BY <1>1, ReclamarEs
  <1>2. ASSUME NEW d \in Despachadores, Liberar(d)
        PROVE  reclamos' = reclamos \ {Par(d)} /\ EnMano(d) /\ ~EnMano(d)'
    BY <1>2, LiberarEs DEF Liberar, Par, EnMano
  <1> QED
    BY <1>1, <1>2 DEF Next, Paso, Publicar, Envejecer, Empezar, Leer, Entregar, FallaCanal,
       Terminar, Morir, vars

LEMMA ExclusivoPaso == TypeOK /\ Forma /\ Exclusivo /\ [Next]_vars => Exclusivo'
  <1> SUFFICES ASSUME TypeOK, Forma, Exclusivo, [Next]_vars,
                      NEW o \in Despachadores, EnMano(o)'
               PROVE  /\ Par(o)' \in reclamos'
                      /\ \A q \in Despachadores \ {o} : EnMano(q)' => Par(q)' # Par(o)'
    BY DEF Exclusivo
  <1>1. Par(o)' \in reclamos'
    BY ManoPaso, ReclamosPaso DEF Exclusivo
  <1>2. ASSUME NEW q \in Despachadores \ {o}, EnMano(q)' PROVE Par(q)' # Par(o)'
    <2>1. ~ (Reclamar(o) /\ Reclamar(q) /\ Par(q) \notin reclamos)
      BY ReclamarEs DEF Resto, Reclamar
    <2> QED
      BY <1>2, <2>1, ManoPaso DEF Exclusivo
  <1> QED
    BY <1>1, <1>2

(* Deliveries: while no channel has raised half way, each comes from a pass *)
(* that delivers what it has in hand.                                       *)
LEMMA EntregasPaso ==
    ASSUME TypeOK, [Next]_vars, fallos' # "parcial"
    PROVE  /\ fallos # "parcial"
           /\ \/ entregas' = entregas /\ repetida' = repetida
              \/ \E d \in Despachadores :
                   /\ Entregar(d) /\ EnMano(d) /\ ~EnMano(d)'
                   /\ entregas' = entregas \union {Par(d)}
                   /\ repetida' = (repetida \/ Par(d) \in entregas)
                   /\ reclamos' = reclamos
  <1>1. ASSUME NEW d \in Despachadores, Entregar(d)
        PROVE  /\ EnMano(d) /\ ~EnMano(d)'
               /\ entregas' = entregas \union {Par(d)}
               /\ repetida' = (repetida \/ Par(d) \in entregas)
               /\ reclamos' = reclamos /\ fallos' = fallos
    BY <1>1, EntregarEs DEF Entregar, Alcanza, Par, EnMano
  <1>2. ASSUME NEW d \in Despachadores, FallaCanal(d)
        PROVE  entregas' = entregas /\ repetida' = repetida /\ fallos # "parcial"
    BY <1>2 DEF FallaCanal, Par
  <1> QED
    BY <1>1, <1>2 DEF Next, Paso, Publicar, Envejecer, Empezar, Leer, Reclamar, Liberar,
       Terminar, Morir, vars

LEMMA SinRepetirPaso ==
    TypeOK /\ Forma /\ Exclusivo /\ SinRepetir /\ [Next]_vars => SinRepetir'
  <1> SUFFICES ASSUME TypeOK, Forma, Exclusivo, SinRepetir, [Next]_vars, fallos' # "parcial"
               PROVE  /\ ~repetida'
                      /\ entregas' \subseteq reclamos'
                      /\ \A o \in Despachadores : EnMano(o)' => Par(o)' \notin entregas'
    BY DEF SinRepetir
  <1>1. /\ fallos # "parcial" /\ ~repetida /\ entregas \subseteq reclamos
        /\ \A d \in Despachadores : EnMano(d) => Par(d) \notin entregas
    BY EntregasPaso DEF SinRepetir
  <1>2. ~repetida'
    BY <1>1, EntregasPaso
  <1>3. entregas' \subseteq reclamos'
    <2>1. CASE entregas' = entregas
      BY <1>1, <2>1, ReclamosPaso
    <2>2. CASE entregas' # entregas
      BY <1>1, <2>2, EntregasPaso DEF Exclusivo
    <2> QED
      BY <2>1, <2>2
  <1>4. ASSUME NEW o \in Despachadores, EnMano(o)' PROVE Par(o)' \notin entregas'
    <2>1. Par(o)' = Par(o) /\ (EnMano(o) \/ (Reclamar(o) /\ Par(o) \notin reclamos))
      BY <1>4, ManoPaso
    <2>2. Par(o) \notin entregas
      BY <1>1, <2>1
    <2>3. Reclamar(o) => entregas' = entregas
      BY DEF Reclamar
    <2> QED
      BY <1>4, <2>1, <2>2, <2>3, EntregasPaso DEF Exclusivo
  <1> QED
    BY <1>2, <1>3, <1>4

-----------------------------------------------------------------------------
(* While no delivery has raised, no pass is releasing. *)
LEMMA SinLiberarPaso == TypeOK /\ SinLiberar /\ [Next]_vars => SinLiberar'
  <1> SUFFICES ASSUME TypeOK, SinLiberar, [Next]_vars, fallos' = "no",
                      NEW o \in Despachadores
               PROVE  pase'[o].fase # "liberar"
    BY DEF SinLiberar
  <1>1. fallos = "no"
    BY DEF Next, Paso, Publicar, Envejecer, Empezar, Leer, Reclamar, Entregar, FallaCanal,
       Liberar, Terminar, Morir, vars
  <1>2. ~FallaCanal(o)
    BY <1>1 DEF FallaCanal
  <1>3. Empezar(o) \/ Leer(o) \/ Reclamar(o) => pase'[o].fase # "liberar"
    BY EmpezarEs, LeerEs, ReclamarEs
  <1>4. Entregar(o) \/ Liberar(o) \/ Terminar(o) \/ Morir(o) => pase'[o].fase # "liberar"
    BY EntregarEs, LiberarEs, TerminarEs, MorirEs, ParadoEs
  <1> QED
    BY <1>1, <1>2, <1>3, <1>4, SoloLoSuyo DEF SinLiberar, Paso

(* Only a start can make two passes overlap, and it says so. *)
LEMMA SoloPaso == TypeOK /\ Solo /\ [Next]_vars => Solo'
  <1> SUFFICES ASSUME TypeOK, Solo, [Next]_vars, ~solape',
                      NEW d \in Despachadores, NEW o \in Despachadores,
                      pase'[d].fase # "libre", pase'[o].fase # "libre"
               PROVE  d = o
    BY DEF Solo
  <1>1. ~solape
    BY DEF Next, Paso, Publicar, Envejecer, Empezar, Leer, Reclamar, Entregar, FallaCanal,
       Liberar, Terminar, Morir, vars
  <1>2. ASSUME NEW q \in Despachadores, pase'[q].fase # "libre", pase[q].fase = "libre"
        PROVE  Empezar(q)
    <2>1. ~Reclamar(q) /\ ~Entregar(q) /\ ~FallaCanal(q) /\ ~Liberar(q)
      BY <1>2 DEF Reclamar, Entregar, FallaCanal, Liberar
    <2>2. ~Leer(q) /\ ~Terminar(q) /\ ~Morir(q)
      BY <1>2 DEF Leer, Terminar, Morir
    <2> QED
      BY <1>2, <2>1, <2>2, SoloLoSuyo DEF Paso
  <1>3. ASSUME NEW q \in Despachadores, Empezar(q)
        PROVE  \A p \in Despachadores \ {q} : pase'[p].fase = "libre"
    BY <1>3, EmpezarEs DEF Empezar, Resto
  <1> QED
    BY <1>1, <1>2, <1>3 DEF Solo

LEMMA TranquiloPaso == [Next]_vars /\ Tranquilo' => Tranquilo
  BY DEF Tranquilo, Next, Paso, Publicar, Envejecer, Empezar, Leer, Reclamar, Entregar,
     FallaCanal, Liberar, Terminar, Morir, vars

(* While all is quiet, a pass at work keeps the claims it has seen. *)
LEMMA ReclamosQuedan ==
    ASSUME TypeOK, SinLiberar, Solo, Tranquilo, [Next]_vars,
           NEW o \in Despachadores, pase[o].fase # "libre", ~Liberar(o)
    PROVE  reclamos \subseteq reclamos'
  <1>1. ASSUME NEW d \in Despachadores PROVE ~Liberar(d)
    BY DEF Tranquilo, SinLiberar, Solo, Liberar
  <1> QED
    BY <1>1, ReclamosPaso

(* The channels of a type are numbered from one. *)
LEMMA CanalesDesdeUno ==
    ASSUME NEW t \in Tipos
    PROVE  /\ \A i \in DOMAIN CanalesDe[t] : i \in Nat /\ i >= 1 /\ i <= Len(CanalesDe[t])
           /\ Len(CanalesDe[t]) \in Nat
  BY OutboxAssumption

LEMMA AvancePaso ==
    TypeOK /\ Forma /\ Exclusivo /\ SinLiberar /\ Solo /\ Avance /\ [Next]_vars /\ TypeOK'
      => Avance'
  <1> DEFINE Va(o) == \A i \in DOMAIN CanalesEv(Actual(o)) :
                         i < pase[o].canal => <<Actual(o), CanalesEv(Actual(o))[i]>> \in reclamos
  <1> SUFFICES ASSUME TypeOK, Forma, Exclusivo, SinLiberar, Solo, Avance, [Next]_vars, TypeOK',
                      Tranquilo', NEW o \in Despachadores, EnTurno(o)', ~pase'[o].fallo
               PROVE  Va(o)'
    BY DEF Avance
  <1>0. Tranquilo
    BY TranquiloPaso
  <1>1. ASSUME EnTurno(o) PROVE Actual(o) \in Eventos /\ evento[Actual(o)].tipo \in Tipos
    BY <1>1, ActualEnLote DEF TypeOK, Fila
  <1>2. ASSUME EnTurno(o), ~Liberar(o) PROVE reclamos \subseteq reclamos'
    BY <1>0, <1>2, ReclamosQuedan DEF EnTurno
  <1>3. ASSUME EnTurno(o), ~Liberar(o), pase'[o].lote = pase[o].lote,
               pase'[o].fallo = pase[o].fallo, pase'[o].canal = pase[o].canal
        PROVE  Va(o)'
    BY <1>0, <1>2, <1>3, TurnoFijo DEF Avance
  <1>4. ASSUME EnTurno(o), ~Liberar(o), Quedan(o), pase'[o].lote = pase[o].lote,
               pase'[o].fallo = pase[o].fallo, pase'[o].canal = pase[o].canal + 1,
               Par(o) \in reclamos
        PROVE  Va(o)'
    <2>1. /\ Actual(o)' = Actual(o)
          /\ CanalesEv(Actual(o))' = CanalesEv(Actual(o))
      BY <1>4, TurnoFijo
    <2>2. ASSUME NEW i \in DOMAIN CanalesEv(Actual(o)), i < pase[o].canal + 1
          PROVE  <<Actual(o), CanalesEv(Actual(o))[i]>> \in reclamos
      <3>1. i \in Nat /\ pase[o].canal \in Nat
        BY <1>1, <1>4, CanalesDesdeUno DEF TypeOK, Pase, CanalesEv
      <3>2. CASE i < pase[o].canal
        BY <1>0, <1>4, <3>2 DEF Avance
      <3>3. CASE i = pase[o].canal
        BY <1>4, <3>3 DEF Par, CanalDe
      <3> QED
        BY <2>2, <3>1, <3>2, <3>3
    <2> QED
      BY <1>2, <1>4, <2>1, <2>2
  <1>5. ASSUME pase'[o].canal = 1 PROVE Va(o)'
    <2>1. pase'[o].canal = 1 /\ CanalesEv(Actual(o))' = CanalesDe[evento'[Actual(o)'].tipo]
      BY <1>5 DEF CanalesEv
    <2>2. evento'[Actual(o)'].tipo \in Tipos
      <3>1. pase'[o].lote # {} /\ pase'[o].lote \subseteq Eventos
        BY FormaPaso DEF Forma, Formado, TypeOK, Pase
      <3>2. Menor(pase'[o].lote) \in Eventos
        BY <3>1, MenorEs DEF Eventos
      <3> QED
        BY <3>2, ActualEs DEF TypeOK, Fila
    <2> QED
      BY <2>1, <2>2, CanalesDesdeUno
  <1> HIDE DEF Va
  <1>6. CASE pase'[o] = pase[o]
    BY <1>3, <1>6, OtroFijo, LiberarEs DEF Liberar
  <1>7. CASE Reclamar(o)
    <2>1. EnTurno(o) /\ Quedan(o) /\ ~Liberar(o)
      BY <1>7 DEF Reclamar, EnTurno, Liberar
    <2> QED
      BY <1>3, <1>4, <1>7, <2>1, ReclamarEs
  <1>8. CASE Entregar(o)
    <2>1. EnTurno(o) /\ EnMano(o) /\ ~Liberar(o)
      BY <1>8 DEF Entregar, EnTurno, EnMano, Liberar
    <2>2. Quedan(o) /\ Par(o) \in reclamos
      BY <2>1 DEF Forma, Formado, Exclusivo
    <2> QED
      BY <1>4, <1>8, <2>1, <2>2, EntregarEs
  <1>9. CASE FallaCanal(o)
    <2>1. EnTurno(o) /\ ~Liberar(o)
      BY <1>9 DEF FallaCanal, EnTurno, Liberar
    <2> QED
      BY <1>3, <1>9, <2>1, FallaCanalEs
  <1>10. CASE Leer(o) \/ Terminar(o)
    BY <1>5, <1>10, LeerEs, TerminarEs
  <1>11. ~Empezar(o) /\ ~Liberar(o) /\ ~Morir(o)
    BY EmpezarEs, LiberarEs, MorirEs, ParadoEs DEF EnTurno
  <1> QED
    BY <1>6, <1>7, <1>8, <1>9, <1>10, <1>11, SoloLoSuyo DEF Paso

(* An event closes when the pass that closes it has gone past all its       *)
(* channels, and stays claimed until a release reopens it.                  *)
LEMMA CerradoReclamadoPaso ==
    TypeOK /\ Forma /\ SinLiberar /\ Solo /\ Avance /\ CerradoReclamado /\ [Next]_vars
      => CerradoReclamado'
  <1> SUFFICES ASSUME TypeOK, Forma, SinLiberar, Solo, Avance, CerradoReclamado, [Next]_vars,
                      Tranquilo', NEW e \in Eventos, Cerrado(e)'
               PROVE  \A i \in DOMAIN CanalesEv(e)' : <<e, CanalesEv(e)'[i]>> \in reclamos'
    BY DEF CerradoReclamado
  <1>0. Tranquilo
    BY TranquiloPaso
  <1>1. ASSUME Cerrado(e), evento'[e].tipo = evento[e].tipo,
               \A d \in Despachadores : Liberar(d) => Actual(d) # e
        PROVE  \A i \in DOMAIN CanalesEv(e)' : <<e, CanalesEv(e)'[i]>> \in reclamos'
    <2>1. CanalesEv(e)' = CanalesEv(e)
      BY <1>1 DEF CanalesEv
    <2>2. \A i \in DOMAIN CanalesEv(e) : <<e, CanalesEv(e)[i]>> \in reclamos
      BY <1>0, <1>1 DEF CerradoReclamado
    <2>3. \A i \in DOMAIN CanalesEv(e), d \in Despachadores :
             Liberar(d) => Par(d) # <<e, CanalesEv(e)[i]>>
      BY <1>1 DEF Par
    <2> QED
      BY <2>1, <2>2, <2>3, ReclamosPaso
  <1>2. ASSUME NEW d \in Despachadores, Terminar(d), ~pase[d].fallo, Actual(d) = e
        PROVE  \A i \in DOMAIN CanalesEv(e)' : <<e, CanalesEv(e)'[i]>> \in reclamos'
    <2>1. EnTurno(d) /\ ~Quedan(d) /\ reclamos' = reclamos
      BY <1>2 DEF Terminar, EnTurno
    <2>2. evento[e].tipo \in Tipos /\ pase[d].canal \in Nat
      BY DEF TypeOK, Fila, Pase
    <2>3. CanalesEv(e)' = CanalesEv(e)
      BY <1>2, <2>1, ActualEnLote, EventoFijo DEF CanalesEv
    <2>4. \A i \in DOMAIN CanalesEv(e) : i < pase[d].canal
      BY <1>2, <2>1, <2>2, CanalesDesdeUno DEF Quedan, CanalesEv
    <2> QED
      BY <1>0, <1>2, <2>1, <2>3, <2>4 DEF Avance
  <1> QED
    BY <1>1, <1>2, CerradoFijo

(* While nothing fails and nobody dies, a claim is delivered by the pass    *)
(* that made it.                                                            *)
LEMMA ReclamadoLlegaPaso ==
    TypeOK /\ Forma /\ ReclamadoLlega /\ [Next]_vars => ReclamadoLlega'
  <1> SUFFICES ASSUME TypeOK, Forma, ReclamadoLlega, [Next]_vars,
                      fallos' = "no", caidas' = 0, NEW par \in reclamos', par \notin entregas'
               PROVE  \E d \in Despachadores : pase'[d].fase = "entregar" /\ Par(d)' = par
    BY DEF ReclamadoLlega
  <1>1. ASSUME NEW d \in Despachadores PROVE ~Morir(d) /\ ~FallaCanal(d)
    <2>1. ~Morir(d)
      BY DEF Morir, TypeOK
    <2>2. ~FallaCanal(d)
      BY DEF FallaCanal
    <2> QED
      BY <2>1, <2>2
  <1>2. fallos = "no" /\ caidas = 0
    BY <1>1 DEF Next, Paso, Publicar, Envejecer, Empezar, Leer, Reclamar, Entregar,
       Liberar, Terminar, vars
  <1>3. par \notin entregas
    BY <1>1, EntregasPaso
  <1>4. ASSUME NEW d \in Despachadores, Reclamar(d), par = Par(d), par \notin reclamos
        PROVE  pase'[d].fase = "entregar" /\ Par(d)' = par
    <2>1. EnTurno(d)
      BY <1>4 DEF Reclamar, EnTurno
    <2> QED
      BY <1>4, <2>1, ReclamarEs, TurnoFijo
  <1>5. ASSUME NEW d \in Despachadores, pase[d].fase = "entregar", Par(d) = par
        PROVE  pase'[d].fase = "entregar" /\ Par(d)' = par
    <2>1. ~Entregar(d)
      BY <1>5 DEF Entregar, Alcanza, Par
    <2>2. pase'[d] = pase[d]
      BY <1>1, <1>5, <2>1, SoloLoSuyo
      DEF Paso, Empezar, Leer, Reclamar, Liberar, Terminar
    <2> QED
      BY <1>5, <2>2, OtroFijo DEF EnTurno
  <1>6. CASE par \in reclamos
    BY <1>2, <1>3, <1>5, <1>6 DEF ReclamadoLlega
  <1>7. CASE par \notin reclamos
    BY <1>4, <1>7, ReclamosPaso
  <1> QED
    BY <1>6, <1>7

-----------------------------------------------------------------------------
LEMMA InvInicial == Init => Inv
  <1> SUFFICES ASSUME Init PROVE Inv
    OBVIOUS
  <1>1. TypeOK
    BY TipoInicial
  <1>2. \A d \in Despachadores : pase[d].fase = "libre"
    BY ParadoEs DEF Init
  <1>3. Forma /\ Exclusivo /\ SinLiberar /\ Avance
    BY <1>2 DEF Forma, Formado, Exclusivo, SinLiberar, Avance, EnTurno, EnMano
  <1>4. SinRepetir /\ Solo /\ ReclamadoLlega
    BY <1>2 DEF Init, SinRepetir, Solo, ReclamadoLlega, EnMano
  <1>5. CerradoReclamado
    BY DEF Init, CerradoReclamado, Cerrado
  <1> QED
    BY <1>1, <1>3, <1>4, <1>5 DEF Inv

LEMMA InvPaso == Inv /\ [Next]_vars => Inv'
  BY TipoPaso, FormaPaso, ExclusivoPaso, SinRepetirPaso, SinLiberarPaso, SoloPaso, AvancePaso,
     CerradoReclamadoPaso, ReclamadoLlegaPaso
  DEF Inv

(* The inductive invariant: what each pass has in hand, claimed or sent      *)
(* agrees with the tables at every step of every pass (event_dispatch.py).   *)
THEOREM InvSiempre == Spec => []Inv
  BY InvInicial, InvPaso, PTL DEF Spec

(* The types of the tables and of the passes (db/events.py,                 *)
(* scheduler/jobs/event_dispatch.py) hold for every number of passes,       *)
(* events, types and channels.                                              *)
THEOREM Tipado == Spec => []TypeOK
  BY InvSiempre, PTL DEF Inv

(* However passes overlap, fail, die and retry, a channel of an event goes  *)
(* out at most once until some channel raises half way: the unique pair of  *)
(* domain_event_dispatches is enough (claim_channel, db/events.py).         *)
THEOREM UnaEntrega == Spec => []UnaEntregaPorCanal
  <1>1. Inv => UnaEntregaPorCanal
    BY DEF Inv, SinRepetir, UnaEntregaPorCanal
  <1> QED
    BY <1>1, InvSiempre, PTL

(* While passes have not overlapped, an event closed without expiring has   *)
(* every channel claimed, whatever has failed or died (release_channel and  *)
(* mark_dispatched, event_dispatch.py).                                     *)
THEOREM SinSolape == Spec => []SinSolapeTodoReclamado
  <1>1. Inv => SinSolapeTodoReclamado
    BY DEF Inv, CerradoReclamado, Tranquilo, SinSolapeTodoReclamado
  <1> QED
    BY <1>1, InvSiempre, PTL

(* While no delivery has raised and no pass has died, an event closed       *)
(* without expiring has every channel delivered or in the hands of a pass,  *)
(* overlaps included.                                                       *)
THEOREM SinFallosLlega == Spec => []SinFallosTodoLlega
  <1>1. Inv => SinFallosTodoLlega
    <2> SUFFICES ASSUME Inv, fallos = "no", caidas = 0, NEW e \in Eventos, Cerrado(e),
                        NEW i \in DOMAIN CanalesEv(e),
                        <<e, CanalesEv(e)[i]>> \notin entregas
                 PROVE  \E d \in Despachadores :
                          pase[d].fase = "entregar" /\ Actual(d) = e /\ pase[d].canal = i
      BY DEF SinFallosTodoLlega
    <2>1. <<e, CanalesEv(e)[i]>> \in reclamos
      BY DEF Inv, CerradoReclamado, Tranquilo
    <2>2. PICK d \in Despachadores :
             pase[d].fase = "entregar" /\ Par(d) = <<e, CanalesEv(e)[i]>>
      BY <2>1 DEF Inv, ReclamadoLlega
    <2>3. Actual(d) = e /\ CanalesEv(e)[pase[d].canal] = CanalesEv(e)[i]
      BY <2>2 DEF Par, CanalDe
    <2>4. pase[d].canal \in DOMAIN CanalesEv(e)
      BY <2>2, <2>3, ParTipado DEF Inv, Forma, Formado, EnMano, EnTurno
    <2>5. evento[e].tipo \in Tipos
      BY DEF Inv, TypeOK, Fila
    <2>6. pase[d].canal = i
      BY <2>3, <2>4, <2>5, OutboxAssumption DEF CanalesEv
    <2> QED
      BY <2>2, <2>3, <2>6
  <1> QED
    BY <1>1, InvSiempre, PTL
=============================================================================
