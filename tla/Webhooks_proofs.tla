---------------------------- MODULE Webhooks_proofs ----------------------------
(* Proofs about the deliveries of a webhook: what was accepted is over, the *)
(* attempts are capped and counted, and only what is exhausted disables.    *)
EXTENDS Webhooks, FiniteSetTheorems, TLAPS

EnMano(p) == intento[p].fase \in {"enviar", "anotar"}
De(p)     == intento[p].entrega

(* A first attempt has its delivery to itself until its row is written.     *)
Propio ==
    \A p \in Emisores : EnMano(p) =>
       /\ De(p) \in Entregas
       /\ entrega[De(p)].estado = "nada"
       /\ intento[p].hechos = 1
       /\ enviadas[De(p)] = IF Fase(p, "enviar") THEN 0 ELSE 1
       /\ \A q \in Procesos \ {p} : De(q) # De(p)
       /\ \A x \in lote : x[1] # De(p)

(* The retry pass has each delivery once: in its hands or still to send.    *)
LoteUnico ==
    /\ \A x, y \in lote : x[1] = y[1] => x = y
    /\ EnMano(Reintentador) =>
         /\ De(Reintentador) \in Entregas
         /\ \A x \in lote : x[1] # De(Reintentador)
    /\ webhook.existe => \A x \in lote : entrega[x[1]].estado # "nada"

(* What the retry pass has is still pending, with the attempts it read,     *)
(* unless it was deleted.                                                   *)
LoteAlDia ==
    /\ \A x \in lote : entrega[x[1]].estado # "nada" =>
          entrega[x[1]].estado = "pending" /\ entrega[x[1]].intentos = x[2]
    /\ (EnMano(Reintentador) /\ entrega[De(Reintentador)].estado # "nada") =>
          /\ entrega[De(Reintentador)].estado = "pending"
          /\ intento[Reintentador].hechos = entrega[De(Reintentador)].intentos + 1

(* A pending delivery has an attempt left. *)
QuedaIntento ==
    \A e \in Entregas :
       /\ entrega[e].intentos <= MaxIntentos + clics[e]
       /\ entrega[e].estado = "pending" => entrega[e].intentos < MaxIntentos + clics[e]

(* What was accepted has its row closed, or its sender is about to close it; *)
(* nobody has a request of it left to send.                                 *)
AceptadaCerrada ==
    \A e \in sabidas :
       /\ enviadas[e] > 0
       /\ \A p \in Procesos : De(p) = e =>
             ~Fase(p, "enviar") /\ (Fase(p, "anotar") => intento[p].exito)
       /\ \/ entrega[e].estado \in {"delivered", "nada"}
          \/ Fase(Reintentador, "anotar") /\ De(Reintentador) = e

(* The requests out that the row does not count: the one of the retry pass. *)
SinAnotar(e) == IF Fase(Reintentador, "anotar") /\ De(Reintentador) = e THEN 1 ELSE 0

Contadas ==
    \A e \in Entregas : entrega[e].estado # "nada" =>
       enviadas[e] <= entrega[e].intentos + SinAnotar(e) + caidas

Inv ==
    /\ TypeOK
    /\ Propio
    /\ LoteUnico
    /\ LoteAlDia
    /\ QuedaIntento
    /\ Contadas
    /\ AceptadaCerrada
    /\ SoloCuentaLoDefinitivo

-----------------------------------------------------------------------------
(* The operators. *)
LEMMA LibreEs ==
    /\ Libre \in Intento /\ Libre.fase = "libre" /\ Libre.entrega = 0
    /\ SinFila \in Fila /\ SinFila.estado = "nada" /\ SinFila.intentos = 0
  BY DEF Libre, Intento, SinFila, Fila

LEMMA DecidirEs ==
    ASSUME NEW exito \in BOOLEAN, NEW n \in Nat
    PROVE  /\ Decidir(exito, n) \in Estados
           /\ Decidir(exito, n) = "pending" => n + 1 <= MaxIntentos
  <1>1. MaxIntentos \in Nat
    BY WebhooksAssumption
  <1> QED
    BY <1>1 DEF Decidir, SinEspera, Estados

LEMMA ReintentadaEs ==
    ASSUME NEW f \in Fila, NEW s \in Estados
    PROVE  /\ Reintentada(f, s) \in Fila
           /\ f.estado = "nada" => Reintentada(f, s) = f
           /\ f.estado # "nada" => /\ Reintentada(f, s).estado = s
                                   /\ Reintentada(f, s).intentos = f.intentos + 1
  BY DEF Reintentada, Fila, Estados

LEMMA ProcesosEs == Reintentador \in Procesos /\ Emisores \subseteq Procesos
                    /\ Reintentador \notin Emisores
  BY WebhooksAssumption DEF Procesos

-----------------------------------------------------------------------------
(* What each step does to the attempt in the hands of its process. *)
Otros(p) == \A q \in Procesos \ {p} : intento'[q] = intento[q]

LEMMA IntentoCambia ==
    ASSUME TypeOK, NEW p \in Procesos, NEW i \in Intento, intento' = [intento EXCEPT ![p] = i]
    PROVE  intento' \in [Procesos -> Intento] /\ Otros(p) /\ intento'[p] = i
  BY DEF TypeOK, Otros

LEMMA DejaEs ==
    ASSUME TypeOK, NEW p \in Procesos, Deja(p)
    PROVE  /\ intento' \in [Procesos -> Intento] /\ Otros(p)
           /\ intento'[p].fase = "libre" /\ intento'[p].entrega = 0
  BY IntentoCambia, LibreEs DEF Deja

LEMMA EmitirEs ==
    ASSUME TypeOK, NEW p \in Procesos, Emitir(p)
    PROVE  /\ intento' \in [Procesos -> Intento] /\ Otros(p) /\ p \in Emisores
           /\ intento'[p].fase = "enviar" /\ intento'[p].entrega \in Nuevas
           /\ intento'[p].hechos = 1
  <1>1. PICK e \in Nuevas :
           intento' = [intento EXCEPT ![p] =
              [fase |-> "enviar", entrega |-> e, hechos |-> 1, exito |-> FALSE]]
    BY DEF Emitir
  <1> DEFINE i == [fase |-> "enviar", entrega |-> e, hechos |-> 1, exito |-> FALSE]
  <1>2. i \in Intento /\ i.fase = "enviar" /\ i.entrega = e /\ i.hechos = 1
    BY DEF Intento, Nuevas
  <1> HIDE DEF i
  <1>3. intento' = [intento EXCEPT ![p] = i]
    BY <1>1 DEF i
  <1> QED
    BY <1>2, <1>3, IntentoCambia DEF Emitir

LEMMA ReenviarEs ==
    ASSUME TypeOK, Reenviar
    PROVE  \E x \in lote :
             /\ lote' = lote \ {x}
             /\ \/ intento' = intento /\ ~webhook.existe
                \/ /\ intento' \in [Procesos -> Intento] /\ Otros(Reintentador)
                   /\ webhook.existe
                   /\ intento'[Reintentador].fase = "enviar"
                   /\ intento'[Reintentador].entrega = x[1]
                   /\ intento'[Reintentador].hechos = x[2] + 1
  <1>1. PICK x \in lote :
           /\ lote' = lote \ {x}
           /\ intento' = IF ~webhook.existe THEN intento
                         ELSE [intento EXCEPT ![Reintentador] =
                                 [fase |-> "enviar", entrega |-> x[1],
                                  hechos |-> x[2] + 1, exito |-> FALSE]]
    BY DEF Reenviar
  <1> DEFINE i == [fase |-> "enviar", entrega |-> x[1], hechos |-> x[2] + 1, exito |-> FALSE]
  <1>2. x[1] \in Entregas /\ x[2] + 1 \in Nat
    BY DEF TypeOK
  <1>3. i \in Intento /\ i.fase = "enviar" /\ i.entrega = x[1] /\ i.hechos = x[2] + 1
    BY <1>2 DEF Intento
  <1>4. webhook.existe => intento' = [intento EXCEPT ![Reintentador] = i]
    BY <1>1
  <1> HIDE DEF i
  <1> QED
    BY <1>1, <1>3, <1>4, IntentoCambia, ProcesosEs

LEMMA EnviarEs ==
    ASSUME TypeOK, NEW p \in Procesos, NEW exito \in BOOLEAN, Enviar(p, exito)
    PROVE  /\ intento' \in [Procesos -> Intento] /\ Otros(p)
           /\ intento'[p].fase = "anotar" /\ intento'[p].entrega = intento[p].entrega
           /\ intento'[p].hechos = intento[p].hechos /\ intento'[p].exito = exito
  <1> DEFINE i == [intento[p] EXCEPT !.fase = "anotar", !.exito = exito]
  <1>1. intento' = [intento EXCEPT ![p] = i]
    BY DEF Enviar
  <1>2. intento[p] \in Intento
    BY DEF TypeOK
  <1>3. i \in Intento /\ i.fase = "anotar" /\ i.entrega = intento[p].entrega
        /\ i.hechos = intento[p].hechos /\ i.exito = exito
    BY <1>2 DEF Intento
  <1> HIDE DEF i
  <1> QED
    BY <1>1, <1>3, IntentoCambia

(* A first attempt blocked, or an attempt written down, is left to count. *)
LEMMA BloquearEs ==
    ASSUME TypeOK, NEW p \in Procesos, Bloquear(p)
    PROVE  /\ intento' \in [Procesos -> Intento] /\ Otros(p)
           /\ p \in Emisores => /\ intento'[p].fase = "contar"
                                /\ intento'[p].entrega = intento[p].entrega
           /\ p \notin Emisores => intento'[p].fase = "libre" /\ intento'[p].entrega = 0
  <1> DEFINE i == [intento[p] EXCEPT !.fase = "contar", !.hechos = MaxIntentos]
  <1>1. p \in Emisores => intento' = [intento EXCEPT ![p] = i]
    BY DEF Bloquear
  <1>2. intento[p] \in Intento /\ MaxIntentos \in Nat
    BY WebhooksAssumption DEF TypeOK
  <1>3. i \in Intento /\ i.fase = "contar" /\ i.entrega = intento[p].entrega
    BY <1>2 DEF Intento
  <1> HIDE DEF i
  <1>4. p \notin Emisores => Deja(p)
    BY DEF Bloquear
  <1> QED
    BY <1>1, <1>3, <1>4, IntentoCambia, DejaEs

LEMMA AnotarEs ==
    ASSUME TypeOK, NEW p \in Procesos, Anotar(p)
    PROVE  /\ intento' \in [Procesos -> Intento] /\ Otros(p)
           /\ intento'[p].fase = "contar" /\ intento'[p].entrega = intento[p].entrega
           /\ intento'[p].hechos = intento[p].hechos /\ intento'[p].exito = intento[p].exito
  <1> DEFINE i == [intento[p] EXCEPT !.fase = "contar"]
  <1>1. intento' = [intento EXCEPT ![p] = i]
    BY DEF Anotar
  <1>2. intento[p] \in Intento
    BY DEF TypeOK
  <1>3. i \in Intento /\ i.fase = "contar" /\ i.entrega = intento[p].entrega
        /\ i.hechos = intento[p].hechos /\ i.exito = intento[p].exito
    BY <1>2 DEF Intento
  <1> HIDE DEF i
  <1> QED
    BY <1>1, <1>3, IntentoCambia

(* An attempt is moved by the steps of its process alone. *)
LEMMA SoloLoSuyo ==
    ASSUME TypeOK, [Next]_vars, NEW q \in Procesos
    PROVE  \/ intento'[q] = intento[q]
           \/ Emitir(q) \/ Sigue(q) \/ Morir(q)
           \/ q = Reintentador /\ Reenviar
  <1>1. ASSUME NEW p \in Procesos \ {q}, Emitir(p) \/ Sigue(p) \/ Morir(p)
        PROVE  intento'[q] = intento[q]
    <2>1. CASE Emitir(p)
      BY <2>1, EmitirEs DEF Otros
    <2>2. CASE Bloquear(p) \/ Anotar(p)
      BY <2>2, BloquearEs, AnotarEs DEF Otros
    <2>3. CASE Contar(p) \/ Morir(p)
      BY <2>3, DejaEs DEF Contar, Morir, Otros
    <2>4. CASE Enviar(p, TRUE) \/ Enviar(p, FALSE)
      BY <2>4, EnviarEs DEF Otros
    <2> QED
      BY <1>1, <2>1, <2>2, <2>3, <2>4 DEF Sigue
  <1>2. ASSUME Reenviar, q # Reintentador PROVE intento'[q] = intento[q]
    BY <1>2, ReenviarEs DEF Otros
  <1> QED
    BY <1>1, <1>2 DEF Next, Leer, Vencer, EncolarReintento, Activar, Ping, Borrar, vars

-----------------------------------------------------------------------------
(* What each step does to the row of a delivery. *)
Igual(e)    == entrega'[e].estado = entrega[e].estado /\ entrega'[e].intentos = entrega[e].intentos
Redimida(e) == /\ Reenviable(e) /\ entrega[e].estado # "nada" /\ entrega'[e].estado = "pending"
               /\ entrega'[e].intentos = entrega[e].intentos
               /\ clics'[e] = clics[e] + 1 /\ enviadas' = enviadas /\ intento' = intento
               /\ lote' = lote
Creada(e)   == \E p \in Emisores :
                  /\ Anotar(p) /\ De(p) = e /\ EnMano(p)
                  /\ entrega'[e].estado = Decidir(intento[p].exito, intento[p].hechos)
                  /\ entrega'[e].intentos = 1
Reanotada(e) == /\ Anotar(Reintentador) \/ Bloquear(Reintentador)
                /\ De(Reintentador) = e /\ EnMano(Reintentador)
                /\ entrega[e].estado # "nada"
                /\ entrega'[e].intentos = entrega[e].intentos + 1
                /\ \/ entrega'[e].estado = "failed"
                   \/ /\ Anotar(Reintentador)
                      /\ entrega'[e].estado = Decidir(intento[Reintentador].exito,
                                                      intento[Reintentador].hechos)

LEMMA AnotarFila ==
    ASSUME TypeOK, NEW p \in Procesos, Anotar(p), De(p) \in Entregas
    PROVE  /\ entrega' \in [Entregas -> Fila]
           /\ \A e \in Entregas \ {De(p)} : entrega'[e] = entrega[e]
           /\ Igual(De(p)) \/ Creada(De(p)) \/ Reanotada(De(p))
  <1> DEFINE i == intento[p]
             s == Decidir(i.exito, i.hechos)
             n == [estado |-> s, toca |-> FALSE, intentos |-> 1]
  <1>1. s \in Estados /\ EnMano(p)
    BY DecidirEs DEF TypeOK, Intento, Anotar, EnMano, Fase
  <1>2. n \in Fila /\ n.estado = s /\ n.intentos = 1
    BY <1>1 DEF Fila
  <1>3. CASE p \in Emisores
    <2>1. entrega' = entrega \/ entrega' = [entrega EXCEPT ![De(p)] = n]
      BY <1>3 DEF Anotar, De
    <2> HIDE DEF n
    <2>2. CASE entrega' = entrega
      BY <2>2 DEF TypeOK, Igual
    <2>3. CASE entrega' = [entrega EXCEPT ![De(p)] = n]
      BY <1>1, <1>2, <1>3, <2>3 DEF TypeOK, Creada
    <2> QED
      BY <2>1, <2>2, <2>3
  <1>4. CASE p \notin Emisores
    <2>1. p = Reintentador
      BY <1>4 DEF Procesos
    <2>2. entrega' = [entrega EXCEPT ![De(p)] = Reintentada(entrega[De(p)], s)]
      BY <1>4 DEF Anotar, De
    <2>3. entrega[De(p)] \in Fila
      BY DEF TypeOK
    <2>4. entrega'[De(p)] = Reintentada(entrega[De(p)], s)
      BY <2>2 DEF TypeOK
    <2>5. Igual(De(p)) \/ Reanotada(De(p))
      BY <1>1, <2>1, <2>3, <2>4, ReintentadaEs DEF Igual, Reanotada
    <2> QED
      BY <1>1, <2>2, <2>3, <2>5, ReintentadaEs DEF TypeOK
  <1> QED
    BY <1>3, <1>4

LEMMA BloquearFila ==
    ASSUME TypeOK, NEW p \in Procesos, Bloquear(p), De(p) \in Entregas
    PROVE  /\ entrega' \in [Entregas -> Fila]
           /\ \A e \in Entregas \ {De(p)} : entrega'[e] = entrega[e]
           /\ Igual(De(p)) \/ Reanotada(De(p))
  <1>1. CASE p \in Emisores
    BY <1>1 DEF Bloquear, TypeOK, Igual
  <1>2. CASE p \notin Emisores
    <2>1. p = Reintentador /\ EnMano(p)
      BY <1>2 DEF Procesos, Bloquear, EnMano, Fase
    <2>2. entrega' = [entrega EXCEPT ![De(p)] = Reintentada(entrega[De(p)], "failed")]
      BY <1>2 DEF Bloquear, De
    <2>3. entrega[De(p)] \in Fila /\ "failed" \in Estados
      BY DEF TypeOK, Estados
    <2>4. entrega'[De(p)] = Reintentada(entrega[De(p)], "failed")
      BY <2>2 DEF TypeOK
    <2>5. Igual(De(p)) \/ Reanotada(De(p))
      BY <2>1, <2>3, <2>4, ReintentadaEs DEF Igual, Reanotada
    <2> QED
      BY <2>2, <2>3, <2>5, ReintentadaEs DEF TypeOK
  <1> QED
    BY <1>1, <1>2

LEMMA ManoEnEntregas ==
    ASSUME Propio, LoteUnico, NEW p \in Procesos, EnMano(p)
    PROVE  De(p) \in Entregas
  BY DEF Propio, LoteUnico, Procesos

(* A row stays, is marked as due, redelivered, written by a first attempt   *)
(* or by a retry, or deleted with the webhook.                              *)
LEMMA FilaPaso ==
    ASSUME TypeOK, Propio, LoteUnico, [Next]_vars
    PROVE  /\ entrega' \in [Entregas -> Fila]
           /\ \A e \in Entregas :
                 Igual(e) \/ Redimida(e) \/ Creada(e) \/ Reanotada(e)
                   \/ (Borrar /\ entrega'[e] = SinFila)
  <1> DEFINE Bien == /\ entrega' \in [Entregas -> Fila]
                     /\ \A e \in Entregas :
                           Igual(e) \/ Redimida(e) \/ Creada(e) \/ Reanotada(e)
                             \/ (Borrar /\ entrega'[e] = SinFila)
  <1>1. CASE entrega' = entrega
    BY <1>1 DEF Igual, TypeOK
  <1>2. ASSUME NEW p \in Procesos, Anotar(p) PROVE Bien
    <2>1. De(p) \in Entregas
      BY <1>2, ManoEnEntregas DEF Anotar, Fase, EnMano
    <2> QED
      BY <1>2, <2>1, AnotarFila DEF Igual
  <1>3. ASSUME NEW p \in Procesos, Bloquear(p) PROVE Bien
    <2>1. De(p) \in Entregas
      BY <1>3, ManoEnEntregas DEF Bloquear, Fase, EnMano
    <2> QED
      BY <1>3, <2>1, BloquearFila DEF Igual
  <1>4. ASSUME NEW e \in Entregas, Vencer(e) PROVE Bien
    <2> DEFINE f == [entrega[e] EXCEPT !.toca = TRUE]
    <2>1. entrega' = [entrega EXCEPT ![e] = f] /\ entrega[e] \in Fila
      BY <1>4 DEF Vencer, TypeOK
    <2>2. f \in Fila /\ f.estado = entrega[e].estado /\ f.intentos = entrega[e].intentos
      BY <2>1 DEF Fila
    <2> HIDE DEF f
    <2> QED
      BY <2>1, <2>2 DEF TypeOK, Igual
  <1>5. ASSUME NEW e \in Entregas, EncolarReintento(e) PROVE Bien
    <2> DEFINE f == [entrega[e] EXCEPT !.estado = "pending", !.toca = TRUE]
    <2>1. entrega' = [entrega EXCEPT ![e] = f] /\ entrega[e] \in Fila
      BY <1>5 DEF EncolarReintento, TypeOK
    <2>2. f \in Fila /\ f.estado = "pending" /\ f.intentos = entrega[e].intentos
      BY <2>1 DEF Fila, Estados
    <2> HIDE DEF f
    <2>3. clics'[e] = clics[e] + 1 /\ enviadas' = enviadas /\ intento' = intento /\ lote' = lote
      BY <1>5 DEF EncolarReintento, TypeOK
    <2>4. Reenviable(e) /\ entrega[e].estado # "nada"
      BY <1>5 DEF EncolarReintento, Reenviable, Estados
    <2>5. Redimida(e)
      BY <2>1, <2>2, <2>3, <2>4 DEF TypeOK, Redimida
    <2> QED
      BY <2>1, <2>2, <2>5 DEF TypeOK, Igual
  <1>6. CASE Borrar
    BY <1>6, LibreEs DEF Borrar
  <1> QED
    BY <1>1, <1>2, <1>3, <1>4, <1>5, <1>6 DEF Next, Sigue, Emitir, Enviar, Contar, Morir,
       Leer, Reenviar, Activar, Ping, vars

LEMMA EnviadasPaso ==
    ASSUME TypeOK, Propio, LoteUnico, [Next]_vars
    PROVE  \/ enviadas' = enviadas
           \/ \E p \in Procesos :
                /\ Fase(p, "enviar") /\ EnMano(p) /\ De(p) \in Entregas
                /\ Enviar(p, TRUE) \/ Enviar(p, FALSE)
                /\ enviadas' = [enviadas EXCEPT ![De(p)] = enviadas[De(p)] + 1]
                /\ entrega' = entrega /\ lote' = lote
  <1>1. ASSUME NEW p \in Procesos, Enviar(p, TRUE) \/ Enviar(p, FALSE)
        PROVE  /\ Fase(p, "enviar") /\ EnMano(p) /\ De(p) \in Entregas
               /\ enviadas' = [enviadas EXCEPT ![De(p)] = enviadas[De(p)] + 1]
               /\ entrega' = entrega /\ lote' = lote
    BY <1>1, ManoEnEntregas DEF Enviar, EnMano, Fase, De
  <1> QED
    BY <1>1 DEF Next, Sigue, Emitir, Bloquear, Anotar, Contar, Morir, Leer, Reenviar, Vencer,
       EncolarReintento, Activar, Ping, Borrar, vars

LEMMA WebhookPaso ==
    ASSUME TypeOK, [Next]_vars
    PROVE  /\ webhook' \in [existe : BOOLEAN, activo : BOOLEAN, fallos : Nat]
           /\ webhook'.existe => webhook.existe /\ ~Borrar
  <1> USE DEF TypeOK
  <1>1. CASE webhook' = webhook /\ ~Borrar
    BY <1>1
  <1>2. ASSUME \/ \E p \in Procesos : Contar(p)
               \/ \E valor \in BOOLEAN : Ping(valor)
        PROVE  /\ webhook' \in [existe : BOOLEAN, activo : BOOLEAN, fallos : Nat]
               /\ webhook'.existe => webhook.existe
    <2> DEFINE n == webhook.fallos + 1
               a == webhook.activo /\ webhook.fallos + 1 < Umbral
    <2>1. n \in Nat
      OBVIOUS
    <2>2. a \in BOOLEAN
      OBVIOUS
    <2>3. \/ webhook' = webhook
          \/ webhook' = [webhook EXCEPT !.fallos = 0]
          \/ webhook' = [webhook EXCEPT !.fallos = n, !.activo = a]
      BY <1>2 DEF Contar, Ping, TrasIntento, Suma
    <2>4. /\ webhook.existe \in BOOLEAN /\ webhook.activo \in BOOLEAN /\ webhook.fallos \in Nat
          /\ webhook = [existe |-> webhook.existe, activo |-> webhook.activo,
                        fallos |-> webhook.fallos]
      OBVIOUS
    <2> HIDE DEF n, a, TypeOK
    <2>5. \/ webhook' = webhook
          \/ webhook' = [existe |-> webhook.existe, activo |-> webhook.activo, fallos |-> 0]
          \/ webhook' = [existe |-> webhook.existe, activo |-> a, fallos |-> n]
      BY <2>3, <2>4
    <2>6. 0 \in Nat
      OBVIOUS
    <2>7. \A x, y \in BOOLEAN, k \in Nat :
             /\ [existe |-> x, activo |-> y, fallos |-> k]
                  \in [existe : BOOLEAN, activo : BOOLEAN, fallos : Nat]
             /\ [existe |-> x, activo |-> y, fallos |-> k].existe = x
      OBVIOUS
    <2>8. CASE webhook' = webhook
      BY <2>4, <2>7, <2>8, Zenon
    <2>9. CASE webhook' = [existe |-> webhook.existe, activo |-> webhook.activo, fallos |-> 0]
      BY <2>4, <2>6, <2>7, <2>9, Zenon
    <2>10. CASE webhook' = [existe |-> webhook.existe, activo |-> a, fallos |-> n]
      BY <2>1, <2>2, <2>4, <2>7, <2>10, Zenon
    <2> QED
      BY <2>5, <2>8, <2>9, <2>10
  <1>3. ASSUME NEW valor \in BOOLEAN, Activar(valor)
        PROVE  /\ webhook' \in [existe : BOOLEAN, activo : BOOLEAN, fallos : Nat]
               /\ webhook'.existe => webhook.existe
    BY <1>3 DEF Activar
  <1>4. CASE Borrar
    BY <1>4 DEF Borrar
  <1> QED
    BY <1>1, <1>2, <1>3, <1>4 DEF Next, Sigue, Emitir, Enviar, Bloquear, Anotar, Morir, Leer,
       Reenviar, Vencer, EncolarReintento, vars

(* What is known to be accepted grows with the request that is answered, and *)
(* loses an answer with its sender.                                         *)
LEMMA SabidasPaso ==
    ASSUME TypeOK, Propio, LoteUnico, [Next]_vars
    PROVE  /\ \/ sabidas' \subseteq sabidas
              \/ \E p \in Procesos : /\ Enviar(p, TRUE) /\ Fase(p, "enviar") /\ De(p) \in Entregas
                                     /\ sabidas' = sabidas \union {De(p)}
           /\ \A p \in Procesos : Morir(p) /\ Fase(p, "anotar") => De(p) \notin sabidas'
  <1>1. ASSUME NEW p \in Procesos, Enviar(p, TRUE)
        PROVE  Fase(p, "enviar") /\ De(p) \in Entregas /\ sabidas' = sabidas \union {De(p)}
    BY <1>1, ManoEnEntregas DEF Enviar, EnMano, Fase, De
  <1>2. ASSUME NEW p \in Procesos, Enviar(p, FALSE) \/ Morir(p) PROVE sabidas' \subseteq sabidas
    BY <1>2 DEF Enviar, Morir
  <1>3. ASSUME NEW p \in Procesos, Morir(p), Fase(p, "anotar") PROVE De(p) \notin sabidas'
    BY <1>3 DEF Morir, De
  <1>4. \/ \E p \in Procesos : Enviar(p, TRUE) \/ Enviar(p, FALSE) \/ Morir(p)
        \/ sabidas' = sabidas
    BY DEF Next, Sigue, Emitir, Bloquear, Anotar, Contar, Leer, Reenviar, Vencer,
       EncolarReintento, Activar, Ping, Borrar, vars
  <1> QED
    BY <1>1, <1>2, <1>3, <1>4

LEMMA LeerEs ==
    ASSUME TypeOK, Leer
    PROVE  /\ intento' = intento /\ entrega' = entrega /\ lote = {}
           /\ Fase(Reintentador, "libre")
           /\ \E S \in SUBSET Vencidas : lote' = { <<e, entrega[e].intentos>> : e \in S }
  BY DEF Leer

(* The lot is read at once, and then only shrinks. *)
LEMMA LotePaso ==
    ASSUME TypeOK, [Next]_vars
    PROVE  lote' \subseteq lote \/ Leer
  BY DEF Next, Sigue, Emitir, Enviar, Bloquear, Anotar, Contar, Morir, Leer, Reenviar, Vencer,
     EncolarReintento, Activar, Ping, Borrar, vars

LEMMA LoteLeido ==
    ASSUME TypeOK, Leer, NEW x \in lote'
    PROVE  /\ x[1] \in Entregas /\ x \in Entregas \X Nat
           /\ entrega[x[1]].estado = "pending" /\ x[2] = entrega[x[1]].intentos
           /\ \A y \in lote' : x[1] = y[1] => x = y
  <1>1. PICK S \in SUBSET Vencidas : lote' = { <<e, entrega[e].intentos>> : e \in S }
    BY LeerEs
  <1>2. \A e \in S : e \in Entregas /\ entrega[e].estado = "pending" /\ entrega[e].intentos \in Nat
    BY DEF Vencidas, TypeOK, Fila
  <1> QED
    BY <1>1, <1>2

LEMMA TipoPaso == TypeOK /\ Propio /\ LoteUnico /\ [Next]_vars => TypeOK'
  <1> SUFFICES ASSUME TypeOK, Propio, LoteUnico, [Next]_vars PROVE TypeOK'
    OBVIOUS
  <1>1. entrega' \in [Entregas -> Fila]
    BY FilaPaso
  <1>2. webhook' \in [existe : BOOLEAN, activo : BOOLEAN, fallos : Nat]
    BY WebhookPaso
  <1>3. enviadas' \in [Entregas -> Nat]
    <2>1. \A e \in Entregas : enviadas[e] + 1 \in Nat
      BY DEF TypeOK
    <2> QED
      BY <2>1, EnviadasPaso DEF TypeOK
  <1>4. lote' \subseteq Entregas \X Nat
    BY LotePaso, LoteLeido DEF TypeOK
  <1>5. intento' \in [Procesos -> Intento]
    <2>1. ASSUME NEW p \in Procesos, Sigue(p) PROVE intento' \in [Procesos -> Intento]
      BY <2>1, EnviarEs, BloquearEs, AnotarEs, DejaEs DEF Sigue, Contar
    <2>2. ASSUME NEW p \in Procesos, Emitir(p) \/ Morir(p)
          PROVE  intento' \in [Procesos -> Intento]
      BY <2>2, EmitirEs, DejaEs DEF Morir
    <2>3. Reenviar => intento' \in [Procesos -> Intento]
      BY ReenviarEs DEF TypeOK
    <2> QED
      BY <2>1, <2>2, <2>3 DEF Next, Leer, Vencer, EncolarReintento, Activar, Ping, Borrar, vars, TypeOK
  <1>6. clics' \in [Entregas -> Nat] /\ ediciones' \in Nat
    <2>1. ASSUME NEW e \in Entregas, EncolarReintento(e)
          PROVE  clics' \in [Entregas -> Nat] /\ ediciones' \in Nat
      <3>1. clics[e] + 1 \in Nat /\ ediciones + 1 \in Nat
        BY DEF TypeOK
      <3> QED
        BY <2>1, <3>1 DEF EncolarReintento, TypeOK
    <2>2. ASSUME NEW valor \in BOOLEAN, Activar(valor) \/ Ping(valor)
          PROVE  clics' \in [Entregas -> Nat] /\ ediciones' \in Nat
      <3>1. ediciones + 1 \in Nat
        BY DEF TypeOK
      <3> QED
        BY <2>2, <3>1 DEF Activar, Ping, TypeOK
    <2>3. \/ \E e \in Entregas : EncolarReintento(e)
          \/ \E valor \in BOOLEAN : Activar(valor) \/ Ping(valor)
          \/ clics' = clics /\ ediciones' = ediciones
      BY DEF Next, Sigue, Emitir, Enviar, Bloquear, Anotar, Contar, Morir, Leer, Reenviar,
         Vencer, Borrar, vars
    <2> QED
      BY <2>1, <2>2, <2>3 DEF TypeOK
  <1>7. definitivos' \in Nat /\ caidas' \in Nat
    <2>1. definitivos + 1 \in Nat /\ definitivos + 0 \in Nat /\ caidas + 1 \in Nat
      BY DEF TypeOK
    <2>2. definitivos' \in {definitivos, definitivos + 1, definitivos + 0}
      BY DEF Next, Sigue, Emitir, Enviar, Bloquear, Anotar, Contar, Morir, Leer, Reenviar,
         Vencer, EncolarReintento, Activar, Ping, Borrar, vars
    <2>3. caidas' \in {caidas, caidas + 1}
      BY DEF Next, Sigue, Emitir, Enviar, Bloquear, Anotar, Contar, Morir, Leer, Reenviar,
         Vencer, EncolarReintento, Activar, Ping, Borrar, vars
    <2> QED
      BY <2>1, <2>2, <2>3 DEF TypeOK
  <1>8. sabidas' \subseteq Entregas
    BY SabidasPaso DEF TypeOK
  <1> QED
    BY <1>1, <1>2, <1>3, <1>4, <1>5, <1>6, <1>7, <1>8 DEF TypeOK

-----------------------------------------------------------------------------
(* A first attempt keeps its delivery to itself. *)
LEMMA DePaso ==
    ASSUME TypeOK, [Next]_vars, NEW q \in Procesos
    PROVE  \/ De(q)' = De(q) \/ De(q)' = 0 \/ De(q)' \in Nuevas
           \/ \E x \in lote : De(q)' = x[1]
  <1>1. CASE Emitir(q)
    BY <1>1, EmitirEs DEF De
  <1>2. CASE Sigue(q) \/ Morir(q)
    BY <1>2, EnviarEs, BloquearEs, AnotarEs, DejaEs DEF Sigue, Contar, Morir, De
  <1>3. CASE q = Reintentador /\ Reenviar
    BY <1>3, ReenviarEs DEF De
  <1> QED
    BY <1>1, <1>2, <1>3, SoloLoSuyo DEF De

(* A process holds an attempt because it began it, or had it already. *)
LEMMA ManoPaso ==
    ASSUME TypeOK, [Next]_vars, NEW p \in Procesos, EnMano(p)'
    PROVE  \/ intento'[p] = intento[p] /\ EnMano(p)
           \/ Emitir(p)
           \/ /\ Fase(p, "enviar") /\ EnMano(p) /\ (Enviar(p, TRUE) \/ Enviar(p, FALSE))
              /\ De(p)' = De(p) /\ intento'[p].hechos = intento[p].hechos
           \/ p = Reintentador /\ Reenviar
  <1>1. ~Contar(p) /\ ~Morir(p)
    BY DejaEs DEF EnMano, Contar, Morir
  <1>2. ~Bloquear(p) /\ ~Anotar(p)
    BY BloquearEs, AnotarEs DEF EnMano
  <1>3. ASSUME Enviar(p, TRUE) \/ Enviar(p, FALSE)
        PROVE  Fase(p, "enviar") /\ EnMano(p) /\ De(p)' = De(p)
               /\ intento'[p].hechos = intento[p].hechos
    BY <1>3, EnviarEs DEF Enviar, Fase, EnMano, De
  <1> QED
    BY <1>1, <1>2, <1>3, SoloLoSuyo DEF Sigue, EnMano

LEMMA PropioPaso == TypeOK /\ Propio /\ LoteUnico /\ [Next]_vars => Propio'
  <1> SUFFICES ASSUME TypeOK, Propio, LoteUnico, [Next]_vars, NEW p \in Emisores, EnMano(p)'
               PROVE  /\ De(p)' \in Entregas
                      /\ entrega'[De(p)'].estado = "nada"
                      /\ intento'[p].hechos = 1
                      /\ enviadas'[De(p)'] = IF Fase(p, "enviar")' THEN 0 ELSE 1
                      /\ \A q \in Procesos \ {p} : De(q)' # De(p)'
                      /\ \A x \in lote' : x[1] # De(p)'
    BY DEF Propio
  <1>0. p \in Procesos /\ p # Reintentador /\ 0 \notin Entregas
    BY ProcesosEs DEF Entregas
  <1>1. ASSUME Emitir(p)
        PROVE  /\ De(p)' \in Entregas
               /\ entrega'[De(p)'].estado = "nada"
               /\ intento'[p].hechos = 1
               /\ enviadas'[De(p)'] = IF Fase(p, "enviar")' THEN 0 ELSE 1
               /\ \A q \in Procesos \ {p} : De(q)' # De(p)'
               /\ \A x \in lote' : x[1] # De(p)'
    <2>1. /\ De(p)' \in Nuevas /\ intento'[p].hechos = 1 /\ Fase(p, "enviar")' /\ Otros(p)
          /\ webhook.existe /\ UNCHANGED <<entrega, enviadas, lote>>
      BY <1>0, <1>1, EmitirEs DEF Emitir, De, Fase
    <2>2. \A q \in Procesos \ {p} : De(q)' # De(p)'
      BY <2>1 DEF Otros, De, Nuevas
    <2>3. \A x \in lote' : x[1] # De(p)'
      BY <2>1 DEF LoteUnico, Nuevas
    <2> QED
      BY <2>1, <2>2, <2>3 DEF Nuevas
  <1>2. ASSUME EnMano(p), De(p)' = De(p),
               \/ intento'[p] = intento[p]
               \/ /\ Fase(p, "enviar") /\ (Enviar(p, TRUE) \/ Enviar(p, FALSE))
                  /\ intento'[p].hechos = intento[p].hechos
        PROVE  /\ De(p)' \in Entregas
               /\ entrega'[De(p)'].estado = "nada"
               /\ intento'[p].hechos = 1
               /\ enviadas'[De(p)'] = IF Fase(p, "enviar")' THEN 0 ELSE 1
               /\ \A q \in Procesos \ {p} : De(q)' # De(p)'
               /\ \A x \in lote' : x[1] # De(p)'
    <2> DEFINE e == De(p)
    <2>1. /\ e \in Entregas /\ entrega[e].estado = "nada" /\ intento[p].hechos = 1
          /\ enviadas[e] = IF Fase(p, "enviar") THEN 0 ELSE 1
          /\ \A q \in Procesos \ {p} : De(q) # e
          /\ \A x \in lote : x[1] # e
      BY <1>2 DEF Propio
    <2>2. ~Anotar(p)
      BY <1>0, <1>2, AnotarEs DEF Fase, EnMano, Enviar, Anotar
    <2>3. entrega'[e].estado = "nada"
      <3>1. ~Creada(e)
        BY <1>0, <2>1, <2>2, ProcesosEs DEF Creada
      <3>2. ~Redimida(e) /\ ~Reanotada(e)
        BY <2>1 DEF Redimida, Reanotada
      <3> QED
        BY <2>1, <3>1, <3>2, FilaPaso, LibreEs DEF Igual
    <2>4. ASSUME NEW q \in Procesos \ {p} PROVE De(q)' # e
      <3>1. De(q)' \notin Nuevas \/ De(q)' # e
        BY <1>0 DEF Nuevas, De
      <3> QED
        BY <1>0, <2>1, <3>1, DePaso
    <2>5. \A x \in lote' : x[1] # e
      BY <2>1, LotePaso, LoteLeido
    <2>6. enviadas'[e] = IF Fase(p, "enviar")' THEN 0 ELSE 1
      <3>1. CASE Enviar(p, TRUE) \/ Enviar(p, FALSE)
        <4>1. Fase(p, "enviar") /\ ~Fase(p, "enviar")' /\ enviadas'[e] = enviadas[e] + 1
          BY <1>0, <2>1, <3>1, EnviarEs DEF Enviar, Fase, De, TypeOK
        <4> QED
          BY <2>1, <4>1
      <3>2. CASE ~Enviar(p, TRUE) /\ ~Enviar(p, FALSE)
        <4>1. enviadas'[e] = enviadas[e]
          BY <2>1, <3>2, EnviadasPaso DEF TypeOK
        <4> QED
          BY <1>2, <2>1, <3>2, <4>1 DEF Fase
      <3> QED
        BY <3>1, <3>2
    <2> QED
      BY <1>2, <2>1, <2>3, <2>4, <2>5, <2>6
  <1> QED
    BY <1>0, <1>1, <1>2, ManoPaso DEF De

(* A row that exists is lost only with its webhook. *)
LEMMA FilaQueda ==
    ASSUME TypeOK, Propio, LoteUnico, [Next]_vars, webhook'.existe,
           NEW e \in Entregas, entrega[e].estado # "nada"
    PROVE  entrega'[e].estado # "nada"
  <1>1. \A p \in Procesos : Decidir(intento[p].exito, intento[p].hechos) \in Estados
    BY DecidirEs DEF TypeOK, Intento
  <1>2. Creada(e) \/ Reanotada(e) => entrega'[e].estado \in Estados
    BY <1>1, ProcesosEs DEF Creada, Reanotada, Estados
  <1>3. "nada" \notin Estados
    BY DEF Estados
  <1> QED
    BY <1>2, <1>3, FilaPaso, WebhookPaso DEF Igual, Redimida

LEMMA LoteUnicoPaso == TypeOK /\ Propio /\ LoteUnico /\ [Next]_vars => LoteUnico'
  <1> SUFFICES ASSUME TypeOK, Propio, LoteUnico, [Next]_vars PROVE LoteUnico'
    OBVIOUS
  <1>1. \A x, y \in lote' : x[1] = y[1] => x = y
    BY LotePaso, LoteLeido DEF LoteUnico
  <1>2. ASSUME EnMano(Reintentador)'
        PROVE  De(Reintentador)' \in Entregas /\ \A x \in lote' : x[1] # De(Reintentador)'
    <2>1. CASE Reenviar
      <3>1. PICK x \in lote :
               /\ lote' = lote \ {x}
               /\ \/ intento' = intento
                  \/ intento'[Reintentador].entrega = x[1]
        BY <2>1, ReenviarEs
      <3>2. CASE intento' = intento
        BY <1>2, <3>1, <3>2 DEF LoteUnico, EnMano, De
      <3>3. CASE intento'[Reintentador].entrega = x[1]
        BY <3>1, <3>3 DEF LoteUnico, De, TypeOK
      <3> QED
        BY <3>1, <3>2, <3>3
    <2>2. CASE ~Reenviar
      <3>1. EnMano(Reintentador) /\ De(Reintentador)' = De(Reintentador)
        BY <1>2, <2>2, ManoPaso, ProcesosEs, EmitirEs DEF De
      <3>2. ~Leer
        BY <3>1 DEF Leer, Fase, EnMano
      <3> QED
        BY <3>1, <3>2, LotePaso DEF LoteUnico
    <2> QED
      BY <2>1, <2>2
  <1>3. ASSUME webhook'.existe, NEW x \in lote' PROVE entrega'[x[1]].estado # "nada"
    <2>1. CASE Leer
      BY <2>1, LeerEs, LoteLeido
    <2>2. CASE ~Leer
      BY <1>3, <2>2, LotePaso, FilaQueda, WebhookPaso DEF LoteUnico, TypeOK
    <2> QED
      BY <2>1, <2>2
  <1> QED
    BY <1>1, <1>2, <1>3 DEF LoteUnico

-----------------------------------------------------------------------------
(* Nobody else writes the rows the retry pass has: only their owner, who    *)
(* leaves them pending.                                                     *)
LEMMA LoteAlDiaPaso == TypeOK /\ Propio /\ LoteUnico /\ LoteAlDia /\ [Next]_vars => LoteAlDia'
  <1> SUFFICES ASSUME TypeOK, Propio, LoteUnico, LoteAlDia, [Next]_vars PROVE LoteAlDia'
    OBVIOUS
  <1>1. ASSUME NEW x \in lote', entrega'[x[1]].estado # "nada"
        PROVE  entrega'[x[1]].estado = "pending" /\ entrega'[x[1]].intentos = x[2]
    <2>1. CASE Leer
      BY <2>1, LeerEs, LoteLeido
    <2>2. CASE ~Leer
      <3>1. x \in lote /\ x[1] \in Entregas
        BY <2>2, LotePaso DEF TypeOK
      <3>2. ~Creada(x[1])
        BY <3>1 DEF Creada, Propio
      <3>3. ~Reanotada(x[1])
        BY <3>1 DEF Reanotada, LoteUnico
      <3> QED
        BY <1>1, <3>1, <3>2, <3>3, FilaPaso, LibreEs DEF LoteAlDia, Igual, Redimida
    <2> QED
      BY <2>1, <2>2
  <1>2. ASSUME EnMano(Reintentador)', entrega'[De(Reintentador)'].estado # "nada"
        PROVE  /\ entrega'[De(Reintentador)'].estado = "pending"
               /\ intento'[Reintentador].hechos = entrega'[De(Reintentador)'].intentos + 1
    <2>1. CASE Reenviar
      <3>1. PICK x \in lote :
               /\ \/ intento' = intento
                  \/ /\ intento'[Reintentador].entrega = x[1]
                     /\ intento'[Reintentador].hechos = x[2] + 1
        BY <2>1, ReenviarEs
      <3>2. entrega' = entrega
        BY <2>1 DEF Reenviar
      <3>3. CASE intento' = intento
        BY <1>2, <3>2, <3>3 DEF LoteAlDia, EnMano, De
      <3>4. CASE intento'[Reintentador].entrega = x[1] /\ intento'[Reintentador].hechos = x[2] + 1
        BY <1>2, <3>2, <3>4 DEF LoteAlDia, De
      <3> QED
        BY <3>1, <3>3, <3>4
    <2>2. CASE ~Reenviar
      <3> DEFINE e == De(Reintentador)
      <3>1. /\ EnMano(Reintentador) /\ De(Reintentador)' = e /\ e \in Entregas
            /\ intento'[Reintentador].hechos = intento[Reintentador].hechos
        BY <1>2, <2>2, ManoPaso, ProcesosEs, EmitirEs DEF De, LoteUnico
      <3>2. ~Creada(e)
        BY <3>1, ProcesosEs DEF Creada, Propio
      <3>3. ~Reanotada(e)
        BY <1>2, AnotarEs, BloquearEs, ProcesosEs DEF Reanotada, EnMano
      <3>4. entrega[e].estado # "nada" /\ (Igual(e) \/ Redimida(e))
        BY <1>2, <3>1, <3>2, <3>3, FilaPaso, LibreEs DEF Igual, Redimida
      <3> HIDE DEF e
      <3>5. /\ entrega[e].estado = "pending"
            /\ intento[Reintentador].hechos = entrega[e].intentos + 1
        BY <3>1, <3>4 DEF LoteAlDia, e
      <3> QED
        BY <3>1, <3>4, <3>5 DEF Igual, Redimida
    <2> QED
      BY <2>1, <2>2
  <1> QED
    BY <1>1, <1>2 DEF LoteAlDia

LEMMA ClicsCrecen ==
    ASSUME TypeOK, [Next]_vars, NEW e \in Entregas
    PROVE  clics'[e] >= clics[e] /\ caidas' >= caidas
  <1>1. clics' = clics \/ \E f \in Entregas : clics' = [clics EXCEPT ![f] = clics[f] + 1]
    BY DEF Next, Sigue, Emitir, Enviar, Bloquear, Anotar, Contar, Morir, Leer, Reenviar,
       Vencer, EncolarReintento, Activar, Ping, Borrar, vars
  <1>2. caidas' \in {caidas, caidas + 1}
    BY DEF Next, Sigue, Emitir, Enviar, Bloquear, Anotar, Contar, Morir, Leer, Reenviar,
       Vencer, EncolarReintento, Activar, Ping, Borrar, vars
  <1>3. clics[e] \in Nat /\ caidas \in Nat
    BY DEF TypeOK
  <1>4. clics'[e] \in {clics[e], clics[e] + 1}
    BY <1>1 DEF TypeOK
  <1> QED
    BY <1>2, <1>3, <1>4

(* The cap: an attempt is left whenever one is pending. *)
LEMMA QuedaIntentoPaso ==
    TypeOK /\ Propio /\ LoteUnico /\ LoteAlDia /\ QuedaIntento /\ [Next]_vars /\ TypeOK'
      => QuedaIntento'
  <1> SUFFICES ASSUME TypeOK, Propio, LoteUnico, LoteAlDia, QuedaIntento, [Next]_vars, TypeOK',
                      NEW e \in Entregas
               PROVE  /\ entrega'[e].intentos <= MaxIntentos + clics'[e]
                      /\ entrega'[e].estado = "pending" =>
                           entrega'[e].intentos < MaxIntentos + clics'[e]
    BY DEF QuedaIntento
  <1>0. /\ MaxIntentos \in Nat /\ MaxIntentos >= 1
        /\ clics[e] \in Nat /\ clics'[e] \in Nat /\ clics'[e] >= clics[e]
        /\ entrega[e].intentos \in Nat /\ entrega'[e].intentos \in Nat
    BY WebhooksAssumption, ClicsCrecen DEF TypeOK, Fila
  <1>1. /\ entrega[e].intentos <= MaxIntentos + clics[e]
        /\ entrega[e].estado = "pending" => entrega[e].intentos < MaxIntentos + clics[e]
    BY DEF QuedaIntento
  <1>2. CASE Igual(e)
    BY <1>0, <1>1, <1>2 DEF Igual
  <1>3. CASE Redimida(e)
    BY <1>0, <1>1, <1>3 DEF Redimida
  <1>4. CASE Creada(e)
    <2>1. entrega'[e].intentos = 1
      BY <1>4 DEF Creada
    <2>2. entrega'[e].estado = "pending" => 1 + 1 <= MaxIntentos
      BY <1>4, DecidirEs, ProcesosEs DEF Creada, Propio, TypeOK, Intento
    <2> QED
      BY <1>0, <2>1, <2>2
  <1>5. CASE Reanotada(e)
    <2>1. /\ entrega[e].estado = "pending" /\ entrega'[e].intentos = entrega[e].intentos + 1
          /\ intento[Reintentador].hechos = entrega[e].intentos + 1
      BY <1>5 DEF Reanotada, LoteAlDia
    <2>2. entrega'[e].estado = "pending" => intento[Reintentador].hechos + 1 <= MaxIntentos
      BY <1>5, DecidirEs, ProcesosEs DEF Reanotada, TypeOK, Intento
    <2> QED
      BY <1>0, <1>1, <2>1, <2>2
  <1>6. CASE entrega'[e] = SinFila
    BY <1>0, <1>6, LibreEs
  <1> QED
    BY <1>2, <1>3, <1>4, <1>5, <1>6, FilaPaso

(* An attempt written down is counted in the row; one lost is a death. *)
LEMMA AnotarCuenta ==
    ASSUME TypeOK, LoteUnico, Anotar(Reintentador), entrega[De(Reintentador)].estado # "nada"
    PROVE  entrega'[De(Reintentador)].intentos = entrega[De(Reintentador)].intentos + 1
  <1> DEFINE i == intento[Reintentador]
             s == Decidir(i.exito, i.hechos)
  <1>1. s \in Estados /\ De(Reintentador) \in Entregas
    BY DecidirEs, ProcesosEs DEF TypeOK, Intento, Anotar, EnMano, Fase, LoteUnico
  <1>2. entrega' = [entrega EXCEPT ![De(Reintentador)] = Reintentada(entrega[De(Reintentador)], s)]
    BY ProcesosEs DEF Anotar, De
  <1> QED
    BY <1>1, <1>2, ReintentadaEs DEF TypeOK

LEMMA ContadasPaso ==
    TypeOK /\ Propio /\ LoteUnico /\ Contadas /\ [Next]_vars /\ TypeOK' => Contadas'
  <1> SUFFICES ASSUME TypeOK, Propio, LoteUnico, Contadas, [Next]_vars, TypeOK',
                      NEW e \in Entregas, entrega'[e].estado # "nada"
               PROVE  enviadas'[e] <= entrega'[e].intentos + SinAnotar(e)' + caidas'
    BY DEF Contadas
  <1>0. /\ enviadas[e] \in Nat /\ enviadas'[e] \in Nat
        /\ entrega[e].intentos \in Nat /\ entrega'[e].intentos \in Nat
        /\ caidas \in Nat /\ caidas' \in Nat /\ caidas' >= caidas
        /\ SinAnotar(e) \in 0 .. 1 /\ SinAnotar(e)' \in 0 .. 1
    BY ClicsCrecen DEF TypeOK, Fila, SinAnotar
  <1>1. entrega[e].estado # "nada" => enviadas[e] <= entrega[e].intentos + SinAnotar(e) + caidas
    BY DEF Contadas
  <1>2. CASE Creada(e)
    <2>1. PICK p \in Emisores : Anotar(p) /\ De(p) = e /\ EnMano(p) /\ entrega'[e].intentos = 1
      BY <1>2 DEF Creada
    <2>2. enviadas'[e] = 1
      BY <2>1 DEF Propio, Anotar, Fase
    <2> QED
      BY <1>0, <2>1, <2>2
  <1>3. CASE ~Creada(e)
    <2>1. /\ entrega[e].estado # "nada"
          /\ entrega'[e].intentos >= entrega[e].intentos
      BY <1>0, <1>3, FilaPaso, LibreEs DEF Igual, Redimida, Reanotada
    <2>2. CASE Anotar(Reintentador) /\ De(Reintentador) = e
      <3>1. entrega'[e].intentos = entrega[e].intentos + 1 /\ enviadas'[e] = enviadas[e]
        BY <2>1, <2>2, AnotarCuenta DEF Anotar
      <3> QED
        BY <1>0, <1>1, <2>1, <3>1
    <2>3. CASE Morir(Reintentador)
      <3>1. caidas' = caidas + 1 /\ enviadas'[e] = enviadas[e]
        BY <2>3 DEF Morir
      <3> QED
        BY <1>0, <1>1, <2>1, <3>1
    <2>4. CASE ~Morir(Reintentador) /\ ~(Anotar(Reintentador) /\ De(Reintentador) = e)
      <3>1. SinAnotar(e) = 1 => SinAnotar(e)' = 1 /\ Fase(Reintentador, "anotar")
        <4>1. ASSUME Fase(Reintentador, "anotar"), De(Reintentador) = e
              PROVE  intento'[Reintentador] = intento[Reintentador]
          BY <2>4, <4>1, SoloLoSuyo, ProcesosEs
          DEF Fase, Emitir, Sigue, Enviar, Bloquear, Contar, Reenviar
        <4> QED
          BY <4>1 DEF SinAnotar, Fase, De
      <3>2. CASE enviadas'[e] = enviadas[e]
        BY <1>0, <1>1, <2>1, <3>1, <3>2
      <3>3. CASE enviadas'[e] # enviadas[e]
        <4>1. PICK p \in Procesos :
                 /\ Fase(p, "enviar") /\ EnMano(p) /\ De(p) = e
                 /\ Enviar(p, TRUE) \/ Enviar(p, FALSE)
                 /\ enviadas'[e] = enviadas[e] + 1
          BY <3>3, EnviadasPaso DEF TypeOK
        <4>2. p = Reintentador
          BY <2>1, <4>1 DEF Propio, Procesos
        <4>3. SinAnotar(e) = 0 /\ SinAnotar(e)' = 1
          BY <4>1, <4>2, EnviarEs DEF SinAnotar, Fase, De
        <4> QED
          BY <1>0, <1>1, <2>1, <4>1, <4>3
      <3> QED
        BY <3>2, <3>3
    <2> QED
      BY <2>2, <2>3, <2>4
  <1> QED
    BY <1>2, <1>3

-----------------------------------------------------------------------------
(* An attempt that was accepted closes its row, if there is one. *)
LEMMA AnotarAceptada ==
    ASSUME TypeOK, LoteUnico, Anotar(Reintentador), intento[Reintentador].exito
    PROVE  entrega'[De(Reintentador)].estado \in {"delivered", "nada"}
  <1>1. De(Reintentador) \in Entregas
    BY DEF Anotar, EnMano, Fase, LoteUnico
  <1>2. entrega' = [entrega EXCEPT ![De(Reintentador)] =
                      Reintentada(entrega[De(Reintentador)], "delivered")]
    BY ProcesosEs DEF Anotar, De, Decidir
  <1>3. "delivered" \in Estados /\ entrega[De(Reintentador)] \in Fila
    BY <1>1 DEF Estados, TypeOK
  <1> QED
    BY <1>1, <1>2, <1>3, ReintentadaEs DEF TypeOK

(* A delivery known before the step is still accounted for after it. *)
LEMMA SabidaSigue ==
    ASSUME TypeOK, Propio, LoteUnico, LoteAlDia, AceptadaCerrada, [Next]_vars, TypeOK',
           NEW e \in sabidas, e \in sabidas'
    PROVE  /\ enviadas'[e] > 0
           /\ \A p \in Procesos : De(p)' = e =>
                 ~Fase(p, "enviar")' /\ (Fase(p, "anotar")' => intento'[p].exito)
           /\ \/ entrega'[e].estado \in {"delivered", "nada"}
              \/ Fase(Reintentador, "anotar")' /\ De(Reintentador)' = e
  <1>0. e \in Entregas /\ e # 0 /\ enviadas[e] \in Nat /\ enviadas'[e] \in Nat
    BY DEF TypeOK, Entregas
  <1>1. /\ enviadas[e] > 0
        /\ \A p \in Procesos : De(p) = e =>
              ~Fase(p, "enviar") /\ (Fase(p, "anotar") => intento[p].exito)
        /\ \/ entrega[e].estado \in {"delivered", "nada"}
           \/ Fase(Reintentador, "anotar") /\ De(Reintentador) = e
    BY DEF AceptadaCerrada
  <1>2. enviadas'[e] > 0
    <2>1. \A p \in Procesos : Fase(p, "enviar") => De(p) # e
      BY <1>1
    <2> QED
      BY <1>0, <1>1, <2>1, EnviadasPaso DEF TypeOK
  <1>3. ASSUME NEW p \in Procesos, De(p)' = e
        PROVE  ~Fase(p, "enviar")' /\ (Fase(p, "anotar")' => intento'[p].exito)
    <2>1. CASE intento'[p] = intento[p]
      BY <1>1, <1>3, <2>1 DEF De, Fase
    <2>2. ~Emitir(p)
      BY <1>0, <1>1, <1>3, EmitirEs DEF De, Nuevas
    <2>3. ~Enviar(p, TRUE) /\ ~Enviar(p, FALSE)
      BY <1>1, <1>3, EnviarEs DEF De, Enviar, Fase
    <2>4. ~Bloquear(p)
      BY <1>0, <1>1, <1>3, BloquearEs DEF De, Bloquear, Fase
    <2>5. CASE Anotar(p)
      BY <2>5, AnotarEs DEF Fase
    <2>6. ~Contar(p) /\ ~Morir(p)
      BY <1>0, <1>3, DejaEs DEF De, Contar, Morir
    <2>7. CASE p = Reintentador /\ Reenviar
      <3>1. PICK x \in lote :
               intento' = intento \/ (webhook.existe /\ intento'[Reintentador].entrega = x[1])
        BY <2>7, ReenviarEs
      <3>2. ASSUME webhook.existe, x[1] = e PROVE FALSE
        <4>1. entrega[e].estado = "pending"
          BY <3>2 DEF LoteUnico, LoteAlDia
        <4> QED
          BY <1>1, <2>7, <4>1 DEF Reenviar, Fase
      <3> QED
        BY <1>3, <2>1, <2>7, <3>1, <3>2 DEF De
    <2> QED
      BY <2>1, <2>2, <2>3, <2>4, <2>5, <2>6, <2>7, SoloLoSuyo DEF Sigue
  <1>4. \/ entrega'[e].estado \in {"delivered", "nada"}
        \/ Fase(Reintentador, "anotar")' /\ De(Reintentador)' = e
    <2>1. CASE Igual(e) /\ entrega[e].estado \in {"delivered", "nada"}
      BY <2>1 DEF Igual
    <2>2. CASE Fase(Reintentador, "anotar") /\ De(Reintentador) = e
      <3>1. ~Morir(Reintentador)
        BY <2>2, SabidasPaso, ProcesosEs
      <3>2. CASE Anotar(Reintentador)
        BY <1>1, <2>2, <3>2, AnotarAceptada, ProcesosEs
      <3>3. CASE ~Anotar(Reintentador)
        <4>1. intento'[Reintentador] = intento[Reintentador]
          BY <2>2, <3>1, <3>3, SoloLoSuyo, ProcesosEs
          DEF Fase, Emitir, Sigue, Enviar, Bloquear, Contar, Reenviar
        <4> QED
          BY <2>2, <4>1 DEF Fase, De
      <3> QED
        BY <3>2, <3>3
    <2>3. CASE Creada(e)
      <3>1. PICK p \in Emisores :
               /\ Anotar(p) /\ De(p) = e
               /\ entrega'[e].estado = Decidir(intento[p].exito, intento[p].hechos)
        BY <2>3 DEF Creada
      <3>2. intento[p].exito
        BY <1>1, <3>1, ProcesosEs DEF Anotar
      <3> QED
        BY <3>1, <3>2 DEF Decidir
    <2>4. Reanotada(e) => Fase(Reintentador, "anotar") /\ De(Reintentador) = e
      BY <1>1, ProcesosEs DEF Reanotada, EnMano, Fase
    <2>5. Redimida(e) => Fase(Reintentador, "anotar") /\ De(Reintentador) = e
      BY <1>1 DEF Redimida, Reenviable
    <2>6. CASE entrega'[e] = SinFila
      BY <2>6, LibreEs
    <2> QED
      BY <1>0, <1>1, <2>1, <2>2, <2>3, <2>4, <2>5, <2>6, FilaPaso
  <1> QED
    BY <1>2, <1>3, <1>4

LEMMA AceptadaCerradaPaso ==
    TypeOK /\ Propio /\ LoteUnico /\ LoteAlDia /\ AceptadaCerrada /\ [Next]_vars /\ TypeOK'
      => AceptadaCerrada'
  <1> SUFFICES ASSUME TypeOK, Propio, LoteUnico, LoteAlDia, AceptadaCerrada, [Next]_vars, TypeOK',
                      NEW e \in sabidas'
               PROVE  /\ enviadas'[e] > 0
                      /\ \A p \in Procesos : De(p)' = e =>
                            ~Fase(p, "enviar")' /\ (Fase(p, "anotar")' => intento'[p].exito)
                      /\ \/ entrega'[e].estado \in {"delivered", "nada"}
                         \/ Fase(Reintentador, "anotar")' /\ De(Reintentador)' = e
    BY DEF AceptadaCerrada
  <1>1. CASE e \in sabidas
    BY <1>1, SabidaSigue
  <1>2. CASE e \notin sabidas
    <2>1. PICK p \in Procesos : Enviar(p, TRUE) /\ Fase(p, "enviar") /\ De(p) = e /\ e \in Entregas
      BY <1>2, SabidasPaso
    <2>2. /\ Otros(p) /\ Fase(p, "anotar")' /\ De(p)' = e /\ intento'[p].exito
          /\ entrega' = entrega /\ enviadas' = [enviadas EXCEPT ![e] = enviadas[e] + 1]
      BY <2>1, EnviarEs DEF Enviar, Fase, De
    <2>3. enviadas'[e] > 0
      <3>1. enviadas[e] \in Nat /\ enviadas'[e] = enviadas[e] + 1
        BY <2>1, <2>2 DEF TypeOK
      <3> QED
        BY <3>1
    <2>4. ASSUME NEW q \in Procesos \ {p}, De(q)' = e PROVE ~Fase(q, "enviar")' /\ ~Fase(q, "anotar")'
      <3>1. De(q) = e /\ intento'[q] = intento[q]
        BY <2>2, <2>4 DEF Otros, De
      <3> QED
        BY <2>1, <3>1 DEF Propio, Procesos, EnMano, Fase
    <2>5. \/ entrega'[e].estado = "nada"
          \/ Fase(Reintentador, "anotar")' /\ De(Reintentador)' = e
      BY <2>1, <2>2 DEF Propio, Procesos, EnMano, Fase
    <2>6. ~Fase(p, "enviar")'
      BY <2>2 DEF Fase
    <2> QED
      BY <2>2, <2>3, <2>4, <2>5, <2>6
  <1> QED
    BY <1>1, <1>2

-----------------------------------------------------------------------------
(* Failures still to count. *)
PorContar == { p \in Procesos : Fase(p, "contar") /\ Definitivo(intento[p]) }

LEMMA PorContarFinito ==
    /\ IsFiniteSet(PorContar) /\ Cardinality(PorContar) \in Nat
    /\ IsFiniteSet(PorContar') /\ Cardinality(PorContar') \in Nat
  <1>1. IsFiniteSet(Procesos)
    BY WebhooksAssumption, FS_AddElement DEF Procesos
  <1>2. PorContar \subseteq Procesos /\ PorContar' \subseteq Procesos
    BY DEF PorContar
  <1> QED
    BY <1>1, <1>2, FS_Subset, FS_CardinalityType

LEMMA CuentaCrece ==
    ASSUME NEW p, PorContar' \subseteq PorContar \union {p}
    PROVE  Cardinality(PorContar') <= Cardinality(PorContar) + 1
  <1>1. /\ IsFiniteSet(PorContar \union {p})
        /\ Cardinality(PorContar \union {p}) = Cardinality(PorContar)
             \/ Cardinality(PorContar \union {p}) = Cardinality(PorContar) + 1
    BY PorContarFinito, FS_AddElement
  <1>2. Cardinality(PorContar') <= Cardinality(PorContar \union {p})
    BY <1>1, FS_Subset
  <1> QED
    BY <1>1, <1>2, PorContarFinito

LEMMA CuentaIgual ==
    ASSUME PorContar' \subseteq PorContar
    PROVE  Cardinality(PorContar') <= Cardinality(PorContar)
  BY PorContarFinito, FS_Subset

LEMMA CuentaBaja ==
    ASSUME NEW p \in PorContar, PorContar' \subseteq PorContar \ {p}
    PROVE  Cardinality(PorContar') + 1 <= Cardinality(PorContar)
  <1>1. /\ IsFiniteSet(PorContar \ {p})
        /\ Cardinality(PorContar \ {p}) = Cardinality(PorContar) - 1
    BY PorContarFinito, FS_RemoveElement
  <1>2. Cardinality(PorContar') <= Cardinality(PorContar \ {p})
    BY <1>1, FS_Subset
  <1> QED
    BY <1>1, <1>2, PorContarFinito

(* Who is left to count after a step: those who were, and the one who has   *)
(* just written an exhausted attempt down or been blocked.                  *)
LEMMA PorContarPaso ==
    ASSUME TypeOK, [Next]_vars, NEW q \in PorContar'
    PROVE  \/ q \in PorContar /\ ~Contar(q)
           \/ Bloquear(q) /\ q \in Emisores
           \/ Anotar(q) /\ Definitivo(intento[q])
  <1>0. q \in Procesos /\ Fase(q, "contar")' /\ Definitivo(intento'[q])
    BY DEF PorContar
  <1>1. CASE intento'[q] = intento[q] /\ ~Contar(q)
    BY <1>0, <1>1 DEF PorContar, Fase
  <1>2. ~Contar(q) /\ ~Morir(q)
    BY <1>0, DejaEs DEF Contar, Morir, Fase
  <1>3. /\ ~Emitir(q) /\ ~Enviar(q, TRUE) /\ ~Enviar(q, FALSE)
        /\ ~(q = Reintentador /\ Reenviar /\ intento' # intento)
    BY <1>0, EmitirEs, EnviarEs, ReenviarEs DEF Fase
  <1>4. CASE Bloquear(q)
    BY <1>0, <1>4, BloquearEs DEF Fase
  <1>5. CASE Anotar(q)
    BY <1>0, <1>5, AnotarEs DEF Definitivo
  <1> QED
    BY <1>0, <1>1, <1>2, <1>3, <1>4, <1>5, SoloLoSuyo DEF Sigue

LEMMA CuentaPaso ==
    TypeOK /\ SoloCuentaLoDefinitivo /\ [Next]_vars /\ TypeOK' => SoloCuentaLoDefinitivo'
  <1> SUFFICES ASSUME TypeOK, SoloCuentaLoDefinitivo, [Next]_vars, TypeOK'
               PROVE  webhook'.fallos + Cardinality(PorContar') <= definitivos'
    BY DEF SoloCuentaLoDefinitivo, PorContar
  <1>0. /\ webhook.fallos + Cardinality(PorContar) <= definitivos
        /\ webhook.fallos \in Nat /\ webhook'.fallos \in Nat
        /\ definitivos \in Nat /\ definitivos' \in Nat
        /\ Cardinality(PorContar) \in Nat /\ Cardinality(PorContar') \in Nat
    BY PorContarFinito DEF SoloCuentaLoDefinitivo, PorContar, TypeOK
  <1>1. ASSUME NEW p \in Procesos, Otros(p), NEW q \in PorContar', q # p PROVE q \in PorContar
    BY <1>1 DEF Otros, PorContar, Fase
  <1>2. ASSUME NEW p \in Emisores, Bloquear(p)
        PROVE  webhook'.fallos + Cardinality(PorContar') <= definitivos'
    <2>1. PorContar' \subseteq PorContar \union {p}
      BY <1>1, <1>2, BloquearEs, ProcesosEs
    <2>2. webhook' = webhook /\ definitivos' = definitivos + 1
      BY <1>2 DEF Bloquear
    <2>3. Cardinality(PorContar') <= Cardinality(PorContar) + 1
      BY <2>1, CuentaCrece
    <2> QED
      BY <1>0, <2>2, <2>3
  <1>3. ASSUME NEW p \in Procesos, Anotar(p), Definitivo(intento[p])
        PROVE  webhook'.fallos + Cardinality(PorContar') <= definitivos'
    <2>1. PorContar' \subseteq PorContar \union {p}
      BY <1>1, <1>3, AnotarEs
    <2>2. webhook' = webhook /\ definitivos' = definitivos + 1
      BY <1>3 DEF Anotar
    <2>3. Cardinality(PorContar') <= Cardinality(PorContar) + 1
      BY <2>1, CuentaCrece
    <2> QED
      BY <1>0, <2>2, <2>3
  <1>4. ASSUME NEW p \in Procesos, Contar(p)
        PROVE  webhook'.fallos + Cardinality(PorContar') <= definitivos'
    <2>1. PorContar' \subseteq PorContar \ {p} /\ definitivos' = definitivos
      BY <1>1, <1>4, DejaEs DEF Contar, PorContar, Fase
    <2>2. CASE webhook.existe /\ Definitivo(intento[p])
      <3>1. webhook'.fallos = webhook.fallos + 1 /\ p \in PorContar
        BY <1>4, <2>2 DEF Contar, TrasIntento, Suma, Definitivo, PorContar, TypeOK
      <3> QED
        BY <1>0, <2>1, <3>1, CuentaBaja
    <2>3. CASE ~ (webhook.existe /\ Definitivo(intento[p]))
      <3>1. webhook'.fallos = webhook.fallos \/ webhook'.fallos = 0
        BY <1>4, <2>3 DEF Contar, TrasIntento, TypeOK
      <3> QED
        BY <1>0, <2>1, <3>1, CuentaIgual
    <2> QED
      BY <2>2, <2>3
  <1>6. ASSUME NEW exito \in BOOLEAN, Ping(exito)
        PROVE  webhook'.fallos + Cardinality(PorContar') <= definitivos'
    <2>1. PorContar' = PorContar
      BY <1>6 DEF Ping, PorContar, Fase, Definitivo
    <2>2. CASE exito
      <3>1. webhook'.fallos = 0 /\ definitivos' = definitivos + 0
        BY <1>6, <2>2 DEF Ping, TypeOK
      <3> QED
        BY <1>0, <2>1, <3>1
    <2>3. CASE ~exito
      <3>1. webhook'.fallos = webhook.fallos + 1 /\ definitivos' = definitivos + 1
        BY <1>6, <2>3 DEF Ping, Suma, TypeOK
      <3> QED
        BY <1>0, <2>1, <3>1
    <2> QED
      BY <2>2, <2>3
  <1>5. ASSUME \A exito \in BOOLEAN : ~Ping(exito),
               \A p \in Emisores : ~Bloquear(p), \A p \in Procesos : ~Contar(p),
               \A p \in Procesos : ~(Anotar(p) /\ Definitivo(intento[p]))
        PROVE  webhook'.fallos + Cardinality(PorContar') <= definitivos'
    <2>1. PorContar' \subseteq PorContar
      BY <1>5, PorContarPaso DEF PorContar
    <2>2. webhook'.fallos = webhook.fallos
      BY <1>5 DEF TypeOK, Next, Sigue, Emitir, Enviar, Bloquear, Anotar, Morir, Leer, Reenviar,
         Vencer, EncolarReintento, Activar, Ping, Borrar, vars
    <2>3. definitivos' = definitivos \/ definitivos' = definitivos + 0
      BY <1>5 DEF Next, Sigue, Emitir, Enviar, Bloquear, Anotar, Morir, Leer, Reenviar,
         Vencer, EncolarReintento, Activar, Ping, Borrar, vars
    <2> QED
      BY <1>0, <2>1, <2>2, <2>3, CuentaIgual
  <1> QED
    BY <1>2, <1>3, <1>4, <1>5, <1>6

-----------------------------------------------------------------------------
LEMMA InvInicial == Init => Inv
  <1> SUFFICES ASSUME Init PROVE Inv
    OBVIOUS
  <1>1. /\ intento \in [Procesos -> Intento] /\ entrega \in [Entregas -> Fila]
        /\ \A p \in Procesos : intento[p].fase = "libre"
        /\ \A e \in Entregas : entrega[e].estado = "nada" /\ entrega[e].intentos = 0
    BY LibreEs DEF Init
  <1>2. TypeOK
    BY <1>1 DEF Init, TypeOK
  <1>3. Propio /\ LoteUnico /\ LoteAlDia /\ AceptadaCerrada
    BY <1>1, ProcesosEs DEF Init, Propio, LoteUnico, LoteAlDia, AceptadaCerrada, EnMano
  <1>4. QuedaIntento
    BY <1>1, WebhooksAssumption DEF Init, QuedaIntento
  <1>5. Contadas
    BY <1>1 DEF Contadas
  <1>6. SoloCuentaLoDefinitivo
    <2>1. PorContar = {}
      BY <1>1 DEF PorContar, Fase
    <2>2. webhook.fallos = 0 /\ definitivos = 0
      BY DEF Init
    <2> QED
      BY <2>1, <2>2, FS_EmptySet DEF SoloCuentaLoDefinitivo, PorContar
  <1> QED
    BY <1>2, <1>3, <1>4, <1>5, <1>6 DEF Inv

LEMMA InvPaso == Inv /\ [Next]_vars => Inv'
  BY TipoPaso, PropioPaso, LoteUnicoPaso, LoteAlDiaPaso, QuedaIntentoPaso, ContadasPaso,
     AceptadaCerradaPaso, CuentaPaso
  DEF Inv

(* The inductive invariant: what each process has in hand accounts for the   *)
(* requests, attempts and failures the row does not show yet (webhooks.py).  *)
THEOREM InvSiempre == Spec => []Inv
  BY InvInicial, InvPaso, PTL DEF Spec

(* The types of the tables and of the attempts hold for every number of     *)
(* emitters, deliveries, attempts and thresholds.                           *)
THEOREM Tipado == Spec => []TypeOK
  BY InvSiempre, PTL DEF Inv

(* A delivery is attempted at most MAX_INTENTOS times, and once more per    *)
(* manual redelivery (decidir, shared/webhook_retry.py).                    *)
THEOREM Acotados == Spec => []IntentosAcotados
  <1>1. Inv => IntentosAcotados
    BY DEF Inv, QuedaIntento, IntentosAcotados
  <1> QED
    BY <1>1, InvSiempre, PTL

(* The counter of a delivery misses no request but the one in flight and    *)
(* one per process that died (marcar_para_reintento, db/webhooks.py).       *)
THEOREM SinEnvioOculto == Spec => []NoSeEnviaSinContar
  <1>1. Inv => NoSeEnviaSinContar
    <2> SUFFICES ASSUME Inv, NEW e \in Entregas, entrega[e].estado # "nada"
                 PROVE  enviadas[e] <= entrega[e].intentos + Cardinality(EnVuelo(e)) + caidas
      BY DEF NoSeEnviaSinContar
    <2>1. enviadas[e] <= entrega[e].intentos + SinAnotar(e) + caidas
      BY DEF Inv, Contadas
    <2>2. EnVuelo(e) = IF SinAnotar(e) = 1 THEN {Reintentador} ELSE {}
      BY ProcesosEs DEF EnVuelo, SinAnotar, Inv, Propio, Procesos, EnMano, De, Fase
    <2>3. Cardinality(EnVuelo(e)) = SinAnotar(e)
      BY <2>2, FS_EmptySet, FS_Singleton DEF SinAnotar
    <2> QED
      BY <2>1, <2>3
  <1> QED
    BY <1>1, InvSiempre, PTL

(* The failure count of a webhook grows by deliveries exhausted or blocked  *)
(* and by failed pings, never by the attempts of a delivery still to be     *)
(* retried (_record_delivery, db/webhooks.py; record_delivery).             *)
THEOREM SoloDefinitivo == Spec => []SoloCuentaLoDefinitivo
  BY InvSiempre, PTL DEF Inv

(* From its answer on, what the receiver accepted is not sent again, and its *)
(* row is not reopened, whoever holds an older copy of it: only an answer    *)
(* lost with its sender is (db/repositories/webhooks.py).                   *)
THEOREM AceptadaEsFinal == Spec => EntregadaEsFinal
  <1>1. Inv /\ [Next]_vars =>
          [\A e \in Entregas :
             /\ e \in sabidas => enviadas'[e] = enviadas[e]
             /\ entrega[e].estado = "delivered" =>
                  entrega'[e].estado \in {"delivered", "nada"}]_vars
    <2> SUFFICES ASSUME Inv, [Next]_vars, NEW e \in Entregas
                 PROVE  /\ e \in sabidas => enviadas'[e] = enviadas[e]
                        /\ entrega[e].estado = "delivered" =>
                             entrega'[e].estado \in {"delivered", "nada"}
      OBVIOUS
    <2>1. ASSUME e \in sabidas PROVE enviadas'[e] = enviadas[e]
      <3>1. \A p \in Procesos : Fase(p, "enviar") => De(p) # e
        BY <2>1 DEF Inv, AceptadaCerrada
      <3> QED
        BY <3>1, EnviadasPaso DEF Inv, TypeOK
    <2>2. ASSUME entrega[e].estado = "delivered"
          PROVE  entrega'[e].estado \in {"delivered", "nada"}
      <3>1. \A p \in Procesos : EnMano(p) => De(p) # e
        BY <2>2 DEF Inv, Propio, LoteAlDia, Procesos
      <3>2. ~Creada(e) /\ ~Reanotada(e)
        BY <3>1, ProcesosEs DEF Creada, Reanotada
      <3>3. ~Redimida(e)
        BY <2>2 DEF Redimida, Reenviable
      <3> QED
        BY <2>2, <3>2, <3>3, FilaPaso, LibreEs DEF Inv, Igual
    <2> QED
      BY <2>1, <2>2
  <1> QED
    BY <1>1, InvSiempre, PTL DEF Spec, EntregadaEsFinal
=============================================================================
