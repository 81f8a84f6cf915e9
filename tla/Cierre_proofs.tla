---------------------------- MODULE Cierre_proofs ----------------------------
(* Proofs about the closing of a pass: whatever an earlier closing left in  *)
(* the queue, and wherever the sweep falls, the steps have their turns in   *)
(* the canonical order, a closing that ends is complete, and no alert is    *)
(* silenced by a window nobody was told of.                                 *)
EXTENDS Cierre, FiniteSetTheorems, FunctionTheorems, TLAPS

(* Where a step is in the order. *)
Lugar(s) == CHOOSE k \in 1 .. N : Orden[k] = s

Terminal(j) == jobs[j].estado \in Terminales
Pendiente(j) == jobs[j].estado = "pending"
Existe(j) == jobs[j].estado # "ausente"

EnUnPaso == {"reclamado", "corriendo", "anotar", "avisar", "enviar"}

(* The ids are handed out in order, and so are their turns. *)
Turnos ==
    /\ \A j \in Ids : jobs[j].espera <= 0 /\ (~Existe(j) => jobs[j].espera = 0)
    /\ \A j, k \in Ids :
         j < k => /\ Existe(k) => Existe(j)
                  /\ jobs[j].estado \in Activos /\ jobs[k].estado \in Activos
                       => jobs[j].espera <= jobs[k].espera

(* What the fields of the closing are in each phase. *)
Ubicado ==
    /\ cierre.fase \in EnUnPaso =>
         IF cierre.linea THEN cierre.paso <= N ELSE cierre.job \in Ids
    /\ cierre.fase \notin EnUnPaso => cierre.job = 0
    /\ cierre.fase = "linea" => cierre.linea
    /\ cierre.fase \in {"libre", "encolar", "bucle"} => ~cierre.linea
    /\ cierre.linea => cierre.job = 0
    /\ cierre.ventana => cierre.fase = "enviar"
    /\ cierre.fase \in EnUnPaso \union {"bucle", "cerrar"} /\ ~cierre.linea => cierre.paso = N + 1
    /\ cierre.fase = "cerrar" => cierre.paso = N + 1

(* The job in hand is a row of the table. *)
EnMano == cierre.job \in Ids => Existe(cierre.job)

(* The jobs of this closing: one per step enqueued, in the order's order. *)
Propios ==
    /\ cierre.linea \/ cierre.fase = "libre" => cierre.mios = {} /\ cierre.restos = {}
    /\ cierre.fase = "encolar" =>
         /\ cierre.restos = {}
         /\ \A j \in cierre.mios : \A r \in Ids \ cierre.mios : Existe(r) => r < j
    /\ \A j \in cierre.mios : Existe(j) /\ Lugar(pasoDe[j]) < cierre.paso
    /\ \A j, k \in cierre.mios : j < k => Lugar(pasoDe[j]) < Lugar(pasoDe[k])
    /\ ~cierre.linea /\ cierre.fase # "libre" =>
         \A s \in Pasos : Lugar(s) < cierre.paso => \E j \in cierre.mios : pasoDe[j] = s

(* The result of a job of this closing, but the one in hand. *)
Hecho(j) ==
    IF res[pasoDe[j]] = "sin" THEN Pendiente(j) ELSE Terminal(j)

(* The steps have had their turns in the order, and the one in hand has     *)
(* everything before it done.                                               *)
Hechos == ~cierre.linea => \A j \in cierre.mios \ {cierre.job} : Hecho(j)

EnTurno ==
    cierre.fase \in {"reclamado", "corriendo"} /\ cierre.job \in cierre.mios =>
        /\ res[pasoDe[cierre.job]] = "sin"
        /\ \A j \in cierre.mios : j < cierre.job => res[pasoDe[j]] # "sin"

EnLinea == cierre.linea => \A s \in Pasos : Lugar(s) < cierre.paso => res[s] # "sin"

Corrido ==
    /\ cierre.fase \in {"libre", "encolar"} => res = SinResultado
    /\ cierre.fase # "reclamado" => cierre.job = 0 \/ cierre.job \in cierre.mios
    /\ cierre.fase = "corriendo" => Incumplidas(Paso) = {}
    /\ cierre.fase \in {"anotar", "avisar", "enviar"} => res[Paso] # "sin"
    /\ cierre.fase \in {"avisar", "enviar"} /\ ~cierre.linea => Terminal(cierre.job)

Resultado == Hechos /\ EnTurno /\ EnLinea /\ Corrido

(* Nothing found waiting is left behind by a job of this closing. *)
Restos ==
    \A r \in cierre.restos :
        /\ r \notin cierre.mios
        /\ \A j \in cierre.mios : r < j
        /\ Terminal(r) \/ /\ Pendiente(r) \/ r = cierre.job
                          /\ cierre.job \notin cierre.mios
                          /\ \A j \in cierre.mios : Pendiente(j) /\ res[pasoDe[j]] = "sin"

(* What there is to close is what there was when the loop began. *)
Vivos ==
    IF cierre.linea \/ cierre.fase \in {"libre", "encolar"} THEN cierre.vueltas = 0
    ELSE /\ cierre.mios \subseteq cierre.vivos
         /\ \A j \in Ids : jobs[j].estado \in Activos => j \in cierre.vivos

(* Each lap used one of those rows up. *)
Gastados == { j \in Ids : j \in cierre.vivos /\ (Terminal(j) \/ j = cierre.job) }
Vuelta == cierre.vueltas <= Cardinality(Gastados)

(* A window that is open was told of, or is to be closed, or nobody knows   *)
(* of it.                                                                   *)
Ventanas ==
    \A s \in Pasos :
        cerrojos[s].resta > 0 =>
            /\ cerrojos[s].dueno = Alertas
            /\ \/ avisos[s].avisado \/ avisos[s].porCerrar \/ avisos[s].huerfana
               \/ cierre.ventana /\ Paso = s

Inv == /\ TypeOK /\ Turnos /\ EnMano /\ Ubicado /\ Propios /\ Resultado /\ Restos
       /\ Vivos /\ Vuelta /\ Ventanas /\ CierreCompleto

-----------------------------------------------------------------------------
(* The order of the steps. *)
LEMMA OrdenEs ==
    /\ N \in Nat /\ N > 0
    /\ \A k \in 1 .. N : Orden[k] \in Pasos
    /\ Orden \in Bijection(1 .. N, Pasos)
  <1>1. /\ N \in Nat /\ N > 0 /\ Orden \in [1 .. N -> Pasos]
        /\ \A k \in 1 .. N : Orden[k] \in Pasos
    BY CierreAssumption DEF N
  <1>2. Orden \in Surjection(1 .. N, Pasos)
    BY <1>1 DEF Surjection, Pasos, N
  <1>3. IsFiniteSet(1 .. N) /\ Cardinality(1 .. N) = N
    BY <1>1, FS_Interval
  <1>4. Orden \in Injection(1 .. N, Pasos)
    BY <1>2, <1>3, CierreAssumption, FS_SurjSameCardinalityImpliesInj
  <1> QED
    BY <1>1, <1>2, <1>4 DEF Bijection

LEMMA LugarEs ==
    /\ \A s \in Pasos : Lugar(s) \in 1 .. N /\ Orden[Lugar(s)] = s
    /\ \A k \in 1 .. N : Lugar(Orden[k]) = k
    /\ \A s, t \in Pasos : Lugar(s) = Lugar(t) => s = t
    /\ \A s \in Pasos : \A d \in Deps[s] : d \in Pasos /\ Lugar(d) < Lugar(s)
  <1>1. ASSUME NEW s \in Pasos PROVE Lugar(s) \in 1 .. N /\ Orden[Lugar(s)] = s
    <2>1. \E k \in 1 .. N : Orden[k] = s
      BY OrdenEs DEF Bijection, Surjection
    <2> QED
      BY <2>1 DEF Lugar
  <1>2. ASSUME NEW k \in 1 .. N PROVE Lugar(Orden[k]) = k
    <2>1. /\ Lugar(Orden[k]) \in 1 .. N
          /\ Orden[Lugar(Orden[k])] = Orden[k]
      BY <1>1, OrdenEs
    <2>2. \A a, b \in 1 .. N : Orden[a] = Orden[b] => a = b
      BY OrdenEs, Fun_InjectionProperties DEF Bijection
    <2> QED
      BY <2>1, <2>2
  <1>3. ASSUME NEW s \in Pasos, NEW d \in Deps[s] PROVE d \in Pasos /\ Lugar(d) < Lugar(s)
    <2>1. d \in Pasos
      BY CierreAssumption
    <2> QED
      BY <1>1, <2>1, CierreAssumption
  <1>4. \A s, t \in Pasos : Lugar(s) = Lugar(t) => s = t
    BY <1>1
  <1> QED
    BY <1>1, <1>2, <1>3, <1>4

LEMMA Finitos ==
    /\ IsFiniteSet(Ids) /\ IsFiniteSet(Pasos) /\ Cardinality(Pasos) = N
    /\ IsFiniteSet(Gastados) /\ IsFiniteSet({ j \in Ids : Existe(j) })
  <1>1. IsFiniteSet(Ids)
    BY FS_Interval, TablaAssumption DEF Ids
  <1>2. IsFiniteSet(Pasos)
    <2>1. Orden \in Surjection(1 .. N, Pasos) /\ IsFiniteSet(1 .. N)
      BY OrdenEs, FS_Interval DEF Bijection
    <2> QED
      BY <2>1, FS_Surjection
  <1>3. Gastados \subseteq Ids /\ { j \in Ids : Existe(j) } \subseteq Ids
    BY DEF Gastados
  <1> QED
    BY <1>1, <1>2, <1>3, CierreAssumption, FS_Subset

-----------------------------------------------------------------------------
(* What the statements do to the rows. *)
LEMMA TomadaEs ==
    ASSUME NEW f \in Fila, NEW w \in Consumidores
    PROVE  /\ Tomada(f, w) \in Fila /\ Tomada(f, w).estado = "running"
           /\ Tomada(f, w).espera = f.espera
  <1> DEFINE n == f.intentos + 1
             g == [f EXCEPT !.estado = "running", !.intentos = n, !.locked_by = w,
                            !.silencio = 0]
  <1>1. Tomada(f, w) = g
    BY DEF Tomada
  <1>2. n \in Nat
    BY DEF Fila
  <1> HIDE DEF n
  <1>3. g \in Fila /\ g.estado = "running" /\ g.espera = f.espera
    BY <1>2 DEF Fila, Estados, Activos, Terminales
  <1> QED
    BY <1>1, <1>3

LEMMA SueltaEs ==
    ASSUME NEW f \in Fila, NEW e \in Estados, NEW x \in Int
    PROVE  /\ Suelta(f, e, x) \in Fila /\ Suelta(f, e, x).estado = e
           /\ Suelta(f, e, x).espera = x
  BY DEF Suelta, Fila

LEMMA EnvejecidaEs ==
    ASSUME NEW f \in Fila
    PROVE  /\ Envejecida(f) \in Fila /\ Envejecida(f).estado = f.estado
           /\ Envejecida(f).espera =
                IF f.estado \in Activos /\ f.espera > -Horizonte THEN f.espera - 1 ELSE f.espera
  <1> DEFINE x == IF f.estado \in Activos /\ f.espera > -Horizonte THEN f.espera - 1
                                                                  ELSE f.espera
             y == IF f.estado = "running" /\ f.silencio <= TTL THEN f.silencio + 1
                                                              ELSE f.silencio
             g == [f EXCEPT !.espera = x, !.silencio = y]
  <1>1. Envejecida(f) = g
    BY DEF Envejecida
  <1>2. x \in Int /\ y \in Nat
    BY DEF Fila
  <1> HIDE DEF x, y
  <1>3. g \in Fila /\ g.estado = f.estado /\ g.espera = x
    BY <1>2 DEF Fila
  <1> QED
    BY <1>1, <1>3 DEF x

-----------------------------------------------------------------------------
(* What each step does to the closing in course. *)
Queda(f, j, p, u) ==
    /\ cierre' \in Curso
    /\ cierre'.fase = f /\ cierre'.job = j /\ cierre'.paso = p /\ cierre'.vueltas = u
    /\ cierre'.mios = cierre.mios /\ cierre'.restos = cierre.restos
    /\ cierre'.linea = cierre.linea /\ cierre'.vivos = cierre.vivos

Cambia(f) == Queda(f, cierre.job, cierre.paso, cierre.vueltas)

Avanza ==
    /\ Queda(IF cierre.linea THEN "linea" ELSE "bucle", 0,
             IF cierre.linea THEN cierre.paso + 1 ELSE cierre.paso, cierre.vueltas)
    /\ cierre'.ventana = FALSE

Vacia(f, l) ==
    /\ cierre' \in Curso
    /\ cierre'.fase = f /\ cierre'.job = 0 /\ cierre'.paso = 1 /\ cierre'.vueltas = 0
    /\ cierre'.mios = {} /\ cierre'.restos = {}
    /\ cierre'.linea = l /\ cierre'.ventana = FALSE

LEMMA VueltasEs == Vueltas \in Nat /\ 0 \in 0 .. Vueltas /\ 1 \in 1 .. N + 1
  BY OrdenEs, CierreAssumption DEF Vueltas

LEMMA ParadoEs ==
    ASSUME NEW f \in Fases, NEW l \in BOOLEAN,
           \/ cierre' = [Parado EXCEPT !.fase = f, !.linea = l]
           \/ cierre' = [Parado EXCEPT !.fase = f] /\ l = FALSE
           \/ cierre' = Parado /\ f = "libre" /\ l = FALSE
    PROVE  Vacia(f, l)
  <1>1. /\ Parado \in Curso /\ Parado.fase = "libre" /\ Parado.mios = {} /\ Parado.job = 0
        /\ Parado.paso = 1 /\ Parado.linea = FALSE /\ Parado.ventana = FALSE
        /\ Parado.vueltas = 0 /\ Parado.restos = {}
    BY VueltasEs DEF Parado, Curso, Fases
  <1>2. /\ cierre' \in Curso /\ cierre'.fase = f /\ cierre'.linea = l
        /\ cierre'.mios = Parado.mios /\ cierre'.job = Parado.job
        /\ cierre'.paso = Parado.paso /\ cierre'.ventana = Parado.ventana
        /\ cierre'.vueltas = Parado.vueltas /\ cierre'.restos = Parado.restos
    BY <1>1 DEF Curso
  <1> QED
    BY <1>1, <1>2 DEF Vacia

LEMMA VaciosEs ==
    ASSUME TypeOK
    PROVE  /\ Empezar => Vacia("encolar", FALSE)
           /\ ColaNoDisponible => Vacia("linea", TRUE)
           /\ CerrarVentanas \/ Morir => Vacia("libre", FALSE)
  <1>1. {"libre", "encolar", "linea"} \subseteq Fases
    BY DEF Fases
  <1>2. Empezar => Vacia("encolar", FALSE)
    BY <1>1, ParadoEs DEF Empezar
  <1>3. ColaNoDisponible => Vacia("linea", TRUE)
    BY <1>1, ParadoEs DEF ColaNoDisponible
  <1>4. CerrarVentanas \/ Morir => Vacia("libre", FALSE)
    BY <1>1, ParadoEs DEF CerrarVentanas, Morir
  <1> QED
    BY <1>2, <1>3, <1>4

LEMMA CambiaEs ==
    ASSUME TypeOK, NEW f \in Fases, NEW v \in BOOLEAN,
           cierre' = [cierre EXCEPT !.fase = f, !.ventana = v]
    PROVE  Cambia(f) /\ cierre'.ventana = v
  BY DEF TypeOK, Curso, Cambia, Queda

LEMMA FaseEs ==
    ASSUME TypeOK, NEW f \in Fases, cierre' = [cierre EXCEPT !.fase = f]
    PROVE  Cambia(f) /\ cierre'.ventana = cierre.ventana
  BY DEF TypeOK, Curso, Cambia, Queda

LEMMA AvanzaEs ==
    ASSUME TypeOK, Ubicado, cierre.fase \in EnUnPaso,
           \/ cierre' = SinVentana
           \/ cierre' = Siguiente /\ cierre.ventana = FALSE
    PROVE  Avanza
  <1> DEFINE p == cierre.paso + 1
  <1>1. {"linea", "bucle"} \subseteq Fases /\ cierre \in Curso
    BY DEF Fases, TypeOK
  <1>2. CASE cierre.linea
    <2>1. cierre.job = 0
      BY <1>2 DEF Ubicado
    <2>2. p \in 1 .. N + 1
      BY <1>1, <1>2, OrdenEs DEF Ubicado, Curso
    <2> HIDE DEF p
    <2>3. \/ cierre' = [[cierre EXCEPT !.fase = "linea", !.paso = p] EXCEPT !.ventana = FALSE]
          \/ /\ cierre' = [cierre EXCEPT !.fase = "linea", !.paso = p]
             /\ cierre.ventana = FALSE
      BY <1>2 DEF SinVentana, Siguiente, p
    <2>4. /\ cierre' \in Curso /\ cierre'.fase = "linea" /\ cierre'.paso = p
          /\ cierre'.job = cierre.job /\ cierre'.vueltas = cierre.vueltas
          /\ cierre'.mios = cierre.mios /\ cierre'.restos = cierre.restos
          /\ cierre'.linea = cierre.linea /\ cierre'.ventana = FALSE
          /\ cierre'.vivos = cierre.vivos
      BY <1>1, <2>2, <2>3 DEF Curso
    <2> QED
      BY <1>2, <2>1, <2>4 DEF Avanza, Queda, p
  <1>3. CASE ~cierre.linea
    <2>1. \/ cierre' = [[cierre EXCEPT !.fase = "bucle", !.job = 0] EXCEPT !.ventana = FALSE]
          \/ /\ cierre' = [cierre EXCEPT !.fase = "bucle", !.job = 0]
             /\ cierre.ventana = FALSE
      BY <1>3 DEF SinVentana, Siguiente
    <2>2. /\ cierre' \in Curso /\ cierre'.fase = "bucle" /\ cierre'.paso = cierre.paso
          /\ cierre'.job = 0 /\ cierre'.vueltas = cierre.vueltas
          /\ cierre'.mios = cierre.mios /\ cierre'.restos = cierre.restos
          /\ cierre'.linea = cierre.linea /\ cierre'.ventana = FALSE
          /\ cierre'.vivos = cierre.vivos
      BY <1>1, <2>1 DEF Curso
    <2> QED
      BY <1>3, <2>2 DEF Avanza, Queda
  <1> QED
    BY <1>2, <1>3

LEMMA PasoEs ==
    ASSUME TypeOK, Ubicado, cierre.fase \in EnUnPaso
    PROVE  /\ Paso \in Pasos
           /\ ~cierre.linea => cierre.job \in Ids /\ Paso = pasoDe[cierre.job]
           /\ cierre.linea => cierre.paso \in 1 .. N /\ Paso = Orden[cierre.paso]
                              /\ Lugar(Paso) = cierre.paso
  <1>1. cierre.paso \in 1 .. N + 1 /\ N \in Nat
    BY OrdenEs DEF TypeOK, Curso
  <1>2. CASE cierre.linea
    <2>1. cierre.paso \in 1 .. N
      BY <1>1, <1>2 DEF Ubicado
    <2> QED
      BY <1>2, <2>1, OrdenEs, LugarEs DEF Paso
  <1>3. CASE ~cierre.linea
    <2>1. cierre.job \in Ids
      BY <1>3 DEF Ubicado
    <2> QED
      BY <1>3, <2>1 DEF Paso, TypeOK
  <1> QED
    BY <1>2, <1>3

-----------------------------------------------------------------------------
(* What the statements do to the table. *)
Otras(j) == \A k \in Ids \ {j} : jobs'[k] = jobs[k]

LEMMA CambiaFila ==
    ASSUME TablaTypeOK, NEW j \in Ids, NEW f \in Fila, jobs' = [jobs EXCEPT ![j] = f]
    PROVE  TablaTypeOK' /\ jobs'[j] = f /\ Otras(j)
  BY DEF TablaTypeOK, Otras

LEMMA InsertarEs ==
    ASSUME TypeOK, NEW j \in Ids, NEW t \in Tipos, Insertar(j, t)
    PROVE  /\ TablaTypeOK' /\ Otras(j) /\ ~Existe(j)
           /\ \A i \in Ids : i < j => Existe(i)
           /\ jobs'[j].estado = "pending" /\ jobs'[j].espera = jobs[j].espera
  <1> DEFINE g == [jobs[j] EXCEPT !.estado = "pending", !.tipo = t]
  <1>1. /\ jobs' = [jobs EXCEPT ![j] = g] /\ ~Existe(j)
        /\ \A i \in Ids : i < j => Existe(i)
    BY DEF Insertar, Existe
  <1>2. jobs[j] \in Fila /\ TablaTypeOK
    BY DEF TypeOK, TablaTypeOK
  <1>3. g \in Fila /\ g.estado = "pending" /\ g.espera = jobs[j].espera
    BY <1>2 DEF Fila, Estados, Activos
  <1> HIDE DEF g
  <1> QED
    BY <1>1, <1>2, <1>3, CambiaFila

LEMMA ReclamarEs ==
    ASSUME TypeOK, NEW j \in Ids, Reclamar(Cierra, Tipos, j)
    PROVE  /\ TablaTypeOK' /\ Otras(j) /\ Pendiente(j)
           /\ jobs'[j].estado = "running" /\ jobs'[j].espera = jobs[j].espera
  <1>1. /\ jobs' = [jobs EXCEPT ![j] = Tomada(jobs[j], Cierra)] /\ Pendiente(j)
    BY DEF Reclamar, Reclamables, Pendiente
  <1>2. jobs[j] \in Fila /\ TablaTypeOK /\ Cierra \in Consumidores
    BY CierreAssumption DEF TypeOK, TablaTypeOK
  <1>3. /\ Tomada(jobs[j], Cierra) \in Fila
        /\ Tomada(jobs[j], Cierra).estado = "running"
        /\ Tomada(jobs[j], Cierra).espera = jobs[j].espera
    BY <1>2, TomadaEs
  <1>4. TablaTypeOK' /\ jobs'[j] = Tomada(jobs[j], Cierra) /\ Otras(j)
    BY <1>1, <1>2, <1>3, CambiaFila
  <1> QED
    BY <1>1, <1>3, <1>4

LEMMA CerrarEs ==
    ASSUME TypeOK, NEW j \in Ids, MarcarTerminado(j) \/ MarcarFallido(j)
    PROVE  /\ TablaTypeOK' /\ Otras(j)
           /\ jobs'[j].estado \in Terminales /\ jobs'[j].espera = 0
  <1>1. PICK e \in Terminales : jobs' = [jobs EXCEPT ![j] = Suelta(jobs[j], e, 0)]
    BY DEF MarcarTerminado, MarcarFallido, Cerrar, Terminales
  <1>2. jobs[j] \in Fila /\ TablaTypeOK /\ e \in Estados
    BY DEF TypeOK, TablaTypeOK, Estados
  <1>3. /\ Suelta(jobs[j], e, 0) \in Fila /\ Suelta(jobs[j], e, 0).estado = e
        /\ Suelta(jobs[j], e, 0).espera = 0
    BY <1>2, SueltaEs
  <1>4. TablaTypeOK' /\ jobs'[j] = Suelta(jobs[j], e, 0) /\ Otras(j)
    BY <1>1, <1>2, <1>3, CambiaFila
  <1> QED
    BY <1>1, <1>3, <1>4

LEMMA RenovarEs ==
    ASSUME TypeOK, NEW j \in Ids, RenovarLock(j, Cierra)
    PROVE  /\ TablaTypeOK'
           /\ \A k \in Ids : /\ jobs'[k].estado = jobs[k].estado
                             /\ jobs'[k].espera = jobs[k].espera
  <1> DEFINE g == [jobs[j] EXCEPT !.silencio = 0]
  <1>1. TablaTypeOK /\ jobs[j] \in Fila
    BY DEF TypeOK, TablaTypeOK
  <1>2. jobs' = jobs \/ jobs' = [jobs EXCEPT ![j] = g]
    BY DEF RenovarLock
  <1>3. g \in Fila /\ g.estado = jobs[j].estado /\ g.espera = jobs[j].espera
    BY <1>1 DEF Fila
  <1> HIDE DEF g
  <1>4. CASE jobs' = jobs
    BY <1>1, <1>4 DEF TablaTypeOK
  <1>5. CASE jobs' = [jobs EXCEPT ![j] = g]
    <2>1. TablaTypeOK' /\ jobs'[j] = g /\ Otras(j)
      BY <1>1, <1>3, <1>5, CambiaFila
    <2> QED
      BY <1>3, <2>1 DEF Otras
  <1> QED
    BY <1>2, <1>4, <1>5

LEMMA BarrerEs ==
    ASSUME TypeOK, ReclamarCaducados
    PROVE  /\ TablaTypeOK'
           /\ \A k \in Ids :
                \/ jobs'[k] = jobs[k]
                \/ /\ jobs[k].estado = "running" /\ jobs'[k].estado = "failed"
                   /\ jobs'[k].espera = 0
                \/ /\ jobs[k].estado = "running" /\ jobs'[k].estado = "pending"
                   /\ jobs'[k].espera = jobs[k].espera
  <1>1. \A k \in Ids : jobs[k] \in Fila /\ jobs[k].espera \in Int
    BY DEF TypeOK, TablaTypeOK, Fila
  <1>2. {"pending", "failed"} \subseteq Estados
    BY DEF Estados, Activos, Terminales
  <1>3. /\ jobs' = [k \in Ids |-> jobs'[k]]
        /\ \A k \in Ids :
             \/ jobs'[k] = jobs[k]
             \/ Caducado(k) /\ jobs'[k] = Suelta(jobs[k], "failed", 0)
             \/ Caducado(k) /\ jobs'[k] = Suelta(jobs[k], "pending", jobs[k].espera)
    BY DEF ReclamarCaducados, Barrida
  <1>4. ASSUME NEW k \in Ids
        PROVE  /\ jobs'[k] \in Fila
               /\ \/ jobs'[k] = jobs[k]
                  \/ /\ jobs[k].estado = "running" /\ jobs'[k].estado = "failed"
                     /\ jobs'[k].espera = 0
                  \/ /\ jobs[k].estado = "running" /\ jobs'[k].estado = "pending"
                     /\ jobs'[k].espera = jobs[k].espera
    <2>1. CASE jobs'[k] = jobs[k]
      BY <1>1, <2>1
    <2>2. CASE Caducado(k) /\ jobs'[k] = Suelta(jobs[k], "failed", 0)
      BY <1>1, <1>2, <2>2, SueltaEs DEF Caducado
    <2>3. CASE Caducado(k) /\ jobs'[k] = Suelta(jobs[k], "pending", jobs[k].espera)
      BY <1>1, <1>2, <2>3, SueltaEs DEF Caducado
    <2> QED
      BY <1>3, <2>1, <2>2, <2>3
  <1> QED
    BY <1>3, <1>4 DEF TablaTypeOK

LEMMA PasaElTiempoEs ==
    ASSUME TypeOK, PasaElTiempo
    PROVE  /\ TablaTypeOK'
           /\ \A k \in Ids :
                /\ jobs'[k].estado = jobs[k].estado
                /\ jobs'[k].espera =
                     IF jobs[k].estado \in Activos /\ jobs[k].espera > -Horizonte
                     THEN jobs[k].espera - 1 ELSE jobs[k].espera
  <1>1. \A k \in Ids : jobs[k] \in Fila
    BY DEF TypeOK, TablaTypeOK
  <1>2. /\ jobs' = [k \in Ids |-> jobs'[k]]
        /\ \A k \in Ids : jobs'[k] = Envejecida(jobs[k])
    BY DEF PasaElTiempo
  <1>3. ASSUME NEW k \in Ids
        PROVE  /\ jobs'[k] \in Fila /\ jobs'[k].estado = jobs[k].estado
               /\ jobs'[k].espera =
                    IF jobs[k].estado \in Activos /\ jobs[k].espera > -Horizonte
                    THEN jobs[k].espera - 1 ELSE jobs[k].espera
    <2>1. jobs[k] \in Fila /\ jobs'[k] = Envejecida(jobs[k])
      BY <1>1, <1>2
    <2> QED
      BY <2>1, EnvejecidaEs
  <1> QED
    BY <1>2, <1>3 DEF TablaTypeOK

-----------------------------------------------------------------------------
(* What they do to the windows. *)
LEMMA AdquirirEs ==
    ASSUME TypeOK, NEW s \in Pasos, Adquirir(s, Alertas, Cooldown)
    PROVE  /\ CerrojosTypeOK' /\ cerrojos'[s].dueno = Alertas
           /\ \A t \in Pasos \ {s} : cerrojos'[t] = cerrojos[t]
  <1> DEFINE c == [dueno |-> Alertas, resta |-> Cooldown]
  <1>1. cerrojos' = [cerrojos EXCEPT ![s] = c] /\ s \in Nombres /\ Pasos = Nombres
    BY CierreAssumption DEF Adquirir
  <1>2. c \in Cerrojo /\ c.dueno = Alertas
    BY CierreAssumption, CerrojosAssumption DEF Cerrojo
  <1> HIDE DEF c
  <1> QED
    BY <1>1, <1>2 DEF TypeOK, CerrojosTypeOK

LEMMA SoltarEs ==
    ASSUME TypeOK, NEW S \in SUBSET Pasos, SoltarVarios(S, Alertas)
    PROVE  /\ CerrojosTypeOK'
           /\ \A t \in Pasos : IF t \in S /\ cerrojos[t].dueno = Alertas
                               THEN cerrojos'[t].resta = 0 ELSE cerrojos'[t] = cerrojos[t]
  <1>1. SinCerrojo \in Cerrojo /\ SinCerrojo.resta = 0 /\ Nombres = Pasos
    BY CierreAssumption, CerrojosAssumption DEF SinCerrojo, Cerrojo
  <1> QED
    BY <1>1 DEF SoltarVarios, TypeOK, CerrojosTypeOK, EsDe

LEMMA EnvejecenEs ==
    ASSUME TypeOK, CerrojosEnvejecen
    PROVE  /\ CerrojosTypeOK'
           /\ \A t \in Pasos : /\ cerrojos'[t].dueno = cerrojos[t].dueno
                               /\ cerrojos'[t].resta > 0 => cerrojos[t].resta > 0
  <1> DEFINE r(t) == IF cerrojos[t].resta > 0 THEN cerrojos[t].resta - 1 ELSE 0
             c(t) == [cerrojos[t] EXCEPT !.resta = r(t)]
  <1>1. Nombres = Pasos /\ cerrojos' = [t \in Nombres |-> c(t)]
    BY CierreAssumption DEF CerrojosEnvejecen
  <1>2. ASSUME NEW t \in Nombres
        PROVE  /\ c(t) \in Cerrojo /\ c(t).dueno = cerrojos[t].dueno
               /\ c(t).resta > 0 => cerrojos[t].resta > 0
    <2>1. cerrojos[t] \in Cerrojo
      BY DEF TypeOK, CerrojosTypeOK
    <2>2. r(t) \in 0 .. MaxTTL /\ (r(t) > 0 => cerrojos[t].resta > 0)
      BY <2>1, CerrojosAssumption DEF Cerrojo
    <2> HIDE DEF r
    <2> QED
      BY <2>1, <2>2 DEF Cerrojo
  <1> HIDE DEF c
  <1> QED
    BY <1>1, <1>2 DEF CerrojosTypeOK

-----------------------------------------------------------------------------
(* What each action does, as the proofs use it. *)
Cerrada(j) ==
    /\ TablaTypeOK' /\ Otras(j)
    /\ jobs'[j].estado \in Terminales /\ jobs'[j].espera = 0

LEMMA EncolarEs ==
    ASSUME TypeOK, Encolar
    PROVE  /\ TablaTypeOK' /\ cierre.fase = "encolar" /\ cierre.paso \in 1 .. N
           /\ cierre' \in Curso /\ cierre'.fase = "encolar" /\ cierre'.paso = cierre.paso + 1
           /\ cierre'.job = cierre.job /\ cierre'.linea = cierre.linea
           /\ cierre'.ventana = cierre.ventana /\ cierre'.vueltas = cierre.vueltas
           /\ cierre'.restos = cierre.restos
           /\ pasoDe' \in [Ids -> Pasos]
           /\ \E j \in Ids :
                /\ Otras(j) /\ ~Existe(j) /\ \A i \in Ids : i < j => Existe(i)
                /\ jobs'[j].estado = "pending" /\ jobs'[j].espera = jobs[j].espera
                /\ cierre'.mios = cierre.mios \union {j}
                /\ pasoDe'[j] = Orden[cierre.paso]
                /\ \A k \in Ids \ {j} : pasoDe'[k] = pasoDe[k]
  <1>1. PICK j \in Ids, t \in Tipos :
           /\ Insertar(j, t)
           /\ pasoDe' = [pasoDe EXCEPT ![j] = Orden[cierre.paso]]
           /\ cierre' = [cierre EXCEPT !.paso = @ + 1, !.mios = @ \union {j}]
    BY DEF Encolar, EncolarPaso
  <1> DEFINE p == cierre.paso + 1
             m == cierre.mios \union {j}
  <1>2. cierre \in Curso /\ cierre.fase = "encolar" /\ cierre.paso \in 1 .. N
    BY OrdenEs DEF Encolar, TypeOK, Curso
  <1>3. cierre' = [cierre EXCEPT !.paso = p, !.mios = m]
    BY <1>1, <1>2
  <1>4. p \in 1 .. N + 1 /\ m \in SUBSET Ids
    BY <1>2, OrdenEs DEF Curso
  <1> HIDE DEF p, m
  <1>5. /\ cierre' \in Curso /\ cierre'.fase = cierre.fase /\ cierre'.paso = p
        /\ cierre'.mios = m /\ cierre'.job = cierre.job /\ cierre'.linea = cierre.linea
        /\ cierre'.ventana = cierre.ventana /\ cierre'.vueltas = cierre.vueltas
        /\ cierre'.restos = cierre.restos
    BY <1>2, <1>3, <1>4 DEF Curso
  <1>6. Orden[cierre.paso] \in Pasos
    BY <1>2, OrdenEs
  <1>7. /\ pasoDe' \in [Ids -> Pasos] /\ pasoDe'[j] = Orden[cierre.paso]
        /\ \A k \in Ids \ {j} : pasoDe'[k] = pasoDe[k]
    BY <1>1, <1>6 DEF TypeOK
  <1>8. /\ TablaTypeOK' /\ Otras(j) /\ ~Existe(j) /\ \A i \in Ids : i < j => Existe(i)
        /\ jobs'[j].estado = "pending" /\ jobs'[j].espera = jobs[j].espera
    BY <1>1, InsertarEs
  <1> QED
    BY <1>2, <1>5, <1>7, <1>8 DEF p, m

LEMMA ColaEs ==
    ASSUME TypeOK, ColaNoDisponible
    PROVE  /\ TablaTypeOK' /\ pasoDe' \in [Ids -> Pasos] /\ averias' \in 0 .. MaxAverias
           /\ \/ jobs' = jobs
              \/ \E j \in Ids :
                   /\ Otras(j) /\ ~Existe(j) /\ \A i \in Ids : i < j => Existe(i)
                   /\ jobs'[j].estado = "pending" /\ jobs'[j].espera = jobs[j].espera
  <1>1. averias' \in 0 .. MaxAverias
    BY CierreAssumption DEF ColaNoDisponible, Falla, TypeOK
  <1>2. CASE jobs' = jobs /\ pasoDe' = pasoDe
    BY <1>1, <1>2 DEF TypeOK, TablaTypeOK
  <1>3. ASSUME NEW j \in Ids, NEW t \in Tipos, EncolarPaso(j, t), cierre.paso <= N
        PROVE  /\ TablaTypeOK' /\ pasoDe' \in [Ids -> Pasos]
               /\ Otras(j) /\ ~Existe(j) /\ \A i \in Ids : i < j => Existe(i)
               /\ jobs'[j].estado = "pending" /\ jobs'[j].espera = jobs[j].espera
    <2>1. Orden[cierre.paso] \in Pasos
      BY <1>3, OrdenEs DEF TypeOK, Curso
    <2> QED
      BY <1>3, <2>1, InsertarEs DEF EncolarPaso, TypeOK
  <1> QED
    BY <1>1, <1>2, <1>3 DEF ColaNoDisponible

LEMMA EncoladoEs ==
    ASSUME TypeOK, Encolado
    PROVE  /\ cierre.fase = "encolar" /\ cierre.paso = N + 1
           /\ cierre' \in Curso /\ cierre'.fase = "bucle" /\ cierre'.paso = cierre.paso
           /\ cierre'.job = cierre.job /\ cierre'.linea = cierre.linea
           /\ cierre'.ventana = cierre.ventana /\ cierre'.vueltas = cierre.vueltas
           /\ cierre'.mios = cierre.mios
           /\ cierre'.restos = Reclamables(Tipos) \ cierre.mios
           /\ cierre'.vivos = { j \in Ids : jobs[j].estado \in Activos }
  <1> DEFINE r == Reclamables(Tipos) \ cierre.mios
             v == { j \in Ids : jobs[j].estado \in Activos }
  <1>1. /\ cierre \in Curso /\ cierre.fase = "encolar" /\ cierre.paso > N
        /\ cierre' = [cierre EXCEPT !.fase = "bucle", !.vivos = v, !.restos = r]
    BY DEF TypeOK, Encolado
  <1>2. r \in SUBSET Ids /\ v \in SUBSET Ids
    BY DEF Reclamables
  <1> HIDE DEF r, v
  <1>3. /\ cierre' \in Curso /\ cierre'.fase = "bucle" /\ cierre'.paso = cierre.paso
        /\ cierre'.job = cierre.job /\ cierre'.linea = cierre.linea
        /\ cierre'.ventana = cierre.ventana /\ cierre'.vueltas = cierre.vueltas
        /\ cierre'.mios = cierre.mios /\ cierre'.restos = r /\ cierre'.vivos = v
    BY <1>1, <1>2 DEF Curso, Fases
  <1>4. cierre.paso = N + 1
    BY <1>1, OrdenEs DEF Curso
  <1> QED
    BY <1>1, <1>3, <1>4 DEF r, v

LEMMA ReclamoEs ==
    ASSUME TypeOK, Reclamo
    PROVE  /\ cierre.fase = "bucle"
           /\ \E j \in Ids :
                /\ Queda("reclamado", j, cierre.paso, cierre.vueltas + 1)
                /\ cierre'.ventana = cierre.ventana
                /\ Reclamar(Cierra, Tipos, j)
                /\ TablaTypeOK' /\ Otras(j) /\ Pendiente(j)
                /\ jobs'[j].estado = "running" /\ jobs'[j].espera = jobs[j].espera
  <1>1. PICK j \in Ids :
           /\ Reclamar(Cierra, Tipos, j)
           /\ cierre' = [cierre EXCEPT !.fase = "reclamado", !.job = j, !.vueltas = @ + 1]
    BY DEF Reclamo
  <1> DEFINE u == cierre.vueltas + 1
  <1>2. cierre \in Curso /\ cierre.fase = "bucle" /\ u \in 0 .. Vueltas
    BY VueltasEs DEF TypeOK, Curso, Reclamo, Sigue
  <1>3. cierre' = [cierre EXCEPT !.fase = "reclamado", !.job = j, !.vueltas = u]
    BY <1>1
  <1> HIDE DEF u
  <1>4. Queda("reclamado", j, cierre.paso, u) /\ cierre'.ventana = cierre.ventana
    BY <1>2, <1>3 DEF Queda, Curso, Fases
  <1> QED
    BY <1>1, <1>2, <1>4, ReclamarEs DEF u

LEMMA DescartarEs ==
    ASSUME TypeOK, Ubicado, Descartar
    PROVE  /\ cierre.fase = "reclamado" /\ ~cierre.linea /\ cierre.job \notin cierre.mios
           /\ cierre.job \in Ids
           /\ Queda("bucle", 0, cierre.paso, cierre.vueltas)
           /\ cierre'.ventana = cierre.ventana
           /\ Cerrada(cierre.job)
  <1>1. /\ cierre \in Curso /\ cierre.fase = "reclamado" /\ ~cierre.linea
        /\ cierre.job \notin cierre.mios /\ MarcarTerminado(cierre.job)
        /\ cierre' = [cierre EXCEPT !.fase = "bucle", !.job = 0]
    BY DEF TypeOK, Descartar, EsMio
  <1>2. Queda("bucle", 0, cierre.paso, cierre.vueltas) /\ cierre'.ventana = cierre.ventana
    BY <1>1 DEF Queda, Curso, Fases
  <1>3. cierre.job \in Ids
    BY <1>1 DEF Ubicado, EnUnPaso
  <1> QED
    BY <1>1, <1>2, <1>3, CerrarEs DEF Cerrada

(* A step of the loop that only changes the phase. *)
LEMMA FasesEs ==
    ASSUME TypeOK
    PROVE  /\ PasoEnLinea => Cambia("reclamado") /\ cierre'.ventana = cierre.ventana
           /\ Correr => Cambia("corriendo") /\ cierre'.ventana = cierre.ventana
           /\ \A r : PasoTermina(r) => Cambia("anotar") /\ cierre'.ventana = cierre.ventana
           /\ Acabar => Cambia("cerrar") /\ cierre'.ventana = cierre.ventana
  <1>1. {"reclamado", "corriendo", "anotar", "cerrar"} \subseteq Fases
    BY DEF Fases
  <1>2. PasoEnLinea => Cambia("reclamado") /\ cierre'.ventana = cierre.ventana
    BY <1>1, FaseEs DEF PasoEnLinea
  <1>3. Correr => Cambia("corriendo") /\ cierre'.ventana = cierre.ventana
    BY <1>1, FaseEs DEF Correr
  <1>4. ASSUME NEW r, PasoTermina(r)
        PROVE  Cambia("anotar") /\ cierre'.ventana = cierre.ventana
    BY <1>1, <1>4, FaseEs DEF PasoTermina
  <1>5. Acabar => Cambia("cerrar") /\ cierre'.ventana = cierre.ventana
    BY <1>1, FaseEs DEF Acabar
  <1> QED
    BY <1>2, <1>3, <1>4, <1>5

LEMMA SaltarEs ==
    ASSUME TypeOK, Ubicado, Saltar
    PROVE  /\ cierre.fase = "reclamado" /\ EsMio /\ Paso \in Pasos
           /\ Avanza /\ TablaTypeOK'
           /\ res' = [res EXCEPT ![Paso] = "skipped_por_dependencia"]
           /\ IF cierre.linea THEN jobs' = jobs ELSE Cerrada(cierre.job)
  <1>1. /\ cierre.fase = "reclamado" /\ EsMio /\ cierre' = Siguiente
        /\ res' = [res EXCEPT ![Paso] = "skipped_por_dependencia"]
        /\ IF cierre.linea THEN jobs' = jobs ELSE MarcarTerminado(cierre.job)
    BY DEF Saltar
  <1>2. cierre.fase \in EnUnPaso /\ cierre.ventana = FALSE
    BY <1>1 DEF EnUnPaso, Ubicado, TypeOK, Curso
  <1>3. Avanza /\ Paso \in Pasos /\ (~cierre.linea => cierre.job \in Ids)
    BY <1>1, <1>2, AvanzaEs, PasoEs
  <1>4. ~cierre.linea => Cerrada(cierre.job)
    BY <1>1, <1>3, CerrarEs DEF Cerrada
  <1> QED
    BY <1>1, <1>3, <1>4 DEF Cerrada, TypeOK, TablaTypeOK

LEMMA AnotarEs ==
    ASSUME TypeOK, Ubicado, Anotar
    PROVE  /\ cierre.fase = "anotar" /\ Paso \in Pasos /\ TablaTypeOK'
           /\ IF cierre.linea THEN jobs' = jobs ELSE Cerrada(cierre.job)
           /\ IF res[Paso] = "error" THEN Cambia("avisar") /\ cierre'.ventana = cierre.ventana
                                     ELSE Avanza
  <1>1. /\ cierre.fase = "anotar"
        /\ IF res[Paso] = "error" THEN cierre' = [cierre EXCEPT !.fase = "avisar"]
                                  ELSE cierre' = Siguiente
        /\ IF cierre.linea THEN jobs' = jobs
           ELSE MarcarFallido(cierre.job) \/ MarcarTerminado(cierre.job)
    BY DEF Anotar
  <1>2. cierre.fase \in EnUnPaso /\ cierre.ventana = FALSE /\ "avisar" \in Fases
    BY <1>1 DEF EnUnPaso, Ubicado, TypeOK, Curso, Fases
  <1>3. Paso \in Pasos /\ (~cierre.linea => cierre.job \in Ids)
    BY <1>1, <1>2, PasoEs
  <1>4. ~cierre.linea => Cerrada(cierre.job)
    BY <1>1, <1>3, CerrarEs DEF Cerrada
  <1>5. IF res[Paso] = "error" THEN Cambia("avisar") /\ cierre'.ventana = cierre.ventana
                               ELSE Avanza
    BY <1>1, <1>2, AvanzaEs, FaseEs
  <1> QED
    BY <1>1, <1>3, <1>4, <1>5 DEF Cerrada, TypeOK, TablaTypeOK

LEMMA CallarEs ==
    ASSUME TypeOK, Ubicado, Callar
    PROVE  /\ cierre.fase = "avisar" /\ cierre.ventana = FALSE /\ Paso \in Pasos
           /\ Avanza /\ ~Adquirible(Paso)
  <1>1. /\ cierre.fase = "avisar" /\ cierre.fase \in EnUnPaso /\ cierre.ventana = FALSE
        /\ cierre' = Siguiente /\ ~Adquirible(Paso)
    BY DEF Callar, EnUnPaso, Ubicado, TypeOK, Curso
  <1> QED
    BY <1>1, AvanzaEs, PasoEs

LEMMA AvisarEs ==
    ASSUME TypeOK, Ubicado, Avisar
    PROVE  /\ cierre.fase = "avisar" /\ cierre.ventana = FALSE /\ Paso \in Pasos
           /\ averias' \in 0 .. MaxAverias /\ Cambia("enviar")
           /\ \/ cierre'.ventana = TRUE /\ AbrirVentana(FALSE)
              \/ cierre'.ventana = FALSE /\ AbrirVentana(TRUE)
              \/ cierre'.ventana = FALSE /\ cerrojos' = cerrojos /\ avisos' = avisos
  <1>1. /\ cierre.fase = "avisar" /\ cierre.fase \in EnUnPaso /\ cierre.ventana = FALSE
        /\ "enviar" \in Fases
    BY DEF Avisar, EnUnPaso, Ubicado, TypeOK, Curso, Fases
  <1>2. Paso \in Pasos
    BY <1>1, PasoEs
  <1>3. averias' \in 0 .. MaxAverias
    <2>1. averias' = averias \/ Falla
      BY DEF Avisar
    <2> QED
      BY <2>1, CierreAssumption DEF Falla, TypeOK
  <1>4. CASE AbrirVentana(FALSE) /\ cierre' = [cierre EXCEPT !.fase = "enviar", !.ventana = TRUE]
    <2>1. Cambia("enviar") /\ cierre'.ventana = TRUE
      BY <1>1, <1>4, CambiaEs
    <2> QED
      BY <1>1, <1>2, <1>3, <1>4, <2>1
  <1>5. CASE /\ cierre' = [cierre EXCEPT !.fase = "enviar"]
             /\ AbrirVentana(TRUE) \/ UNCHANGED <<cerrojos, avisos>>
    <2>1. Cambia("enviar") /\ cierre'.ventana = FALSE
      BY <1>1, <1>5, FaseEs
    <2> QED
      BY <1>1, <1>2, <1>3, <1>5, <2>1
  <1> QED
    BY <1>4, <1>5 DEF Avisar

LEMMA EnvioEs ==
    ASSUME TypeOK, Ubicado, Enviado \/ NoEnviado
    PROVE  /\ cierre.fase = "enviar" /\ Paso \in Pasos
           /\ Avanza /\ averias' \in 0 .. MaxAverias
  <1>1. /\ cierre.fase = "enviar" /\ cierre' = SinVentana /\ cierre.fase \in EnUnPaso
    BY DEF Enviado, NoEnviado, EnUnPaso
  <1>2. Avanza /\ Paso \in Pasos
    BY <1>1, AvanzaEs, PasoEs
  <1>3. averias' \in 0 .. MaxAverias
    BY CierreAssumption DEF Enviado, NoEnviado, Falla, TypeOK
  <1> QED
    BY <1>1, <1>2, <1>3

-----------------------------------------------------------------------------
(* The types. *)
LEMMA AvisosEs ==
    ASSUME NEW a \in Avisos, NEW b \in BOOLEAN
    PROVE  /\ Recuperado(a) \in Avisos /\ Recuperado(a).porCerrar = TRUE
           /\ Abierta(a, b) \in Avisos /\ Abierta(a, b).huerfana = b
           /\ [a EXCEPT !.porCerrar = b] \in Avisos
           /\ [a EXCEPT !.porCerrar = b].porCerrar = b
           /\ [a EXCEPT !.porCerrar = b].avisado = a.avisado
           /\ [a EXCEPT !.porCerrar = b].huerfana = a.huerfana
           /\ [a EXCEPT !.avisado = b] \in Avisos
           /\ [a EXCEPT !.avisado = b].avisado = b
  <1> DEFINE p == [a EXCEPT !.porCerrar = b]
             v == [a EXCEPT !.avisado = b]
  <1>1. Recuperado(a) \in Avisos /\ Recuperado(a).porCerrar = TRUE
    BY DEF Avisos, Recuperado
  <1>2. Abierta(a, b) \in Avisos /\ Abierta(a, b).huerfana = b
    BY DEF Avisos, Abierta
  <1>3. p \in Avisos /\ p.porCerrar = b /\ p.avisado = a.avisado /\ p.huerfana = a.huerfana
    BY DEF Avisos
  <1>4. v \in Avisos /\ v.avisado = b
    BY DEF Avisos
  <1> QED
    BY <1>1, <1>2, <1>3, <1>4

(* The statement that opens a window, whatever its caller gets to know. *)
LEMMA AbrirEs ==
    ASSUME TypeOK, Paso \in Pasos, NEW b \in BOOLEAN, AbrirVentana(b)
    PROVE  /\ CerrojosTypeOK' /\ cerrojos'[Paso].dueno = Alertas
           /\ \A t \in Pasos \ {Paso} : cerrojos'[t] = cerrojos[t] /\ avisos'[t] = avisos[t]
           /\ avisos' \in [Pasos -> Avisos] /\ avisos'[Paso].huerfana = b
  <1> DEFINE a == Abierta(avisos[Paso], b)
  <1>1. Adquirir(Paso, Alertas, Cooldown) /\ avisos' = [avisos EXCEPT ![Paso] = a]
    BY DEF AbrirVentana
  <1>2. avisos \in [Pasos -> Avisos]
    BY DEF TypeOK
  <1>3. a \in Avisos /\ a.huerfana = b
    <2>1. avisos[Paso] \in Avisos
      BY <1>2
    <2>2. \A x \in Avisos : Abierta(x, b) \in Avisos /\ Abierta(x, b).huerfana = b
      BY AvisosEs
    <2> QED
      BY <2>1, <2>2
  <1> HIDE DEF a
  <1>4. /\ avisos' \in [Pasos -> Avisos] /\ avisos'[Paso] = a
        /\ \A t \in Pasos \ {Paso} : avisos'[t] = avisos[t]
    BY <1>1, <1>2, <1>3
  <1> QED
    BY <1>1, <1>3, <1>4, AdquirirEs

LEMMA TipoPaso == TypeOK /\ Ubicado /\ [Next]_vars => TypeOK'
  <1> SUFFICES ASSUME TypeOK, Ubicado, [Next]_vars PROVE TypeOK'
    OBVIOUS
  <1>0. /\ TablaTypeOK /\ CerrojosTypeOK /\ pasoDe \in [Ids -> Pasos] /\ cierre \in Curso
        /\ res \in [Pasos -> Resultados \union {"sin"}] /\ avisos \in [Pasos -> Avisos]
        /\ averias \in 0 .. MaxAverias /\ caidas \in 0 .. MaxCaidas
        /\ SinResultado \in [Pasos -> Resultados \union {"sin"}]
        /\ Resultados = {"ok", "skipped", "error", "skipped_por_dependencia"}
    BY DEF TypeOK, SinResultado, Resultados
  <1>1. CASE Empezar
    BY <1>0, <1>1, VaciosEs DEF Empezar, TypeOK, Vacia, TablaTypeOK, CerrojosTypeOK
  <1>2. CASE Encolar
    BY <1>0, <1>2, EncolarEs DEF Encolar, TypeOK, CerrojosTypeOK
  <1>3. CASE Encolado
    BY <1>0, <1>3, EncoladoEs DEF Encolado, TypeOK, TablaTypeOK, CerrojosTypeOK
  <1>4. CASE ColaNoDisponible
    BY <1>0, <1>4, ColaEs, VaciosEs DEF ColaNoDisponible, TypeOK, Vacia, CerrojosTypeOK
  <1>5. CASE Reclamo
    BY <1>0, <1>5, ReclamoEs DEF Reclamo, TypeOK, Queda, CerrojosTypeOK
  <1>6. CASE Descartar
    BY <1>0, <1>6, DescartarEs DEF Descartar, TypeOK, Queda, Cerrada, CerrojosTypeOK
  <1>7. CASE PasoEnLinea \/ Correr \/ Acabar
    BY <1>0, <1>7, FasesEs
    DEF PasoEnLinea, Correr, Acabar, Cambia, TypeOK, Queda, TablaTypeOK, CerrojosTypeOK
  <1>8. CASE Saltar
    <2>1. res' \in [Pasos -> Resultados \union {"sin"}]
      BY <1>0, <1>8, SaltarEs
    <2> QED
      BY <1>0, <1>8, <2>1, SaltarEs DEF Saltar, TypeOK, Queda, Avanza, CerrojosTypeOK
  <1>9. CASE Latir
    <2>1. cierre.job \in Ids
      BY <1>9 DEF Latir, Ubicado, EnUnPaso
    <2>2. TablaTypeOK'
      BY <1>9, <2>1, RenovarEs DEF Latir
    <2> QED
      BY <1>0, <1>9, <2>2 DEF Latir, TypeOK, CerrojosTypeOK
  <1>10. ASSUME NEW r \in {"ok", "skipped", "error"}, PasoTermina(r) PROVE TypeOK'
    <2>1. Paso \in Pasos
      BY <1>10, PasoEs DEF PasoTermina, EnUnPaso
    <2>2. res' \in [Pasos -> Resultados \union {"sin"}]
      BY <1>0, <1>10 DEF PasoTermina
    <2>3. avisos' \in [Pasos -> Avisos]
      <3>1. avisos' = avisos \/ avisos' = [avisos EXCEPT ![Paso] = Recuperado(avisos[Paso])]
        BY <1>10 DEF PasoTermina
      <3>2. Recuperado(avisos[Paso]) \in Avisos
        BY <1>0, <2>1, AvisosEs
      <3> QED
        BY <1>0, <3>1, <3>2
    <2>4. Cambia("anotar")
      BY <1>10, FasesEs
    <2> QED
      BY <1>0, <1>10, <2>2, <2>3, <2>4
      DEF PasoTermina, Cambia, TypeOK, Queda, TablaTypeOK, CerrojosTypeOK
  <1>11. CASE Anotar
    BY <1>0, <1>11, AnotarEs DEF Anotar, TypeOK, Cambia, Queda, Avanza, CerrojosTypeOK
  <1>12. CASE Avisar
    <2>1. cierre' \in Curso /\ Paso \in Pasos /\ averias' \in 0 .. MaxAverias
      BY <1>12, AvisarEs DEF Cambia, Queda
    <2>2. CerrojosTypeOK' /\ avisos' \in [Pasos -> Avisos]
      BY <1>0, <1>12, <2>1, AvisarEs, AbrirEs DEF CerrojosTypeOK
    <2> QED
      BY <1>0, <1>12, <2>1, <2>2 DEF Avisar, TypeOK, TablaTypeOK
  <1>13. CASE Enviado \/ NoEnviado
    <2>1. cierre' \in Curso /\ Paso \in Pasos /\ averias' \in 0 .. MaxAverias
      BY <1>13, EnvioEs DEF Queda, Avanza
    <2>2. CerrojosTypeOK'
      <3>1. cerrojos' = cerrojos \/ SoltarVarios({Paso}, Alertas)
        BY <1>13 DEF Enviado, NoEnviado, SoltarVentana, Soltar
      <3> QED
        BY <1>0, <2>1, <3>1, SoltarEs DEF CerrojosTypeOK
    <2>3. avisos' \in [Pasos -> Avisos]
      <3>1. \/ avisos' = avisos
            \/ avisos' = [avisos EXCEPT ![Paso] = [avisos[Paso] EXCEPT !.avisado = TRUE]]
            \/ avisos' = [avisos EXCEPT ![Paso] = [avisos[Paso] EXCEPT !.porCerrar = TRUE]]
        BY <1>0, <1>13 DEF Enviado, NoEnviado
      <3>2. /\ [avisos[Paso] EXCEPT !.avisado = TRUE] \in Avisos
            /\ [avisos[Paso] EXCEPT !.porCerrar = TRUE] \in Avisos
        BY <1>0, <2>1, AvisosEs
      <3> QED
        BY <1>0, <3>1, <3>2
    <2> QED
      BY <1>0, <1>13, <2>1, <2>2, <2>3 DEF Enviado, NoEnviado, TypeOK, TablaTypeOK
  <1>14. CASE CerrarVentanas
    <2>1. CerrojosTypeOK'
      <3>1. cerrojos' = cerrojos \/ SoltarVarios(Recuperados, Alertas)
        BY <1>14 DEF CerrarVentanas
      <3>2. Recuperados \in SUBSET Pasos
        BY DEF Recuperados
      <3> QED
        BY <1>0, <3>1, <3>2, SoltarEs DEF CerrojosTypeOK
    <2>2. avisos' \in [Pasos -> Avisos]
      <3>1. \/ avisos' = avisos
            \/ avisos' = [s \in Pasos |->
                 [avisos[s] EXCEPT !.porCerrar = avisos[s].porCerrar /\ res[s] # "ok"]]
        BY <1>14 DEF CerrarVentanas
      <3>2. ASSUME NEW s \in Pasos
            PROVE [avisos[s] EXCEPT !.porCerrar = avisos[s].porCerrar /\ res[s] # "ok"] \in Avisos
        <4>1. avisos[s] \in Avisos /\ (avisos[s].porCerrar /\ res[s] # "ok") \in BOOLEAN
          BY <1>0 DEF Avisos
        <4> QED
          BY <4>1, AvisosEs
      <3> QED
        BY <1>0, <3>1, <3>2
    <2>3. averias' \in 0 .. MaxAverias
      BY <1>0, <1>14, CierreAssumption DEF CerrarVentanas, Falla
    <2> QED
      BY <1>0, <1>14, <2>1, <2>2, <2>3, VaciosEs
      DEF CerrarVentanas, TypeOK, TablaTypeOK, Vacia
  <1>15. CASE Morir
    <2>1. avisos' \in [Pasos -> Avisos]
      <3>1. CASE cierre.fase = "enviar"
        <4>1. Paso \in Pasos
          BY <3>1, PasoEs DEF EnUnPaso
        <4>2. avisos' = [avisos EXCEPT ![Paso] = [avisos[Paso] EXCEPT !.porCerrar = TRUE]]
          BY <1>0, <1>15, <3>1, <4>1 DEF Morir
        <4>3. [avisos[Paso] EXCEPT !.porCerrar = TRUE] \in Avisos
          BY <1>0, <4>1, AvisosEs
        <4> QED
          BY <1>0, <4>2, <4>3
      <3>2. CASE cierre.fase # "enviar"
        BY <1>0, <1>15, <3>2 DEF Morir
      <3> QED
        BY <3>1, <3>2
    <2>2. caidas' \in 0 .. MaxCaidas
      BY <1>0, <1>15, CierreAssumption DEF Morir
    <2> QED
      BY <1>0, <1>15, <2>1, <2>2, VaciosEs DEF Morir, TypeOK, TablaTypeOK, Vacia, CerrojosTypeOK
  <1>16. CASE Barrer
    BY <1>0, <1>16, BarrerEs DEF Barrer, TypeOK, CerrojosTypeOK
  <1>17. CASE Tiempo
    BY <1>0, <1>17, PasaElTiempoEs, EnvejecenEs DEF Tiempo, TypeOK
  <1>18. CASE UNCHANGED vars
    BY <1>0, <1>18 DEF vars, TypeOK, TablaTypeOK, CerrojosTypeOK
  <1>19. CASE Callar
    BY <1>0, <1>19, CallarEs DEF Callar, Avanza, Queda, TypeOK, TablaTypeOK, CerrojosTypeOK
  <1> QED
    BY <1>1, <1>2, <1>3, <1>4, <1>5, <1>6, <1>7, <1>8, <1>9, <1>10, <1>11, <1>12, <1>13,
       <1>14, <1>15, <1>16, <1>17, <1>18, <1>19 DEF Next

LEMMA UbicadoPaso == TypeOK /\ Ubicado /\ [Next]_vars => Ubicado'
  <1> SUFFICES ASSUME TypeOK, Ubicado, [Next]_vars PROVE Ubicado'
    OBVIOUS
  <1> USE DEF EnUnPaso
  <1>0. /\ cierre.paso \in 1 .. N + 1 /\ cierre.linea \in BOOLEAN /\ cierre.ventana \in BOOLEAN
        /\ N \in Nat /\ N > 0
    BY OrdenEs DEF TypeOK, Curso
  <1>1. CASE Empezar \/ ColaNoDisponible \/ CerrarVentanas \/ Morir
    BY <1>0, <1>1, VaciosEs DEF Vacia, Ubicado
  <1>2. CASE Encolar
    BY <1>0, <1>2, EncolarEs DEF Ubicado
  <1>3. CASE Encolado
    BY <1>0, <1>3, EncoladoEs DEF Ubicado
  <1>4. CASE Reclamo
    BY <1>0, <1>4, ReclamoEs DEF Ubicado, Queda
  <1>5. CASE Descartar
    BY <1>0, <1>5, DescartarEs DEF Ubicado, Queda
  <1>6. CASE PasoEnLinea
    BY <1>0, <1>6, FasesEs DEF Ubicado, Queda, Cambia, PasoEnLinea
  <1>7. CASE Correr
    BY <1>0, <1>7, FasesEs DEF Ubicado, Queda, Cambia, Correr
  <1>8. ASSUME NEW r, PasoTermina(r) PROVE Ubicado'
    BY <1>0, <1>8, FasesEs DEF Ubicado, Queda, Cambia, PasoTermina
  <1>9. CASE Acabar
    BY <1>0, <1>9, FasesEs DEF Ubicado, Queda, Cambia, Acabar
  <1>10. ASSUME Avanza, cierre.fase \in EnUnPaso PROVE Ubicado'
    BY <1>0, <1>10 DEF Ubicado, Queda, Avanza
  <1>11. CASE Saltar
    BY <1>10, <1>11, SaltarEs
  <1>12. CASE Anotar
    BY <1>0, <1>10, <1>12, AnotarEs DEF Ubicado, Queda, Cambia
  <1>13. CASE Avisar
    BY <1>0, <1>13, AvisarEs DEF Ubicado, Queda, Cambia
  <1>14. CASE Callar \/ Enviado \/ NoEnviado
    BY <1>10, <1>14, CallarEs, EnvioEs
  <1>15. CASE Latir \/ Barrer \/ Tiempo \/ UNCHANGED vars
    BY <1>15 DEF Latir, Barrer, Tiempo, vars, Ubicado
  <1> QED
    BY <1>1, <1>2, <1>3, <1>4, <1>5, <1>6, <1>7, <1>8, <1>9, <1>11, <1>12, <1>13,
       <1>14, <1>15 DEF Next

(* The turns. *)
LEMMA TurnosFila ==
    ASSUME TypeOK, Turnos, NEW j \in Ids, TablaTypeOK', Otras(j),
           \/ Existe(j) /\ jobs'[j].estado \in Terminales /\ jobs'[j].espera = 0
           \/ Pendiente(j) /\ jobs'[j].estado = "running" /\ jobs'[j].espera = jobs[j].espera
           \/ /\ ~Existe(j) /\ \A i \in Ids : i < j => Existe(i)
              /\ jobs'[j].estado = "pending" /\ jobs'[j].espera = jobs[j].espera
    PROVE  Turnos'
  <1>0. \A k \in Ids : /\ jobs[k].espera \in Int /\ jobs'[k].espera \in Int /\ k \in Int
                       /\ jobs[k].estado \in Estados
    BY DEF TypeOK, TablaTypeOK, Fila, Ids
  <1>1. CASE Existe(j) /\ jobs'[j].estado \in Terminales /\ jobs'[j].espera = 0
    BY <1>0, <1>1 DEF Turnos, Otras, Existe, Activos, Terminales
  <1>2. CASE Pendiente(j) /\ jobs'[j].estado = "running" /\ jobs'[j].espera = jobs[j].espera
    BY <1>0, <1>2 DEF Turnos, Otras, Existe, Pendiente, Activos
  <1>3. CASE /\ ~Existe(j) /\ \A i \in Ids : i < j => Existe(i)
             /\ jobs'[j].estado = "pending" /\ jobs'[j].espera = jobs[j].espera
    <2>1. \A k \in Ids : k > j => ~Existe(k)
      BY <1>0, <1>3 DEF Turnos
    <2>2. jobs'[j].espera = 0
      BY <1>3 DEF Turnos
    <2> QED
      BY <1>0, <1>3, <2>1, <2>2 DEF Turnos, Otras, Existe, Activos
  <1> QED
    BY <1>1, <1>2, <1>3

LEMMA TurnosPaso == TypeOK /\ Ubicado /\ EnMano /\ Turnos /\ [Next]_vars => Turnos'
  <1> SUFFICES ASSUME TypeOK, Ubicado, EnMano, Turnos, [Next]_vars PROVE Turnos'
    OBVIOUS
  <1>0. \A k \in Ids : jobs[k].espera \in Int /\ k \in Int /\ jobs[k].estado \in Estados
    BY DEF TypeOK, TablaTypeOK, Fila, Ids
  <1>1. CASE Encolar \/ (ColaNoDisponible /\ jobs' # jobs)
    BY <1>1, EncolarEs, ColaEs, TurnosFila
  <1>2. CASE Reclamo
    BY <1>2, ReclamoEs, TurnosFila
  <1>3. ASSUME jobs' = jobs PROVE Turnos'
    BY <1>3 DEF Turnos, Existe
  <1>4. ASSUME Cerrada(cierre.job), cierre.job \in Ids, Existe(cierre.job) PROVE Turnos'
    BY <1>4, TurnosFila DEF Cerrada
  <1>5. CASE Latir
    <2>1. cierre.job \in Ids
      BY <1>5 DEF Latir, Ubicado, EnUnPaso
    <2>2. \A k \in Ids : /\ jobs'[k].estado = jobs[k].estado
                         /\ jobs'[k].espera = jobs[k].espera
      BY <1>5, <2>1, RenovarEs DEF Latir
    <2> QED
      BY <2>2 DEF Turnos, Existe
  <1>6. CASE Barrer
    <2>1. \A k \in Ids :
             \/ jobs'[k] = jobs[k]
             \/ /\ jobs[k].estado = "running" /\ jobs'[k].estado = "failed"
                /\ jobs'[k].espera = 0
             \/ /\ jobs[k].estado = "running" /\ jobs'[k].estado = "pending"
                /\ jobs'[k].espera = jobs[k].espera
      BY <1>6, BarrerEs DEF Barrer
    <2>2. \A k \in Ids : /\ jobs'[k].espera <= 0 /\ (Existe(k)' <=> Existe(k))
                         /\ Existe(k) \/ jobs'[k] = jobs[k]
                         /\ jobs'[k].estado \in Activos =>
                              /\ jobs[k].estado \in Activos
                              /\ jobs'[k].espera = jobs[k].espera
      BY <1>0, <2>1 DEF Turnos, Existe, Activos
    <2> QED
      BY <1>0, <2>2 DEF Turnos, Existe
  <1>7. CASE Tiempo
    <2>1. \A k \in Ids :
             /\ jobs'[k].estado = jobs[k].estado
             /\ jobs'[k].espera =
                  IF jobs[k].estado \in Activos /\ jobs[k].espera > -Horizonte
                  THEN jobs[k].espera - 1 ELSE jobs[k].espera
      BY <1>7, PasaElTiempoEs DEF Tiempo
    <2>2. Horizonte \in Nat
      BY TablaAssumption
    <2> QED
      BY <1>0, <2>1, <2>2 DEF Turnos, Existe, Activos
  <1>8. CASE Descartar
    BY <1>4, <1>8, DescartarEs DEF EnMano
  <1>9. CASE Saltar \/ Anotar
    <2>1. IF cierre.linea THEN jobs' = jobs ELSE Cerrada(cierre.job)
      BY <1>9, SaltarEs, AnotarEs
    <2>2. ~cierre.linea => cierre.job \in Ids
      BY <1>9, PasoEs DEF Saltar, Anotar, EnUnPaso
    <2> QED
      BY <1>3, <1>4, <2>1, <2>2 DEF EnMano
  <1>10. ASSUME NEW r, PasoTermina(r) PROVE Turnos'
    BY <1>3, <1>10 DEF PasoTermina
  <1>11. CASE \/ ColaNoDisponible /\ jobs' = jobs
              \/ Empezar \/ Encolado \/ PasoEnLinea \/ Correr
              \/ Callar \/ Avisar \/ Enviado \/ NoEnviado \/ Acabar \/ CerrarVentanas \/ Morir
              \/ UNCHANGED vars
    <2>1. jobs' = jobs
      BY <1>11 DEF Empezar, Encolado, PasoEnLinea, Correr, Callar, Avisar,
                   Enviado, NoEnviado, Acabar, CerrarVentanas, Morir, vars
    <2> QED
      BY <1>3, <2>1
  <1> QED
    BY <1>1, <1>2, <1>5, <1>6, <1>7, <1>8, <1>9, <1>10, <1>11 DEF Next

-----------------------------------------------------------------------------
(* The only changes of state of a row. *)
LEMMA EstadoPaso ==
    ASSUME TypeOK, Ubicado, [Next]_vars, NEW k \in Ids
    PROVE  \/ jobs'[k].estado = jobs[k].estado
           \/ (Encolar \/ ColaNoDisponible) /\ ~Existe(k) /\ jobs'[k].estado = "pending"
           \/ Reclamo /\ Pendiente(k) /\ jobs'[k].estado = "running" /\ k = cierre'.job
           \/ /\ Descartar \/ Saltar \/ Anotar
              /\ ~cierre.linea /\ k = cierre.job /\ jobs'[k].estado \in Terminales
           \/ Barrer /\ jobs[k].estado = "running" /\ jobs'[k].estado \in {"pending", "failed"}
  <1> DEFINE P == \/ jobs'[k].estado = jobs[k].estado
                  \/ /\ Encolar \/ ColaNoDisponible
                     /\ ~Existe(k) /\ jobs'[k].estado = "pending"
                  \/ /\ Reclamo /\ Pendiente(k) /\ jobs'[k].estado = "running"
                     /\ k = cierre'.job
                  \/ /\ Descartar \/ Saltar \/ Anotar
                     /\ ~cierre.linea /\ k = cierre.job /\ jobs'[k].estado \in Terminales
                  \/ /\ Barrer /\ jobs[k].estado = "running"
                     /\ jobs'[k].estado \in {"pending", "failed"}
  <1>1. CASE Encolar
    BY <1>1, EncolarEs DEF Otras
  <1>11. CASE ColaNoDisponible
    BY <1>11, ColaEs DEF Otras
  <1>2. CASE Reclamo
    BY <1>2, ReclamoEs DEF Otras, Queda
  <1>3. CASE Descartar
    BY <1>3, DescartarEs DEF Otras, Cerrada
  <1>4. CASE Saltar
    BY <1>4, SaltarEs DEF Otras, Cerrada
  <1>5. CASE Anotar
    BY <1>5, AnotarEs DEF Otras, Cerrada
  <1>6. CASE Latir
    <2>1. cierre.job \in Ids
      BY <1>6 DEF Latir, Ubicado, EnUnPaso
    <2> QED
      BY <1>6, <2>1, RenovarEs DEF Latir
  <1>7. CASE Barrer
    <2>1. ReclamarCaducados
      BY <1>7 DEF Barrer
    <2>2. \/ jobs'[k] = jobs[k]
          \/ jobs[k].estado = "running" /\ jobs'[k].estado = "failed"
          \/ jobs[k].estado = "running" /\ jobs'[k].estado = "pending"
      BY <2>1, BarrerEs
    <2> QED
      BY <1>7, <2>2
  <1>8. CASE Tiempo
    BY <1>8, PasaElTiempoEs DEF Tiempo
  <1>9. ASSUME NEW r, PasoTermina(r) PROVE P
    BY <1>9 DEF PasoTermina
  <1>10. CASE \/ Empezar \/ Encolado \/ PasoEnLinea \/ Correr
              \/ Callar \/ Avisar \/ Enviado \/ NoEnviado \/ Acabar \/ CerrarVentanas \/ Morir
              \/ UNCHANGED vars
    <2>1. jobs' = jobs
      BY <1>10 DEF Empezar, Encolado, PasoEnLinea, Correr, Callar, Avisar,
                   Enviado, NoEnviado, Acabar, CerrarVentanas, Morir, vars
    <2> QED
      BY <2>1
  <1> HIDE DEF P
  <1>12. P
    BY <1>1, <1>2, <1>3, <1>4, <1>5, <1>6, <1>7, <1>8, <1>9, <1>10, <1>11 DEF Next, P
  <1> QED
    BY <1>12 DEF P

LEMMA ExistenPaso ==
    ASSUME TypeOK, Ubicado, [Next]_vars, NEW k \in Ids, Existe(k)
    PROVE  Existe(k)' /\ (Terminal(k) => Terminal(k)')
  BY EstadoPaso DEF Existe, Terminal, Terminales, Pendiente, Ubicado, EnUnPaso

LEMMA EnManoPaso == TypeOK /\ Ubicado /\ EnMano /\ [Next]_vars => EnMano'
  <1> SUFFICES ASSUME TypeOK, Ubicado, EnMano, [Next]_vars PROVE EnMano'
    OBVIOUS
  <1>0. 0 \notin Ids
    BY DEF Ids
  <1>1. ASSUME cierre'.job = cierre.job \/ cierre'.job = 0 PROVE EnMano'
    <2>1. cierre.job \in Ids => Existe(cierre.job)
      BY DEF EnMano
    <2>2. cierre.job \in Ids => jobs'[cierre.job].estado # "ausente"
      BY <2>1, ExistenPaso DEF Existe
    <2> QED
      BY <1>0, <1>1, <2>2 DEF EnMano, Existe
  <1>2. CASE Reclamo
    BY <1>2, ReclamoEs DEF EnMano, Existe, Queda
  <1>3. CASE Empezar \/ ColaNoDisponible \/ CerrarVentanas \/ Morir
    BY <1>1, <1>3, VaciosEs DEF Vacia
  <1>4. CASE Encolar \/ Encolado
    BY <1>1, <1>4, EncolarEs, EncoladoEs
  <1>5. CASE Descartar \/ Saltar \/ Anotar \/ Callar \/ Avisar \/ Enviado \/ NoEnviado
    BY <1>1, <1>5, DescartarEs, SaltarEs, AnotarEs, CallarEs, AvisarEs, EnvioEs
    DEF Queda, Avanza, Cambia
  <1>6. CASE PasoEnLinea \/ Correr \/ Acabar
    BY <1>1, <1>6, FasesEs DEF Queda, Cambia
  <1>7. ASSUME NEW r, PasoTermina(r) PROVE EnMano'
    BY <1>1, <1>7, FasesEs DEF Queda, Cambia
  <1>8. CASE Latir \/ Barrer \/ Tiempo \/ UNCHANGED vars
    BY <1>1, <1>8 DEF Latir, Barrer, Tiempo, vars
  <1> QED
    BY <1>2, <1>3, <1>4, <1>5, <1>6, <1>7, <1>8 DEF Next

(* A step inside the loop, or in line: the jobs of the closing are those    *)
(* they were.                                                               *)
Dentro ==
    /\ cierre'.mios = cierre.mios /\ cierre'.restos = cierre.restos
    /\ cierre'.linea = cierre.linea /\ pasoDe' = pasoDe
    /\ ~cierre.linea => cierre'.paso = cierre.paso
    /\ cierre.fase = "libre" <=> cierre'.fase = "libre"
    /\ cierre.fase = "encolar" <=> cierre'.fase = "encolar"

LEMMA DentroPaso ==
    ASSUME TypeOK, Ubicado, [Next]_vars
    PROVE  \/ Empezar \/ ColaNoDisponible \/ CerrarVentanas \/ Morir
           \/ Encolar \/ Encolado \/ Dentro
  <1>1. CASE Reclamo
    BY <1>1, ReclamoEs DEF Reclamo, Queda, Dentro
  <1>2. CASE Descartar
    BY <1>2, DescartarEs DEF Descartar, Queda, Dentro
  <1>3. CASE Saltar
    BY <1>3, SaltarEs DEF Saltar, Queda, Avanza, Dentro
  <1>4. CASE Anotar
    BY <1>4, AnotarEs DEF Anotar, Queda, Avanza, Cambia, Dentro
  <1>5. CASE Callar \/ Avisar
    BY <1>5, CallarEs, AvisarEs DEF Callar, Avisar, Queda, Avanza, Cambia, Dentro
  <1>6. CASE Enviado \/ NoEnviado
    BY <1>6, EnvioEs DEF Enviado, NoEnviado, Queda, Avanza, Dentro
  <1>7. CASE PasoEnLinea \/ Correr \/ Acabar
    BY <1>7, FasesEs DEF PasoEnLinea, Correr, Acabar, Queda, Cambia, Dentro
  <1>8. ASSUME NEW r, PasoTermina(r) PROVE Dentro
    BY <1>8, FasesEs DEF PasoTermina, Queda, Cambia, Dentro
  <1>9. CASE Latir \/ Barrer \/ Tiempo \/ UNCHANGED vars
    BY <1>9 DEF Latir, Barrer, Tiempo, vars, Dentro
  <1> QED
    BY <1>1, <1>2, <1>3, <1>4, <1>5, <1>6, <1>7, <1>8, <1>9 DEF Next

LEMMA PropiosPaso == TypeOK /\ Ubicado /\ Turnos /\ Propios /\ [Next]_vars => Propios'
  <1> SUFFICES ASSUME TypeOK, Ubicado, Turnos, Propios, [Next]_vars PROVE Propios'
    OBVIOUS
  <1>0. /\ cierre.mios \subseteq Ids /\ pasoDe \in [Ids -> Pasos]
        /\ cierre.paso \in 1 .. N + 1 /\ N \in Nat
        /\ \A s \in Pasos : Lugar(s) \in 1 .. N
        /\ \A j \in cierre.mios : Existe(j)
    BY LugarEs, OrdenEs DEF TypeOK, Curso, Propios
  <1>1. \A j \in cierre.mios : jobs'[j].estado # "ausente"
    BY <1>0, ExistenPaso DEF Existe
  <1>2. CASE Empezar \/ ColaNoDisponible \/ CerrarVentanas \/ Morir
    <2>1. cierre'.mios = {} /\ cierre'.restos = {} /\ cierre'.paso = 1
      BY <1>2, VaciosEs DEF Vacia
    <2>2. \A s \in Pasos : ~(Lugar(s) < 1)
      BY <1>0
    <2> QED
      BY <2>1, <2>2 DEF Propios
  <1>3. CASE Encolar
    <2>1. PICK j \in Ids :
             /\ Otras(j) /\ ~Existe(j) /\ \A i \in Ids : i < j => Existe(i)
             /\ jobs'[j].estado = "pending"
             /\ cierre'.mios = cierre.mios \union {j}
             /\ pasoDe'[j] = Orden[cierre.paso]
             /\ \A k \in Ids \ {j} : pasoDe'[k] = pasoDe[k]
      BY <1>3, EncolarEs
    <2>2. /\ cierre.fase = "encolar" /\ cierre'.fase = "encolar" /\ cierre.paso \in 1 .. N
          /\ cierre'.paso = cierre.paso + 1 /\ cierre'.linea = cierre.linea /\ ~cierre.linea
          /\ cierre'.restos = cierre.restos
      BY <1>3, EncolarEs DEF Ubicado
    <2>3. Lugar(pasoDe'[j]) = cierre.paso /\ j \notin cierre.mios
      BY <1>0, <2>1, <2>2, LugarEs
    <2>4. \A k \in cierre.mios : pasoDe'[k] = pasoDe[k] /\ pasoDe[k] \in Pasos
      BY <1>0, <2>1, <2>3
    <2>5. \A k \in cierre.mios : Lugar(pasoDe'[k]) < cierre.paso
      BY <2>4 DEF Propios
    <2>6. \A k \in cierre.mios : k < j
      <3>1. \A k \in Ids : k \in Int
        BY DEF Ids
      <3>2. \A k \in cierre.mios : k \in Ids /\ k # j /\ ~(j < k)
        BY <1>0, <2>1, <2>3 DEF Turnos
      <3> QED
        BY <3>1, <3>2
    <2>7. \A k \in cierre'.mios : jobs'[k].estado # "ausente" /\ Lugar(pasoDe'[k]) < cierre'.paso
      BY <1>0, <1>1, <2>1, <2>2, <2>3, <2>4, <2>5
    <2>8. \A i, k \in cierre'.mios : i < k => Lugar(pasoDe'[i]) < Lugar(pasoDe'[k])
      <3>1. \A i, k \in cierre.mios : i < k => Lugar(pasoDe'[i]) < Lugar(pasoDe'[k])
        BY <2>4 DEF Propios
      <3>2. \A i \in cierre.mios : i \in Int /\ i < j
        BY <1>0, <2>6 DEF Ids
      <3>3. j \in Int
        BY DEF Ids
      <3> QED
        BY <2>1, <2>3, <2>5, <3>1, <3>2, <3>3
    <2>9. ASSUME NEW s \in Pasos, Lugar(s) < cierre'.paso
          PROVE  \E k \in cierre'.mios : pasoDe'[k] = s
      <3>1. CASE Lugar(s) < cierre.paso
        <4>1. PICK k \in cierre.mios : pasoDe[k] = s
          BY <2>2, <3>1 DEF Propios
        <4> QED
          BY <2>1, <2>4, <4>1
      <3>2. CASE ~(Lugar(s) < cierre.paso)
        <4>1. Lugar(s) = cierre.paso
          BY <1>0, <2>2, <2>9, <3>2
        <4>2. s = pasoDe'[j]
          BY <2>1, <4>1, LugarEs
        <4> QED
          BY <2>1, <4>2
      <3> QED
        BY <3>1, <3>2
    <2>10. cierre'.restos = {}
      BY <2>2 DEF Propios
    <2>11. ASSUME NEW r \in Ids \ cierre'.mios, jobs'[r].estado # "ausente"
           PROVE  \A k \in cierre'.mios : r < k
      <3>1. r # j /\ r \notin cierre.mios /\ Existe(r) /\ r \in Int /\ j \in Int
        BY <2>1, <2>11 DEF Otras, Existe, Ids
      <3>2. ~(j < r)
        BY <2>1, <3>1 DEF Turnos
      <3>3. \A k \in cierre.mios : r < k
        BY <2>2, <3>1 DEF Propios
      <3> QED
        BY <2>1, <3>1, <3>2, <3>3
    <2> QED
      BY <2>2, <2>7, <2>8, <2>9, <2>10, <2>11 DEF Propios, Existe
  <1>4. CASE Encolado
    BY <1>0, <1>1, <1>4, EncoladoEs DEF Propios, Encolado, Ubicado, Existe
  <1>5. CASE Dentro
    <2>1. CASE cierre.linea \/ cierre.fase = "libre"
      <3>1. cierre'.mios = {} /\ cierre'.restos = {}
        BY <1>5, <2>1 DEF Propios, Dentro
      <3> QED
        BY <1>5, <2>1, <3>1 DEF Propios, Dentro
    <2>2. CASE ~(cierre.linea \/ cierre.fase = "libre")
      <3>1. cierre.fase = "encolar" => \A r \in Ids : Existe(r)' => Existe(r)
        <4>1. ASSUME cierre.fase = "encolar", NEW r \in Ids, ~Existe(r)
              PROVE  ~Existe(r)'
          <5>1. cierre.job = 0 /\ r # 0
            BY <1>5, <4>1 DEF Ubicado, EnUnPaso, Ids
          <5>2. ~Encolar /\ ~ColaNoDisponible
            <6>1. cierre'.paso = cierre.paso /\ cierre'.fase = "encolar"
              BY <1>5, <2>2, <4>1 DEF Dentro
            <6> QED
              BY <1>0, <6>1, EncolarEs, VaciosEs DEF Vacia
          <5> QED
            BY <4>1, <5>1, <5>2, EstadoPaso DEF Existe, Pendiente
        <4> QED
          BY <4>1
      <3> QED
        BY <1>1, <1>5, <2>2, <3>1 DEF Propios, Dentro, Existe
    <2> QED
      BY <2>1, <2>2
  <1> QED
    BY <1>2, <1>3, <1>4, <1>5, DentroPaso

-----------------------------------------------------------------------------
(* The results. *)
LEMMA Distintos ==
    ASSUME TypeOK, Propios, NEW j \in cierre.mios, NEW k \in cierre.mios, j # k
    PROVE  pasoDe[j] # pasoDe[k]
  <1>1. j \in Int /\ k \in Int /\ j \in Ids /\ k \in Ids
    BY DEF TypeOK, Curso, Ids
  <1>2. /\ pasoDe[j] \in Pasos /\ pasoDe[k] \in Pasos
        /\ Lugar(pasoDe[j]) \in Int /\ Lugar(pasoDe[k]) \in Int
    BY <1>1, LugarEs DEF TypeOK
  <1>3. CASE j < k
    BY <1>2, <1>3 DEF Propios
  <1>4. CASE k < j
    BY <1>2, <1>4 DEF Propios
  <1> QED
    BY <1>1, <1>3, <1>4

(* The row claimed is the first that waits. *)
LEMMA ReclamaLaPrimera ==
    ASSUME TypeOK, Turnos, NEW j \in Ids, Reclamar(Cierra, Tipos, j), NEW k \in Ids, k < j
    PROVE  ~Pendiente(k)
  <1> SUFFICES ASSUME Pendiente(k) PROVE FALSE
    OBVIOUS
  <1>1. /\ jobs[k] \in Fila /\ jobs[j] \in Fila /\ j \in Int /\ k \in Int
        /\ jobs[j].espera \in Int /\ jobs[k].espera \in Int /\ jobs[k].tipo \in Tipos
    BY DEF TypeOK, TablaTypeOK, Fila, Ids
  <1>2. jobs[k].estado \in Activos /\ jobs[j].estado \in Activos /\ jobs[k].espera <= 0
    BY DEF Pendiente, Reclamar, Reclamables, Activos, Turnos
  <1>3. k \in Reclamables(Tipos) \ {j}
    BY <1>1, <1>2 DEF Reclamables, Pendiente
  <1>4. Antes(j, k)
    BY <1>3 DEF Reclamar
  <1>5. jobs[k].espera <= jobs[j].espera
    BY <1>2 DEF Turnos
  <1> QED
    BY <1>1, <1>4, <1>5 DEF Antes

LEMMA HechoIgual ==
    ASSUME NEW k, Hecho(k), pasoDe'[k] = pasoDe[k],
           res'[pasoDe[k]] = res[pasoDe[k]], jobs'[k].estado = jobs[k].estado
    PROVE  Hecho(k)'
  BY DEF Hecho, Pendiente, Terminal

LEMMA HechoNuevo ==
    ASSUME NEW k, res'[pasoDe'[k]] # "sin", jobs'[k].estado \in Terminales
    PROVE  Hecho(k)'
  BY DEF Hecho, Terminal

LEMMA HechosPaso ==
    ASSUME TypeOK, Ubicado, Turnos, Propios, Resultado, [Next]_vars
    PROVE  Hechos'
  <1>0. /\ cierre.mios \subseteq Ids /\ pasoDe \in [Ids -> Pasos] /\ 0 \notin Ids
        /\ res \in [Pasos -> Resultados \union {"sin"}]
    BY DEF TypeOK, Curso, Ids
  <1>1. CASE Empezar \/ ColaNoDisponible \/ CerrarVentanas \/ Morir
    <2>1. cierre'.mios = {}
      BY <1>1, VaciosEs DEF Vacia
    <2> QED
      BY <2>1 DEF Hechos
  <1>2. CASE Encolar
    <2>1. PICK j \in Ids :
             /\ Otras(j) /\ ~Existe(j) /\ jobs'[j].estado = "pending"
             /\ cierre'.mios = cierre.mios \union {j}
             /\ \A k \in Ids \ {j} : pasoDe'[k] = pasoDe[k]
      BY <1>2, EncolarEs
    <2>2. /\ cierre'.job = 0 /\ cierre.job = 0 /\ ~cierre.linea /\ res' = res
          /\ res = SinResultado /\ pasoDe' \in [Ids -> Pasos]
      BY <1>2, EncolarEs DEF Encolar, Ubicado, EnUnPaso, Resultado, Corrido
    <2>3. Hecho(j)'
      <3>1. res'[pasoDe'[j]] = "sin"
        BY <2>1, <2>2 DEF SinResultado
      <3> QED
        BY <2>1, <3>1 DEF Hecho, Pendiente
    <2>4. ASSUME NEW k \in cierre.mios PROVE Hecho(k)'
      <3>1. Hecho(k) /\ k # j /\ k \in Ids
        BY <1>0, <2>1, <2>2 DEF Resultado, Hechos, Propios
      <3> QED
        BY <2>1, <2>2, <3>1, HechoIgual DEF Otras
    <2> QED
      BY <2>1, <2>3, <2>4 DEF Hechos
  <1>3. CASE Encolado
    <2>1. /\ cierre'.mios = cierre.mios /\ cierre'.job = cierre.job
          /\ cierre'.linea = cierre.linea /\ jobs' = jobs /\ res' = res /\ pasoDe' = pasoDe
      BY <1>3, EncoladoEs DEF Encolado
    <2> QED
      BY <2>1 DEF Resultado, Hechos, Hecho, Pendiente, Terminal
  <1>4. CASE Dentro
    <2> SUFFICES ASSUME ~cierre.linea, NEW k \in cierre.mios, k # cierre'.job
                 PROVE  Hecho(k)'
      BY <1>4 DEF Hechos, Dentro
    <2>1. k # cierre.job => Hecho(k)
      BY DEF Resultado, Hechos
    <2>2. pasoDe'[k] = pasoDe[k] /\ pasoDe[k] \in Pasos /\ k \in Ids /\ k # 0
      BY <1>0, <1>4 DEF Dentro
    <2>3. ASSUME res' = res, k # cierre.job, jobs'[k].estado = jobs[k].estado
          PROVE  Hecho(k)'
      BY <2>1, <2>2, <2>3, HechoIgual
    <2>4. CASE Reclamo
      <3>1. k # cierre.job
        BY <2>2, <2>4, ReclamoEs DEF Ubicado, EnUnPaso
      <3>2. jobs'[k].estado = jobs[k].estado
        BY <2>2, <2>4, ReclamoEs DEF Queda, Otras
      <3> QED
        BY <2>3, <2>4, <3>1, <3>2 DEF Reclamo
    <2>5. CASE Descartar
      <3>1. k # cierre.job /\ jobs'[k].estado = jobs[k].estado
        BY <2>2, <2>5, DescartarEs DEF Cerrada, Otras
      <3> QED
        BY <2>3, <2>5, <3>1 DEF Descartar
    <2>6. CASE Saltar
      <3>1. /\ Paso = pasoDe[cierre.job] /\ cierre.job \in cierre.mios
            /\ res' = [res EXCEPT ![Paso] = "skipped_por_dependencia"]
            /\ Cerrada(cierre.job) /\ Paso \in Pasos
        BY <2>6, SaltarEs DEF EsMio, Paso
      <3>2. CASE k = cierre.job
        BY <1>0, <2>2, <3>1, <3>2, HechoNuevo DEF Cerrada
      <3>3. CASE k # cierre.job
        <4>1. pasoDe[k] # Paso
          BY <3>1, <3>3, Distintos
        <4>2. res'[pasoDe[k]] = res[pasoDe[k]]
          BY <1>0, <2>2, <3>1, <4>1
        <4> QED
          BY <2>1, <2>2, <3>1, <3>3, <4>2, HechoIgual DEF Cerrada, Otras
      <3> QED
        BY <3>2, <3>3
    <2>7. ASSUME NEW r, PasoTermina(r) PROVE Hecho(k)'
      <3>1. /\ cierre.fase = "corriendo" /\ jobs' = jobs /\ res' = [res EXCEPT ![Paso] = r]
            /\ cierre'.job = cierre.job /\ k # cierre.job
        BY <2>7, FasesEs DEF PasoTermina, Cambia, Queda
      <3>2. Paso = pasoDe[cierre.job] /\ cierre.job \in cierre.mios
        <4>1. cierre.job \in Ids
          BY <3>1 DEF Ubicado, EnUnPaso
        <4> QED
          BY <1>0, <3>1, <4>1 DEF Paso, Resultado, Corrido
      <3>3. pasoDe[k] # Paso
        BY <3>1, <3>2, Distintos
      <3>4. res'[pasoDe[k]] = res[pasoDe[k]]
        BY <1>0, <2>2, <3>1, <3>3
      <3> QED
        BY <2>1, <2>2, <3>1, <3>4, HechoIgual
    <2>8. ASSUME Avanza, res' = res, res[Paso] # "sin", k = cierre.job,
                 jobs'[cierre.job].estado \in Terminales
          PROVE  Hecho(k)'
      BY <2>2, <2>8, HechoNuevo DEF Paso
    <2>9. CASE Anotar
      <3>1. Cerrada(cierre.job) /\ res' = res /\ (Avanza \/ Cambia("avisar"))
        BY <2>9, AnotarEs DEF Anotar
      <3>2. CASE k = cierre.job
        <4>1. Avanza
          BY <3>1, <3>2 DEF Cambia, Queda
        <4>2. res[Paso] # "sin"
          BY <2>9, AnotarEs DEF Resultado, Corrido
        <4> QED
          BY <2>8, <3>1, <3>2, <4>1, <4>2 DEF Cerrada
      <3>3. CASE k # cierre.job
        BY <2>2, <2>3, <3>1, <3>3 DEF Cerrada, Otras
      <3> QED
        BY <3>2, <3>3
    <2>10. CASE Callar \/ Avisar \/ Enviado \/ NoEnviado
      <3>1. /\ cierre.fase \in {"avisar", "enviar"} /\ jobs' = jobs /\ res' = res
            /\ Avanza \/ Cambia("enviar")
        BY <2>10, CallarEs, AvisarEs, EnvioEs DEF Callar, Avisar, Enviado, NoEnviado
      <3>2. CASE k = cierre.job
        <4>1. Avanza
          BY <3>1, <3>2 DEF Cambia, Queda
        <4>2. res[Paso] # "sin" /\ jobs[cierre.job].estado \in Terminales
          BY <3>1 DEF Resultado, Corrido, Terminal
        <4> QED
          BY <2>8, <3>1, <3>2, <4>1, <4>2
      <3>3. CASE k # cierre.job
        BY <2>3, <3>1, <3>3
      <3> QED
        BY <3>2, <3>3
    <2>11. CASE PasoEnLinea \/ Correr \/ Acabar
      <3>1. cierre'.job = cierre.job /\ jobs' = jobs /\ res' = res
        BY <2>11, FasesEs DEF PasoEnLinea, Correr, Acabar, Cambia, Queda
      <3> QED
        BY <2>3, <3>1
    <2>12. CASE Latir \/ Tiempo \/ UNCHANGED vars \/ Barrer
      <3>1. cierre' = cierre /\ res' = res
        BY <2>12 DEF Latir, Barrer, Tiempo, vars
      <3>2. Hecho(k)
        BY <2>1, <3>1
      <3>3. jobs[k].estado # "running"
        BY <3>2 DEF Hecho, Pendiente, Terminal, Terminales
      <3>5. jobs'[k].estado = jobs[k].estado
        <4>1. \/ jobs'[k].estado = jobs[k].estado
              \/ (Encolar \/ ColaNoDisponible) /\ ~Existe(k)
              \/ Reclamo /\ Pendiente(k) /\ k = cierre'.job
              \/ (Descartar \/ Saltar \/ Anotar) /\ k = cierre.job
              \/ Barrer /\ jobs[k].estado = "running"
          BY <2>2, EstadoPaso
        <4> QED
          BY <3>1, <3>3, <4>1 DEF Propios
      <3> QED
        BY <2>3, <3>1, <3>5
    <2>13. ASSUME Empezar \/ ColaNoDisponible \/ CerrarVentanas \/ Morir \/ Encolar \/ Encolado
           PROVE  Hecho(k)'
      BY <1>1, <1>2, <1>3, <1>4, <2>13 DEF Hechos, Dentro
    <2> QED
      BY <2>4, <2>5, <2>6, <2>7, <2>9, <2>10, <2>11, <2>12, <2>13 DEF Next
  <1> QED
    BY <1>1, <1>2, <1>3, <1>4, DentroPaso

LEMMA EnTurnoPaso ==
    ASSUME TypeOK, Ubicado, Turnos, Propios, Resultado, [Next]_vars
    PROVE  EnTurno'
  <1>0. cierre.mios \subseteq Ids /\ 0 \notin Ids
    BY DEF TypeOK, Curso, Ids
  <1>1. ASSUME cierre'.fase \notin {"reclamado", "corriendo"} PROVE EnTurno'
    BY <1>1 DEF EnTurno
  <1>2. CASE Empezar \/ ColaNoDisponible \/ CerrarVentanas \/ Morir
    BY <1>1, <1>2, VaciosEs DEF Vacia
  <1>3. CASE Encolar \/ Encolado
    BY <1>1, <1>3, EncolarEs, EncoladoEs
  <1>4. CASE Descartar \/ Saltar \/ Anotar \/ Callar \/ Avisar \/ Enviado \/ NoEnviado
    BY <1>1, <1>4, DescartarEs, SaltarEs, AnotarEs, CallarEs, AvisarEs, EnvioEs
    DEF Queda, Cambia, Avanza
  <1>5. CASE Acabar
    BY <1>1, <1>5, FasesEs DEF Queda, Cambia
  <1>6. ASSUME NEW r, PasoTermina(r) PROVE EnTurno'
    BY <1>1, <1>6, FasesEs DEF Queda, Cambia
  <1>7. CASE PasoEnLinea
    <2>1. cierre'.job \notin cierre'.mios
      BY <1>0, <1>7, FasesEs DEF PasoEnLinea, Ubicado, Queda, Cambia
    <2> QED
      BY <2>1 DEF EnTurno
  <1>8. CASE Correr
    BY <1>8, FasesEs DEF Correr, Queda, Cambia, Resultado, EnTurno
  <1>9. CASE Reclamo
    <2>1. PICK j \in Ids : /\ Queda("reclamado", j, cierre.paso, cierre.vueltas + 1)
                           /\ Reclamar(Cierra, Tipos, j) /\ Pendiente(j)
      BY <1>9, ReclamoEs
    <2>2. res' = res /\ pasoDe' = pasoDe /\ cierre.job = 0 /\ ~cierre.linea
      BY <1>9 DEF Reclamo, Ubicado, EnUnPaso
    <2>3. \A k \in cierre.mios : Hecho(k)
      BY <1>0, <2>2 DEF Resultado, Hechos
    <2>4. j \in cierre.mios => res[pasoDe[j]] = "sin"
      BY <2>1, <2>3 DEF Hecho, Pendiente, Terminal, Terminales
    <2>5. \A k \in cierre.mios : k < j => ~Pendiente(k)
      BY <1>0, <2>1, ReclamaLaPrimera
    <2>6. \A k \in cierre.mios : k < j => res[pasoDe[k]] # "sin"
      BY <2>3, <2>5 DEF Hecho
    <2> QED
      BY <2>1, <2>2, <2>4, <2>6 DEF Queda, EnTurno
  <1>10. CASE Latir \/ Barrer \/ Tiempo \/ UNCHANGED vars
    BY <1>10 DEF Latir, Barrer, Tiempo, vars, Resultado, EnTurno
  <1> QED
    BY <1>2, <1>3, <1>4, <1>5, <1>6, <1>7, <1>8, <1>9, <1>10 DEF Next

LEMMA EnLineaPaso ==
    ASSUME TypeOK, Ubicado, Resultado, [Next]_vars
    PROVE  EnLinea'
  <1>0. /\ \A s \in Pasos : Lugar(s) \in 1 .. N
        /\ cierre.paso \in 1 .. N + 1 /\ N \in Nat
        /\ res \in [Pasos -> Resultados \union {"sin"}]
    BY LugarEs, OrdenEs DEF TypeOK, Curso
  <1>1. CASE Empezar \/ ColaNoDisponible \/ CerrarVentanas \/ Morir
    <2>1. cierre'.paso = 1
      BY <1>1, VaciosEs DEF Vacia
    <2>2. \A s \in Pasos : ~(Lugar(s) < 1)
      BY <1>0
    <2> QED
      BY <2>1, <2>2 DEF EnLinea
  <1>2. ASSUME ~cierre'.linea PROVE EnLinea'
    BY <1>2 DEF EnLinea
  <1>3. CASE Encolar \/ Encolado \/ Reclamo \/ Descartar
    BY <1>2, <1>3, EncolarEs, EncoladoEs, ReclamoEs, DescartarEs DEF Queda, Ubicado
  <1>4. ASSUME cierre'.paso = cierre.paso, cierre'.linea = cierre.linea,
               \A s \in Pasos : res[s] # "sin" => res'[s] # "sin"
        PROVE  EnLinea'
    BY <1>4 DEF EnLinea, Resultado
  <1>5. ASSUME Avanza, cierre.fase \in EnUnPaso, res'[Paso] # "sin",
               \A s \in Pasos : res[s] # "sin" => res'[s] # "sin"
        PROVE  EnLinea'
    <2>1. CASE ~cierre.linea
      BY <1>2, <1>5, <2>1 DEF Avanza, Queda
    <2>2. CASE cierre.linea
      <3>1. cierre'.paso = cierre.paso + 1 /\ cierre.paso \in 1 .. N /\ Paso = Orden[cierre.paso]
        BY <1>5, <2>2, PasoEs DEF Avanza, Queda
      <3>2. ASSUME NEW s \in Pasos, Lugar(s) < cierre'.paso PROVE res'[s] # "sin"
        <4>1. CASE Lugar(s) < cierre.paso
          BY <1>5, <2>2, <4>1 DEF Resultado, EnLinea
        <4>2. CASE ~(Lugar(s) < cierre.paso)
          <5>1. Lugar(s) = cierre.paso
            BY <1>0, <3>1, <3>2, <4>2
          <5>2. s = Paso
            BY <3>1, <5>1, LugarEs
          <5> QED
            BY <1>5, <5>2
        <4> QED
          BY <4>1, <4>2
      <3> QED
        BY <3>2 DEF EnLinea
    <2> QED
      BY <2>1, <2>2
  <1>6. CASE Saltar
    <2>1. Avanza /\ Paso \in Pasos /\ res' = [res EXCEPT ![Paso] = "skipped_por_dependencia"]
          /\ cierre.fase \in EnUnPaso
      BY <1>6, SaltarEs DEF EnUnPaso
    <2> QED
      BY <1>0, <1>5, <2>1
  <1>7. ASSUME NEW r \in {"ok", "skipped", "error"}, PasoTermina(r) PROVE EnLinea'
    <2>1. /\ cierre'.paso = cierre.paso /\ cierre'.linea = cierre.linea
          /\ res' = [res EXCEPT ![Paso] = r] /\ r # "sin"
      BY <1>7, FasesEs DEF PasoTermina, Cambia, Queda
    <2>2. \A s \in Pasos : res[s] # "sin" => res'[s] # "sin"
      BY <1>0, <2>1
    <2> QED
      BY <1>4, <2>1, <2>2
  <1>8. CASE Anotar \/ Callar \/ Avisar \/ Enviado \/ NoEnviado
    <2>1. /\ res' = res /\ res[Paso] # "sin" /\ cierre.fase \in EnUnPaso
          /\ Avanza \/ Cambia("avisar") \/ Cambia("enviar")
      BY <1>8, AnotarEs, CallarEs, AvisarEs, EnvioEs
      DEF Anotar, Callar, Avisar, Enviado, NoEnviado, Resultado, Corrido, EnUnPaso
    <2> QED
      BY <1>4, <1>5, <2>1 DEF Cambia, Queda
  <1>9. CASE PasoEnLinea \/ Correr \/ Acabar
    BY <1>4, <1>9, FasesEs DEF PasoEnLinea, Correr, Acabar, Cambia, Queda
  <1>10. CASE Latir \/ Barrer \/ Tiempo \/ UNCHANGED vars
    BY <1>4, <1>10 DEF Latir, Barrer, Tiempo, vars
  <1> QED
    BY <1>1, <1>3, <1>6, <1>7, <1>8, <1>9, <1>10 DEF Next

LEMMA CorridoPaso ==
    ASSUME TypeOK, Ubicado, Propios, Resultado, [Next]_vars
    PROVE  Corrido'
  <1>0. cierre.mios \subseteq Ids /\ 0 \notin Ids
        /\ res \in [Pasos -> Resultados \union {"sin"}]
    BY DEF TypeOK, Curso, Ids
  <1>1. CASE Empezar \/ ColaNoDisponible \/ CerrarVentanas \/ Morir
    BY <1>1, VaciosEs DEF Vacia, Corrido, Empezar, ColaNoDisponible, CerrarVentanas, Morir,
                          Resultado
  <1>2. CASE Encolar
    BY <1>2, EncolarEs DEF Corrido, Encolar, Resultado, Ubicado, EnUnPaso
  <1>3. CASE Encolado
    BY <1>3, EncoladoEs DEF Corrido, Ubicado, EnUnPaso
  <1>4. CASE Reclamo
    BY <1>4, ReclamoEs DEF Corrido, Queda
  <1>5. CASE Descartar
    BY <1>5, DescartarEs DEF Corrido, Queda
  <1>6. CASE PasoEnLinea
    BY <1>6, FasesEs DEF Corrido, Queda, Cambia
  <1>7. CASE Acabar
    BY <1>7, FasesEs DEF Acabar, Corrido, Queda, Cambia, Resultado
  <1>8. ASSUME Avanza PROVE Corrido'
    BY <1>8 DEF Avanza, Queda, Corrido
  <1>9. CASE Saltar \/ Enviado \/ NoEnviado
    BY <1>8, <1>9, SaltarEs, EnvioEs
  <1>10. CASE Correr
    <2>1. /\ cierre'.fase = "corriendo" /\ cierre'.job = cierre.job
          /\ cierre'.linea = cierre.linea /\ cierre'.paso = cierre.paso
          /\ cierre'.mios = cierre.mios /\ pasoDe' = pasoDe /\ res' = res
          /\ Incumplidas(Paso) = {} /\ EsMio /\ cierre.fase = "reclamado"
      BY <1>10, FasesEs DEF Correr, Cambia, Queda
    <2>2. Incumplidas(Paso)' = {}
      BY <2>1 DEF Incumplidas, Paso
    <2>3. cierre'.job = 0 \/ cierre'.job \in cierre'.mios
      BY <2>1 DEF EsMio, Ubicado
    <2> QED
      BY <2>1, <2>2, <2>3 DEF Corrido
  <1>11. ASSUME NEW r \in {"ok", "skipped", "error"}, PasoTermina(r) PROVE Corrido'
    <2>1. /\ cierre'.fase = "anotar" /\ cierre'.job = cierre.job
          /\ cierre'.linea = cierre.linea /\ cierre'.paso = cierre.paso
          /\ cierre'.mios = cierre.mios /\ pasoDe' = pasoDe /\ r # "sin"
          /\ res' = [res EXCEPT ![Paso] = r] /\ cierre.fase = "corriendo"
      BY <1>11, FasesEs DEF PasoTermina, Cambia, Queda
    <2>2. Paso \in Pasos
      BY <2>1, PasoEs DEF EnUnPaso
    <2>3. Paso' = Paso
      BY <2>1 DEF Paso
    <2>4. (res[Paso] # "sin")'
      BY <1>0, <2>1, <2>2, <2>3
    <2> QED
      BY <2>1, <2>4 DEF Corrido, Resultado
  <1>12. ASSUME Cambia("avisar") \/ Cambia("enviar"), res' = res, pasoDe' = pasoDe,
                cierre.fase \in {"anotar", "avisar"},
                ~cierre.linea => jobs'[cierre.job].estado \in Terminales
         PROVE  Corrido'
    <2>1. /\ cierre'.fase \in {"avisar", "enviar"} /\ cierre'.job = cierre.job
          /\ cierre'.linea = cierre.linea /\ cierre'.paso = cierre.paso
          /\ cierre'.mios = cierre.mios
      BY <1>12 DEF Cambia, Queda
    <2>2. Paso' = Paso
      BY <1>12, <2>1 DEF Paso
    <2>3. (res[Paso] # "sin")'
      BY <1>12, <2>2 DEF Resultado, Corrido
    <2> QED
      BY <1>12, <2>1, <2>3 DEF Corrido, Resultado, Terminal
  <1>13. CASE Anotar
    <2>1. /\ cierre.fase = "anotar" /\ res' = res /\ pasoDe' = pasoDe
          /\ ~cierre.linea => jobs'[cierre.job].estado \in Terminales
          /\ Cambia("avisar") \/ Avanza
      BY <1>13, AnotarEs DEF Anotar, Cerrada
    <2> QED
      BY <1>8, <1>12, <2>1
  <1>14. CASE Callar \/ Avisar
    <2>1. /\ cierre.fase = "avisar" /\ res' = res /\ pasoDe' = pasoDe
          /\ ~cierre.linea => jobs'[cierre.job].estado \in Terminales
          /\ Cambia("enviar") \/ Avanza
      BY <1>14, CallarEs, AvisarEs DEF Callar, Avisar, Resultado, Corrido, Terminal
    <2> QED
      BY <1>8, <1>12, <2>1
  <1>15. CASE Latir \/ Barrer \/ Tiempo \/ UNCHANGED vars
    <2>1. cierre' = cierre /\ res' = res /\ pasoDe' = pasoDe
      BY <1>15 DEF Latir, Barrer, Tiempo, vars
    <2>2. cierre.fase \in {"avisar", "enviar"} /\ ~cierre.linea => Terminal(cierre.job)'
      <3>1. ASSUME cierre.fase \in {"avisar", "enviar"}, ~cierre.linea
            PROVE  Terminal(cierre.job)'
        <4>1. Terminal(cierre.job) /\ cierre.job \in Ids
          BY <3>1 DEF Resultado, Corrido, Ubicado, EnUnPaso
        <4>3. jobs'[cierre.job].estado \in Terminales
          <5>1. \A k \in Ids : Terminal(k) => jobs'[k].estado \in Terminales
            BY ExistenPaso DEF Terminal, Terminales, Existe
          <5> QED
            BY <4>1, <5>1
        <4> QED
          BY <2>1, <4>3 DEF Terminal
      <3> QED
        BY <3>1
    <2>3. Incumplidas(Paso)' = Incumplidas(Paso) /\ Paso' = Paso
      BY <2>1 DEF Incumplidas, Paso
    <2> QED
      BY <2>1, <2>2, <2>3 DEF Corrido, Resultado
  <1> QED
    BY <1>1, <1>2, <1>3, <1>4, <1>5, <1>6, <1>7, <1>9, <1>10, <1>11, <1>13, <1>14, <1>15 DEF Next

-----------------------------------------------------------------------------
(* What was found waiting. *)
LEMMA RestosPaso ==
    ASSUME TypeOK, Ubicado, Turnos, Propios, Resultado, Restos, [Next]_vars
    PROVE  Restos'
  <1>0. /\ cierre.mios \subseteq Ids /\ cierre.restos \subseteq Ids /\ 0 \notin Ids
        /\ res \in [Pasos -> Resultados \union {"sin"}] /\ pasoDe \in [Ids -> Pasos]
    BY DEF TypeOK, Curso, Ids
  <1>1. CASE Empezar \/ ColaNoDisponible \/ CerrarVentanas \/ Morir
    <2>1. cierre'.restos = {}
      BY <1>1, VaciosEs DEF Vacia
    <2> QED
      BY <2>1 DEF Restos
  <1>2. CASE Encolar
    <2>1. cierre'.restos = {}
      BY <1>2, EncolarEs DEF Propios
    <2> QED
      BY <2>1 DEF Restos
  <1>3. CASE Encolado
    <2>1. /\ cierre'.restos = Reclamables(Tipos) \ cierre.mios /\ cierre.fase = "encolar"
          /\ cierre'.job = 0 /\ cierre.job = 0 /\ cierre'.mios = cierre.mios /\ ~cierre.linea
          /\ jobs' = jobs /\ res' = res /\ pasoDe' = pasoDe
      BY <1>3, EncoladoEs DEF Encolado, Ubicado, EnUnPaso
    <2>2. ASSUME NEW r \in cierre'.restos
          PROVE  /\ r \notin cierre.mios /\ Pendiente(r)
                 /\ \A j \in cierre.mios : r < j
      <3>1. r \in Ids /\ r \notin cierre.mios /\ Pendiente(r)
        BY <2>1, <2>2 DEF Reclamables, Pendiente
      <3> QED
        BY <2>1, <3>1 DEF Propios, Existe, Pendiente
    <2>3. \A j \in cierre.mios : Pendiente(j) /\ res[pasoDe[j]] = "sin"
      <3>1. ASSUME NEW j \in cierre.mios PROVE Pendiente(j) /\ res[pasoDe[j]] = "sin"
        <4>1. res = SinResultado /\ Hecho(j) /\ pasoDe[j] \in Pasos
          BY <1>0, <2>1, <3>1 DEF Resultado, Corrido, Hechos
        <4>2. res[pasoDe[j]] = "sin"
          BY <4>1 DEF SinResultado
        <4> QED
          BY <4>1, <4>2 DEF Hecho
      <3> QED
        BY <3>1
    <2> QED
      BY <1>0, <2>1, <2>2, <2>3 DEF Restos, Pendiente
  <1>4. CASE Dentro
    <2> SUFFICES ASSUME NEW r \in cierre.restos
                 PROVE  \/ jobs'[r].estado \in Terminales
                        \/ /\ jobs'[r].estado = "pending" \/ r = cierre'.job
                           /\ cierre'.job \notin cierre.mios
                           /\ \A j \in cierre.mios : /\ jobs'[j].estado = "pending"
                                                     /\ res'[pasoDe[j]] = "sin"
      BY <1>4 DEF Restos, Dentro, Terminal, Pendiente
    <2>1. r \in Ids /\ r \notin cierre.mios /\ \A j \in cierre.mios : r < j
      BY <1>0 DEF Restos
    <2>2. CASE Terminal(r)
      BY <2>1, <2>2, ExistenPaso DEF Terminal, Terminales, Existe
    <2> SUFFICES ASSUME ~Terminal(r)
                 PROVE  \/ jobs'[r].estado \in Terminales
                        \/ /\ jobs'[r].estado = "pending" \/ r = cierre'.job
                           /\ cierre'.job \notin cierre.mios
                           /\ \A j \in cierre.mios : /\ jobs'[j].estado = "pending"
                                                     /\ res'[pasoDe[j]] = "sin"
      BY <2>2
    <2>3. /\ Pendiente(r) \/ r = cierre.job
          /\ cierre.job \notin cierre.mios
          /\ \A j \in cierre.mios : Pendiente(j) /\ res[pasoDe[j]] = "sin"
      BY DEF Restos
    <2>4. ~cierre.linea
      BY DEF Propios
    <2>5. cierre.fase \notin {"corriendo", "anotar", "avisar", "enviar"}
      BY <1>0, <2>3, <2>4 DEF Resultado, Corrido, Ubicado, EnUnPaso
    <2>6. cierre.fase = "reclamado" => ~EsMio
      BY <2>3, <2>4 DEF EsMio
    <2>7. CASE Reclamo
      <3>1. PICK j \in Ids : /\ cierre'.job = j /\ Otras(j) /\ Pendiente(j)
                             /\ Reclamar(Cierra, Tipos, j)
        BY <2>7, ReclamoEs DEF Queda
      <3>2. cierre.job = 0 /\ Pendiente(r) /\ res' = res
        BY <1>0, <2>1, <2>3, <2>7 DEF Reclamo, Ubicado, EnUnPaso
      <3>3. j \notin cierre.mios
        BY <2>1, <3>1, <3>2, ReclamaLaPrimera
      <3> QED
        BY <1>0, <2>1, <2>3, <3>1, <3>2, <3>3 DEF Otras, Pendiente
    <2>8. CASE Descartar
      <3>1. /\ cierre'.job = 0 /\ Cerrada(cierre.job) /\ res' = res
        BY <2>8, DescartarEs DEF Queda, Descartar
      <3>2. \A k \in Ids \ {cierre.job} : jobs'[k] = jobs[k]
        BY <3>1 DEF Cerrada, Otras
      <3>3. jobs'[cierre.job].estado \in Terminales
        BY <3>1 DEF Cerrada
      <3> QED
        BY <1>0, <2>1, <2>3, <3>1, <3>2, <3>3 DEF Pendiente
    <2>9. CASE Saltar \/ Correr \/ Latir \/ Anotar \/ Callar \/ Avisar \/ Enviado \/ NoEnviado
      BY <2>5, <2>6, <2>9 DEF Saltar, Correr, Latir, Anotar, Callar, Avisar, Enviado, NoEnviado
    <2>10. ASSUME NEW x, PasoTermina(x) PROVE FALSE
      BY <2>5, <2>10 DEF PasoTermina
    <2>11. CASE PasoEnLinea
      BY <2>4, <2>11 DEF PasoEnLinea, Ubicado
    <2>12. CASE Acabar
      BY <2>3, <2>12, FasesEs DEF Acabar, Cambia, Queda, Pendiente
    <2>13. CASE Barrer \/ Tiempo \/ UNCHANGED vars
      <3>1. cierre' = cierre /\ res' = res
        BY <2>13 DEF Barrer, Tiempo, vars
      <3>2. \A k \in Ids : Pendiente(k) => jobs'[k].estado = "pending"
        BY <2>13, BarrerEs, PasaElTiempoEs DEF Barrer, Tiempo, vars, Pendiente
      <3> QED
        BY <1>0, <2>1, <2>3, <3>1, <3>2
    <2>14. CASE Empezar \/ ColaNoDisponible \/ CerrarVentanas \/ Morir \/ Encolar \/ Encolado
      <3>1. CASE Empezar \/ ColaNoDisponible \/ CerrarVentanas \/ Morir
        <4>1. cierre'.restos = {} /\ cierre'.restos = cierre.restos
          BY <1>4, <3>1, VaciosEs DEF Vacia, Dentro
        <4> QED
          BY <4>1
      <3>2. CASE Encolar \/ Encolado
        <4>1. cierre.restos = {}
          BY <3>2 DEF Encolar, Encolado, Propios
        <4> QED
          BY <4>1
      <3> QED
        BY <2>14, <3>1, <3>2
    <2> QED
      BY <2>7, <2>8, <2>9, <2>10, <2>11, <2>12, <2>13, <2>14 DEF Next
  <1> QED
    BY <1>1, <1>2, <1>3, <1>4, DentroPaso

-----------------------------------------------------------------------------
(* The laps. *)
LEMMA DentroVueltas ==
    ASSUME TypeOK, Ubicado, Dentro, [Next]_vars
    PROVE  /\ cierre'.vueltas = cierre.vueltas \/ cierre.fase = "bucle"
           /\ cierre.fase \notin {"libre", "encolar"} => cierre'.vivos = cierre.vivos
  <1>1. CASE Empezar \/ ColaNoDisponible \/ CerrarVentanas \/ Morir
    <2>1. \/ cierre.fase = "libre" /\ cierre'.fase = "encolar"
          \/ cierre.fase = "encolar" /\ cierre'.fase = "linea"
          \/ cierre.fase # "libre" /\ cierre'.fase = "libre"
      BY <1>1, VaciosEs DEF Vacia, Empezar, ColaNoDisponible, CerrarVentanas, Morir
    <2> QED
      BY <2>1 DEF Dentro
  <1>2. CASE Encolar \/ Encolado
    BY <1>2, EncolarEs, EncoladoEs
  <1>3. CASE Reclamo
    BY <1>3, ReclamoEs DEF Queda
  <1>4. CASE \/ Descartar \/ Saltar \/ Anotar \/ Callar \/ Avisar \/ Enviado \/ NoEnviado
             \/ PasoEnLinea \/ Correr \/ Acabar
    BY <1>4, DescartarEs, SaltarEs, AnotarEs, CallarEs, AvisarEs, EnvioEs, FasesEs
    DEF Queda, Cambia, Avanza
  <1>5. ASSUME NEW r, PasoTermina(r)
        PROVE  cierre'.vueltas = cierre.vueltas /\ cierre'.vivos = cierre.vivos
    BY <1>5, FasesEs DEF Queda, Cambia
  <1>6. CASE Latir \/ Barrer \/ Tiempo \/ UNCHANGED vars
    BY <1>6 DEF Latir, Barrer, Tiempo, vars
  <1> QED
    BY <1>1, <1>2, <1>3, <1>4, <1>5, <1>6 DEF Next

LEMMA VivosPaso ==
    ASSUME TypeOK, Ubicado, Propios, Resultado, Vivos, [Next]_vars
    PROVE  Vivos'
  <1>0. /\ cierre.mios \subseteq Ids
        /\ cierre.fase = "linea" => cierre.linea
    BY DEF TypeOK, Curso, Ubicado
  <1>1. CASE Empezar \/ ColaNoDisponible \/ CerrarVentanas \/ Morir
    BY <1>1, VaciosEs DEF Vacia, Vivos
  <1>2. CASE Encolar
    BY <1>2, EncolarEs DEF Vivos
  <1>3. CASE Encolado
    <2>1. /\ cierre'.fase = "bucle" /\ cierre'.mios = cierre.mios /\ jobs' = jobs
          /\ cierre'.vivos = { j \in Ids : jobs[j].estado \in Activos }
          /\ ~cierre.linea /\ cierre'.linea = cierre.linea /\ cierre.job = 0
          /\ res = SinResultado
      BY <1>3, EncoladoEs DEF Encolado, Ubicado, EnUnPaso, Resultado, Corrido
    <2>2. ASSUME NEW j \in cierre.mios PROVE jobs[j].estado \in Activos
      <3>1. j \in Ids /\ j # 0 /\ pasoDe[j] \in Pasos
        BY <1>0 DEF Ids, TypeOK
      <3>2. Hecho(j) /\ res[pasoDe[j]] = "sin"
        BY <2>1, <3>1 DEF Resultado, Hechos, SinResultado
      <3> QED
        BY <3>2 DEF Hecho, Pendiente, Activos
    <2> QED
      BY <1>0, <2>1, <2>2 DEF Vivos
  <1>4. CASE Dentro
    <2>1. CASE cierre.linea \/ cierre.fase \in {"libre", "encolar"}
      <3>1. cierre'.vueltas = cierre.vueltas
        BY <1>4, <2>1, DentroVueltas DEF Ubicado
      <3> QED
        BY <1>4, <2>1, <3>1 DEF Vivos, Dentro
    <2>2. CASE ~(cierre.linea \/ cierre.fase \in {"libre", "encolar"})
      <3>1. cierre'.vivos = cierre.vivos
        BY <1>4, <2>2, DentroVueltas
      <3>2. ~Encolar /\ ~ColaNoDisponible
        BY <2>2 DEF Encolar, ColaNoDisponible
      <3>3. ASSUME NEW k \in Ids, jobs'[k].estado \in Activos PROVE jobs[k].estado \in Activos
        BY <3>2, <3>3, EstadoPaso DEF Pendiente, Activos, Terminales
      <3> QED
        BY <1>4, <2>2, <3>1, <3>3 DEF Vivos, Dentro
    <2> QED
      BY <2>1, <2>2
  <1> QED
    BY <1>1, <1>2, <1>3, <1>4, DentroPaso

LEMMA VueltaPaso ==
    ASSUME TypeOK, Ubicado, Resultado, Vivos, Vuelta, [Next]_vars
    PROVE  Vuelta'
  <1>0. /\ cierre.vueltas \in Nat /\ IsFiniteSet(Gastados) /\ IsFiniteSet(Gastados')
        /\ Gastados \subseteq Ids /\ Gastados' \subseteq Ids /\ 0 \notin Ids
        /\ cierre.vueltas <= Cardinality(Gastados)
    <2>1. Gastados \subseteq Ids /\ Gastados' \subseteq Ids /\ 0 \notin Ids
      BY DEF Gastados, Ids
    <2>2. IsFiniteSet(Gastados) /\ IsFiniteSet(Gastados')
      BY <2>1, Finitos, FS_Subset
    <2> QED
      BY <2>1, <2>2, VueltasEs DEF TypeOK, Curso, Vuelta
  <1>1. Cardinality(Gastados) \in Nat /\ Cardinality(Gastados') \in Nat
    BY <1>0, FS_CardinalityType
  <1>2. \A k \in Ids : Terminal(k) => jobs'[k].estado \in Terminales
    BY ExistenPaso DEF Terminal, Terminales, Existe
  <1>3. CASE Empezar \/ ColaNoDisponible \/ CerrarVentanas \/ Morir
    <2>1. cierre'.vueltas = 0
      BY <1>3, VaciosEs DEF Vacia
    <2> QED
      BY <1>1, <2>1 DEF Vuelta
  <1>4. CASE Reclamo
    <2>1. PICK j \in Ids : /\ cierre'.job = j /\ cierre'.vueltas = cierre.vueltas + 1
                           /\ Pendiente(j) /\ cierre'.vivos = cierre.vivos
      BY <1>4, ReclamoEs DEF Queda
    <2>2. cierre.job = 0
      BY <1>4 DEF Reclamo, Ubicado, EnUnPaso
    <2>3. j \notin Gastados
      BY <1>0, <2>1, <2>2 DEF Gastados, Terminal, Terminales, Pendiente
    <2>7. j \in cierre.vivos
      BY <1>4, <2>1 DEF Vivos, Reclamo, Ubicado, Pendiente, Activos
    <2>4. Gastados \union {j} \subseteq Gastados'
      BY <1>0, <1>2, <2>1, <2>2, <2>7 DEF Gastados, Terminal
    <2>5. /\ IsFiniteSet(Gastados \union {j})
          /\ Cardinality(Gastados \union {j}) = Cardinality(Gastados) + 1
      BY <1>0, <2>3, FS_AddElement
    <2>6. Cardinality(Gastados \union {j}) <= Cardinality(Gastados')
      BY <1>0, <2>4, FS_Subset
    <2> QED
      BY <1>0, <1>1, <2>1, <2>5, <2>6 DEF Vuelta
  <1>5. ASSUME cierre'.vueltas = cierre.vueltas, cierre'.vivos = cierre.vivos,
               \/ cierre'.job = cierre.job
               \/ cierre.job \in Ids => jobs'[cierre.job].estado \in Terminales
        PROVE  Vuelta'
    <2>1. Gastados \subseteq Gastados'
      BY <1>2, <1>5 DEF Gastados, Terminal
    <2>2. Cardinality(Gastados) <= Cardinality(Gastados')
      BY <1>0, <2>1, FS_Subset
    <2> QED
      BY <1>0, <1>1, <1>5, <2>2 DEF Vuelta
  <1>6. CASE Encolar \/ Encolado
    <2>1. cierre'.vueltas = 0
      BY <1>6, EncolarEs, EncoladoEs DEF Vivos
    <2> QED
      BY <1>1, <2>1 DEF Vuelta
  <1>7. CASE Descartar
    BY <1>5, <1>7, DescartarEs DEF Queda, Cerrada
  <1>8. CASE Saltar
    BY <1>0, <1>5, <1>8, SaltarEs DEF Queda, Avanza, Cerrada, Ubicado
  <1>9. CASE Anotar
    BY <1>0, <1>5, <1>9, AnotarEs DEF Queda, Cambia, Avanza, Cerrada, Ubicado
  <1>10. CASE Callar \/ Avisar \/ Enviado \/ NoEnviado
    <2>1. cierre'.vueltas = cierre.vueltas /\ jobs' = jobs /\ cierre'.vivos = cierre.vivos
          /\ cierre.fase \in {"avisar", "enviar"}
      BY <1>10, CallarEs, AvisarEs, EnvioEs DEF Callar, Avisar, Enviado, NoEnviado, Queda, Cambia, Avanza
    <2>2. cierre.job \in Ids => jobs'[cierre.job].estado \in Terminales
      BY <1>0, <2>1 DEF Resultado, Corrido, Terminal, Ubicado
    <2> QED
      BY <1>5, <2>1, <2>2
  <1>11. CASE PasoEnLinea \/ Correr \/ Acabar
    BY <1>5, <1>11, FasesEs DEF Queda, Cambia
  <1>12. ASSUME NEW r, PasoTermina(r) PROVE Vuelta'
    BY <1>5, <1>12, FasesEs DEF Queda, Cambia
  <1>13. CASE Latir \/ Barrer \/ Tiempo \/ UNCHANGED vars
    BY <1>5, <1>13 DEF Latir, Barrer, Tiempo, vars
  <1> QED
    BY <1>3, <1>4, <1>6, <1>7, <1>8, <1>9, <1>10, <1>11, <1>12, <1>13 DEF Next

-----------------------------------------------------------------------------
(* A closing that ends is complete. *)
LEMMA TodosLosPasos ==
    ASSUME TypeOK, Ubicado, Propios, cierre.fase = "bucle"
    PROVE  /\ cierre.mios # {} /\ \A s \in Pasos : \E j \in cierre.mios : pasoDe[j] = s
           /\ IsFiniteSet(cierre.mios) /\ Cardinality(cierre.mios) >= N
  <1>1. /\ cierre.mios \subseteq Ids /\ ~cierre.linea /\ cierre.paso = N + 1
        /\ \A j \in cierre.mios : pasoDe[j] \in Pasos
    BY DEF TypeOK, Curso, Ubicado
  <1>2. \A s \in Pasos : \E j \in cierre.mios : pasoDe[j] = s
    BY <1>1, LugarEs, OrdenEs DEF Propios
  <1>3. cierre.mios # {}
    <2>1. Orden[1] \in Pasos
      BY OrdenEs
    <2> QED
      BY <1>2, <2>1
  <1>4. IsFiniteSet(cierre.mios)
    BY <1>1, Finitos, FS_Subset
  <1> DEFINE f == [j \in cierre.mios |-> pasoDe[j]]
  <1>5. f \in Surjection(cierre.mios, Pasos)
    BY <1>1, <1>2, Fun_IsSurj
  <1>6. Cardinality(Pasos) <= Cardinality(cierre.mios)
    BY <1>4, <1>5, FS_Surjection
  <1>7. Cardinality(cierre.mios) \in Nat
    BY <1>4, FS_CardinalityType
  <1> QED
    BY <1>2, <1>3, <1>4, <1>6, <1>7, Finitos, OrdenEs

LEMMA SinRestos ==
    ASSUME TypeOK, Ubicado, Propios, Resultado, Restos, cierre.fase = "bucle",
           \A j \in cierre.mios : res[pasoDe[j]] # "sin"
    PROVE  ConResultados = Pasos /\ \A r \in cierre.restos : Terminal(r)
  <1>1. ConResultados = Pasos
    BY TodosLosPasos DEF ConResultados
  <1>2. \A r \in cierre.restos : Terminal(r)
    BY TodosLosPasos DEF Restos
  <1> QED
    BY <1>1, <1>2

LEMMA AcabarEs ==
    ASSUME TypeOK, Ubicado, Turnos, Propios, Resultado, Restos, Vivos, Vuelta, Acabar,
           Cardinality(cierre.vivos) <= Vueltas
    PROVE  ConResultados = Pasos /\ \A r \in cierre.restos : Terminal(r)
  <1>0. /\ cierre.mios \subseteq Ids /\ cierre.restos \subseteq Ids /\ 0 \notin Ids
        /\ cierre.vueltas \in Nat
    BY VueltasEs DEF TypeOK, TablaTypeOK, Curso, Ids, Fila
  <1>1. CASE cierre.fase = "linea"
    <2>1. cierre.linea /\ cierre.paso > N /\ cierre.restos = {}
      BY <1>1 DEF Acabar, Ubicado, Propios
    <2>2. \A s \in Pasos : res[s] # "sin"
      <3>1. \A s \in Pasos : Lugar(s) \in 1 .. N
        BY LugarEs
      <3>2. cierre.paso \in Int /\ N \in Nat
        BY OrdenEs DEF TypeOK, Curso
      <3>3. \A s \in Pasos : Lugar(s) < cierre.paso
        BY <2>1, <3>1, <3>2
      <3> QED
        BY <2>1, <3>3 DEF Resultado, EnLinea
    <2> QED
      BY <2>1, <2>2 DEF ConResultados
  <1>2. CASE cierre.fase = "bucle"
    <2>0. cierre.job = 0 /\ ~cierre.linea
      BY <1>2 DEF Ubicado, EnUnPaso
    <2>1. \A j \in cierre.mios : Hecho(j)
      BY <1>0, <2>0 DEF Resultado, Hechos
    <2>2. CASE Reclamables(Tipos) = {}
      <3>1. \A k \in Ids : ~Pendiente(k)
        <4>1. \A k \in Ids : jobs[k].tipo \in Tipos /\ jobs[k].espera <= 0
          BY DEF TypeOK, TablaTypeOK, Fila, Turnos
        <4> QED
          BY <2>2, <4>1 DEF Reclamables, Pendiente
      <3>2. \A j \in cierre.mios : res[pasoDe[j]] # "sin"
        BY <1>0, <2>1, <3>1 DEF Hecho
      <3> QED
        BY <1>2, <3>2, SinRestos
    <2>3. CASE ~SinTerminar
      <3>1. /\ IsFiniteSet(cierre.mios) /\ Cardinality(cierre.mios) >= N
        BY <1>2, TodosLosPasos
      <3>2. ConResultados \subseteq Pasos
        BY DEF ConResultados
      <3>3. /\ IsFiniteSet(ConResultados) /\ Cardinality(ConResultados) <= N
            /\ Cardinality(ConResultados) = N => ConResultados = Pasos
        BY <3>2, Finitos, FS_Subset
      <3>4. Cardinality(ConResultados) \in Nat /\ Cardinality(cierre.mios) \in Nat
        BY <3>1, <3>3, FS_CardinalityType
      <3>5. ConResultados = Pasos
        BY <2>3, <3>1, <3>3, <3>4, OrdenEs DEF SinTerminar
      <3>6. \A j \in cierre.mios : res[pasoDe[j]] # "sin"
        BY <1>0, <3>5 DEF ConResultados, TypeOK
      <3> QED
        BY <1>2, <3>6, SinRestos
    <2>4. CASE ~(cierre.vueltas < Vueltas)
      <3>1. /\ Gastados \subseteq cierre.vivos /\ IsFiniteSet(Gastados)
            /\ IsFiniteSet(cierre.vivos)
        <4>1. Gastados \subseteq cierre.vivos /\ cierre.vivos \subseteq Ids
          BY DEF Gastados, TypeOK, Curso
        <4> QED
          BY <4>1, Finitos, FS_Subset
      <3>2. /\ Cardinality(Gastados) \in Nat /\ Cardinality(cierre.vivos) \in Nat
            /\ Vueltas \in Nat
        BY <3>1, FS_CardinalityType, VueltasEs
      <3>3. /\ Cardinality(Gastados) <= Cardinality(cierre.vivos)
            /\ Cardinality(Gastados) = Cardinality(cierre.vivos) => Gastados = cierre.vivos
        BY <3>1, FS_Subset
      <3>4. cierre.vueltas <= Cardinality(Gastados) /\ Cardinality(cierre.vivos) <= Vueltas
        BY DEF Vuelta
      <3>5. Gastados = cierre.vivos
        BY <1>0, <2>4, <3>2, <3>3, <3>4
      <3>6. cierre.mios \subseteq cierre.vivos
        BY <1>2, <2>0 DEF Vivos
      <3>7. \A j \in cierre.mios : Terminal(j)
        BY <1>0, <2>0, <3>5, <3>6 DEF Gastados
      <3>8. \A j \in cierre.mios : res[pasoDe[j]] # "sin"
        BY <2>1, <3>7 DEF Hecho, Pendiente, Terminal, Terminales
      <3> QED
        BY <1>2, <3>8, SinRestos
    <2> QED
      BY <1>2, <2>2, <2>3, <2>4 DEF Acabar, Sigue
  <1> QED
    BY <1>1, <1>2 DEF Acabar

LEMMA CompletoPaso ==
    ASSUME TypeOK, Ubicado, Turnos, Propios, Resultado, Restos, Vivos, Vuelta,
           CierreCompleto, [Next]_vars
    PROVE  CierreCompleto'
  <1>0. 0 \notin Ids /\ cierre.restos \subseteq Ids
    BY DEF Ids, TypeOK, Curso
  <1>1. ASSUME cierre'.fase # "cerrar" PROVE CierreCompleto'
    BY <1>1 DEF CierreCompleto
  <1>2. ASSUME cierre'.restos = cierre.restos, cierre'.vivos = cierre.vivos, res' = res,
               Cardinality(cierre.vivos) <= Vueltas
                 => ConResultados = Pasos /\ \A r \in cierre.restos : Terminal(r)
        PROVE  CierreCompleto'
    <2>1. \A k \in Ids : Terminal(k) => jobs'[k].estado \in Terminales
      BY ExistenPaso DEF Existe, Terminal, Terminales
    <2>2. ConResultados' = ConResultados
      BY <1>2 DEF ConResultados
    <2> QED
      BY <1>0, <1>2, <2>1, <2>2 DEF CierreCompleto, Vueltas
  <1>3. CASE Empezar \/ ColaNoDisponible \/ CerrarVentanas \/ Morir
    BY <1>1, <1>3, VaciosEs DEF Vacia
  <1>4. CASE Encolar \/ Encolado \/ Reclamo
    BY <1>1, <1>4, EncolarEs, EncoladoEs, ReclamoEs DEF Queda
  <1>5. CASE Descartar \/ Saltar \/ Anotar \/ Callar \/ Avisar \/ Enviado \/ NoEnviado
    BY <1>1, <1>5, DescartarEs, SaltarEs, AnotarEs, CallarEs, AvisarEs, EnvioEs
    DEF Queda, Cambia, Avanza
  <1>6. CASE PasoEnLinea \/ Correr
    BY <1>1, <1>6, FasesEs DEF Queda, Cambia
  <1>7. ASSUME NEW r, PasoTermina(r) PROVE CierreCompleto'
    BY <1>1, <1>7, FasesEs DEF Queda, Cambia
  <1>8. CASE Acabar
    <2>1. cierre'.restos = cierre.restos /\ cierre'.vivos = cierre.vivos /\ res' = res
      BY <1>8, FasesEs DEF Acabar, Queda, Cambia
    <2> QED
      BY <1>2, <1>8, <2>1, AcabarEs
  <1>9. CASE Latir \/ Barrer \/ Tiempo \/ UNCHANGED vars
    <2>1. cierre' = cierre /\ res' = res
      BY <1>9 DEF Latir, Barrer, Tiempo, vars
    <2>2. CASE cierre.fase # "cerrar"
      BY <1>1, <2>1, <2>2
    <2>3. CASE cierre.fase = "cerrar"
      <3>1. Cardinality(cierre.vivos) <= Vueltas
              => ConResultados = Pasos /\ \A r \in cierre.restos : Terminal(r)
        BY <2>3 DEF CierreCompleto, Terminal
      <3> QED
        BY <1>2, <2>1, <3>1
    <2> QED
      BY <2>2, <2>3
  <1> QED
    BY <1>3, <1>4, <1>5, <1>6, <1>7, <1>8, <1>9 DEF Next

-----------------------------------------------------------------------------
(* The step that runs has its input. *)
LEMMA Primero ==
    ASSUME TypeOK, Ubicado, Propios, Resultado
    PROVE  DependenciasPrimero
  <1> SUFFICES ASSUME cierre.fase = "corriendo", NEW d \in Deps[Paso]
               PROVE  res[d] \in {"ok", "skipped"}
    BY DEF DependenciasPrimero
  <1>0. /\ Paso \in Pasos /\ d \in Pasos /\ Lugar(d) < Lugar(Paso)
        /\ Lugar(d) \in 1 .. N /\ Lugar(Paso) \in 1 .. N /\ N \in Nat
    BY PasoEs, LugarEs, OrdenEs DEF EnUnPaso
  <1>1. res[d] # "sin"
    <2>1. CASE cierre.linea
      BY <1>0, <2>1, PasoEs DEF Resultado, EnLinea, EnUnPaso
    <2>2. CASE ~cierre.linea
      <3>1. /\ cierre.job \in Ids /\ Paso = pasoDe[cierre.job] /\ cierre.paso = N + 1
            /\ cierre.job \in cierre.mios /\ cierre.mios \subseteq Ids
        <4>1. cierre.job \in Ids /\ Paso = pasoDe[cierre.job]
          BY <2>2, PasoEs DEF EnUnPaso
        <4>2. cierre.job # 0 /\ cierre.paso = N + 1
          BY <2>2, <4>1 DEF Ids, Ubicado, EnUnPaso
        <4> QED
          BY <4>1, <4>2 DEF Resultado, Corrido, TypeOK, Curso
      <3>2. PICK j \in cierre.mios : pasoDe[j] = d
        BY <1>0, <2>2, <3>1 DEF Propios
      <3>3. ~(cierre.job < j) /\ j # cierre.job
        BY <1>0, <3>1, <3>2 DEF Propios
      <3>4. j < cierre.job
        BY <3>1, <3>3 DEF Ids
      <3> QED
        BY <3>1, <3>2, <3>4 DEF Resultado, EnTurno
    <2> QED
      BY <2>1, <2>2
  <1>2. Incumplidas(Paso) = {}
    BY DEF Resultado, Corrido
  <1>3. res[d] \in Resultados \union {"sin"}
    BY <1>0 DEF TypeOK
  <1> QED
    BY <1>1, <1>2, <1>3 DEF Incumplidas, Resultados

-----------------------------------------------------------------------------
(* The windows. *)
Dicha(s) == avisos[s].avisado \/ avisos[s].porCerrar \/ avisos[s].huerfana

LEMMA FuncionDeAvisos ==
    ASSUME TypeOK, NEW s \in Pasos, NEW a \in Avisos, avisos' = [avisos EXCEPT ![s] = a]
    PROVE  avisos'[s] = a /\ \A t \in Pasos \ {s} : avisos'[t] = avisos[t]
  BY DEF TypeOK

LEMMA VentanasPaso ==
    ASSUME TypeOK, Ubicado, Ventanas, [Next]_vars
    PROVE  Ventanas'
  <1>0. /\ avisos \in [Pasos -> Avisos] /\ cierre.ventana \in BOOLEAN
        /\ cierre.fase # "enviar" => ~cierre.ventana
    BY DEF TypeOK, Curso, Ubicado
  <1>1. ASSUME ~cierre.ventana, cerrojos' = cerrojos,
               \A s \in Pasos : Dicha(s) => Dicha(s)'
        PROVE  Ventanas'
    BY <1>1 DEF Ventanas, Dicha
  <1>2. CASE \/ Empezar \/ Encolar \/ Encolado \/ ColaNoDisponible \/ Reclamo \/ Descartar
             \/ PasoEnLinea \/ Saltar \/ Correr \/ Anotar \/ Acabar
    <2>1. cierre.fase # "enviar" /\ cerrojos' = cerrojos /\ avisos' = avisos
      BY <1>2 DEF Empezar, Encolar, Encolado, ColaNoDisponible, Reclamo, Descartar,
                  PasoEnLinea, Saltar, Correr, Anotar, Acabar
    <2> QED
      BY <1>0, <1>1, <2>1 DEF Dicha
  <1>3. ASSUME NEW r, PasoTermina(r) PROVE Ventanas'
    <2>1. /\ cierre.fase = "corriendo" /\ cerrojos' = cerrojos
          /\ \/ avisos' = avisos
             \/ avisos' = [avisos EXCEPT ![Paso] = Recuperado(avisos[Paso])]
      BY <1>3 DEF PasoTermina
    <2>2. Paso \in Pasos
      BY <2>1, PasoEs DEF EnUnPaso
    <2>3. Recuperado(avisos[Paso]) \in Avisos /\ Recuperado(avisos[Paso]).porCerrar = TRUE
      BY <1>0, <2>2, AvisosEs
    <2>4. \A s \in Pasos : Dicha(s) => Dicha(s)'
      BY <2>1, <2>2, <2>3, FuncionDeAvisos DEF Dicha
    <2> QED
      BY <1>0, <1>1, <2>1, <2>4
  <1>4. CASE Avisar
    <2>0. ~cierre.ventana /\ Paso \in Pasos /\ pasoDe' = pasoDe /\ Cambia("enviar")
      BY <1>0, <1>4, AvisarEs DEF Avisar
    <2>1. Paso' = Paso
      BY <2>0 DEF Paso, Cambia, Queda
    <2>2. ASSUME NEW b \in BOOLEAN, AbrirVentana(b), b \/ cierre'.ventana
          PROVE  Ventanas'
      BY <2>0, <2>1, <2>2, AbrirEs DEF Ventanas
    <2>3. CASE cerrojos' = cerrojos /\ avisos' = avisos
      BY <1>1, <2>0, <2>3 DEF Dicha
    <2> QED
      BY <1>4, <2>2, <2>3, AvisarEs
  <1>5. CASE Enviado \/ NoEnviado
    <2>0. Paso \in Pasos /\ cierre'.ventana = FALSE
      BY <1>5, EnvioEs DEF Avanza
    <2>1. ASSUME \A s \in Pasos :
                   cerrojos'[s].resta > 0 => cerrojos'[s] = cerrojos[s] /\ Dicha(s)'
          PROVE  Ventanas'
      BY <2>1 DEF Ventanas, Dicha
    <2>2. \A s \in Pasos : s # Paso \/ ~cierre.ventana =>
             (cerrojos[s].resta > 0 => cerrojos[s].dueno = Alertas /\ Dicha(s))
      BY DEF Ventanas, Dicha
    <2>3. CASE /\ cerrojos' = cerrojos
               /\ \/ avisos' = [avisos EXCEPT ![Paso] = [avisos[Paso] EXCEPT !.avisado = TRUE]]
                  \/ avisos' = [avisos EXCEPT ![Paso] = [avisos[Paso] EXCEPT !.porCerrar = TRUE]]
      <3> DEFINE a == [avisos[Paso] EXCEPT !.avisado = TRUE]
                 b == [avisos[Paso] EXCEPT !.porCerrar = TRUE]
      <3>1. a \in Avisos /\ a.avisado = TRUE /\ b \in Avisos /\ b.porCerrar = TRUE
        BY <1>0, <2>0, AvisosEs
      <3>2. avisos' = [avisos EXCEPT ![Paso] = a] \/ avisos' = [avisos EXCEPT ![Paso] = b]
        BY <2>3
      <3> HIDE DEF a, b
      <3>3. \/ avisos'[Paso] = a /\ \A t \in Pasos \ {Paso} : avisos'[t] = avisos[t]
            \/ avisos'[Paso] = b /\ \A t \in Pasos \ {Paso} : avisos'[t] = avisos[t]
        BY <2>0, <3>1, <3>2, FuncionDeAvisos
      <3>4. avisos'[Paso].avisado \/ avisos'[Paso].porCerrar
        BY <3>1, <3>3
      <3>5. \A s \in Pasos \ {Paso} : Dicha(s) => Dicha(s)'
        BY <3>3 DEF Dicha
      <3>6. \A s \in Pasos \ {Paso} : cerrojos[s].resta > 0 => Dicha(s)
        BY <2>2
      <3>7. \A s \in Pasos : cerrojos[s].resta > 0 => Dicha(s)'
        <4>1. ASSUME NEW s \in Pasos, cerrojos[s].resta > 0 PROVE Dicha(s)'
          <5>1. CASE s = Paso
            <6>1. avisos'[s].avisado \/ avisos'[s].porCerrar
              BY <3>4, <5>1
            <6> QED
              BY <6>1 DEF Dicha
          <5>2. CASE s # Paso
            BY <3>5, <3>6, <4>1, <5>2
          <5> QED
            BY <5>1, <5>2
        <4> QED
          BY <4>1
      <3> QED
        BY <2>1, <2>3, <3>7
    <2>4. CASE SoltarVarios({Paso}, Alertas) /\ avisos' = avisos
      <3>1. \A t \in Pasos : IF t = Paso /\ cerrojos[t].dueno = Alertas
                             THEN cerrojos'[t].resta = 0 ELSE cerrojos'[t] = cerrojos[t]
        BY <2>0, <2>4, SoltarEs
      <3>2. \A s \in Pasos : cerrojos[s].resta > 0 => cerrojos[s].dueno = Alertas
        BY DEF Ventanas
      <3>3. \A s \in Pasos : cerrojos'[s].resta > 0 => cerrojos'[s] = cerrojos[s] /\ s # Paso
        BY <3>1, <3>2
      <3> QED
        BY <2>2, <2>4, <3>3 DEF Ventanas, Dicha
    <2>5. CASE cerrojos' = cerrojos /\ avisos' = avisos /\ ~cierre.ventana
      BY <1>1, <2>5 DEF Dicha
    <2> QED
      BY <1>0, <1>5, <2>3, <2>4, <2>5 DEF Enviado, NoEnviado, SoltarVentana, Soltar
  <1>6. CASE CerrarVentanas
    <2>0. ~cierre.ventana
      BY <1>0, <1>6 DEF CerrarVentanas
    <2>1. CASE cerrojos' = cerrojos /\ avisos' = avisos
      BY <1>1, <2>0, <2>1 DEF Dicha
    <2>2. CASE /\ SoltarVarios(Recuperados, Alertas)
               /\ avisos' = [s \in Pasos |->
                    [avisos[s] EXCEPT !.porCerrar = avisos[s].porCerrar /\ res[s] # "ok"]]
      <3>1. \A t \in Pasos : IF res[t] = "ok" /\ cerrojos[t].dueno = Alertas
                             THEN cerrojos'[t].resta = 0 ELSE cerrojos'[t] = cerrojos[t]
        BY <2>2, SoltarEs DEF Recuperados
      <3>2. \A s \in Pasos : cerrojos[s].resta > 0 => cerrojos[s].dueno = Alertas
        BY DEF Ventanas
      <3>3. \A s \in Pasos : cerrojos'[s].resta > 0 => cerrojos'[s] = cerrojos[s] /\ res[s] # "ok"
        BY <3>1, <3>2
      <3>4. ASSUME NEW s \in Pasos, res[s] # "ok", Dicha(s) PROVE Dicha(s)'
        <4> DEFINE b == avisos[s].porCerrar /\ res[s] # "ok"
        <4>1. avisos[s] \in Avisos /\ avisos'[s] = [avisos[s] EXCEPT !.porCerrar = b]
          BY <1>0, <2>2
        <4>2. b <=> avisos[s].porCerrar
          BY <3>4
        <4> HIDE DEF b
        <4>3. /\ avisos'[s].porCerrar = b /\ avisos'[s].avisado = avisos[s].avisado
              /\ avisos'[s].huerfana = avisos[s].huerfana
          BY <4>1 DEF Avisos
        <4> QED
          BY <3>4, <4>2, <4>3 DEF Dicha
      <3>5. \A s \in Pasos : cerrojos[s].resta > 0 => Dicha(s)
        BY <2>0 DEF Ventanas, Dicha
      <3> QED
        BY <3>2, <3>3, <3>4, <3>5 DEF Ventanas, Dicha
    <2> QED
      BY <1>6, <2>1, <2>2 DEF CerrarVentanas
  <1>7. CASE Morir
    <2>1. CASE cierre.fase # "enviar"
      BY <1>0, <1>1, <1>7, <2>1 DEF Morir, Dicha
    <2>2. CASE cierre.fase = "enviar"
      <3> DEFINE b == [avisos[Paso] EXCEPT !.porCerrar = TRUE]
      <3>1. Paso \in Pasos
        BY <2>2, PasoEs DEF EnUnPaso
      <3>2. b \in Avisos /\ b.porCerrar = TRUE
        BY <1>0, <3>1, AvisosEs
      <3>3. avisos' = [avisos EXCEPT ![Paso] = b] /\ cerrojos' = cerrojos
        BY <1>0, <1>7, <2>2, <3>1 DEF Morir
      <3> HIDE DEF b
      <3>4. avisos'[Paso] = b /\ \A t \in Pasos \ {Paso} : avisos'[t] = avisos[t]
        BY <3>1, <3>2, <3>3, FuncionDeAvisos
      <3> QED
        BY <3>2, <3>3, <3>4 DEF Ventanas
    <2> QED
      BY <2>1, <2>2
  <1>9. CASE Callar
    BY <1>1, <1>9, CallarEs DEF Callar, Dicha
  <1>8. CASE Latir \/ Barrer \/ Tiempo \/ UNCHANGED vars
    <2>1. cierre' = cierre /\ pasoDe' = pasoDe /\ avisos' = avisos
      BY <1>8 DEF Latir, Barrer, Tiempo, vars
    <2>2. \A t \in Pasos : /\ cerrojos'[t].dueno = cerrojos[t].dueno
                           /\ cerrojos'[t].resta > 0 => cerrojos[t].resta > 0
      BY <1>8, EnvejecenEs DEF Latir, Barrer, Tiempo, vars
    <2>3. Paso' = Paso
      BY <2>1 DEF Paso
    <2> QED
      BY <2>1, <2>2, <2>3 DEF Ventanas
  <1> QED
    BY <1>2, <1>3, <1>4, <1>5, <1>6, <1>7, <1>8, <1>9 DEF Next

(* A window that is open was told of, so what it leaves out was too. *)
LEMMA CallarDicha ==
    ASSUME TypeOK, Ubicado, Ventanas, Callar
    PROVE  Dicha(Paso)
  <1>1. Paso \in Pasos /\ ~Adquirible(Paso) /\ cierre.ventana = FALSE
    BY CallarEs
  <1>2. cerrojos[Paso].resta > 0
    BY <1>1 DEF Adquirible, Vigente
  <1> QED
    BY <1>1, <1>2 DEF Ventanas, Dicha

-----------------------------------------------------------------------------
LEMMA InvInicio == Init => Inv
  <1> SUFFICES ASSUME Init PROVE Inv
    OBVIOUS
  <1>1. SinFila \in Fila /\ SinFila.estado = "ausente" /\ SinFila.espera = 0
    <2>1. (CHOOSE t \in Tipos : TRUE) \in Tipos
      BY TablaAssumption
    <2> DEFINE t0 == CHOOSE t \in Tipos : TRUE
    <2>2. t0 \in Tipos
      BY <2>1
    <2> HIDE DEF t0
    <2>3. /\ [ estado |-> "ausente", tipo |-> t0, intentos |-> 0, espera |-> 0,
               locked_by |-> Nadie, silencio |-> 0 ] \in Fila
      BY <2>2 DEF Fila, Estados
    <2> QED
      BY <2>3 DEF SinFila, t0
  <1>2. TablaTypeOK /\ \A j \in Ids : jobs[j] = SinFila
    BY <1>1 DEF Init, TablaInit, TablaTypeOK
  <1>3. SinCerrojo \in Cerrojo /\ SinCerrojo.resta = 0 /\ Nombres = Pasos
    BY CierreAssumption, CerrojosAssumption DEF SinCerrojo, Cerrojo
  <1>4. CerrojosTypeOK /\ \A s \in Pasos : cerrojos[s] = SinCerrojo
    BY <1>3 DEF Init, CerrojosInit, CerrojosTypeOK
  <1>5. /\ cierre \in Curso /\ cierre.fase = "libre" /\ cierre.mios = {} /\ cierre.job = 0
        /\ cierre.paso = 1 /\ cierre.linea = FALSE /\ cierre.ventana = FALSE
        /\ cierre.vueltas = 0 /\ cierre.restos = {}
    BY VueltasEs DEF Init, Parado, Curso, Fases
  <1>6. /\ avisos = [s \in Pasos |-> SinAviso] /\ SinAviso \in Avisos
        /\ res \in [Pasos -> Resultados \union {"sin"}] /\ pasoDe \in [Ids -> Pasos]
        /\ averias \in 0 .. MaxAverias /\ caidas \in 0 .. MaxCaidas
    BY OrdenEs, CierreAssumption DEF Init, Avisos, SinAviso, SinResultado
  <1>7. TypeOK
    BY <1>2, <1>4, <1>5, <1>6 DEF TypeOK
  <1>8. Turnos /\ EnMano
    BY <1>1, <1>2, <1>5 DEF Turnos, EnMano, Existe, Activos, Ids
  <1>9. Ubicado
    BY <1>5 DEF Ubicado, EnUnPaso
  <1>10. Propios /\ Restos
    BY <1>5 DEF Propios, Restos
  <1>11. Resultado
    BY <1>5 DEF Init, Resultado, Hechos, EnTurno, EnLinea, Corrido
  <1>12. Vivos /\ Vuelta
    <2>1. Cardinality(Gastados) \in Nat
      BY Finitos, FS_CardinalityType
    <2> QED
      BY <1>5, <2>1 DEF Vivos, Vuelta
  <1>13. Ventanas
    BY <1>3, <1>4 DEF Ventanas
  <1>14. CierreCompleto
    BY <1>5 DEF CierreCompleto
  <1> QED
    BY <1>7, <1>8, <1>9, <1>10, <1>11, <1>12, <1>13, <1>14 DEF Inv

LEMMA InvPaso == Inv /\ [Next]_vars => Inv'
  <1> SUFFICES ASSUME Inv, [Next]_vars PROVE Inv'
    OBVIOUS
  <1>0. /\ TypeOK /\ Turnos /\ EnMano /\ Ubicado /\ Propios /\ Resultado /\ Restos
        /\ Vivos /\ Vuelta /\ Ventanas /\ CierreCompleto
    BY DEF Inv
  <1>1. TypeOK' /\ Turnos' /\ EnMano' /\ Ubicado' /\ Propios'
    BY <1>0, TipoPaso, TurnosPaso, EnManoPaso, UbicadoPaso, PropiosPaso
  <1>2. Hechos' /\ EnTurno' /\ EnLinea' /\ Corrido'
    BY <1>0, HechosPaso, EnTurnoPaso, EnLineaPaso, CorridoPaso
  <1>3. Restos' /\ Vivos' /\ Vuelta' /\ Ventanas' /\ CierreCompleto'
    BY <1>0, RestosPaso, VivosPaso, VueltaPaso, VentanasPaso, CompletoPaso
  <1> QED
    BY <1>1, <1>2, <1>3 DEF Inv, Resultado

(* The inductive invariant: the ids and the due times of the table go in    *)
(* the same order, so the loop of pipeline_cierre.py:237 takes what was     *)
(* there first, then the canonical steps in their order.                    *)
THEOREM InvSiempre == Spec => []Inv
  <1> QED
    BY InvInicio, InvPaso, PTL DEF Spec

(* The types of the closing, its queue and its alert windows.               *)
THEOREM Tipado == Spec => []TypeOK
  <1>1. Inv => TypeOK
    BY DEF Inv
  <1> QED
    BY <1>1, InvSiempre, PTL

(* Whatever an earlier closing left in the queue and wherever the sweep     *)
(* falls, a step that runs has had every step it depends on run in this     *)
(* closing, ok or skipped (pipeline_cierre.py:208).                         *)
THEOREM SiempreTrasSusDependencias == Spec => []DependenciasPrimero
  <1>1. Inv => DependenciasPrimero
    BY Primero DEF Inv
  <1> QED
    BY <1>1, InvSiempre, PTL

(* A closing that ends has a result for every step and has closed what it   *)
(* found waiting, if the jobs not closed when its loop began, its own and   *)
(* those left by others, are no more than its laps (pipeline_cierre.py:237, *)
(* 280).  How many rows the table has got through does not count.           *)
THEOREM SiempreCompleto == Spec => []CierreCompleto
  <1>1. Inv => CierreCompleto
    BY DEF Inv
  <1> QED
    BY <1>1, InvSiempre, PTL

(* An alert is left out only while its incident has been mailed or there is *)
(* a window nobody could close: its release failed or was not reached, or   *)
(* its acquire raised having committed (pipeline_cierre.py:58,              *)
(* alerts.py:348).                                                          *)
THEOREM NuncaCalladaSinAviso == Spec => CalladaSoloSiAvisada
  <1>1. Inv /\ [Next]_vars
          => [Callar => \/ avisos[Paso].avisado \/ avisos[Paso].porCerrar
                        \/ avisos[Paso].huerfana]_vars
    BY CallarDicha DEF Inv, Dicha
  <1> QED
    BY <1>1, InvSiempre, PTL DEF Spec, CalladaSoloSiAvisada
=============================================================================
