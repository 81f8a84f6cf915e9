-------------------------- MODULE Pursuits_proofs --------------------------
(* Proofs about one opportunity and the requests that edit it at once: the *)
(* row stays coherent, the funnel only goes forward, and every edition is  *)
(* written once.                                                           *)
EXTENDS Pursuits, TLAPS

-----------------------------------------------------------------------------
(* What one PATCH does, as a function of the row it has read.              *)

(* Changes that the validation of row f let through. *)
Valido(f, k) ==
    \E c : /\ DOMAIN c \subseteq Editables
           /\ Admisible(f, c)
           /\ k = ConSellos(f, c)

Escrita(f, k) == [Aplicada(f, k) EXCEPT !.version = f.version + 1]

FilaForma(f) == DOMAIN f = DOMAIN FilaNueva /\ f.version \in Nat

FilaInv(f) == FilaForma(f) /\ FilaCoherente(f)

LEMMA Campos ==
    /\ Editables = {"status", "decision", "motivo", "outcome", "importe", "razon", "codigo"}
    /\ DOMAIN FilaNueva = Editables \union {"submitted_at", "closed_at", "version"}
  BY DEF Editables, FilaNueva

(* The fields a person edits are written as asked; the two dates only when *)
(* they were not there.                                                    *)
LEMMA CamposEscritos ==
    ASSUME NEW f, NEW c, DOMAIN f = DOMAIN FilaNueva, DOMAIN c \subseteq Editables
    PROVE  LET g == Aplicada(f, c)
               h == Escrita(f, ConSellos(f, c))
           IN  /\ DOMAIN h = DOMAIN FilaNueva
               /\ h.version = f.version + 1
               /\ \A x \in Editables : h[x] = g[x]
               /\ h.submitted_at = IF g.status = "submitted" /\ f.submitted_at = 0
                                   THEN f.version + 1 ELSE f.submitted_at
               /\ h.closed_at = IF g.status \in Terminales /\ f.closed_at = 0
                                THEN f.version + 1 ELSE f.closed_at
  <1> DEFINE g == Aplicada(f, c)
             p == IF g.status = "submitted" /\ f.submitted_at = 0
                  THEN Con(c, "submitted_at", f.version + 1) ELSE c
             k == ConSellos(f, c)
             h == Escrita(f, k)
  <1>1. k = IF g.status \in Terminales /\ f.closed_at = 0
            THEN Con(p, "closed_at", f.version + 1) ELSE p
    BY DEF ConSellos
  <1>2. /\ "submitted_at" \notin DOMAIN c /\ "closed_at" \notin DOMAIN c
        /\ "version" \notin DOMAIN c
        /\ "submitted_at" \notin Editables /\ "closed_at" \notin Editables
        /\ "version" \notin Editables
    BY Campos
  <1>3. /\ "submitted_at" \in DOMAIN p <=> g.status = "submitted" /\ f.submitted_at = 0
        /\ "submitted_at" \in DOMAIN p => p["submitted_at"] = f.version + 1
        /\ "closed_at" \notin DOMAIN p /\ "version" \notin DOMAIN p
        /\ \A x \in Editables : /\ x \in DOMAIN p <=> x \in DOMAIN c
                                /\ x \in DOMAIN c => p[x] = c[x]
    BY <1>2 DEF Con
  <1> HIDE DEF p
  <1>4. /\ "submitted_at" \in DOMAIN k <=> g.status = "submitted" /\ f.submitted_at = 0
        /\ "submitted_at" \in DOMAIN k => k["submitted_at"] = f.version + 1
        /\ "closed_at" \in DOMAIN k <=> g.status \in Terminales /\ f.closed_at = 0
        /\ "closed_at" \in DOMAIN k => k["closed_at"] = f.version + 1
        /\ \A x \in Editables : /\ x \in DOMAIN k <=> x \in DOMAIN c
                                /\ x \in DOMAIN c => k[x] = c[x]
    BY <1>1, <1>2, <1>3 DEF Con
  <1> HIDE DEF k
  <1>5. /\ DOMAIN h = DOMAIN FilaNueva
        /\ h.version = f.version + 1
        /\ \A x \in DOMAIN FilaNueva \ {"version"} : h[x] = IF x \in DOMAIN k THEN k[x] ELSE f[x]
    BY Campos DEF Escrita, Aplicada
  <1>6. \A x \in Editables : g[x] = IF x \in DOMAIN c THEN c[x] ELSE f[x]
    BY Campos DEF Aplicada
  <1>7. \A x \in Editables : h[x] = g[x]
    BY <1>2, <1>4, <1>5, <1>6, Campos
  <1>8. h.submitted_at = IF g.status = "submitted" /\ f.submitted_at = 0
                         THEN f.version + 1 ELSE f.submitted_at
    BY <1>4, <1>5, Campos
  <1>9. h.closed_at = IF g.status \in Terminales /\ f.closed_at = 0
                      THEN f.version + 1 ELSE f.closed_at
    BY <1>4, <1>5, Campos
  <1> HIDE DEF g, h
  <1> QED
    BY <1>5, <1>7, <1>8, <1>9 DEF g, h, k

(* A patch alone keeps the row coherent and does not take it back. *)
LEMMA CambioCoherente ==
    ASSUME NEW f, NEW k, FilaInv(f), Valido(f, k)
    PROVE  FilaInv(Escrita(f, k)) /\ SoloAvanza(f, Escrita(f, k))
  <1>1. PICK c : DOMAIN c \subseteq Editables /\ Admisible(f, c) /\ k = ConSellos(f, c)
    BY DEF Valido
  <1> DEFINE g == Aplicada(f, c)
             h == Escrita(f, k)
  <1>2. /\ DOMAIN h = DOMAIN FilaNueva
        /\ h.version = f.version + 1
        /\ \A x \in Editables : h[x] = g[x]
        /\ h.submitted_at = IF g.status = "submitted" /\ f.submitted_at = 0
                            THEN f.version + 1 ELSE f.submitted_at
        /\ h.closed_at = IF g.status \in Terminales /\ f.closed_at = 0
                         THEN f.version + 1 ELSE f.closed_at
    BY <1>1, CamposEscritos DEF FilaInv, FilaForma
  <1>3. f.version + 1 \in Nat /\ f.version + 1 # 0
    BY DEF FilaInv, FilaForma
  <1>4. /\ h.status = g.status /\ h.decision = g.decision /\ h.outcome = g.outcome
        /\ h.importe = g.importe /\ h.motivo = g.motivo /\ h.razon = g.razon
        /\ h.codigo = g.codigo
    BY <1>2, Campos
  <1>5. \A x \in Editables : x \notin DOMAIN c => g[x] = f[x]
    BY Campos DEF Aplicada, FilaInv, FilaForma
  <1> HIDE DEF g, h
  <1>a. /\ g.status # f.status => TransicionPermitida(f.status, g.status, g.decision)
        /\ g.decision # "pending" => g.motivo
        /\ g.status \in {"preparing", "submitted", "won", "lost"} => g.decision = "go"
        /\ g.decision = "no_go" => g.status \in {"go_no_go", "withdrawn"}
        /\ g.status \in {"won", "lost"} => f.submitted_at # 0
        /\ g.outcome = IF g.status \in Terminales THEN ResultadoDe[g.status] ELSE "pending"
        /\ g.outcome = "won" => g.importe # SinImporte \/ g.razon
        /\ (g.outcome = "lost" /\ {"outcome", "codigo"} \intersect DOMAIN c # {}) => g.codigo
    BY <1>1 DEF Admisible, g
  <1>b. /\ f.outcome = IF f.status \in Terminales THEN ResultadoDe[f.status] ELSE "pending"
        /\ f.status \in {"submitted", "won", "lost"} => f.submitted_at # 0
        /\ (f.closed_at # 0) <=> f.status \in Terminales
        /\ f.status = "lost" => f.codigo
    BY DEF FilaInv, FilaCoherente
  <1>6. f.status \in Terminales => g.status = f.status
    BY <1>a DEF TransicionPermitida, EsTransicion, Terminales, Embudo
  <1>7. g.status = "lost" => g.codigo
    <2>1. ASSUME g.status = "lost" PROVE g.outcome = "lost"
      BY <1>a, <2>1 DEF Terminales, ResultadoDe
    <2>2. CASE {"outcome", "codigo"} \intersect DOMAIN c # {}
      BY <1>a, <2>1, <2>2
    <2>3. CASE {"outcome", "codigo"} \intersect DOMAIN c = {}
      <3>1. g.outcome = f.outcome /\ g.codigo = f.codigo
        BY <1>5, <2>3, Campos
      <3>2. f.outcome = "lost" => f.status = "lost"
        BY <1>b DEF Terminales, ResultadoDe
      <3> QED
        BY <1>b, <2>1, <3>1, <3>2
    <2> QED
      BY <2>2, <2>3
  <1>8. FilaCoherente(h)
    <2>1. h.status \in {"submitted", "won", "lost"} => h.submitted_at # 0
      BY <1>2, <1>3, <1>4, <1>a
    <2>2. (h.closed_at # 0) <=> h.status \in Terminales
      BY <1>2, <1>3, <1>4, <1>6, <1>b
    <2>3. h.status = "won" => h.importe # SinImporte \/ h.razon
      BY <1>4, <1>a DEF Terminales, ResultadoDe
    <2> QED
      BY <1>4, <1>7, <1>a, <2>1, <2>2, <2>3 DEF FilaCoherente
  <1>9. SoloAvanza(f, h)
    <2>1. h.status # f.status => TransicionPermitida(f.status, h.status, "go")
      BY <1>4, <1>a DEF TransicionPermitida
    <2> QED
      BY <1>2, <2>1 DEF SoloAvanza
  <1> QED
    BY <1>2, <1>3, <1>8, <1>9 DEF FilaInv, FilaForma, h

-----------------------------------------------------------------------------
(* The requests at once.  What each has in hand is valid for the row it    *)
(* read, and the row is still that one if the version is: unless a client  *)
(* has sent a version ahead of the row.                                    *)
PeticionAlDia(p) ==
    /\ "fase" \in DOMAIN p
    /\ p.fase = "leida" =>
         /\ p.edicion \in Ediciones /\ p.version \in Nat
         /\ Adelanto = 0 =>
              /\ p.version <= fila.version
              /\ (p.version = fila.version /\ DOMAIN p.cambios # {}) =>
                   Valido(fila, p.cambios)

FilaBien ==
    /\ FilaForma(fila)
    /\ Adelanto = 0 => FilaCoherente(fila)
    /\ DOMAIN peticion = Manejadores
    /\ \A h \in Manejadores : PeticionAlDia(peticion[h])

(* The ledger holds one event per version, and no key twice. *)
LedgerBien ==
    /\ ledger \in Seq(Ediciones)
    /\ fila.version = 1 + Len(ledger)
    /\ \A k, l \in 1 .. Len(ledger) :
         (ledger[k] = ledger[l] /\ ledger[k] \in ConClave) => k = l

(* Whoever inserted the reservation creates the tasks, and nobody else. *)
EnTareas == { h \in Manejadores : peticion[h].fase = "tareas" }

PlantillaBien ==
    /\ DOMAIN plantilla = {"reservada", "listas"}
    /\ plantilla.listas \in 0 .. 1
    /\ EnTareas # {} => plantilla.reservada /\ plantilla.listas = 0
    /\ plantilla.listas = 1 => plantilla.reservada
    /\ \A h, k \in EnTareas : h = k

Inv == FilaBien /\ LedgerBien /\ PlantillaBien

LEMMA InvInicial == Init => Inv
  <1> SUFFICES ASSUME Init PROVE Inv
    OBVIOUS
  <1>1. fila \in Fila /\ FilaCoherente(fila) /\ fila.version = 1
    BY PursuitsAssumption DEF Init
  <1>2. FilaForma(fila) /\ FilaCoherente(fila)
    BY <1>1 DEF FilaForma, Fila, FilaNueva
  <1>3. \A h \in Manejadores : peticion[h] = Libre
    BY DEF Init
  <1>4. "fase" \in DOMAIN Libre /\ Libre.fase = "libre"
    BY DEF Libre
  <1>5. FilaBien
    BY <1>2, <1>3, <1>4 DEF FilaBien, PeticionAlDia, Init
  <1>6. LedgerBien
    BY <1>1 DEF LedgerBien, Init
  <1>7. EnTareas = {}
    BY <1>3, <1>4 DEF EnTareas
  <1>8. PlantillaBien
    BY <1>7 DEF PlantillaBien, Init
  <1> QED
    BY <1>5, <1>6, <1>8 DEF Inv

(* The changes a patch ends up in are of fields a person edits. *)
LEMMA CompletosEditables ==
    ASSUME NEW f, NEW p, DOMAIN p \subseteq Editables
    PROVE  DOMAIN Completos(f, p) \subseteq Editables
  <1> DEFINE d == Distintos(f, p)
             e == ConEstado(d)
  <1>1. DOMAIN d \subseteq Editables
    BY DEF Distintos
  <1> HIDE DEF d
  <1>2. DOMAIN e \subseteq Editables
    BY <1>1, Campos DEF ConEstado, Con
  <1> HIDE DEF e
  <1>3. DOMAIN ConResultado(e) \subseteq Editables
    BY <1>2, Campos DEF ConResultado, Con
  <1> QED
    BY <1>3 DEF Completos, e, d

(* A request that goes on is done with the row, and creates no tasks yet. *)
LEMMA YSigueFase ==
    ASSUME NEW p, NEW f, "fase" \in DOMAIN p
    PROVE  /\ "fase" \in DOMAIN YFin(p) /\ YFin(p).fase \notin {"leida", "tareas"}
           /\ "fase" \in DOMAIN YSigue(p, f) /\ YSigue(p, f).fase \notin {"leida", "tareas"}
  <1>1. "fase" \in DOMAIN Libre /\ Libre.fase = "libre"
    BY DEF Libre
  <1>2. \A q : "fase" \in DOMAIN q =>
          "fase" \in DOMAIN YFin(q) /\ YFin(q).fase \notin {"leida", "tareas"}
    BY <1>1 DEF YFin
  <1> DEFINE q == [p EXCEPT !.gana = TocaCartera(f, p.cambios)]
  <1>3. "fase" \in DOMAIN q
    OBVIOUS
  <1>4. YSigue(p, f) \in {[q EXCEPT !.fase = "plantilla"], YFin(q)}
    BY DEF YSigue
  <1> HIDE DEF q
  <1> QED
    BY <1>2, <1>3, <1>4

(* One request moves, the row stays. *)
LEMMA UnaSeMueve ==
    ASSUME FilaBien, NEW h \in Manejadores, NEW q,
           fila' = fila, peticion' = [peticion EXCEPT ![h] = q],
           PeticionAlDia(q)
    PROVE  FilaBien'
  <1>1. DOMAIN peticion' = Manejadores
    BY DEF FilaBien
  <1>2. \A k \in Manejadores : PeticionAlDia(peticion'[k])
    BY DEF FilaBien
  <1> QED
    BY <1>1, <1>2 DEF FilaBien, PeticionAlDia, FilaForma

LEMMA FilaPaso ==
    Inv /\ [Next]_vars =>
      FilaBien' /\ (Adelanto = 0 => fila' = fila \/ SoloAvanza(fila, fila'))
  <1> SUFFICES ASSUME Inv, [Next]_vars
               PROVE  FilaBien' /\ (Adelanto = 0 => fila' = fila \/ SoloAvanza(fila, fila'))
    OBVIOUS
  <1> USE DEF Inv
  <1>t. /\ \A h \in Manejadores : "fase" \in DOMAIN peticion[h]
        /\ DOMAIN peticion = Manejadores
    BY DEF FilaBien, PeticionAlDia
  <1>l. PeticionAlDia(Libre)
    BY DEF PeticionAlDia, Libre
  <1>1. ASSUME NEW h \in Manejadores, NEW e \in Ediciones, Leer(h, e) PROVE FilaBien'
    <2>1. PICK p \in Parches, v \in 1 .. fila.version + Adelanto :
            LET c == Completos(fila, p)
            IN  /\ DOMAIN c = {} \/ Admisible(fila, c)
                /\ peticion' = [peticion EXCEPT ![h] =
                      [fase |-> "leida", edicion |-> e, version |-> v, gana |-> FALSE,
                       cambios |-> IF DOMAIN c = {} THEN c ELSE ConSellos(fila, c)]]
      BY <1>1 DEF Leer
    <2> DEFINE c == Completos(fila, p)
               k == IF DOMAIN c = {} THEN c ELSE ConSellos(fila, c)
               q == [fase |-> "leida", edicion |-> e, version |-> v, gana |-> FALSE,
                     cambios |-> k]
    <2>2. DOMAIN c \subseteq Editables
      BY PursuitsAssumption, CompletosEditables
    <2>3. DOMAIN k # {} => Valido(fila, k)
      BY <2>1, <2>2 DEF Valido
    <2>4. v \in Nat /\ (Adelanto = 0 => v <= fila.version)
      BY PursuitsAssumption DEF FilaBien, FilaForma
    <2>5. peticion' = [peticion EXCEPT ![h] = q]
      BY <2>1
    <2> HIDE DEF k
    <2>6. PeticionAlDia(q)
      BY <2>3, <2>4 DEF PeticionAlDia
    <2> HIDE DEF q
    <2> QED
      BY <1>1, <2>5, <2>6, UnaSeMueve DEF Leer
  <1>2. ASSUME NEW h \in Manejadores, Escribir(h)
        PROVE  FilaBien' /\ (Adelanto = 0 => fila' = fila \/ SoloAvanza(fila, fila'))
    <2> DEFINE p == peticion[h]
               q == IF YaAnotada(p.edicion) \/ VersionVigente(p.version)
                    THEN YSigue(p, fila') ELSE Libre
    <2>1. peticion' = [peticion EXCEPT ![h] = q]
      BY <1>2 DEF Escribir
    <2>2. "fase" \in DOMAIN q /\ q.fase # "leida"
      BY <1>t, YSigueFase DEF Libre
    <2> HIDE DEF q
    <2>3. CASE fila' = fila
      <3>1. PeticionAlDia(q)
        BY <2>2 DEF PeticionAlDia
      <3> QED
        BY <2>1, <2>3, <3>1, UnaSeMueve
    <2>4. CASE fila' # fila
      <3>1. /\ fila' = Escrita(fila, p.cambios)
            /\ p.fase = "leida" /\ p.version = fila.version /\ DOMAIN p.cambios # {}
        BY <1>2, <2>4 DEF Escribir, Escrita, VersionVigente
      <3>2. Adelanto = 0 => Valido(fila, p.cambios) /\ FilaInv(fila)
        BY <3>1 DEF FilaBien, PeticionAlDia, FilaInv
      <3>3. Adelanto = 0 => FilaInv(fila') /\ SoloAvanza(fila, fila')
        BY <3>1, <3>2, CambioCoherente
      <3>4. /\ fila'.version = fila.version + 1 /\ fila.version \in Nat
            /\ DOMAIN fila' = DOMAIN FilaNueva
        BY <3>1 DEF Escrita, FilaBien, FilaForma, Aplicada, FilaNueva
      <3>5. \A k \in Manejadores : PeticionAlDia(peticion[k])
        BY DEF FilaBien
      <3>6. \A k \in Manejadores : PeticionAlDia(peticion[k])'
        BY <1>t, <2>1, <2>2, <3>4, <3>5 DEF PeticionAlDia
      <3> QED
        BY <1>t, <2>1, <3>3, <3>4, <3>6 DEF FilaBien, FilaForma, FilaInv
    <2> QED
      BY <2>3, <2>4
  <1>3. ASSUME NEW h \in Manejadores, Reservar(h) \/ CrearTareas(h) PROVE FilaBien'
    <2>1. PICK q \in {YFin(peticion[h]), [peticion[h] EXCEPT !.fase = "tareas"]} :
            fila' = fila /\ peticion' = [peticion EXCEPT ![h] = q]
      BY <1>3 DEF Reservar, CrearTareas, solicitud
    <2>2. PeticionAlDia(q)
      BY <1>t, YSigueFase DEF PeticionAlDia
    <2> QED
      BY <2>1, <2>2, UnaSeMueve
  <1>4. ASSUME NEW h \in Manejadores, Registrada(h) \/ NadaQueRegistrar(h) \/ Morir(h)
        PROVE  FilaBien'
    <2>1. fila' = fila /\ peticion' = [peticion EXCEPT ![h] = Libre]
      BY <1>4 DEF Registrada, NadaQueRegistrar, Morir, solicitud
    <2> QED
      BY <1>l, <2>1, UnaSeMueve
  <1>5. CASE UNCHANGED <<fila, peticion>>
    BY <1>5 DEF FilaBien, FilaForma, PeticionAlDia
  <1> QED
    BY <1>1, <1>2, <1>3, <1>4, <1>5
    DEF Next, Manejador, Registrar, LeerTodas, Sincronizar, FijarFecha, Prorroga, solicitud,
        Leer, Reservar, CrearTareas, Registrada, NadaQueRegistrar, Morir, vars

LEMMA LedgerPaso == Inv /\ [Next]_vars => LedgerBien'
  <1> SUFFICES ASSUME Inv, [Next]_vars PROVE LedgerBien'
    OBVIOUS
  <1>1. ASSUME NEW h \in Manejadores, Escribir(h), ledger' # ledger \/ fila' # fila
        PROVE  LedgerBien'
    <2> DEFINE e == peticion[h].edicion
    <2>1. /\ peticion[h].fase = "leida"
          /\ fila' = Escrita(fila, peticion[h].cambios)
          /\ ~YaAnotada(e)
          /\ ledger' = Append(ledger, e)
      BY <1>1 DEF Escribir, Escrita, YaAnotada
    <2>2. e \in Ediciones /\ DOMAIN fila = DOMAIN FilaNueva
      BY <2>1 DEF Inv, FilaBien, PeticionAlDia, FilaForma
    <2>3. fila'.version = fila.version + 1
      BY <2>1, <2>2 DEF Escrita, Aplicada, FilaNueva
    <2>4. ledger \in Seq(Ediciones) /\ fila.version = 1 + Len(ledger)
      BY DEF Inv, LedgerBien
    <2>5. /\ ledger' \in Seq(Ediciones) /\ Len(ledger') = Len(ledger) + 1
          /\ Len(ledger) \in Nat
          /\ ledger'[Len(ledger) + 1] = e
          /\ \A k \in 1 .. Len(ledger) : ledger'[k] = ledger[k]
      BY <2>1, <2>2, <2>4
    <2>6. e \in ConClave => \A k \in 1 .. Len(ledger) : ledger[k] # e
      BY <2>1 DEF YaAnotada, Anotadas
    <2>7. \A k \in 1 .. Len(ledger') : k \in 1 .. Len(ledger) \/ k = Len(ledger) + 1
      BY <2>5
    <2>8. \A k, l \in 1 .. Len(ledger) :
            (ledger[k] = ledger[l] /\ ledger[k] \in ConClave) => k = l
      BY DEF Inv, LedgerBien
    <2>9. \A k, l \in 1 .. Len(ledger') :
            (ledger'[k] = ledger'[l] /\ ledger'[k] \in ConClave) => k = l
      BY <2>5, <2>6, <2>7, <2>8
    <2> QED
      BY <2>3, <2>4, <2>5, <2>9 DEF LedgerBien
  <1>2. CASE UNCHANGED <<ledger, fila>>
    BY <1>2 DEF Inv, LedgerBien
  <1> QED
    BY <1>1, <1>2
    DEF Next, Manejador, Leer, Reservar, CrearTareas, Registrar, Registrada, NadaQueRegistrar,
        Morir, LeerTodas, Sincronizar, FijarFecha, Prorroga, solicitud, vars

LEMMA PlantillaPaso == Inv /\ [Next]_vars => PlantillaBien'
  <1> SUFFICES ASSUME Inv, [Next]_vars PROVE PlantillaBien'
    OBVIOUS
  <1>t. /\ \A h \in Manejadores : "fase" \in DOMAIN peticion[h]
        /\ DOMAIN peticion = Manejadores
        /\ PlantillaBien
    BY DEF Inv, FilaBien, PeticionAlDia
  <1>1. ASSUME NEW h \in Manejadores, NEW q, q.fase # "tareas",
               plantilla' = plantilla, peticion' = [peticion EXCEPT ![h] = q]
        PROVE  PlantillaBien'
    <2>1. EnTareas' \subseteq EnTareas
      BY <1>1, <1>t DEF EnTareas
    <2> QED
      BY <1>1, <1>t, <2>1 DEF PlantillaBien
  <1>2. ASSUME NEW h \in Manejadores, Reservar(h) PROVE PlantillaBien'
    <2>1. CASE plantilla.reservada
      <3>1. /\ plantilla' = [plantilla EXCEPT !.reservada = TRUE]
            /\ peticion' = [peticion EXCEPT ![h] = YFin(peticion[h])]
        BY <1>2, <2>1 DEF Reservar
      <3>2. EnTareas' \subseteq EnTareas
        BY <1>t, <3>1, YSigueFase DEF EnTareas
      <3> QED
        BY <1>t, <2>1, <3>1, <3>2 DEF PlantillaBien
    <2>2. CASE ~plantilla.reservada
      <3>1. /\ plantilla' = [plantilla EXCEPT !.reservada = TRUE]
            /\ peticion' = [peticion EXCEPT ![h] = [peticion[h] EXCEPT !.fase = "tareas"]]
        BY <1>2, <2>2 DEF Reservar
      <3>2. EnTareas = {} /\ plantilla.listas = 0
        BY <1>t, <2>2 DEF PlantillaBien
      <3>3. EnTareas' \subseteq {h}
        BY <1>t, <3>1, <3>2 DEF EnTareas
      <3>4. DOMAIN plantilla' = {"reservada", "listas"} /\ plantilla'.reservada
            /\ plantilla'.listas = 0
        BY <1>t, <3>1, <3>2 DEF PlantillaBien
      <3> QED
        BY <3>3, <3>4 DEF PlantillaBien
    <2> QED
      BY <2>1, <2>2
  <1>3. ASSUME NEW h \in Manejadores, CrearTareas(h) PROVE PlantillaBien'
    <2>1. h \in EnTareas
      BY <1>3 DEF CrearTareas, EnTareas
    <2>2. plantilla.reservada /\ plantilla.listas = 0 /\ EnTareas \subseteq {h}
      BY <1>t, <2>1 DEF PlantillaBien
    <2>3. /\ plantilla' = [plantilla EXCEPT !.listas = plantilla.listas + 1]
          /\ peticion' = [peticion EXCEPT ![h] = YFin(peticion[h])]
      BY <1>3 DEF CrearTareas
    <2>4. EnTareas' = {}
      BY <1>t, <2>2, <2>3, YSigueFase DEF EnTareas
    <2>5. /\ DOMAIN plantilla' = {"reservada", "listas"} /\ plantilla'.listas = 1
          /\ plantilla'.reservada
      BY <1>t, <2>2, <2>3 DEF PlantillaBien
    <2> QED
      BY <2>4, <2>5 DEF PlantillaBien
  <1>4. ASSUME NEW h \in Manejadores, NEW e \in Ediciones, Leer(h, e) PROVE PlantillaBien'
    <2>1. PICK q : /\ q.fase # "tareas"
                   /\ plantilla' = plantilla /\ peticion' = [peticion EXCEPT ![h] = q]
      BY <1>4 DEF Leer
    <2> QED
      BY <1>1, <2>1
  <1>5. ASSUME NEW h \in Manejadores, Escribir(h) PROVE PlantillaBien'
    <2> DEFINE p == peticion[h]
               q == IF YaAnotada(p.edicion) \/ VersionVigente(p.version)
                    THEN YSigue(p, fila') ELSE Libre
    <2>1. plantilla' = plantilla /\ peticion' = [peticion EXCEPT ![h] = q]
      BY <1>5 DEF Escribir
    <2>2. q.fase # "tareas"
      BY <1>t, YSigueFase DEF Libre
    <2> QED
      BY <1>1, <2>1, <2>2
  <1>6. ASSUME NEW h \in Manejadores, Registrada(h) \/ NadaQueRegistrar(h) \/ Morir(h)
        PROVE  PlantillaBien'
    <2>1. plantilla' = plantilla /\ peticion' = [peticion EXCEPT ![h] = Libre]
      BY <1>6 DEF Registrada, NadaQueRegistrar, Morir
    <2>2. Libre.fase # "tareas"
      BY DEF Libre
    <2> QED
      BY <1>1, <2>1, <2>2
  <1>7. CASE UNCHANGED <<plantilla, peticion>>
    BY <1>t, <1>7 DEF PlantillaBien, EnTareas
  <1> QED
    BY <1>2, <1>3, <1>4, <1>5, <1>6, <1>7
    DEF Next, Manejador, Registrar, LeerTodas, Sincronizar, FijarFecha, Prorroga, vars

LEMMA InvPaso == Inv /\ [Next]_vars => Inv'
  BY FilaPaso, LedgerPaso, PlantillaPaso DEF Inv

-----------------------------------------------------------------------------
(* However many people edit the opportunity at once, retry or are cut off, *)
(* the row is one that a single patch could have left (pursuits.py:973,    *)
(* db/repositories/pursuits.py:658), as long as every version that a       *)
(* client sends is one it was given.                                       *)
THEOREM LaFilaEsCoherente ==
    ASSUME Adelanto = 0
    PROVE  Spec => []Coherente
  <1>1. Inv => Coherente
    BY DEF Inv, FilaBien, Coherente
  <1> QED
    BY <1>1, InvInicial, InvPaso, PTL DEF Spec

(* The funnel never goes back, and the dates of the submission and of the  *)
(* close are written once (pursuits.py:126, 1033), of the same clients.    *)
THEOREM ElEmbudoAvanza ==
    ASSUME Adelanto = 0
    PROVE  Spec => EmbudoSoloAvanza
  <1>1. Inv /\ [Next]_vars => [SoloAvanza(fila, fila')]_fila
    BY FilaPaso
  <1> QED
    BY <1>1, InvInicial, InvPaso, PTL DEF Spec, EmbudoSoloAvanza

(* One event per version, one effect per key and one task list, for any    *)
(* number of requests and retries, whatever versions they send            *)
(* (db/repositories/pursuits.py:656, 1323).                                *)
THEOREM CadaEdicionUnaVez == Spec => []UnaSolaVez
  <1>1. Inv => UnaSolaVez
    BY DEF Inv, LedgerBien, PlantillaBien, UnaSolaVez
  <1> QED
    BY <1>1, InvInicial, InvPaso, PTL DEF Spec
=============================================================================
