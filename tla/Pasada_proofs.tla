-------------------------- MODULE Pasada_proofs --------------------------
(* Proofs about the ingestion of a source and its fall back to the ZIPs:    *)
(* for feeds of any length, in either order, with any batch and page limit  *)
(* and any number of failures, there are two ways to leave a notice behind  *)
(* without a trace and no other, and no tender goes back to an older        *)
(* version within the feed.                                                 *)
EXTENDS RespaldoZip, Reintentos, FiniteSetTheorems, SequenceTheorems, FunctionTheorems,
        WellFoundedInduction, TLAPS

Leyendo == pasada.fase = "leyendo"

(* What the run in progress has read since the cursor, or the top. *)
Leido ==
    IF Incremental THEN cursor.marca + 1 .. pasada.sig - 1
    ELSE pasada.sig + 1 .. pasada.cima

EnLote(n) == \E m \in MismoExpediente(n, pasada.lote) : m >= n

(* Where a run is. *)
Lugar ==
    /\ cursor.marca <= EnFeed
    /\ asc => pasada.fuente = Feed
    /\ ~Leyendo => pasada.lote = {}
    /\ Leyendo /\ Incremental =>
         /\ cursor.marca < pasada.sig /\ pasada.sig <= EnFeed + 1
         /\ pasada.nuevo.marca = pasada.sig - 1
    /\ Leyendo /\ ~Incremental =>
         /\ pasada.fin <= pasada.sig /\ pasada.sig <= pasada.cima /\ pasada.cima <= EnFeed
         /\ pasada.fuente = Feed =>
              \/ pasada.nuevo.marca = cursor.marca
              \/ /\ pasada.nuevo.marca = pasada.cima /\ cursor.marca <= pasada.cima
                 /\ cursor.marca + 1 .. pasada.fin \subseteq pasada.hueco

(* What became of a notice that did not parse: it is on record, or could    *)
(* not be put there.                                                        *)
Rastro(n) == Anotado(n, {Feed}) \/ NoAnotado(n, {Feed})

(* The batch holds the newest version read of each of its tenders. *)
LoteBien ==
    Leyendo =>
      /\ pasada.lote \subseteq Leido \ rotos
      /\ \A n \in pasada.lote, m \in Leido \ rotos :
           ExpedienteDe[m] = ExpedienteDe[n] => m <= n

(* What was read has left its trace, is in the batch or, from the newest   *)
(* to the oldest, already written.                                         *)
Cuenta ==
    Leyendo /\ pasada.fuente = Feed =>
      \A n \in Leido : IF n \in rotos THEN Rastro(n)
                       ELSE EnLote(n) \/ (~Incremental /\ Ingerido(n))

(* The row of a tender comes from a notice of its own. *)
Guardados ==
    \A e \in Expedientes :
      guardado[e] # 0 => /\ guardado[e] <= EnFeed /\ guardado[e] \notin rotos
                         /\ ExpedienteDe[guardado[e]] = e

(* Newest first: nothing is written from beyond the top of the run. *)
Cimas ==
    Leyendo /\ ~asc /\ pasada.fuente = Feed =>
      \A e \in Expedientes : guardado[e] <= pasada.cima

(* Oldest first: what a cut batch wrote beyond the cursor, the next batch   *)
(* reaches before it is full.                                               *)
Anteriores(n) == { ExpedienteDe[k] : k \in (cursor.marca + 1 .. n - 1) \ rotos }

Turnos ==
    asc => /\ \A e \in Expedientes :
                guardado[e] > cursor.marca =>
                  Cardinality(Anteriores(guardado[e])) < TamLote
           /\ \A n \in pasada.lote : Cardinality(Anteriores(n)) < TamLote

PasadaInv ==
    /\ PasadaTypeOK
    /\ Lugar /\ LoteBien /\ Cuenta /\ Guardados
    /\ NadaSeSalta

(* What keeps a tender from going back.  It holds as long as the parser is  *)
(* the same: one that is repaired reads more tenders in the same notices.   *)
Orden == Cimas /\ Turnos

(* The queue after a step: no trace gets lost. *)
DlqSigue ==
    /\ DlqTypeOK'
    /\ \A n : Rastro(n) => Rastro(n)'

-----------------------------------------------------------------------------
LEMMA Constantes ==
    /\ MaxAvisos \in Nat /\ MaxMes \in Nat /\ Tope \in Nat \ {0} /\ TamLote \in Nat \ {0}
    /\ MaxAverias \in Nat /\ ExpedienteDe \in [Avisos -> Expedientes]
    /\ MaxFilas \in Nat /\ MaxReintentos \in Nat
    /\ \A f \in Fuentes, q \in {Fetch} \union Avisos : [fuente |-> f, que |-> q] \in Entradas
    /\ \A k \in Entradas : k = [fuente |-> k.fuente, que |-> k.que]
  BY PasadaAssumption, DlqAssumption

LEMMA Cotas == MaxAvisos \in Nat /\ MaxAvisos \in Int /\ TamLote \in Nat
  BY PasadaAssumption

LEMMA CamposPasada ==
    ASSUME PasadaTypeOK
    PROVE  /\ pasada.fase \in {"parada", "leyendo", "cerrada"} /\ pasada.fuente \in Fuentes
           /\ pasada.cima \in 0 .. MaxAvisos /\ pasada.sig \in 0 .. MaxAvisos + 1
           /\ pasada.fin \in 0 .. MaxAvisos /\ pasada.nuevo \in Cursor
           /\ pasada.nuevo.marca \in 0 .. MaxAvisos /\ pasada.nuevo.marca \in Int
           /\ pasada.lote \subseteq Avisos /\ pasada.errores \in BOOLEAN
           /\ pasada.fallida \in BOOLEAN /\ pasada.hueco \subseteq Avisos
           /\ cursor.marca \in 0 .. MaxAvisos /\ cursor.etag \in SinEtag .. MaxAvisos
           /\ EnFeed \in 0 .. MaxAvisos
           /\ pasada.cima \in Int /\ pasada.sig \in Int /\ pasada.fin \in Int
           /\ cursor.marca \in Int /\ EnFeed \in Int
  <1>1. EnFeed \in 0 .. MaxAvisos
    BY LenProperties, Constantes DEF PasadaTypeOK, EnFeed
  <1>2. /\ pasada.fase \in {"parada", "leyendo", "cerrada"} /\ pasada.fuente \in Fuentes
        /\ pasada.cima \in 0 .. MaxAvisos /\ pasada.sig \in 0 .. MaxAvisos + 1
        /\ pasada.fin \in 0 .. MaxAvisos /\ pasada.nuevo \in Cursor
        /\ pasada.lote \subseteq Avisos /\ pasada.errores \in BOOLEAN
        /\ pasada.fallida \in BOOLEAN /\ pasada.hueco \subseteq Avisos
    BY DEF PasadaTypeOK, Pasada
  <1>3. \A c \in Cursor : c.marca \in 0 .. MaxAvisos /\ c.etag \in SinEtag .. MaxAvisos
    BY DEF Cursor
  <1>4. cursor \in Cursor
    BY DEF PasadaTypeOK
  <1>5. \A k \in 0 .. MaxAvisos + 1 : k \in Int
    OBVIOUS
  <1>6. \A k \in 0 .. MaxAvisos : k \in Int
    OBVIOUS
  <1>7. /\ pasada.cima \in Int /\ pasada.sig \in Int /\ pasada.fin \in Int
        /\ pasada.nuevo.marca \in 0 .. MaxAvisos /\ cursor.marca \in 0 .. MaxAvisos
        /\ cursor.etag \in SinEtag .. MaxAvisos
    BY <1>2, <1>3, <1>4, <1>5, <1>6
  <1> QED
    BY <1>1, <1>2, <1>6, <1>7

LEMMA ParadaEs == Parada \in Pasada /\ Parada.lote = {}
  BY Constantes DEF Parada, Pasada, Cursor, SinEtag, Fuentes, Feed

-----------------------------------------------------------------------------
(* What record_failure() leaves. *)
LEMMA IntentadaEs ==
    ASSUME NEW f \in Fila
    PROVE  /\ Intentada(f) \in Fila /\ Intentada(f).clave = f.clave
           /\ Intentada(f).resuelta = f.resuelta
  <1> DEFINE n == IF f.intentos < MaxReintentos THEN f.intentos + 1 ELSE f.intentos
  <1>1. Intentada(f) = [f EXCEPT !.intentos = n, !.vencida = FALSE]
    BY DEF Intentada
  <1>2. n \in 0 .. MaxReintentos
    BY Constantes DEF Fila
  <1> HIDE DEF n
  <1> QED
    BY <1>1, <1>2 DEF Fila

LEMMA NuevaEs ==
    ASSUME NEW k \in Entradas
    PROVE  Nueva(k) \in Fila /\ Nueva(k).clave = k
  BY Constantes DEF Nueva, Fila

LEMMA AnotarEs ==
    ASSUME DlqTypeOK, NEW k \in Entradas, Anotable(k), Anotar(k)
    PROVE  /\ DlqTypeOK'
           /\ \A d \in Filas : /\ d \in Filas' /\ dlq'[d].clave = dlq[d].clave
                                /\ dlq'[d].resuelta = dlq[d].resuelta
           /\ \E d \in Filas' : dlq'[d].clave = k
  <1>1. CASE AbiertasDe(k) # {}
    <2> DEFINE g == [d \in Filas |-> IF d \in AbiertasDe(k) THEN Intentada(dlq[d]) ELSE dlq[d]]
    <2>1. dlq' = g
      BY <1>1 DEF Anotar
    <2>2. Len(dlq) \in Nat /\ Filas = 1 .. Len(dlq) /\ \A d \in Filas : dlq[d] \in Fila
      BY DEF DlqTypeOK, Filas
    <2>3. \A d \in Filas : /\ g[d] \in Fila /\ g[d].clave = dlq[d].clave
                          /\ g[d].resuelta = dlq[d].resuelta
      BY <2>2, IntentadaEs
    <2>4. g \in Seq(Fila) /\ Len(g) = Len(dlq) /\ DOMAIN g = Filas
      <3>1. g \in [1 .. Len(dlq) -> Fila]
        BY <2>2, <2>3
      <3>2. g \in Seq(Fila)
        BY <2>2, <3>1, SeqDef
      <3>3. Len(g) \in Nat /\ DOMAIN g = 1 .. Len(g) /\ DOMAIN g = 1 .. Len(dlq)
        BY <2>2, <3>1, <3>2, LenProperties
      <3> HIDE DEF g
      <3>4. 1 .. Len(g) = 1 .. Len(dlq)
        BY <3>3
      <3>5. Len(g) = Len(dlq)
        BY <2>2, <3>3, <3>4
      <3> QED
        BY <2>2, <3>2, <3>3, <3>5
    <2>5. PICK d \in Filas : dlq[d].clave = k
      BY <1>1 DEF AbiertasDe, Abiertas
    <2> HIDE DEF g
    <2>6. Filas' = Filas
      BY <2>1, <2>4 DEF Filas
    <2> QED
      BY <2>1, <2>3, <2>4, <2>5, <2>6 DEF DlqTypeOK
  <1>2. CASE AbiertasDe(k) = {}
    <2>1. dlq' = Append(dlq, Nueva(k)) /\ Len(dlq) < MaxFilas
      BY <1>2 DEF Anotar, Anotable
    <2>2. /\ dlq' \in Seq(Fila) /\ Len(dlq') = Len(dlq) + 1
          /\ \A d \in 1 .. Len(dlq) : dlq'[d] = dlq[d]
          /\ dlq'[Len(dlq) + 1] = Nueva(k)
      BY <2>1, NuevaEs, AppendProperties DEF DlqTypeOK
    <2>3. Len(dlq) \in Nat /\ Filas = 1 .. Len(dlq) /\ Filas' = 1 .. Len(dlq) + 1
      BY <2>2 DEF DlqTypeOK, Filas
    <2>4. Nueva(k).clave = k
      BY NuevaEs
    <2> QED
      BY <2>1, <2>2, <2>3, <2>4, Constantes DEF DlqTypeOK
  <1> QED
    BY <1>1, <1>2

LEMMA AnotarFalloEs ==
    ASSUME PasadaTypeOK, NEW k \in Entradas, AnotarFallo(k)
    PROVE  /\ DlqTypeOK' /\ noAnotados' \subseteq Entradas
           /\ \A n : Rastro(n) => Rastro(n)'
           /\ k.que # Fetch /\ k.fuente = Feed => Rastro(k.que)'
           /\ \A d \in Filas : d \in Filas' /\ dlq'[d].resuelta = dlq[d].resuelta
  <1>1. CASE Anotable(k) /\ Anotar(k) /\ noAnotados' = noAnotados
    <2>1. DlqTypeOK
      BY DEF PasadaTypeOK
    <2> QED
      BY <1>1, <2>1, AnotarEs DEF PasadaTypeOK, Rastro, Anotado, NoAnotado
  <1>2. CASE noAnotados' = noAnotados \union ({k} \ Descargas) /\ dlq' = dlq
    <2>1. DlqTypeOK' /\ Filas' = Filas
      BY <1>2 DEF PasadaTypeOK, DlqTypeOK, Fila, Filas
    <2>2. k.que # Fetch => k \in noAnotados'
      BY <1>2 DEF Descargas
    <2>3. k = [fuente |-> k.fuente, que |-> k.que]
      BY Constantes
    <2> QED
      BY <1>2, <2>1, <2>2, <2>3 DEF PasadaTypeOK, Rastro, Anotado, NoAnotado
  <1> QED
    BY <1>1, <1>2 DEF AnotarFallo

(* What a write of S, which has one version of each tender, leaves. *)
LEMMA EscribirEs ==
    ASSUME PasadaTypeOK, NEW S, S \subseteq Avisos, Escribir(S),
           \A m, n \in S : ExpedienteDe[m] = ExpedienteDe[n] => m = n
    PROVE  /\ guardado' \in [Expedientes -> 0 .. MaxAvisos]
           /\ alcanzado' \in [Expedientes -> 0 .. MaxAvisos]
           /\ \A e \in Expedientes :
                \/ guardado'[e] = guardado[e]
                \/ \E n \in S : ExpedienteDe[n] = e /\ guardado'[e] = n
           /\ \A n \in Avisos : Ingerido(n) => Ingerido(n)'
           /\ \A n \in S : Ingerido(n)'
  <1>1. \A e \in Expedientes :
          IF \E n \in S : ExpedienteDe[n] = e
          THEN \E n \in S : ExpedienteDe[n] = e /\ guardado'[e] = n
          ELSE guardado'[e] = guardado[e]
    BY DEF Escribir
  <1>2. \A e \in Expedientes : guardado[e] \in 0 .. MaxAvisos /\ alcanzado[e] \in 0 .. MaxAvisos
    BY DEF PasadaTypeOK
  <1>3. DOMAIN guardado' = Expedientes /\ \A e \in Expedientes : guardado'[e] \in 0 .. MaxAvisos
    BY <1>1, <1>2, Constantes DEF Escribir, Avisos
  <1>4. guardado' \in [Expedientes -> 0 .. MaxAvisos]
    BY <1>3 DEF Escribir
  <1>5. \A e \in Expedientes :
          alcanzado'[e] = IF guardado'[e] > alcanzado[e] THEN guardado'[e] ELSE alcanzado[e]
    BY DEF Escribir
  <1>6. /\ alcanzado' \in [Expedientes -> 0 .. MaxAvisos]
        /\ \A e \in Expedientes : alcanzado'[e] >= alcanzado[e] /\ alcanzado'[e] >= guardado'[e]
    BY <1>2, <1>3, <1>5 DEF Escribir
  <1>7. ASSUME NEW n \in Avisos, Ingerido(n) PROVE Ingerido(n)'
    <2>1. ExpedienteDe[n] \in Expedientes /\ n \in Int
      BY Constantes DEF Avisos
    <2> QED
      BY <1>2, <1>6, <1>7, <2>1 DEF Ingerido
  <1>8. ASSUME NEW n \in S PROVE Ingerido(n)'
    <2>1. ExpedienteDe[n] \in Expedientes /\ n \in Int
      BY Constantes DEF Avisos
    <2>2. guardado'[ExpedienteDe[n]] = n
      BY <1>1, <2>1
    <2> QED
      BY <1>6, <2>1, <2>2 DEF Ingerido
  <1> QED
    BY <1>1, <1>4, <1>6, <1>7, <1>8

(* The newest of a set of notices. *)
LEMMA CimaEs ==
    ASSUME NEW S, S \subseteq Avisos, S # {}
    PROVE  /\ (CHOOSE n \in S : \A k \in S : k <= n) \in S
           /\ Cardinality(S) <= (CHOOSE n \in S : \A k \in S : k <= n)
           /\ Cardinality(S) \in Nat
  <1> DEFINE R == OpToRel(<, Nat)
             T == { MaxAvisos - k : k \in S }
  <1>1. S \subseteq Nat /\ T \subseteq Nat /\ T # {}
    BY Constantes DEF Avisos
  <1>2. IsWellFoundedOn(R, Nat) /\ \A x, y \in Nat : y < x => <<y, x>> \in R
    BY NatLessThanWellFounded DEF OpToRel
  <1> HIDE DEF R
  <1>3. PICK x \in T : \A y \in T : ~ (<<y, x>> \in R)
    BY <1>1, <1>2, WFMin
  <1>4. PICK n \in S : x = MaxAvisos - n
    BY <1>3
  <1>5. ASSUME NEW k \in S PROVE k <= n
    <2>1. MaxAvisos - k \in T /\ ~ (MaxAvisos - k < x)
      BY <1>1, <1>2, <1>3
    <2> QED
      BY <1>1, <1>4, <2>1, Constantes
  <1> DEFINE c == CHOOSE m \in S : \A k \in S : k <= m
  <1>6. c \in S /\ \A k \in S : k <= c
    BY <1>5
  <1> HIDE DEF c
  <1>7. S \subseteq 1 .. c /\ c \in Nat
    BY <1>1, <1>6 DEF Avisos
  <1>8. /\ IsFiniteSet(1 .. c)
        /\ Cardinality(1 .. c) = c
    BY <1>6, <1>7, FS_Interval DEF Avisos
  <1>9. Cardinality(S) <= c /\ Cardinality(S) \in Nat
    BY <1>7, <1>8, FS_Subset, FS_CardinalityType
  <1> QED
    BY <1>6, <1>9 DEF c

-----------------------------------------------------------------------------
(* The steps of a run, over what a process reads and writes.                *)
LEMMA InicioPasada == PasadaInit => PasadaInv /\ Orden
  <1> SUFFICES ASSUME PasadaInit PROVE PasadaInv /\ Orden
    OBVIOUS
  <1>1. EnFeed = 0 /\ rotos \subseteq Avisos /\ asc \in BOOLEAN
    BY PasadaAssumption DEF PasadaInit, EnFeed
  <1>2. pasada.fase = "parada" /\ pasada.lote = {} /\ pasada.fuente = Feed /\ cursor.marca = 0
        /\ \A e \in Expedientes : guardado[e] = 0
    BY DEF PasadaInit, Parada
  <1>3. PasadaTypeOK
    <2>1. DlqTypeOK /\ publicado \in Seq(1 .. MaxDias) /\ Len(publicado) <= MaxAvisos
      BY Constantes DEF PasadaInit, DlqTypeOK
    <2>2. /\ cursor \in Cursor
          /\ guardado \in [Expedientes -> 0 .. MaxAvisos]
          /\ alcanzado \in [Expedientes -> 0 .. MaxAvisos]
          /\ averias \in 0 .. MaxAverias
      BY Constantes DEF PasadaInit, Cursor, SinEtag
    <2> QED
      BY <1>1, <2>1, <2>2, ParadaEs DEF PasadaInit, PasadaTypeOK
  <1>4. Lugar /\ LoteBien /\ Cuenta /\ Guardados /\ Cimas
    BY <1>1, <1>2 DEF Lugar, LoteBien, Cuenta, Guardados, Cimas, Leyendo
  <1>5. Turnos /\ NadaSeSalta
    BY <1>2 DEF Turnos, NadaSeSalta, Rastro, Avisos
  <1> QED
    BY <1>3, <1>4, <1>5 DEF PasadaInv, Orden

LEMMA DlqQuieta ==
    ASSUME PasadaInv, dlq' = dlq, noAnotados' = noAnotados
    PROVE  DlqSigue
  <1>1. DlqTypeOK'
    BY DEF PasadaInv, PasadaTypeOK, DlqTypeOK
  <1>2. \A n : Rastro(n)' <=> Rastro(n)
    BY DEF Rastro, Anotado, NoAnotado, Filas
  <1> QED
    BY <1>1, <1>2 DEF DlqSigue

(* A run that has read nothing yet. *)
LEMMA AlEmpezar ==
    ASSUME PasadaInv, UNCHANGED <<tablasIngesta, entorno>>, averias' \in 0 .. MaxAverias, DlqSigue,
           pasada' \in Pasada, pasada'.lote = {}, Leyendo' => Leido' = {}, Lugar'
    PROVE  PasadaInv' /\ (Orden /\ Cimas' => Orden')
  <1>1. PasadaTypeOK'
    BY DEF PasadaInv, PasadaTypeOK, tablasIngesta, entorno, DlqSigue
  <1>2. LoteBien' /\ Cuenta'
    BY DEF LoteBien, Cuenta
  <1>3. Guardados' /\ NadaSeSalta'
    BY DEF PasadaInv, Guardados, NadaSeSalta, Rastro, EnFeed, tablasIngesta, entorno, Ingerido, DlqSigue
  <1>4. \A n : Anteriores(n)' = Anteriores(n)
    BY DEF Anteriores, tablasIngesta, entorno
  <1>5. Turnos => Turnos'
    BY <1>4 DEF Turnos, tablasIngesta, entorno
  <1> QED
    BY <1>1, <1>2, <1>3, <1>5 DEF PasadaInv, Orden

LEMMA EmpezarFeedPaso ==
    ASSUME PasadaInv, EmpezarFeed, UNCHANGED <<tablasIngesta, dlq, entorno>>
    PROVE  PasadaInv' /\ (Orden => Orden') /\ pasada'.fuente = Feed /\ Leyendo'
  <1>0. DlqSigue
    BY DlqQuieta DEF tablasIngesta
  <1>1. /\ cursor.marca \in 0 .. MaxAvisos /\ EnFeed \in 0 .. MaxAvisos
        /\ cursor.etag \in SinEtag .. MaxAvisos /\ cursor.marca <= EnFeed
        /\ cursor \in Cursor
    BY CamposPasada DEF PasadaInv, Lugar, PasadaTypeOK
  <1>2. EnFeed' = EnFeed /\ asc' = asc /\ cursor' = cursor /\ guardado' = guardado
    BY DEF EnFeed, tablasIngesta, entorno
  <1>3. averias' \in 0 .. MaxAverias
    BY Constantes DEF EmpezarFeed, PasadaInv, PasadaTypeOK
  <1>4. CASE asc
    <2>1. pasada' = [Parada EXCEPT !.fase = "leyendo", !.sig = cursor.marca + 1, !.nuevo = cursor]
      BY <1>4 DEF EmpezarFeed
    <2>2. /\ pasada'.fase = "leyendo" /\ pasada'.fuente = Feed /\ pasada'.lote = {}
          /\ pasada'.sig = cursor.marca + 1 /\ pasada'.nuevo = cursor
      BY <2>1 DEF Parada
    <2>3. pasada' \in Pasada
      <3>1. cursor.marca + 1 \in 0 .. MaxAvisos + 1
        BY <1>1, Constantes
      <3> QED
        BY <1>1, <2>1, <3>1, ParadaEs DEF Pasada
    <2>4. Leyendo' /\ Incremental' /\ Leido' = {}
      BY <1>1, <1>2, <1>4, <2>2 DEF Leyendo, Incremental, Leido
    <2>5. Lugar' /\ Cimas'
      BY <1>1, <1>2, <1>4, <2>2, <2>4 DEF Lugar, Cimas
    <2> QED
      BY <1>0, <1>3, <2>2, <2>3, <2>4, <2>5, AlEmpezar
  <1>5. CASE ~asc
    <2>1. PICK f \in 0 .. MaxAvisos, v \in Cursor, h \in SUBSET Avisos :
            /\ pasada' = HaciaAtras(f, v, h) /\ f <= EnFeed
            /\ \/ v.marca = cursor.marca
               \/ v.marca = EnFeed /\ cursor.marca + 1 .. f \subseteq h
      <3>1. Fondo \in 0 .. MaxAvisos /\ Fondo <= EnFeed
        BY <1>1, Constantes DEF Fondo, TopeAgotado
      <3>2. AlMasNuevo \in Cursor /\ AlMasNuevo.marca = EnFeed
        BY <1>1 DEF AlMasNuevo, Cursor, SinEtag
      <3>3. CASE pasada' = HaciaAtras(Fondo, CursorSiguiente, {})
        <4>1. CASE TopeAgotado
          <5>1. CursorSiguiente \in Cursor /\ CursorSiguiente.marca = cursor.marca
            BY <1>1, <4>1, Constantes DEF CursorSiguiente, Cursor, SinEtag
          <5> QED
            BY <3>1, <3>3, <5>1
        <4>2. CASE ~TopeAgotado
          <5>1. CursorSiguiente = AlMasNuevo /\ Fondo = cursor.marca
            BY <4>2 DEF CursorSiguiente, Fondo
          <5>2. cursor.marca + 1 .. Fondo \subseteq {}
            BY <1>1, <5>1
          <5> QED
            BY <3>1, <3>2, <3>3, <5>1, <5>2
        <4> QED
          BY <4>1, <4>2
      <3>4. ASSUME NEW f \in Fondo .. EnFeed - 1,
                   pasada' = HaciaAtras(f, AlMasNuevo, cursor.marca + 1 .. f)
            PROVE  /\ f \in 0 .. MaxAvisos /\ f <= EnFeed
                   /\ cursor.marca + 1 .. f \in SUBSET Avisos
        BY <1>1, <3>1, <3>4, Cotas DEF Avisos
      <3> QED
        BY <1>5, <3>2, <3>3, <3>4 DEF EmpezarFeed
    <2>2. /\ pasada'.fase = "leyendo" /\ pasada'.fuente = Feed /\ pasada'.lote = {}
          /\ pasada'.sig = EnFeed /\ pasada'.cima = EnFeed /\ pasada'.nuevo = v
          /\ pasada'.fin = f /\ pasada'.hueco = h
      BY <2>1 DEF HaciaAtras, Parada
    <2>3. pasada' \in Pasada
      <3>1. EnFeed \in 0 .. MaxAvisos + 1
        BY <1>1, Constantes
      <3>2. pasada' = [Parada EXCEPT !.fase = "leyendo", !.cima = EnFeed, !.sig = EnFeed,
                                     !.fin = f, !.nuevo = v, !.hueco = h]
        BY <2>1 DEF HaciaAtras
      <3> QED
        BY <1>1, <3>1, <3>2, ParadaEs DEF Pasada
    <2>4. Leyendo' /\ ~Incremental' /\ Leido' = {}
      BY <1>1, <1>2, <1>5, <2>2 DEF Leyendo, Incremental, Leido
    <2>5. Lugar'
      BY <1>1, <1>2, <2>1, <2>2, <2>4 DEF Lugar
    <2>6. Cimas'
      BY <1>1, <1>2, <2>2 DEF Cimas, PasadaInv, Guardados
    <2> QED
      BY <1>0, <1>3, <2>2, <2>3, <2>4, <2>5, <2>6, AlEmpezar
  <1> QED
    BY <1>4, <1>5 DEF PasadaInv

LEMMA EmpezarZipPaso ==
    ASSUME PasadaInv, ~asc, NEW m \in Meses, NEW S, S \subseteq 1 .. EnFeed, EmpezarZip(m, S),
           UNCHANGED <<escrito, dlq, entorno>>
    PROVE  PasadaInv' /\ (Orden => Orden') /\ pasada'.fuente = m /\ Leyendo'
  <1>0. DlqSigue
    BY DlqQuieta DEF escrito, tablasIngesta
  <1>1. /\ EnFeed \in 0 .. MaxAvisos /\ cursor.marca <= EnFeed
        /\ EnFeed' = EnFeed /\ asc' = asc /\ cursor' = cursor
    BY CamposPasada DEF PasadaInv, Lugar, EnFeed, escrito, tablasIngesta, entorno
  <1> DEFINE c == IF S = {} THEN 0 ELSE CHOOSE n \in S : \A k \in S : k <= n
             f == c - Cardinality(S)
  <1>2. pasada' = [Parada EXCEPT !.fase = "leyendo", !.fuente = m, !.cima = c, !.sig = c, !.fin = f]
    BY DEF EmpezarZip
  <1>3. S \subseteq Avisos
    BY <1>1, Constantes DEF Avisos
  <1>4. c \in 0 .. EnFeed /\ f \in 0 .. MaxAvisos /\ f <= c
    <2>1. CASE S = {}
      BY <1>1, <2>1, FS_EmptySet, Constantes
    <2>2. CASE S # {}
      <3>1. c \in S /\ Cardinality(S) <= c /\ Cardinality(S) \in Nat
        BY <1>3, <2>2, CimaEs
      <3> HIDE DEF c
      <3> QED
        BY <1>1, <3>1, Constantes
    <2> QED
      BY <2>1, <2>2
  <1> HIDE DEF c, f
  <1>5. /\ pasada'.fase = "leyendo" /\ pasada'.fuente = m /\ pasada'.lote = {}
        /\ pasada'.sig = c /\ pasada'.cima = c /\ pasada'.fin = f
    BY <1>2 DEF Parada
  <1>6. m \in Fuentes /\ m # Feed
    BY Constantes DEF Meses, Fuentes, Feed
  <1>7. pasada' \in Pasada
    <2>1. c \in 0 .. MaxAvisos /\ c \in 0 .. MaxAvisos + 1
      BY <1>1, <1>4, Constantes
    <2> QED
      BY <1>2, <1>4, <1>6, <2>1, ParadaEs DEF Pasada
  <1>8. Leyendo' /\ ~Incremental' /\ Leido' = {}
    BY <1>1, <1>4, <1>5 DEF Leyendo, Incremental, Leido
  <1>9. Lugar' /\ Cimas'
    BY <1>1, <1>4, <1>5, <1>6, <1>8 DEF Lugar, Cimas
  <1>10. UNCHANGED tablasIngesta /\ averias' \in 0 .. MaxAverias
    BY DEF escrito, PasadaInv, PasadaTypeOK
  <1> QED
    BY <1>0, <1>5, <1>7, <1>8, <1>9, <1>10, AlEmpezar

LEMMA CerradaEs ==
    ASSUME PasadaTypeOK,
           NEW r \in {Cerrada(TRUE, TRUE), Cerrada(TRUE, FALSE), Cerrada(FALSE, FALSE)}
    PROVE  /\ r \in Pasada /\ r.lote = {} /\ r.fase = "cerrada" /\ r.fuente = pasada.fuente
  <1>1. pasada.fuente \in Fuentes
    BY CamposPasada
  <1>2. CASE r = Cerrada(TRUE, TRUE)
    BY <1>1, <1>2, ParadaEs DEF Cerrada, Pasada
  <1>3. CASE r = Cerrada(TRUE, FALSE)
    BY <1>1, <1>3, ParadaEs DEF Cerrada, Pasada
  <1>4. CASE r = Cerrada(FALSE, FALSE)
    BY <1>1, <1>4, ParadaEs DEF Cerrada, Pasada
  <1> QED
    BY <1>2, <1>3, <1>4

(* A run that is over, or dead. *)
LEMMA AlTerminar ==
    ASSUME PasadaInv, UNCHANGED <<escrito, entorno>>, DlqSigue, pasada' = Parada
    PROVE  PasadaInv' /\ (Orden => Orden') /\ ~Leyendo' /\ pasada'.fuente = Feed
  <1>1. /\ pasada' \in Pasada /\ pasada'.lote = {} /\ pasada'.fase # "leyendo"
        /\ pasada'.fuente = Feed
    BY ParadaEs DEF Parada
  <1>2. Lugar' /\ Cimas'
    BY <1>1 DEF PasadaInv, Lugar, Cimas, Leyendo, EnFeed, escrito, tablasIngesta, entorno
  <1>3. UNCHANGED tablasIngesta /\ averias' \in 0 .. MaxAverias
    BY DEF escrito, PasadaInv, PasadaTypeOK
  <1> QED
    BY <1>1, <1>2, <1>3, AlEmpezar DEF Leyendo

(* The next notice. *)
LEMMA ElSiguiente ==
    ASSUME PasadaInv, Leyendo, Quedan
    PROVE  /\ pasada.sig \in Avisos /\ pasada.sig <= EnFeed /\ pasada.sig \in Int
           /\ Incremental => cursor.marca < pasada.sig /\ \A k \in Leido : k < pasada.sig
           /\ ~Incremental => /\ pasada.fin < pasada.sig /\ pasada.sig <= pasada.cima
                              /\ \A k \in Leido : k > pasada.sig
           /\ Leido \subseteq Avisos /\ Leido \subseteq Int /\ Leido \subseteq 1 .. EnFeed
  <1>1. /\ pasada.cima \in 0 .. MaxAvisos /\ pasada.sig \in 0 .. MaxAvisos + 1
        /\ pasada.fin \in 0 .. MaxAvisos /\ cursor.marca \in 0 .. MaxAvisos
        /\ EnFeed \in 0 .. MaxAvisos /\ Lugar
    BY CamposPasada DEF PasadaInv
  <1>2. CASE Incremental
    <2>1. /\ cursor.marca < pasada.sig /\ pasada.sig <= EnFeed
          /\ Leido = cursor.marca + 1 .. pasada.sig - 1
      BY <1>1, <1>2 DEF Lugar, Quedan, Leido
    <2> QED
      BY <1>1, <1>2, <2>1, Cotas DEF Avisos
  <1>3. CASE ~Incremental
    <2>1. /\ pasada.fin < pasada.sig /\ pasada.sig <= pasada.cima /\ pasada.cima <= EnFeed
          /\ Leido = pasada.sig + 1 .. pasada.cima
      BY <1>1, <1>3 DEF Lugar, Quedan, Leido
    <2> QED
      BY <1>1, <1>3, <2>1, Cotas DEF Avisos
  <1> QED
    BY <1>2, <1>3

LEMMA FinitoLote ==
    ASSUME PasadaInv
    PROVE  /\ IsFiniteSet(pasada.lote) /\ Cardinality(pasada.lote) \in Nat
           /\ \A n \in Int : IsFiniteSet((cursor.marca + 1 .. n - 1) \ rotos)
  <1>1. pasada.lote \subseteq Avisos /\ cursor.marca \in Int
    BY CamposPasada DEF PasadaInv
  <1>2. IsFiniteSet(Avisos)
    <2>1. 1 \in Int /\ MaxAvisos \in Int
      BY Constantes
    <2> QED
      BY <2>1, FS_Interval DEF Avisos
  <1>3. IsFiniteSet(pasada.lote) /\ Cardinality(pasada.lote) \in Nat
    BY <1>1, <1>2, FS_Subset, FS_CardinalityType
  <1>4. ASSUME NEW n \in Int PROVE IsFiniteSet((cursor.marca + 1 .. n - 1) \ rotos)
    <2>1. IsFiniteSet(cursor.marca + 1 .. n - 1)
      <3>1. cursor.marca + 1 \in Int /\ n - 1 \in Int
        BY <1>1
      <3> QED
        BY <3>1, FS_Interval
    <2> QED
      BY <2>1, FS_Subset
  <1> QED
    BY <1>3, <1>4

(* Oldest first, the batch has one notice per tender read since the cursor. *)
LEMMA TurnoSiguiente ==
    ASSUME PasadaInv, Leyendo, Quedan, asc, ~LoteLleno
    PROVE  Cardinality(Anteriores(pasada.sig)) < TamLote
  <1>1. pasada.fuente = Feed /\ Incremental
    BY DEF PasadaInv, Lugar, Incremental
  <1>2. Leido = cursor.marca + 1 .. pasada.sig - 1
    BY <1>1 DEF Leido
  <1> DEFINE f == [n \in pasada.lote |-> ExpedienteDe[n]]
  <1>3. \A n \in pasada.lote : n \in Leido \ rotos
    BY DEF PasadaInv, LoteBien
  <1>4. \A k \in Leido \ rotos : \E m \in pasada.lote : ExpedienteDe[m] = ExpedienteDe[k]
    BY <1>1 DEF PasadaInv, Cuenta, EnLote, MismoExpediente
  <1>5. f \in [pasada.lote -> Anteriores(pasada.sig)]
    BY <1>2, <1>3 DEF Anteriores
  <1>6. \A t \in Anteriores(pasada.sig) : \E m \in pasada.lote : f[m] = t
    BY <1>2, <1>4 DEF Anteriores
  <1>7. f \in Surjection(pasada.lote, Anteriores(pasada.sig))
    BY <1>5, <1>6, Fun_IsSurj
  <1>8. /\ Cardinality(Anteriores(pasada.sig)) <= Cardinality(pasada.lote)
        /\ IsFiniteSet(Anteriores(pasada.sig))
    BY <1>7, FinitoLote, FS_Surjection
  <1>9. Cardinality(Anteriores(pasada.sig)) \in Nat
    BY <1>8, FS_CardinalityType
  <1> QED
    BY <1>8, <1>9, FinitoLote, Constantes DEF LoteLleno

LEMMA ConAvisoEs ==
    ASSUME PasadaInv, Leyendo, Quedan, pasada.sig \notin rotos
    PROVE  LET n == pasada.sig IN
           \/ /\ ~Incremental /\ ConAviso(n) = pasada.lote
              /\ \E m \in Leido \ rotos : m >= n /\ ExpedienteDe[m] = ExpedienteDe[n]
           \/ /\ ~Incremental
              /\ ConAviso(n) = (pasada.lote \ MismoExpediente(n, pasada.lote)) \union {n}
              /\ \A m \in Leido \ rotos : ExpedienteDe[m] # ExpedienteDe[n]
           \/ /\ Incremental
              /\ ConAviso(n) = (pasada.lote \ MismoExpediente(n, pasada.lote)) \union {n}
  <1> DEFINE n == pasada.sig
  <1>1. CASE Incremental
    <2>1. \A m \in pasada.lote : m < n /\ m \in Int
      BY <1>1, ElSiguiente DEF PasadaInv, LoteBien
    <2>2. ~EsReaparicion(n)
      BY <1>1, <2>1, ElSiguiente DEF EsReaparicion, Recordados, MismoExpediente
    <2> QED
      BY <1>1, <2>2 DEF ConAviso
  <1>2. CASE ~Incremental
    <2>1. Recordados = Leido \ rotos
      <3>1. /\ pasada.cima \in 0 .. MaxAvisos /\ n \in Int
            /\ n >= 0
        BY CamposPasada DEF PasadaInv
      <3>2. Leido = { m \in Avisos : n < m /\ m <= pasada.cima }
        BY <1>2, <3>1, Constantes DEF Leido, Avisos
      <3> QED
        BY <1>2, <3>2 DEF Recordados
    <2>2. \A m \in Leido : m > n /\ m \in Int /\ n \in Int
      BY <1>2, ElSiguiente
    <2>3. CASE EsReaparicion(n)
      BY <1>2, <2>1, <2>3 DEF EsReaparicion, MismoExpediente, ConAviso
    <2>4. CASE ~EsReaparicion(n)
      BY <1>2, <2>1, <2>2, <2>4 DEF EsReaparicion, MismoExpediente, ConAviso
    <2> QED
      BY <2>3, <2>4
  <1> QED
    BY <1>1, <1>2

LEMMA LeerPaso ==
    ASSUME PasadaInv, Leer, UNCHANGED entorno
    PROVE  /\ PasadaInv' /\ (Orden => Orden')
           /\ Leyendo' /\ pasada'.fuente = pasada.fuente /\ guardado' = guardado
           /\ \A d \in Filas : d \in Filas' /\ dlq'[d].resuelta = dlq[d].resuelta
  <1>0. PICK n \in Avisos : n = pasada.sig
    BY ElSiguiente DEF Leer, Leyendo
  <1> DEFINE s == IF Incremental THEN n + 1 ELSE n - 1
             v == IF Incremental THEN [pasada.nuevo EXCEPT !.marca = n] ELSE pasada.nuevo
  <1>1. /\ Leyendo /\ Quedan /\ ~LoteLleno
        /\ cursor' = cursor /\ guardado' = guardado /\ alcanzado' = alcanzado /\ averias' = averias
        /\ huecos' = huecos
        /\ EnFeed' = EnFeed /\ rotos' = rotos /\ asc' = asc /\ publicado' = publicado
    BY DEF Leer, Leyendo, EnFeed, entorno
  <1>2. /\ n \in Avisos /\ n \in Int /\ n <= EnFeed
        /\ Incremental => cursor.marca < n /\ \A k \in Leido : k < n
        /\ ~Incremental => pasada.fin < n /\ n <= pasada.cima /\ \A k \in Leido : k > n
        /\ Leido \subseteq Avisos /\ Leido \subseteq Int
    BY <1>0, <1>1, ElSiguiente
  <1>3. /\ pasada \in Pasada /\ pasada.fin \in 0 .. MaxAvisos /\ pasada.cima \in 0 .. MaxAvisos
        /\ pasada.fuente \in Fuentes /\ pasada.lote \subseteq Avisos
        /\ cursor.marca \in 0 .. MaxAvisos /\ EnFeed \in 0 .. MaxAvisos
        /\ pasada.nuevo \in Cursor
        /\ PasadaTypeOK /\ Lugar /\ LoteBien /\ Cuenta /\ NadaSeSalta
    BY CamposPasada DEF PasadaInv, PasadaTypeOK
  <1>4. s \in 0 .. MaxAvisos + 1 /\ v \in Cursor
    <2>1. MaxAvisos + 1 \in Nat /\ s \in 0 .. MaxAvisos + 1
      BY <1>2, <1>3, Cotas DEF Avisos
    <2>2. n \in 0 .. MaxAvisos
      BY <1>2, Cotas DEF Avisos
    <2> QED
      BY <1>3, <2>1, <2>2 DEF Cursor
  <1>5. Incremental => v.marca = n
    BY <1>3 DEF Cursor
  <1>6. ~Incremental => v = pasada.nuevo
    OBVIOUS
  <1> DEFINE Avanza(L) == /\ pasada' \in Pasada /\ pasada'.fase = "leyendo"
                          /\ pasada'.fuente = pasada.fuente /\ pasada'.cima = pasada.cima
                          /\ pasada'.sig = s /\ pasada'.fin = pasada.fin /\ pasada'.nuevo = v
                          /\ pasada'.lote = L /\ pasada'.hueco = pasada.hueco
  <1>7. \/ /\ n \in rotos /\ AnotarFallo(Clave(n)) /\ Avanza(pasada.lote)
        \/ /\ n \notin rotos /\ dlq' = dlq /\ noAnotados' = noAnotados /\ Avanza(ConAviso(n))
    <2> HIDE DEF s, v
    <2>1. \/ /\ n \in rotos /\ AnotarFallo(Clave(n))
             /\ pasada' = [[pasada EXCEPT !.sig = s, !.nuevo = v] EXCEPT !.errores = TRUE]
          \/ /\ n \notin rotos /\ dlq' = dlq /\ noAnotados' = noAnotados
             /\ pasada' = [[pasada EXCEPT !.sig = s, !.nuevo = v] EXCEPT !.lote = ConAviso(n)]
      <3>1. [pasada EXCEPT !.sig = s, !.nuevo = v] =
            [pasada EXCEPT !.sig = IF Incremental THEN n + 1 ELSE n - 1,
                           !.nuevo = IF Incremental THEN [@ EXCEPT !.marca = n] ELSE @]
        BY DEF s, v
      <3> QED
        BY <1>0, <3>1 DEF Leer
    <2>2. ConAviso(n) \subseteq Avisos
      BY <1>2, <1>3 DEF ConAviso
    <2>3. pasada.fase = "leyendo"
      BY <1>1 DEF Leyendo
    <2>4. CASE n \in rotos
      BY <1>3, <1>4, <2>1, <2>3, <2>4 DEF Pasada
    <2>5. CASE n \notin rotos
      BY <1>3, <1>4, <2>1, <2>2, <2>3, <2>5 DEF Pasada
    <2> QED
      BY <2>4, <2>5
  <1>8. /\ PasadaTypeOK'
        /\ \A k : Rastro(k) => Rastro(k)'
        /\ n \in rotos /\ pasada.fuente = Feed => Rastro(n)'
        /\ \A d \in Filas : d \in Filas' /\ dlq'[d].resuelta = dlq[d].resuelta
    <2>1. CASE n \in rotos
      <3>1. Clave(n) \in Entradas /\ Clave(n).que = n /\ Clave(n).fuente = pasada.fuente
            /\ n # Fetch
        <4>1. n # Fetch
          BY <1>2, Cotas DEF Fetch, Avisos
        <4> QED
          BY <1>2, <1>3, <4>1, Constantes DEF Clave
      <3>2. AnotarFallo(Clave(n)) /\ pasada' \in Pasada
        BY <1>7, <2>1
      <3>3. /\ DlqTypeOK' /\ noAnotados' \subseteq Entradas
            /\ \A k : Rastro(k) => Rastro(k)'
            /\ pasada.fuente = Feed => Rastro(n)'
            /\ \A d \in Filas : d \in Filas' /\ dlq'[d].resuelta = dlq[d].resuelta
        <4>1. PICK c \in Entradas : c = Clave(n)
          BY <3>1
        <4>2. c.que = n /\ c.fuente = pasada.fuente /\ AnotarFallo(c) /\ c.que # Fetch
          BY <3>1, <3>2, <4>1
        <4> QED
          BY <1>3, <4>2, AnotarFalloEs
      <3> QED
        BY <1>1, <1>3, <3>2, <3>3 DEF PasadaTypeOK
    <2>2. CASE n \notin rotos
      <3>1. pasada' \in Pasada /\ dlq' = dlq /\ noAnotados' = noAnotados
        BY <1>7, <2>2
      <3> QED
        BY <1>1, <1>3, <2>2, <3>1 DEF PasadaTypeOK, DlqTypeOK, Rastro, Anotado, NoAnotado, Filas
    <2> QED
      BY <2>1, <2>2
  <1>9. Avanza(pasada'.lote) /\ Leyendo' /\ (Incremental' <=> Incremental)
    BY <1>1, <1>7 DEF Leyendo, Incremental
  <1>10. Leido' = Leido \union {n}
    <2>1. CASE Incremental
      BY <1>0, <1>1, <1>2, <1>3, <1>9, <2>1, Cotas DEF Leido
    <2>2. CASE ~Incremental
      BY <1>0, <1>1, <1>2, <1>3, <1>9, <2>2, Cotas DEF Leido
    <2> QED
      BY <2>1, <2>2
  <1>11. Lugar'
    <2>1. CASE Incremental
      BY <1>1, <1>2, <1>3, <1>5, <1>9, <2>1 DEF Lugar
    <2>2. CASE ~Incremental
      BY <1>1, <1>2, <1>3, <1>6, <1>9, <2>2 DEF Lugar
    <2> QED
      BY <2>1, <2>2
  <1> HIDE DEF Avanza, s, v
  <1>12. \/ /\ n \in rotos /\ pasada'.lote = pasada.lote
         \/ /\ n \notin rotos /\ pasada'.lote = ConAviso(n)
    BY <1>7 DEF Avanza
  <1>13. pasada'.fuente = pasada.fuente /\ pasada'.cima = pasada.cima
    BY <1>9 DEF Avanza
  <1>14. ASSUME NEW k \in Leido \ rotos PROVE k \in Leido' \ rotos'
    BY <1>1, <1>10
  <1>15. LoteBien' /\ (\A k \in Leido : EnLote(k) => EnLote(k)')
         /\ (n \notin rotos => EnLote(n)' \/ (~Incremental
               /\ \E m \in Leido \ rotos : m >= n /\ ExpedienteDe[m] = ExpedienteDe[n]))
    <2>1. /\ pasada.lote \subseteq Leido \ rotos
          /\ \A j \in pasada.lote, m \in Leido \ rotos :
               ExpedienteDe[m] = ExpedienteDe[j] => m <= j
      BY <1>1, <1>3 DEF LoteBien
    <2>2. CASE pasada'.lote = pasada.lote /\ n \in rotos
      BY <1>1, <1>9, <1>10, <2>1, <2>2 DEF LoteBien, EnLote, MismoExpediente
    <2>3. CASE /\ ~Incremental /\ pasada'.lote = pasada.lote
               /\ \E m \in Leido \ rotos : m >= n /\ ExpedienteDe[m] = ExpedienteDe[n]
      <3>1. \A j \in pasada.lote : n <= j
        <4>1. \A k \in Leido : k > n /\ k \in Int
          BY <1>2, <2>3
        <4>2. \A j \in pasada.lote : j > n /\ j \in Int /\ n \in Int
          <5>1. \A j \in pasada.lote : j \in Leido
            BY <2>1
          <5>2. n \in Int
            BY <1>2
          <5> QED
            BY <4>1, <5>1, <5>2
        <4> QED
          BY <4>2
      <3> QED
        BY <1>1, <1>9, <1>10, <2>1, <2>3, <3>1 DEF LoteBien, EnLote, MismoExpediente
    <2>4. ASSUME n \notin rotos,
                 pasada'.lote = (pasada.lote \ MismoExpediente(n, pasada.lote)) \union {n},
                 \A m \in Leido \ rotos : ExpedienteDe[m] = ExpedienteDe[n] => m <= n
          PROVE  LoteBien' /\ (\A k \in Leido : EnLote(k) => EnLote(k)') /\ EnLote(n)'
      <3>1. /\ n \in pasada'.lote
            /\ \A j \in pasada'.lote :
                 j = n \/ (j \in pasada.lote /\ ExpedienteDe[j] # ExpedienteDe[n])
            /\ \A j \in pasada.lote : j \in pasada'.lote \/ ExpedienteDe[j] = ExpedienteDe[n]
        BY <2>4 DEF MismoExpediente
      <3>2. LoteBien'
        <4>1. pasada'.lote \subseteq Leido' \ rotos'
          BY <1>1, <1>10, <2>1, <2>4, <3>1
        <4>2. ASSUME NEW j \in pasada'.lote, NEW m \in Leido' \ rotos',
                     ExpedienteDe[m] = ExpedienteDe[j]
              PROVE  m <= j
          <5>1. CASE m = n
            <6>1. j = n
              BY <3>1, <4>2, <5>1
            <6> QED
              BY <1>2, <5>1, <6>1
          <5>2. CASE m \in Leido \ rotos
            BY <1>2, <2>1, <2>4, <3>1, <4>2, <5>2
          <5> QED
            BY <1>1, <1>10, <4>2, <5>1, <5>2
        <4> QED
          BY <4>1, <4>2 DEF LoteBien
      <3>3. ASSUME NEW k \in Leido, EnLote(k) PROVE EnLote(k)'
        <4>1. PICK m \in pasada.lote : ExpedienteDe[m] = ExpedienteDe[k] /\ m >= k
          BY <3>3 DEF EnLote, MismoExpediente
        <4>2. m \in Leido \ rotos /\ m \in Int /\ k \in Int
          BY <1>2, <2>1
        <4> QED
          BY <1>2, <2>4, <3>1, <4>1, <4>2 DEF EnLote, MismoExpediente
      <3>4. EnLote(n)'
        BY <1>2, <3>1 DEF EnLote, MismoExpediente
      <3> QED
        BY <3>2, <3>3, <3>4
    <2>5. CASE n \notin rotos /\ pasada'.lote = ConAviso(n)
      <3>1. CASE /\ ~Incremental /\ ConAviso(n) = pasada.lote
                 /\ \E m \in Leido \ rotos : m >= n /\ ExpedienteDe[m] = ExpedienteDe[n]
        BY <2>3, <2>5, <3>1
      <3>2. CASE /\ ConAviso(n) = (pasada.lote \ MismoExpediente(n, pasada.lote)) \union {n}
                 /\ \A m \in Leido \ rotos : ExpedienteDe[m] = ExpedienteDe[n] => m <= n
        BY <2>4, <2>5, <3>2
      <3>3. Incremental => \A m \in Leido : m <= n
        BY <1>2
      <3> QED
        BY <1>0, <1>1, <2>5, <3>1, <3>2, <3>3, ConAvisoEs
    <2> QED
      BY <1>12, <2>2, <2>5
  <1>16. Cuenta'
    <2> SUFFICES ASSUME pasada.fuente = Feed, NEW k \in Leido'
                 PROVE  IF k \in rotos THEN Rastro(k)'
                        ELSE EnLote(k)' \/ (~Incremental /\ Ingerido(k)')
      BY <1>1, <1>9, <1>13 DEF Cuenta
    <2>1. \A j \in Leido : IF j \in rotos THEN Rastro(j)
                            ELSE EnLote(j) \/ (~Incremental /\ Ingerido(j))
      BY <1>1, <1>3 DEF Cuenta
    <2>2. \A j : Ingerido(j)' <=> Ingerido(j)
      BY <1>1 DEF Ingerido
    <2>3. CASE k \in Leido
      BY <1>8, <1>15, <2>1, <2>2, <2>3
    <2>4. CASE k = n /\ n \in rotos
      BY <1>8, <2>4
    <2>5. CASE k = n /\ n \notin rotos
      <3>1. CASE EnLote(n)'
        BY <2>5, <3>1
      <3>2. ASSUME ~Incremental, NEW m \in Leido \ rotos, m >= n, ExpedienteDe[m] = ExpedienteDe[n]
            PROVE  EnLote(n)' \/ Ingerido(n)'
        <4>1. EnLote(m)' \/ Ingerido(m)'
          BY <1>15, <2>1, <2>2
        <4>2. m \in Int /\ n \in Int
          BY <1>2
        <4>3. CASE EnLote(m)'
          <5>1. PICK j \in pasada'.lote : ExpedienteDe[j] = ExpedienteDe[m] /\ j >= m
            BY <4>3 DEF EnLote, MismoExpediente
          <5>2. j \in Int
            BY <1>2, <1>9, <1>10, <1>15, <5>1 DEF LoteBien
          <5> QED
            BY <3>2, <4>2, <5>1, <5>2 DEF EnLote, MismoExpediente
        <4>4. CASE Ingerido(m)'
          <5>1. alcanzado'[ExpedienteDe[n]] \in Int
            BY <1>1, <1>3, Constantes DEF PasadaTypeOK
          <5> QED
            BY <3>2, <4>2, <4>4, <5>1 DEF Ingerido
        <4> QED
          BY <4>1, <4>3, <4>4
      <3> QED
        BY <1>15, <2>5, <3>1, <3>2
    <2> QED
      BY <1>10, <2>3, <2>4, <2>5
  <1>17. Guardados' /\ NadaSeSalta'
    <2>1. \A j : Ingerido(j)' <=> Ingerido(j)
      BY <1>1 DEF Ingerido
    <2> QED
      BY <1>1, <1>3, <1>8, <2>1 DEF PasadaInv, Guardados, NadaSeSalta, Rastro
  <1>18. Cimas => Cimas'
    BY <1>1, <1>13 DEF Cimas, Leyendo
  <1>19. Turnos => Turnos'
    <2> SUFFICES ASSUME Turnos, asc PROVE Turnos'
      BY <1>1 DEF Turnos
    <2>1. \A k : Anteriores(k)' = Anteriores(k)
      BY <1>1 DEF Anteriores
    <2>2. pasada'.lote \subseteq pasada.lote \union {n}
      BY <1>12 DEF ConAviso
    <2>3. Cardinality(Anteriores(n)) < TamLote
      BY <1>0, <1>1, TurnoSiguiente
    <2> QED
      BY <1>1, <2>1, <2>2, <2>3 DEF Turnos
  <1> QED
    BY <1>1, <1>8, <1>9, <1>11, <1>13, <1>15, <1>16, <1>17, <1>18, <1>19 DEF PasadaInv, Orden

-----------------------------------------------------------------------------
(* What a cut run may have written, S, and what it leaves. *)
LEMMA LoteEs ==
    ASSUME PasadaInv
    PROVE  /\ pasada.lote \subseteq Avisos
           /\ \A m, n \in pasada.lote : ExpedienteDe[m] = ExpedienteDe[n] => m = n
           /\ Leyendo => \A n \in pasada.lote : n \notin rotos /\ n \in 1 .. EnFeed
           /\ Leyendo => Leido \subseteq 1 .. EnFeed
           /\ Leyendo /\ Incremental =>
                \A n \in pasada.lote : cursor.marca < n /\ n < pasada.sig
           /\ Leyendo /\ ~Incremental => \A n \in pasada.lote : n <= pasada.cima
  <1>1. /\ pasada.cima \in 0 .. MaxAvisos /\ pasada.sig \in 0 .. MaxAvisos + 1
        /\ pasada.lote \subseteq Avisos /\ cursor.marca \in 0 .. MaxAvisos
        /\ EnFeed \in 0 .. MaxAvisos /\ Lugar /\ LoteBien
    BY CamposPasada DEF PasadaInv
  <1>2. CASE ~Leyendo
    BY <1>1, <1>2 DEF Lugar
  <1>3. CASE Leyendo
    <2>1. Leido \subseteq 1 .. EnFeed /\ Leido \subseteq Int
      BY <1>1, <1>3, Cotas DEF Lugar, Leido
    <2>2. \A m, n \in pasada.lote : ExpedienteDe[m] = ExpedienteDe[n] => m = n
      <3>1. \A m, n \in pasada.lote : ExpedienteDe[m] = ExpedienteDe[n] => m <= n /\ n <= m
        BY <1>1, <1>3 DEF LoteBien
      <3>2. \A m \in pasada.lote : m \in Int
        BY <1>1 DEF Avisos
      <3> QED
        BY <3>1, <3>2
    <2>3. \A n \in pasada.lote : n \notin rotos /\ n \in Leido
      BY <1>1, <1>3 DEF LoteBien
    <2>4. Incremental => \A n \in pasada.lote : cursor.marca < n /\ n < pasada.sig
      BY <1>1, <2>3, Cotas DEF Leido
    <2>5. ~Incremental => \A n \in pasada.lote : n <= pasada.cima
      BY <1>1, <2>3, Cotas DEF Leido
    <2>6. \A n \in pasada.lote : n \in 1 .. EnFeed
      BY <2>1, <2>3
    <2> QED
      BY <1>1, <2>1, <2>2, <2>3, <2>4, <2>5, <2>6
  <1> QED
    BY <1>2, <1>3

(* A write of the feed does not take a tender back: newest first, nothing   *)
(* newer is beyond the top; oldest first, the batch reaches it before it is *)
(* full.                                                                    *)
LEMMA NadieRetrocede ==
    ASSUME PasadaInv, Orden, Leyendo, pasada.fuente = Feed, LoteLleno \/ ~Quedan,
           NEW n \in pasada.lote
    PROVE  guardado[ExpedienteDe[n]] <= n
  <1> DEFINE e == ExpedienteDe[n]
             g == guardado[e]
  <1>1. /\ n \in Avisos /\ n \in Int /\ e \in Expedientes
        /\ n \in Leido \ rotos
        /\ \A m \in Leido \ rotos : ExpedienteDe[m] = e => m <= n
    BY LoteEs, Constantes DEF PasadaInv, LoteBien, Avisos
  <1>2. g \in 0 .. MaxAvisos /\ g \in Int
    BY <1>1, Constantes DEF PasadaInv, PasadaTypeOK
  <1>3. g # 0 => g <= EnFeed /\ g \notin rotos /\ ExpedienteDe[g] = e
    BY <1>1 DEF PasadaInv, Guardados
  <1> HIDE DEF e, g
  <1>4. SUFFICES ASSUME g > n PROVE FALSE
    BY <1>1, <1>2 DEF e, g
  <1>5. g \notin Leido
    BY <1>1, <1>2, <1>3, <1>4, Cotas DEF Avisos
  <1>6. /\ pasada.cima \in Int /\ pasada.sig \in Int /\ cursor.marca \in Int /\ EnFeed \in Int
    BY CamposPasada DEF PasadaInv
  <1>7. CASE ~asc
    <2>1. Leido = pasada.sig + 1 .. pasada.cima
      BY <1>7 DEF Leido, Incremental
    <2>2. g <= pasada.cima
      BY <1>1, <1>7 DEF Orden, Cimas, g
    <2> QED
      BY <1>1, <1>2, <1>4, <1>5, <1>6, <2>1, <2>2
  <1>8. CASE asc
    <2>1. Leido = cursor.marca + 1 .. pasada.sig - 1 /\ Incremental
      BY <1>8 DEF Leido, Incremental
    <2>2. g >= pasada.sig /\ g > cursor.marca /\ g <= EnFeed /\ g \notin rotos /\ g # 0
      BY <1>1, <1>2, <1>3, <1>4, <1>5, <1>6, <2>1, Cotas DEF Avisos
    <2>3. LoteLleno
      BY <1>2, <1>6, <2>1, <2>2 DEF Quedan
    <2>4. Cardinality(Anteriores(g)) < TamLote
      BY <1>1, <1>8, <2>2 DEF Orden, Turnos, g
    <2> DEFINE f == [m \in pasada.lote |-> ExpedienteDe[m]]
    <2>5. \A m \in pasada.lote : m \in (cursor.marca + 1 .. g - 1) \ rotos
      <3>1. \A m \in pasada.lote : m \notin rotos /\ cursor.marca < m /\ m < pasada.sig /\ m \in Int
        BY <2>1, LoteEs DEF Avisos
      <3> QED
        BY <1>2, <1>6, <2>2, <3>1
    <2>6. f \in [pasada.lote -> Anteriores(g)]
      BY <2>5 DEF Anteriores
    <2>7. \A a, b \in pasada.lote : f[a] = f[b] => a = b
      BY LoteEs
    <2>8. f \in Injection(pasada.lote, Anteriores(g))
      BY <2>6, <2>7, Fun_IsInj
    <2>9. IsFiniteSet(Anteriores(g))
      <3> DEFINE D == (cursor.marca + 1 .. g - 1) \ rotos
                 h == [k \in D |-> ExpedienteDe[k]]
      <3>1. h \in Surjection(D, Anteriores(g))
        <4>1. h \in [D -> Anteriores(g)] /\ \A t \in Anteriores(g) : \E k \in D : h[k] = t
          BY DEF Anteriores
        <4> QED
          BY <4>1, Fun_IsSurj
      <3>2. IsFiniteSet(D)
        BY <1>2, FinitoLote
      <3> HIDE DEF D, h
      <3> QED
        BY <3>1, <3>2, FS_Surjection
    <2>10. Cardinality(pasada.lote) <= Cardinality(Anteriores(g))
      BY <2>8, <2>9, FS_Injection
    <2>11. Cardinality(Anteriores(g)) \in Nat
      BY <2>9, FS_CardinalityType
    <2> QED
      BY <2>3, <2>4, <2>10, <2>11, FinitoLote, Cotas DEF LoteLleno
  <1> QED
    BY <1>7, <1>8

(* A cursor further on leaves fewer tenders before a notice. *)
LEMMA QuedanMenos ==
    ASSUME PasadaInv, rotos' = rotos, cursor'.marca \in Int, cursor.marca <= cursor'.marca,
           NEW n \in Int, Cardinality(Anteriores(n)) < TamLote
    PROVE  Cardinality(Anteriores(n)') < TamLote
  <1> DEFINE D == (cursor.marca + 1 .. n - 1) \ rotos
             h == [k \in D |-> ExpedienteDe[k]]
  <1>1. h \in Surjection(D, Anteriores(n))
    <2>1. h \in [D -> Anteriores(n)] /\ \A t \in Anteriores(n) : \E k \in D : h[k] = t
      BY DEF Anteriores
    <2> QED
      BY <2>1, Fun_IsSurj
  <1>2. IsFiniteSet(Anteriores(n))
    <2>1. IsFiniteSet(D)
      BY FinitoLote
    <2> HIDE DEF D, h
    <2> QED
      BY <1>1, <2>1, FS_Surjection
  <1>3. Anteriores(n)' \subseteq Anteriores(n)
    <2>1. cursor.marca \in Int
      BY CamposPasada DEF PasadaInv
    <2>2. (cursor'.marca + 1 .. n - 1) \subseteq (cursor.marca + 1 .. n - 1)
      BY <2>1
    <2> QED
      BY <2>2 DEF Anteriores
  <1> DEFINE A == Anteriores(n)
             B == Anteriores(n)'
  <1> HIDE DEF A, B
  <1>4. Cardinality(B) <= Cardinality(A) /\ IsFiniteSet(B)
    BY <1>2, <1>3, FS_Subset DEF A, B
  <1>5. Cardinality(A) \in Nat /\ Cardinality(B) \in Nat
    BY <1>2, <1>4, FS_CardinalityType DEF A
  <1>6. Cardinality(B) < TamLote
    BY <1>4, <1>5, Cotas DEF A
  <1> QED
    BY <1>6 DEF B

(* flush(), and the cursor of an incremental feed. *)
LEMMA VolcarPaso ==
    ASSUME PasadaInv, Volcar, UNCHANGED entorno
    PROVE  /\ PasadaInv' /\ (Orden => Orden') /\ Leyendo' /\ pasada'.fuente = pasada.fuente
           /\ Orden /\ pasada.fuente = Feed =>
                \A e \in Expedientes : guardado'[e] >= guardado[e]
  <1>1. /\ Leyendo /\ (LoteLleno \/ ~Quedan)
        /\ cursor' = AvanceTrasLote /\ pasada' = [pasada EXCEPT !.lote = {}]
        /\ dlq' = dlq /\ noAnotados' = noAnotados /\ averias' = averias /\ huecos' = huecos
        /\ EnFeed' = EnFeed /\ rotos' = rotos /\ asc' = asc /\ publicado' = publicado
    BY DEF Volcar, Leyendo, EnFeed, entorno
  <1>2. PICK S \in SUBSET Avisos : S = pasada.lote
    BY LoteEs
  <1>3. /\ Escribir(S) /\ \A m, n \in S : ExpedienteDe[m] = ExpedienteDe[n] => m = n
    BY <1>2, LoteEs DEF Volcar
  <1>4. PasadaTypeOK /\ Lugar /\ LoteBien /\ Cuenta /\ NadaSeSalta /\ Guardados
    BY DEF PasadaInv
  <1>5. /\ guardado' \in [Expedientes -> 0 .. MaxAvisos]
        /\ alcanzado' \in [Expedientes -> 0 .. MaxAvisos]
        /\ \A e \in Expedientes :
             \/ guardado'[e] = guardado[e]
             \/ \E n \in S : ExpedienteDe[n] = e /\ guardado'[e] = n
        /\ \A n \in Avisos : Ingerido(n) => Ingerido(n)'
        /\ \A n \in S : Ingerido(n)'
    BY <1>3, <1>4, EscribirEs
  <1>6. /\ pasada' \in Pasada /\ pasada'.lote = {} /\ pasada'.fase = pasada.fase
        /\ pasada'.fuente = pasada.fuente /\ pasada'.cima = pasada.cima
        /\ pasada'.sig = pasada.sig /\ pasada'.fin = pasada.fin /\ pasada'.nuevo = pasada.nuevo
        /\ pasada'.hueco = pasada.hueco
    BY <1>1, <1>4 DEF PasadaTypeOK, Pasada
  <1>7. Leyendo' /\ (Incremental' <=> Incremental)
    BY <1>1, <1>6 DEF Leyendo, Incremental
  <1>8. /\ cursor' \in Cursor /\ (~Incremental => cursor' = cursor)
        /\ Incremental => cursor'.marca = pasada.sig - 1
    BY <1>1, <1>4, CamposPasada DEF AvanceTrasLote, PasadaTypeOK, Lugar
  <1>9. PasadaTypeOK'
    BY <1>1, <1>4, <1>5, <1>6, <1>8 DEF PasadaTypeOK, DlqTypeOK
  <1>10. /\ pasada.sig \in Int /\ pasada.cima \in Int /\ cursor.marca \in Int /\ EnFeed \in Int
         /\ pasada.fuente \in Fuentes
    BY <1>4, CamposPasada
  <1>11. Lugar'
    BY <1>1, <1>4, <1>6, <1>7, <1>8, <1>10 DEF Lugar
  <1>12. LoteBien'
    BY <1>6 DEF LoteBien
  <1>13. \A k : Rastro(k)' <=> Rastro(k)
    BY <1>1 DEF Rastro, Anotado, NoAnotado, Filas
  <1>14. ASSUME NEW k \in Leido, pasada.fuente = Feed
         PROVE  IF k \in rotos THEN Rastro(k)' ELSE Ingerido(k)'
    <2>1. k \in 1 .. EnFeed /\ k \in Avisos /\ k \in Int
      <3>1. k \in 1 .. EnFeed /\ EnFeed \in 0 .. MaxAvisos
        BY <1>1, LoteEs, CamposPasada DEF PasadaInv
      <3> QED
        BY <3>1, Cotas DEF Avisos
    <2>2. ASSUME k \notin rotos, EnLote(k) PROVE Ingerido(k)'
      <3>1. PICK m \in S : ExpedienteDe[m] = ExpedienteDe[k] /\ m >= k
        BY <1>2, <2>2 DEF EnLote, MismoExpediente
      <3>2. alcanzado'[ExpedienteDe[k]] \in Int /\ alcanzado'[ExpedienteDe[k]] >= m /\ m \in Int
        BY <1>5, <2>1, <3>1, Constantes DEF Ingerido, Avisos
      <3> QED
        BY <2>1, <3>1, <3>2 DEF Ingerido
    <2> QED
      BY <1>1, <1>4, <1>5, <1>13, <1>14, <2>1, <2>2 DEF Cuenta
  <1>15. Cuenta'
    <2>1. CASE Incremental
      <3>1. Leido' = {}
        BY <1>6, <1>7, <1>8, <1>10, <2>1 DEF Leido
      <3> QED
        BY <3>1 DEF Cuenta
    <2>2. CASE ~Incremental
      <3>1. Leido' = Leido
        BY <1>6, <1>7, <1>8, <2>2 DEF Leido
      <3> QED
        BY <1>1, <1>6, <1>7, <1>14, <2>2, <3>1 DEF Cuenta
    <2> QED
      BY <2>1, <2>2
  <1>16. NadaSeSalta'
    <2> SUFFICES ASSUME NEW n \in Avisos, n <= cursor'.marca
                 PROVE  Ingerido(n)' \/ Rastro(n)' \/ n \in huecos'
      BY DEF NadaSeSalta, Rastro
    <2>1. CASE n <= cursor.marca
      BY <1>1, <1>4, <1>5, <1>13, <2>1 DEF NadaSeSalta, Rastro
    <2>2. CASE ~(n <= cursor.marca)
      <3>1. Incremental /\ pasada.fuente = Feed
        BY <1>8, <2>2 DEF Incremental
      <3>2. n \in Leido
        BY <1>8, <1>10, <2>2, <3>1 DEF Leido, Avisos
      <3> QED
        BY <1>14, <3>1, <3>2
    <2> QED
      BY <2>1, <2>2
  <1>17. \A e \in Expedientes : guardado[e] \in Int /\ guardado'[e] \in Int
    BY <1>4, <1>5, Cotas DEF PasadaTypeOK
  <1>18. Guardados'
    <2>1. \A n \in S : n \notin rotos /\ n \in 1 .. EnFeed
      BY <1>1, <1>2, LoteEs
    <2> QED
      BY <1>1, <1>4, <1>5, <1>10, <2>1 DEF Guardados
  <1>19. Cimas => Cimas'
    <2> SUFFICES ASSUME Cimas, ~asc, pasada.fuente = Feed, NEW e \in Expedientes
                 PROVE  guardado'[e] <= pasada.cima
      BY <1>1, <1>6 DEF Cimas
    <2>1. guardado[e] <= pasada.cima /\ ~Incremental
      BY <1>1 DEF Cimas, Incremental
    <2> QED
      BY <1>1, <1>2, <1>5, <2>1, LoteEs
  <1>20. Turnos => Turnos'
    <2> SUFFICES ASSUME Turnos, asc PROVE Turnos'
      BY <1>1 DEF Turnos
    <2>1. pasada.fuente = Feed /\ Incremental
      BY <1>4 DEF Lugar, Incremental
    <2>2. ASSUME NEW e \in Expedientes, NEW g \in Int, g = guardado'[e], g > cursor'.marca
          PROVE  Cardinality(Anteriores(g))' < TamLote
      <3>1. cursor.marca <= cursor'.marca /\ cursor'.marca \in Int
        BY <1>1, <1>4, <1>8, <1>10, <2>1 DEF Lugar
      <3>2. g = guardado[e]
        BY <1>1, <1>2, <1>5, <1>8, <1>10, <2>1, <2>2, LoteEs DEF Avisos
      <3>3. Cardinality(Anteriores(g)) < TamLote
        BY <1>10, <2>2, <3>1, <3>2 DEF Turnos
      <3> QED
        BY <1>1, <3>1, <3>3, QuedanMenos
    <2>3. ASSUME NEW e \in Expedientes, guardado'[e] > cursor'.marca
          PROVE  Cardinality(Anteriores(guardado[e]))' < TamLote
      <3>1. PICK g \in Int : g = guardado'[e]
        BY <1>17
      <3>2. Anteriores(guardado[e])' = Anteriores(g)'
        BY <3>1 DEF Anteriores
      <3> QED
        BY <2>2, <2>3, <3>1, <3>2
    <2> QED
      BY <1>1, <1>6, <2>3 DEF Turnos
  <1>21. ASSUME Orden, pasada.fuente = Feed, NEW e \in Expedientes
         PROVE  guardado'[e] >= guardado[e]
    BY <1>1, <1>2, <1>5, <1>17, <1>21, NadieRetrocede
  <1> QED
    BY <1>6, <1>7, <1>9, <1>11, <1>12, <1>15, <1>16, <1>18, <1>19, <1>20, <1>21
    DEF PasadaInv, Orden

(* The end of a run: what the cursor passes over has been read and written. *)
LEMMA CompletarPaso ==
    ASSUME PasadaInv, Completar, UNCHANGED entorno
    PROVE  /\ PasadaInv' /\ (Orden => Orden') /\ ~Leyendo'
           /\ pasada'.fuente = pasada.fuente /\ guardado' = guardado
           /\ pasada'.fase = "cerrada"
  <1>1. /\ Leyendo /\ ~Quedan /\ pasada.lote = {}
        /\ cursor' = IF pasada.fuente = Feed THEN pasada.nuevo ELSE cursor
        /\ dlq' = dlq /\ noAnotados' = noAnotados /\ averias' = averias
        /\ guardado' = guardado /\ alcanzado' = alcanzado
        /\ huecos' = huecos \union pasada.hueco
        /\ EnFeed' = EnFeed /\ rotos' = rotos /\ asc' = asc /\ publicado' = publicado
    BY DEF Completar, Leyendo, EnFeed, entorno
  <1>2. PasadaTypeOK /\ Lugar /\ Cuenta /\ NadaSeSalta /\ Guardados
    BY DEF PasadaInv
  <1>3. /\ pasada' \in Pasada /\ pasada'.lote = {} /\ pasada'.fase = "cerrada"
        /\ pasada'.fuente = pasada.fuente
    <2>1. pasada' = Cerrada(TRUE, FALSE) \/ pasada' = Cerrada(FALSE, FALSE)
      BY <1>2, CamposPasada DEF Completar
    <2> QED
      BY <1>2, <2>1, CerradaEs
  <1>4. /\ pasada.sig \in Int /\ pasada.cima \in Int /\ pasada.fin \in Int
        /\ cursor.marca \in Int /\ EnFeed \in Int /\ pasada.nuevo.marca \in Int
        /\ pasada.nuevo \in Cursor /\ cursor \in Cursor
    BY <1>2, CamposPasada DEF PasadaTypeOK
  <1>5. /\ cursor' \in Cursor /\ cursor'.marca \in Int
        /\ cursor.marca <= cursor'.marca /\ cursor'.marca <= EnFeed
        /\ \A n \in Avisos :
             n <= cursor'.marca => \/ n <= cursor.marca \/ n \in pasada.hueco
                                   \/ n \in Leido /\ pasada.fuente = Feed
    <2>1. CASE pasada.fuente # Feed
      BY <1>1, <1>2, <1>4, <2>1 DEF Lugar
    <2>2. CASE pasada.fuente = Feed /\ Incremental
      <3>1. /\ cursor' = pasada.nuevo /\ cursor'.marca = pasada.sig - 1
            /\ cursor.marca < pasada.sig /\ pasada.sig <= EnFeed + 1
            /\ Leido = cursor.marca + 1 .. pasada.sig - 1
        BY <1>1, <1>2, <2>2 DEF Lugar, Leido
      <3> QED
        BY <1>4, <2>2, <3>1 DEF Avisos
    <2>3. CASE pasada.fuente = Feed /\ ~Incremental
      <3>1. /\ cursor' = pasada.nuevo
            /\ pasada.fin <= pasada.sig /\ pasada.sig <= pasada.cima /\ pasada.cima <= EnFeed
            /\ ~(pasada.sig > pasada.fin)
            /\ Leido = pasada.sig + 1 .. pasada.cima
            /\ cursor.marca <= EnFeed
        BY <1>1, <1>2, <2>3 DEF Lugar, Leido, Quedan
      <3>2. CASE pasada.nuevo.marca = cursor.marca
        BY <1>4, <3>1, <3>2
      <3>3. CASE /\ pasada.nuevo.marca = pasada.cima /\ cursor.marca <= pasada.cima
                 /\ cursor.marca + 1 .. pasada.fin \subseteq pasada.hueco
        <4>1. ASSUME NEW n \in Avisos, n <= cursor'.marca
              PROVE  n <= cursor.marca \/ n \in pasada.hueco \/ n \in Leido
          <5>1. n \in Int /\ n <= pasada.cima
            BY <3>1, <3>3, <4>1 DEF Avisos
          <5>2. n <= cursor.marca \/ n \in cursor.marca + 1 .. pasada.fin \/ n \in Leido
            BY <1>4, <3>1, <5>1
          <5> QED
            BY <3>3, <5>2
        <4> QED
          BY <1>4, <2>3, <3>1, <3>3, <4>1
      <3> QED
        BY <1>1, <1>2, <2>3, <3>2, <3>3 DEF Lugar
    <2> QED
      BY <2>1, <2>2, <2>3
  <1>6. PasadaTypeOK'
    BY <1>1, <1>2, <1>3, <1>5, CamposPasada DEF PasadaTypeOK, DlqTypeOK
  <1>7. ~Leyendo' /\ Lugar' /\ LoteBien' /\ Cuenta' /\ Cimas'
    BY <1>1, <1>2, <1>3, <1>5 DEF Leyendo, Lugar, LoteBien, Cuenta, Cimas
  <1>8. NadaSeSalta'
    <2> SUFFICES ASSUME NEW n \in Avisos, n <= cursor'.marca
                 PROVE  Ingerido(n)' \/ Rastro(n)' \/ n \in huecos'
      BY DEF NadaSeSalta, Rastro
    <2>1. /\ Rastro(n)' <=> Rastro(n)
          /\ Ingerido(n)' <=> Ingerido(n)
      BY <1>1 DEF Rastro, Anotado, NoAnotado, Filas, Ingerido
    <2>2. CASE n <= cursor.marca
      BY <1>1, <1>2, <2>1, <2>2 DEF NadaSeSalta, Rastro
    <2>3. CASE n \in Leido /\ pasada.fuente = Feed
      BY <1>1, <1>2, <2>1, <2>3 DEF Cuenta, EnLote, MismoExpediente
    <2> QED
      BY <1>1, <1>5, <2>2, <2>3
  <1>9. Guardados'
    BY <1>1, <1>2 DEF Guardados
  <1>10. Turnos => Turnos'
    <2> SUFFICES ASSUME Turnos, asc PROVE Turnos'
      BY <1>1 DEF Turnos
    <2>1. ASSUME NEW e \in Expedientes, guardado'[e] > cursor'.marca
          PROVE  Cardinality(Anteriores(guardado[e]))' < TamLote
      <3>1. PICK g \in Int : g = guardado[e]
        BY <1>2, Cotas DEF PasadaTypeOK
      <3>2. g > cursor.marca
        BY <1>1, <1>4, <1>5, <2>1, <3>1
      <3>3. Cardinality(Anteriores(g)) < TamLote
        BY <3>1, <3>2 DEF Turnos
      <3>4. Cardinality(Anteriores(g)') < TamLote
        BY <1>1, <1>5, <3>3, QuedanMenos
      <3>5. Anteriores(guardado[e])' = Anteriores(g)'
        BY <1>1, <3>1 DEF Anteriores
      <3> QED
        BY <3>4, <3>5
    <2> QED
      BY <1>1, <1>3, <2>1 DEF Turnos
  <1> QED
    BY <1>1, <1>3, <1>6, <1>7, <1>8, <1>9, <1>10 DEF PasadaInv, Orden

(* A run that is cut, with what it had written of its batch. *)
LEMMA CorteEs ==
    ASSUME PasadaInv, UNCHANGED entorno, \E T \in Escribible : Escribir(T), cursor' = cursor,
           DlqSigue, noAnotados' \subseteq Entradas, averias' \in 0 .. MaxAverias,
           huecos' = huecos,
           pasada' = Parada \/ pasada' = Cerrada(TRUE, TRUE)
    PROVE  /\ PasadaInv' /\ (Orden => Orden') /\ ~Leyendo'
           /\ pasada' # Parada => pasada'.fuente = pasada.fuente /\ pasada'.fase = "cerrada"
           /\ Orden /\ pasada.fuente = Feed =>
                \A e \in Expedientes : guardado'[e] >= guardado[e]
  <1>1. EnFeed' = EnFeed /\ rotos' = rotos /\ asc' = asc /\ publicado' = publicado
    BY DEF EnFeed, entorno
  <1>2. PICK S \in SUBSET Avisos :
          Escribir(S) /\ S \subseteq pasada.lote /\ (S # {} => Leyendo /\ (LoteLleno \/ ~Quedan))
    <2>1. pasada.lote \subseteq Avisos /\ (~Leyendo => pasada.lote = {})
      BY LoteEs DEF PasadaInv, Lugar
    <2>2. PICK T \in Escribible : Escribir(T)
      OBVIOUS
    <2>3. T \subseteq pasada.lote /\ (T # {} => LoteLleno \/ ~Quedan)
      BY <2>2 DEF Escribible
    <2> QED
      BY <2>1, <2>2, <2>3
  <1>3. PasadaTypeOK /\ Lugar /\ NadaSeSalta /\ Guardados
    BY DEF PasadaInv
  <1>4. /\ guardado' \in [Expedientes -> 0 .. MaxAvisos]
        /\ alcanzado' \in [Expedientes -> 0 .. MaxAvisos]
        /\ \A e \in Expedientes :
             \/ guardado'[e] = guardado[e]
             \/ \E n \in S : ExpedienteDe[n] = e /\ guardado'[e] = n
        /\ \A n \in Avisos : Ingerido(n) => Ingerido(n)'
    <2>1. \A m, n \in S : ExpedienteDe[m] = ExpedienteDe[n] => m = n
      BY <1>2, LoteEs
    <2> QED
      BY <1>2, <1>3, <2>1, EscribirEs
  <1>5. /\ pasada' \in Pasada /\ pasada'.lote = {} /\ pasada'.fase # "leyendo"
        /\ pasada' # Parada => pasada'.fuente = pasada.fuente /\ pasada'.fase = "cerrada"
        /\ pasada'.fuente \in {Feed, pasada.fuente}
    <2>1. CASE pasada' = Parada
      BY <2>1, ParadaEs DEF Parada
    <2>2. CASE pasada' = Cerrada(TRUE, TRUE)
      <3>1. pasada' \in {Cerrada(TRUE, TRUE), Cerrada(TRUE, FALSE), Cerrada(FALSE, FALSE)}
        BY <2>2
      <3>2. PICK r \in {Cerrada(TRUE, TRUE), Cerrada(TRUE, FALSE), Cerrada(FALSE, FALSE)} :
              r = pasada'
        BY <3>1
      <3> QED
        BY <1>3, <3>2, CerradaEs
    <2> QED
      BY <2>1, <2>2
  <1>6. PasadaTypeOK'
    BY <1>1, <1>3, <1>4, <1>5 DEF PasadaTypeOK, DlqSigue
  <1>7. ~Leyendo' /\ Lugar' /\ LoteBien' /\ Cuenta' /\ Cimas'
    BY <1>1, <1>3, <1>5 DEF Leyendo, Lugar, LoteBien, Cuenta, Cimas
  <1>8. NadaSeSalta'
    BY <1>3, <1>4 DEF NadaSeSalta, DlqSigue, Rastro
  <1>9. \A e \in Expedientes : guardado[e] \in Int /\ guardado'[e] \in Int
    BY <1>3, <1>4, Cotas DEF PasadaTypeOK
  <1>10. Guardados'
    <2>1. \A n \in S : n \notin rotos /\ n \in 1 .. EnFeed
      BY <1>2, LoteEs
    <2>2. EnFeed \in Int
      BY <1>3, CamposPasada
    <2> QED
      BY <1>1, <1>3, <1>4, <2>1, <2>2 DEF Guardados
  <1>11. Turnos => Turnos'
    <2> SUFFICES ASSUME Turnos, asc PROVE Turnos'
      BY <1>1 DEF Turnos
    <2>1. \A n : Anteriores(n)' = Anteriores(n)
      BY <1>1 DEF Anteriores
    <2>2. ASSUME NEW e \in Expedientes, guardado'[e] > cursor.marca
          PROVE  Cardinality(Anteriores(guardado[e]))' < TamLote
      <3>1. PICK g \in Int : g = guardado'[e]
        BY <1>9
      <3>2. Cardinality(Anteriores(g)) < TamLote
        BY <1>2, <1>4, <2>2, <3>1 DEF Turnos
      <3>3. Anteriores(guardado[e])' = Anteriores(g)'
        BY <3>1 DEF Anteriores
      <3> QED
        BY <2>1, <3>2, <3>3
    <2> QED
      BY <1>1, <1>5, <2>2 DEF Turnos
  <1>12. ASSUME Orden, pasada.fuente = Feed, NEW e \in Expedientes PROVE guardado'[e] >= guardado[e]
    <2>1. CASE guardado'[e] = guardado[e]
      BY <1>9, <2>1
    <2>2. ASSUME NEW n \in S, ExpedienteDe[n] = e, guardado'[e] = n
          PROVE  guardado'[e] >= guardado[e]
      <3>1. guardado[ExpedienteDe[n]] <= n
        BY <1>2, <1>12, NadieRetrocede
      <3> QED
        BY <1>9, <2>2, <3>1
    <2> QED
      BY <1>4, <2>1, <2>2
  <1> QED
    BY <1>5, <1>6, <1>7, <1>8, <1>10, <1>11, <1>12 DEF PasadaInv, Orden

LEMMA FallarPaso ==
    ASSUME PasadaInv, Abortar, averias' \in 0 .. MaxAverias, UNCHANGED entorno
    PROVE  /\ PasadaInv' /\ (Orden => Orden') /\ ~Leyendo' /\ Leyendo
           /\ pasada'.fuente = pasada.fuente /\ pasada'.fase = "cerrada"
           /\ Orden /\ pasada.fuente = Feed =>
                \A e \in Expedientes : guardado'[e] >= guardado[e]
           /\ \A d \in Filas : d \in Filas' /\ dlq'[d].resuelta = dlq[d].resuelta
  <1>1. PasadaTypeOK /\ pasada.fuente \in Fuentes
    BY CamposPasada DEF PasadaInv
  <1>2. PICK k \in Entradas : k = Clave(Fetch)
    BY <1>1, Constantes DEF Clave
  <1>3. AnotarFallo(k)
    BY <1>2 DEF Abortar
  <1>4. /\ DlqSigue /\ noAnotados' \subseteq Entradas
        /\ \A d \in Filas : d \in Filas' /\ dlq'[d].resuelta = dlq[d].resuelta
    BY <1>1, <1>3, AnotarFalloEs DEF DlqSigue
  <1>5. pasada' = Cerrada(TRUE, TRUE) /\ cursor' = cursor /\ huecos' = huecos /\ Leyendo
        /\ \E S \in Escribible : Escribir(S)
    BY DEF Abortar, Leyendo
  <1>6. pasada' # Parada
    BY <1>5 DEF Cerrada, Parada
  <1> QED
    BY <1>4, <1>5, <1>6, CorteEs

LEMMA MorirPaso ==
    ASSUME PasadaInv, Morir, UNCHANGED entorno
    PROVE  /\ PasadaInv' /\ (Orden => Orden') /\ pasada' = Parada
           /\ Orden /\ pasada.fuente = Feed =>
                \A e \in Expedientes : guardado'[e] >= guardado[e]
  <1>1. /\ pasada' = Parada /\ cursor' = cursor /\ dlq' = dlq /\ noAnotados' = noAnotados
        /\ huecos' = huecos /\ \E S \in Escribible : Escribir(S)
        /\ averias < MaxAverias /\ averias' = averias + 1
    BY DEF Morir
  <1>2. DlqSigue /\ noAnotados' \subseteq Entradas /\ averias' \in 0 .. MaxAverias
    BY <1>1, Constantes, DlqQuieta DEF PasadaInv, PasadaTypeOK
  <1> QED
    BY <1>1, <1>2, CorteEs

LEMMA PublicarPaso ==
    ASSUME PasadaInv, EnFeed < MaxAvisos, NEW d \in 1 .. MaxDias,
           publicado' = Append(publicado, d), UNCHANGED <<lectura, rotos, asc>>
    PROVE  PasadaInv' /\ (Orden => Orden') /\ EnFeed' = EnFeed + 1
  <1>1. publicado' \in Seq(1 .. MaxDias) /\ EnFeed' = EnFeed + 1
    BY AppendProperties DEF PasadaInv, PasadaTypeOK, EnFeed
  <1>2. /\ EnFeed \in 0 .. MaxAvisos /\ EnFeed \in Int /\ pasada.cima \in Int /\ pasada.sig \in Int
        /\ cursor.marca \in Int
        /\ \A e \in Expedientes : guardado[e] \in Int
    BY CamposPasada, Cotas DEF PasadaInv, PasadaTypeOK
  <1>3. /\ cursor' = cursor /\ guardado' = guardado /\ alcanzado' = alcanzado
        /\ noAnotados' = noAnotados /\ huecos' = huecos /\ averias' = averias
        /\ pasada' = pasada /\ dlq' = dlq
        /\ rotos' = rotos /\ asc' = asc
    BY DEF lectura
  <1>4. PasadaTypeOK'
    <2>1. Len(publicado') <= MaxAvisos
      BY <1>1, <1>2, Cotas DEF EnFeed
    <2>2. PasadaTypeOK /\ DlqTypeOK'
      BY <1>3 DEF PasadaInv, PasadaTypeOK, DlqTypeOK
    <2> QED
      BY <1>1, <1>3, <2>1, <2>2 DEF PasadaTypeOK
  <1>5. (Leyendo' <=> Leyendo) /\ (Incremental' <=> Incremental) /\ Leido' = Leido
    BY <1>3 DEF Leyendo, Incremental, Leido
  <1>6. Lugar'
    BY <1>1, <1>2, <1>3, <1>5 DEF PasadaInv, Lugar
  <1>7. LoteBien' /\ (Cimas => Cimas')
    BY <1>3, <1>5 DEF PasadaInv, LoteBien, Cimas
  <1>8. /\ \A n : Rastro(n)' <=> Rastro(n)
        /\ \A n : Ingerido(n)' <=> Ingerido(n)
        /\ \A n : EnLote(n)' <=> EnLote(n)
        /\ \A n : Anteriores(n)' = Anteriores(n)
    BY <1>3 DEF Rastro, Anotado, NoAnotado, Filas, Ingerido, EnLote, MismoExpediente, Anteriores
  <1>9. Cuenta' /\ NadaSeSalta'
    BY <1>3, <1>5, <1>8 DEF PasadaInv, Cuenta, NadaSeSalta, Rastro
  <1>10. Guardados'
    BY <1>1, <1>2, <1>3 DEF PasadaInv, Guardados
  <1>11. Turnos => Turnos'
    BY <1>3, <1>8 DEF Turnos
  <1> QED
    BY <1>1, <1>4, <1>6, <1>7, <1>9, <1>10, <1>11 DEF PasadaInv, Orden

LEMMA NadaCambia ==
    ASSUME PasadaInv, UNCHANGED <<escrito, pasada, entorno>>, DlqSigue
    PROVE  PasadaInv' /\ (Orden => Orden') /\ EnFeed' = EnFeed
  <1>1. /\ cursor' = cursor /\ guardado' = guardado /\ alcanzado' = alcanzado
        /\ noAnotados' = noAnotados /\ huecos' = huecos /\ averias' = averias /\ pasada' = pasada
        /\ publicado' = publicado /\ rotos' = rotos /\ asc' = asc
    BY DEF escrito, tablasIngesta, entorno
  <1>2. PasadaTypeOK' /\ EnFeed' = EnFeed
    BY <1>1 DEF PasadaInv, PasadaTypeOK, EnFeed, DlqSigue
  <1>3. (Leyendo' <=> Leyendo) /\ (Incremental' <=> Incremental) /\ Leido' = Leido
    BY <1>1 DEF Leyendo, Incremental, Leido
  <1>4. /\ \A n : Rastro(n) => Rastro(n)'
        /\ \A n : Ingerido(n)' <=> Ingerido(n)
        /\ \A n : EnLote(n)' <=> EnLote(n)
        /\ \A n : Anteriores(n)' = Anteriores(n)
    BY <1>1 DEF DlqSigue, Ingerido, EnLote, MismoExpediente, Anteriores
  <1>5. Lugar' /\ LoteBien' /\ Guardados' /\ (Cimas => Cimas')
    BY <1>1, <1>2, <1>3 DEF PasadaInv, Lugar, LoteBien, Cimas, Guardados
  <1>6. Cuenta' /\ NadaSeSalta' /\ (Turnos => Turnos')
    BY <1>1, <1>3, <1>4 DEF PasadaInv, Cuenta, NadaSeSalta, Rastro, Turnos
  <1> QED
    BY <1>2, <1>5, <1>6 DEF PasadaInv, Orden

-----------------------------------------------------------------------------
(* The lane: only a feed that is read from the newest falls back to ZIPs,   *)
(* and a ZIP holds nothing the feed did not publish.                        *)
Carriles ==
    /\ carril.paso # "zip" => pasada.fuente = Feed
    /\ carril.paso = "zip" => ~asc
    /\ \A m \in Meses : descargas[m].avisos \subseteq 1 .. EnFeed

CarrilTypeOK ==
    /\ dia \in Dias
    /\ respaldo \in [cursor : 0 .. MaxAvisos, pasadas : 0 .. Umbral - 1, ultimo : {0} \union Dias]
    /\ descargas \in [Meses -> [hay : BOOLEAN, avisos : SUBSET Avisos]]
    /\ carril \in Carril
    /\ cortado \in BOOLEAN

Inv == PasadaInv /\ Orden /\ CarrilTypeOK /\ Carriles

LEMMA InvInicio == Init => Inv
  <1> SUFFICES ASSUME Init PROVE Inv
    OBVIOUS
  <1>1. PasadaInv /\ Orden
    BY InicioPasada DEF Init
  <1>2. Umbral \in Nat \ {0} /\ MaxDias \in Nat \ {0} /\ MaxAvisos \in Nat
    BY RespaldoAssumption, PasadaAssumption
  <1>3. CarrilTypeOK
    <2>1. /\ dia \in Dias /\ cortado \in BOOLEAN /\ carril \in Carril
          /\ respaldo \in [cursor : 0 .. MaxAvisos, pasadas : 0 .. Umbral - 1,
                           ultimo : {0} \union Dias]
      <3>1. dia \in Dias
        <4>1. dia = 1
          BY DEF Init
        <4> QED
          BY <1>2, <4>1 DEF Dias
      <3>2. cortado \in BOOLEAN
        BY DEF Init
      <3>3. carril \in Carril
        BY <1>2 DEF Init, Libre, Carril
      <3>4. 0 \in 0 .. MaxAvisos /\ 0 \in 0 .. Umbral - 1
        BY <1>2
      <3>5. respaldo = [cursor |-> 0, pasadas |-> 0, ultimo |-> 0]
        BY DEF Init
      <3> QED
        BY <3>1, <3>2, <3>3, <3>4, <3>5
    <2>2. descargas \in [Meses -> [hay : BOOLEAN, avisos : SUBSET Avisos]]
      BY DEF Init, NoDescargado
    <2> QED
      BY <2>1, <2>2 DEF CarrilTypeOK
  <1>4. Carriles
    BY DEF Init, Carriles, PasadaInit, Parada, Libre, NoDescargado
  <1> QED
    BY <1>1, <1>3, <1>4 DEF Inv

LEMMA EmpezarInv ==
    ASSUME Inv, Empezar
    PROVE  Inv' /\ guardado' = guardado
  <1>1. /\ PasadaInv /\ Orden /\ EmpezarFeed /\ UNCHANGED <<tablasIngesta, dlq, entorno>>
        /\ guardado' = guardado
    BY DEF Inv, Empezar, tablas, tablasIngesta
  <1>2. PasadaInv' /\ Orden' /\ pasada'.fuente = Feed
    BY <1>1, EmpezarFeedPaso
  <1>3. /\ dia' = dia /\ respaldo' = respaldo /\ descargas' = descargas /\ cortado' = cortado
        /\ EnFeed' = EnFeed /\ carril' = [Libre EXCEPT !.paso = "feed", !.antes = cursor.marca]
    BY DEF Empezar, EnFeed, entorno
  <1>4. carril' \in Carril /\ carril'.paso = "feed"
    BY <1>1, <1>3, CamposPasada DEF PasadaInv, Libre, Carril
  <1>5. CarrilTypeOK' /\ Carriles'
    BY <1>2, <1>3, <1>4 DEF Inv, CarrilTypeOK, Carriles
  <1> QED
    BY <1>1, <1>2, <1>5 DEF Inv

LEMMA IngerirInv ==
    ASSUME Inv, Ingerir
    PROVE  /\ Inv'
           /\ carril.paso # "zip" => \A e \in Expedientes : guardado'[e] >= guardado[e]
  <1>1. /\ PasadaInv /\ Orden /\ UNCHANGED entorno /\ EnFeed' = EnFeed /\ asc' = asc
        /\ dia' = dia /\ respaldo' = respaldo /\ descargas' = descargas /\ carril' = carril
    BY DEF Inv, Ingerir, EnFeed, entorno
  <1>2. cortado' \in BOOLEAN
    BY DEF Inv, CarrilTypeOK, Ingerir, CortaElAnterior
  <1>3. \A e \in Expedientes : guardado[e] \in Int
    BY <1>1, Cotas DEF PasadaInv, PasadaTypeOK
  <1>4. /\ PasadaInv' /\ Orden' /\ pasada'.fuente = pasada.fuente
        /\ pasada.fuente = Feed => \A e \in Expedientes : guardado'[e] >= guardado[e]
    <2>1. CASE Leer
      BY <1>1, <1>3, <2>1, LeerPaso
    <2>2. CASE Volcar
      BY <1>1, <2>2, VolcarPaso
    <2>3. CASE Completar
      BY <1>1, <1>3, <2>3, CompletarPaso
    <2>4. CASE Fallar
      <3>1. Abortar /\ averias' \in 0 .. MaxAverias
        BY <1>1, <2>4, Constantes DEF Fallar, PasadaInv, PasadaTypeOK
      <3> QED
        BY <1>1, <3>1, FallarPaso
    <2> QED
      BY <2>1, <2>2, <2>3, <2>4 DEF Ingerir, Avanzar
  <1>5. CarrilTypeOK' /\ Carriles'
    BY <1>1, <1>2, <1>4 DEF Inv, CarrilTypeOK, Carriles
  <1> QED
    BY <1>4, <1>5 DEF Inv, Carriles

LEMMA TrasPasadaInv ==
    ASSUME Inv, TrasPasada
    PROVE  Inv' /\ guardado' = guardado
  <1>1. /\ PasadaInv /\ Orden /\ UNCHANGED <<escrito, entorno>> /\ pasada' = Parada
        /\ dlq' = dlq /\ noAnotados' = noAnotados /\ guardado' = guardado
        /\ dia' = dia /\ descargas' = descargas /\ cortado' = cortado /\ EnFeed' = EnFeed
        /\ asc' = asc
    BY DEF Inv, TrasPasada, leido, tablas, escrito, tablasIngesta, entorno, EnFeed
  <1>2. PasadaInv' /\ Orden' /\ pasada'.fuente = Feed
    BY <1>1, DlqQuieta, AlTerminar
  <1>3. /\ carril' \in Carril
        /\ carril'.paso = "libre" \/ (carril'.paso = "zip" /\ ~asc)
    <2>1. Libre \in Carril /\ Libre.paso = "libre"
      BY Constantes DEF Libre, Carril
    <2>2. [Libre EXCEPT !.paso = "zip", !.meses = MesesDeRespaldo] \in Carril
      BY <2>1 DEF Carril, MesesDeRespaldo
    <2> QED
      BY <2>1, <2>2 DEF TrasPasada, Libre
  <1>4. respaldo' \in [cursor : 0 .. MaxAvisos, pasadas : 0 .. Umbral - 1,
                       ultimo : {0} \union Dias]
    <2>1. /\ respaldo.cursor \in 0 .. MaxAvisos /\ respaldo.pasadas \in 0 .. Umbral - 1
          /\ respaldo.ultimo \in {0} \union Dias /\ carril.antes \in 0 .. MaxAvisos
          /\ dia \in Dias /\ cursor.marca \in 0 .. MaxAvisos
          /\ respaldo \in [cursor : 0 .. MaxAvisos, pasadas : 0 .. Umbral - 1,
                           ultimo : {0} \union Dias]
      BY <1>1, CamposPasada DEF Inv, CarrilTypeOK, Carril, PasadaInv
    <2>2. Umbral \in Nat \ {0}
      BY RespaldoAssumption
    <2>3. Ultimo \in {0} \union Dias
      BY <2>1 DEF Ultimo
    <2>4. ~TocaRespaldo => Pasadas \in 0 .. Umbral - 1
      BY <2>1, <2>2 DEF TocaRespaldo, Pasadas
    <2>5. 0 \in 0 .. Umbral - 1
      BY <2>2
    <2> QED
      BY <2>1, <2>3, <2>4, <2>5 DEF TrasPasada
  <1>5. CarrilTypeOK' /\ Carriles'
    BY <1>1, <1>2, <1>3, <1>4 DEF Inv, CarrilTypeOK, Carriles
  <1> QED
    BY <1>1, <1>2, <1>5 DEF Inv

LEMMA BajarZipInv ==
    ASSUME Inv, BajarZip
    PROVE  Inv' /\ guardado' = guardado
  <1>1. /\ PasadaInv /\ Orden /\ UNCHANGED <<escrito, dlq, entorno>> /\ guardado' = guardado
        /\ dia' = dia /\ respaldo' = respaldo /\ cortado' = cortado /\ EnFeed' = EnFeed
        /\ asc' = asc /\ carril.paso = "zip" /\ ~asc
    BY DEF Inv, Carriles, BajarZip, leido, tablas, escrito, tablasIngesta, entorno, EnFeed
  <1>2. PICK m \in carril.meses :
          /\ EmpezarZip(m, Descargado(m))
          /\ descargas' = [descargas EXCEPT ![m] =
                             IF DiscoEfimero \/ Descargado(m) = {} THEN @
                             ELSE [hay |-> TRUE, avisos |-> Descargado(m)]]
          /\ carril' = [carril EXCEPT !.meses = @ \ {m}]
    BY DEF BajarZip
  <1>3. m \in Meses /\ carril' \in Carril /\ carril'.paso = "zip"
    BY <1>1, <1>2 DEF Inv, CarrilTypeOK, Carril
  <1>4. Descargado(m) \subseteq 1 .. EnFeed
    BY <1>3 DEF Inv, Carriles, Descargado, EnZip
  <1>5. PICK S \in SUBSET (1 .. EnFeed) : S = Descargado(m)
    BY <1>4
  <1>6. PasadaInv' /\ Orden'
    <2>1. EmpezarZip(m, S)
      BY <1>2, <1>5
    <2> QED
      BY <1>1, <1>3, <2>1, EmpezarZipPaso
  <1>7. /\ descargas' \in [Meses -> [hay : BOOLEAN, avisos : SUBSET Avisos]]
        /\ \A k \in Meses : descargas'[k].avisos \subseteq 1 .. EnFeed
    <2>1. S \subseteq Avisos
      <3>1. EnFeed \in 0 .. MaxAvisos
        BY <1>1, CamposPasada DEF PasadaInv
      <3> QED
        BY <3>1, Cotas DEF Avisos
    <2>2. /\ descargas \in [Meses -> [hay : BOOLEAN, avisos : SUBSET Avisos]]
          /\ \A k \in Meses : descargas[k].avisos \subseteq 1 .. EnFeed
      BY DEF Inv, CarrilTypeOK, Carriles
    <2>3. \/ descargas' = descargas
          \/ descargas' = [descargas EXCEPT ![m] = [hay |-> TRUE, avisos |-> S]]
      BY <1>2, <1>5, <2>2
    <2> DEFINE z == [hay |-> TRUE, avisos |-> S]
    <2>4. z \in [hay : BOOLEAN, avisos : SUBSET Avisos] /\ z.avisos \subseteq 1 .. EnFeed
      BY <2>1
    <2> HIDE DEF z
    <2>5. CASE descargas' = [descargas EXCEPT ![m] = z]
      <3>1. descargas' \in [Meses -> [hay : BOOLEAN, avisos : SUBSET Avisos]]
        BY <1>3, <2>2, <2>4, <2>5
      <3>2. ASSUME NEW k \in Meses PROVE descargas'[k].avisos \subseteq 1 .. EnFeed
        <4>1. descargas'[k] = IF k = m THEN z ELSE descargas[k]
          BY <1>3, <2>2, <2>5
        <4> QED
          BY <2>2, <2>4, <4>1
      <3> QED
        BY <3>1, <3>2
    <2> QED
      BY <2>2, <2>3, <2>5 DEF z
  <1>8. CarrilTypeOK' /\ Carriles'
    BY <1>1, <1>3, <1>7 DEF Inv, CarrilTypeOK, Carriles
  <1> QED
    BY <1>1, <1>6, <1>8 DEF Inv

LEMMA TrasZipInv ==
    ASSUME Inv, TrasZip
    PROVE  Inv' /\ guardado' = guardado
  <1>1. /\ PasadaInv /\ Orden /\ UNCHANGED <<escrito, entorno>> /\ pasada' = Parada
        /\ dlq' = dlq /\ noAnotados' = noAnotados /\ guardado' = guardado
        /\ dia' = dia /\ respaldo' = respaldo /\ descargas' = descargas /\ cortado' = cortado
        /\ EnFeed' = EnFeed /\ asc' = asc /\ ~asc
        /\ carril' = Libre \/ carril' = carril
    BY DEF Inv, Carriles, TrasZip, leido, tablas, escrito, tablasIngesta, entorno, EnFeed
  <1>2. PasadaInv' /\ Orden' /\ pasada'.fuente = Feed
    BY <1>1, DlqQuieta, AlTerminar
  <1>3. carril' \in Carril
    BY <1>1, Constantes DEF Inv, CarrilTypeOK, Carril, Libre
  <1>4. CarrilTypeOK' /\ Carriles'
    BY <1>1, <1>2, <1>3 DEF Inv, CarrilTypeOK, Carriles
  <1> QED
    BY <1>1, <1>2, <1>4 DEF Inv

LEMMA CaidaInv ==
    ASSUME Inv, Caida
    PROVE  /\ Inv'
           /\ carril.paso # "zip" => \A e \in Expedientes : guardado'[e] >= guardado[e]
  <1>1. /\ PasadaInv /\ Orden /\ Morir /\ UNCHANGED entorno /\ EnFeed' = EnFeed /\ carril' = Libre
        /\ dia' = dia /\ respaldo' = respaldo /\ descargas' = descargas
    BY DEF Inv, Caida, EnFeed, entorno
  <1>2. cortado' \in BOOLEAN
    BY DEF Inv, CarrilTypeOK, Caida, CortaElAnterior
  <1>3. /\ PasadaInv' /\ Orden' /\ pasada' = Parada
        /\ pasada.fuente = Feed => \A e \in Expedientes : guardado'[e] >= guardado[e]
    BY <1>1, MorirPaso
  <1>4. carril' \in Carril /\ carril'.paso = "libre"
    BY <1>1, Constantes DEF Carril, Libre
  <1>5. CarrilTypeOK' /\ Carriles'
    BY <1>1, <1>2, <1>3, <1>4 DEF Inv, CarrilTypeOK, Carriles, Parada
  <1> QED
    BY <1>3, <1>5 DEF Inv, Carriles

LEMMA PublicarInv ==
    ASSUME Inv, Publicar
    PROVE  Inv' /\ guardado' = guardado
  <1>1. /\ PasadaInv /\ Orden /\ EnFeed < MaxAvisos /\ publicado' = Append(publicado, dia)
        /\ UNCHANGED <<lectura, rotos, asc>> /\ dia \in Dias
        /\ dia' = dia /\ respaldo' = respaldo /\ descargas' = descargas /\ carril' = carril
        /\ cortado' = cortado
    BY DEF Inv, CarrilTypeOK, Publicar
  <1>2. PICK d \in 1 .. MaxDias : d = dia
    BY <1>1 DEF Dias
  <1>3. PasadaInv' /\ Orden' /\ EnFeed' = EnFeed + 1
    BY <1>1, <1>2, PublicarPaso
  <1>4. 1 .. EnFeed \subseteq 1 .. EnFeed'
    BY <1>1, <1>3, CamposPasada DEF PasadaInv
  <1>5. pasada' = pasada /\ asc' = asc /\ guardado' = guardado
    BY <1>1 DEF lectura
  <1>6. CarrilTypeOK'
    BY <1>1 DEF Inv, CarrilTypeOK
  <1>7. Carriles'
    BY <1>1, <1>4, <1>5 DEF Inv, Carriles
  <1> QED
    BY <1>3, <1>5, <1>6, <1>7 DEF Inv

LEMMA QuietoInv ==
    ASSUME Inv, CambiarDia \/ UNCHANGED vars
    PROVE  Inv' /\ guardado' = guardado
  <1>1. /\ PasadaInv /\ Orden /\ UNCHANGED <<lectura, entorno>>
        /\ respaldo' = respaldo /\ descargas' = descargas /\ carril' = carril
        /\ cortado' = cortado
    BY DEF Inv, CambiarDia, vars
  <1>2. dia' \in Dias
    BY PasadaAssumption DEF Inv, CarrilTypeOK, CambiarDia, vars, Dias
  <1>3. PasadaInv' /\ Orden' /\ EnFeed' = EnFeed
    BY <1>1, DlqQuieta, NadaCambia DEF lectura, escrito, tablasIngesta
  <1>4. pasada' = pasada /\ asc' = asc /\ guardado' = guardado
    BY <1>1 DEF lectura, entorno
  <1>5. CarrilTypeOK' /\ Carriles'
    BY <1>1, <1>2, <1>3, <1>4 DEF Inv, CarrilTypeOK, Carriles
  <1> QED
    BY <1>3, <1>4, <1>5 DEF Inv

LEMMA InvPaso ==
    Inv /\ [Next]_vars =>
      /\ Inv'
      /\ carril.paso # "zip" => \A e \in Expedientes : guardado'[e] >= guardado[e]
  <1> SUFFICES ASSUME Inv, [Next]_vars
               PROVE  /\ Inv'
                      /\ carril.paso # "zip" =>
                           \A e \in Expedientes : guardado'[e] >= guardado[e]
    OBVIOUS
  <1>1. \A e \in Expedientes : guardado[e] \in Int
    BY Cotas DEF Inv, PasadaInv, PasadaTypeOK
  <1>2. CASE Empezar
    BY <1>1, <1>2, EmpezarInv
  <1>3. CASE Ingerir
    BY <1>3, IngerirInv
  <1>4. CASE TrasPasada
    BY <1>1, <1>4, TrasPasadaInv
  <1>5. CASE BajarZip
    BY <1>1, <1>5, BajarZipInv
  <1>6. CASE TrasZip
    BY <1>1, <1>6, TrasZipInv
  <1>7. CASE Caida
    BY <1>7, CaidaInv
  <1>8. CASE Publicar
    BY <1>1, <1>8, PublicarInv
  <1>9. CASE CambiarDia \/ UNCHANGED vars
    BY <1>1, <1>9, QuietoInv
  <1> QED
    BY <1>2, <1>3, <1>4, <1>5, <1>6, <1>7, <1>8, <1>9 DEF Next, Proceso

-----------------------------------------------------------------------------
LEMMA InvSiempre == Spec => []Inv
  <1>1. Inv /\ [Next]_vars => Inv'
    BY InvPaso
  <1> QED
    BY <1>1, InvInicio, PTL DEF Spec

(* Whatever is published, cut or broken, the tables, the run in progress    *)
(* and the state of the fall back keep their types; in particular no        *)
(* position leaves the feed and the count of passes stays below its         *)
(* threshold.                                                               *)
THEOREM Tipado == Spec => []TypeOK
  <1>1. Inv => TypeOK
    BY DEF Inv, PasadaInv, CarrilTypeOK, TypeOK
  <1> QED
    BY <1>1, InvSiempre, PTL

(* The cursor passes over a notice that was neither written nor put on      *)
(* record only if its failure could not be written down or it was behind a  *)
(* page without a link to it: there is no third way, whichever way the feed *)
(* goes, however long the runs and the batches are and wherever they are    *)
(* cut (base.py:718-731, 792-800; atom_live.py:268-291).                    *)
THEOREM NadaSeSaltaNunca == Spec => []NadaSeSalta
  <1>1. Inv => NadaSeSalta
    BY DEF Inv, PasadaInv
  <1> QED
    BY <1>1, InvSiempre, PTL

(* Within the feed no tender goes back to an older version: not when a run  *)
(* meets it in several batches, nor when one that was cut had written part  *)
(* of its batch (base.py:572-580).                                          *)
THEOREM NadieRegresa == Spec => NoRegresa
  <1>1. Inv /\ [Next]_vars =>
          [carril.paso # "zip" => \A e \in Expedientes : guardado'[e] >= guardado[e]]_vars
    BY InvPaso
  <1> QED
    BY <1>1, InvSiempre, PTL DEF Spec, NoRegresa

-----------------------------------------------------------------------------
(* The retry of the DLQ.  A run is only in progress inside the ingestion or *)
(* a retry, and what the cycle and the administrator hold are rows of the   *)
(* table: rows never go away.                                               *)
CicloTypeOK ==
    /\ caida \in BOOLEAN
    /\ ciclo \in Ciclo
    /\ panel \in 0 .. MaxFilas
    /\ ordenes \in 0 .. MaxOrdenes

EnCurso ==
    /\ Leyendo => ciclo.paso \in {"ingesta", "reintento"}
    /\ ciclo.elegidas \subseteq Filas /\ ciclo.cola \subseteq Filas
    /\ panel # 0 => panel \in Filas

CicloInv == PasadaInv /\ CicloTypeOK /\ EnCurso

(* Whoever was resolved or discarded stays so. *)
NadieSeReabre ==
    \A d \in Filas : d \in Filas' /\ (dlq[d].resuelta # "no" => dlq'[d].resuelta # "no")

LEMMA FilasSon ==
    ASSUME DlqTypeOK
    PROVE  /\ Filas = 1 .. Len(dlq) /\ Filas \subseteq 1 .. MaxFilas /\ Len(dlq) \in Nat
           /\ \A d \in Filas : dlq[d] \in Fila
  BY Constantes DEF DlqTypeOK, Filas

LEMMA FilasCambian ==
    ASSUME PasadaInv, noAnotados' = noAnotados, NEW g \in [Filas -> Fila], dlq' = g,
           \A d \in Filas : /\ g[d].clave = dlq[d].clave
                            /\ dlq[d].resuelta # "no" => g[d].resuelta # "no"
    PROVE  DlqSigue /\ NadieSeReabre
  <1>1. DlqTypeOK
    BY DEF PasadaInv, PasadaTypeOK
  <1>2. Filas = 1 .. Len(dlq) /\ Len(dlq) \in Nat /\ Len(dlq) <= MaxFilas
    BY <1>1, FilasSon DEF DlqTypeOK
  <1>3. g \in Seq(Fila)
    BY <1>2, SeqDef
  <1>4. DOMAIN g = 1 .. Len(g) /\ Len(g) \in Nat /\ DOMAIN g = 1 .. Len(dlq)
    BY <1>2, <1>3, LenProperties
  <1>5. Len(g) = Len(dlq)
    <2>1. 1 .. Len(g) = 1 .. Len(dlq)
      BY <1>4
    <2> QED
      BY <1>2, <1>4, <2>1
  <1>6. DlqTypeOK' /\ Filas' = Filas
    BY <1>2, <1>3, <1>4, <1>5 DEF DlqTypeOK, Filas
  <1>7. \A n : Rastro(n) => Rastro(n)'
    BY <1>6 DEF Rastro, Anotado, NoAnotado
  <1> QED
    BY <1>6, <1>7 DEF DlqSigue, NadieSeReabre

LEMMA FilaCambia ==
    ASSUME PasadaInv, noAnotados' = noAnotados, NEW d \in Filas, NEW f \in Fila,
           f.clave = dlq[d].clave, dlq[d].resuelta # "no" => f.resuelta # "no",
           dlq' = [dlq EXCEPT ![d] = f]
    PROVE  DlqSigue /\ NadieSeReabre
  <1>1. DlqTypeOK
    BY DEF PasadaInv, PasadaTypeOK
  <1> DEFINE g == [k \in Filas |-> IF k = d THEN f ELSE dlq[k]]
  <1>2. dlq' = g
    <2>1. dlq = [k \in Filas |-> dlq[k]]
      BY <1>1, FilasSon DEF DlqTypeOK, Filas
    <2> QED
      BY <2>1
  <1>3. g \in [Filas -> Fila]
    BY <1>1, FilasSon
  <1>4. \A k \in Filas : /\ g[k].clave = dlq[k].clave
                         /\ dlq[k].resuelta # "no" => g[k].resuelta # "no"
    OBVIOUS
  <1> HIDE DEF g
  <1> QED
    BY <1>2, <1>3, <1>4, FilasCambian

LEMMA NadaEnLaTabla ==
    ASSUME dlq' = dlq
    PROVE  NadieSeReabre /\ Filas' = Filas
  BY DEF NadieSeReabre, Filas

(* The operations of the cycle and of the administrator on a row. *)
LEMMA OperacionEs ==
    ASSUME PasadaInv, noAnotados' = noAnotados, NEW d \in Filas,
           \/ MarcarResuelta(d) \/ Incrementar(d) \/ Reencolar(d) \/ Descartar(d) \/ Vencer(d)
    PROVE  DlqSigue /\ NadieSeReabre
  <1>1. DlqTypeOK
    BY DEF PasadaInv, PasadaTypeOK
  <1>2. PICK f \in Fila : f = dlq[d]
    BY <1>1, FilasSon
  <1>3. CASE MarcarResuelta(d)
    <2>1. PICK h \in Fila : h = [f EXCEPT !.resuelta = "reintento"]
      BY DEF Fila
    <2>2. h.clave = f.clave /\ h.resuelta = "reintento" /\ dlq' = [dlq EXCEPT ![d] = h]
      BY <1>2, <1>3, <2>1 DEF MarcarResuelta, Fila
    <2> QED
      BY <1>2, <2>2, FilaCambia
  <1>4. CASE Incrementar(d)
    <2>1. PICK h \in Fila : h = Intentada(f)
      BY IntentadaEs
    <2>2. h.clave = f.clave /\ h.resuelta = f.resuelta
      BY <2>1, IntentadaEs
    <2>3. dlq' = [dlq EXCEPT ![d] = h]
      BY <1>2, <1>4, <2>1 DEF Incrementar
    <2> QED
      BY <1>2, <2>2, <2>3, FilaCambia
  <1>5. CASE Reencolar(d)
    <2>1. CASE dlq' = dlq
      BY <2>1, DlqQuieta, NadaEnLaTabla
    <2>2. CASE dlq' # dlq
      <3>1. PICK h \in Fila :
              h = [f EXCEPT !.intentos = 0, !.vencida = TRUE, !.agotada = FALSE]
        <4>1. 0 \in 0 .. MaxReintentos
          BY Constantes
        <4>2. [f EXCEPT !.intentos = 0, !.vencida = TRUE, !.agotada = FALSE] \in Fila
          BY <4>1 DEF Fila
        <4> QED
          BY <4>2
      <3>2. h.clave = f.clave /\ h.resuelta = f.resuelta
        BY <3>1 DEF Fila
      <3>3. dlq' = [dlq EXCEPT ![d] = h]
        BY <1>2, <1>5, <2>2, <3>1 DEF Reencolar
      <3> QED
        BY <1>2, <3>2, <3>3, FilaCambia
    <2> QED
      BY <2>1, <2>2
  <1>6. CASE Descartar(d)
    <2> DEFINE r == IF f.resuelta = "no" THEN "descarte" ELSE f.resuelta
    <2>1. r \in {"no", "reintento", "descarte"} /\ r # "no"
      BY DEF Fila
    <2>2. dlq' = [dlq EXCEPT ![d] = [f EXCEPT !.resuelta = r]]
      BY <1>2, <1>6 DEF Descartar
    <2> HIDE DEF r
    <2>3. PICK h \in Fila : h = [f EXCEPT !.resuelta = r]
      BY <2>1 DEF Fila
    <2>4. h.clave = f.clave /\ h.resuelta = r
      BY <2>3 DEF Fila
    <2> QED
      BY <1>2, <2>1, <2>2, <2>3, <2>4, FilaCambia
  <1>7. CASE Vencer(d)
    <2>1. PICK h \in Fila : h = [f EXCEPT !.vencida = TRUE]
      BY DEF Fila
    <2>2. h.clave = f.clave /\ h.resuelta = f.resuelta /\ dlq' = [dlq EXCEPT ![d] = h]
      BY <1>2, <1>7, <2>1 DEF Vencer, Fila
    <2> QED
      BY <1>2, <2>2, FilaCambia
  <1> QED
    BY <1>3, <1>4, <1>5, <1>6, <1>7

LEMMA AgotarEs ==
    ASSUME PasadaInv, noAnotados' = noAnotados, NEW S, AgotarIds(S)
    PROVE  DlqSigue /\ NadieSeReabre
  <1>1. DlqTypeOK
    BY DEF PasadaInv, PasadaTypeOK
  <1> DEFINE g == [d \in Filas |-> [dlq[d] EXCEPT !.agotada = @ \/ d \in S]]
  <1>2. dlq' = g
    BY DEF AgotarIds
  <1>3. ASSUME NEW d \in Filas
        PROVE  /\ g[d] \in Fila /\ g[d].clave = dlq[d].clave
               /\ g[d].resuelta = dlq[d].resuelta
    <2>1. PICK f \in Fila : f = dlq[d]
      BY <1>1, FilasSon
    <2>2. PICK b \in BOOLEAN : g[d] = [f EXCEPT !.agotada = b]
      <3>1. (f.agotada \/ d \in S) \in BOOLEAN
        OBVIOUS
      <3>2. g[d] = [f EXCEPT !.agotada = f.agotada \/ d \in S]
        BY <2>1
      <3> QED
        BY <3>1, <3>2
    <2> QED
      BY <2>1, <2>2 DEF Fila
  <1> HIDE DEF g
  <1>4. g \in [Filas -> Fila]
    BY <1>3 DEF g
  <1> QED
    BY <1>2, <1>3, <1>4, FilasCambian

LEMMA CicloVacio ==
    /\ CicloLibre \in Ciclo /\ CicloLibre.paso = "libre"
    /\ CicloLibre.elegidas = {} /\ CicloLibre.cola = {}
  BY DEF CicloLibre, Ciclo

LEMMA CicloInicio == ReintentosInit => CicloInv
  <1> SUFFICES ASSUME ReintentosInit PROVE CicloInv
    OBVIOUS
  <1>1. PasadaInv
    BY InicioPasada DEF ReintentosInit
  <1>2. ciclo = CicloLibre /\ panel = 0 /\ ordenes = 0 /\ caida = FALSE /\ ~Leyendo
    BY DEF ReintentosInit, PasadaInit, Parada, Leyendo
  <1>3. CicloTypeOK
    <2>1. 0 \in 0 .. MaxFilas /\ 0 \in 0 .. MaxOrdenes
      BY Constantes, ReintentosAssumption
    <2> QED
      BY <1>2, <2>1, CicloVacio DEF CicloTypeOK
  <1>4. EnCurso
    BY <1>2 DEF EnCurso, CicloLibre
  <1> QED
    BY <1>1, <1>3, <1>4 DEF CicloInv

(* What the cycle holds is still there after a step on the queue. *)
LEMMA SigueEnCurso ==
    ASSUME CicloInv, NadieSeReabre, ciclo'.elegidas \subseteq Filas, ciclo'.cola \subseteq Filas,
           panel' # 0 => panel' \in Filas,
           Leyendo' => ciclo'.paso \in {"ingesta", "reintento"}
    PROVE  EnCurso'
  BY DEF NadieSeReabre, EnCurso

LEMMA EmpezarCicloInv ==
    ASSUME CicloInv, EmpezarCiclo \/ Reintentar
    PROVE  CicloInv' /\ NadieSeReabre
  <1>1. /\ PasadaInv /\ EmpezarFeed /\ UNCHANGED <<tablasIngesta, dlq, entorno>>
        /\ caida' = caida /\ panel' = panel /\ ordenes' = ordenes
    BY DEF CicloInv, EmpezarCiclo, Reintentar, fuera
  <1>2. PasadaInv'
    BY <1>1, EmpezarFeedPaso
  <1>3. NadieSeReabre /\ Filas' = Filas
    BY <1>1, NadaEnLaTabla
  <1>4. /\ ciclo' \in Ciclo /\ ciclo'.paso \in {"ingesta", "reintento"}
        /\ ciclo'.elegidas \subseteq Filas /\ ciclo'.cola \subseteq Filas
    <2>1. CASE EmpezarCiclo
      BY <2>1, CicloVacio DEF EmpezarCiclo, Ciclo
    <2>2. CASE Reintentar
      BY <2>2 DEF Reintentar, CicloInv, CicloTypeOK, EnCurso
    <2> QED
      BY <2>1, <2>2
  <1>5. CicloTypeOK'
    BY <1>1, <1>4 DEF CicloInv, CicloTypeOK
  <1>6. EnCurso'
    BY <1>1, <1>3, <1>4 DEF CicloInv, EnCurso
  <1> QED
    BY <1>2, <1>3, <1>5, <1>6 DEF CicloInv

LEMMA IngerirEnCicloInv ==
    ASSUME CicloInv, IngerirEnCiclo
    PROVE  CicloInv' /\ NadieSeReabre
  <1>1. /\ PasadaInv /\ UNCHANGED entorno
        /\ caida' = caida /\ ciclo' = ciclo /\ panel' = panel /\ ordenes' = ordenes
    BY DEF CicloInv, IngerirEnCiclo
  <1>2. PasadaInv' /\ Leyendo /\ NadieSeReabre
    <2>1. CASE Leer
      BY <1>1, <2>1, LeerPaso DEF NadieSeReabre, Leer, Leyendo
    <2>2. CASE Volcar
      BY <1>1, <2>2, VolcarPaso, NadaEnLaTabla DEF Volcar, Leyendo
    <2>3. CASE Completar
      BY <1>1, <2>3, CompletarPaso, NadaEnLaTabla DEF Completar, Leyendo
    <2>4. CASE Abortar /\ averias' \in 0 .. MaxAverias
      BY <1>1, <2>4, FallarPaso DEF NadieSeReabre
    <2>5. Fallar => Abortar /\ averias' \in 0 .. MaxAverias
      BY <1>1, Constantes DEF Fallar, PasadaInv, PasadaTypeOK
    <2>6. Abortar /\ UNCHANGED averias => averias' \in 0 .. MaxAverias
      BY <1>1 DEF PasadaInv, PasadaTypeOK
    <2> QED
      BY <2>1, <2>2, <2>3, <2>4, <2>5, <2>6 DEF IngerirEnCiclo, Avanzar
  <1>3. CicloTypeOK'
    BY <1>1 DEF CicloInv, CicloTypeOK
  <1>4. EnCurso'
    BY <1>1, <1>2, SigueEnCurso DEF CicloInv, EnCurso
  <1> QED
    BY <1>2, <1>3, <1>4 DEF CicloInv

LEMMA TrasIngestaInv ==
    ASSUME CicloInv, TrasIngesta
    PROVE  CicloInv' /\ NadieSeReabre
  <1>1. /\ PasadaInv /\ UNCHANGED <<escrito, entorno>> /\ pasada' = Parada
        /\ dlq' = dlq /\ noAnotados' = noAnotados
        /\ caida' = caida /\ panel' = panel /\ ordenes' = ordenes
    BY DEF CicloInv, TrasIngesta, fuera, escrito, tablasIngesta
  <1>2. PasadaInv' /\ ~Leyendo'
    BY <1>1, DlqQuieta, AlTerminar
  <1>3. NadieSeReabre /\ Filas' = Filas
    BY <1>1, NadaEnLaTabla
  <1>4. ciclo' \in Ciclo /\ ciclo'.elegidas = {} /\ ciclo'.cola = {}
    BY CicloVacio DEF TrasIngesta, Ciclo
  <1>5. CicloTypeOK'
    BY <1>1, <1>4 DEF CicloInv, CicloTypeOK
  <1>6. EnCurso'
    BY <1>1, <1>2, <1>3, <1>4 DEF CicloInv, EnCurso
  <1> QED
    BY <1>2, <1>3, <1>5, <1>6 DEF CicloInv

LEMMA ElegirInv ==
    ASSUME CicloInv, Barrer \/ Listar
    PROVE  CicloInv' /\ NadieSeReabre
  <1>1. /\ PasadaInv /\ UNCHANGED <<escrito, pasada, entorno>>
        /\ dlq' = dlq /\ noAnotados' = noAnotados /\ pasada' = pasada
        /\ caida' = caida /\ panel' = panel /\ ordenes' = ordenes
    BY DEF CicloInv, Barrer, Listar, lectura, fuera, escrito, tablasIngesta
  <1>2. PasadaInv' /\ (Leyendo' <=> Leyendo)
    BY <1>1, DlqQuieta, NadaCambia DEF Leyendo
  <1>3. NadieSeReabre /\ Filas' = Filas
    BY <1>1, NadaEnLaTabla
  <1>4. Filas \subseteq 1 .. MaxFilas /\ ciclo \in Ciclo
    BY FilasSon DEF CicloInv, CicloTypeOK, PasadaInv, PasadaTypeOK
  <1>5. /\ ~Leyendo /\ ciclo' \in Ciclo
        /\ ciclo'.elegidas \subseteq Filas /\ ciclo'.cola \subseteq Filas
    <2>1. Agotables \subseteq Filas /\ Elegidas \subseteq Filas
      BY DEF Agotables, Elegidas, Listadas, Ultimas, Abiertas
    <2>2. CASE Barrer
      BY <1>4, <2>1, <2>2 DEF Barrer, Ciclo, CicloInv, EnCurso
    <2>3. CASE Listar
      BY <1>4, <2>1, <2>3, CicloVacio DEF Listar, Ciclo, CicloInv, EnCurso
    <2> QED
      BY <2>2, <2>3
  <1>6. CicloTypeOK'
    BY <1>1, <1>5 DEF CicloInv, CicloTypeOK
  <1>7. EnCurso'
    BY <1>1, <1>2, <1>3, <1>5 DEF CicloInv, EnCurso
  <1> QED
    BY <1>2, <1>3, <1>6, <1>7 DEF CicloInv

LEMMA AgotarInv ==
    ASSUME CicloInv, Agotar
    PROVE  CicloInv' /\ NadieSeReabre
  <1>1. /\ PasadaInv /\ UNCHANGED <<escrito, pasada, entorno>> /\ noAnotados' = noAnotados
        /\ AgotarIds(ciclo.elegidas) /\ pasada' = pasada
        /\ caida' = caida /\ panel' = panel /\ ordenes' = ordenes
    BY DEF CicloInv, Agotar, fuera, escrito, tablasIngesta
  <1>2. DlqSigue /\ NadieSeReabre
    BY <1>1, AgotarEs
  <1>3. PasadaInv' /\ (Leyendo' <=> Leyendo)
    BY <1>1, <1>2, NadaCambia DEF Leyendo
  <1>4. /\ ~Leyendo /\ ciclo' \in Ciclo
        /\ ciclo'.elegidas \subseteq Filas /\ ciclo'.cola \subseteq Filas
    BY DEF Agotar, CicloInv, CicloTypeOK, EnCurso, Ciclo
  <1>5. CicloTypeOK'
    BY <1>1, <1>4 DEF CicloInv, CicloTypeOK
  <1>6. EnCurso'
    BY <1>1, <1>2, <1>3, <1>4, SigueEnCurso DEF CicloInv, EnCurso
  <1> QED
    BY <1>2, <1>3, <1>5, <1>6 DEF CicloInv

LEMMA TrasReintentoInv ==
    ASSUME CicloInv, TrasReintento
    PROVE  CicloInv' /\ NadieSeReabre
  <1>1. /\ PasadaInv /\ UNCHANGED <<escrito, entorno>> /\ pasada' = Parada /\ noAnotados' = noAnotados
        /\ caida' = caida /\ panel' = panel /\ ordenes' = ordenes
    BY DEF CicloInv, TrasReintento, fuera, escrito, tablasIngesta
  <1>2. PICK d \in Ultimas(1, ciclo.cola) :
          /\ CerrarReintento(d)
          /\ ciclo' = IF ciclo.cola = {d} THEN CicloLibre ELSE [ciclo EXCEPT !.cola = @ \ {d}]
    BY DEF TrasReintento
  <1>3. d \in Filas /\ ciclo \in Ciclo
    BY DEF Ultimas, CicloInv, CicloTypeOK, EnCurso
  <1>4. DlqSigue /\ NadieSeReabre
    BY <1>1, <1>2, <1>3, OperacionEs DEF CerrarReintento
  <1>5. PasadaInv' /\ ~Leyendo'
    BY <1>1, <1>4, AlTerminar
  <1>6. /\ ciclo' \in Ciclo
        /\ ciclo'.elegidas \subseteq Filas /\ ciclo'.cola \subseteq Filas
    <2>1. [ciclo EXCEPT !.cola = @ \ {d}] \in Ciclo
      BY <1>3 DEF Ciclo
    <2> QED
      BY <1>2, <1>3, <2>1, CicloVacio DEF CicloInv, EnCurso, Ciclo
  <1>7. CicloTypeOK'
    BY <1>1, <1>6 DEF CicloInv, CicloTypeOK
  <1>8. EnCurso'
    BY <1>1, <1>4, <1>5, <1>6, SigueEnCurso DEF CicloInv, EnCurso
  <1> QED
    BY <1>4, <1>5, <1>7, <1>8 DEF CicloInv

LEMMA MorirCicloInv ==
    ASSUME CicloInv, MorirCiclo
    PROVE  CicloInv' /\ NadieSeReabre
  <1>1. /\ PasadaInv /\ Morir /\ UNCHANGED entorno /\ dlq' = dlq /\ ciclo' = CicloLibre
        /\ caida' = caida /\ panel' = panel /\ ordenes' = ordenes
    BY DEF CicloInv, MorirCiclo, Morir, fuera
  <1>2. PasadaInv' /\ ~Leyendo'
    BY <1>1, MorirPaso DEF Parada, Leyendo
  <1>3. NadieSeReabre /\ Filas' = Filas
    BY <1>1, NadaEnLaTabla
  <1>4. CicloTypeOK'
    BY <1>1, CicloVacio DEF CicloInv, CicloTypeOK
  <1>5. EnCurso'
    BY <1>1, <1>2, <1>3, CicloVacio DEF CicloInv, EnCurso
  <1> QED
    BY <1>2, <1>3, <1>4, <1>5 DEF CicloInv

LEMMA PublicarUnoInv ==
    ASSUME CicloInv, PublicarUno
    PROVE  CicloInv' /\ NadieSeReabre
  <1>1. /\ PasadaInv /\ EnFeed < MaxAvisos /\ publicado' = Append(publicado, 1)
        /\ UNCHANGED <<lectura, rotos, asc>> /\ dlq' = dlq /\ pasada' = pasada
        /\ caida' = caida /\ ciclo' = ciclo /\ panel' = panel /\ ordenes' = ordenes
    BY DEF CicloInv, PublicarUno, lectura
  <1>2. 1 \in 1 .. MaxDias
    BY PasadaAssumption
  <1>3. PasadaInv' /\ (Leyendo' <=> Leyendo)
    BY <1>1, <1>2, PublicarPaso DEF Leyendo
  <1>4. NadieSeReabre /\ Filas' = Filas
    BY <1>1, NadaEnLaTabla
  <1>5. CicloTypeOK' /\ EnCurso'
    BY <1>1, <1>3, <1>4 DEF CicloInv, CicloTypeOK, EnCurso
  <1> QED
    BY <1>3, <1>4, <1>5 DEF CicloInv

(* Between two processes no batch depends on what the parser understands,   *)
(* and repairing it never makes a row unreadable.                           *)
LEMMA ArreglarParserInv ==
    ASSUME CicloInv, ArreglarParser
    PROVE  CicloInv' /\ NadieSeReabre
  <1>1. /\ PasadaInv /\ rotos' = {} /\ ~Leyendo
        /\ cursor' = cursor /\ guardado' = guardado /\ alcanzado' = alcanzado
        /\ noAnotados' = noAnotados /\ huecos' = huecos /\ averias' = averias
        /\ pasada' = pasada /\ dlq' = dlq
        /\ publicado' = publicado /\ asc' = asc
        /\ caida' = caida /\ ciclo' = ciclo /\ panel' = panel /\ ordenes' = ordenes
    BY DEF CicloInv, EnCurso, ArreglarParser, lectura
  <1>2. ~Leyendo' /\ EnFeed' = EnFeed
    BY <1>1 DEF Leyendo, EnFeed
  <1>3. PasadaTypeOK'
    BY <1>1 DEF PasadaInv, PasadaTypeOK, DlqTypeOK
  <1>4. Lugar' /\ LoteBien' /\ Cuenta' /\ Guardados'
    BY <1>1, <1>2 DEF PasadaInv, Lugar, LoteBien, Cuenta, Guardados
  <1>5. NadaSeSalta'
    BY <1>1 DEF PasadaInv, NadaSeSalta, Ingerido, Rastro, Anotado, NoAnotado, Filas
  <1>6. NadieSeReabre /\ Filas' = Filas
    BY <1>1, NadaEnLaTabla
  <1>7. CicloTypeOK' /\ EnCurso'
    BY <1>1, <1>2, <1>6 DEF CicloInv, CicloTypeOK, EnCurso
  <1> QED
    BY <1>3, <1>4, <1>5, <1>6, <1>7 DEF PasadaInv, CicloInv

(* The steps on a row beside the process. *)
LEMMA EnUnaFilaInv ==
    ASSUME CicloInv, VenceEspera \/ AplicarReencolado \/ PedirDescarte
    PROVE  CicloInv' /\ NadieSeReabre
  <1>1. /\ PasadaInv /\ UNCHANGED <<escrito, pasada, entorno>> /\ noAnotados' = noAnotados
        /\ pasada' = pasada /\ ciclo' = ciclo /\ caida' = caida
        /\ panel' \in {0, panel} /\ ordenes' \in 0 .. MaxOrdenes
    BY ReintentosAssumption
    DEF CicloInv, CicloTypeOK, VenceEspera, AplicarReencolado, PedirDescarte, fuera, escrito, tablasIngesta
  <1>2. DlqSigue /\ NadieSeReabre
    BY <1>1, OperacionEs DEF VenceEspera, AplicarReencolado, PedirDescarte, CicloInv, EnCurso
  <1>3. PasadaInv' /\ (Leyendo' <=> Leyendo)
    BY <1>1, <1>2, NadaCambia DEF Leyendo
  <1>4. CicloTypeOK'
    BY <1>1, Constantes DEF CicloInv, CicloTypeOK
  <1>5. EnCurso'
    BY <1>1, <1>2, <1>3, SigueEnCurso DEF CicloInv, EnCurso
  <1> QED
    BY <1>2, <1>3, <1>4, <1>5 DEF CicloInv

LEMMA AlrededorInv ==
    ASSUME CicloInv, CaerFuente \/ PedirReencolado \/ UNCHANGED reintentosVars
    PROVE  CicloInv' /\ NadieSeReabre
  <1>1. /\ PasadaInv /\ UNCHANGED <<escrito, pasada, entorno>> /\ noAnotados' = noAnotados
        /\ dlq' = dlq /\ pasada' = pasada /\ ciclo' = ciclo
    BY DEF CicloInv, CaerFuente, PedirReencolado, reintentosVars, lectura, escrito, tablasIngesta
  <1>2. caida' \in BOOLEAN
    BY DEF CicloInv, CicloTypeOK, CaerFuente, PedirReencolado, reintentosVars
  <1>3. panel' \in {panel} \union Filas /\ ordenes' \in 0 .. MaxOrdenes
    BY ReintentosAssumption
    DEF CicloInv, CicloTypeOK, CaerFuente, PedirReencolado, reintentosVars
  <1>4. PasadaInv' /\ (Leyendo' <=> Leyendo)
    BY <1>1, DlqQuieta, NadaCambia DEF Leyendo
  <1>5. NadieSeReabre /\ Filas' = Filas /\ Filas \subseteq 1 .. MaxFilas
    BY <1>1, NadaEnLaTabla, FilasSon DEF PasadaInv, PasadaTypeOK
  <1>6. CicloTypeOK'
    BY <1>1, <1>2, <1>3, <1>5 DEF CicloInv, CicloTypeOK
  <1>7. EnCurso'
    BY <1>1, <1>3, <1>4, <1>5 DEF CicloInv, EnCurso
  <1> QED
    BY <1>4, <1>5, <1>6, <1>7 DEF CicloInv

LEMMA CicloPaso == CicloInv /\ [ReintentosNext]_reintentosVars => CicloInv' /\ NadieSeReabre
  <1> SUFFICES ASSUME CicloInv, [ReintentosNext]_reintentosVars PROVE CicloInv' /\ NadieSeReabre
    OBVIOUS
  <1>1. CASE EmpezarCiclo \/ Reintentar
    BY <1>1, EmpezarCicloInv
  <1>2. CASE IngerirEnCiclo
    BY <1>2, IngerirEnCicloInv
  <1>3. CASE TrasIngesta
    BY <1>3, TrasIngestaInv
  <1>4. CASE Barrer \/ Listar
    BY <1>4, ElegirInv
  <1>5. CASE Agotar
    BY <1>5, AgotarInv
  <1>6. CASE TrasReintento
    BY <1>6, TrasReintentoInv
  <1>7. CASE MorirCiclo
    BY <1>7, MorirCicloInv
  <1>8. CASE PublicarUno
    BY <1>8, PublicarUnoInv
  <1>9. CASE ArreglarParser
    BY <1>9, ArreglarParserInv
  <1>10. CASE VenceEspera \/ AplicarReencolado \/ PedirDescarte
    BY <1>10, EnUnaFilaInv
  <1>11. CASE CaerFuente \/ PedirReencolado \/ UNCHANGED reintentosVars
    BY <1>11, AlrededorInv
  <1> QED
    BY <1>1, <1>2, <1>3, <1>4, <1>5, <1>6, <1>7, <1>8, <1>9, <1>10, <1>11
    DEF ReintentosNext, ProcesoReintentos

-----------------------------------------------------------------------------
LEMMA CicloSiempre == ReintentosSpec => []CicloInv
  <1>1. CicloInv /\ [ReintentosNext]_reintentosVars => CicloInv'
    BY CicloPaso
  <1> QED
    BY <1>1, CicloInicio, PTL DEF ReintentosSpec

(* The table, the run and the retry queue keep their types; what the sweep, *)
(* the queue and the administrator hold across their steps are rows of the  *)
(* table, for any number of entries and operations.                         *)
THEOREM TipadoReintentos == ReintentosSpec => []ReintentosTypeOK
  <1>1. CicloInv => ReintentosTypeOK
    BY DEF CicloInv, PasadaInv, CicloTypeOK, ReintentosTypeOK
  <1> QED
    BY <1>1, CicloSiempre, PTL

(* An entry that was resolved or discarded is never open again, whatever    *)
(* step of the retry, of the ingestion or of the administrator comes        *)
(* between the SELECT and the UPDATE of another (dlq.py:205-256).           *)
THEOREM ResueltaSiempre == ReintentosSpec => ResueltaEsFinal
  <1>1. CicloInv /\ [ReintentosNext]_reintentosVars =>
          [\A d \in Filas : dlq[d].resuelta # "no" => dlq'[d].resuelta # "no"]_reintentosVars
    BY CicloPaso DEF NadieSeReabre
  <1> QED
    BY <1>1, CicloSiempre, PTL DEF ReintentosSpec, ResueltaEsFinal

(* The retry reads the feed from the cursor of the ingestion and adds no    *)
(* way of passing over a notice without a trace, whoever repairs the parser *)
(* or closes entries meanwhile (base.py:718-731, dlq_retry.py:98-246).      *)
THEOREM NadaSeSaltaAlReintentar == ReintentosSpec => []NadaSeSalta
  <1>1. CicloInv => NadaSeSalta
    BY DEF CicloInv, PasadaInv
  <1> QED
    BY <1>1, CicloSiempre, PTL
=============================================================================
