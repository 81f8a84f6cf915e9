-------------------------------- MODULE Pasada --------------------------------
(***************************************************************************)
(* One run of a source connector: run_connector() and _LoteDeIngesta of    *)
(* scraper/connectors/base.py, over the two kinds of feed the connectors   *)
(* read.  PLACSP's goes from the newest notice to the oldest, in pages, as *)
(* far as the cursor or the page limit (scraper/atom_live.py); PSCP's goes *)
(* from the oldest to the newest and moves its cursor with every batch.    *)
(* A monthly ZIP is read like the first, without a cursor; its failures    *)
(* are keyed by the file, which here has one notice.                       *)
(*                                                                         *)
(* A notice is its position in the order of <updated>, a tender is the     *)
(* version (the notice) its row was last written from.  The marks of two   *)
(* notices are different: a feed that repeats one is out of the model.     *)
(***************************************************************************)
EXTENDS Dlq

CONSTANTS
    MaxAvisos,      \* bound: notices published
    Expedientes,    \* tenders
    ExpedienteDe,   \* the tender each notice is about
    MaxDias,        \* bound: days
    MaxMes,         \* months those days span
    Tope,           \* DAILY_MAX_PAGES, in notices
    TamLote,        \* batch_size
    Ilegibles,      \* bound: the notices that may not parse, one at most
    MaxAverias      \* bound: failures, deaths of the process and missing links

Avisos == 1 .. MaxAvisos
SinEtag == -1
Cursor  == [marca : 0 .. MaxAvisos, etag : SinEtag .. MaxAvisos]

(* A source is the feed or the ZIP of a month; an entry of the DLQ is its  *)
(* fetch, or the notice that did not parse.                                *)
Feed == 0
Fetch == 0
Fuentes == 0 .. MaxMes
Descargas == { k \in Entradas : k.que = Fetch }
EntradasDe(f) == { k \in Entradas : k.fuente = f }

ASSUME PasadaAssumption ==
    /\ MaxAvisos \in Nat \ {0} /\ MaxDias \in Nat \ {0} /\ MaxMes \in Nat \ {0}
    /\ Ilegibles \subseteq Avisos
    /\ Tope \in Nat \ {0} /\ TamLote \in Nat \ {0} /\ MaxAverias \in Nat
    /\ ExpedienteDe \in [Avisos -> Expedientes]
    /\ Entradas = [fuente : Fuentes, que : {Fetch} \union Avisos]

VARIABLES
    publicado,  \* the feed: the day each notice was published
    rotos,      \* notices the parser does not understand
    asc,        \* cursor_advances_incrementally
    cursor,     \* ingestion_cursors, the row of the feed
    guardado,   \* per tender: the version in licitaciones, 0 if it is not there
    alcanzado,  \* per tender: the newest version ever written (observed)
    noAnotados, \* failures record_failure could not write down (observed)
    huecos,     \* notices behind a page without a next link (observed)
    averias,    \* failures, deaths and missing links so far
    pasada      \* the run in progress

lectura == <<cursor, guardado, alcanzado, noAnotados, huecos, averias, pasada, dlq>>
entorno == <<publicado, rotos, asc>>

Pasada ==
    [ fase    : {"parada", "leyendo", "cerrada"},
      fuente  : Fuentes,
      cima    : 0 .. MaxAvisos,         \* the newest notice of what was fetched
      sig     : 0 .. MaxAvisos + 1,     \* the next notice to process
      fin     : 0 .. MaxAvisos,         \* newest first: the last one is fin + 1
      nuevo   : Cursor,                 \* what new_cursor() returns
      hueco   : SUBSET Avisos,          \* behind the page without a next link
      lote    : SUBSET Avisos,          \* the batch
      errores : BOOLEAN,                \* result.errores > 0
      fallida : BOOLEAN ]               \* result.fetch_failed

PasadaTypeOK ==
    /\ DlqTypeOK
    /\ publicado \in Seq(1 .. MaxDias) /\ Len(publicado) <= MaxAvisos
    /\ rotos \subseteq Avisos
    /\ asc \in BOOLEAN
    /\ cursor \in Cursor
    /\ guardado \in [Expedientes -> 0 .. MaxAvisos]
    /\ alcanzado \in [Expedientes -> 0 .. MaxAvisos]
    /\ noAnotados \subseteq Entradas /\ huecos \subseteq Avisos
    /\ averias \in 0 .. MaxAverias
    /\ pasada \in Pasada

Parada ==
    [ fase |-> "parada", fuente |-> Feed, cima |-> 0, sig |-> 0, fin |-> 0,
      nuevo |-> [marca |-> 0, etag |-> SinEtag], hueco |-> {}, lote |-> {},
      errores |-> FALSE, fallida |-> FALSE ]

(* The first run has taken place: mark 0 is the newest notice it saw.      *)
PasadaInit ==
    /\ dlq = <<>>
    /\ publicado = <<>>
    /\ rotos \in { R \in SUBSET Ilegibles : Cardinality(R) <= 1 }
    /\ asc \in BOOLEAN
    /\ cursor = [marca |-> 0, etag |-> SinEtag]
    /\ guardado = [e \in Expedientes |-> 0]
    /\ alcanzado = [e \in Expedientes |-> 0]
    /\ noAnotados = {} /\ huecos = {}
    /\ averias = 0
    /\ pasada = Parada

-----------------------------------------------------------------------------
EnFeed == Len(publicado)
Incremental == asc /\ pasada.fuente = Feed

(* iter_live_entries(): 304 if the feed is still the one the etag names;   *)
(* otherwise down to the cursor, or to the page limit.                     *)
SinCambios  == cursor.etag = EnFeed
TopeAgotado == ~SinCambios /\ EnFeed - cursor.marca >= Tope
Fondo       == IF TopeAgotado THEN EnFeed - Tope ELSE cursor.marca

(* The newest mark, whatever the pass left unread. *)
AlMasNuevo == [marca |-> EnFeed, etag |-> EnFeed]

(* cursor_siguiente() *)
CursorSiguiente == IF TopeAgotado THEN [cursor EXCEPT !.etag = SinEtag] ELSE AlMasNuevo

HaciaAtras(fondo, nuevo, hueco) ==
    [Parada EXCEPT !.fase = "leyendo", !.cima = EnFeed, !.sig = EnFeed, !.fin = fondo,
                   !.nuevo = nuevo, !.hueco = hueco]

(* run_connector() reads the cursor and asks the connector for its notices. *)
(* A page whose link to the next is missing or rejected ends the feed where *)
(* it is, at the page limit or before it, and the cursor goes to the newest *)
(* mark.  A page has at least a notice.                                    *)
EmpezarFeed ==
    \/ /\ asc
       /\ pasada' = [Parada EXCEPT !.fase = "leyendo", !.sig = cursor.marca + 1,
                                   !.nuevo = cursor]
       /\ UNCHANGED averias
    \/ /\ ~asc
       /\ pasada' = HaciaAtras(Fondo, CursorSiguiente, {})
       /\ UNCHANGED averias
    \/ /\ ~asc /\ ~SinCambios /\ averias < MaxAverias
       /\ averias' = averias + 1
       /\ \E fondo \in Fondo .. EnFeed - 1 :
            pasada' = HaciaAtras(fondo, AlMasNuevo, cursor.marca + 1 .. fondo)

(* The ZIP of month m has the notices of S, an interval.  An empty one is  *)
(* a month not published yet.                                              *)
EmpezarZip(m, S) ==
    LET cima == IF S = {} THEN 0 ELSE CHOOSE n \in S : \A k \in S : k <= n
    IN  pasada' = [Parada EXCEPT !.fase = "leyendo", !.fuente = m, !.cima = cima, !.sig = cima,
                                 !.fin = cima - Cardinality(S)]

Quedan == IF Incremental THEN pasada.sig <= EnFeed ELSE pasada.sig > pasada.fin
LoteLleno == Cardinality(pasada.lote) >= TamLote

(* Mutant: what was already flushed is forgotten whatever the feed's order. *)
RecordadosSoloLote == pasada.lote

(* mejor_recencia: every version of this run, or those of the batch when   *)
(* the feed is in ascending order.                                         *)
Recordados ==
    IF Incremental THEN pasada.lote
    ELSE { m \in Avisos : pasada.sig < m /\ m <= pasada.cima } \ rotos

MismoExpediente(n, S) == { m \in S : ExpedienteDe[m] = ExpedienteDe[n] }

EsReaparicion(n) == \E m \in MismoExpediente(n, Recordados) : m >= n

(* anadir(): the batch is keyed by tender. *)
ConAviso(n) ==
    IF EsReaparicion(n) THEN pasada.lote
    ELSE (pasada.lote \ MismoExpediente(n, pasada.lote)) \union {n}

(* record_failure() swallows whatever stops it: the log has the database's *)
(* error and the source, and nothing of the notice.                        *)
AnotarFallo(k) ==
    \/ Anotable(k) /\ Anotar(k) /\ UNCHANGED noAnotados
    \/ noAnotados' = noAnotados \union ({k} \ Descargas) /\ UNCHANGED dlq

Clave(que) == [fuente |-> pasada.fuente, que |-> que]

(* The next notice: into the batch, or into the DLQ if it does not parse.  *)
Leer ==
    /\ pasada.fase = "leyendo" /\ Quedan /\ ~LoteLleno
    /\ LET n == pasada.sig
           leida == [pasada EXCEPT
                       !.sig = IF Incremental THEN n + 1 ELSE n - 1,
                       !.nuevo = IF Incremental THEN [@ EXCEPT !.marca = n] ELSE @]
       IN \/ /\ n \in rotos
             /\ AnotarFallo(Clave(n))
             /\ pasada' = [leida EXCEPT !.errores = TRUE]
          \/ /\ n \notin rotos
             /\ pasada' = [leida EXCEPT !.lote = ConAviso(n)]
             /\ UNCHANGED <<dlq, noAnotados>>
    /\ UNCHANGED <<cursor, guardado, alcanzado, huecos, averias>>

(* upsert_licitaciones_with_history(): a version replaces whatever was     *)
(* there, newer or not.  A batch is several transactions.                  *)
Escribir(S) ==
    /\ guardado' = [e \in Expedientes |->
          IF \E n \in S : ExpedienteDe[n] = e
          THEN CHOOSE n \in S : ExpedienteDe[n] = e ELSE guardado[e]]
    /\ alcanzado' = [e \in Expedientes |->
          IF guardado'[e] > alcanzado[e] THEN guardado'[e] ELSE alcanzado[e]]

(* What a run cut short may have written of its batch: only flush() writes. *)
Escribible == IF LoteLleno \/ ~Quedan THEN SUBSET pasada.lote ELSE {{}}

AvanceTrasLote == IF Incremental THEN pasada.nuevo ELSE cursor

(* flush() *)
Volcar ==
    /\ pasada.fase = "leyendo"
    /\ pasada.lote # {} /\ (LoteLleno \/ ~Quedan)
    /\ Escribir(pasada.lote)
    /\ cursor' = AvanceTrasLote
    /\ pasada' = [pasada EXCEPT !.lote = {}]
    /\ UNCHANGED <<dlq, noAnotados, huecos, averias>>

(* ConnectorRunResult: what the caller looks at. *)
Cerrada(errores, fallida) ==
    [Parada EXCEPT !.fase = "cerrada", !.fuente = pasada.fuente, !.errores = errores,
                   !.fallida = fallida]

(* The end of the run: the cursor advances. *)
Completar ==
    /\ pasada.fase = "leyendo"
    /\ ~Quedan /\ pasada.lote = {}
    /\ cursor' = IF pasada.fuente = Feed THEN pasada.nuevo ELSE cursor
    /\ huecos' = huecos \union pasada.hueco
    /\ pasada' = Cerrada(pasada.errores, FALSE)
    /\ UNCHANGED <<dlq, noAnotados, guardado, alcanzado, averias>>

Avanzar == Leer \/ Volcar \/ Completar

(* fetch() raises, or flush() for good with part of the batch written: an  *)
(* entry of the DLQ, and the cursor where the last batch left it.          *)
Abortar ==
    /\ pasada.fase = "leyendo"
    /\ \E S \in Escribible : Escribir(S)
    /\ AnotarFallo(Clave(Fetch))
    /\ pasada' = Cerrada(TRUE, TRUE)
    /\ UNCHANGED <<cursor, huecos>>

Fallar == Abortar /\ averias < MaxAverias /\ averias' = averias + 1

(* The process dies; in flush(), with part of the batch written. *)
Morir ==
    /\ averias < MaxAverias
    /\ \E S \in Escribible : Escribir(S)
    /\ averias' = averias + 1
    /\ pasada' = Parada
    /\ UNCHANGED <<cursor, dlq, noAnotados, huecos>>

-----------------------------------------------------------------------------
(* The failure to process a notice is on record. *)
Anotado(n, fuentes) ==
    \E d \in Filas : dlq[d].clave.que = n /\ dlq[d].clave.fuente \in fuentes

(* It could not be put on record: the table of failures was not there.     *)
NoAnotado(n, fuentes) == \E f \in fuentes : [fuente |-> f, que |-> n] \in noAnotados

(* It, or a newer version of its tender, was written. *)
Ingerido(n) == alcanzado[ExpedienteDe[n]] >= n

(* What the cursor leaves behind is never asked for again, so it must have *)
(* been written or put on record: whichever way the feed goes, wherever    *)
(* the run is cut (base.py:718-731, 792-800; atom_live.py:268-291).  There *)
(* are two ways to lose a notice without a trace, and no other: its       *)
(* failure could not be written down, or a page had no link to it.        *)
NadaSeSalta ==
    \A n \in Avisos : n <= cursor.marca =>
       Ingerido(n) \/ Anotado(n, {Feed}) \/ NoAnotado(n, {Feed}) \/ n \in huecos
=============================================================================
