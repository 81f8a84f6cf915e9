----------------------------- MODULE JobEncolado -----------------------------
(***************************************************************************)
(* enqueue() of services/jobs.py, called by several API threads at once.   *)
(* Deduplication, quota and insertion are three transactions, so whatever  *)
(* a thread read may be stale by the time it writes.  The consumers are    *)
(* reduced to what they do to the table: claim a row and, much later, close *)
(* it by its id, with the attempts they saw when they claimed it, whatever *)
(* has become of the row.  Time is left out: any due row may be the oldest *)
(* one, and any lock may have expired.                                     *)
(***************************************************************************)
EXTENDS JobsTabla, FiniteSets

CONSTANTS
    Solicitantes,   \* concurrent callers of enqueue
    Orgs,           \* organizations
    SinOrg,         \* organization_id IS NULL: the system's own work
    Claves,         \* values of the payload field that identifies the work
    SinClave,       \* the type declares no clave_dedupe, or deduplicar=False
    TiposConCuota,  \* TIPOS_CON_CUOTA
    MaxActivos,     \* MAX_JOBS_ACTIVOS_POR_ORG
    Pedibles,       \* bound: what the callers ask for
    MaxTomas        \* bound: claims, over all rows

Carga    == [org : Orgs \union {SinOrg}, clave : Claves \union {SinClave}]
Peticion == [tipo : Tipos, carga : Carga]

ASSUME EncoladoAssumption ==
    /\ TiposConCuota \subseteq Tipos /\ Pedibles \subseteq Peticion
    /\ MaxActivos \in Nat \ {0} /\ MaxTomas \in Nat
    /\ IsFiniteSet(Solicitantes)
    /\ IsFiniteSet(Consumidores) /\ Consumidores # {}
    /\ SinOrg \notin Orgs /\ SinClave \notin Claves

VARIABLES
    carga,      \* per row: the organization and the key of its payload
    llamada,    \* per caller: the call in progress, or the id the last one returned
    toma        \* per consumer: the row it claimed, as it was when it claimed it

encoladoVars == <<jobs, carga, llamada, toma>>

Llamada ==
    [ fase : {"libre", "cuota", "insertar"},
      pide : Peticion,
      id   : Ids \union {0} ]       \* 0: nothing returned, or the quota was exceeded

Toma == [fila : Ids \union {0}, intentos : Nat]     \* 0: it executes nothing

EncoladoTypeOK ==
    /\ TablaTypeOK
    /\ carga \in [Ids -> Carga]
    /\ llamada \in [Solicitantes -> Llamada]
    /\ toma \in [Consumidores -> Toma]

NoToma == [fila |-> 0, intentos |-> 0]

NoPide == [tipo |-> CHOOSE t \in Tipos : TRUE,
           carga |-> [org |-> SinOrg, clave |-> SinClave]]

EncoladoInit ==
    /\ TablaInit
    /\ carga = [j \in Ids |-> NoPide.carga]
    /\ llamada = [s \in Solicitantes |-> [fase |-> "libre", pide |-> NoPide, id |-> 0]]
    /\ toma = [w \in Consumidores |-> NoToma]

(* Mutant: the organization is not part of the key. *)
EquivalentesSinOrg(p) ==
    { j \in Ids : /\ jobs[j].estado \in Activos
                  /\ jobs[j].tipo = p.tipo
                  /\ carga[j].clave = p.carga.clave }

(* buscar_activo() with filtrar_organizacion, IS NOT DISTINCT FROM: the    *)
(* system's work, which has no organization, matches the system's.         *)
Equivalentes(p) ==
    { j \in Ids : /\ jobs[j].estado \in Activos
                  /\ jobs[j].tipo = p.tipo
                  /\ carga[j].clave = p.carga.clave
                  /\ carga[j].org = p.carga.org }

(* contar_activos() *)
ActivosDe(tipo, org) ==
    { j \in Ids : /\ jobs[j].estado \in Activos
                  /\ jobs[j].tipo = tipo
                  /\ carga[j].org = org }

(* Mutant: work that a consumer has already taken does not count. *)
RepetidaEnEspera(p) ==
    p.carga.clave # SinClave /\ \E j \in Equivalentes(p) : jobs[j].estado = "pending"

Repetida(p) == p.carga.clave # SinClave /\ Equivalentes(p) # {}

(* Mutant: off by one. *)
ExcedeDespues(p) == Cardinality(ActivosDe(p.tipo, p.carga.org)) > MaxActivos

Excede(p) == Cardinality(ActivosDe(p.tipo, p.carga.org)) >= MaxActivos

ConCuota(p) == p.carga.org # SinOrg /\ p.tipo \in TiposConCuota

Primero(S) == CHOOSE j \in S : \A k \in S : j <= k

-----------------------------------------------------------------------------
Libres == { s \in Solicitantes : llamada[s].fase = "libre" }
SinUsar == { j \in Ids : jobs[j].estado = "ausente" }

(* Bound: no call begins unless an id is left for it and for those begun.  *)
QuedanIds == Cardinality(SinUsar) > Cardinality(Solicitantes \ Libres)

(* First transaction: an equivalent active job is returned as it is.       *)
Buscar(s) ==
    /\ llamada[s].fase = "libre" /\ QuedanIds
    /\ \E p \in Pedibles :
         llamada' = [llamada EXCEPT ![s] =
               [ fase |-> IF Repetida(p) THEN "libre"
                          ELSE IF ConCuota(p) THEN "cuota" ELSE "insertar",
                 pide |-> p,
                 id   |-> IF Repetida(p) THEN Primero(Equivalentes(p)) ELSE 0 ]]
    /\ UNCHANGED <<jobs, carga, toma>>

(* Second transaction: CuotaDeJobsExcedida, or go on.                      *)
Contar(s) ==
    /\ llamada[s].fase = "cuota"
    /\ llamada' = [llamada EXCEPT ![s].fase =
                     IF Excede(llamada[s].pide) THEN "libre" ELSE "insertar"]
    /\ UNCHANGED <<jobs, carga, toma>>

(* Third transaction. *)
Crear(s) ==
    /\ llamada[s].fase = "insertar"
    /\ \E j \in Ids :
         /\ Insertar(j, llamada[s].pide.tipo)
         /\ carga' = [carga EXCEPT ![j] = llamada[s].pide.carga]
         /\ llamada' = [llamada EXCEPT ![s].fase = "libre", ![s].id = j]
    /\ UNCHANGED toma

(* Bound: no row is claimed unless a claim is left. *)
Tomas == Cardinality({ c \in Ids \X (1 .. MaxTomas) : c[2] <= jobs[c[1]].intentos })
QuedanTomas == Tomas < MaxTomas

(* claim(): a due row becomes running and its attempt is counted.          *)
Coger(w) ==
    /\ toma[w].fila = 0 /\ QuedanTomas
    /\ \E j \in Reclamables(Tipos) :
         /\ jobs' = [jobs EXCEPT ![j] = Tomada(@, w)]
         /\ toma' = [toma EXCEPT ![w] = [fila |-> j, intentos |-> jobs[j].intentos + 1]]
    /\ UNCHANGED <<carga, llamada>>

(* ack(), or fail() with the attempts of the claim and, in the post-ingest *)
(* closing, terminal=True.  The statement looks at the id alone: the row   *)
(* may be another consumer's by now, or closed.                            *)
Cierre(w) ==
    /\ toma[w].fila # 0
    /\ \/ MarcarTerminado(toma[w].fila)
       \/ \E terminal \in BOOLEAN :
            IF terminal \/ toma[w].intentos >= MaxIntentos
              THEN MarcarFallido(toma[w].fila)
              ELSE Reprogramar(toma[w].fila, 0)
    /\ toma' = [toma EXCEPT ![w] = NoToma]
    /\ UNCHANGED <<carga, llamada>>

(* The process dies, or its closing statement raises: the row stays as it is. *)
SinCerrar(w) ==
    /\ toma[w].fila # 0
    /\ toma' = [toma EXCEPT ![w] = NoToma]
    /\ UNCHANGED <<jobs, carga, llamada>>

(* reclamar_caducados(): a lock may have expired with its consumer dead, or *)
(* alive and without the database.                                         *)
Caducan ==
    /\ \E C \in SUBSET { j \in Ids : jobs[j].estado = "running" } :
         /\ C # {}
         /\ jobs' = [j \in Ids |-> IF j \in C THEN Barrida(jobs[j]) ELSE jobs[j]]
    /\ UNCHANGED <<carga, llamada, toma>>

(* The bounds are reached: every id was handed out, and closed or nobody   *)
(* may claim it.                                                           *)
Agotado ==
    /\ Libres = Solicitantes
    /\ \A j \in Ids : \/ jobs[j].estado \in Terminales
                     \/ (jobs[j].estado = "pending" /\ ~QuedanTomas)
    /\ \A w \in Consumidores : toma[w].fila = 0
    /\ UNCHANGED encoladoVars

EncoladoNext ==
    \/ \E s \in Solicitantes : Buscar(s) \/ Contar(s) \/ Crear(s)
    \/ \E w \in Consumidores : Coger(w) \/ Cierre(w) \/ SinCerrar(w)
    \/ Caducan
    \/ Agotado

EncoladoSpec == EncoladoInit /\ [][EncoladoNext]_encoladoVars

-----------------------------------------------------------------------------
Llamando(fases, p) == { s \in Solicitantes : llamada[s].fase \in fases /\ llamada[s].pide = p }

(* Two calls at once may both find nothing (services/jobs.py:306-311), and *)
(* a consumer that comes back late may reopen with its fail a job that     *)
(* another finished, once its key was free to be enqueued again.  Nothing  *)
(* else adds to the active jobs of a key: with the calls about to add one, *)
(* they never exceed the callers plus the consumers but one.               *)
DuplicadosAcotados ==
    \A p \in Peticion : p.carga.clave # SinClave =>
       Cardinality(Equivalentes(p)) + Cardinality(Llamando({"cuota", "insertar"}, p))
         <= Cardinality(Solicitantes) + Cardinality(Consumidores) - 1

(* The quota is read in one transaction and spent in another, and a late   *)
(* fail gives back a place that was spent again: it may be overrun, by at  *)
(* most one job per caller but one and one per consumer but one.  A retry  *)
(* or a sweep of a job already counted does not overrun it further.        *)
CuotaConCarrera ==
    \A t \in TiposConCuota, o \in Orgs :
       Cardinality(ActivosDe(t, o))
         + Cardinality({ s \in Solicitantes : /\ llamada[s].fase = "insertar"
                                              /\ llamada[s].pide.tipo = t
                                              /\ llamada[s].pide.carga.org = o })
         <= MaxActivos + (Cardinality(Solicitantes) - 1) + (Cardinality(Consumidores) - 1)

(* The id a caller gets is a job of its own organization, type and key,    *)
(* deduplicated or not: GET /jobs/{id} will not answer 404 to it.          *)
DevuelveLoSuyo ==
    \A s \in Solicitantes :
       LET id == llamada[s].id IN
       id # 0 => /\ jobs[id].estado # "ausente"
                 /\ jobs[id].tipo = llamada[s].pide.tipo
                 /\ carga[id] = llamada[s].pide.carga
=============================================================================
