------------------------------ MODULE Pursuits ------------------------------
(***************************************************************************)
(* One opportunity and those who work on it at once: PATCH requests that   *)
(* read the row, validate against what they read and write it with its     *)
(* version (services/pursuits.py, db/repositories/pursuits.py), their      *)
(* retries with the same idempotency key, the task template that is        *)
(* instantiated once, and the contract of the portfolio, written by the    *)
(* request that wins the opportunity, by the daily synchronization and by  *)
(* hand (services/cartera.py).  A handler may die between two statements.  *)
(***************************************************************************)
EXTENDS Oportunidad, Sequences, FiniteSets

CONSTANTS
    Manejadores,    \* requests served at once
    Sincronizador,  \* the daily job
    Ediciones,      \* what the clients want done
    ConClave,       \* the editions that carry an idempotency key: a retry repeats one
    Parches,        \* the patches they may consist of
    Iniciales,      \* the row as it is found
    Adelanto,       \* how far ahead of the row the version a client sends may be
    MaxEnvios,      \* bound: requests
    MaxFuente       \* bound: end dates the tender's source publishes

ASSUME PursuitsAssumption ==
    /\ Sincronizador \notin Manejadores
    /\ ConClave \subseteq Ediciones
    /\ Adelanto \in Nat /\ MaxEnvios \in Nat /\ MaxFuente \in Nat \ {0}
    /\ \A f \in Iniciales : f \in Fila /\ FilaCoherente(f) /\ f.version = 1
    /\ \A p \in Parches : DOMAIN p \subseteq Editables

VARIABLES
    fila,       \* pursuits
    ledger,     \* pursuit_events: the edition of each pursuit.updated
    parche,     \* what each edition with a key asks for
    envios,     \* requests sent
    peticion,   \* per handler: the request it serves
    plantilla,  \* the reservation in the ledger, and the lists created
    fuente,     \* the end date of the contract, as published
    cartera,    \* contratos_cartera
    contrato    \* what each writer of the portfolio has read

vars == <<fila, ledger, parche, envios, peticion, plantilla, fuente, cartera, contrato>>

solicitud == <<fila, ledger, parche, envios>>

Escritores == Manejadores \union {Sincronizador}
Manual == 0      \* the end of a contract that a person has dated
NoHay == [hay |-> FALSE, importe |-> SinImporte, fin |-> 1]
Libre == [fase |-> "libre"]
NoPedido == [x \in {} |-> 0]

Cartera == [hay : BOOLEAN, importe : Importes \union {SinImporte},
            fin : {Manual} \union (1 .. MaxFuente)]

PeticionOK(p) ==
    \/ p = Libre
    \/ /\ p.fase \in {"leida", "plantilla", "tareas", "cartera"}
       /\ p.edicion \in Ediciones
       /\ p.version \in 1 .. MaxVersion + Adelanto
       /\ p.gana \in BOOLEAN
       /\ DOMAIN p.cambios \subseteq DOMAIN FilaNueva \ {"version"}

TypeOK ==
    /\ fila \in Fila
    /\ ledger \in Seq(Ediciones)
    /\ parche \in [Ediciones -> Parches \union {NoPedido}]
    /\ envios \in 0 .. MaxEnvios
    /\ \A h \in Manejadores : PeticionOK(peticion[h])
    /\ plantilla \in [reservada : BOOLEAN, listas : 0 .. Cardinality(Manejadores)]
    /\ fuente \in 1 .. MaxFuente
    /\ cartera \in Cartera
    /\ contrato \in [Escritores -> Cartera]

Init ==
    /\ fila \in Iniciales
    /\ ledger = <<>>
    /\ parche = [e \in Ediciones |-> NoPedido]
    /\ envios = 0
    /\ peticion = [h \in Manejadores |-> Libre]
    /\ plantilla = [reservada |-> FALSE, listas |-> 0]
    /\ fuente = 1
    /\ cartera = NoHay
    /\ contrato = [a \in Escritores |-> NoHay]

-----------------------------------------------------------------------------
(* update_pursuit(): the row is read, the patch is validated against it,   *)
(* and an invalid one is answered at once (no step).  expected_version is  *)
(* the row's own, or any the client sends: of an earlier reading, as the   *)
(* console does, or up to Adelanto ahead of the row.                       *)
Pedido(e, p) == e \in ConClave => parche[e] \in {NoPedido, p}

Leer(h, e) ==
    /\ peticion[h] = Libre
    /\ envios < MaxEnvios
    /\ \E p \in Parches, v \in 1 .. fila.version + Adelanto :
         LET c == Completos(fila, p)
         IN  /\ Pedido(e, p)
             /\ DOMAIN c = {} \/ Admisible(fila, c)
             /\ parche' = IF e \in ConClave THEN [parche EXCEPT ![e] = p] ELSE parche
             /\ peticion' = [peticion EXCEPT ![h] =
                   [fase |-> "leida", edicion |-> e, version |-> v, gana |-> FALSE,
                    cambios |-> IF DOMAIN c = {} THEN c ELSE ConSellos(fila, c)]]
    /\ envios' = envios + 1
    /\ UNCHANGED <<fila, ledger, plantilla, fuente, cartera, contrato>>

Anotadas == { ledger[k] : k \in 1 .. Len(ledger) }

(* Mutants: no key is looked up; the version is not. *)
NingunaAnotada(e) == FALSE
CualquierVersion(v) == TRUE

YaAnotada(e) == e \in ConClave \intersect Anotadas
VersionVigente(v) == v = fila.version

(* What is left to do with the row that was written, or found: the task    *)
(* template, then the portfolio.                                           *)
TocaCartera(f, c) == f.status = "won" /\ {"status", "importe"} \intersect DOMAIN c # {}

YFin(p) == IF p.gana THEN [p EXCEPT !.fase = "cartera"] ELSE Libre

YSigue(p, f) ==
    LET q == [p EXCEPT !.gana = TocaCartera(f, p.cambios)]
    IN  IF "status" \in DOMAIN p.cambios /\ p.cambios["status"] = "preparing"
        THEN [q EXCEPT !.fase = "plantilla"] ELSE YFin(q)

(* repo.update(), one transaction.  A key that is in the ledger, or no     *)
(* change, is answered with the row as it is; another version, with an     *)
(* error.                                                                  *)
Escribir(h) ==
    LET p == peticion[h]
    IN  /\ p.fase = "leida"
        /\ IF ~YaAnotada(p.edicion) /\ VersionVigente(p.version) /\ DOMAIN p.cambios # {}
           THEN /\ fila' = [Aplicada(fila, p.cambios) EXCEPT !.version = fila.version + 1]
                /\ ledger' = IF p.edicion \in ConClave \intersect Anotadas THEN ledger
                             ELSE Append(ledger, p.edicion)
           ELSE UNCHANGED <<fila, ledger>>
        /\ peticion' = [peticion EXCEPT ![h] =
              IF YaAnotada(p.edicion) \/ VersionVigente(p.version) THEN YSigue(p, fila')
              ELSE Libre]
        /\ UNCHANGED <<parche, envios, plantilla, fuente, cartera, contrato>>

-----------------------------------------------------------------------------
(* instanciar_en_pursuit(): the reservation is a row of the ledger with a  *)
(* key of its own, and the tasks are created by whoever inserted it.       *)
Reservar(h) ==
    /\ peticion[h].fase = "plantilla"
    /\ plantilla' = [plantilla EXCEPT !.reservada = TRUE]
    /\ peticion' = [peticion EXCEPT ![h] = IF plantilla.reservada THEN YFin(@)
                                           ELSE [@ EXCEPT !.fase = "tareas"]]
    /\ UNCHANGED <<solicitud, fuente, cartera, contrato>>

CrearTareas(h) ==
    /\ peticion[h].fase = "tareas"
    /\ plantilla' = [plantilla EXCEPT !.listas = @ + 1]
    /\ peticion' = [peticion EXCEPT ![h] = YFin(@)]
    /\ UNCHANGED <<solicitud, fuente, cartera, contrato>>

(* contrato_de_fuente(), and accion_para(): a contract that is not new,    *)
(* not dated by hand and not as it was derived is written.                 *)
Derivado == [hay |-> TRUE, importe |-> fila.importe, fin |-> fuente]

(* Mutant: a contract that is there stays as it was. *)
SoloNuevos == ~cartera.hay

HayQueEscribir == ~cartera.hay \/ (cartera.fin # Manual /\ cartera # Derivado)

LeerFuente(a) ==
    /\ contrato[a] = NoHay
    /\ fila.status = "won" /\ HayQueEscribir
    /\ contrato' = [contrato EXCEPT ![a] = Derivado]

(* The upsert: of everything, whatever there is by then. *)
Upsert(a) ==
    /\ contrato[a] # NoHay
    /\ cartera' = contrato[a]
    /\ contrato' = [contrato EXCEPT ![a] = NoHay]

(* registrar_ganada(), at the end of the request. *)
Registrar(h) ==
    /\ peticion[h].fase = "cartera"
    /\ LeerFuente(h)
    /\ UNCHANGED <<solicitud, peticion, plantilla, fuente, cartera>>

Registrada(h) ==
    /\ Upsert(h)
    /\ peticion' = [peticion EXCEPT ![h] = Libre]
    /\ UNCHANGED <<solicitud, plantilla, fuente>>

NadaQueRegistrar(h) ==
    /\ peticion[h].fase = "cartera" /\ contrato[h] = NoHay
    /\ ~HayQueEscribir
    /\ peticion' = [peticion EXCEPT ![h] = Libre]
    /\ UNCHANGED <<solicitud, plantilla, fuente, cartera, contrato>>

(* The process dies; what a request had left to do is not done. *)
Morir(h) ==
    /\ peticion[h] # Libre
    /\ peticion' = [peticion EXCEPT ![h] = Libre]
    /\ contrato' = [contrato EXCEPT ![h] = NoHay]
    /\ UNCHANGED <<solicitud, plantilla, fuente, cartera>>

-----------------------------------------------------------------------------
(* sincronizar_cartera(): every won opportunity is read first, and then    *)
(* they are written one by one.                                            *)
LeerTodas ==
    /\ LeerFuente(Sincronizador)
    /\ UNCHANGED <<solicitud, peticion, plantilla, fuente, cartera>>

Sincronizar ==
    /\ Upsert(Sincronizador)
    /\ UNCHANGED <<solicitud, peticion, plantilla, fuente>>

(* fijar_fecha_fin(): a person dates the contract. *)
FijarFecha ==
    /\ cartera.hay
    /\ cartera' = [cartera EXCEPT !.fin = Manual]
    /\ UNCHANGED <<solicitud, peticion, plantilla, fuente, contrato>>

(* An extension of the contract is published. *)
Prorroga ==
    /\ fuente < MaxFuente
    /\ fuente' = fuente + 1
    /\ UNCHANGED <<solicitud, peticion, plantilla, cartera, contrato>>

Manejador(h) ==
    \/ \E e \in Ediciones : Leer(h, e)
    \/ Escribir(h) \/ Reservar(h) \/ CrearTareas(h)
    \/ Registrar(h) \/ Registrada(h) \/ NadaQueRegistrar(h)
    \/ Morir(h)

Next ==
    \/ \E h \in Manejadores : Manejador(h)
    \/ LeerTodas \/ Sincronizar \/ FijarFecha \/ Prorroga

Spec == Init /\ [][Next]_vars

(* The daily job runs, every day. *)
FairSpec == Spec /\ WF_vars(LeerTodas) /\ WF_vars(Sincronizar)

-----------------------------------------------------------------------------
(* No interleaving of requests takes the opportunity where one patch alone *)
(* could not: an offer without its GO, a decision without its reason, a    *)
(* close without its result (pursuits.py:973, db/repositories/pursuits.py: *)
(* 658).  Of clients that send back a version they were given (Adelanto =  *)
(* 0): one that guesses the next is not stopped by the version check, and  *)
(* its patch, validated against one row, is written over another.          *)
Coherente == FilaCoherente(fila)

(* The funnel only goes forward, a closed opportunity stays closed, and    *)
(* the dates of its submission and of its close are never written again    *)
(* (pursuits.py:126, 1020).                                                *)
EmbudoSoloAvanza == [][SoloAvanza(fila, fila')]_fila

(* Every version has its event, an edition with a key takes effect once    *)
(* however often it is sent, and the template is instantiated once         *)
(* (db/repositories/pursuits.py:656, 690, 1323).                           *)
UnaSolaVez ==
    /\ fila.version = 1 + Len(ledger)
    /\ \A k, l \in 1 .. Len(ledger) :
         (ledger[k] = ledger[l] /\ ledger[k] \in ConClave) => k = l
    /\ plantilla.listas <= 1

(* The portfolio ends up showing the contract of a won opportunity as it   *)
(* is, unless a person has dated it (pursuits.py:574, cartera.py:467).     *)
CarteraAlDia ==
    <>[](fila.status = "won" => cartera.hay /\ (cartera.fin = Manual \/ cartera = Derivado))

(* "Una fecha que alguien corrigió no puede volver sola a la que se        *)
(* derivó" (db/repositories/cartera.py:133).                               *)
LaManualSeQueda == [][cartera.fin = Manual => cartera'.fin = Manual]_cartera
=============================================================================
