------------------------------ MODULE McpOAuth ------------------------------
(***************************************************************************)
(* The OAuth tokens of one user of the internal MCP server                 *)
(* (db/mcp_oauth.py), as PostgreSQL's READ COMMITTED transactions see      *)
(* them: a statement reads what was committed when it began, locks its     *)
(* rows one at a time, and looks again at a row it had to wait for.        *)
(*                                                                         *)
(* Exchanges of a code or a refresh token, revocations of a family and     *)
(* revocations of all a user has run at the same time; what keeps them     *)
(* apart are advisory locks, one per family and one per user.              *)
(***************************************************************************)
EXTENDS Naturals, FiniteSets

CONSTANTS
    MaxTokens,      \* bound: rows of mcp_oauth_tokens
    MaxCodigos,     \* bound: logins
    NProcesos,      \* requests at the same time
    MaxTx,          \* bound: transactions begun
    MaxPasadas,     \* _MAX_PASADAS
    MaxCaducados,   \* bound: tokens that expire
    MaxAbortos      \* bound: transactions that fail on their own

ASSUME McpOAuthAssumption ==
    /\ MaxTokens \in Nat
    /\ MaxCodigos \in 0 .. MaxTokens
    /\ NProcesos \in Nat
    /\ MaxTx \in Nat
    /\ MaxPasadas \in Nat \ {0}
    /\ MaxCaducados \in Nat
    /\ MaxAbortos \in Nat

VARIABLES
    fila,       \* mcp_oauth_tokens, what is committed
    tx,         \* per process: its open transaction
    cerradas,   \* families whose revocation was committed (observed)
    revocados,  \* codes a committed user revocation found (observed)
    abiertas,   \* transactions begun
    abortos     \* transactions that failed on their own

vars == <<fila, tx, cerradas, revocados, abiertas, abortos>>

Tokens    == 1 .. MaxTokens
Procesos  == 1 .. NProcesos
(* A family gets its uuid in the transaction that consumes its code: the   *)
(* code and the process name it.  Only one of a process's attempts at a    *)
(* code can be committed.                                                  *)
Familias  == Tokens \X Procesos
SinFamilia == <<0, 0>>
Usuario    == <<0, 1>>                      \* key of the user's advisory lock
Cerrojos   == Familias \union {Usuario}

Fila == [ tipo     : {"nada", "code", "access", "refresh"},
          revocado : BOOLEAN,               \* revoked_at IS NOT NULL
          caducado : BOOLEAN,               \* expires_at <= now()
          familia  : Familias \union {SinFamilia},
          padre    : Tokens \union {0} ]    \* the token it was issued for (observed)

(* fase: "cerrar" waits for an advisory lock, "sentencia" is about to run  *)
(* its UPDATE, "filas" is in it.                                           *)
Tx == [ op      : {"nada", "canje", "familia", "usuario"},
        fase    : {"cerrar", "sentencia", "filas", "familias", "fin"},
        token   : Tokens \union {0},
        caduco  : BOOLEAN,                  \* now() is that of its first statement
        familia : Familias \union {SinFamilia},
        pide    : SUBSET Cerrojos,          \* advisory locks it goes for
        tiene   : SUBSET Cerrojos,          \* and those it holds
        pend    : SUBSET Tokens,            \* rows its UPDATE has still to lock
        toma    : SUBSET Tokens,            \* rows it has locked
        escribe : SUBSET Tokens,            \* rows it has revoked
        pasada  : 0 .. MaxPasadas,
        vistos  : SUBSET Tokens ]           \* codes there were when it began (observed)

TypeOK ==
    /\ fila \in [Tokens -> Fila]
    /\ tx \in [Procesos -> Tx]
    /\ cerradas \subseteq Familias
    /\ revocados \subseteq Tokens
    /\ abiertas \in 0 .. MaxTx /\ abortos \in 0 .. MaxAbortos

SinFila == [ tipo |-> "nada", revocado |-> FALSE, caducado |-> FALSE,
             familia |-> SinFamilia, padre |-> 0 ]
Ninguna == [ op |-> "nada", fase |-> "fin", token |-> 0, caduco |-> FALSE,
             familia |-> SinFamilia, pide |-> {}, tiene |-> {}, pend |-> {},
             toma |-> {}, escribe |-> {}, pasada |-> 0, vistos |-> {} ]

Init ==
    /\ fila = [t \in Tokens |-> SinFila]
    /\ tx = [p \in Procesos |-> Ninguna]
    /\ cerradas = {} /\ revocados = {}
    /\ abiertas = 0 /\ abortos = 0

-----------------------------------------------------------------------------
Existe(t)  == fila[t].tipo # "nada"
Vivo(t)    == Existe(t) /\ ~fila[t].revocado
Codigos    == { t \in Tokens : fila[t].tipo = "code" }
Nuevos     == { t \in Tokens : ~Existe(t) }
(* Bound: room for n rows more and for what the open exchanges may insert. *)
Cabe(n) == Cardinality(Nuevos) >= n + 2 * Cardinality({ p \in Procesos : tx[p].op = "canje" })

(* The code a token comes from. *)
Origen(t)  == IF fila[t].tipo = "code" THEN t ELSE fila[t].familia[1]

Op(p, o)   == tx[p].op = o
Fase(p, f) == tx[p].op # "nada" /\ tx[p].fase = f

(* A transaction sees its own writes over what is committed.               *)
VeVivo(p, t) == Vivo(t) /\ t \notin tx[p].escribe

CerrojoSiempreLibre(p, c) == TRUE       \* mutant: no family lock

CerrojoLibre(p, c) == \A q \in Procesos \ {p} : c \notin tx[q].tiene
FilaLibre(p, t)    == \A q \in Procesos \ {p} : t \notin tx[q].toma

(* sorted(): locks are taken in a fixed order. *)
Menor(C) == CHOOSE c \in C : \A d \in C : c[1] < d[1] \/ (c[1] = d[1] /\ c[2] <= d[2])

(* Mutant: WHERE token_hash AND kind, without _VIGENTE. *)
AlcanceSinVigente(p) ==
    LET x == tx[p] IN
    CASE x.op = "canje"   -> { t \in {x.token} : Existe(t) }
      [] x.op = "familia" -> { t \in Tokens : VeVivo(p, t) /\ fila[t].familia = x.familia }
      [] x.op = "usuario" -> { t \in Tokens : VeVivo(p, t) }

(* The rows the WHERE of a transaction's UPDATE is true of.                *)
Alcance(p) ==
    LET x == tx[p] IN
    CASE x.op = "canje"   -> { t \in {x.token} : VeVivo(p, t) /\ ~x.caduco }
      [] x.op = "familia" -> { t \in Tokens : VeVivo(p, t) /\ fila[t].familia = x.familia }
      [] x.op = "usuario" -> { t \in Tokens : VeVivo(p, t) }

UpdateHecho(p) == Fase(p, "filas") /\ tx[p].pend = {}
Gana(p)        == tx[p].token \in tx[p].escribe

(* The committed rows once the transaction's writes are in. *)
ConEscrituras(p) ==
    [t \in Tokens |-> IF t \in tx[p].escribe THEN [fila[t] EXCEPT !.revocado = TRUE]
                                             ELSE fila[t]]

(* Mutant: the new rows get the kind of a login that is still pending. *)
EmitidoPendiente(tipo, p) ==
    [ tipo |-> "pendiente", revocado |-> FALSE, caducado |-> FALSE,
      familia |-> tx[p].familia, padre |-> tx[p].token ]

Emitido(tipo, p) == [ tipo |-> tipo, revocado |-> FALSE, caducado |-> FALSE,
                      familia |-> tx[p].familia, padre |-> tx[p].token ]

(* Connections are all alike: a transaction takes the first one free. *)
Abre(p, x) ==
    /\ Op(p, "nada") /\ \A q \in Procesos : q < p => ~Op(q, "nada")
    /\ abiertas < MaxTx /\ abiertas' = abiertas + 1
    /\ tx' = [tx EXCEPT ![p] = x]

(* Mutant: pg_advisory_lock, which the session keeps. *)
CierraSinSoltar(p) == tx' = [tx EXCEPT ![p] = [Ninguna EXCEPT !.tiene = tx[p].tiene]]

(* COMMIT and ROLLBACK: every lock of the transaction is released. *)
Cierra(p) == tx' = [tx EXCEPT ![p] = Ninguna]

-----------------------------------------------------------------------------
(* completar_login() gives the user a code: one INSERT, no family yet.     *)
Login ==
    /\ Cardinality(Codigos) < MaxCodigos /\ Cabe(1)
    /\ \E t \in Nuevos : /\ \A u \in Nuevos : t <= u
                         /\ fila' = [fila EXCEPT ![t] = [SinFila EXCEPT !.tipo = "code"]]
    /\ UNCHANGED <<tx, cerradas, revocados, abiertas, abortos>>

Caducar(t) ==
    /\ Cardinality({ u \in Tokens : fila[u].caducado }) < MaxCaducados
    /\ fila[t].tipo \in {"code", "refresh"} /\ ~fila[t].caducado
    /\ fila' = [fila EXCEPT ![t].caducado = TRUE]
    /\ UNCHANGED <<tx, cerradas, revocados, abiertas, abortos>>

(* consumir_y_emitir(): a code or a refresh token is presented, in any     *)
(* state: load_* sends what was consumed here too.  Its family is read,    *)
(* and made up for a code that has none.                                   *)
Canjear(p, t) ==
    /\ fila[t].tipo \in {"code", "refresh"}
    /\ Cabe(2) \/ fila[t].revocado
    /\ LET f == IF fila[t].familia = SinFamilia THEN <<t, p>> ELSE fila[t].familia
       IN  Abre(p, [Ninguna EXCEPT !.op = "canje", !.fase = "cerrar", !.token = t,
                                   !.familia = f, !.caduco = fila[t].caducado,
                                   !.pide = {f}])
    /\ UNCHANGED <<fila, cerradas, revocados, abortos>>

(* revoke_token() of an access or refresh token: revocar_familia().        *)
RevocarFamilia(p, t) ==
    /\ fila[t].tipo \in {"access", "refresh"}
    /\ Abre(p, [Ninguna EXCEPT !.op = "familia", !.fase = "cerrar",
                               !.familia = fila[t].familia, !.pide = {fila[t].familia}])
    /\ UNCHANGED <<fila, cerradas, revocados, abortos>>

(* revocar_de_usuario(), also inside the transaction of a new password.    *)
RevocarDeUsuario(p) ==
    /\ Abre(p, [Ninguna EXCEPT !.op = "usuario", !.fase = "cerrar", !.pide = {Usuario},
                               !.vistos = Codigos])
    /\ UNCHANGED <<fila, cerradas, revocados, abortos>>

(* _cerrar_familia(): pg_advisory_xact_lock, one after another.  The user's *)
(* lock is followed by the first look for families.                        *)
Cerrar(p) ==
    /\ Fase(p, "cerrar")
    /\ LET c == Menor(tx[p].pide)
       IN  /\ CerrojoLibre(p, c)
           /\ tx' = [tx EXCEPT ![p].tiene = @ \union {c}, ![p].pide = @ \ {c},
                               ![p].fase = IF c = Usuario THEN "familias"
                                           ELSE IF tx[p].pide = {c} THEN "sentencia"
                                           ELSE "cerrar"]
    /\ UNCHANGED <<fila, cerradas, revocados, abiertas, abortos>>

AcabadaEnUna(p, nuevas) == tx[p].pasada > 0     \* mutant: a single pass

(* A pass after the first that finds no family to close is the end.        *)
Acabada(p, nuevas) == tx[p].pasada = MaxPasadas \/ (tx[p].pasada > 0 /\ nuevas = {})

(* SELECT DISTINCT family_id of what is alive, before every pass.          *)
BuscarFamilias(p) ==
    /\ Op(p, "usuario")
    /\ Fase(p, "familias") \/ UpdateHecho(p)
    /\ LET vivas  == { fila[t].familia : t \in { u \in Tokens : VeVivo(p, u) } } \ {SinFamilia}
           nuevas == vivas \ tx[p].tiene
       IN  IF Acabada(p, nuevas)
             THEN tx' = [tx EXCEPT ![p].fase = "fin"]
             ELSE tx' = [tx EXCEPT ![p].pide = nuevas,
                                   ![p].fase = IF nuevas = {} THEN "sentencia" ELSE "cerrar"]
    /\ UNCHANGED <<fila, cerradas, revocados, abiertas, abortos>>

(* An UPDATE begins: the rows it goes for are those committed now.         *)
Sentencia(p) ==
    /\ Fase(p, "sentencia")
    /\ tx' = [tx EXCEPT ![p].pend = Alcance(p), ![p].fase = "filas",
                        ![p].pasada = IF Op(p, "usuario") THEN @ + 1 ELSE @]
    /\ UNCHANGED <<fila, cerradas, revocados, abiertas, abortos>>

(* It locks the next of them, and looks at it again: a row that somebody   *)
(* else revoked in the meantime is locked but not written.                 *)
BloquearFila(p, t) ==
    /\ Fase(p, "filas") /\ t \in tx[p].pend
    /\ FilaLibre(p, t)
    /\ tx' = [tx EXCEPT ![p].pend = @ \ {t}, ![p].toma = @ \union {t},
                        ![p].escribe = IF t \in Alcance(p) THEN @ \union {t} ELSE @]
    /\ UNCHANGED <<fila, cerradas, revocados, abiertas, abortos>>

(* RETURNING gave the row: the pair is inserted in its family and all of   *)
(* it committed.                                                           *)
Emitir(p) ==
    /\ Op(p, "canje") /\ UpdateHecho(p) /\ Gana(p)
    /\ \E a, r \in Nuevos :
         /\ a < r /\ \A u \in Nuevos : u = a \/ r <= u
         /\ fila' = [ConEscrituras(p) EXCEPT ![tx[p].token].familia = tx[p].familia,
                                             ![a] = Emitido("access", p),
                                             ![r] = Emitido("refresh", p)]
    /\ Cierra(p)
    /\ UNCHANGED <<cerradas, revocados, abiertas, abortos>>

(* It gave none.  A token that was consumed is a reuse: its family is      *)
(* revoked in this transaction, after closing it if the one closed was     *)
(* made up.  One that expired, or is nowhere, changes nothing.             *)
NoGana(p) ==
    /\ Op(p, "canje") /\ UpdateHecho(p) /\ ~Gana(p)
    /\ LET previo == fila[tx[p].token]
       IN  IF ~previo.revocado \/ previo.familia = SinFamilia THEN Cierra(p)
           ELSE tx' = [tx EXCEPT ![p].op = "familia", ![p].familia = previo.familia,
                                 ![p].pide = {previo.familia} \ tx[p].tiene,
                                 ![p].fase = IF previo.familia \in tx[p].tiene
                                             THEN "sentencia" ELSE "cerrar"]
    /\ UNCHANGED <<fila, cerradas, revocados, abiertas, abortos>>

(* COMMIT of a revocation. *)
ConfirmarFamilia(p) ==
    /\ Op(p, "familia") /\ UpdateHecho(p)
    /\ fila' = ConEscrituras(p)
    /\ cerradas' = cerradas \union {tx[p].familia}
    /\ Cierra(p)
    /\ UNCHANGED <<revocados, abiertas, abortos>>

ConfirmarUsuario(p) ==
    /\ Op(p, "usuario") /\ Fase(p, "fin")
    /\ fila' = ConEscrituras(p)
    /\ revocados' = revocados \union tx[p].vistos
    /\ Cierra(p)
    /\ UNCHANGED <<cerradas, abiertas, abortos>>

-----------------------------------------------------------------------------
(* Whose lock a transaction waits for, if it cannot go on.                 *)
Espera(p) ==
    IF Fase(p, "cerrar")
      THEN { q \in Procesos \ {p} : Menor(tx[p].pide) \in tx[q].tiene }
    ELSE IF Fase(p, "filas") /\ tx[p].pend # {} /\ \A t \in tx[p].pend : ~FilaLibre(p, t)
      THEN { q \in Procesos \ {p} : tx[p].pend \intersect tx[q].toma # {} }
    ELSE {}

(* Transactions that wait for each other and for nobody else: the smallest *)
(* sets of them, without those that only wait behind.                      *)
Atascadas(S) == S # {} /\ \A p \in S : Espera(p) \subseteq S
Interbloqueados ==
    LET esperan == { p \in Procesos : Espera(p) # {} } IN
    UNION { S \in SUBSET esperan : /\ Atascadas(S)
                                   /\ \A T \in SUBSET S : Atascadas(T) => T = S }

(* PostgreSQL finds the cycle and rolls one of them back.                  *)
Interbloqueo(p) ==
    /\ Espera(p) # {} /\ p \in Interbloqueados
    /\ Cierra(p)
    /\ UNCHANGED <<fila, cerradas, revocados, abiertas, abortos>>

(* An INSERT fails, a statement runs out of time or the process dies.      *)
Abortar(p) ==
    /\ ~Op(p, "nada")
    /\ abortos < MaxAbortos /\ abortos' = abortos + 1
    /\ Cierra(p)
    /\ UNCHANGED <<fila, cerradas, revocados, abiertas>>

Sigue(p) ==
    \/ Cerrar(p)
    \/ BuscarFamilias(p)
    \/ Sentencia(p)
    \/ \E t \in Tokens : BloquearFila(p, t)
    \/ Emitir(p)
    \/ NoGana(p)
    \/ ConfirmarFamilia(p)
    \/ ConfirmarUsuario(p)
    \/ Interbloqueo(p)

Empieza(p) ==
    \/ \E t \in Tokens : Canjear(p, t) \/ RevocarFamilia(p, t)
    \/ RevocarDeUsuario(p)

Next ==
    \/ Login
    \/ \E t \in Tokens : Caducar(t)
    \/ \E p \in Procesos : Empieza(p) \/ Sigue(p) \/ Abortar(p)

Spec == Init /\ [][Next]_vars

(* A transaction that can go on does, and PostgreSQL breaks its deadlocks. *)
FairSpec == Spec /\ \A p \in Procesos : WF_vars(Sigue(p))

-----------------------------------------------------------------------------
(* A code or a refresh token is good for one pair, however many requests   *)
(* present it at once and whichever of them abort (consumir_y_emitir).     *)
UsoUnico ==
    \A t \in Tokens : Cardinality({ u \in Tokens : fila[u].tipo = "refresh"
                                                   /\ fila[u].padre = t }) <= 1

(* Once a reuse or a revocation of a family is committed nothing of it is  *)
(* alive, nor what a rotation that ran at the same time was inserting.     *)
FamiliaCerrada ==
    \A t \in Tokens : Vivo(t) => fila[t].familia \notin cerradas

(* Once all a user has is revoked, nothing that comes from the logins it   *)
(* found is alive: neither their codes nor what exchanges of them in       *)
(* flight issued, in families nobody had seen (revocar_de_usuario).        *)
UsuarioRevocado ==
    \A t \in Tokens : Vivo(t) => Origen(t) \notin revocados

(* Exchanges, reuses and revocations of a family never wait for each       *)
(* other: the family lock comes before any row (_cerrar_familia).          *)
FamiliaSinInterbloqueo ==
    Interbloqueados # {} => \E p \in Interbloqueados : Op(p, "usuario")

(* Every transaction ends. *)
TodaTransaccionTermina ==
    \A p \in Procesos : []<>Op(p, "nada")
=============================================================================
