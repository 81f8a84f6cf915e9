---------------------------- MODULE McpOAuth_proofs ----------------------------
(* Proofs about the OAuth tokens: a token is used once, a closed family     *)
(* stays closed and, with two passes or more, so does a user.               *)
EXTENDS McpOAuth, FiniteSetTheorems, WellFoundedInduction, TLAPS

Familiar(p) == tx[p].op \in {"canje", "familia"}

(* Rows: a token that issued a pair is revoked; the code of a family too.   *)
FilasBien ==
    \A t \in Tokens :
       /\ ~Existe(t) => fila[t] = SinFila
       /\ (Existe(t) /\ fila[t].padre # 0) => fila[fila[t].padre].revocado
       /\ fila[t].tipo \in {"access", "refresh"} => fila[t].familia # SinFamilia
       /\ (fila[t].tipo = "code" /\ Vivo(t)) => fila[t].familia = SinFamilia
       /\ fila[t].familia # SinFamilia =>
            Existe(fila[t].familia[1]) /\ fila[fila[t].familia[1]].revocado

UnPar ==
    \A u, v \in Tokens : (/\ fila[u].tipo = "refresh" /\ fila[v].tipo = "refresh"
                          /\ fila[u].padre = fila[v].padre /\ fila[u].padre # 0) => u = v

(* Locks: each is held by one transaction, and a row written is alive until *)
(* its transaction ends.                                                    *)
CerrojosBien ==
    \A p \in Procesos :
       /\ \A q \in Procesos \ {p} : /\ tx[p].tiene \intersect tx[q].tiene = {}
                                    /\ tx[p].toma \intersect tx[q].toma = {}
       /\ tx[p].escribe \subseteq tx[p].toma
       /\ \A t \in tx[p].escribe : Vivo(t)

(* Transactions: what each goes for, phase by phase. *)
Encaja(p) ==
    /\ Fase(p, "cerrar") => tx[p].pide # {}
    /\ Fase(p, "sentencia") => tx[p].pide = {}
    /\ Familiar(p) =>
         /\ tx[p].familia # SinFamilia
         /\ tx[p].fase \in {"cerrar", "sentencia", "filas"}
         /\ tx[p].fase = "cerrar" => tx[p].pide = {tx[p].familia}
         /\ tx[p].fase # "cerrar" => tx[p].familia \in tx[p].tiene
    /\ Op(p, "usuario") =>
         /\ (Usuario \in tx[p].pide /\ tx[p].fase = "cerrar") => tx[p].pasada = 0
         /\ tx[p].fase = "familias" => tx[p].pasada = 0
         /\ tx[p].fase \in {"cerrar", "sentencia"} => tx[p].pasada < MaxPasadas
         /\ tx[p].fase = "filas" => tx[p].pasada >= 1
    /\ Op(p, "canje") =>
         /\ tx[p].token # 0 /\ Existe(tx[p].token)
         /\ fila[tx[p].token].tipo # "access"
         /\ Vivo(tx[p].token) =>
              \/ fila[tx[p].token].familia = tx[p].familia
              \/ /\ fila[tx[p].token].tipo = "code"
                 /\ tx[p].familia = <<tx[p].token, p>>
    /\ Op(p, "familia") =>
         Existe(tx[p].familia[1]) /\ fila[tx[p].familia[1]].revocado

TxBien == \A p \in Procesos : Encaja(p)

(* The UPDATE of a revocation of a family has, or has still to take, all    *)
(* that is alive in it.                                                     *)
FamiliaEntera ==
    \A p \in Procesos : (Op(p, "familia") /\ tx[p].fase = "filas") =>
       \A t \in Tokens : (Vivo(t) /\ fila[t].familia = tx[p].familia) =>
          t \in tx[p].escribe \union tx[p].pend

CerradasBien ==
    \A f \in cerradas : Existe(f[1]) /\ fila[f[1]].revocado

(* What a user revocation has still to write of the logins it found.        *)
Suelta(p) == { t \in Tokens : Vivo(t) /\ Origen(t) \in tx[p].vistos /\ t \notin tx[p].escribe }

Cubre(p) ==
    Op(p, "usuario") =>
       /\ \A c \in tx[p].vistos : Existe(c)
       /\ (tx[p].fase = "filas" /\ tx[p].pasada = 1) =>
            \A t \in Suelta(p) :
               t \in tx[p].pend \/ (fila[t].tipo # "code" /\ fila[t].familia \notin tx[p].tiene)
       /\ (tx[p].fase \in {"cerrar", "sentencia"} /\ tx[p].pasada >= 1) =>
            \A t \in Suelta(p) :
               fila[t].tipo # "code" /\ fila[t].familia \in tx[p].pide \union tx[p].tiene
       /\ (tx[p].fase = "filas" /\ tx[p].pasada >= 2) =>
            \A t \in Suelta(p) :
               fila[t].tipo # "code" /\ fila[t].familia \in tx[p].tiene /\ t \in tx[p].pend
       /\ tx[p].fase = "fin" => Suelta(p) = {}

UsuarioEntero == \A p \in Procesos : Cubre(p)

RevocadosBien == \A c \in revocados : Existe(c)

(* The order of the locks.  The family a code was consumed into is that of  *)
(* all that comes from it; another one made up for it is nobody else's.     *)
Hecha(f) == fila[f[1]].familia = f

FamiliasBien == \A t \in Tokens : fila[t].familia # SinFamilia => Hecha(fila[t].familia)

(* Whoever has a row or goes for it holds its family's lock, unless it is a *)
(* code that had no family when its exchange began.                         *)
Ordena(p) ==
    Familiar(p) =>
       /\ tx[p].tiene \subseteq Familias
       /\ \A f \in tx[p].tiene \union {tx[p].familia} : f[2] = p \/ Hecha(f)
       /\ \A f \in tx[p].tiene \ {tx[p].familia} :
            fila[f[1]].familia # SinFamilia /\ ~Hecha(f)
       /\ \A t \in tx[p].pend \union tx[p].toma :
            Existe(t) /\ (fila[t].tipo # "code" => fila[t].familia \in tx[p].tiene)
       /\ (Op(p, "familia") /\ tx[p].fase = "filas") =>
            \A t \in tx[p].pend : fila[t].tipo # "code"
       /\ Op(p, "canje") =>
            /\ fila[tx[p].token].familia = tx[p].familia \/ tx[p].familia = <<tx[p].token, p>>
            /\ tx[p].pend \subseteq {tx[p].token} \ tx[p].toma
            /\ tx[p].toma \subseteq {tx[p].token}
            /\ tx[p].fase # "filas" => tx[p].toma = {}
            /\ tx[p].fase = "filas" => \A t \in tx[p].pend : fila[t].tipo = "code" =>
                 tx[p].familia = <<t, p>> /\ ~Hecha(tx[p].familia)

OrdenBien == \A p \in Procesos : Ordena(p)

Inv ==
    /\ TypeOK
    /\ FilasBien
    /\ UnPar
    /\ CerrojosBien
    /\ TxBien
    /\ FamiliaEntera
    /\ CerradasBien
    /\ FamiliaCerrada

InvOrden ==
    /\ Inv
    /\ FamiliasBien
    /\ OrdenBien

InvUsuario ==
    /\ Inv
    /\ UsuarioEntero
    /\ RevocadosBien
    /\ UsuarioRevocado

-----------------------------------------------------------------------------
(* The operators: a set of locks has a first one. *)
LEMMA MenorNat ==
    ASSUME NEW S, S \subseteq Nat, S # {}
    PROVE  \E x \in S : \A y \in S : x <= y
  <1> DEFINE R == OpToRel(<, Nat)
  <1>1. IsWellFoundedOn(R, Nat)
    BY NatLessThanWellFounded
  <1>2. \A x, y \in Nat : y < x => <<y, x>> \in R
    BY DEF OpToRel
  <1> HIDE DEF R
  <1>3. PICK x \in S : \A y \in S : ~ (<<y, x>> \in R)
    BY <1>1, WFMin
  <1>4. \A y \in S : x <= y
    <2>1. ASSUME NEW y \in S PROVE x <= y
      <3>1. ~ (y < x)
        BY <1>2, <1>3
      <3>2. x \in Nat /\ y \in Nat
        OBVIOUS
      <3> QED
        BY <3>1, <3>2
    <2> QED
      BY <2>1
  <1> QED
    BY <1>4

LEMMA MenorEs ==
    ASSUME NEW C, C \subseteq Cerrojos, C # {}
    PROVE  Menor(C) \in C
  <1>1. \A c \in C : c[1] \in Nat /\ c[2] \in Nat
    BY McpOAuthAssumption DEF Cerrojos, Familias, Usuario, Tokens, Procesos
  <1> DEFINE A == { c[1] : c \in C }
  <1>2. A \subseteq Nat /\ A # {}
    BY <1>1
  <1>3. PICK a \in A : \A x \in A : a <= x
    BY <1>2, MenorNat
  <1> DEFINE B == { c[2] : c \in { d \in C : d[1] = a } }
  <1>4. B \subseteq Nat /\ B # {}
    BY <1>1, <1>3
  <1>5. PICK b \in B : \A x \in B : b <= x
    BY <1>4, MenorNat
  <1>6. PICK c \in C : c[1] = a /\ c[2] = b
    BY <1>5
  <1>7. ASSUME NEW d \in C PROVE c[1] < d[1] \/ (c[1] = d[1] /\ c[2] <= d[2])
    <2>1. a <= d[1] /\ a \in Nat /\ d[1] \in Nat
      BY <1>1, <1>2, <1>3
    <2>2. d[1] = a => b <= d[2]
      BY <1>5
    <2> QED
      BY <1>6, <2>1, <2>2
  <1> QED
    BY <1>7 DEF Menor

LEMMA LlavesEs ==
    /\ SinFamilia \notin Familias /\ Usuario \notin Familias /\ Usuario # SinFamilia
    /\ \A f \in Familias : f[1] \in Tokens /\ f \in Cerrojos /\ f # Usuario
    /\ Usuario \in Cerrojos /\ 0 \notin Tokens
  BY McpOAuthAssumption DEF SinFamilia, Usuario, Familias, Cerrojos, Tokens, Procesos

LEMMA NingunaEs ==
    /\ Ninguna \in Tx /\ Ninguna.op = "nada" /\ Ninguna.tiene = {} /\ Ninguna.pide = {}
    /\ Ninguna.toma = {} /\ Ninguna.escribe = {} /\ Ninguna.fase = "fin" /\ Ninguna.pend = {}
    /\ Ninguna.vistos = {} /\ Ninguna.pasada = 0
  BY McpOAuthAssumption DEF Ninguna, Tx

-----------------------------------------------------------------------------
(* What each step does to the transaction of its process. *)
Otras(p) == \A q \in Procesos \ {p} : tx'[q] = tx[q]
Suyo(p)  == tx' \in [Procesos -> Tx] /\ Otras(p)

(* What most steps leave alone. *)
Misma(p) == /\ tx'[p].op = tx[p].op /\ tx'[p].token = tx[p].token
            /\ tx'[p].familia = tx[p].familia /\ tx'[p].vistos = tx[p].vistos
MismasFilas(p) == tx'[p].toma = tx[p].toma /\ tx'[p].escribe = tx[p].escribe

LEMMA TxCambia ==
    ASSUME TypeOK, NEW p \in Procesos, NEW x \in Tx, tx' = [tx EXCEPT ![p] = x]
    PROVE  Suyo(p) /\ tx'[p] = x
  BY DEF TypeOK, Suyo, Otras

LEMMA CierraEs ==
    ASSUME TypeOK, NEW p \in Procesos, Cierra(p)
    PROVE  /\ Suyo(p) /\ tx'[p].op = "nada"
           /\ tx'[p].tiene = {} /\ tx'[p].toma = {} /\ tx'[p].escribe = {}
  BY TxCambia, NingunaEs DEF Cierra

LEMMA CanjearEs ==
    ASSUME TypeOK, FilasBien, NEW p \in Procesos, NEW t \in Tokens, Canjear(p, t)
    PROVE  /\ Suyo(p) /\ fila' = fila /\ fila[t].tipo \in {"code", "refresh"}
           /\ tx'[p].op = "canje" /\ tx'[p].fase = "cerrar" /\ tx'[p].token = t
           /\ tx'[p].familia \in Familias /\ tx'[p].pide = {tx'[p].familia}
           /\ tx'[p].tiene = {} /\ tx'[p].toma = {} /\ tx'[p].escribe = {} /\ tx'[p].pend = {}
           /\ \/ fila[t].familia = tx'[p].familia
              \/ fila[t].tipo = "code" /\ tx'[p].familia = <<t, p>>
  <1> DEFINE f == IF fila[t].familia = SinFamilia THEN <<t, p>> ELSE fila[t].familia
             x == [Ninguna EXCEPT !.op = "canje", !.fase = "cerrar", !.token = t,
                                  !.familia = f, !.caduco = fila[t].caducado, !.pide = {f}]
  <1>1. tx' = [tx EXCEPT ![p] = x] /\ fila' = fila /\ fila[t].tipo \in {"code", "refresh"}
    BY DEF Canjear, Abre
  <1>2. f \in Familias /\ (f = fila[t].familia \/ (fila[t].tipo = "code" /\ f = <<t, p>>))
    <2>1. fila[t] \in Fila
      BY DEF TypeOK
    <2>2. fila[t].tipo = "refresh" => fila[t].familia # SinFamilia
      BY DEF FilasBien
    <2> QED
      BY <1>1, <2>1, <2>2 DEF Fila, Familias
  <1>3. fila[t].caducado \in BOOLEAN
    BY DEF TypeOK, Fila
  <1> HIDE DEF f
  <1>4. /\ x \in Tx /\ x.op = "canje" /\ x.fase = "cerrar" /\ x.token = t
        /\ x.familia = f /\ x.pide = {f} /\ x.tiene = {} /\ x.toma = {} /\ x.escribe = {}
        /\ x.pend = {}
    BY <1>2, <1>3, LlavesEs, NingunaEs DEF Tx
  <1> HIDE DEF x
  <1> QED
    BY <1>1, <1>2, <1>4, TxCambia

LEMMA RevocarFamiliaEs ==
    ASSUME TypeOK, FilasBien, NEW p \in Procesos, NEW t \in Tokens, RevocarFamilia(p, t)
    PROVE  /\ Suyo(p) /\ fila' = fila
           /\ tx'[p].op = "familia" /\ tx'[p].fase = "cerrar"
           /\ tx'[p].familia = fila[t].familia /\ fila[t].familia \in Familias
           /\ tx'[p].pide = {tx'[p].familia}
           /\ tx'[p].tiene = {} /\ tx'[p].toma = {} /\ tx'[p].escribe = {} /\ tx'[p].pend = {}
  <1> DEFINE f == fila[t].familia
             x == [Ninguna EXCEPT !.op = "familia", !.fase = "cerrar", !.familia = f,
                                  !.pide = {f}]
  <1>1. tx' = [tx EXCEPT ![p] = x] /\ fila' = fila
    BY DEF RevocarFamilia, Abre
  <1>2. f \in Familias
    BY DEF TypeOK, Fila, FilasBien, RevocarFamilia
  <1> HIDE DEF f
  <1>3. /\ x \in Tx /\ x.op = "familia" /\ x.fase = "cerrar" /\ x.familia = f /\ x.pide = {f}
        /\ x.tiene = {} /\ x.toma = {} /\ x.escribe = {} /\ x.pend = {}
    BY <1>2, LlavesEs, NingunaEs DEF Tx
  <1> HIDE DEF x
  <1> QED
    BY <1>1, <1>2, <1>3, TxCambia DEF f

LEMMA RevocarDeUsuarioEs ==
    ASSUME TypeOK, NEW p \in Procesos, RevocarDeUsuario(p)
    PROVE  /\ Suyo(p) /\ fila' = fila
           /\ tx'[p].op = "usuario" /\ tx'[p].fase = "cerrar" /\ tx'[p].pide = {Usuario}
           /\ tx'[p].vistos = Codigos /\ tx'[p].pasada = 0
           /\ tx'[p].tiene = {} /\ tx'[p].toma = {} /\ tx'[p].escribe = {}
  <1> DEFINE x == [Ninguna EXCEPT !.op = "usuario", !.fase = "cerrar", !.pide = {Usuario},
                                  !.vistos = Codigos]
  <1>1. tx' = [tx EXCEPT ![p] = x] /\ fila' = fila
    BY DEF RevocarDeUsuario, Abre
  <1>2. Codigos \subseteq Tokens
    BY DEF Codigos
  <1>3. /\ x \in Tx /\ x.op = "usuario" /\ x.fase = "cerrar" /\ x.pide = {Usuario}
        /\ x.vistos = Codigos /\ x.pasada = 0
        /\ x.tiene = {} /\ x.toma = {} /\ x.escribe = {}
    BY <1>2, LlavesEs, NingunaEs DEF Tx
  <1> HIDE DEF x
  <1> QED
    BY <1>1, <1>3, TxCambia

LEMMA CerrarEs ==
    ASSUME TypeOK, TxBien, NEW p \in Procesos, Cerrar(p)
    PROVE  /\ Suyo(p) /\ Misma(p) /\ MismasFilas(p) /\ Fase(p, "cerrar")
           /\ tx'[p].pend = tx[p].pend /\ tx'[p].pasada = tx[p].pasada
           /\ \E c \in tx[p].pide :
                /\ CerrojoLibre(p, c)
                /\ tx'[p].tiene = tx[p].tiene \union {c}
                /\ tx'[p].pide = tx[p].pide \ {c}
                /\ tx'[p].fase = IF c = Usuario THEN "familias"
                                 ELSE IF tx[p].pide = {c} THEN "sentencia" ELSE "cerrar"
  <1> DEFINE c == Menor(tx[p].pide)
             g == IF c = Usuario THEN "familias"
                  ELSE IF tx[p].pide = {c} THEN "sentencia" ELSE "cerrar"
             x == [tx[p] EXCEPT !.tiene = tx[p].tiene \union {c}, !.pide = tx[p].pide \ {c},
                                !.fase = g]
  <1>1. tx' = [tx EXCEPT ![p] = x] /\ Fase(p, "cerrar") /\ CerrojoLibre(p, c)
    BY DEF Cerrar
  <1>2. tx[p] \in Tx
    BY DEF TypeOK
  <1>3. tx[p].pide \subseteq Cerrojos /\ tx[p].pide # {}
    BY <1>1, <1>2 DEF TxBien, Encaja, Tx
  <1>4. c \in tx[p].pide /\ c \in Cerrojos
    BY <1>3, MenorEs
  <1> HIDE DEF c
  <1>5. g \in {"cerrar", "sentencia", "familias"}
    OBVIOUS
  <1> HIDE DEF g
  <1>6. /\ x \in Tx /\ x.tiene = tx[p].tiene \union {c} /\ x.pide = tx[p].pide \ {c}
        /\ x.fase = g /\ x.op = tx[p].op /\ x.token = tx[p].token /\ x.familia = tx[p].familia
        /\ x.vistos = tx[p].vistos /\ x.toma = tx[p].toma /\ x.escribe = tx[p].escribe
        /\ x.pend = tx[p].pend /\ x.pasada = tx[p].pasada
    BY <1>2, <1>4, <1>5 DEF Tx
  <1> HIDE DEF x
  <1> QED
    BY <1>1, <1>4, <1>6, TxCambia DEF Misma, MismasFilas, g

(* The families a look finds that are still to be closed. *)
Faltan(p) ==
    ({ fila[t].familia : t \in { u \in Tokens : VeVivo(p, u) } } \ {SinFamilia}) \ tx[p].tiene

LEMMA BuscarFamiliasEs ==
    ASSUME TypeOK, NEW p \in Procesos, BuscarFamilias(p)
    PROVE  /\ Suyo(p) /\ Misma(p) /\ MismasFilas(p) /\ Op(p, "usuario")
           /\ Fase(p, "familias") \/ UpdateHecho(p)
           /\ tx'[p].tiene = tx[p].tiene /\ tx'[p].pasada = tx[p].pasada
           /\ Faltan(p) \subseteq Familias
           /\ \/ Acabada(p, Faltan(p)) /\ tx'[p].fase = "fin"
              \/ /\ ~Acabada(p, Faltan(p)) /\ tx'[p].pide = Faltan(p)
                 /\ tx'[p].fase = IF Faltan(p) = {} THEN "sentencia" ELSE "cerrar"
  <1> DEFINE nuevas == Faltan(p)
             g == IF nuevas = {} THEN "sentencia" ELSE "cerrar"
             x == [tx[p] EXCEPT !.fase = "fin"]
             y == [tx[p] EXCEPT !.pide = nuevas, !.fase = g]
  <1>1. /\ Op(p, "usuario") /\ (Fase(p, "familias") \/ UpdateHecho(p))
        /\ \/ Acabada(p, nuevas) /\ tx' = [tx EXCEPT ![p] = x]
           \/ ~Acabada(p, nuevas) /\ tx' = [tx EXCEPT ![p] = y]
    BY DEF BuscarFamilias, Faltan
  <1>2. tx[p] \in Tx
    BY DEF TypeOK
  <1>3. nuevas \subseteq Familias
    BY DEF TypeOK, Fila, Faltan
  <1> HIDE DEF nuevas
  <1>5. g \in {"sentencia", "cerrar"}
    OBVIOUS
  <1> HIDE DEF g
  <1>6. /\ x \in Tx /\ x.fase = "fin" /\ x.op = tx[p].op /\ x.token = tx[p].token
        /\ x.familia = tx[p].familia /\ x.vistos = tx[p].vistos /\ x.toma = tx[p].toma
        /\ x.escribe = tx[p].escribe /\ x.tiene = tx[p].tiene /\ x.pasada = tx[p].pasada
    BY <1>2 DEF Tx
  <1>7. /\ y \in Tx /\ y.fase = g /\ y.op = tx[p].op /\ y.token = tx[p].token
        /\ y.familia = tx[p].familia /\ y.vistos = tx[p].vistos /\ y.toma = tx[p].toma
        /\ y.escribe = tx[p].escribe /\ y.tiene = tx[p].tiene /\ y.pasada = tx[p].pasada
        /\ y.pide = nuevas
    BY <1>2, <1>3, <1>5 DEF Tx, Cerrojos
  <1> HIDE DEF x, y
  <1>8. CASE Acabada(p, nuevas) /\ tx' = [tx EXCEPT ![p] = x]
    BY <1>1, <1>3, <1>6, <1>8, TxCambia DEF Misma, MismasFilas, nuevas
  <1>9. CASE ~Acabada(p, nuevas) /\ tx' = [tx EXCEPT ![p] = y]
    BY <1>1, <1>3, <1>7, <1>9, TxCambia DEF Misma, MismasFilas, g, nuevas
  <1> QED
    BY <1>1, <1>8, <1>9

LEMMA AlcanceEs ==
    ASSUME NEW p \in Procesos, tx[p].op \in {"familia", "usuario"} \/ tx[p].token \in Tokens,
           tx[p].op \in {"canje", "familia", "usuario"}
    PROVE  /\ Alcance(p) \subseteq Tokens
           /\ \A t \in Alcance(p) : VeVivo(p, t)
           /\ Op(p, "canje") => Alcance(p) \subseteq {tx[p].token}
           /\ Op(p, "familia") =>
                \A t \in Tokens : t \in Alcance(p)
                                    <=> VeVivo(p, t) /\ fila[t].familia = tx[p].familia
           /\ Op(p, "usuario") => \A t \in Tokens : t \in Alcance(p) <=> VeVivo(p, t)
  <1>1. CASE tx[p].op = "canje"
    BY <1>1 DEF Alcance, Op
  <1>2. CASE tx[p].op = "familia"
    BY <1>2 DEF Alcance, Op
  <1>3. CASE tx[p].op = "usuario"
    BY <1>3 DEF Alcance, Op
  <1> QED
    BY <1>1, <1>2, <1>3

(* A transaction under way has a statement to run. *)
LEMMA EnCurso ==
    ASSUME TypeOK, TxBien, NEW p \in Procesos, ~Op(p, "nada")
    PROVE  /\ tx[p].op \in {"canje", "familia", "usuario"}
           /\ tx[p].op \in {"familia", "usuario"} \/ tx[p].token \in Tokens
  BY DEF TypeOK, Tx, TxBien, Encaja, Op

LEMMA SentenciaEs ==
    ASSUME TypeOK, TxBien, NEW p \in Procesos, Sentencia(p)
    PROVE  /\ Suyo(p) /\ Misma(p) /\ MismasFilas(p) /\ Fase(p, "sentencia")
           /\ tx'[p].tiene = tx[p].tiene /\ tx'[p].pide = tx[p].pide
           /\ tx'[p].fase = "filas" /\ tx'[p].pend = Alcance(p)
           /\ Op(p, "usuario") => tx'[p].pasada = tx[p].pasada + 1
  <1> DEFINE a == Alcance(p)
             n == IF Op(p, "usuario") THEN tx[p].pasada + 1 ELSE tx[p].pasada
             x == [tx[p] EXCEPT !.pend = a, !.fase = "filas", !.pasada = n]
  <1>1. tx' = [tx EXCEPT ![p] = x] /\ Fase(p, "sentencia")
    BY DEF Sentencia
  <1>2. tx[p] \in Tx
    BY DEF TypeOK
  <1>3. a \subseteq Tokens
    BY <1>1, EnCurso, AlcanceEs DEF Fase, Op
  <1>4. n \in 0 .. MaxPasadas
    <2>1. tx[p].pasada \in 0 .. MaxPasadas /\ MaxPasadas \in Nat
      BY <1>2, McpOAuthAssumption DEF Tx
    <2>2. Op(p, "usuario") => tx[p].pasada < MaxPasadas
      BY <1>1 DEF TxBien, Encaja, Fase
    <2> QED
      BY <2>1, <2>2
  <1>5. Op(p, "usuario") => n = tx[p].pasada + 1
    OBVIOUS
  <1> HIDE DEF a, n
  <1>6. /\ x \in Tx /\ x.fase = "filas" /\ x.op = tx[p].op /\ x.token = tx[p].token
        /\ x.familia = tx[p].familia /\ x.vistos = tx[p].vistos /\ x.toma = tx[p].toma
        /\ x.escribe = tx[p].escribe /\ x.tiene = tx[p].tiene /\ x.pide = tx[p].pide
        /\ x.pasada = n /\ x.pend = a
    BY <1>2, <1>3, <1>4 DEF Tx
  <1> HIDE DEF x
  <1> QED
    BY <1>1, <1>5, <1>6, TxCambia DEF Misma, MismasFilas, a

LEMMA BloquearFilaEs ==
    ASSUME TypeOK, NEW p \in Procesos, NEW t \in Tokens, BloquearFila(p, t)
    PROVE  /\ Suyo(p) /\ Misma(p) /\ Fase(p, "filas") /\ FilaLibre(p, t) /\ t \in tx[p].pend
           /\ tx'[p].tiene = tx[p].tiene /\ tx'[p].pide = tx[p].pide
           /\ tx'[p].fase = tx[p].fase /\ tx'[p].pasada = tx[p].pasada
           /\ tx'[p].pend = tx[p].pend \ {t} /\ tx'[p].toma = tx[p].toma \union {t}
           /\ tx'[p].escribe = IF t \in Alcance(p) THEN tx[p].escribe \union {t}
                               ELSE tx[p].escribe
  <1> DEFINE w == IF t \in Alcance(p) THEN tx[p].escribe \union {t} ELSE tx[p].escribe
             x == [tx[p] EXCEPT !.pend = tx[p].pend \ {t}, !.toma = tx[p].toma \union {t},
                                !.escribe = w]
  <1>1. tx' = [tx EXCEPT ![p] = x] /\ Fase(p, "filas") /\ FilaLibre(p, t) /\ t \in tx[p].pend
    BY DEF BloquearFila
  <1>2. tx[p] \in Tx
    BY DEF TypeOK
  <1>3. w \subseteq Tokens
    BY <1>2 DEF Tx
  <1> HIDE DEF w
  <1>4. /\ x \in Tx /\ x.fase = tx[p].fase /\ x.op = tx[p].op /\ x.token = tx[p].token
        /\ x.familia = tx[p].familia /\ x.vistos = tx[p].vistos /\ x.pasada = tx[p].pasada
        /\ x.tiene = tx[p].tiene /\ x.pide = tx[p].pide /\ x.escribe = w
        /\ x.pend = tx[p].pend \ {t} /\ x.toma = tx[p].toma \union {t}
    BY <1>2, <1>3 DEF Tx
  <1> HIDE DEF x
  <1> QED
    BY <1>1, <1>4, TxCambia DEF Misma, w

(* An exchange that got nothing is over, or turns to the family it reused. *)
LEMMA NoGanaEs ==
    ASSUME TypeOK, TxBien, NEW p \in Procesos, NoGana(p)
    PROVE  \/ Cierra(p)
           \/ /\ Suyo(p) /\ MismasFilas(p) /\ tx'[p].tiene = tx[p].tiene
              /\ tx'[p].op = "familia" /\ tx'[p].familia \in Familias
              /\ Op(p, "canje") /\ tx[p].token \in Tokens /\ tx'[p].pend = {}
              /\ tx'[p].familia = fila[tx[p].token].familia
              /\ \/ /\ tx'[p].fase = "cerrar" /\ tx'[p].pide = {tx'[p].familia}
                 \/ /\ tx'[p].fase = "sentencia" /\ tx'[p].pide = {}
                    /\ tx'[p].familia \in tx'[p].tiene
  <1> DEFINE t == tx[p].token
             f == fila[t].familia
             d == {f} \ tx[p].tiene
             g == IF f \in tx[p].tiene THEN "sentencia" ELSE "cerrar"
             x == [tx[p] EXCEPT !.op = "familia", !.familia = f, !.pide = d, !.fase = g]
  <1>1. Op(p, "canje") /\ UpdateHecho(p)
    BY DEF NoGana
  <1>2. \/ Cierra(p)
        \/ f # SinFamilia /\ tx' = [tx EXCEPT ![p] = x]
    BY DEF NoGana
  <1>3. tx[p] \in Tx /\ t \in Tokens
    BY <1>1 DEF TypeOK, Tx, TxBien, Encaja, Op
  <1>4. f # SinFamilia => f \in Familias
    BY <1>3 DEF TypeOK, Fila
  <1>5. CASE f # SinFamilia /\ tx' = [tx EXCEPT ![p] = x]
    <2>1. f \in Familias /\ fila[t].familia = f
      BY <1>4, <1>5
    <2> HIDE DEF f
    <2>2. d \subseteq Cerrojos /\ g \in {"sentencia", "cerrar"}
      BY <2>1, LlavesEs
    <2>3. \/ g = "cerrar" /\ d = {f}
          \/ g = "sentencia" /\ d = {} /\ f \in tx[p].tiene
      OBVIOUS
    <2> HIDE DEF d, g
    <2>4. /\ x \in Tx /\ x.fase = g /\ x.op = "familia" /\ x.familia = f /\ x.pide = d
          /\ x.toma = tx[p].toma /\ x.escribe = tx[p].escribe /\ x.tiene = tx[p].tiene
          /\ x.pend = tx[p].pend
      BY <1>3, <2>1, <2>2 DEF Tx
    <2>5. tx[p].pend = {}
      BY <1>1 DEF UpdateHecho
    <2> HIDE DEF x
    <2> QED
      BY <1>1, <1>3, <1>5, <2>1, <2>3, <2>4, <2>5, TxCambia DEF MismasFilas
  <1> QED
    BY <1>2, <1>5

(* A transaction is moved by the steps of its process alone. *)
LEMMA SoloLoSuyo ==
    ASSUME TypeOK, FilasBien, TxBien, [Next]_vars, NEW q \in Procesos
    PROVE  tx'[q] = tx[q] \/ Empieza(q) \/ Sigue(q) \/ Abortar(q)
  <1>1. ASSUME NEW p \in Procesos \ {q}, Empieza(p) \/ Sigue(p) \/ Abortar(p)
        PROVE  tx'[q] = tx[q]
    <2>1. CASE Empieza(p)
      BY <2>1, CanjearEs, RevocarFamiliaEs, RevocarDeUsuarioEs DEF Empieza, Suyo, Otras
    <2>2. CASE Cierra(p)
      BY <2>2, CierraEs DEF Suyo, Otras
    <2>3. CASE Sigue(p)
      <3>1. CASE Cerrar(p) \/ BuscarFamilias(p) \/ Sentencia(p)
        BY <3>1, CerrarEs, BuscarFamiliasEs, SentenciaEs DEF Suyo, Otras
      <3>2. CASE \E t \in Tokens : BloquearFila(p, t)
        BY <3>2, BloquearFilaEs DEF Suyo, Otras
      <3>3. CASE NoGana(p)
        BY <3>3, <2>2, NoGanaEs DEF Suyo, Otras
      <3>4. CASE Emitir(p) \/ ConfirmarFamilia(p) \/ ConfirmarUsuario(p) \/ Interbloqueo(p)
        BY <3>4, <2>2 DEF Emitir, ConfirmarFamilia, ConfirmarUsuario, Interbloqueo
      <3> QED
        BY <2>3, <3>1, <3>2, <3>3, <3>4 DEF Sigue
    <2> QED
      BY <1>1, <2>1, <2>2, <2>3 DEF Abortar
  <1> QED
    BY <1>1 DEF Next, Login, Caducar, vars

-----------------------------------------------------------------------------
(* What each step does to a row: it stays, or is revoked, or is inserted by *)
(* a login or an exchange. *)
Conserva(t) ==
    /\ Existe(t) /\ fila'[t].tipo = fila[t].tipo /\ fila'[t].padre = fila[t].padre
    /\ fila[t].revocado => fila'[t].revocado
    /\ \/ fila'[t].familia = fila[t].familia
       \/ /\ fila[t].tipo = "code" /\ Vivo(t) /\ fila'[t].revocado
          /\ fila'[t].familia[1] = t

ExisteTras(t) == fila'[t].tipo # "nada"
VivoTras(t)   == ExisteTras(t) /\ ~fila'[t].revocado

Nacida(t) ==
    /\ ~Existe(t) /\ fila'[t].tipo = "code" /\ ~fila'[t].revocado
    /\ fila'[t].familia = SinFamilia /\ fila'[t].padre = 0

Emitida(t, p) ==
    /\ ~Existe(t) /\ Emitir(p) /\ fila'[t].tipo \in {"access", "refresh"}
    /\ ~fila'[t].revocado
    /\ fila'[t].familia = tx[p].familia /\ fila'[t].padre = tx[p].token

FilaBien(t) ==
    \/ Conserva(t)
    \/ ~Existe(t) /\ fila'[t] = fila[t]
    \/ Nacida(t)
    \/ \E p \in Procesos : Emitida(t, p)

LEMMA EscritasEs ==
    ASSUME TypeOK, NEW p \in Procesos
    PROVE  /\ ConEscrituras(p) \in [Tokens -> Fila]
           /\ \A t \in Tokens :
                /\ ConEscrituras(p)[t].tipo = fila[t].tipo
                /\ ConEscrituras(p)[t].padre = fila[t].padre
                /\ ConEscrituras(p)[t].familia = fila[t].familia
                /\ t \in tx[p].escribe => ConEscrituras(p)[t].revocado
                /\ t \notin tx[p].escribe => ConEscrituras(p)[t] = fila[t]
  <1>1. \A t \in Tokens : fila[t] \in Fila
    BY DEF TypeOK
  <1>2. \A f \in Fila : /\ [f EXCEPT !.revocado = TRUE] \in Fila
                        /\ [f EXCEPT !.revocado = TRUE].tipo = f.tipo
                        /\ [f EXCEPT !.revocado = TRUE].padre = f.padre
                        /\ [f EXCEPT !.revocado = TRUE].familia = f.familia
                        /\ [f EXCEPT !.revocado = TRUE].revocado
    BY DEF Fila
  <1> QED
    BY <1>1, <1>2 DEF ConEscrituras

(* An exchange has its token alive, in its own family or as a code. *)
LEMMA GanadorEs ==
    ASSUME Inv, NEW p \in Procesos, Op(p, "canje"), UpdateHecho(p), Gana(p)
    PROVE  /\ tx[p].token \in Tokens /\ Vivo(tx[p].token)
           /\ fila[tx[p].token].tipo \in {"code", "refresh"}
           /\ tx[p].familia \in Familias /\ tx[p].familia \in tx[p].tiene
           /\ \/ /\ fila[tx[p].token].tipo = "refresh"
                 /\ fila[tx[p].token].familia = tx[p].familia
              \/ /\ fila[tx[p].token].tipo = "code"
                 /\ tx[p].familia = <<tx[p].token, p>>
  <1> DEFINE k == tx[p].token
  <1>1. k \in Tokens /\ tx[p].familia \in Familias /\ tx[p].familia \in tx[p].tiene
    BY DEF Inv, TypeOK, Tx, TxBien, Encaja, Op, UpdateHecho, Fase, Familiar
  <1>2. Vivo(k)
    BY DEF Inv, CerrojosBien, Gana
  <1>3. fila[k].tipo \in {"code", "refresh"}
    <2>1. fila[k].tipo \in {"nada", "code", "access", "refresh"}
      BY <1>1 DEF Inv, TypeOK, Fila
    <2>2. fila[k].tipo # "access" /\ fila[k].tipo # "nada"
      BY <1>2 DEF Inv, TxBien, Encaja, Vivo, Existe
    <2> QED
      BY <2>1, <2>2
  <1>4. \/ fila[k].familia = tx[p].familia
        \/ fila[k].tipo = "code" /\ tx[p].familia = <<k, p>>
    BY <1>2 DEF Inv, TxBien, Encaja
  <1>5. fila[k].tipo = "code" => fila[k].familia = SinFamilia
    BY <1>1, <1>2 DEF Inv, FilasBien
  <1> QED
    BY <1>1, <1>2, <1>3, <1>4, <1>5, LlavesEs

LEMMA EmitirEs ==
    ASSUME Inv, NEW p \in Procesos, Emitir(p)
    PROVE  /\ fila' \in [Tokens -> Fila] /\ cerradas' = cerradas /\ Cierra(p)
           /\ Op(p, "canje") /\ UpdateHecho(p) /\ Gana(p)
           /\ fila'[tx[p].token].revocado /\ fila'[tx[p].token].familia = tx[p].familia
           /\ \A t \in Tokens \ {tx[p].token} : Existe(t) => fila'[t].familia = fila[t].familia
           /\ \A t \in Tokens : Conserva(t) \/ (~Existe(t) /\ fila'[t] = fila[t])
                                  \/ Emitida(t, p)
           /\ \A t \in Tokens : (Vivo(t) /\ fila'[t].revocado) => t \in tx[p].escribe
           /\ \E r \in Tokens : \A t \in Tokens :
                 (Emitida(t, p) /\ fila'[t].tipo = "refresh") => t = r
  <1>1. Op(p, "canje") /\ UpdateHecho(p) /\ Gana(p) /\ Cierra(p) /\ cerradas' = cerradas
    BY DEF Emitir
  <1> DEFINE k == tx[p].token
             f == tx[p].familia
             E == ConEscrituras(p)
             F == [E EXCEPT ![k].familia = f]
             ea == Emitido("access", p)
             er == Emitido("refresh", p)
  <1>2. PICK a, r \in Nuevos : a < r /\ fila' = [[F EXCEPT ![a] = ea] EXCEPT ![r] = er]
    BY DEF Emitir
  <1>3. /\ k \in Tokens /\ Vivo(k) /\ f \in Familias
        /\ \/ fila[k].tipo = "refresh" /\ fila[k].familia = f
           \/ fila[k].tipo = "code" /\ f = <<k, p>>
    BY <1>1, GanadorEs
  <1>4. a \in Tokens /\ r \in Tokens /\ ~Existe(a) /\ ~Existe(r) /\ a # r /\ a # k /\ r # k
    BY <1>2, <1>3 DEF Nuevos, Vivo, Tokens
  <1>5. /\ ea \in Fila /\ ea.tipo = "access" /\ ~ea.revocado /\ ea.familia = f /\ ea.padre = k
        /\ er \in Fila /\ er.tipo = "refresh" /\ ~er.revocado /\ er.familia = f /\ er.padre = k
    BY <1>3 DEF Emitido, Fila
  <1>6. /\ E \in [Tokens -> Fila]
        /\ \A t \in Tokens : /\ E[t].tipo = fila[t].tipo /\ E[t].padre = fila[t].padre
                             /\ E[t].familia = fila[t].familia
                             /\ t \in tx[p].escribe => E[t].revocado
                             /\ t \notin tx[p].escribe => E[t] = fila[t]
    BY EscritasEs DEF Inv
  <1>7. \A t \in tx[p].escribe : Vivo(t)
    BY DEF Inv, CerrojosBien
  <1> HIDE DEF ea, er, E
  <1>8. /\ F \in [Tokens -> Fila] /\ F[k].familia = f /\ F[k].tipo = fila[k].tipo
        /\ F[k].padre = fila[k].padre /\ F[k].revocado = E[k].revocado
        /\ \A t \in Tokens \ {k} : F[t] = E[t]
    BY <1>3, <1>6 DEF Fila
  <1> HIDE DEF F
  <1>9. /\ fila' \in [Tokens -> Fila] /\ fila'[a] = ea /\ fila'[r] = er /\ fila'[k] = F[k]
        /\ \A t \in Tokens \ {a, r, k} : fila'[t] = E[t]
    <2> DEFINE G == [F EXCEPT ![a] = ea]
    <2>1. /\ G \in [Tokens -> Fila] /\ G[a] = ea
          /\ \A t \in Tokens \ {a} : G[t] = F[t]
      BY <1>4, <1>5, <1>8
    <2>2. fila' = [G EXCEPT ![r] = er]
      BY <1>2
    <2> HIDE DEF G
    <2>3. /\ fila' \in [Tokens -> Fila] /\ fila'[r] = er
          /\ \A t \in Tokens \ {r} : fila'[t] = G[t]
      BY <1>4, <1>5, <2>1, <2>2
    <2> QED
      BY <1>3, <1>4, <1>8, <2>1, <2>3
  <1>10. fila'[k].revocado
    BY <1>1, <1>3, <1>6, <1>8, <1>9 DEF Gana
  <1>11. Emitida(a, p) /\ Emitida(r, p)
    BY <1>4, <1>5, <1>9 DEF Emitida
  <1>12. Conserva(k)
    BY <1>3, <1>8, <1>9, <1>10 DEF Conserva, Vivo
  <1>13. ASSUME NEW t \in Tokens \ {a, r, k}
         PROVE  Conserva(t) \/ (~Existe(t) /\ fila'[t] = fila[t])
    <2>1. CASE t \in tx[p].escribe
      BY <1>6, <1>7, <1>9, <2>1 DEF Conserva, Vivo
    <2>2. CASE t \notin tx[p].escribe
      BY <1>6, <1>9, <2>2 DEF Conserva, Vivo
    <2> QED
      BY <2>1, <2>2
  <1>14. ASSUME NEW t \in Tokens, Vivo(t), fila'[t].revocado PROVE t \in tx[p].escribe
    BY <1>1, <1>4, <1>6, <1>9, <1>14 DEF Vivo, Gana
  <1>15. ASSUME NEW t \in Tokens, Emitida(t, p), fila'[t].tipo = "refresh" PROVE t = r
    <2>1. t # k
      BY <1>3, <1>15 DEF Emitida, Vivo
    <2>2. t # a
      BY <1>5, <1>9, <1>15
    <2>3. t \notin Tokens \ {a, r, k}
      BY <1>6, <1>9, <1>15 DEF Emitida, Existe
    <2> QED
      BY <2>1, <2>2, <2>3
  <1>16. /\ fila'[k].familia = f
         /\ \A t \in Tokens \ {k} : Existe(t) => fila'[t].familia = fila[t].familia
    BY <1>4, <1>6, <1>8, <1>9
  <1> QED
    BY <1>1, <1>4, <1>9, <1>10, <1>11, <1>12, <1>13, <1>14, <1>15, <1>16

(* The commit of a revocation revokes what it wrote, and nothing else.      *)
LEMMA ConfirmarEs ==
    ASSUME Inv, NEW p \in Procesos, fila' = ConEscrituras(p)
    PROVE  /\ fila' \in [Tokens -> Fila]
           /\ \A t \in Tokens : Conserva(t) \/ (~Existe(t) /\ fila'[t] = fila[t])
           /\ \A t \in Tokens : fila'[t].familia = fila[t].familia
           /\ \A t \in Tokens : (Vivo(t) /\ fila'[t].revocado) => t \in tx[p].escribe
           /\ \A t \in tx[p].escribe : fila'[t].revocado
  <1>1. \A t \in tx[p].escribe : Vivo(t)
    BY DEF Inv, CerrojosBien
  <1>2. tx[p].escribe \subseteq Tokens
    BY DEF Inv, TypeOK, Tx
  <1>3. ASSUME NEW t \in Tokens PROVE Conserva(t) \/ (~Existe(t) /\ fila'[t] = fila[t])
    <2>1. CASE t \in tx[p].escribe
      BY <1>1, <2>1, EscritasEs DEF Conserva, Vivo, Inv
    <2>2. CASE t \notin tx[p].escribe
      BY <2>2, EscritasEs DEF Conserva, Vivo, Inv
    <2> QED
      BY <2>1, <2>2
  <1> QED
    BY <1>2, <1>3, EscritasEs DEF Vivo, Inv

LEMMA LoginEs ==
    ASSUME Inv, Login
    PROVE  /\ fila' \in [Tokens -> Fila]
           /\ \A t \in Tokens : FilaBien(t)
           /\ \A t \in Tokens : (Vivo(t) /\ fila'[t].revocado) => FALSE
  <1> DEFINE c == [SinFila EXCEPT !.tipo = "code"]
  <1>1. PICK t \in Nuevos : fila' = [fila EXCEPT ![t] = c]
    BY DEF Login
  <1>2. t \in Tokens /\ ~Existe(t)
    BY DEF Nuevos
  <1>3. c \in Fila /\ c.tipo = "code" /\ ~c.revocado /\ c.familia = SinFamilia /\ c.padre = 0
    BY DEF SinFila, Fila
  <1> HIDE DEF c
  <1>4. /\ fila' \in [Tokens -> Fila] /\ Nacida(t)
        /\ \A u \in Tokens \ {t} : fila'[u] = fila[u]
    BY <1>1, <1>2, <1>3 DEF Inv, TypeOK, Nacida
  <1>5. \A u \in Tokens \ {t} : Conserva(u) \/ (~Existe(u) /\ fila'[u] = fila[u])
    BY <1>4 DEF Conserva
  <1> QED
    BY <1>2, <1>4, <1>5 DEF FilaBien, Vivo

LEMMA CaducarEs ==
    ASSUME Inv, NEW k \in Tokens, Caducar(k)
    PROVE  /\ fila' \in [Tokens -> Fila]
           /\ \A t \in Tokens : FilaBien(t)
           /\ \A t \in Tokens : (Vivo(t) /\ fila'[t].revocado) => FALSE
  <1> DEFINE c == [fila[k] EXCEPT !.caducado = TRUE]
  <1>1. fila' = [fila EXCEPT ![k] = c] /\ fila[k].tipo \in {"code", "refresh"}
    BY DEF Caducar
  <1>2. fila[k] \in Fila
    BY DEF Inv, TypeOK
  <1>3. /\ c \in Fila /\ c.tipo = fila[k].tipo /\ c.revocado = fila[k].revocado
        /\ c.familia = fila[k].familia /\ c.padre = fila[k].padre
    BY <1>2 DEF Fila
  <1> HIDE DEF c
  <1>4. /\ fila' \in [Tokens -> Fila] /\ Conserva(k) /\ fila'[k].revocado = fila[k].revocado
        /\ \A u \in Tokens \ {k} : fila'[u] = fila[u]
    BY <1>1, <1>2, <1>3 DEF Inv, TypeOK, Conserva, Existe
  <1>5. \A u \in Tokens \ {k} : Conserva(u) \/ (~Existe(u) /\ fila'[u] = fila[u])
    BY <1>4 DEF Conserva
  <1> QED
    BY <1>4, <1>5 DEF FilaBien, Vivo

LEMMA FilaPaso ==
    ASSUME Inv, [Next]_vars
    PROVE  /\ fila' \in [Tokens -> Fila]
           /\ \A t \in Tokens : FilaBien(t)
           /\ \A t \in Tokens : (Vivo(t) /\ fila'[t].revocado) =>
                 \E p \in Procesos : Cierra(p) /\ ~Op(p, "nada") /\ t \in tx[p].escribe
  <1> DEFINE Bien == /\ fila' \in [Tokens -> Fila]
                     /\ \A t \in Tokens : FilaBien(t)
                     /\ \A t \in Tokens : (Vivo(t) /\ fila'[t].revocado) =>
                          \E p \in Procesos : Cierra(p) /\ ~Op(p, "nada") /\ t \in tx[p].escribe
  <1>1. CASE fila' = fila
    BY <1>1 DEF Inv, TypeOK, FilaBien, Conserva, Vivo
  <1>2. CASE Login
    BY <1>2, LoginEs
  <1>3. ASSUME NEW t \in Tokens, Caducar(t) PROVE Bien
    BY <1>3, CaducarEs
  <1>4. ASSUME NEW p \in Procesos, Emitir(p) PROVE Bien
    <2>1. \A t \in Tokens : FilaBien(t)
      BY <1>4, EmitirEs DEF FilaBien
    <2>2. ~Op(p, "nada")
      BY <1>4, EmitirEs DEF Op
    <2> QED
      BY <1>4, <2>1, <2>2, EmitirEs
  <1>5. ASSUME NEW p \in Procesos, ConfirmarFamilia(p) \/ ConfirmarUsuario(p) PROVE Bien
    <2>1. fila' = ConEscrituras(p) /\ Cierra(p) /\ ~Op(p, "nada")
      BY <1>5 DEF ConfirmarFamilia, ConfirmarUsuario, Op
    <2>2. \A t \in Tokens : FilaBien(t)
      BY <2>1, ConfirmarEs DEF FilaBien
    <2> QED
      BY <2>1, <2>2, ConfirmarEs
  <1> QED
    BY <1>1, <1>2, <1>3, <1>4, <1>5 DEF Next, Empieza, Sigue, Canjear, RevocarFamilia,
       RevocarDeUsuario, Cerrar, BuscarFamilias, Sentencia, BloquearFila, NoGana, Interbloqueo,
       Abortar, vars

LEMMA CerradasPaso ==
    ASSUME [Next]_vars
    PROVE  cerradas' = cerradas \/ \E p \in Procesos : ConfirmarFamilia(p)
  BY DEF Next, Empieza, Sigue, Canjear, RevocarFamilia, RevocarDeUsuario, Cerrar,
     BuscarFamilias, Sentencia, BloquearFila, Emitir, NoGana, ConfirmarUsuario, Interbloqueo,
     Abortar, Login, Caducar, vars

LEMMA TipoPaso == Inv /\ [Next]_vars => TypeOK'
  <1> SUFFICES ASSUME Inv, [Next]_vars PROVE TypeOK'
    OBVIOUS
  <1>1. fila' \in [Tokens -> Fila]
    BY FilaPaso
  <1>2. tx' \in [Procesos -> Tx]
    <2>1. ASSUME NEW p \in Procesos, Empieza(p) PROVE tx' \in [Procesos -> Tx]
      BY <2>1, CanjearEs, RevocarFamiliaEs, RevocarDeUsuarioEs DEF Empieza, Suyo, Inv
    <2>2. ASSUME NEW p \in Procesos, Cierra(p) PROVE tx' \in [Procesos -> Tx]
      BY <2>2, CierraEs DEF Suyo, Inv
    <2>3. ASSUME NEW p \in Procesos, Cerrar(p) \/ BuscarFamilias(p) \/ Sentencia(p)
          PROVE  tx' \in [Procesos -> Tx]
      BY <2>3, CerrarEs, BuscarFamiliasEs, SentenciaEs DEF Suyo, Inv
    <2>4. ASSUME NEW p \in Procesos, NoGana(p) \/ \E t \in Tokens : BloquearFila(p, t)
          PROVE  tx' \in [Procesos -> Tx]
      BY <2>2, <2>4, NoGanaEs, BloquearFilaEs DEF Suyo, Inv
    <2>5. tx' = tx \/ \E p \in Procesos :
             \/ Empieza(p) \/ Cierra(p) \/ Cerrar(p) \/ BuscarFamilias(p) \/ Sentencia(p)
             \/ NoGana(p) \/ \E t \in Tokens : BloquearFila(p, t)
      BY DEF Next, Sigue, Emitir, ConfirmarFamilia, ConfirmarUsuario, Interbloqueo, Abortar,
         Login, Caducar, vars
    <2> QED
      BY <2>1, <2>2, <2>3, <2>4, <2>5 DEF Inv, TypeOK
  <1>3. cerradas' \subseteq Familias
    <2>1. ASSUME NEW p \in Procesos, ConfirmarFamilia(p) PROVE cerradas' \subseteq Familias
      <3>1. tx[p].familia \in Familias
        BY <2>1 DEF Inv, TypeOK, Tx, TxBien, Encaja, Familiar, ConfirmarFamilia, Op
      <3> QED
        BY <2>1, <3>1 DEF ConfirmarFamilia, Inv, TypeOK
    <2> QED
      BY <2>1, CerradasPaso DEF Inv, TypeOK
  <1>4. revocados' \subseteq Tokens
    <2>1. ASSUME NEW p \in Procesos, ConfirmarUsuario(p) PROVE revocados' \subseteq Tokens
      <3>1. tx[p].vistos \subseteq Tokens
        BY DEF Inv, TypeOK, Tx
      <3> QED
        BY <2>1, <3>1 DEF ConfirmarUsuario, Inv, TypeOK
    <2>2. revocados' = revocados \/ \E p \in Procesos : ConfirmarUsuario(p)
      BY DEF Next, Empieza, Sigue, Canjear, RevocarFamilia, RevocarDeUsuario, Cerrar,
         BuscarFamilias, Sentencia, BloquearFila, Emitir, NoGana, ConfirmarFamilia,
         Interbloqueo, Abortar, Login, Caducar, vars
    <2> QED
      BY <2>1, <2>2 DEF Inv, TypeOK
  <1>5. abiertas' \in 0 .. MaxTx /\ abortos' \in 0 .. MaxAbortos
    <2>1. /\ abiertas' = abiertas \/ (abiertas < MaxTx /\ abiertas' = abiertas + 1)
          /\ abortos' = abortos \/ (abortos < MaxAbortos /\ abortos' = abortos + 1)
      BY DEF Next, Empieza, Sigue, Canjear, RevocarFamilia, RevocarDeUsuario, Abre, Cerrar,
         BuscarFamilias, Sentencia, BloquearFila, Emitir, NoGana, ConfirmarFamilia,
         ConfirmarUsuario, Interbloqueo, Abortar, Login, Caducar, vars
    <2> QED
      BY <2>1, McpOAuthAssumption DEF Inv, TypeOK
  <1> QED
    BY <1>1, <1>2, <1>3, <1>4, <1>5 DEF TypeOK

-----------------------------------------------------------------------------
(* Rows.  What is there stays there, and what is revoked stays revoked. *)
LEMMA Persiste ==
    ASSUME Inv, [Next]_vars, NEW t \in Tokens, Existe(t)
    PROVE  /\ Conserva(t) /\ ExisteTras(t) /\ fila'[t].tipo = fila[t].tipo
           /\ fila[t].revocado => fila'[t].revocado
           /\ VivoTras(t) => Vivo(t) /\ fila'[t].familia = fila[t].familia
  <1>1. Conserva(t)
    BY FilaPaso DEF FilaBien, Nacida, Emitida
  <1> QED
    BY <1>1 DEF Conserva, Existe, Vivo, ExisteTras, VivoTras

LEMMA FilasPaso == Inv /\ [Next]_vars => FilasBien'
  <1> SUFFICES ASSUME Inv, [Next]_vars, NEW t \in Tokens
               PROVE  /\ ~ExisteTras(t) => fila'[t] = SinFila
                      /\ (ExisteTras(t) /\ fila'[t].padre # 0) => fila'[fila'[t].padre].revocado
                      /\ fila'[t].tipo \in {"access", "refresh"} => fila'[t].familia # SinFamilia
                      /\ (fila'[t].tipo = "code" /\ VivoTras(t)) => fila'[t].familia = SinFamilia
                      /\ fila'[t].familia # SinFamilia =>
                           ExisteTras(fila'[t].familia[1]) /\ fila'[fila'[t].familia[1]].revocado
    BY DEF FilasBien, ExisteTras, VivoTras, Vivo, Existe
  <1>1. fila[t] \in Fila
    BY DEF Inv, TypeOK
  <1>2. /\ ~Existe(t) => fila[t] = SinFila
        /\ (Existe(t) /\ fila[t].padre # 0) => fila[fila[t].padre].revocado
        /\ fila[t].tipo \in {"access", "refresh"} => fila[t].familia # SinFamilia
        /\ (fila[t].tipo = "code" /\ Vivo(t)) => fila[t].familia = SinFamilia
        /\ fila[t].familia # SinFamilia =>
             Existe(fila[t].familia[1]) /\ fila[fila[t].familia[1]].revocado
    BY DEF Inv, FilasBien
  <1>3. fila[t].familia # SinFamilia =>
          ExisteTras(fila[t].familia[1]) /\ fila'[fila[t].familia[1]].revocado
    BY <1>1, <1>2, Persiste, LlavesEs DEF Fila
  <1>4. CASE Conserva(t)
    <2>1. Existe(t) /\ ExisteTras(t) /\ fila'[t].tipo = fila[t].tipo /\ fila'[t].padre = fila[t].padre
          /\ (VivoTras(t) => Vivo(t) /\ fila'[t].familia = fila[t].familia)
      BY <1>4, Persiste DEF Conserva
    <2>2. fila[t].padre # 0 => fila'[fila[t].padre].revocado
      <3>1. ASSUME fila[t].padre # 0 PROVE fila'[fila[t].padre].revocado
        <4>1. fila[t].padre \in Tokens /\ fila[fila[t].padre].revocado
          BY <1>1, <1>2, <2>1, <3>1 DEF Fila
        <4>2. Existe(fila[t].padre)
          BY <4>1 DEF Inv, FilasBien, SinFila
        <4> QED
          BY <4>1, <4>2, Persiste
      <3> QED
        BY <3>1
    <2>3. \/ fila'[t].familia = fila[t].familia
          \/ /\ fila[t].tipo = "code" /\ fila'[t].revocado /\ fila'[t].familia[1] = t
      BY <1>4 DEF Conserva
    <2> QED
      BY <1>2, <1>3, <2>1, <2>2, <2>3 DEF VivoTras
  <1>5. CASE ~Existe(t) /\ fila'[t] = fila[t]
    <2>1. fila'[t] = SinFila
      BY <1>2, <1>5
    <2> QED
      BY <2>1 DEF ExisteTras, VivoTras, SinFila
  <1>6. CASE Nacida(t)
    BY <1>6 DEF Nacida, ExisteTras, VivoTras
  <1>7. ASSUME NEW p \in Procesos, Emitida(t, p)
        PROVE  /\ ExisteTras(t) /\ fila'[t].tipo # "code"
               /\ fila'[fila'[t].padre].revocado /\ fila'[t].familia # SinFamilia
               /\ ExisteTras(fila'[t].familia[1]) /\ fila'[fila'[t].familia[1]].revocado
    <2>1. fila'[t].familia = tx[p].familia /\ fila'[t].padre = tx[p].token
          /\ ExisteTras(t) /\ fila'[t].tipo # "code" /\ Emitir(p)
      BY <1>7 DEF Emitida, ExisteTras
    <2>2. fila'[tx[p].token].revocado /\ Op(p, "canje") /\ UpdateHecho(p) /\ Gana(p)
      BY <2>1, EmitirEs
    <2>3. /\ tx[p].token \in Tokens /\ Vivo(tx[p].token) /\ tx[p].familia \in Familias
          /\ \/ fila[tx[p].token].familia = tx[p].familia
             \/ tx[p].familia = <<tx[p].token, p>>
      BY <2>2, GanadorEs
    <2>4. CASE fila[tx[p].token].familia = tx[p].familia
      <3>1. Existe(tx[p].familia[1]) /\ fila[tx[p].familia[1]].revocado
            /\ tx[p].familia[1] \in Tokens /\ tx[p].familia # SinFamilia
        BY <2>3, <2>4, LlavesEs DEF Inv, FilasBien
      <3> QED
        BY <2>1, <2>2, <3>1, Persiste
    <2>5. CASE tx[p].familia = <<tx[p].token, p>>
      BY <2>1, <2>2, <2>3, <2>5, Persiste, LlavesEs DEF Vivo
    <2> QED
      BY <2>3, <2>4, <2>5
  <1> QED
    BY <1>4, <1>5, <1>6, <1>7, FilaPaso DEF FilaBien

(* A token gets one refresh: when it gets it, it is alive, and never again. *)
LEMMA UnParPaso == Inv /\ [Next]_vars => UnPar'
  <1> SUFFICES ASSUME Inv, [Next]_vars, NEW u \in Tokens, NEW v \in Tokens,
                      fila'[u].tipo = "refresh", fila'[v].tipo = "refresh",
                      fila'[u].padre = fila'[v].padre, fila'[u].padre # 0
               PROVE  u = v
    BY DEF UnPar
  <1> DEFINE k == fila'[u].padre
  <1>1. ASSUME NEW t \in Tokens, fila'[t].tipo = "refresh"
        PROVE  \/ Existe(t) /\ fila[t].tipo = "refresh" /\ fila[t].padre = fila'[t].padre
               \/ \E p \in Procesos : Emitida(t, p)
    <2>1. FilaBien(t)
      BY FilaPaso
    <2> QED
      BY <1>1, <2>1 DEF FilaBien, Conserva, Nacida, Existe
  <1>2. ASSUME NEW t \in Tokens, Existe(t), fila[t].padre = k, NEW p \in Procesos, Emitir(p),
               tx[p].token = k
        PROVE  FALSE
    <2>1. Vivo(k)
      BY <1>2, EmitirEs, GanadorEs
    <2>2. fila[k].revocado
      BY <1>2 DEF Inv, FilasBien
    <2> QED
      BY <2>1, <2>2 DEF Vivo
  <1>3. ASSUME NEW p \in Procesos, NEW q \in Procesos, Emitir(p), Emitir(q) PROVE p = q
    <2>1. tx[p].op = "canje" /\ tx'[q].op = "nada" /\ Otras(p) /\ tx[q].op = "canje"
      BY <1>3, EmitirEs, CierraEs DEF Op, Inv, Suyo
    <2> QED
      BY <2>1 DEF Otras
  <1>4. CASE Existe(u) /\ fila[u].padre = fila'[u].padre /\ fila[u].tipo = "refresh"
    <2>1. ~ \E p \in Procesos : Emitida(v, p)
      BY <1>2, <1>4 DEF Emitida
    <2> QED
      BY <1>1, <1>4, <2>1 DEF Inv, UnPar
  <1>5. ASSUME NEW p \in Procesos, Emitida(u, p) PROVE u = v
    <2>1. Emitir(p) /\ tx[p].token = k
      BY <1>5 DEF Emitida
    <2>2. PICK q \in Procesos : Emitida(v, q)
      BY <1>1, <1>2, <2>1
    <2>3. q = p
      BY <1>3, <2>1, <2>2 DEF Emitida
    <2> QED
      BY <1>5, <2>1, <2>2, <2>3, EmitirEs
  <1> QED
    BY <1>1, <1>4, <1>5

(* Locks.  A step of a transaction takes one that is free, or lets go. *)
LEMMA CerrojosUno ==
    ASSUME Inv, [Next]_vars, NEW q \in Procesos
    PROVE  \/ tx'[q] = tx[q]
           \/ /\ Otras(q)
              /\ \/ tx'[q].tiene \subseteq tx[q].tiene
                 \/ \E c : CerrojoLibre(q, c) /\ tx'[q].tiene = tx[q].tiene \union {c}
              /\ \/ tx'[q].toma \subseteq tx[q].toma
                 \/ \E t : FilaLibre(q, t) /\ tx'[q].toma = tx[q].toma \union {t}
              /\ tx'[q].escribe \subseteq tx'[q].toma
              /\ tx'[q].escribe # {} => fila' = fila
              /\ \A t \in tx'[q].escribe : Vivo(t)
  <1> DEFINE Bien ==
         /\ Otras(q)
         /\ \/ tx'[q].tiene \subseteq tx[q].tiene
            \/ \E c : CerrojoLibre(q, c) /\ tx'[q].tiene = tx[q].tiene \union {c}
         /\ \/ tx'[q].toma \subseteq tx[q].toma
            \/ \E t : FilaLibre(q, t) /\ tx'[q].toma = tx[q].toma \union {t}
         /\ tx'[q].escribe \subseteq tx'[q].toma
         /\ tx'[q].escribe # {} => fila' = fila
         /\ \A t \in tx'[q].escribe : Vivo(t)
  <1>1. CASE Empieza(q)
    BY <1>1, CanjearEs, RevocarFamiliaEs, RevocarDeUsuarioEs DEF Empieza, Suyo, Inv
  <1>2. CASE Cierra(q)
    BY <1>2, CierraEs DEF Suyo, Inv
  <1>3. tx[q].escribe \subseteq tx[q].toma /\ \A t \in tx[q].escribe : Vivo(t)
    BY DEF Inv, CerrojosBien
  <1>4. CASE Cerrar(q)
    BY <1>3, <1>4, CerrarEs DEF Suyo, MismasFilas, Inv, Cerrar
  <1>5. CASE BuscarFamilias(q) \/ Sentencia(q)
    BY <1>3, <1>5, BuscarFamiliasEs, SentenciaEs DEF Suyo, MismasFilas, Inv, BuscarFamilias,
       Sentencia
  <1>6. CASE NoGana(q)
    BY <1>2, <1>3, <1>6, NoGanaEs DEF Suyo, MismasFilas, Inv, NoGana
  <1>7. ASSUME NEW t \in Tokens, BloquearFila(q, t) PROVE Bien
    <2>1. t \in Alcance(q) => Vivo(t)
      <3>1. ~Op(q, "nada")
        BY <1>7 DEF BloquearFila, Fase, Op
      <3> QED
        BY <3>1, EnCurso, AlcanceEs DEF VeVivo, Inv
    <2>2. fila' = fila
      BY <1>7 DEF BloquearFila
    <2>3. /\ Otras(q) /\ tx'[q].tiene = tx[q].tiene /\ FilaLibre(q, t)
          /\ tx'[q].toma = tx[q].toma \union {t}
          /\ tx'[q].escribe = IF t \in Alcance(q) THEN tx[q].escribe \union {t}
                              ELSE tx[q].escribe
      BY <1>7, BloquearFilaEs DEF Suyo, Inv
    <2>4. /\ tx'[q].escribe \subseteq tx'[q].toma
          /\ \A u \in tx'[q].escribe : Vivo(u)
      BY <1>3, <2>1, <2>3
    <2> QED
      BY <2>2, <2>3, <2>4
  <1>8. tx'[q] = tx[q] \/ Empieza(q) \/ Sigue(q) \/ Abortar(q)
    BY SoloLoSuyo DEF Inv
  <1> QED
    BY <1>1, <1>2, <1>4, <1>5, <1>6, <1>7, <1>8 DEF Sigue, Abortar, Emitir, ConfirmarFamilia,
       ConfirmarUsuario, Interbloqueo

LEMMA CerrojosPaso == Inv /\ [Next]_vars => CerrojosBien'
  <1> SUFFICES ASSUME Inv, [Next]_vars PROVE CerrojosBien'
    OBVIOUS
  <1>1. ASSUME NEW p \in Procesos, NEW q \in Procesos \ {p}, tx'[q] = tx[q]
        PROVE  /\ tx'[p].tiene \intersect tx'[q].tiene = {}
               /\ tx'[p].toma \intersect tx'[q].toma = {}
    <2>1. /\ tx[p].tiene \intersect tx[q].tiene = {}
          /\ tx[p].toma \intersect tx[q].toma = {}
      BY DEF Inv, CerrojosBien
    <2>2. CASE tx'[p] = tx[p]
      BY <1>1, <2>1, <2>2
    <2>3. CASE tx'[p] # tx[p]
      <3>1. tx'[p].tiene \intersect tx[q].tiene = {}
        BY <2>1, <2>3, CerrojosUno DEF CerrojoLibre
      <3>2. tx'[p].toma \intersect tx[q].toma = {}
        BY <2>1, <2>3, CerrojosUno DEF FilaLibre
      <3> QED
        BY <1>1, <3>1, <3>2
    <2> QED
      BY <2>2, <2>3
  <1>2. ASSUME NEW p \in Procesos, NEW q \in Procesos \ {p}
        PROVE  /\ tx'[p].tiene \intersect tx'[q].tiene = {}
               /\ tx'[p].toma \intersect tx'[q].toma = {}
    <2>1. tx'[q] = tx[q] \/ tx'[p] = tx[p]
      BY CerrojosUno DEF Otras
    <2>2. CASE tx'[q] = tx[q]
      BY <1>1, <2>2
    <2>3. CASE tx'[p] = tx[p]
      <3>1. /\ tx'[q].tiene \intersect tx'[p].tiene = {}
            /\ tx'[q].toma \intersect tx'[p].toma = {}
        BY <1>1, <2>3
      <3> QED
        BY <3>1
    <2> QED
      BY <2>1, <2>2, <2>3
  <1>3. ASSUME NEW p \in Procesos
        PROVE  /\ tx'[p].escribe \subseteq tx'[p].toma
               /\ \A t \in tx'[p].escribe : VivoTras(t)
    <2>1. CASE tx'[p] = tx[p]
      <3>1. tx[p].escribe \subseteq tx[p].toma /\ tx[p].escribe \subseteq Tokens
            /\ \A t \in tx[p].escribe : Vivo(t)
        BY DEF Inv, CerrojosBien, TypeOK, Tx
      <3>2. ASSUME NEW t \in tx[p].escribe PROVE VivoTras(t)
        <4>1. ASSUME fila'[t].revocado PROVE FALSE
          <5>1. PICK q \in Procesos : Cierra(q) /\ ~Op(q, "nada") /\ t \in tx[q].escribe
            BY <3>1, <4>1, FilaPaso
          <5>2. q # p
            BY <2>1, <3>2, <5>1, CierraEs DEF Inv
          <5>3. t \in tx[q].toma /\ t \in tx[p].toma
            BY <3>1, <5>1 DEF Inv, CerrojosBien
          <5> QED
            BY <5>2, <5>3 DEF Inv, CerrojosBien
        <4> QED
          BY <3>1, <4>1, Persiste DEF Vivo, VivoTras
      <3> QED
        BY <2>1, <3>1, <3>2
    <2>2. CASE tx'[p] # tx[p]
      <3>1. /\ tx'[p].escribe \subseteq tx'[p].toma
            /\ tx'[p].escribe # {} => fila' = fila
            /\ \A t \in tx'[p].escribe : Vivo(t)
        BY <2>2, CerrojosUno
      <3> QED
        BY <3>1 DEF VivoTras, Vivo, Existe, ExisteTras
    <2> QED
      BY <2>1, <2>2
  <1> QED
    BY <1>2, <1>3 DEF CerrojosBien, VivoTras, ExisteTras, Vivo, Existe

(* Transactions.  The one that has not moved still fits the rows. *)
LEMMA EncajaQuieta ==
    ASSUME Inv, [Next]_vars, NEW p \in Procesos, tx'[p] = tx[p]
    PROVE  Encaja(p)'
  <1>1. Encaja(p) /\ tx[p] \in Tx
    BY DEF Inv, TypeOK, TxBien
  <1>2. ASSUME Op(p, "canje")
        PROVE  /\ ExisteTras(tx[p].token) /\ fila'[tx[p].token].tipo # "access"
               /\ VivoTras(tx[p].token) =>
                    \/ fila'[tx[p].token].familia = tx[p].familia
                    \/ /\ fila'[tx[p].token].tipo = "code"
                       /\ tx[p].familia = <<tx[p].token, p>>
    <2> DEFINE k == tx[p].token
    <2>1. /\ k \in Tokens /\ Existe(k) /\ fila[k].tipo # "access"
          /\ Vivo(k) => \/ fila[k].familia = tx[p].familia
                        \/ fila[k].tipo = "code" /\ tx[p].familia = <<k, p>>
      BY <1>1, <1>2 DEF Encaja, Tx
    <2> QED
      BY <2>1, Persiste
  <1>3. ASSUME Op(p, "familia")
        PROVE  ExisteTras(tx[p].familia[1]) /\ fila'[tx[p].familia[1]].revocado
    <2>1. tx[p].familia[1] \in Tokens
      BY <1>1, <1>3, LlavesEs DEF Encaja, Tx, Familiar, Op
    <2> QED
      BY <1>1, <1>3, <2>1, Persiste DEF Encaja
  <1> QED
    BY <1>1, <1>2, <1>3 DEF Encaja, Fase, Op, Familiar, Existe, ExisteTras, Vivo, VivoTras

LEMMA EncajaSinTx ==
    ASSUME NEW p \in Procesos, tx'[p].op = "nada"
    PROVE  Encaja(p)'
  BY DEF Encaja, Fase, Op, Familiar

LEMMA EncajaEmpieza ==
    ASSUME Inv, NEW p \in Procesos, Empieza(p)
    PROVE  Encaja(p)'
  <1>1. ASSUME NEW t \in Tokens, Canjear(p, t) PROVE Encaja(p)'
    <2>1. /\ fila' = fila /\ fila[t].tipo \in {"code", "refresh"}
          /\ tx'[p].op = "canje" /\ tx'[p].fase = "cerrar" /\ tx'[p].token = t
          /\ tx'[p].familia \in Familias /\ tx'[p].pide = {tx'[p].familia}
          /\ \/ fila[t].familia = tx'[p].familia
             \/ fila[t].tipo = "code" /\ tx'[p].familia = <<t, p>>
      BY <1>1, CanjearEs DEF Inv
    <2> QED
      BY <2>1, LlavesEs DEF Encaja, Fase, Op, Familiar, Existe, Vivo
  <1>2. ASSUME NEW t \in Tokens, RevocarFamilia(p, t) PROVE Encaja(p)'
    <2>1. /\ fila' = fila /\ tx'[p].op = "familia" /\ tx'[p].fase = "cerrar"
          /\ tx'[p].familia = fila[t].familia /\ fila[t].familia \in Familias
          /\ tx'[p].pide = {tx'[p].familia}
      BY <1>2, RevocarFamiliaEs DEF Inv
    <2>2. Existe(fila[t].familia[1]) /\ fila[fila[t].familia[1]].revocado
      BY <2>1, LlavesEs DEF Inv, FilasBien
    <2> QED
      BY <2>1, <2>2, LlavesEs DEF Encaja, Fase, Op, Familiar, Existe
  <1>3. CASE RevocarDeUsuario(p)
    <2>1. /\ tx'[p].op = "usuario" /\ tx'[p].fase = "cerrar" /\ tx'[p].pide = {Usuario}
          /\ tx'[p].pasada = 0
      BY <1>3, RevocarDeUsuarioEs DEF Inv
    <2>2. 0 < MaxPasadas
      BY McpOAuthAssumption
    <2> QED
      BY <2>1, <2>2 DEF Encaja, Fase, Op, Familiar
  <1> QED
    BY <1>1, <1>2, <1>3 DEF Empieza

LEMMA EncajaCerrar ==
    ASSUME Inv, NEW p \in Procesos, Cerrar(p)
    PROVE  Encaja(p)'
  <1>1. Encaja(p) /\ tx[p] \in Tx /\ fila' = fila
    BY DEF Inv, TypeOK, TxBien, Cerrar
  <1>2. /\ Misma(p) /\ tx[p].op # "nada" /\ tx[p].fase = "cerrar" /\ tx'[p].pasada = tx[p].pasada
    BY CerrarEs DEF Inv, Fase
  <1>3. PICK c \in tx[p].pide :
           /\ tx'[p].tiene = tx[p].tiene \union {c} /\ tx'[p].pide = tx[p].pide \ {c}
           /\ tx'[p].fase = IF c = Usuario THEN "familias"
                            ELSE IF tx[p].pide = {c} THEN "sentencia" ELSE "cerrar"
    BY CerrarEs DEF Inv
  <1>4. CASE Familiar(p)
    <2>1. tx[p].pide = {tx[p].familia} /\ tx[p].familia \in Familias /\ c = tx[p].familia
      BY <1>1, <1>2, <1>3, <1>4 DEF Encaja, Tx
    <2>2. tx'[p].fase = "sentencia" /\ tx'[p].pide = {} /\ tx'[p].familia \in tx'[p].tiene
      BY <1>2, <1>3, <2>1, LlavesEs DEF Misma
    <2> QED
      BY <1>1, <1>2, <1>4, <2>2 DEF Encaja, Misma, Fase, Op, Familiar, Existe, Vivo
  <1>5. CASE Op(p, "usuario")
    <2>1. c = Usuario => tx[p].pasada = 0
      BY <1>1, <1>2, <1>3, <1>5 DEF Encaja
    <2>2. tx[p].pasada < MaxPasadas
      BY <1>1, <1>2, <1>5 DEF Encaja
    <2>3. tx[p].pide # {c} => tx'[p].pide # {}
      BY <1>3
    <2>4. tx[p].pide = {c} => tx'[p].pide = {}
      BY <1>3
    <2>5. Usuario \in tx'[p].pide => tx[p].pasada = 0
      BY <1>1, <1>2, <1>3, <1>5 DEF Encaja
    <2>6. \/ tx'[p].fase = "familias" /\ tx[p].pasada = 0
          \/ tx'[p].fase = "sentencia" /\ tx'[p].pide = {}
          \/ tx'[p].fase = "cerrar" /\ tx'[p].pide # {}
      BY <1>3, <2>1, <2>3, <2>4
    <2>7. tx'[p].op = "usuario"
      BY <1>2, <1>5 DEF Misma, Op
    <2> QED
      BY <1>2, <2>2, <2>5, <2>6, <2>7 DEF Encaja, Fase, Op, Familiar
  <1> QED
    BY <1>1, <1>2, <1>4, <1>5 DEF Familiar, Op, Tx

LEMMA EncajaBuscar ==
    ASSUME Inv, NEW p \in Procesos, BuscarFamilias(p)
    PROVE  Encaja(p)'
  <1>1. /\ tx'[p].op = "usuario" /\ Op(p, "usuario") /\ tx'[p].pasada = tx[p].pasada
        /\ Faltan(p) \subseteq Familias
        /\ \/ tx'[p].fase = "fin"
           \/ /\ ~Acabada(p, Faltan(p)) /\ tx'[p].pide = Faltan(p)
              /\ tx'[p].fase = IF Faltan(p) = {} THEN "sentencia" ELSE "cerrar"
    BY BuscarFamiliasEs DEF Inv, Misma, Op
  <1>2. CASE tx'[p].fase = "fin"
    BY <1>1, <1>2 DEF Encaja, Fase, Op, Familiar
  <1>3. CASE ~Acabada(p, Faltan(p)) /\ tx'[p].pide = Faltan(p)
             /\ tx'[p].fase = IF Faltan(p) = {} THEN "sentencia" ELSE "cerrar"
    <2>1. Usuario \notin tx'[p].pide
      BY <1>1, <1>3, LlavesEs
    <2>2. tx[p].pasada \in 0 .. MaxPasadas /\ MaxPasadas \in Nat /\ tx[p].pasada # MaxPasadas
      BY <1>3, McpOAuthAssumption DEF Inv, TypeOK, Tx, Acabada
    <2>3. tx'[p].pasada < MaxPasadas
      BY <1>1, <2>2
    <2> QED
      BY <1>1, <1>3, <2>1, <2>3 DEF Encaja, Fase, Op, Familiar
  <1> QED
    BY <1>1, <1>2, <1>3

LEMMA EncajaSentencia ==
    ASSUME Inv, NEW p \in Procesos, Sentencia(p)
    PROVE  Encaja(p)'
  <1>1. Encaja(p) /\ tx[p] \in Tx /\ fila' = fila
    BY DEF Inv, TypeOK, TxBien, Sentencia
  <1>2. /\ Misma(p) /\ tx[p].op # "nada" /\ tx[p].fase = "sentencia"
        /\ tx'[p].tiene = tx[p].tiene /\ tx'[p].fase = "filas"
        /\ Op(p, "usuario") => tx'[p].pasada = tx[p].pasada + 1
    BY SentenciaEs DEF Inv, Fase
  <1>3. Op(p, "usuario") => tx'[p].pasada >= 1
    BY <1>1, <1>2 DEF Tx
  <1> QED
    BY <1>1, <1>2, <1>3 DEF Encaja, Misma, Fase, Op, Familiar, Existe, Vivo

LEMMA EncajaBloquear ==
    ASSUME Inv, NEW p \in Procesos, NEW t \in Tokens, BloquearFila(p, t)
    PROVE  Encaja(p)'
  <1>1. Encaja(p) /\ fila' = fila
    BY DEF Inv, TxBien, BloquearFila
  <1>2. /\ Misma(p) /\ tx'[p].tiene = tx[p].tiene /\ tx'[p].pide = tx[p].pide
        /\ tx'[p].fase = tx[p].fase /\ tx'[p].pasada = tx[p].pasada
    BY BloquearFilaEs DEF Inv
  <1> QED
    BY <1>1, <1>2 DEF Encaja, Misma, Fase, Op, Familiar, Existe, Vivo

LEMMA EncajaNoGana ==
    ASSUME Inv, NEW p \in Procesos, NoGana(p)
    PROVE  Encaja(p)'
  <1>1. fila' = fila
    BY DEF NoGana
  <1>2. CASE Cierra(p)
    BY <1>2, CierraEs, EncajaSinTx DEF Inv
  <1>3. CASE ~Cierra(p)
    <2>1. PICK t \in Tokens : tx'[p].familia = fila[t].familia
      BY <1>3, NoGanaEs DEF Inv
    <2>2. /\ tx'[p].op = "familia" /\ tx'[p].familia \in Familias
          /\ \/ tx'[p].fase = "cerrar" /\ tx'[p].pide = {tx'[p].familia}
             \/ /\ tx'[p].fase = "sentencia" /\ tx'[p].pide = {}
                /\ tx'[p].familia \in tx'[p].tiene
      BY <1>3, NoGanaEs DEF Inv
    <2>3. Existe(fila[t].familia[1]) /\ fila[fila[t].familia[1]].revocado
      BY <2>1, <2>2, LlavesEs DEF Inv, FilasBien
    <2> QED
      BY <1>1, <2>1, <2>2, <2>3, LlavesEs DEF Encaja, Fase, Op, Familiar, Existe
  <1> QED
    BY <1>2, <1>3

LEMMA TxPaso == Inv /\ [Next]_vars => TxBien'
  <1> SUFFICES ASSUME Inv, [Next]_vars, NEW p \in Procesos PROVE Encaja(p)'
    BY DEF TxBien
  <1>1. CASE Cierra(p)
    BY <1>1, CierraEs, EncajaSinTx DEF Inv
  <1>2. CASE Sigue(p)
    BY <1>1, <1>2, EncajaCerrar, EncajaBuscar, EncajaSentencia, EncajaBloquear, EncajaNoGana
       DEF Sigue, Emitir, ConfirmarFamilia, ConfirmarUsuario, Interbloqueo
  <1> QED
    BY <1>1, <1>2, SoloLoSuyo, EncajaQuieta, EncajaEmpieza DEF Inv, Abortar

-----------------------------------------------------------------------------
(* A transaction is in its UPDATE because it has just begun it, or has      *)
(* locked one row more. *)
LEMMA EnFilas ==
    ASSUME Inv, [Next]_vars, NEW p \in Procesos, tx'[p] # tx[p], tx'[p].op # "nada",
           tx'[p].fase = "filas"
    PROVE  Sentencia(p) \/ \E t \in Tokens : BloquearFila(p, t)
  <1>1. ~Empieza(p)
    BY CanjearEs, RevocarFamiliaEs, RevocarDeUsuarioEs DEF Empieza, Inv
  <1>2. ~Cierra(p)
    BY CierraEs DEF Inv
  <1>3. ~Cerrar(p)
    BY CerrarEs DEF Inv
  <1>4. ~BuscarFamilias(p)
    BY BuscarFamiliasEs DEF Inv
  <1>5. ~NoGana(p)
    BY <1>2, NoGanaEs DEF Inv
  <1> QED
    BY <1>1, <1>2, <1>3, <1>4, <1>5, SoloLoSuyo DEF Inv, Sigue, Abortar, Emitir,
       ConfirmarFamilia, ConfirmarUsuario, Interbloqueo

(* Nobody adds to a family whose lock another transaction holds. *)
LEMMA FamiliaCercada ==
    ASSUME Inv, [Next]_vars, NEW p \in Procesos, tx'[p].op # "nada",
           NEW q \in Procesos, NEW t \in Tokens, Emitida(t, q)
    PROVE  /\ tx'[p] = tx[p] /\ p # q
           /\ tx[q].familia \notin tx[p].tiene
  <1>1. Emitir(q) /\ Cierra(q) /\ Op(q, "canje") /\ UpdateHecho(q) /\ Gana(q)
    BY EmitirEs DEF Emitida
  <1>2. tx'[q].op = "nada" /\ Otras(q)
    BY <1>1, CierraEs DEF Inv, Suyo
  <1>3. tx[q].familia \in tx[q].tiene
    BY <1>1, GanadorEs
  <1>4. p # q
    BY <1>2
  <1> QED
    BY <1>2, <1>3, <1>4 DEF Inv, CerrojosBien, Otras

LEMMA FamiliaPaso == Inv /\ [Next]_vars => FamiliaEntera'
  <1> SUFFICES ASSUME Inv, [Next]_vars, NEW p \in Procesos, tx'[p].op = "familia",
                      tx'[p].fase = "filas", NEW t \in Tokens, VivoTras(t),
                      fila'[t].familia = tx'[p].familia
               PROVE  t \in tx'[p].escribe \union tx'[p].pend
    BY DEF FamiliaEntera, VivoTras, ExisteTras, Vivo, Existe, Op
  <1>1. tx'[p].familia # SinFamilia
    BY TxPaso DEF TxBien, Encaja, Familiar
  <1>2. Vivo(t) /\ fila[t].familia = tx'[p].familia
    <2>1. CASE Existe(t)
      BY <2>1, Persiste
    <2>2. ~Nacida(t)
      BY <1>1 DEF Nacida
    <2>3. CASE ~Existe(t) /\ fila'[t] = fila[t]
      BY <2>3 DEF Existe, ExisteTras, VivoTras
    <2>4. ASSUME NEW q \in Procesos, Emitida(t, q) PROVE FALSE
      <3>1. tx'[p] = tx[p] /\ tx[q].familia \notin tx[p].tiene
        BY <2>4, FamiliaCercada
      <3>2. tx[p].familia \in tx[p].tiene
        BY <3>1 DEF Inv, TxBien, Encaja, Familiar
      <3> QED
        BY <2>4, <3>1, <3>2 DEF Emitida
    <2> QED
      BY <2>1, <2>2, <2>3, <2>4, FilaPaso DEF FilaBien, Conserva
  <1>3. CASE tx'[p] = tx[p]
    BY <1>2, <1>3 DEF Inv, FamiliaEntera, Op
  <1>4. CASE Sentencia(p)
    <2>1. /\ tx'[p].pend = Alcance(p) /\ Misma(p) /\ tx'[p].escribe = tx[p].escribe
      BY <1>4, SentenciaEs DEF Inv, MismasFilas
    <2>2. Op(p, "familia") /\ fila[t].familia = tx[p].familia
      BY <1>2, <2>1 DEF Misma, Op
    <2>3. VeVivo(p, t) => t \in Alcance(p)
      BY <2>2, AlcanceEs DEF Op
    <2> QED
      BY <1>2, <2>1, <2>3 DEF VeVivo
  <1>5. ASSUME NEW u \in Tokens, BloquearFila(p, u)
        PROVE  t \in tx'[p].escribe \union tx'[p].pend
    <2>1. /\ tx'[p].pend = tx[p].pend \ {u} /\ Misma(p) /\ tx[p].fase = "filas"
          /\ tx'[p].escribe = IF u \in Alcance(p) THEN tx[p].escribe \union {u}
                              ELSE tx[p].escribe
      BY <1>5, BloquearFilaEs DEF Inv, Fase
    <2>2. Op(p, "familia") /\ fila[t].familia = tx[p].familia
      BY <1>2, <2>1 DEF Misma, Op
    <2>3. VeVivo(p, t) => t \in Alcance(p)
      BY <2>2, AlcanceEs DEF Op
    <2>4. t \in tx[p].escribe \union tx[p].pend
      BY <1>2, <2>1, <2>2 DEF Inv, FamiliaEntera
    <2> QED
      BY <1>2, <2>1, <2>3, <2>4 DEF VeVivo
  <1> QED
    BY <1>3, <1>4, <1>5, EnFilas

LEMMA CerradasBienPaso == Inv /\ [Next]_vars => CerradasBien'
  <1> SUFFICES ASSUME Inv, [Next]_vars, NEW f \in cerradas'
               PROVE  ExisteTras(f[1]) /\ fila'[f[1]].revocado
    BY DEF CerradasBien, ExisteTras, Existe
  <1>1. f[1] \in Tokens /\ Existe(f[1]) /\ fila[f[1]].revocado
    <2>1. CASE f \in cerradas
      BY <2>1, LlavesEs DEF Inv, TypeOK, CerradasBien
    <2>2. ASSUME NEW p \in Procesos, ConfirmarFamilia(p), f = tx[p].familia
          PROVE  f[1] \in Tokens /\ Existe(f[1]) /\ fila[f[1]].revocado
      <3>1. Op(p, "familia") /\ tx[p] \in Tx
        BY <2>2 DEF ConfirmarFamilia, Inv, TypeOK
      <3>2. tx[p].familia \in Familias
        BY <3>1 DEF Inv, TxBien, Encaja, Familiar, Op, Tx
      <3> QED
        BY <2>2, <3>1, <3>2, LlavesEs DEF Inv, TxBien, Encaja
    <2> QED
      BY <2>1, <2>2, CerradasPaso DEF ConfirmarFamilia
  <1> QED
    BY <1>1, Persiste

LEMMA FamiliaCerradaPaso == Inv /\ [Next]_vars => FamiliaCerrada'
  <1> SUFFICES ASSUME Inv, [Next]_vars, NEW t \in Tokens, VivoTras(t)
               PROVE  fila'[t].familia \notin cerradas'
    BY DEF FamiliaCerrada, VivoTras, ExisteTras, Vivo, Existe
  <1>1. ASSUME NEW p \in Procesos, ConfirmarFamilia(p)
        PROVE  fila'[t].familia \notin cerradas'
    <2>1. /\ fila' = ConEscrituras(p) /\ cerradas' = cerradas \union {tx[p].familia}
          /\ Op(p, "familia") /\ UpdateHecho(p)
      BY <1>1 DEF ConfirmarFamilia
    <2>2. Vivo(t) /\ fila'[t].familia = fila[t].familia /\ t \notin tx[p].escribe
      <3>1. Existe(t)
        BY <2>1, ConfirmarEs DEF VivoTras, ExisteTras, Existe, Conserva
      <3> QED
        BY <2>1, <3>1, ConfirmarEs, Persiste DEF VivoTras
    <2>3. fila[t].familia # tx[p].familia
      BY <2>1, <2>2 DEF Inv, FamiliaEntera, UpdateHecho, Fase
    <2> QED
      BY <2>1, <2>2, <2>3 DEF Inv, FamiliaCerrada
  <1>2. CASE cerradas' = cerradas
    <2>1. CASE Existe(t)
      BY <1>2, <2>1, Persiste DEF Inv, FamiliaCerrada
    <2>2. CASE Nacida(t)
      BY <1>2, <2>2, LlavesEs DEF Nacida, Inv, TypeOK
    <2>3. CASE ~Existe(t) /\ fila'[t] = fila[t]
      BY <2>3 DEF Existe, ExisteTras, VivoTras
    <2>4. ASSUME NEW q \in Procesos, Emitida(t, q) PROVE tx[q].familia \notin cerradas
      <3>1. Op(q, "canje") /\ UpdateHecho(q) /\ Gana(q)
        BY <2>4, EmitirEs DEF Emitida
      <3>2. /\ tx[q].token \in Tokens /\ Vivo(tx[q].token)
            /\ \/ fila[tx[q].token].familia = tx[q].familia
               \/ tx[q].familia = <<tx[q].token, q>>
        BY <3>1, GanadorEs
      <3> QED
        BY <3>2 DEF Inv, FamiliaCerrada, CerradasBien, Vivo
    <2> QED
      BY <1>2, <2>1, <2>2, <2>3, <2>4, FilaPaso DEF FilaBien, Conserva, Emitida
  <1> QED
    BY <1>1, <1>2, CerradasPaso

LEMMA InvInicio == Init => Inv
  <1> SUFFICES ASSUME Init PROVE Inv
    OBVIOUS
  <1> USE DEF Init
  <1>1. SinFila \in Fila /\ SinFila.tipo = "nada" /\ SinFila.padre = 0
        /\ SinFila.familia = SinFamilia
    BY DEF SinFila, Fila
  <1>2. TypeOK
    BY <1>1, NingunaEs, McpOAuthAssumption DEF TypeOK
  <1>3. FilasBien /\ UnPar
    BY <1>1 DEF FilasBien, UnPar, Existe, Vivo
  <1>4. CerrojosBien /\ TxBien /\ FamiliaEntera
    BY NingunaEs DEF CerrojosBien, TxBien, Encaja, FamiliaEntera, Fase, Op, Familiar
  <1>5. CerradasBien /\ FamiliaCerrada
    BY DEF CerradasBien, FamiliaCerrada
  <1> QED
    BY <1>2, <1>3, <1>4, <1>5 DEF Inv

LEMMA InvPaso == Inv /\ [Next]_vars => Inv'
  BY TipoPaso, FilasPaso, UnParPaso, CerrojosPaso, TxPaso, FamiliaPaso, CerradasBienPaso,
     FamiliaCerradaPaso DEF Inv

-----------------------------------------------------------------------------
(* The invariant that the safety of a family rests on holds always.         *)
THEOREM InvSiempre == Spec => []Inv
  <1> QED
    BY InvInicio, InvPaso, PTL DEF Spec

(* Rows, open transactions and their locks have the types they declare:     *)
(* above all, no more passes are made than _MAX_PASADAS.                    *)
THEOREM Tipado == Spec => []TypeOK
  <1>1. Inv => TypeOK
    BY DEF Inv
  <1> QED
    BY <1>1, InvSiempre, PTL

(* A code or a refresh token is exchanged for one pair at most, whatever    *)
(* the requests that present it at once and those that fail half way.       *)
THEOREM UnSoloUso == Spec => []UsoUnico
  <1>1. Inv => UsoUnico
    <2> SUFFICES ASSUME Inv, NEW t \in Tokens
                 PROVE  Cardinality({ u \in Tokens : /\ fila[u].tipo = "refresh"
                                                     /\ fila[u].padre = t }) <= 1
      BY DEF UsoUnico
    <2> DEFINE H == { u \in Tokens : fila[u].tipo = "refresh" /\ fila[u].padre = t }
    <2>1. \A u, v \in H : u = v
      BY LlavesEs DEF Inv, UnPar
    <2>2. H = {} \/ \E u \in H : H = {u}
      BY <2>1
    <2> HIDE DEF H
    <2>3. Cardinality(H) = 0 \/ Cardinality(H) = 1
      BY <2>2, FS_EmptySet, FS_Singleton
    <2>4. Cardinality(H) <= 1
      BY <2>3
    <2> QED
      BY <2>4 DEF H
  <1> QED
    BY <1>1, InvSiempre, PTL

(* Of a family whose revocation or reuse was committed nothing is alive     *)
(* again: no exchange that ran at the same time leaves it a token.          *)
THEOREM FamiliaSigueCerrada == Spec => []FamiliaCerrada
  <1>1. Inv => FamiliaCerrada
    BY DEF Inv
  <1> QED
    BY <1>1, InvSiempre, PTL

-----------------------------------------------------------------------------
(* The order of the locks.  A row gets its family once, from the exchange   *)
(* that consumes it. *)
LEMMA FamiliaNueva ==
    ASSUME Inv, [Next]_vars, NEW t \in Tokens, Existe(t), fila'[t].familia # fila[t].familia
    PROVE  /\ fila[t].tipo = "code" /\ fila[t].familia = SinFamilia
           /\ \E q \in Procesos : Emitir(q) /\ fila'[t].familia = <<t, q>>
  <1> DEFINE Bien == /\ fila[t].tipo = "code" /\ fila[t].familia = SinFamilia
                     /\ \E q \in Procesos : Emitir(q) /\ fila'[t].familia = <<t, q>>
  <1>1. fila' # fila
    OBVIOUS
  <1>2. CASE Login
    BY <1>2, LoginEs DEF FilaBien, Conserva, Nacida, Emitida
  <1>3. ASSUME NEW k \in Tokens, Caducar(k) PROVE Bien
    BY <1>3, CaducarEs DEF FilaBien, Conserva, Nacida, Emitida
  <1>4. ASSUME NEW p \in Procesos, Emitir(p) PROVE Bien
    <2>1. t = tx[p].token /\ fila'[t].familia = tx[p].familia
      BY <1>4, EmitirEs
    <2>2. fila[t].tipo = "code" /\ tx[p].familia = <<t, p>> /\ Vivo(t)
      BY <1>4, <2>1, EmitirEs, GanadorEs
    <2> QED
      BY <1>4, <2>1, <2>2 DEF Inv, FilasBien
  <1>5. ASSUME NEW p \in Procesos, ConfirmarFamilia(p) \/ ConfirmarUsuario(p) PROVE Bien
    BY <1>5, ConfirmarEs DEF ConfirmarFamilia, ConfirmarUsuario
  <1> QED
    BY <1>1, <1>2, <1>3, <1>4, <1>5 DEF Next, Empieza, Sigue, Canjear, RevocarFamilia,
       RevocarDeUsuario, Cerrar, BuscarFamilias, Sentencia, BloquearFila, NoGana, Interbloqueo,
       Abortar, vars

LEMMA HechaQueda ==
    ASSUME Inv, [Next]_vars, NEW f \in Familias
    PROVE  /\ Hecha(f) => Hecha(f)'
           /\ fila[f[1]].familia # SinFamilia => fila'[f[1]].familia = fila[f[1]].familia
  <1>1. f[1] \in Tokens /\ f # SinFamilia
    BY LlavesEs
  <1>2. ASSUME fila[f[1]].familia # SinFamilia PROVE fila'[f[1]].familia = fila[f[1]].familia
    <2>1. Existe(f[1])
      BY <1>1, <1>2 DEF Inv, FilasBien, SinFila
    <2> QED
      BY <1>1, <1>2, <2>1, FamiliaNueva
  <1> QED
    BY <1>1, <1>2 DEF Hecha

LEMMA FamiliasPaso ==
    ASSUME InvOrden, [Next]_vars
    PROVE  FamiliasBien'
  <1> SUFFICES ASSUME NEW t \in Tokens, fila'[t].familia # SinFamilia
               PROVE  fila'[fila'[t].familia[1]].familia = fila'[t].familia
    BY DEF FamiliasBien, Hecha
  <1> DEFINE f == fila'[t].familia
  <1>1. f \in Familias
    BY FilaPaso DEF Fila, InvOrden
  <1>2. CASE Existe(t) /\ f # fila[t].familia
    <2>1. PICK q \in Procesos : f = <<t, q>>
      BY <1>2, FamiliaNueva DEF InvOrden
    <2> QED
      BY <2>1
  <1>3. CASE f = fila[t].familia
    <2>1. Hecha(f)
      BY <1>3 DEF InvOrden, FamiliasBien
    <2> QED
      BY <1>1, <2>1, HechaQueda DEF InvOrden, Hecha
  <1>4. CASE ~Existe(t) /\ f # fila[t].familia
    <2>1. PICK q \in Procesos : Emitida(t, q)
      BY <1>4, FilaPaso DEF FilaBien, Conserva, Nacida, InvOrden
    <2>2. /\ Emitir(q) /\ f = tx[q].familia
          /\ fila'[tx[q].token].familia = tx[q].familia
          /\ Op(q, "canje") /\ UpdateHecho(q) /\ Gana(q)
      BY <2>1, EmitirEs DEF Emitida, InvOrden
    <2> DEFINE k == tx[q].token
    <2>3. /\ k \in Tokens
          /\ fila[k].familia = f \/ f = <<k, q>>
      BY <2>2, GanadorEs DEF InvOrden
    <2>4. CASE fila[k].familia = f
      <3>1. Hecha(f)
        BY <2>3, <2>4 DEF InvOrden, FamiliasBien
      <3> QED
        BY <1>1, <3>1, HechaQueda DEF InvOrden, Hecha
    <2>5. CASE f = <<k, q>>
      BY <2>2, <2>5
    <2> QED
      BY <2>3, <2>4, <2>5
  <1> QED
    BY <1>2, <1>3, <1>4

(* What the steps of others leave of the order of a transaction: all of it. *)
LEMMA OrdenQuieta ==
    ASSUME InvOrden, [Next]_vars, NEW p \in Procesos, tx'[p] = tx[p]
    PROVE  Ordena(p)'
  <1> SUFFICES ASSUME Familiar(p) PROVE Ordena(p)'
    BY DEF Ordena, Familiar
  <1>0. /\ tx[p] \in Tx /\ tx[p].familia \in Familias /\ Inv /\ Ordena(p)
        /\ Op(p, "canje") => tx[p].token \in Tokens /\ Existe(tx[p].token)
    BY DEF InvOrden, Inv, TypeOK, Tx, TxBien, Encaja, Familiar, OrdenBien
  <1> DEFINE o == tx[p].op
             F == tx[p].familia
             K == tx[p].token
  <1>1. tx[p].tiene \subseteq Familias /\ F # SinFamilia
    BY <1>0, LlavesEs DEF Ordena
  <1>2. \A f \in tx[p].tiene \union {F} : f[2] = p \/ Hecha(f)'
    BY <1>0, <1>1, HechaQueda DEF Ordena
  <1>3. \A f \in tx[p].tiene \ {F} : fila'[f[1]].familia # SinFamilia /\ ~Hecha(f)'
    BY <1>0, <1>1, HechaQueda DEF Ordena, Hecha
  <1>4. ASSUME NEW t \in tx[p].pend \union tx[p].toma
        PROVE  /\ ExisteTras(t) /\ fila'[t].tipo = fila[t].tipo
               /\ fila'[t].tipo # "code" => fila'[t].familia \in tx[p].tiene
    <2>1. t \in Tokens /\ Existe(t)
      BY <1>0 DEF Ordena, Tx
    <2>2. ExisteTras(t) /\ fila'[t].tipo = fila[t].tipo
      BY <1>0, <2>1, Persiste
    <2>3. fila[t].tipo # "code" => fila'[t].familia = fila[t].familia
      BY <1>0, <2>1, FamiliaNueva
    <2> QED
      BY <1>0, <2>2, <2>3 DEF Ordena
  <1>5. o = "familia" /\ tx[p].fase = "filas" => \A t \in tx[p].pend : fila'[t].tipo # "code"
    BY <1>0, <1>4 DEF Ordena, Op
  <1>6. o = "canje" => fila'[K].familia = F \/ F = <<K, p>>
    <2>1. CASE o = "canje" /\ fila[K].familia = F
      BY <1>0, <1>1, <2>1, FamiliaNueva DEF Op
    <2>2. CASE o = "canje" /\ F = <<K, p>>
      BY <2>2
    <2> QED
      BY <1>0, <2>1, <2>2 DEF Ordena, Op
  <1>7. ASSUME o = "canje", tx[p].fase = "filas", NEW t \in tx[p].pend, fila'[t].tipo = "code"
        PROVE  F = <<t, p>> /\ fila'[F[1]].familia # F
    <2>1. F = <<t, p>> /\ fila[t].familia # F /\ t \in Tokens /\ Existe(t)
      BY <1>0, <1>4, <1>7 DEF Ordena, Op, Hecha, Tx
    <2>2. ASSUME fila'[t].familia = F PROVE FALSE
      <3>1. PICK q \in Procesos : Emitir(q) /\ F = <<t, q>>
        BY <1>0, <2>1, <2>2, FamiliaNueva
      <3>2. Op(p, "canje") /\ tx'[p].op = "nada"
        BY <1>0, <1>7, <2>1, <3>1, EmitirEs, CierraEs DEF Op, Inv
      <3> QED
        BY <3>2 DEF Op
    <2> QED
      BY <2>1, <2>2
  <1>8. o = "canje" => /\ tx[p].pend \subseteq {K} \ tx[p].toma /\ tx[p].toma \subseteq {K}
                       /\ tx[p].fase # "filas" => tx[p].toma = {}
    BY <1>0 DEF Ordena, Op
  <1> QED
    BY <1>1, <1>2, <1>3, <1>4, <1>5, <1>6, <1>7, <1>8 DEF Ordena, Familiar, Op, Hecha, Existe,
       ExisteTras

LEMMA OrdenEmpieza ==
    ASSUME InvOrden, NEW p \in Procesos, Empieza(p)
    PROVE  Ordena(p)'
  <1>1. ASSUME NEW t \in Tokens, Canjear(p, t) PROVE Ordena(p)'
    <2>1. /\ fila' = fila /\ tx'[p].op = "canje" /\ tx'[p].fase = "cerrar" /\ tx'[p].token = t
          /\ tx'[p].familia \in Familias /\ tx'[p].tiene = {} /\ tx'[p].toma = {}
          /\ tx'[p].pend = {}
          /\ \/ fila[t].familia = tx'[p].familia
             \/ tx'[p].familia = <<t, p>>
      BY <1>1, CanjearEs DEF InvOrden, Inv
    <2>2. tx'[p].familia[2] = p \/ Hecha(tx'[p].familia)
      BY <2>1, LlavesEs DEF InvOrden, FamiliasBien
    <2> QED
      BY <2>1, <2>2 DEF Ordena, Familiar, Op, Hecha
  <1>2. ASSUME NEW t \in Tokens, RevocarFamilia(p, t) PROVE Ordena(p)'
    <2>1. /\ fila' = fila /\ tx'[p].op = "familia" /\ tx'[p].fase = "cerrar"
          /\ tx'[p].familia = fila[t].familia /\ fila[t].familia \in Familias
          /\ tx'[p].tiene = {} /\ tx'[p].toma = {} /\ tx'[p].pend = {}
      BY <1>2, RevocarFamiliaEs DEF InvOrden, Inv
    <2>2. Hecha(tx'[p].familia)
      BY <2>1, LlavesEs DEF InvOrden, FamiliasBien
    <2> QED
      BY <2>1, <2>2 DEF Ordena, Familiar, Op, Hecha
  <1>3. CASE RevocarDeUsuario(p)
    BY <1>3, RevocarDeUsuarioEs DEF InvOrden, Inv, Ordena, Familiar
  <1> QED
    BY <1>1, <1>2, <1>3 DEF Empieza

LEMMA OrdenCerrar ==
    ASSUME InvOrden, NEW p \in Procesos, Cerrar(p), fila' = fila
    PROVE  Ordena(p)'
  <1> SUFFICES ASSUME Familiar(p) PROVE Ordena(p)'
    BY CerrarEs DEF InvOrden, Inv, Misma, Ordena, Familiar
  <1>1. PICK c \in tx[p].pide : /\ tx'[p].tiene = tx[p].tiene \union {c}
                                /\ tx'[p].fase = IF c = Usuario THEN "familias"
                                     ELSE IF tx[p].pide = {c} THEN "sentencia" ELSE "cerrar"
    BY CerrarEs DEF InvOrden, Inv
  <1>2. /\ Misma(p) /\ MismasFilas(p) /\ tx'[p].pend = tx[p].pend /\ tx[p].fase = "cerrar"
    BY CerrarEs DEF InvOrden, Inv, Fase
  <1>3. /\ tx[p].pide = {tx[p].familia} /\ tx[p].familia \in Familias /\ Ordena(p)
    BY <1>2 DEF InvOrden, Inv, TypeOK, Tx, TxBien, Encaja, Familiar, OrdenBien
  <1>4. c = tx[p].familia /\ tx'[p].fase = "sentencia"
    BY <1>1, <1>3, LlavesEs
  <1> QED
    BY <1>1, <1>2, <1>3, <1>4 DEF Ordena, Familiar, Op, Hecha, Misma, MismasFilas, Existe

LEMMA OrdenSentencia ==
    ASSUME InvOrden, NEW p \in Procesos, Sentencia(p), fila' = fila
    PROVE  Ordena(p)'
  <1> SUFFICES ASSUME Familiar(p) PROVE Ordena(p)'
    BY SentenciaEs DEF InvOrden, Inv, Misma, Ordena, Familiar
  <1>1. /\ Misma(p) /\ MismasFilas(p) /\ tx[p].fase = "sentencia" /\ tx'[p].fase = "filas"
        /\ tx'[p].tiene = tx[p].tiene /\ tx'[p].pend = Alcance(p)
    BY SentenciaEs DEF InvOrden, Inv, Fase
  <1>2. /\ tx[p].familia \in tx[p].tiene /\ tx[p].familia # SinFamilia /\ Ordena(p) /\ Encaja(p)
    BY <1>1 DEF InvOrden, Inv, TxBien, Encaja, Familiar, OrdenBien
  <1>3. /\ Alcance(p) \subseteq Tokens
        /\ \A t \in Alcance(p) : Vivo(t)
        /\ Op(p, "canje") => Alcance(p) \subseteq {tx[p].token}
        /\ Op(p, "familia") => \A t \in Alcance(p) : fila[t].familia = tx[p].familia
    <2>1. ~Op(p, "nada")
      BY DEF Familiar, Op
    <2> QED
      BY <2>1, EnCurso, AlcanceEs DEF InvOrden, Inv, VeVivo, Op
  <1>4. ASSUME NEW t \in Alcance(p)
        PROVE  /\ Existe(t)
               /\ fila[t].tipo = "code" => fila[t].familia = SinFamilia
    BY <1>3 DEF InvOrden, Inv, FilasBien, Vivo
  <1>5. CASE Op(p, "familia")
    <2>1. \A t \in Alcance(p) : /\ fila[t].tipo # "code" /\ Existe(t)
                                /\ fila[t].familia \in tx[p].tiene
      BY <1>2, <1>3, <1>4, <1>5
    <2> QED
      BY <1>1, <1>2, <1>5, <2>1 DEF Ordena, Familiar, Op, Hecha, Misma, MismasFilas, Existe
  <1>6. CASE Op(p, "canje")
    <2> DEFINE k == tx[p].token
    <2>1. tx[p].toma = {}
      BY <1>1, <1>2, <1>6 DEF Ordena
    <2>2. ASSUME NEW t \in Alcance(p)
          PROVE  /\ t = k
                 /\ fila[t].tipo # "code" => fila[t].familia = tx[p].familia
                 /\ fila[t].tipo = "code" => tx[p].familia = <<t, p>> /\ ~Hecha(tx[p].familia)
      <3>1. t = k /\ Vivo(k)
        BY <1>3, <1>6
      <3>2. \/ fila[k].familia = tx[p].familia
            \/ fila[k].tipo = "code" /\ tx[p].familia = <<k, p>>
        BY <1>2, <1>6, <3>1 DEF Encaja
      <3>3. fila[t].tipo = "code" => fila[t].familia = SinFamilia
        BY <1>4
      <3> QED
        BY <1>2, <3>1, <3>2, <3>3 DEF Hecha
    <2> QED
      BY <1>1, <1>2, <1>4, <1>6, <2>1, <2>2 DEF Ordena, Familiar, Op, Hecha, Misma, MismasFilas,
         Existe
  <1> QED
    BY <1>5, <1>6 DEF Familiar, Op

LEMMA OrdenBloquear ==
    ASSUME InvOrden, NEW p \in Procesos, NEW t \in Tokens, BloquearFila(p, t), fila' = fila
    PROVE  Ordena(p)'
  <1>1. /\ Misma(p) /\ tx[p].fase = "filas" /\ t \in tx[p].pend
        /\ tx'[p].fase = tx[p].fase /\ tx'[p].tiene = tx[p].tiene
        /\ tx'[p].pend = tx[p].pend \ {t} /\ tx'[p].toma = tx[p].toma \union {t}
    BY BloquearFilaEs DEF InvOrden, Inv, Fase
  <1>2. Ordena(p)
    BY DEF InvOrden, OrdenBien
  <1> QED
    BY <1>1, <1>2 DEF Ordena, Familiar, Op, Hecha, Misma, Existe

(* The family an exchange made up and did not use is left behind. *)
LEMMA OrdenNoGana ==
    ASSUME InvOrden, NEW p \in Procesos, NoGana(p), ~Cierra(p), fila' = fila
    PROVE  Ordena(p)'
  <1> DEFINE k == tx[p].token
             f == tx[p].familia
  <1>1. /\ MismasFilas(p) /\ tx'[p].tiene = tx[p].tiene /\ tx'[p].op = "familia"
        /\ Op(p, "canje") /\ k \in Tokens /\ tx'[p].pend = {}
        /\ tx'[p].familia = fila[k].familia /\ fila[k].familia \in Familias
        /\ tx'[p].fase # "filas"
    BY NoGanaEs DEF InvOrden, Inv
  <1>2. Hecha(fila[k].familia) /\ fila[k].familia # SinFamilia
    BY <1>1, LlavesEs DEF InvOrden, FamiliasBien
  <1>3. Ordena(p) /\ Familiar(p)
    BY <1>1 DEF InvOrden, OrdenBien, Familiar, Op
  <1>4. fila[k].familia # f => fila[f[1]].familia # SinFamilia /\ ~Hecha(f)
    BY <1>1, <1>2, <1>3 DEF Ordena, Hecha
  <1>5. \A g \in tx[p].tiene \ {fila[k].familia} : fila[g[1]].familia # SinFamilia /\ ~Hecha(g)
    BY <1>3, <1>4 DEF Ordena
  <1> QED
    BY <1>1, <1>2, <1>3, <1>5 DEF Ordena, Familiar, Op, Hecha, MismasFilas, Existe

LEMMA OrdenPaso ==
    ASSUME InvOrden, [Next]_vars
    PROVE  OrdenBien'
  <1> SUFFICES ASSUME NEW p \in Procesos PROVE Ordena(p)'
    BY DEF OrdenBien
  <1>1. CASE Cierra(p)
    BY <1>1, CierraEs DEF InvOrden, Inv, Ordena, Familiar
  <1>2. CASE BuscarFamilias(p)
    BY <1>2, BuscarFamiliasEs DEF InvOrden, Inv, Misma, Ordena, Familiar, Op
  <1>3. CASE Cerrar(p) \/ Sentencia(p) \/ (NoGana(p) /\ ~Cierra(p))
    <2>1. fila' = fila
      BY <1>3 DEF Cerrar, Sentencia, NoGana
    <2> QED
      BY <1>3, <2>1, OrdenCerrar, OrdenSentencia, OrdenNoGana
  <1>4. ASSUME NEW t \in Tokens, BloquearFila(p, t) PROVE Ordena(p)'
    <2>1. fila' = fila
      BY <1>4 DEF BloquearFila
    <2> QED
      BY <1>4, <2>1, OrdenBloquear
  <1>5. CASE Sigue(p)
    BY <1>1, <1>2, <1>3, <1>4, <1>5 DEF Sigue, Emitir, ConfirmarFamilia, ConfirmarUsuario,
       Interbloqueo
  <1> QED
    BY <1>1, <1>5, SoloLoSuyo, OrdenQuieta, OrdenEmpieza DEF InvOrden, Inv, Abortar

LEMMA OrdenInicio == Init => InvOrden
  <1> SUFFICES ASSUME Init PROVE InvOrden
    OBVIOUS
  <1>1. FamiliasBien /\ OrdenBien
    BY NingunaEs DEF Init, FamiliasBien, OrdenBien, Ordena, Familiar, SinFila
  <1> QED
    BY <1>1, InvInicio DEF InvOrden

LEMMA InvOrdenPaso == InvOrden /\ [Next]_vars => InvOrden'
  <1> SUFFICES ASSUME InvOrden, [Next]_vars PROVE InvOrden'
    OBVIOUS
  <1>1. Inv'
    BY InvPaso DEF InvOrden
  <1> QED
    BY <1>1, FamiliasPaso, OrdenPaso DEF InvOrden

(* A set of transactions that wait for each other has a revocation of a     *)
(* user: of the others, the one that holds a lock somebody waits for can go *)
(* on, and so can the one that holds a row.                                 *)
LEMMA SinCiclo ==
    ASSUME InvOrden
    PROVE  FamiliaSinInterbloqueo
  <1> SUFFICES ASSUME Interbloqueados # {}, \A p \in Interbloqueados : ~Op(p, "usuario")
               PROVE  FALSE
    BY DEF FamiliaSinInterbloqueo
  <1>1. PICK S \in SUBSET { p \in Procesos : Espera(p) # {} } :
             Atascadas(S) /\ S \subseteq Interbloqueados
    BY DEF Interbloqueados
  <1>2. ASSUME NEW p \in S
        PROVE  /\ p \in Procesos /\ Espera(p) # {} /\ Espera(p) \subseteq S
               /\ Familiar(p) /\ Ordena(p) /\ Encaja(p)
               /\ tx[p].fase \in {"cerrar", "filas"}
               /\ tx[p].familia \in Familias
    <2>1. p \in Procesos /\ Espera(p) # {} /\ Espera(p) \subseteq S /\ ~Op(p, "usuario")
      BY <1>1 DEF Atascadas
    <2>2. Fase(p, "cerrar") \/ Fase(p, "filas")
      BY <2>1 DEF Espera
    <2>3. tx[p] \in Tx /\ Encaja(p) /\ Ordena(p)
      BY <2>1 DEF InvOrden, Inv, TypeOK, TxBien, OrdenBien
    <2>4. Familiar(p)
      BY <2>1, <2>2, <2>3 DEF Tx, Fase, Op, Familiar
    <2> QED
      BY <2>1, <2>2, <2>3, <2>4 DEF Fase, Encaja, Tx
  <1>3. \A p, q \in S : p # q => tx[p].tiene \intersect tx[q].tiene = {}
    BY <1>2 DEF InvOrden, Inv, CerrojosBien
  (* Whoever waits for a row goes for a code with a family it made up. *)
  <1>4. ASSUME NEW p \in S, tx[p].fase = "filas"
        PROVE  \E q \in S \ {p} : \E t \in tx[p].pend \intersect tx[q].toma :
                  /\ fila[t].tipo = "code" /\ tx[p].op = "canje"
                  /\ ~Hecha(tx[p].familia)
    <2>1. Espera(p) = { q \in Procesos \ {p} : tx[p].pend \intersect tx[q].toma # {} }
      BY <1>2, <1>4 DEF Espera, Fase
    <2>2. PICK q \in S \ {p} : tx[p].pend \intersect tx[q].toma # {}
      BY <1>2, <2>1
    <2>3. PICK t \in tx[p].pend \intersect tx[q].toma : TRUE
      BY <2>2
    <2>4. fila[t].tipo = "code"
      <3>1. fila[t].tipo # "code" => fila[t].familia \in tx[p].tiene
        BY <1>2, <2>3 DEF Ordena
      <3>2. fila[t].tipo # "code" => fila[t].familia \in tx[q].tiene
        BY <1>2, <2>2, <2>3 DEF Ordena
      <3>3. tx[p].tiene \intersect tx[q].tiene = {}
        BY <1>3, <2>2
      <3> QED
        BY <3>1, <3>2, <3>3
    <2>5. tx[p].op = "canje"
      BY <1>2, <1>4, <2>3, <2>4 DEF Ordena, Familiar, Op
    <2> QED
      BY <1>2, <1>4, <2>2, <2>3, <2>4, <2>5 DEF Ordena, Op
  (* Whoever waits for a lock waits for one that goes on. *)
  <1>5. ASSUME NEW p \in S, tx[p].fase = "cerrar" PROVE FALSE
    <2> DEFINE f == tx[p].familia
    <2>1. ASSUME NEW r \in S, tx[r].fase = "cerrar"
          PROVE  Espera(r) = { q \in Procesos \ {r} : tx[r].familia \in tx[q].tiene }
      <3>1. tx[r].pide = {tx[r].familia}
        BY <1>2, <2>1 DEF Encaja
      <3>2. Menor(tx[r].pide) = tx[r].familia
        BY <1>2, <3>1, LlavesEs, MenorEs
      <3> QED
        BY <1>2, <2>1, <3>2 DEF Espera, Fase, Familiar
    <2>2. PICK q \in S \ {p} : f \in tx[q].tiene
      BY <1>2, <1>5, <2>1
    <2>3. Hecha(f) /\ f = tx[q].familia
      <3>1. f[2] = p \/ Hecha(f)
        BY <1>2 DEF Ordena
      <3>2. f[2] = q \/ Hecha(f)
        BY <1>2, <2>2 DEF Ordena
      <3> QED
        BY <1>2, <2>2, <3>1, <3>2 DEF Ordena
    <2>4. tx[q].fase = "cerrar"
      BY <1>2, <1>4, <2>2, <2>3
    <2>5. PICK r \in S \ {q} : f \in tx[r].tiene
      BY <1>2, <2>1, <2>2, <2>3, <2>4
    <2> QED
      BY <1>3, <2>2, <2>5
  <1>6. PICK p \in S : tx[p].fase = "filas"
    BY <1>1, <1>2, <1>5 DEF Atascadas
  <1>7. PICK q \in S, t \in Tokens : t \in tx[q].toma
    <2>1. PICK q \in S \ {p} : \E t \in tx[p].pend \intersect tx[q].toma : TRUE
      BY <1>4, <1>6
    <2> QED
      BY <1>2, <2>1 DEF InvOrden, Inv, TypeOK, Tx
  <1>8. tx[q].fase = "filas"
    BY <1>2, <1>5, <1>7
  <1>9. PICK u \in tx[q].pend : tx[q].op = "canje"
    BY <1>4, <1>7, <1>8
  <1> QED
    BY <1>2, <1>7, <1>9 DEF Ordena, Op

(* Exchanges, reuses and revocations of a family never wait for each other  *)
(* in a circle, however many there are: a deadlock has a revocation of a    *)
(* user in it (_cerrar_familia, db/mcp_oauth.py).                           *)
THEOREM FamiliaNuncaSeTraba == Spec => []FamiliaSinInterbloqueo
  <1>1. InvOrden => FamiliaSinInterbloqueo
    BY SinCiclo
  <1> QED
    BY <1>1, OrdenInicio, InvOrdenPaso, PTL DEF Spec

-----------------------------------------------------------------------------
(* The user.  What is alive was, or is a new login, or was issued for a     *)
(* token of the same login. *)
OrigenTras(t) == IF fila'[t].tipo = "code" THEN t ELSE fila'[t].familia[1]

LEMMA OrigenPaso ==
    ASSUME Inv, [Next]_vars, NEW t \in Tokens, VivoTras(t)
    PROVE  \/ /\ Vivo(t) /\ OrigenTras(t) = Origen(t) /\ fila'[t].tipo = fila[t].tipo
              /\ fila'[t].familia = fila[t].familia
           \/ ~Existe(t) /\ OrigenTras(t) = t
           \/ \E q \in Procesos :
                /\ Emitida(t, q) /\ OrigenTras(t) = Origen(tx[q].token)
                /\ tx[q].token \in Tokens /\ Vivo(tx[q].token)
                /\ tx[q].token \in tx[q].escribe
                /\ fila'[t].tipo # "code" /\ fila'[t].familia = tx[q].familia
                /\ \/ fila[tx[q].token].tipo = "code"
                   \/ fila[tx[q].token].familia = tx[q].familia
  <1>1. CASE Existe(t)
    BY <1>1, Persiste DEF OrigenTras, Origen
  <1>2. CASE Nacida(t)
    BY <1>2 DEF Nacida, OrigenTras
  <1>3. CASE ~Existe(t) /\ fila'[t] = fila[t]
    BY <1>3 DEF Existe, ExisteTras, VivoTras
  <1>4. ASSUME NEW q \in Procesos, Emitida(t, q)
        PROVE  /\ OrigenTras(t) = Origen(tx[q].token)
               /\ tx[q].token \in Tokens /\ Vivo(tx[q].token)
               /\ tx[q].token \in tx[q].escribe
               /\ fila'[t].tipo # "code" /\ fila'[t].familia = tx[q].familia
               /\ \/ fila[tx[q].token].tipo = "code"
                  \/ fila[tx[q].token].familia = tx[q].familia
    <2> DEFINE k == tx[q].token
    <2>1. /\ Op(q, "canje") /\ UpdateHecho(q) /\ Gana(q)
          /\ fila'[t].tipo # "code" /\ fila'[t].familia = tx[q].familia
      BY <1>4, EmitirEs DEF Emitida
    <2>2. /\ k \in Tokens /\ Vivo(k)
          /\ \/ fila[k].tipo = "refresh" /\ fila[k].familia = tx[q].familia
             \/ fila[k].tipo = "code" /\ tx[q].familia = <<k, q>>
      BY <2>1, GanadorEs
    <2>3. OrigenTras(t) = tx[q].familia[1]
      BY <2>1 DEF OrigenTras
    <2>4. Origen(k) = tx[q].familia[1]
      BY <2>2 DEF Origen
    <2> QED
      BY <2>1, <2>2, <2>3, <2>4 DEF Gana
  <1> QED
    BY <1>1, <1>2, <1>3, <1>4, FilaPaso DEF FilaBien, Conserva

(* What is left to write after a step was left before it, or an exchange    *)
(* issued it, in a family not held, for something that was left.            *)
LEMMA SueltaQuieta ==
    ASSUME InvUsuario, [Next]_vars, NEW p \in Procesos, Op(p, "usuario"), tx'[p] = tx[p],
           NEW t \in Suelta(p)'
    PROVE  \/ /\ t \in Suelta(p) /\ fila'[t].tipo = fila[t].tipo
              /\ fila'[t].familia = fila[t].familia
           \/ /\ fila'[t].tipo # "code" /\ fila'[t].familia \notin tx[p].tiene
              /\ \E k \in Suelta(p) : \/ fila[k].tipo = "code"
                                      \/ fila[k].familia = fila'[t].familia
  <1>1. t \in Tokens /\ VivoTras(t) /\ OrigenTras(t) \in tx[p].vistos /\ t \notin tx[p].escribe
    BY DEF Suelta, Vivo, Existe, Origen, VivoTras, ExisteTras, OrigenTras
  <1>2. ~Existe(t) => OrigenTras(t) # t
    BY <1>1 DEF InvUsuario, UsuarioEntero, Cubre
  <1>3. ASSUME NEW q \in Procesos, Emitida(t, q), OrigenTras(t) = Origen(tx[q].token),
               tx[q].token \in Tokens, Vivo(tx[q].token), tx[q].token \in tx[q].escribe,
               fila'[t].familia = tx[q].familia
        PROVE  tx[q].token \in Suelta(p) /\ fila'[t].familia \notin tx[p].tiene
    <2>1. p # q /\ tx[q].familia \notin tx[p].tiene
      <3>1. Inv /\ tx'[p].op # "nada"
        BY DEF InvUsuario, Op
      <3> QED
        BY <1>1, <1>3, <3>1, FamiliaCercada
    <2>2. tx[q].token \notin tx[p].escribe
      BY <1>3, <2>1 DEF InvUsuario, Inv, CerrojosBien
    <2> QED
      BY <1>1, <1>3, <2>1, <2>2 DEF Suelta
  <1>4. Inv
    BY DEF InvUsuario
  <1> QED
    BY <1>1, <1>2, <1>3, <1>4, OrigenPaso DEF Suelta

LEMMA CubreQuieta ==
    ASSUME InvUsuario, [Next]_vars, NEW p \in Procesos, tx'[p] = tx[p]
    PROVE  Cubre(p)'
  <1> SUFFICES ASSUME Op(p, "usuario") PROVE Cubre(p)'
    BY DEF Cubre, Op
  <1>1. Cubre(p) /\ Inv
    BY DEF InvUsuario, UsuarioEntero
  <1>2. \A c \in tx[p].vistos : ExisteTras(c)
    <2>1. tx[p].vistos \subseteq Tokens
      BY <1>1 DEF Inv, TypeOK, Tx
    <2> QED
      BY <1>1, <2>1, Persiste DEF Cubre
  <1>3. ASSUME tx[p].fase = "filas", tx[p].pasada = 1, NEW t \in Suelta(p)'
        PROVE  t \in tx[p].pend \/ (fila'[t].tipo # "code" /\ fila'[t].familia \notin tx[p].tiene)
    BY <1>1, <1>3, SueltaQuieta DEF Cubre
  <1>4. ASSUME tx[p].fase \in {"cerrar", "sentencia"}, tx[p].pasada >= 1, NEW t \in Suelta(p)'
        PROVE  fila'[t].tipo # "code" /\ fila'[t].familia \in tx[p].pide \union tx[p].tiene
    BY <1>1, <1>4, SueltaQuieta DEF Cubre
  <1>5. ASSUME tx[p].fase = "filas", tx[p].pasada >= 2, NEW t \in Suelta(p)'
        PROVE  fila'[t].tipo # "code" /\ fila'[t].familia \in tx[p].tiene /\ t \in tx[p].pend
    BY <1>1, <1>5, SueltaQuieta DEF Cubre
  <1>6. ASSUME tx[p].fase = "fin" PROVE Suelta(p)' = {}
    BY <1>1, <1>6, SueltaQuieta DEF Cubre
  <1> QED
    BY <1>2, <1>3, <1>4, <1>5, <1>6 DEF Cubre, ExisteTras, Existe

(* Two passes are enough.  The first leaves only what exchanges issued in   *)
(* families it had not seen; the look after it finds them and closes them,  *)
(* and nothing is added to a family that is closed.                         *)
LEMMA CubreBuscar ==
    ASSUME InvUsuario, MaxPasadas >= 2, NEW p \in Procesos, BuscarFamilias(p)
    PROVE  Cubre(p)'
  <1>1. /\ Inv /\ fila' = fila /\ Op(p, "usuario") /\ Cubre(p) /\ Encaja(p)
        /\ tx[p].pasada \in 0 .. MaxPasadas /\ MaxPasadas \in Nat
    BY McpOAuthAssumption DEF InvUsuario, Inv, UsuarioEntero, TxBien, TypeOK, Tx, BuscarFamilias
  <1>2. /\ tx'[p].vistos = tx[p].vistos /\ tx'[p].escribe = tx[p].escribe
        /\ tx'[p].tiene = tx[p].tiene /\ tx'[p].pasada = tx[p].pasada
        /\ Fase(p, "familias") \/ UpdateHecho(p)
        /\ \/ Acabada(p, Faltan(p)) /\ tx'[p].fase = "fin"
           \/ /\ tx'[p].pide = Faltan(p) /\ tx'[p].fase \in {"sentencia", "cerrar"}
    BY BuscarFamiliasEs DEF InvUsuario, Inv, Misma, MismasFilas
  <1>3. Suelta(p)' = Suelta(p)
    BY <1>1, <1>2 DEF Suelta, Vivo, Existe, Origen
  <1>4. \A c \in tx'[p].vistos : Existe(c)'
    BY <1>1, <1>2 DEF Cubre, Existe
  <1>5. CASE Fase(p, "familias")
    <2>1. tx[p].pasada = 0
      BY <1>1, <1>5 DEF Encaja, Fase
    <2>2. ~Acabada(p, Faltan(p))
      BY <1>1, <2>1 DEF Acabada
    <2>3. tx'[p].fase \in {"sentencia", "cerrar"} /\ ~(tx'[p].pasada >= 1)
      BY <1>2, <2>1, <2>2
    <2> QED
      BY <1>4, <2>3 DEF Cubre
  <1>6. CASE UpdateHecho(p)
    <2>1. tx[p].fase = "filas" /\ tx[p].pend = {} /\ tx[p].pasada >= 1
      BY <1>1, <1>6 DEF UpdateHecho, Fase, Encaja
    <2>2. tx[p].pasada # 1 => Suelta(p) = {}
      <3>1. tx[p].pasada # 1 => tx[p].pasada >= 2
        BY <1>1, <2>1
      <3> QED
        BY <1>1, <2>1, <3>1 DEF Cubre
    <2>3. ASSUME NEW t \in Suelta(p)
          PROVE  /\ tx[p].pasada = 1 /\ fila[t].tipo # "code" /\ fila[t].familia \in Faltan(p)
      <3>1. tx[p].pasada = 1
        BY <2>2
      <3>2. fila[t].tipo # "code" /\ fila[t].familia \notin tx[p].tiene
        BY <1>1, <2>1, <3>1 DEF Cubre
      <3>3. t \in Tokens /\ Vivo(t) /\ VeVivo(p, t)
        BY DEF Suelta, VeVivo
      <3>4. fila[t].tipo \in {"access", "refresh"}
        BY <1>1, <3>2, <3>3 DEF Inv, TypeOK, Fila, Vivo, Existe
      <3>5. fila[t].familia # SinFamilia
        BY <1>1, <3>3, <3>4 DEF Inv, FilasBien
      <3> QED
        BY <3>1, <3>2, <3>3, <3>5 DEF Faltan
    <2>4. Acabada(p, Faltan(p)) => Suelta(p) = {}
      <3>1. ASSUME NEW t \in Suelta(p), Acabada(p, Faltan(p)) PROVE FALSE
        <4>1. tx[p].pasada # MaxPasadas /\ Faltan(p) # {}
          BY <1>1, <2>3
        <4> QED
          BY <3>1, <4>1 DEF Acabada
      <3> QED
        BY <3>1
    <2>5. CASE tx'[p].fase = "fin" /\ Acabada(p, Faltan(p))
      BY <1>3, <1>4, <2>4, <2>5 DEF Cubre
    <2>6. CASE tx'[p].pide = Faltan(p) /\ tx'[p].fase \in {"sentencia", "cerrar"}
      <3>1. \A t \in Suelta(p)' : fila'[t].tipo # "code" /\ fila'[t].familia \in tx'[p].pide
        BY <1>1, <1>3, <2>3, <2>6
      <3> QED
        BY <1>4, <2>6, <3>1 DEF Cubre
    <2> QED
      BY <1>2, <2>5, <2>6
  <1> QED
    BY <1>2, <1>5, <1>6

LEMMA CubreCerrar ==
    ASSUME InvUsuario, NEW p \in Procesos, Cerrar(p), Op(p, "usuario")
    PROVE  Cubre(p)'
  <1>1. Inv /\ fila' = fila /\ Cubre(p)
    BY DEF InvUsuario, UsuarioEntero, Cerrar
  <1>2. /\ tx'[p].vistos = tx[p].vistos /\ tx'[p].escribe = tx[p].escribe
        /\ tx'[p].pasada = tx[p].pasada /\ tx[p].fase = "cerrar"
        /\ tx'[p].fase \in {"familias", "sentencia", "cerrar"}
        /\ tx[p].pide \union tx[p].tiene \subseteq tx'[p].pide \union tx'[p].tiene
    BY <1>1, CerrarEs DEF Inv, Misma, MismasFilas, Fase
  <1>3. Suelta(p)' = Suelta(p)
    BY <1>1, <1>2 DEF Suelta, Vivo, Existe, Origen
  <1>4. \A c \in tx'[p].vistos : Existe(c)'
    BY <1>1, <1>2 DEF Cubre, Existe
  <1>5. tx[p].pasada >= 1 =>
          \A t \in Suelta(p) : /\ fila[t].tipo # "code"
                               /\ fila[t].familia \in tx[p].pide \union tx[p].tiene
    BY <1>1, <1>2 DEF Cubre
  <1> QED
    BY <1>1, <1>2, <1>3, <1>4, <1>5 DEF Cubre

LEMMA CubreSentencia ==
    ASSUME InvUsuario, NEW p \in Procesos, Sentencia(p), Op(p, "usuario")
    PROVE  Cubre(p)'
  <1>1. Inv /\ fila' = fila /\ Cubre(p) /\ Encaja(p) /\ tx[p].pasada \in Nat
    BY DEF InvUsuario, Inv, UsuarioEntero, Sentencia, TxBien, TypeOK, Tx
  <1>2. /\ tx'[p].vistos = tx[p].vistos /\ tx'[p].escribe = tx[p].escribe
        /\ tx'[p].tiene = tx[p].tiene /\ tx[p].fase = "sentencia" /\ Fase(p, "sentencia")
        /\ tx'[p].fase = "filas" /\ tx'[p].pend = Alcance(p)
        /\ tx'[p].pasada = tx[p].pasada + 1
    BY <1>1, SentenciaEs DEF Inv, Misma, MismasFilas, Fase
  <1>3. Suelta(p)' = Suelta(p)
    BY <1>1, <1>2 DEF Suelta, Vivo, Existe, Origen
  <1>4. \A c \in tx'[p].vistos : Existe(c)'
    BY <1>1, <1>2 DEF Cubre, Existe
  <1>5. \A t \in Suelta(p) : t \in Alcance(p)
    BY AlcanceEs DEF Suelta, VeVivo, Op
  <1>6. tx[p].pide = {}
    BY <1>1, <1>2 DEF Encaja
  <1>7. tx'[p].pasada >= 2 => tx[p].pasada >= 1
    BY <1>1, <1>2
  <1>8. tx[p].pasada >= 1 =>
          \A t \in Suelta(p) : fila[t].tipo # "code" /\ fila[t].familia \in tx[p].tiene
    BY <1>1, <1>2, <1>6 DEF Cubre
  <1> QED
    BY <1>1, <1>2, <1>3, <1>4, <1>5, <1>7, <1>8 DEF Cubre

LEMMA CubreBloquear ==
    ASSUME InvUsuario, NEW p \in Procesos, NEW u \in Tokens, BloquearFila(p, u), Op(p, "usuario")
    PROVE  Cubre(p)'
  <1>1. Inv /\ fila' = fila /\ Cubre(p)
    BY DEF InvUsuario, UsuarioEntero, BloquearFila
  <1>2. /\ tx'[p].vistos = tx[p].vistos /\ tx[p].fase = "filas" /\ tx'[p].fase = "filas"
        /\ tx'[p].tiene = tx[p].tiene /\ tx'[p].pasada = tx[p].pasada
        /\ tx'[p].pend = tx[p].pend \ {u}
        /\ tx'[p].escribe = IF u \in Alcance(p) THEN tx[p].escribe \union {u}
                            ELSE tx[p].escribe
    BY <1>1, BloquearFilaEs DEF Inv, Misma, Fase
  <1>3. VeVivo(p, u) => u \in Alcance(p)
    BY AlcanceEs DEF Op
  <1>4. ASSUME NEW t \in Suelta(p)' PROVE t \in Suelta(p) /\ t # u
    <2>1. t \in Tokens /\ Vivo(t) /\ Origen(t) \in tx[p].vistos /\ t \notin tx'[p].escribe
      BY <1>1, <1>2 DEF Suelta, Vivo, Existe, Origen
    <2>2. t \notin tx[p].escribe
      BY <1>2, <2>1
    <2>3. t # u
      BY <1>2, <1>3, <2>1, <2>2 DEF VeVivo
    <2> QED
      BY <2>1, <2>2, <2>3 DEF Suelta
  <1>5. \A c \in tx'[p].vistos : Existe(c)'
    BY <1>1, <1>2 DEF Cubre, Existe
  <1> QED
    BY <1>1, <1>2, <1>4, <1>5 DEF Cubre

LEMMA UsuarioPaso ==
    ASSUME MaxPasadas >= 2
    PROVE  InvUsuario /\ [Next]_vars => UsuarioEntero'
  <1> SUFFICES ASSUME InvUsuario, [Next]_vars, NEW p \in Procesos, tx'[p].op = "usuario"
               PROVE  Cubre(p)'
    BY DEF UsuarioEntero, Cubre, Op
  <1>1. Inv
    BY DEF InvUsuario
  <1>2. CASE Empieza(p)
    <2>1. RevocarDeUsuario(p)
      BY <1>1, <1>2, CanjearEs, RevocarFamiliaEs DEF Empieza, Inv
    <2>2. /\ fila' = fila /\ tx'[p].fase = "cerrar" /\ tx'[p].vistos = Codigos
          /\ tx'[p].pasada = 0
      BY <1>1, <2>1, RevocarDeUsuarioEs DEF Inv
    <2>3. \A c \in tx'[p].vistos : Existe(c)'
      BY <2>2 DEF Codigos, Existe
    <2> QED
      BY <2>2, <2>3 DEF Cubre
  <1>3. ~Cierra(p)
    BY <1>1, CierraEs DEF Inv
  <1>4. ~NoGana(p)
    BY <1>1, <1>3, NoGanaEs DEF Inv
  <1>5. CASE Cerrar(p) \/ Sentencia(p) \/ \E u \in Tokens : BloquearFila(p, u)
    <2>1. Op(p, "usuario")
      BY <1>1, <1>5, CerrarEs, SentenciaEs, BloquearFilaEs DEF Inv, Misma, Op
    <2> QED
      BY <1>5, <2>1, CubreCerrar, CubreSentencia, CubreBloquear
  <1> QED
    BY <1>1, <1>2, <1>3, <1>4, <1>5, SoloLoSuyo, CubreQuieta, CubreBuscar DEF Inv, Sigue,
       Abortar, Emitir, ConfirmarFamilia, ConfirmarUsuario, Interbloqueo

LEMMA RevocadosPaso ==
    ASSUME InvUsuario, [Next]_vars
    PROVE  RevocadosBien' /\ UsuarioRevocado'
  <1>1. Inv /\ RevocadosBien /\ UsuarioRevocado /\ revocados \subseteq Tokens
    BY DEF InvUsuario, Inv, TypeOK
  <1>2. revocados' = revocados \/ \E p \in Procesos : ConfirmarUsuario(p)
    BY DEF Next, Empieza, Sigue, Canjear, RevocarFamilia, RevocarDeUsuario, Cerrar,
       BuscarFamilias, Sentencia, BloquearFila, Emitir, NoGana, ConfirmarFamilia,
       Interbloqueo, Abortar, Login, Caducar, vars
  <1>3. ASSUME NEW c \in revocados' PROVE c \in Tokens /\ Existe(c)
    <2>1. ASSUME NEW p \in Procesos, ConfirmarUsuario(p), c \in tx[p].vistos
          PROVE  c \in Tokens /\ Existe(c)
      <3>1. tx[p].vistos \subseteq Tokens
        BY <1>1 DEF Inv, TypeOK, Tx
      <3> QED
        BY <2>1, <3>1 DEF ConfirmarUsuario, InvUsuario, UsuarioEntero, Cubre
    <2> QED
      BY <1>1, <1>2, <2>1 DEF ConfirmarUsuario, RevocadosBien
  <1>4. RevocadosBien'
    <2>1. \A c \in revocados' : ExisteTras(c)
      BY <1>1, <1>3, Persiste
    <2> QED
      BY <2>1 DEF RevocadosBien, ExisteTras, Existe
  <1>5. ASSUME NEW t \in Tokens, VivoTras(t) PROVE OrigenTras(t) \notin revocados'
    <2>1. ASSUME NEW p \in Procesos, ConfirmarUsuario(p) PROVE OrigenTras(t) \notin revocados'
      <3>1. /\ fila' = ConEscrituras(p) /\ revocados' = revocados \union tx[p].vistos
            /\ Op(p, "usuario") /\ tx[p].fase = "fin"
        BY <2>1 DEF ConfirmarUsuario, Fase
      <3>2. Suelta(p) = {}
        BY <3>1 DEF InvUsuario, UsuarioEntero, Cubre
      <3>3. Existe(t)
        BY <1>1, <1>5, <3>1, ConfirmarEs DEF VivoTras, ExisteTras, Existe, Conserva
      <3>4. Vivo(t) /\ OrigenTras(t) = Origen(t) /\ t \notin tx[p].escribe
        BY <1>1, <1>5, <3>1, <3>3, ConfirmarEs, Persiste DEF VivoTras, OrigenTras, Origen
      <3>5. Origen(t) \notin tx[p].vistos
        BY <3>2, <3>4 DEF Suelta
      <3> QED
        BY <1>1, <3>1, <3>4, <3>5 DEF UsuarioRevocado
    <2>2. CASE revocados' = revocados
      BY <1>1, <1>5, <2>2, OrigenPaso DEF UsuarioRevocado, RevocadosBien
    <2> QED
      BY <1>2, <2>1, <2>2
  <1>6. UsuarioRevocado'
    BY <1>5 DEF UsuarioRevocado, VivoTras, ExisteTras, Vivo, Existe, OrigenTras, Origen
  <1> QED
    BY <1>4, <1>6

(* With two passes or more (_MAX_PASADAS is five) nothing that comes from a *)
(* login is alive once all its user had was revoked: the tokens an exchange *)
(* in flight issued neither.  One pass alone would not do it.               *)
THEOREM UsuarioSigueRevocado ==
    ASSUME MaxPasadas >= 2
    PROVE  Spec => []UsuarioRevocado
  <1>1. Init => InvUsuario
    <2>1. ASSUME Init PROVE UsuarioEntero /\ RevocadosBien /\ UsuarioRevocado
      BY <2>1, NingunaEs DEF Init, UsuarioEntero, Cubre, Op, RevocadosBien, UsuarioRevocado
    <2> QED
      BY <2>1, InvInicio DEF InvUsuario
  <1>2. InvUsuario /\ [Next]_vars => InvUsuario'
    <2>1. InvUsuario /\ [Next]_vars => Inv'
      BY InvPaso DEF InvUsuario
    <2> QED
      BY <2>1, UsuarioPaso, RevocadosPaso DEF InvUsuario
  <1>3. InvUsuario => UsuarioRevocado
    BY DEF InvUsuario
  <1> QED
    BY <1>1, <1>2, <1>3, PTL DEF Spec

=============================================================================
