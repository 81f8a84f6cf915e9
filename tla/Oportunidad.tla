---------------------------- MODULE Oportunidad -----------------------------
(***************************************************************************)
(* What a PATCH may do to an opportunity: _normalize_and_validate_update() *)
(* of services/pursuits.py, as a function of the row it has read and of    *)
(* the fields the request carries.  A patch, and the changes it ends up    *)
(* in, are functions whose domain is the set of fields they set; a null    *)
(* status, decision or outcome is the same as none.  A text is blank or    *)
(* not; a date is the version that wrote it, 0 for NULL.                   *)
(***************************************************************************)
EXTENDS Integers

CONSTANTS
    Importes,       \* awarded amounts
    SinImporte,     \* awarded_amount_eur IS NULL
    MaxVersion      \* bound: versions of the row

ASSUME OportunidadAssumption == SinImporte \notin Importes /\ MaxVersion \in Nat \ {0}

Terminales == {"won", "lost", "withdrawn"}
Embudo     == {"identified", "qualifying", "go_no_go", "preparing", "submitted"}

Fila ==
    [ status       : Embudo \union Terminales,
      decision     : {"pending", "go", "no_go"},
      motivo       : BOOLEAN,                   \* decision_reason is not blank
      outcome      : {"pending", "won", "lost", "cancelled"},
      importe      : Importes \union {SinImporte},
      razon        : BOOLEAN,                   \* outcome_reason is not blank
      codigo       : BOOLEAN,                   \* outcome_reason_code IS NOT NULL
      submitted_at : 0 .. MaxVersion,
      closed_at    : 0 .. MaxVersion,
      version      : 1 .. MaxVersion ]

FilaNueva ==
    [ status |-> "identified", decision |-> "pending", motivo |-> FALSE,
      outcome |-> "pending", importe |-> SinImporte, razon |-> FALSE, codigo |-> FALSE,
      submitted_at |-> 0, closed_at |-> 0, version |-> 1 ]

(* What a patch may carry: the dates and the version are the service's. *)
Editables == DOMAIN FilaNueva \ {"submitted_at", "closed_at", "version"}

-----------------------------------------------------------------------------
(* _TRANSITIONS, and the shortcut a GO opens. *)
Siguientes ==
    [ identified |-> {"qualifying"}, qualifying |-> {"go_no_go"},
      go_no_go   |-> {"preparing"},  preparing  |-> {"submitted"},
      submitted  |-> {"won", "lost"} ]

EsTransicion(de, a) == de \in Embudo /\ a \in Siguientes[de] \union {"withdrawn"}

TransicionPermitida(de, a, decision) ==
    \/ EsTransicion(de, a)
    \/ a = "preparing" /\ decision = "go" /\ de \in {"identified", "qualifying"}

ResultadoDe == [won |-> "won", lost |-> "lost", withdrawn |-> "cancelled"]
EstadoDe    == [won |-> "won", lost |-> "lost", cancelled |-> "withdrawn"]

(* The changes c, and on top of them the field x where c does not set it.  *)
Con(c, x, v) == [y \in DOMAIN c \union {x} |-> IF y \in DOMAIN c THEN c[y] ELSE v]

(* The row with the changes. *)
Aplicada(f, c) == [x \in DOMAIN f |-> IF x \in DOMAIN c THEN c[x] ELSE f[x]]

(* The fields of a patch that differ from the row; and, when one of status *)
(* and outcome is missing, the one that goes with the other.               *)
Distintos(f, p) == [x \in { y \in DOMAIN p : p[y] # f[y] } |-> p[x]]

ConEstado(c) ==
    IF "outcome" \in DOMAIN c /\ "status" \notin DOMAIN c /\ c["outcome"] # "pending"
    THEN Con(c, "status", EstadoDe[c["outcome"]]) ELSE c

ConResultado(c) ==
    IF "status" \in DOMAIN c /\ c["status"] \in Terminales
    THEN Con(c, "outcome", ResultadoDe[c["status"]]) ELSE c

Completos(f, p) == ConResultado(ConEstado(Distintos(f, p)))

(* The guards, in the order of the code; g is the row as it would be. *)
Admisible(f, c) ==
    LET g == Aplicada(f, c)
    IN  /\ g.status # f.status => TransicionPermitida(f.status, g.status, g.decision)
        /\ g.decision # "pending" => g.motivo
        /\ g.status \in {"preparing", "submitted", "won", "lost"} => g.decision = "go"
        /\ g.decision = "no_go" => g.status \in {"go_no_go", "withdrawn"}
        /\ g.status \in {"won", "lost"} => f.submitted_at # 0
        /\ g.outcome = IF g.status \in Terminales THEN ResultadoDe[g.status] ELSE "pending"
        /\ g.outcome = "won" => g.importe # SinImporte \/ g.razon
        /\ (g.outcome = "lost" /\ {"outcome", "codigo"} \intersect DOMAIN c # {}) => g.codigo

(* Mutant: the dates are written at every change. *)
SellosCadaVez(f, c) ==
    LET g == Aplicada(f, c)
        presentada == IF g.status = "submitted"
                      THEN Con(c, "submitted_at", f.version + 1) ELSE c
    IN  IF g.status \in Terminales
        THEN Con(presentada, "closed_at", f.version + 1) ELSE presentada

(* submitted_at and closed_at, the first time only. *)
ConSellos(f, c) ==
    LET g == Aplicada(f, c)
        presentada == IF g.status = "submitted" /\ f.submitted_at = 0
                      THEN Con(c, "submitted_at", f.version + 1) ELSE c
    IN  IF g.status \in Terminales /\ f.closed_at = 0
        THEN Con(presentada, "closed_at", f.version + 1) ELSE presentada

Cambios(f, p) == ConSellos(f, Completos(f, p))

-----------------------------------------------------------------------------
(* What an opportunity is supposed to be, whatever the patches were        *)
(* (the invariants of tests/test_pursuit_maquina_property.py).             *)
FilaCoherente(f) ==
    /\ f.outcome = IF f.status \in Terminales THEN ResultadoDe[f.status] ELSE "pending"
    /\ f.status \in {"preparing", "submitted", "won", "lost"} => f.decision = "go"
    /\ f.decision # "pending" => f.motivo
    /\ f.decision = "no_go" => f.status \in {"go_no_go", "withdrawn"}
    /\ f.status \in {"submitted", "won", "lost"} => f.submitted_at # 0
    /\ (f.closed_at # 0) <=> f.status \in Terminales
    /\ f.status = "won" => f.importe # SinImporte \/ f.razon
    /\ f.status = "lost" => f.codigo

(* One step forward, the shortcut, a close or a withdrawal; and a date     *)
(* once written stays.                                                     *)
SoloAvanza(f, g) ==
    /\ g.status # f.status => TransicionPermitida(f.status, g.status, "go")
    /\ f.submitted_at # 0 => g.submitted_at = f.submitted_at
    /\ f.closed_at # 0 => g.closed_at = f.closed_at
=============================================================================
