----------------------------- MODULE MCPursuits -----------------------------
(* An opportunity found new, at its decision, submitted or won; two        *)
(* requests at once, and the patches the console sends.                    *)
EXTENDS Pursuits, TLC

CONSTANTS h1, h2

ManejadoresMC == {h1, h2}

ConGo == [FilaNueva EXCEPT !.status = "go_no_go", !.decision = "go", !.motivo = TRUE]
Presentada == [ConGo EXCEPT !.status = "submitted", !.submitted_at = 1]
Ganada == [Presentada EXCEPT !.status = "won", !.outcome = "won", !.importe = 1,
                             !.closed_at = 1]

InicialesMC == {FilaNueva, ConGo, Presentada, Ganada}

ParchesMC ==
    { "status" :> s : s \in {"qualifying", "go_no_go", "preparing", "submitted", "withdrawn"} }
    \union { "status" :> "preparing" @@ "decision" :> "go" @@ "motivo" :> TRUE,
             "decision" :> "no_go" @@ "motivo" :> TRUE,
             "decision" :> "pending",
             "motivo" :> FALSE,
             "outcome" :> "won" @@ "importe" :> 1,
             "status" :> "lost" @@ "codigo" :> TRUE,
             "importe" :> 2,
             "importe" :> SinImporte @@ "razon" :> TRUE }
=============================================================================
