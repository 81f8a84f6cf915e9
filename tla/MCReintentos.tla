----------------------------- MODULE MCReintentos -----------------------------
(* Two notices of two tenders, one of which may not parse; the feed only.  *)
EXTENDS Reintentos

CONSTANTS e1, e2

ExpedientesMC  == {e1, e2}
ExpedienteDeMC == [n \in 1 .. MaxAvisos |-> IF n = 1 THEN e1 ELSE e2]
EntradasMC     == [fuente : 0 .. MaxMes, que : 0 .. MaxAvisos]
=============================================================================
