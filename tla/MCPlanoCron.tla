----------------------------- MODULE MCPlanoCron -----------------------------
(* The old and the new instance of a deployment. *)
EXTENDS PlanoCron

CONSTANTS vieja, nueva

InstanciasMC == {vieja, nueva}
NombresMC    == {Cron}
DuenosMC     == {vieja, nueva, Muerta}
=============================================================================
