---------------------------- MODULE MCRespaldoZip ----------------------------
(* Three or four notices of two tenders, the last two of the same one;     *)
(* three days, the last of them in another month.                          *)
EXTENDS RespaldoZip

CONSTANTS e1, e2

ExpedientesMC  == {e1, e2}
ExpedienteDeMC == [n \in 1 .. MaxAvisos |-> IF n <= MaxAvisos - 2 THEN e1 ELSE e2]
MesDeMC        == [d \in 1 .. MaxDias |-> IF d < MaxDias THEN 1 ELSE 2]
EntradasMC     == [fuente : 0 .. MaxMes, que : 0 .. MaxAvisos]
=============================================================================
