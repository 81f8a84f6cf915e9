------------------------------ MODULE MCOutbox ------------------------------
(* An event type with two channels and a log event with none.              *)
EXTENDS Outbox

CONSTANTS cambiada, registro, in_app, webhook

TiposMC     == {cambiada, registro}
CanalesMC   == {in_app, webhook}
RepetiblesMC == {webhook}
CanalesDeMC == [t \in TiposMC |-> IF t = cambiada THEN <<in_app, webhook>> ELSE <<>>]
=============================================================================
