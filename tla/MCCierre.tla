------------------------------ MODULE MCCierre ------------------------------
(* The two steps of a dependency. *)
EXTENDS Cierre

CONSTANTS watchlist_notify, digests

OrdenMC == <<watchlist_notify, digests>>
DepsMC  == [s \in {watchlist_notify, digests} |->
              IF s = digests THEN {watchlist_notify} ELSE {}]
=============================================================================
