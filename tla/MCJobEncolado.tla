---------------------------- MODULE MCJobEncolado ----------------------------
(* An organization and the system ask for the work of the same key, and    *)
(* the organization for work without one, with a quota of one.  Two        *)
(* callers race; two consumers, of which one may come back late, claim     *)
(* three times.  Callers are interchangeable, and so are consumers.        *)
EXTENDS JobEncolado, TLC

CONSTANTS ficha, o1, k1

Pide(org, clave) == [tipo |-> ficha, carga |-> [org |-> org, clave |-> clave]]

PediblesMC == {Pide(o1, k1), Pide(SinOrg, k1), Pide(o1, SinClave)}

Simetria == Permutations(Solicitantes) \union Permutations(Consumidores)
=============================================================================
