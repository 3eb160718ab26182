------------------------------- MODULE MCHub -------------------------------
(* The hub on small sets, both scopes, with and without limits.            *)
EXTENDS HubPresence, TLC

ClientSymmetry == Permutations(Client)
=============================================================================
