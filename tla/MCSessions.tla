----------------------------- MODULE MCSessions -----------------------------
(***************************************************************************)
(* Sessions on small instances.                                            *)
(***************************************************************************)
EXTENDS Sessions, TLC

\* Connections are interchangeable: only equality of ClientIDs matters.  Used
\* for safety only.
Symmetry == Permutations(Client)
=============================================================================
