----------------------------- MODULE MCRegistry -----------------------------
(***************************************************************************)
(* Instance of Registry for TLC.                                           *)
(***************************************************************************)
EXTENDS Registry, TLC

\* Nicknames are only compared for equality.
Symmetry == Permutations(Nicks)

\* No action reads `sent': the properties that speak of messages are action
\* properties on sent', evaluated on every step.
View == registry
=============================================================================
