------------------------------- MODULE MCLines -------------------------------
(***************************************************************************)
(* LineBuffer on every stream of up to MaxBytes bytes, cut by the network  *)
(* and by recv() in every way, against the stream the client meant.        *)
(***************************************************************************)
EXTENDS LineBuffer
=============================================================================
