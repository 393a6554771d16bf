------------------------------ MODULE MCSending ------------------------------
(***************************************************************************)
(* Instance of Sending for TLC.                                            *)
(***************************************************************************)
EXTENDS Sending
=============================================================================
