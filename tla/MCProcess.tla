------------------------------ MODULE MCProcess ------------------------------
(***************************************************************************)
(* ServerProcess on a few descriptors, against EventLoop, with liveness.   *)
(***************************************************************************)
EXTENDS ServerProcess
=============================================================================
