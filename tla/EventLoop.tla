------------------------------- MODULE EventLoop -------------------------------
(***************************************************************************)
(* What the server promises the sockets it owns while it is up: whatever   *)
(* the others do, a connection that waits is accepted when there is room,  *)
(* what a client has sent is read, and a client that has left, or whose    *)
(* connection broke, is let go.  No descriptor waits forever.              *)
(*                                                                         *)
(* ServerProcess is shown to implement this specification: its steps by    *)
(* proof, its fairness by MCProcess.                                       *)
(***************************************************************************)
EXTENDS Naturals

CONSTANTS
  Clients,    \* the descriptors the server can give to clients
  MaxBacklog, \* bound: connections that wait to be accepted
  MaxData     \* bound: reads a client keeps the server busy with

VARIABLES
  status,    \* "starting", "up" while the server accepts and serves, "down"
  connected, \* the descriptors of its clients
  backlog,   \* connections not accepted yet
  data,      \* data[c]: reads it takes to get what c has sent
  ended,     \* the clients that have closed their side
  broken     \* the clients whose connection is reset

sockets == <<status, connected, backlog, data, ended, broken>>

Init ==
  /\ status = "starting" /\ connected = {} /\ backlog = 0
  /\ data = [c \in Clients |-> 0]
  /\ ended = {} /\ broken = {}

-----------------------------------------------------------------------------
\* The peers.
Connect ==
  /\ status = "up" /\ backlog < MaxBacklog
  /\ backlog' = backlog + 1
  /\ UNCHANGED <<status, connected, data, ended, broken>>

Send(c) ==
  /\ status = "up" /\ c \in connected \ (ended \cup broken) /\ data[c] < MaxData
  /\ data' = [data EXCEPT ![c] = @ + 1]
  /\ UNCHANGED <<status, connected, backlog, ended, broken>>

End(c) ==
  /\ status = "up" /\ c \in connected \ (ended \cup broken)
  /\ ended' = ended \cup {c}
  /\ UNCHANGED <<status, connected, backlog, data, broken>>

Break(c) ==
  /\ status = "up" /\ c \in connected \ broken
  /\ broken' = broken \cup {c}
  /\ UNCHANGED <<status, connected, backlog, data, ended>>

-----------------------------------------------------------------------------
Start ==
  /\ status = "starting" /\ status' = "up"
  /\ UNCHANGED <<connected, backlog, data, ended, broken>>

Accept ==
  /\ status = "up" /\ backlog > 0
  /\ \E c \in Clients \ connected : connected' = connected \cup {c}
  /\ backlog' = backlog - 1
  /\ UNCHANGED <<status, data, ended, broken>>

\* The clients in R are disconnected; what they have sent is lost.
Disconnect(R, left) ==
  /\ connected' = connected \ R
  /\ data' = [c \in Clients |-> IF c \in R THEN 0 ELSE left[c]]
  /\ ended' = ended \ R /\ broken' = broken \ R

\* One read of what c has sent is handled.  This may end its connection, and
\* those of clients found broken on the way.
Serve(c) ==
  /\ status = "up" /\ c \in connected /\ data[c] > 0
  /\ \E R \in SUBSET (broken \cup {c}) :
       Disconnect(R, [data EXCEPT ![c] = @ - 1])
  /\ UNCHANGED <<status, backlog>>

\* A client that has left, or whose connection broke, is let go.
LetGo(c) ==
  /\ status = "up" /\ c \in connected
  /\ c \in broken \/ (c \in ended /\ data[c] = 0)
  /\ \E R \in SUBSET broken : Disconnect(R \cup {c}, data)
  /\ UNCHANGED <<status, backlog>>

Stop ==
  /\ status' = "down" /\ connected' = {}
  /\ UNCHANGED <<backlog, data, ended, broken>>

Next ==
  \/ Connect \/ Start \/ Accept \/ Stop
  \/ \E c \in Clients : Send(c) \/ End(c) \/ Break(c) \/ Serve(c) \/ LetGo(c)

Fairness ==
  /\ WF_sockets(Accept)
  /\ \A c \in Clients : WF_sockets(Serve(c)) /\ WF_sockets(LetGo(c))

Spec == Init /\ [][Next]_sockets /\ Fairness
=============================================================================
