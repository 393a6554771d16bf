------------------------------- MODULE CloseFds -------------------------------
(***************************************************************************)
(* Server::close_fds: the descriptors of the server closed one after the   *)
(* other, when run() ends and again in the destructor.                     *)
(*                                                                         *)
(* The loop counts positions from 0 and subscripts _db_clients, a map from *)
(* descriptors to clients, with them.  The subscript of a map inserts what *)
(* it does not find: a client of the default constructor, whose getFd() is *)
(* 0, and the map, whose size bounds the loop, has grown.                  *)
(***************************************************************************)
EXTENDS Naturals, FiniteSets

CONSTANT server_fd   \* _server_fd, the descriptor of the listening socket

ASSUME ServerFdAssumption == server_fd \in Nat \ {0}

VARIABLES
  db_clients, \* _db_clients: for each key what getFd() of its client returns
  open,       \* the descriptors open in the process
  position,   \* the loop variable i
  teardown    \* "none", "closing" while close_fds executes, then "closed"

fds == <<db_clients, open, position, teardown>>

-----------------------------------------------------------------------------
\* close_fds is called.
Begin ==
  /\ teardown # "closing"
  /\ teardown' = "closing" /\ position' = 0
  /\ UNCHANGED <<db_clients, open>>

\* Mutant of Subscript: a key that is not there is not inserted.
SubscriptFinds(key) == db_clients

\* The map with an entry for key, unless it has one.
Inserted(key, client) ==
  [c \in DOMAIN db_clients \cup {key} |->
     IF c \in DOMAIN db_clients THEN db_clients[c] ELSE client]

\* The map after _db_clients[key].
Subscript(key) == Inserted(key, 0)

\* Mutant of InBounds: off by one, in a map that grows.
InBoundsOrAt == position <= Cardinality(DOMAIN db_clients)

\* i < _db_clients.size(), asked anew each time.
InBounds == position < Cardinality(DOMAIN db_clients)

CloseNext ==
  /\ teardown = "closing" /\ InBounds
  /\ db_clients' = Subscript(position)
  /\ open' = open \ {db_clients'[c] : c \in DOMAIN db_clients' \cap {position}}
  /\ position' = position + 1
  /\ UNCHANGED teardown

CloseServer ==
  /\ teardown = "closing" /\ ~InBounds
  /\ open' = open \ {server_fd}
  /\ teardown' = "closed"
  /\ UNCHANGED <<db_clients, position>>

-----------------------------------------------------------------------------
\* close_fds called any number of times, on any clients each of which is found
\* under its own descriptor.
CloseInit ==
  /\ IsFiniteSet(DOMAIN db_clients) /\ DOMAIN db_clients \subseteq Nat
  /\ db_clients = [c \in DOMAIN db_clients |-> c]
  /\ position = 0 /\ teardown = "none"

CloseStep == Begin \/ CloseNext \/ CloseServer

CloseSpec == CloseInit /\ [][CloseStep]_fds

\* When close_fds returns no client holds an open descriptor, nor does the
\* server, although the positions it counts are no descriptors: the loop goes
\* on until it has come past the largest of them, for each client missing on
\* the way is inserted (Server.cpp, close_fds).
AllClosed ==
  teardown = "closed" =>
    /\ \A c \in DOMAIN db_clients : db_clients[c] \notin open
    /\ server_fd \notin open
=============================================================================
