---------------------------- MODULE CloseFdsProofs ----------------------------
(***************************************************************************)
(* Proofs about CloseFds: whatever descriptors the clients have, every one *)
(* of them is closed when close_fds returns.                               *)
(*                                                                         *)
(* AllClosed alone is not inductive: it follows at the end of the loop     *)
(* from two facts about the middle of it.  Each position passed is a key   *)
(* of the map by now, and its client's descriptor is closed.  The loop     *)
(* ends at a position that is not less than the size of the map; the keys  *)
(* passed are then as many as all the keys, so they are all the keys.      *)
(***************************************************************************)
EXTENDS CloseFds, FiniteSetTheorems, TLAPS

Passed == 0..position - 1

\* The clients passed are in the map, and their descriptors closed.
PassedClosed ==
  teardown # "none" =>
    /\ Passed \subseteq DOMAIN db_clients
    /\ \A c \in Passed : db_clients[c] \notin open

CloseInv ==
  /\ IsFiniteSet(DOMAIN db_clients) /\ DOMAIN db_clients \subseteq Nat
  /\ position \in Nat
  /\ PassedClosed
  /\ AllClosed

-----------------------------------------------------------------------------
\* What the subscript does to the map (std::map::operator[]): the key is there
\* afterwards, and what was there is as it was.
LEMMA SubscriptInserts ==
  ASSUME NEW key \in Nat
  PROVE  /\ DOMAIN Subscript(key) = DOMAIN db_clients \cup {key}
         /\ \A c \in DOMAIN db_clients : Subscript(key)[c] = db_clients[c]
BY DEF Subscript, Inserted

\* A finite set of numbers that holds 0..p-1 and has at most p members has no
\* other.
LEMMA IntervalFills ==
  ASSUME NEW S, IsFiniteSet(S), NEW p \in Nat,
         0..p - 1 \subseteq S, ~(p < Cardinality(S))
  PROVE  S = 0..p - 1
<1>1. /\ IsFiniteSet(0..p - 1)
      /\ Cardinality(0..p - 1) = p
  BY FS_Interval, 0 \in Int, p - 1 \in Int
<1>2. Cardinality(S) \in Nat /\ Cardinality(0..p - 1) <= Cardinality(S)
  BY FS_Subset, FS_CardinalityType
<1>3. Cardinality(0..p - 1) = Cardinality(S)
  BY <1>1, <1>2
<1> QED
  BY <1>3, FS_Subset

-----------------------------------------------------------------------------
LEMMA InitClosed == CloseInit => CloseInv
BY DEF CloseInit, CloseInv, PassedClosed, AllClosed

LEMMA BeginClosed ==
  ASSUME CloseInv, Begin
  PROVE  CloseInv'
<1>1. Passed' = {}
  BY DEF Begin, Passed
<1> QED
  BY <1>1 DEF Begin, CloseInv, PassedClosed, AllClosed

\* One turn of the loop closes one client more and opens none.
LEMMA CloseNextClosed ==
  ASSUME CloseInv, CloseNext
  PROVE  CloseInv'
<1>1. /\ position \in Nat /\ position' = position + 1
      /\ teardown = "closing" /\ teardown' = "closing"
  BY DEF CloseInv, CloseNext
<1>2. /\ DOMAIN db_clients' = DOMAIN db_clients \cup {position}
      /\ \A c \in DOMAIN db_clients : db_clients'[c] = db_clients[c]
  BY <1>1, SubscriptInserts DEF CloseNext
<1>3. IsFiniteSet(DOMAIN db_clients') /\ DOMAIN db_clients' \subseteq Nat
  BY <1>1, <1>2, FS_AddElement DEF CloseInv
<1>4. Passed' = Passed \cup {position}
  BY <1>1 DEF Passed
<1>5. open' \subseteq open /\ db_clients'[position] \notin open'
  BY <1>2 DEF CloseNext
<1>6. PassedClosed'
  <2>1. Passed' \subseteq DOMAIN db_clients'
    BY <1>1, <1>2, <1>4 DEF CloseInv, PassedClosed
  <2>2. ASSUME NEW c \in Passed
        PROVE  db_clients'[c] \notin open'
    BY <1>1, <1>2, <1>5 DEF CloseInv, PassedClosed
  <2> QED
    BY <2>1, <2>2, <1>4, <1>5 DEF PassedClosed
<1> QED
  BY <1>1, <1>3, <1>6 DEF CloseInv, AllClosed

\* The loop ends when there is no client it has not passed.
LEMMA CloseServerClosed ==
  ASSUME CloseInv, CloseServer
  PROVE  CloseInv'
<1>1. DOMAIN db_clients = Passed
  BY IntervalFills DEF CloseInv, PassedClosed, Passed, CloseServer, InBounds
<1>2. \A c \in DOMAIN db_clients : db_clients[c] \notin open
  BY <1>1 DEF CloseInv, PassedClosed, CloseServer
<1>3. /\ open' = open \ {server_fd} /\ Passed' = Passed
      /\ UNCHANGED <<db_clients, position>>
  BY DEF CloseServer, Passed
<1>4. AllClosed'
  BY <1>2, <1>3 DEF AllClosed
<1> QED
  BY <1>1, <1>2, <1>3, <1>4 DEF CloseInv, PassedClosed

-----------------------------------------------------------------------------
\* Each time close_fds returns, no client of _db_clients has a descriptor that
\* is open, nor has the server (Server.cpp, close_fds), whatever descriptors
\* the clients have and however often it has been called before.
THEOREM EveryDescriptorClosed == CloseSpec => []AllClosed
<1>1. CloseInv /\ [CloseStep]_fds => CloseInv'
  <2> SUFFICES ASSUME CloseInv, [CloseStep]_fds
               PROVE  CloseInv'
    OBVIOUS
  <2>1. CASE Begin
    BY <2>1, BeginClosed
  <2>2. CASE CloseNext
    BY <2>2, CloseNextClosed
  <2>3. CASE CloseServer
    BY <2>3, CloseServerClosed
  <2>4. CASE UNCHANGED fds
    BY <2>4 DEF fds, CloseInv, PassedClosed, AllClosed, Passed
  <2> QED
    BY <2>1, <2>2, <2>3, <2>4 DEF CloseStep
<1>2. CloseInv => AllClosed
  BY DEF CloseInv
<1> QED
  BY InitClosed, <1>1, <1>2, PTL DEF CloseSpec
=============================================================================
