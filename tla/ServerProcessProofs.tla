-------------------------- MODULE ServerProcessProofs --------------------------
(***************************************************************************)
(* Proofs about ServerProcess, for every number of descriptors and clients *)
(* and every length of the backlog and of what clients send.               *)
(***************************************************************************)
EXTENDS ServerProcess, CloseFdsProofs, NumberProofs, SequenceTheorems

-----------------------------------------------------------------------------
(* Numbers in order: what erasing entries of a vector rests on *)

Increasing(f) == \A j, k \in DOMAIN f : j < k => f[j] < f[k]

HasOrder(m) ==
  \A K \in SUBSET (1..m) :
    \E f \in [1..Cardinality(K) -> K] : Increasing(f)

\* The positions of a vector, and so any of them, can be put in order: an order
\* of the smaller ones goes on with the largest.
LEMMA OrderExtends ==
  ASSUME NEW m \in Nat, HasOrder(m)
  PROVE  HasOrder(m + 1)
<1> SUFFICES ASSUME NEW K \in SUBSET (1..m + 1)
             PROVE  \E f \in [1..Cardinality(K) -> K] : Increasing(f)
  BY DEF HasOrder
<1>1. CASE m + 1 \notin K
  <2>1. K \in SUBSET (1..m)
    BY <1>1
  <2> QED
    BY <2>1 DEF HasOrder
<1>2. CASE m + 1 \in K
  <2> DEFINE J == K \ {m + 1}
  <2>1. J \in SUBSET (1..m) /\ K = J \cup {m + 1} /\ m + 1 \notin J
    BY <1>2
  <2>2. IsFiniteSet(J)
    BY <2>1, FS_Interval, FS_Subset, 1 \in Int, m \in Int
  <2>3. Cardinality(J) \in Nat /\ Cardinality(K) = Cardinality(J) + 1
    BY <2>1, <2>2, FS_AddElement, FS_CardinalityType
  <2>4. PICK f \in [1..Cardinality(J) -> J] : Increasing(f)
    BY <2>1 DEF HasOrder
  <2> HIDE DEF J
  <2>5. PICK n \in Nat : n = Cardinality(J)
    BY <2>3
  <2> PICK g : g = [k \in 1..n + 1 |-> IF k = n + 1 THEN m + 1 ELSE f[k]]
    OBVIOUS
  <2>6. g \in [1..Cardinality(K) -> K]
    <3>1. \A k \in 1..n + 1 : k = n + 1 \/ k \in 1..n
      OBVIOUS
    <3>2. f \in [1..n -> J] /\ J \subseteq K /\ m + 1 \in K
      BY <2>1, <2>4, <2>5
    <3>3. \A k \in 1..n + 1 : (IF k = n + 1 THEN m + 1 ELSE f[k]) \in K
      BY <3>1, <3>2
    <3>4. g \in [1..n + 1 -> K]
      BY <3>3, Zenon
    <3> QED
      BY <3>4, <2>3, <2>5
  <2>7. Increasing(g)
    <3> SUFFICES ASSUME NEW j \in 1..n + 1, NEW k \in 1..n + 1, j < k
                 PROVE  g[j] < g[k]
      <4>1. DOMAIN g = 1..n + 1
        BY Zenon
      <4> QED
        BY <4>1 DEF Increasing
    <3>1. j \in 1..n /\ f \in [1..n -> J]
      BY <2>4, <2>5
    <3>2. \A x \in 1..n + 1 : g[x] = IF x = n + 1 THEN m + 1 ELSE f[x]
      BY Zenon
    <3>3. j # n + 1 /\ g[j] = f[j]
      BY <3>1, <3>2
    <3>4. f[j] \in 1..m
      BY <2>1, <3>1
    <3>5. CASE k = n + 1
      BY <3>2, <3>3, <3>4, <3>5
    <3>6. CASE k # n + 1
      <4>1. k \in 1..n /\ g[k] = f[k]
        BY <3>2, <3>6
      <4> QED
        BY <4>1, <3>1, <3>3, <2>4 DEF Increasing
    <3> QED
      BY <3>5, <3>6
  <2> QED
    BY <2>6, <2>7
<1> QED
  BY <1>1, <1>2

LEMMA OrderExists == \A m \in Nat : HasOrder(m)
<1>1. HasOrder(0)
  <2> SUFFICES ASSUME NEW K \in SUBSET (1..0)
               PROVE  \E f \in [1..Cardinality(K) -> K] : Increasing(f)
    BY DEF HasOrder
  <2>1. 1..0 = {}
    OBVIOUS
  <2>2. K = {} /\ Cardinality(K) = 0
    BY <2>1, FS_EmptySet
  <2>3. [k \in {} |-> k] \in [{} -> K]
    BY Zenon
  <2>4. PICK f \in [{} -> K] : TRUE
    BY <2>3
  <2>5. 1..Cardinality(K) = {}
    BY <2>1, <2>2
  <2>6. f \in [1..Cardinality(K) -> K] /\ DOMAIN f = {}
    BY <2>5
  <2> QED
    BY <2>6 DEF Increasing
<1>2. SUFFICES ASSUME NEW bad \in Nat, ~HasOrder(bad)
               PROVE  FALSE
  OBVIOUS
<1>3. PICK m \in {n \in Nat : ~HasOrder(n)} :
             \A n \in {x \in Nat : ~HasOrder(x)} : m <= n
  BY <1>2, LeastNumber
<1>4. m # 0
  BY <1>1, <1>3
<1>5. m - 1 \in Nat /\ HasOrder(m - 1)
  BY <1>3, <1>4
<1>6. HasOrder(m - 1 + 1)
  BY <1>5, OrderExtends
<1> QED
  BY <1>3, <1>5, <1>6

\* What InOrder returns: all of the numbers, each once, none before a number
\* that is smaller, so that the k-th is at least k.
LEMMA InOrderEnumerates ==
  ASSUME NEW m \in Nat, NEW K \in SUBSET (1..m)
  PROVE  /\ Cardinality(K) \in Nat
         /\ InOrder(K) \in [1..Cardinality(K) -> K]
         /\ Increasing(InOrder(K))
         /\ \A x \in K : \E k \in 1..Cardinality(K) : InOrder(K)[k] = x
         /\ \A k \in 1..Cardinality(K) : InOrder(K)[k] >= k
<1> PICK f : f = InOrder(K)
  OBVIOUS
<1>1. IsFiniteSet(K) /\ Cardinality(K) \in Nat
  BY FS_Interval, FS_Subset, FS_CardinalityType, 1 \in Int, m \in Int
<1>2. PICK n \in Nat : n = Cardinality(K)
  BY <1>1
<1>3. f \in [1..n -> K] /\ Increasing(f)
  <2>1. \E h \in [1..Cardinality(K) -> K] : Increasing(h)
    BY OrderExists DEF HasOrder
  <2>2. f \in [1..Cardinality(K) -> K] /\ Increasing(f)
    BY <2>1 DEF InOrder, Increasing
  <2> QED
    BY <2>2, <1>2
<1>4. \A j, k \in 1..n : j < k => f[j] < f[k]
  BY <1>3 DEF Increasing
<1>5. \A k \in 1..n : f[k] \in 1..m
  BY <1>3
<1>6. f \in Surjection(1..n, K)
  <2>1. ASSUME NEW j \in 1..n, NEW k \in 1..n, f[j] = f[k]
        PROVE  j = k
    <3>1. ~(j < k) /\ ~(k < j)
      BY <1>4, <1>5, <2>1
    <3> QED
      BY <3>1
  <2>2. IsInjective(f)
    BY <1>3, <2>1 DEF IsInjective
  <2>3. f \in Injection(1..n, K)
    BY <1>3, <2>2 DEF Injection
  <2>4. Cardinality(1..n) = n
    BY FS_Interval, 1 \in Int, n \in Int
  <2>5. Cardinality(1..n) = Cardinality(K)
    BY <1>2, <2>4
  <2> QED
    BY <1>1, <2>3, <2>5, FS_Injection
<1>7. \A x \in K : \E k \in 1..n : f[k] = x
  BY <1>6 DEF Surjection
<1>8. ASSUME NEW low \in 1..n, ~(f[low] >= low)
      PROVE  FALSE
  <2> PICK Low : Low = {x \in 1..n : ~(f[x] >= x)}
    OBVIOUS
  <2>0. Low \subseteq Nat /\ Low # {}
    BY <1>8
  <2>1. PICK k \in Low : \A j \in Low : k <= j
    BY <2>0, LeastNumber
  <2>2. f[k] \in 1..m /\ f[k] < k /\ k \in 1..n
    BY <1>5, <2>1
  <2>3. k - 1 \in 1..n
    BY <2>2
  <2>4. f[k - 1] >= k - 1
    BY <2>1, <2>2, <2>3
  <2>5. f[k - 1] < f[k] /\ f[k - 1] \in 1..m
    BY <1>4, <1>5, <2>2, <2>3
  <2> QED
    BY <2>2, <2>4, <2>5
<1>9. \A k \in 1..n : f[k] >= k
  BY <1>8
<1> QED
  BY <1>1, <1>2, <1>3, <1>7, <1>9

-----------------------------------------------------------------------------
(* The vector of poll entries *)

\* What is true of the vector q when the clients are those in D.
Vector(q, D) ==
  /\ q \in Seq(Pollfd) /\ Len(q) >= 1
  /\ q[1].fd = server_fd
  /\ \A k \in 2..Len(q) : q[k].fd \in D
  /\ \A c \in D : \E k \in 2..Len(q) : q[k].fd = c
  /\ \A k, l \in 1..Len(q) : q[k].fd = q[l].fd => k = l

\* order tells which of the m entries the n entries without R's are.
MovesUp(order, n, m, R) ==
  /\ order \in [1..n -> 1..m] /\ Increasing(order)
  /\ Unpolled(R) = [k \in 1..n |-> pollfds[order[k]]]
  /\ \A k \in 1..n : order[k] >= k /\ pollfds[order[k]].fd \notin R
  /\ \A l \in 1..m : pollfds[l].fd \notin R => \E k \in 1..n : order[k] = l

\* Entries move up only, and only those of R go.
LEMMA UnpolledMovesUp ==
  ASSUME pollfds \in Seq(Pollfd), NEW R, NEW m, m = Len(pollfds)
  PROVE  \E n \in 0..m : \E order : MovesUp(order, n, m, R)
<1>1. m \in Nat /\ DOMAIN pollfds = 1..m
  BY LenProperties
<1>2. PICK K : K = Kept(R)
  OBVIOUS
<1>3. K \in SUBSET (1..m) /\ \A l \in 1..m : l \in K <=> pollfds[l].fd \notin R
  BY <1>1, <1>2 DEF Kept
<1>4. PICK n \in Nat : n = Cardinality(K)
  BY <1>1, <1>3, InOrderEnumerates
<1>5. PICK order : order = InOrder(K)
  OBVIOUS
<1>6. /\ order \in [1..n -> K] /\ Increasing(order)
      /\ \A x \in K : \E k \in 1..n : order[k] = x
      /\ \A k \in 1..n : order[k] >= k
  BY <1>1, <1>3, <1>4, <1>5, InOrderEnumerates
<1>7. order \in [1..n -> 1..m]
  BY <1>3, <1>6
<1>8. Unpolled(R) = [k \in 1..n |-> pollfds[order[k]]]
  <2>1. DOMAIN order = 1..n
    BY <1>6
  <2> QED
    BY <1>2, <1>5, <2>1 DEF Unpolled
<1>9. n <= m
  <2>1. CASE n = 0
    BY <2>1
  <2>2. CASE n # 0
    <3>1. n \in 1..n
      BY <2>2
    <3>2. order[n] >= n /\ order[n] \in 1..m
      BY <1>6, <1>7, <3>1
    <3> QED
      BY <3>2
  <2> QED
    BY <2>1, <2>2
<1>10. MovesUp(order, n, m, R)
  BY <1>3, <1>6, <1>7, <1>8 DEF MovesUp
<1> QED
  BY <1>1, <1>9, <1>10

\* Erasing clients keeps the listening socket first and the rest in step.
LEMMA VectorUnpolled ==
  ASSUME NEW D, Vector(pollfds, D), NEW R, server_fd \notin R
  PROVE  Vector(Unpolled(R), D \ R)
<1>1. pollfds \in Seq(Pollfd)
  BY DEF Vector
<1>2. PICK m \in Nat : m = Len(pollfds) /\ pollfds \in [1..m -> Pollfd]
  BY <1>1, LenProperties
<1>3. PICK n \in 0..m : \E order : MovesUp(order, n, m, R)
  BY <1>1, <1>2, UnpolledMovesUp
<1> PICK order : MovesUp(order, n, m, R)
  BY <1>3
<1>4. /\ n \in Nat /\ order \in [1..n -> 1..m]
      /\ Unpolled(R) = [k \in 1..n |-> pollfds[order[k]]]
      /\ \A k \in 1..n : order[k] >= k /\ pollfds[order[k]].fd \notin R
      /\ \A l \in 1..m : pollfds[l].fd \notin R => \E k \in 1..n : order[k] = l
      /\ \A j, k \in 1..n : j < k => order[j] < order[k]
  BY DEF MovesUp, Increasing
<1>5. PICK q : q = Unpolled(R)
  OBVIOUS
<1>6. /\ q \in [1..n -> Pollfd] /\ q \in Seq(Pollfd) /\ Len(q) = n
      /\ \A k \in 1..n : q[k] = pollfds[order[k]]
  <2>1. \A k \in 1..n : pollfds[order[k]] \in Pollfd
    BY <1>2, <1>4
  <2>2. q \in [1..n -> Pollfd]
    BY <1>4, <1>5, <2>1
  <2> QED
    BY <1>4, <1>5, <2>2, IsASeq
<1>7. /\ m >= 1 /\ pollfds[1].fd = server_fd
      /\ \A k \in 2..m : pollfds[k].fd \in D
      /\ \A c \in D : \E k \in 2..m : pollfds[k].fd = c
      /\ \A k, l \in 1..m : pollfds[k].fd = pollfds[l].fd => k = l
  BY <1>2 DEF Vector
<1>8. 1 \in 1..n /\ order[1] = 1
  <2>1. PICK k \in 1..n : order[k] = 1
    BY <1>4, <1>7
  <2>2. k = 1
    BY <1>4, <2>1
  <2> QED
    BY <2>1, <2>2
<1>9. \A k \in 2..n : q[k].fd \in D \ R
  <2> SUFFICES ASSUME NEW k \in 2..n PROVE q[k].fd \in D \ R
    OBVIOUS
  <2>1. order[k] \in 2..m
    BY <1>4
  <2> QED
    BY <1>4, <1>6, <1>7, <2>1
<1>10. \A c \in D \ R : \E k \in 2..n : q[k].fd = c
  <2> SUFFICES ASSUME NEW c \in D \ R PROVE \E k \in 2..n : q[k].fd = c
    OBVIOUS
  <2>1. PICK l \in 2..m : pollfds[l].fd = c
    BY <1>7
  <2>2. PICK k \in 1..n : order[k] = l
    BY <1>4, <2>1
  <2>3. k \in 2..n
    BY <1>8, <2>2
  <2> QED
    BY <1>6, <2>1, <2>2, <2>3
<1>11. \A k, l \in 1..n : q[k].fd = q[l].fd => k = l
  <2> SUFFICES ASSUME NEW k \in 1..n, NEW l \in 1..n, q[k].fd = q[l].fd
               PROVE  k = l
    OBVIOUS
  <2>1. order[k] = order[l] /\ order[k] \in 1..m
    BY <1>4, <1>6, <1>7
  <2>2. ~(k < l) /\ ~(l < k)
    BY <1>4, <2>1
  <2> QED
    BY <2>2
<1> QED
  BY <1>5, <1>6, <1>7, <1>8, <1>9, <1>10, <1>11 DEF Vector

\* Events may change as they like.
LEMMA VectorEvents ==
  ASSUME NEW D, NEW q, Vector(q, D),
         NEW r \in Seq(Pollfd), Len(r) = Len(q),
         \A k \in 1..Len(q) : r[k].fd = q[k].fd
  PROVE  Vector(r, D)
<1>1. PICK m \in Nat : m = Len(q)
  BY LenProperties DEF Vector
<1>2. /\ m >= 1 /\ q[1].fd = server_fd
      /\ \A k \in 2..m : q[k].fd \in D
      /\ \A c \in D : \E k \in 2..m : q[k].fd = c
      /\ \A k, l \in 1..m : q[k].fd = q[l].fd => k = l
  BY <1>1 DEF Vector
<1>3. \A k \in 1..m : r[k].fd = q[k].fd
  BY <1>1
<1>4. /\ 1 \in 1..m
      /\ \A k \in 2..m : r[k].fd \in D
      /\ \A c \in D : \E k \in 2..m : r[k].fd = c
      /\ \A k, l \in 1..m : r[k].fd = r[l].fd => k = l
  BY <1>2, <1>3
<1> QED
  BY <1>1, <1>2, <1>3, <1>4 DEF Vector

\* Clearing an event changes no descriptor.
LEMMA VectorCleared ==
  ASSUME NEW D, NEW q, Vector(q, D), i \in Nat \ {0}
  PROVE  /\ Vector(Cleared(q), D)
         /\ Len(Cleared(q)) = Len(q)
         /\ \A k \in 1..Len(q) :
              /\ Cleared(q)[k].fd = q[k].fd
              /\ Cleared(q)[k].revents = IF k = i THEN {} ELSE q[k].revents
<1>1. PICK m \in Nat : m = Len(q) /\ q \in [1..m -> Pollfd]
  BY LenProperties DEF Vector
<1>2. PICK r : r = Cleared(q)
  OBVIOUS
<1>3. /\ r \in [1..m -> Pollfd]
      /\ \A k \in 1..m : /\ r[k].fd = q[k].fd
                         /\ r[k].revents = IF k = i THEN {} ELSE q[k].revents
  <2>1. CASE i \in 1..m
    <3>1. r = [q EXCEPT ![i].revents = {}]
      BY <1>1, <1>2, <2>1 DEF Cleared
    <3>2. \A k \in 1..m : q[k] \in Pollfd
      BY <1>1
    <3>3. \A k \in 1..m : r[k] = IF k = i THEN [q[i] EXCEPT !.revents = {}] ELSE q[k]
      BY <1>1, <3>1
    <3>4. [q[i] EXCEPT !.revents = {}] \in Pollfd
      BY <2>1, <3>2 DEF Pollfd
    <3>5. DOMAIN r = 1..m /\ r = [k \in 1..m |-> r[k]]
      BY <1>1, <3>1
    <3>6. \A k \in 1..m : r[k] \in Pollfd
      BY <3>2, <3>3, <3>4
    <3>7. r \in [1..m -> Pollfd]
      BY <3>5, <3>6
    <3> QED
      BY <3>2, <3>3, <3>7 DEF Pollfd
  <2>2. CASE i \notin 1..m
    <3>1. r = q
      BY <1>1, <1>2, <2>2 DEF Cleared
    <3> QED
      BY <1>1, <2>2, <3>1
  <2> QED
    BY <2>1, <2>2
<1>4. r \in Seq(Pollfd) /\ Len(r) = m
  BY <1>3, IsASeq
<1>5. Vector(r, D)
  BY <1>1, <1>3, <1>4, VectorEvents
<1> QED
  BY <1>1, <1>2, <1>3, <1>5

\* A client accepted comes last, and nothing is said of it yet.
LEMMA VectorAppend ==
  ASSUME NEW D, Vector(pollfds, D), NEW fd \in Clients, fd \notin D
  PROVE  /\ Vector(Append(pollfds, NewEntry(fd)), D \cup {fd})
         /\ Len(Append(pollfds, NewEntry(fd))) = Len(pollfds) + 1
         /\ \A k \in 1..Len(pollfds) : Append(pollfds, NewEntry(fd))[k] = pollfds[k]
         /\ Append(pollfds, NewEntry(fd))[Len(pollfds) + 1].revents = {}
<1>1. PICK m \in Nat : m = Len(pollfds) /\ pollfds \in [1..m -> Pollfd]
  BY LenProperties DEF Vector
<1>2. PICK new : new = NewEntry(fd)
  OBVIOUS
<1>3. new \in Pollfd /\ new.fd = fd /\ new.revents = {}
  BY <1>2 DEF NewEntry, Pollfd
<1>4. PICK q : q = Append(pollfds, new)
  OBVIOUS
<1>5. /\ q \in Seq(Pollfd) /\ Len(q) = m + 1
      /\ \A k \in 1..m : q[k] = pollfds[k]
      /\ q[m + 1] = new
  BY <1>1, <1>3, <1>4, AppendProperties DEF Vector
<1>6. fd # server_fd
  BY ServerFdAssumption, ProcessAssumption DEF Clients
<1>7. \A k \in 1..m : pollfds[k].fd # fd
  <2> SUFFICES ASSUME NEW k \in 1..m PROVE pollfds[k].fd # fd
    OBVIOUS
  <2>1. k = 1 \/ k \in 2..m
    OBVIOUS
  <2> QED
    BY <1>1, <1>6, <2>1 DEF Vector
<1>8. Vector(q, D \cup {fd})
  <2>1. \A k \in 1..m + 1 : k = m + 1 \/ k \in 1..m
    OBVIOUS
  <2>2. m >= 1 /\ q[1].fd = server_fd
    BY <1>1, <1>5 DEF Vector
  <2>3. \A k \in 2..m + 1 : q[k].fd \in D \cup {fd}
    BY <1>1, <1>3, <1>5 DEF Vector
  <2>4. \A c \in D \cup {fd} : \E k \in 2..m + 1 : q[k].fd = c
    <3>1. m + 1 \in 2..m + 1
      BY <2>2
    <3>2. \A c \in D : \E k \in 2..m : q[k].fd = c
      BY <1>1, <1>5 DEF Vector
    <3> QED
      BY <1>3, <1>5, <3>1, <3>2
  <2>5. \A k, l \in 1..m + 1 : q[k].fd = q[l].fd => k = l
    <3>1. \A k, l \in 1..m : q[k].fd = q[l].fd => k = l
      BY <1>1, <1>5 DEF Vector
    <3>2. \A k \in 1..m : q[k].fd # q[m + 1].fd
      BY <1>3, <1>5, <1>7
    <3> QED
      BY <2>1, <3>1, <3>2
  <2> QED
    BY <1>5, <2>2, <2>3, <2>4, <2>5 DEF Vector
<1> QED
  BY <1>1, <1>2, <1>3, <1>4, <1>5, <1>8

\* There are at most as many entries as descriptors.
LEMMA VectorBounded ==
  ASSUME NEW D, NEW q, Vector(q, D)
  PROVE  Len(q) <= MaxFd - server_fd + 1
<1>1. PICK m \in Nat : m = Len(q) /\ q \in [1..m -> Pollfd]
  BY LenProperties DEF Vector
<1>2. PICK f : f = [k \in 1..m |-> q[k].fd]
  OBVIOUS
<1>3. server_fd \in Int /\ MaxFd \in Int /\ MaxFd > server_fd
  BY ServerFdAssumption, ProcessAssumption
<1>4. \A k \in 1..m : q[k].fd \in server_fd..MaxFd
  BY <1>1, <1>3 DEF Pollfd, Clients
<1>5. f \in [1..m -> server_fd..MaxFd]
  BY <1>2, <1>4
<1>6. f \in Injection(1..m, server_fd..MaxFd)
  BY <1>1, <1>2, <1>5 DEF Vector, Injection, IsInjective
<1>7. /\ IsFiniteSet(server_fd..MaxFd)
      /\ Cardinality(server_fd..MaxFd) = MaxFd - server_fd + 1
  BY <1>3, FS_Interval
<1>8. Cardinality(1..m) = m
  BY FS_Interval, 1 \in Int, m \in Int
<1> QED
  BY <1>1, <1>6, <1>7, <1>8, FS_Injection

-----------------------------------------------------------------------------
(* The inductive invariant *)

\* close_fds has not begun before the loop is left.
NotClosing ==
  pc \in Starting \cup Looping \cup {"failed"} => teardown = "none"

\* The system calls of the constructor leave these descriptors open.
StartInv ==
  pc \in Starting =>
    /\ DOMAIN db_clients = {}
    /\ pc = "socket" => open = 0..server_fd - 1
    /\ pc = "bind" => open = 0..server_fd
    /\ pc = "nonblocking" => open = IF bound THEN 0..server_fd ELSE 0..server_fd - 1
    /\ pc = "listen" => /\ bound /\ open = 0..server_fd
                        /\ pollfds = <<NewEntry(server_fd)>>

\* While the server is up each client has one entry and one descriptor.
UpInv ==
  pc \in Looping =>
    /\ bound
    /\ DOMAIN db_clients \subseteq Clients
    /\ open = 0..server_fd \cup DOMAIN db_clients
    /\ Vector(pollfds, DOMAIN db_clients)

ProcessInv ==
  /\ ProcessTypeOK /\ CloseInv
  /\ NotClosing /\ StartInv /\ UpInv
  /\ EventsCurrent

\* What CloseInv says before close_fds begins.
LEMMA NothingPassed ==
  ASSUME IsFiniteSet(DOMAIN db_clients), DOMAIN db_clients \subseteq Nat,
         position \in Nat, teardown = "none"
  PROVE  CloseInv
BY DEF CloseInv, PassedClosed, AllClosed

LEMMA FdsKept ==
  ASSUME CloseInv, UNCHANGED fds
  PROVE  CloseInv'
BY DEF fds, CloseInv, PassedClosed, AllClosed, Passed

LEMMA ClientsAreNumbers ==
  /\ server_fd \in Nat /\ MaxFd \in Nat /\ server_fd < MaxFd
  /\ Clients = server_fd + 1..MaxFd /\ Clients \subseteq Nat
  /\ server_fd \notin Clients
BY ServerFdAssumption, ProcessAssumption DEF Clients

\* The entries run() has to look at are entries of clients or of the server.
LEMMA EntryTypes ==
  ASSUME ProcessTypeOK
  PROVE  /\ i \in Nat \ {0} /\ Len(pollfds) \in Nat
         /\ DOMAIN pollfds = 1..Len(pollfds)
         /\ \A k \in 1..Len(pollfds) :
              /\ pollfds[k] \in Pollfd
              /\ pollfds[k].fd \in {server_fd} \cup Clients
<1>1. pollfds \in [1..Len(pollfds) -> Pollfd] /\ Len(pollfds) \in Nat
  BY LenProperties DEF ProcessTypeOK
<1>2. i \in Nat \ {0}
  BY ClientsAreNumbers DEF ProcessTypeOK
<1> QED
  BY <1>1, <1>2 DEF Pollfd

LEMMA ProcessInitInv == Init => ProcessInv
<1> SUFFICES ASSUME Init PROVE ProcessInv
  OBVIOUS
<1>1. DOMAIN db_clients = {}
  BY DEF Init
<1>2. ProcessTypeOK
  <2>1. <<>> \in Seq(Pollfd)
    OBVIOUS
  <2>2. data \in [Clients -> 0..MaxData] /\ backlog \in 0..MaxBacklog
    BY ProcessAssumption DEF Init
  <2>3. i \in 1..MaxFd - server_fd + 2 /\ open \subseteq 0..MaxFd
    BY ClientsAreNumbers DEF Init
  <2> QED
    BY <1>1, <2>1, <2>2, <2>3 DEF Init, ProcessTypeOK, Starting
<1>3. CloseInv
  BY <1>1, NothingPassed, FS_EmptySet DEF Init
<1> QED
  BY <1>1, <1>2, <1>3
     DEF Init, ProcessInv, NotClosing, StartInv, UpInv, EventsCurrent, Starting, Looping

-----------------------------------------------------------------------------
(* Starting *)

LEMMA FailsKeeps ==
  ASSUME ProcessInv, NEW call \in Starting, Fails(call)
  PROVE  ProcessInv'
<1>1. CloseInv'
  BY FdsKept DEF ProcessInv, Fails
<1>2. ProcessTypeOK'
  BY DEF ProcessInv, ProcessTypeOK, Fails, peers, fds
<1> QED
  BY <1>1, <1>2 DEF ProcessInv, Fails, NotClosing, StartInv, UpInv,
                    EventsCurrent, Starting, Looping, fds

LEMMA StartKeeps ==
  ASSUME ProcessInv, socket \/ bind \/ setNonBlocking \/ listen
  PROVE  ProcessInv'
<1>1. /\ pc \in Starting /\ teardown = "none" /\ teardown' = "none"
      /\ pc' \in Starting \cup {"failed", "test"}
      /\ UNCHANGED <<db_clients, position, i, peers, g_running>>
      /\ DOMAIN db_clients = {}
  BY DEF ProcessInv, NotClosing, StartInv, Starting, socket, bind,
         setNonBlocking, listen, fds
<1>2. CloseInv'
  BY <1>1 DEF ProcessInv, CloseInv, PassedClosed, AllClosed
<1>3. /\ NewEntry(server_fd) \in Pollfd /\ NewEntry(server_fd).fd = server_fd
      /\ <<NewEntry(server_fd)>> \in Seq(Pollfd)
  BY DEF NewEntry, Pollfd
<1>4. /\ open' \subseteq 0..server_fd /\ bound' \in BOOLEAN
      /\ pollfds' \in Seq(Pollfd) /\ StartInv'
  <2>0. /\ 0..server_fd - 1 \subseteq 0..server_fd
        /\ (0..server_fd - 1) \cup {server_fd} = 0..server_fd
        /\ (0..server_fd) \ {server_fd} = 0..server_fd - 1
        /\ bound \in BOOLEAN /\ pollfds \in Seq(Pollfd)
    BY ClientsAreNumbers DEF ProcessInv, ProcessTypeOK
  <2>1. CASE socket
    <3>1. /\ open' = 0..server_fd /\ pc' = "bind" /\ UNCHANGED <<bound, pollfds>>
      BY <2>0, <2>1 DEF ProcessInv, StartInv, Starting, socket
    <3> QED
      BY <1>1, <2>0, <3>1 DEF StartInv
  <2>2. CASE bind
    <3>1. /\ open = 0..server_fd /\ bound' \in BOOLEAN
          /\ open' = (IF bound' THEN open ELSE open \ {server_fd})
          /\ pc' = "nonblocking" /\ UNCHANGED pollfds
      BY <2>2 DEF ProcessInv, StartInv, Starting, bind
    <3>2. open' = (IF bound' THEN 0..server_fd ELSE 0..server_fd - 1)
      BY <2>0, <3>1
    <3> QED
      BY <1>1, <2>0, <3>1, <3>2 DEF StartInv
  <2>3. CASE setNonBlocking
    <3>1. /\ open = IF bound THEN 0..server_fd ELSE 0..server_fd - 1
          /\ UNCHANGED <<open, bound>>
      BY <2>3 DEF ProcessInv, StartInv, Starting, setNonBlocking, fds
    <3>2. CASE server_fd \in open
      <4>1. bound /\ open = 0..server_fd
        BY <3>1, <3>2, ClientsAreNumbers
      <4>2. pc' = "listen" /\ pollfds' = <<NewEntry(server_fd)>>
        BY <2>3, <3>2 DEF setNonBlocking, fcntlSucceeds
      <4> QED
        BY <1>1, <1>3, <2>0, <3>1, <4>1, <4>2 DEF StartInv
    <3>3. CASE server_fd \notin open
      <4>1. pc' = "failed" /\ UNCHANGED pollfds
        BY <2>3, <3>3 DEF setNonBlocking, fcntlSucceeds
      <4> QED
        BY <1>1, <2>0, <3>1, <4>1 DEF StartInv, Starting
    <3> QED
      BY <3>2, <3>3
  <2>4. CASE listen
    <3>1. open = 0..server_fd /\ pc' = "test" /\ UNCHANGED <<open, bound, pollfds>>
      BY <2>4 DEF ProcessInv, StartInv, Starting, listen, fds
    <3> QED
      BY <1>1, <2>0, <3>1 DEF StartInv, Starting
  <2> QED
    BY <2>1, <2>2, <2>3, <2>4
<1>5. ProcessTypeOK'
  BY <1>1, <1>4, ClientsAreNumbers
     DEF ProcessInv, ProcessTypeOK, Starting, Looping, peers
<1>6. UpInv'
  <2>1. CASE listen
    <3>1. /\ bound' /\ open' = 0..server_fd /\ DOMAIN db_clients' = {}
          /\ pollfds' = <<NewEntry(server_fd)>>
      BY <1>1, <2>1 DEF listen, ProcessInv, StartInv, fds
    <3>2. Vector(<<NewEntry(server_fd)>>, {})
      BY <1>3 DEF Vector
    <3> QED
      BY <3>1, <3>2 DEF UpInv
  <2>2. CASE ~listen
    BY <2>2 DEF socket, bind, setNonBlocking, UpInv, Looping
  <2> QED
    BY <2>1, <2>2
<1> QED
  BY <1>1, <1>2, <1>4, <1>5, <1>6
     DEF ProcessInv, NotClosing, EventsCurrent, Starting

-----------------------------------------------------------------------------
(* The peers *)

\* What has been reported stays true while peers add to it.
LEMMA PeersKeep ==
  ASSUME ProcessInv, pc \in Looping,
         UNCHANGED <<pc, g_running, bound, pollfds, i, fds>>,
         backlog' \in 0..MaxBacklog, backlog <= backlog',
         data' \in [Clients -> 0..MaxData],
         \A c \in Clients : data[c] <= data'[c],
         ended \subseteq ended', broken \subseteq broken',
         ended' \cup broken' \subseteq DOMAIN db_clients
  PROVE  ProcessInv'
<1>1. CloseInv'
  BY FdsKept DEF ProcessInv
<1>2. ProcessTypeOK'
  BY DEF ProcessInv, ProcessTypeOK, fds
<1>3. ASSUME NEW f \in {server_fd} \cup Clients, Readable(f)
      PROVE  Readable(f)'
  <2>1. backlog \in Int /\ backlog' \in Int
    BY ProcessAssumption DEF ProcessInv, ProcessTypeOK
  <2>2. f # server_fd => data[f] \in Int /\ data'[f] \in Int /\ data[f] <= data'[f]
    BY DEF ProcessInv, ProcessTypeOK
  <2> QED
    BY <1>3, <2>1, <2>2 DEF Readable
<1>4. ASSUME NEW f \in {server_fd} \cup Clients
      PROVE  Events(f) \subseteq Events(f)'
  BY <1>3 DEF Events
<1>5. EventsCurrent'
  <2> SUFFICES ASSUME pc = "scan", NEW k \in i..Len(pollfds)
               PROVE  pollfds[k].revents \subseteq Events(pollfds[k].fd)'
    BY DEF EventsCurrent
  <2>1. k \in 1..Len(pollfds)
    BY EntryTypes DEF ProcessInv
  <2>2. pollfds[k].revents \subseteq Events(pollfds[k].fd)
    BY DEF ProcessInv, EventsCurrent
  <2>3. PICK f \in {server_fd} \cup Clients : f = pollfds[k].fd
    BY <2>1, EntryTypes DEF ProcessInv
  <2> QED
    BY <1>4, <2>2, <2>3
<1> QED
  BY <1>1, <1>2, <1>5 DEF ProcessInv, NotClosing, StartInv, UpInv, fds

LEMMA PeerSteps ==
  ASSUME ProcessInv,
         Connect \/ \E c \in Clients : Send(c) \/ End(c) \/ Break(c)
  PROVE  ProcessInv'
<1>1. /\ backlog \in 0..MaxBacklog /\ MaxBacklog \in Nat /\ MaxData \in Nat
      /\ data \in [Clients -> 0..MaxData]
      /\ ended \cup broken \subseteq DOMAIN db_clients
  BY ProcessAssumption DEF ProcessInv, ProcessTypeOK
<1>2. CASE Connect
  BY <1>1, <1>2, PeersKeep DEF Connect
<1>3. ASSUME NEW c \in Clients, Send(c)
      PROVE  ProcessInv'
  <2>1. /\ data' \in [Clients -> 0..MaxData]
        /\ \A d \in Clients : data[d] <= data'[d]
    BY <1>1, <1>3 DEF Send
  <2> QED
    BY <1>1, <1>3, <2>1, PeersKeep DEF Send
<1>4. ASSUME NEW c \in Clients, End(c)
      PROVE  ProcessInv'
  BY <1>1, <1>4, PeersKeep DEF End
<1>5. ASSUME NEW c \in Clients, Break(c)
      PROVE  ProcessInv'
  BY <1>1, <1>5, PeersKeep DEF Break
<1> QED
  BY <1>2, <1>3, <1>4, <1>5

-----------------------------------------------------------------------------
(* The loop *)

\* Steps that change nothing but where the program is.
LEMMA ControlKeeps ==
  ASSUME ProcessInv,
         \/ Test \/ Call \/ PollFails \/ Interrupt
         \/ Skip \/ AcceptFails \/ ScanEnds \/ Over
  PROVE  ProcessInv'
<1>1. UNCHANGED <<bound, pollfds, peers, fds>> /\ g_running' \in BOOLEAN
  BY DEF Test, Call, PollFails, Interrupt, Skip, AcceptFails, ScanEnds, Over,
         vars, ProcessInv, ProcessTypeOK
<1>2. CloseInv'
  BY <1>1, FdsKept DEF ProcessInv
<1>3. \/ pc' = pc
      \/ pc \in Looping /\ pc' \in Looping \cup {"stop"}
  BY DEF Test, Call, PollFails, Interrupt, Skip, AcceptFails, ScanEnds, Over,
         vars, Looping
<1>4. /\ i' \in 1..MaxFd - server_fd + 2
      /\ pc' = "scan" => pc = "scan" /\ i' \in {i, i + 1}
  <2>1. CASE Skip \/ AcceptFails
    <3>1. i <= Len(pollfds) /\ i' = i + 1 /\ pc = "scan"
      BY <2>1 DEF Skip, AcceptFails, Scanning
    <3>2. Len(pollfds) <= MaxFd - server_fd + 1
      BY <3>1, VectorBounded DEF ProcessInv, UpInv, Looping
    <3> QED
      BY <3>1, <3>2, EntryTypes, ClientsAreNumbers DEF ProcessInv
  <2>2. CASE ScanEnds
    BY <2>2, ClientsAreNumbers DEF ScanEnds
  <2>3. CASE Test \/ Call \/ PollFails \/ Interrupt \/ Over
    BY <2>3 DEF Test, Call, PollFails, Interrupt, Over, vars,
                ProcessInv, ProcessTypeOK
  <2> QED
    BY <2>1, <2>2, <2>3
<1>5. ProcessTypeOK'
  BY <1>1, <1>3, <1>4 DEF ProcessInv, ProcessTypeOK, Looping, Stopping, peers, fds
<1>6. EventsCurrent'
  <2> SUFFICES ASSUME pc' = "scan", NEW k \in i'..Len(pollfds)
               PROVE  pollfds[k].revents \subseteq Events(pollfds[k].fd)'
    BY <1>1 DEF EventsCurrent
  <2>1. k \in i..Len(pollfds) /\ pc = "scan"
    BY <1>4, EntryTypes DEF ProcessInv
  <2> QED
    BY <1>1, <2>1 DEF ProcessInv, EventsCurrent, Events, Readable, peers
<1>7. NotClosing' /\ StartInv' /\ UpInv'
  BY <1>1, <1>3
     DEF ProcessInv, NotClosing, StartInv, UpInv, Starting, Looping, fds
<1> QED
  BY <1>2, <1>5, <1>6, <1>7 DEF ProcessInv

LEMMA PollReturnsKeeps ==
  ASSUME ProcessInv, PollReturns
  PROVE  ProcessInv'
<1>1. /\ pc = "poll" /\ pc' = "scan" /\ i' = 1
      /\ UNCHANGED <<g_running, bound, peers, fds>>
  BY Zenon DEF PollReturns
<1>2. PICK m \in Nat : m = Len(pollfds) /\ DOMAIN pollfds = 1..m
  BY EntryTypes, Zenon DEF ProcessInv
<1>3. PICK q : q = pollfds'
  OBVIOUS
<1>4. \A k \in 1..m : pollfds[k] \in Pollfd
  BY <1>2, EntryTypes DEF ProcessInv
<1>5. ASSUME NEW k \in 1..m
      PROVE  /\ q[k] \in Pollfd /\ q[k].fd = pollfds[k].fd
             /\ q[k].revents = Events(pollfds[k].fd)
  <2>1. q[k] = [pollfds[k] EXCEPT !.revents = Events(pollfds[k].fd)]
    BY <1>2, <1>3 DEF PollReturns
  <2>2. Events(pollfds[k].fd) \subseteq {"POLLIN", "POLLHUP"}
    BY DEF Events
  <2> QED
    BY <1>4, <2>1, <2>2 DEF Pollfd
<1>6. q \in Seq(Pollfd) /\ Len(q) = m
  <2>1. q = [k \in 1..m |-> [pollfds[k] EXCEPT !.revents = Events(pollfds[k].fd)]]
    BY <1>2, <1>3 DEF PollReturns
  <2>2. \A k \in 1..m : [pollfds[k] EXCEPT !.revents = Events(pollfds[k].fd)] \in Pollfd
    BY <1>5, <2>1
  <2>3. q \in [1..m -> Pollfd]
    BY <2>1, <2>2
  <2> QED
    BY <2>3, IsASeq
<1>7. UpInv'
  <2>1. Vector(pollfds, DOMAIN db_clients)
    BY <1>1 DEF ProcessInv, UpInv, Looping
  <2>2. Vector(q, DOMAIN db_clients)
    BY <1>2, <1>5, <1>6, <2>1, VectorEvents
  <2> QED
    BY <1>1, <1>3, <2>2 DEF ProcessInv, UpInv, Looping, fds
<1>8. EventsCurrent'
  <2> SUFFICES ASSUME NEW k \in 1..m
               PROVE  q[k].revents \subseteq Events(q[k].fd)'
    BY <1>1, <1>3, <1>6 DEF EventsCurrent
  <2>1. q[k].revents = Events(q[k].fd)
    BY <1>5
  <2> QED
    BY <1>1, <2>1 DEF Events, Readable, peers
<1>9. CloseInv'
  BY <1>1, FdsKept DEF ProcessInv
<1>10. ProcessTypeOK'
  BY <1>1, <1>3, <1>6, ClientsAreNumbers
     DEF ProcessInv, ProcessTypeOK, Looping, peers, fds
<1> QED
  BY <1>1, <1>7, <1>8, <1>9, <1>10
     DEF ProcessInv, NotClosing, StartInv, Starting, Looping, fds

LEMMA AcceptKeeps ==
  ASSUME ProcessInv, Accept
  PROVE  ProcessInv'
<1>1. PICK fd : fd = Min(Clients \ open)
  OBVIOUS
<1>2. /\ pc = "scan" /\ i <= Len(pollfds) /\ pollfds[i].fd = server_fd
      /\ open' = open \cup {fd} /\ db_clients' = Inserted(fd, fd)
      /\ pollfds' = Append(pollfds, NewEntry(fd))
      /\ backlog' = backlog - 1 /\ backlog > 0 /\ i' = i + 1
      /\ UNCHANGED <<pc, g_running, bound, data, ended, broken, position, teardown>>
  BY <1>1 DEF Accept, Scanning, AtServer
<1>3. fd \in Clients \ open
  <2>1. Clients \ open \subseteq Nat /\ Clients \ open # {}
    BY ClientsAreNumbers DEF Accept
  <2>2. \E x \in Clients \ open : \A y \in Clients \ open : x =< y
    BY <2>1, LeastNumber
  <2> QED
    BY <1>1, <2>2 DEF Min
<1>4. PICK D : D = DOMAIN db_clients
  OBVIOUS
<1>5. DOMAIN db_clients' = D \cup {fd}
  BY <1>2, <1>4 DEF Inserted
<1>6. /\ bound /\ D \subseteq Clients /\ open = 0..server_fd \cup D
      /\ Vector(pollfds, D)
  BY <1>2, <1>4 DEF ProcessInv, UpInv, Looping
<1>7. fd \notin D
  BY <1>3, <1>6
<1> PICK q : q = Append(pollfds, NewEntry(fd))
  OBVIOUS
<1>8. /\ Vector(q, D \cup {fd}) /\ Len(q) = Len(pollfds) + 1
      /\ \A k \in 1..Len(pollfds) : q[k] = pollfds[k]
      /\ q[Len(pollfds) + 1].revents = {}
  BY <1>3, <1>6, <1>7, VectorAppend
<1>9. UpInv'
  BY <1>2, <1>3, <1>5, <1>6, <1>8 DEF UpInv
<1>10. EventsCurrent'
  <2> SUFFICES ASSUME NEW k \in i + 1..Len(pollfds) + 1, q[k].revents # {}
               PROVE  q[k].revents \subseteq Events(q[k].fd)'
    BY <1>2, <1>8 DEF EventsCurrent
  <2>1. k \in i + 1..Len(pollfds) /\ k \in i..Len(pollfds) /\ k # i
    BY <1>8, EntryTypes DEF ProcessInv
  <2>2. k \in 1..Len(pollfds) /\ i \in 1..Len(pollfds)
    BY <1>2, <2>1, EntryTypes DEF ProcessInv
  <2>3. q[k] = pollfds[k] /\ pollfds[k].fd # server_fd
    BY <1>2, <1>6, <1>8, <2>1, <2>2 DEF Vector
  <2>4. pollfds[k].revents \subseteq Events(pollfds[k].fd)
    BY <1>2, <2>1, <2>3 DEF ProcessInv, EventsCurrent
  <2> QED
    BY <1>2, <2>3, <2>4 DEF Events, Readable
<1>11. CloseInv'
  <2>1. IsFiniteSet(D \cup {fd}) /\ D \cup {fd} \subseteq Nat
    BY <1>3, <1>4, FS_AddElement, ClientsAreNumbers DEF ProcessInv, CloseInv
  <2>2. teardown' = "none" /\ position' \in Nat
    BY <1>2 DEF ProcessInv, NotClosing, CloseInv, Looping
  <2> QED
    BY <1>5, <2>1, <2>2 DEF CloseInv, PassedClosed, AllClosed
<1>12. ProcessTypeOK'
  <2>1. i' \in 1..MaxFd - server_fd + 2
    <3>1. Len(pollfds) <= MaxFd - server_fd + 1
      BY <1>6, VectorBounded
    <3> QED
      BY <1>2, <3>1, EntryTypes, ClientsAreNumbers DEF ProcessInv
  <2>2. backlog' \in 0..MaxBacklog
    BY <1>2, ProcessAssumption DEF ProcessInv, ProcessTypeOK
  <2>3. pollfds' \in Seq(Pollfd)
    BY <1>2, <1>8 DEF Vector
  <2>4. open' \subseteq 0..MaxFd /\ DOMAIN db_clients' \subseteq 0..MaxFd
    BY <1>2, <1>3, <1>4, <1>5, <1>6, ClientsAreNumbers
  <2>5. ended' \cup broken' \subseteq DOMAIN db_clients'
    BY <1>2, <1>4, <1>5 DEF ProcessInv, ProcessTypeOK
  <2> QED
    BY <1>2, <2>1, <2>2, <2>3, <2>4, <2>5 DEF ProcessInv, ProcessTypeOK
<1> QED
  BY <1>2, <1>9, <1>10, <1>11, <1>12
     DEF ProcessInv, NotClosing, StartInv, Starting

-----------------------------------------------------------------------------
(* Clients removed under the loop *)

\* The state of the clients after removeClient for each in R, but for the
\* vector.
LEMMA RemovalKeeps ==
  ASSUME ProcessInv, pc = "scan", pc' = pc,
         UNCHANGED <<g_running, bound>>,
         NEW R \in SUBSET Clients,
         NEW left \in [Clients -> 0..MaxData],
         removeClients(R, left)
  PROVE  /\ DOMAIN db_clients' = DOMAIN db_clients \ R
         /\ open' = 0..server_fd \cup DOMAIN db_clients'
         /\ DOMAIN db_clients' \subseteq Clients
         /\ CloseInv' /\ NotClosing' /\ StartInv'
         /\ data' \in [Clients -> 0..MaxData]
         /\ ended' \cup broken' \subseteq DOMAIN db_clients'
         /\ Vector(Unpolled(R), DOMAIN db_clients')
<1>1. PICK D : D = DOMAIN db_clients
  OBVIOUS
<1>2. /\ D \subseteq Clients /\ open = 0..server_fd \cup D
      /\ Vector(pollfds, D)
  BY <1>1 DEF ProcessInv, UpInv, Looping
<1>3. DOMAIN db_clients' = D \ R
  BY <1>1 DEF removeClients
<1>4. open' = 0..server_fd \cup (D \ R)
  <2>1. \A c \in R : c \notin 0..server_fd
    BY ClientsAreNumbers
  <2> QED
    BY <1>2, <2>1 DEF removeClients
<1>5. Vector(Unpolled(R), D \ R)
  BY <1>2, VectorUnpolled, ClientsAreNumbers
<1>6. CloseInv'
  <2>1. IsFiniteSet(D \ R) /\ D \ R \subseteq Nat
    BY <1>1, FS_Subset DEF ProcessInv, CloseInv
  <2>2. teardown' = "none" /\ position' \in Nat
    BY DEF removeClients, ProcessInv, NotClosing, CloseInv, Looping
  <2> QED
    BY <1>3, <2>1, <2>2 DEF CloseInv, PassedClosed, AllClosed
<1>7. NotClosing' /\ StartInv'
  BY DEF removeClients, ProcessInv, NotClosing, StartInv, Starting, Looping
<1>8. data' \in [Clients -> 0..MaxData]
  BY ProcessAssumption DEF removeClients
<1>9. ended' \cup broken' \subseteq D \ R
  BY <1>1 DEF removeClients, ProcessInv, ProcessTypeOK
<1> QED
  BY <1>1, <1>2, <1>3, <1>4, <1>5, <1>6, <1>7, <1>8, <1>9

\* An entry that is left comes from no lower place, and its events are as true
\* as they were, for nothing of its socket has been taken.
LEMMA EntriesLeft ==
  ASSUME ProcessInv, pc = "scan",
         NEW R \in SUBSET Clients,
         NEW left \in [Clients -> 0..MaxData],
         removeClients(R, left),
         NEW k \in 1..Len(Unpolled(R)), i <= k,
         \A c \in Clients : c # pollfds[i].fd => left[c] = data[c],
         pollfds[i].fd \in R \/ i < k,
         NEW f, f = Unpolled(R)[k].fd
  PROVE  Unpolled(R)[k].revents \subseteq Events(f)'
<1>1. PICK m \in Nat : m = Len(pollfds)
  BY EntryTypes DEF ProcessInv
<1>2. PICK n \in 0..m : \E order : MovesUp(order, n, m, R)
  BY <1>1, UnpolledMovesUp DEF ProcessInv, ProcessTypeOK
<1> PICK order : MovesUp(order, n, m, R)
  BY <1>2
<1>3. PICK q : q = Unpolled(R)
  OBVIOUS
<1>4. /\ order \in [1..n -> 1..m] /\ q = [x \in 1..n |-> pollfds[order[x]]]
      /\ \A x \in 1..n : order[x] >= x /\ pollfds[order[x]].fd \notin R
  BY <1>3 DEF MovesUp
<1>5. Vector(pollfds, DOMAIN db_clients) /\ Vector(q, DOMAIN db_clients \ R)
  BY <1>3, VectorUnpolled, ClientsAreNumbers DEF ProcessInv, UpInv, Looping
<1>6. k \in 1..n
  <2>1. Len(q) \in Nat /\ DOMAIN q = 1..Len(q)
    BY <1>5, LenProperties DEF Vector
  <2>2. DOMAIN q = 1..n
    BY <1>4
  <2> QED
    BY <1>3, <2>1, <2>2
<1>7. PICK l \in 1..m : l = order[k]
  BY <1>4, <1>6
<1>8. /\ q[k] = pollfds[l] /\ l >= k /\ pollfds[l].fd \notin R
      /\ l \in i..m /\ i \in 1..m
  BY <1>4, <1>6, <1>7, EntryTypes DEF ProcessInv
<1>9. f \in {server_fd} \cup Clients /\ f = pollfds[l].fd
  BY <1>1, <1>3, <1>8, EntryTypes DEF ProcessInv
<1>10. q[k].revents \subseteq Events(f) /\ f \notin R
  BY <1>1, <1>3, <1>8, <1>9 DEF ProcessInv, EventsCurrent
<1>11. f # server_fd => left[f] = data[f]
  <2>1. l # i
    BY <1>8, EntryTypes DEF ProcessInv
  <2>2. f # pollfds[i].fd
    BY <1>1, <1>5, <1>8, <1>9, <2>1 DEF Vector
  <2> QED
    BY <1>9, <2>2
<1>12. Readable(f) => Readable(f)'
  <2>1. CASE f = server_fd
    BY <2>1 DEF Readable, removeClients
  <2>2. CASE f # server_fd
    <3>1. f \in Clients /\ data'[f] = data[f]
      BY <1>9, <1>10, <1>11, <2>2 DEF removeClients
    <3>2. f \in ended' \cup broken' <=> f \in ended \cup broken
      BY <1>10 DEF removeClients
    <3> QED
      BY <2>2, <3>1, <3>2 DEF Readable
  <2> QED
    BY <2>1, <2>2
<1>13. f \in broken => f \in broken'
  BY <1>10 DEF removeClients
<1>14. Events(f) \subseteq Events(f)'
  BY <1>12, <1>13 DEF Events
<1> QED
  BY <1>3, <1>10, <1>14, SMTT(60)

LEMMA HangUpKeeps ==
  ASSUME ProcessInv, HangUp
  PROVE  ProcessInv'
<1>1. /\ pc = "scan" /\ pc' = pc /\ i' = i /\ i <= Len(pollfds)
      /\ pollfds[i].fd # server_fd
      /\ UNCHANGED <<g_running, bound>>
  BY DEF HangUp, Scanning, AtServer
<1>2. PICK S \in SUBSET broken :
        /\ removeClients(S \cup {pollfds[i].fd}, data)
        /\ pollfds' = Unpolled(S \cup {pollfds[i].fd})
  BY DEF HangUp
<1>3. PICK R : R = S \cup {pollfds[i].fd}
  OBVIOUS
<1>4. R \in SUBSET Clients /\ data \in [Clients -> 0..MaxData]
  <2>1. i \in 1..Len(pollfds)
    BY <1>1, EntryTypes DEF ProcessInv
  <2>2. pollfds[i].fd \in Clients
    BY <1>1, <2>1, EntryTypes DEF ProcessInv
  <2>3. broken \subseteq Clients
    BY <1>1 DEF ProcessInv, ProcessTypeOK, UpInv, Looping
  <2> QED
    BY <1>3, <2>2, <2>3 DEF ProcessInv, ProcessTypeOK
<1>5. removeClients(R, data) /\ pollfds' = Unpolled(R)
  BY <1>2, <1>3
<1>6. PICK q : q = Unpolled(R)
  OBVIOUS
<1>7. /\ DOMAIN db_clients' \subseteq Clients
      /\ open' = 0..server_fd \cup DOMAIN db_clients'
      /\ CloseInv' /\ NotClosing' /\ StartInv'
      /\ data' \in [Clients -> 0..MaxData]
      /\ ended' \cup broken' \subseteq DOMAIN db_clients'
      /\ Vector(q, DOMAIN db_clients')
  BY <1>1, <1>4, <1>5, <1>6, RemovalKeeps
<1>8. EventsCurrent'
  <2> SUFFICES ASSUME NEW k \in i..Len(q)
               PROVE  q[k].revents \subseteq Events(q[k].fd)'
    BY <1>1, <1>5, <1>6 DEF EventsCurrent
  <2>1. k \in 1..Len(q) /\ i <= k
    BY EntryTypes DEF ProcessInv
  <2>2. PICK f : f = q[k].fd
    OBVIOUS
  <2>3. q[k].revents \subseteq Events(f)'
    BY <1>1, <1>3, <1>4, <1>5, <1>6, <2>1, <2>2, EntriesLeft
  <2> QED
    BY <2>2, <2>3
<1>9. UpInv'
  BY <1>1, <1>5, <1>6, <1>7 DEF ProcessInv, UpInv, Looping
<1>10. ProcessTypeOK'
  <2>1. q \in Seq(Pollfd)
    BY <1>7 DEF Vector
  <2>2. open' \subseteq 0..MaxFd /\ DOMAIN db_clients' \subseteq 0..MaxFd
    BY <1>7, ClientsAreNumbers
  <2>3. backlog' = backlog /\ teardown' = teardown
    BY <1>5 DEF removeClients
  <2> QED
    BY <1>1, <1>5, <1>6, <1>7, <2>1, <2>2, <2>3 DEF ProcessInv, ProcessTypeOK
<1> QED
  BY <1>7, <1>8, <1>9, <1>10 DEF ProcessInv

LEMMA ProcessKeeps ==
  ASSUME ProcessInv, Process
  PROVE  ProcessInv'
<1>1. /\ pc = "scan" /\ pc' = pc /\ i' = i + 1 /\ i <= Len(pollfds)
      /\ pollfds[i].fd # server_fd
      /\ UNCHANGED <<g_running, bound>>
  BY DEF Process, Scanning, AtServer, Advance
<1>2. PICK c : c = pollfds[i].fd
  OBVIOUS
<1>3. PICK left : left = IF data[c] > 0 THEN [data EXCEPT ![c] = @ - 1] ELSE data
  OBVIOUS
<1>4. PICK R \in SUBSET (broken \cup {c}) :
        removeClients(R, left) /\ pollfds' = Cleared(Unpolled(R))
  BY <1>2, <1>3 DEF Process
<1>5. /\ i \in 1..Len(pollfds) /\ Len(pollfds) \in Nat
      /\ c \in Clients /\ R \in SUBSET Clients
  <2>1. i \in 1..Len(pollfds) /\ Len(pollfds) \in Nat
    BY <1>1, EntryTypes DEF ProcessInv
  <2>2. c \in Clients
    BY <1>1, <1>2, <2>1, EntryTypes DEF ProcessInv
  <2>3. broken \subseteq Clients
    BY <1>1 DEF ProcessInv, ProcessTypeOK, UpInv, Looping
  <2> QED
    BY <1>4, <2>1, <2>2, <2>3
<1>6. /\ left \in [Clients -> 0..MaxData]
      /\ \A d \in Clients : d # pollfds[i].fd => left[d] = data[d]
  <2>1. data \in [Clients -> 0..MaxData] /\ data[c] \in 0..MaxData
    BY <1>5 DEF ProcessInv, ProcessTypeOK
  <2>2. data[c] > 0 => data[c] - 1 \in 0..MaxData
    BY <2>1, ProcessAssumption
  <2> QED
    BY <1>2, <1>3, <1>5, <2>1, <2>2
<1>7. PICK q : q = Unpolled(R)
  OBVIOUS
<1>8. /\ DOMAIN db_clients' \subseteq Clients
      /\ open' = 0..server_fd \cup DOMAIN db_clients'
      /\ CloseInv' /\ NotClosing' /\ StartInv'
      /\ data' \in [Clients -> 0..MaxData]
      /\ ended' \cup broken' \subseteq DOMAIN db_clients'
      /\ Vector(q, DOMAIN db_clients')
  BY <1>1, <1>4, <1>5, <1>6, <1>7, RemovalKeeps
<1>9. PICK r : r = Cleared(q)
  OBVIOUS
<1>10. /\ Vector(r, DOMAIN db_clients') /\ Len(r) = Len(q)
       /\ \A k \in 1..Len(q) : r[k].fd = q[k].fd /\ (k # i => r[k].revents = q[k].revents)
  <2>1. PICK D : D = DOMAIN db_clients'
    OBVIOUS
  <2>2. Vector(q, D) /\ i \in Nat \ {0}
    BY <1>8, <2>1, EntryTypes DEF ProcessInv
  <2>3. /\ Vector(r, D) /\ Len(r) = Len(q)
        /\ \A k \in 1..Len(q) :
             r[k].fd = q[k].fd /\ r[k].revents = IF k = i THEN {} ELSE q[k].revents
    BY <1>9, <2>2, VectorCleared
  <2> QED
    BY <2>1, <2>3
<1>11. pollfds' = r
  BY <1>4, <1>7, <1>9
<1>12. EventsCurrent'
  <2> SUFFICES ASSUME NEW k \in i + 1..Len(q)
               PROVE  r[k].revents \subseteq Events(r[k].fd)'
    BY <1>1, <1>10, <1>11 DEF EventsCurrent
  <2>1. k \in 1..Len(q) /\ i < k /\ i <= k /\ k # i
    BY <1>5
  <2>2. PICK f : f = q[k].fd
    OBVIOUS
  <2>3. r[k].fd = f /\ r[k].revents = q[k].revents
    BY <1>10, <2>1, <2>2
  <2>4. q[k].revents \subseteq Events(f)'
    BY <1>1, <1>4, <1>5, <1>6, <1>7, <2>1, <2>2, <2>3, EntriesLeft
  <2> QED
    BY <2>3, <2>4
<1>13. UpInv'
  BY <1>1, <1>8, <1>10, <1>11 DEF ProcessInv, UpInv, Looping
<1>14. ProcessTypeOK'
  <2>1. r \in Seq(Pollfd)
    BY <1>10 DEF Vector
  <2>2. open' \subseteq 0..MaxFd /\ DOMAIN db_clients' \subseteq 0..MaxFd
    BY <1>8, ClientsAreNumbers
  <2>3. backlog' = backlog /\ teardown' = teardown
    BY <1>4 DEF removeClients
  <2>4. Len(pollfds) <= MaxFd - server_fd + 1
    BY <1>1, VectorBounded DEF ProcessInv, UpInv, Looping
  <2>5. i' \in 1..MaxFd - server_fd + 2
    BY <1>1, <1>5, <2>4, ClientsAreNumbers
  <2> QED
    BY <1>1, <1>8, <1>11, <2>1, <2>2, <2>3, <2>5 DEF ProcessInv, ProcessTypeOK
<1> QED
  BY <1>8, <1>12, <1>13, <1>14 DEF ProcessInv

-----------------------------------------------------------------------------
(* Stopping *)

\* The subscript stays among the numbers of descriptors: what is below the
\* position is in the map, and the map holds no more.
LEMMA PositionBounded ==
  ASSUME ProcessInv, CloseNext
  PROVE  position \in 0..MaxFd
<1>1. /\ position \in Nat /\ 0..position - 1 \subseteq DOMAIN db_clients
      /\ IsFiniteSet(DOMAIN db_clients)
      /\ position < Cardinality(DOMAIN db_clients)
  BY DEF ProcessInv, CloseInv, PassedClosed, Passed, CloseNext, InBounds
<1>2. MaxFd \in Int /\ 0 \in Int
  BY ProcessAssumption
<1>3. IsFiniteSet(0..MaxFd) /\ Cardinality(0..MaxFd) = MaxFd + 1
  BY <1>2, ProcessAssumption, FS_Interval
<1>4. DOMAIN db_clients \in SUBSET (0..MaxFd)
  BY DEF ProcessInv, ProcessTypeOK
<1>5. Cardinality(DOMAIN db_clients) <= MaxFd + 1
  BY <1>3, <1>4, FS_Subset
<1>6. Cardinality(DOMAIN db_clients) \in Nat
  BY <1>1, FS_CardinalityType
<1> QED
  BY <1>1, <1>2, <1>5, <1>6

LEMMA StopKeeps ==
  ASSUME ProcessInv, CloseFds \/ CloseFdsReturns
  PROVE  ProcessInv'
<1>1. /\ pc \in Stopping /\ pc' \in Stopping \cup {"over"}
      /\ UNCHANGED <<g_running, bound, pollfds, i, peers>>
      /\ Begin \/ CloseNext \/ CloseServer
  BY DEF CloseFds, CloseFdsReturns, Stopping
<1>2. CloseInv'
  BY <1>1, BeginClosed, CloseNextClosed, CloseServerClosed DEF ProcessInv
<1>3. /\ open' \subseteq open /\ teardown' \in {"none", "closing", "closed"}
      /\ DOMAIN db_clients \subseteq DOMAIN db_clients'
      /\ DOMAIN db_clients' \subseteq 0..MaxFd
  <2>1. CASE Begin \/ CloseServer
    BY <2>1 DEF Begin, CloseServer, ProcessInv, ProcessTypeOK
  <2>2. CASE CloseNext
    <3>1. position \in Nat /\ position \in 0..MaxFd
      BY <2>2, PositionBounded DEF ProcessInv, CloseInv
    <3>2. DOMAIN db_clients' = DOMAIN db_clients \cup {position}
      BY <2>2, <3>1, SubscriptInserts DEF CloseNext
    <3> QED
      BY <2>2, <3>1, <3>2 DEF CloseNext, ProcessInv, ProcessTypeOK
  <2> QED
    BY <1>1, <2>1, <2>2
<1>4. ProcessTypeOK'
  BY <1>1, <1>3 DEF ProcessInv, ProcessTypeOK, peers, Stopping
<1> QED
  BY <1>1, <1>2, <1>4
     DEF ProcessInv, NotClosing, StartInv, UpInv, EventsCurrent,
         Starting, Looping, Stopping

-----------------------------------------------------------------------------
(* Theorems *)

LEMMA ProcessNextInv == ProcessInv /\ [Next]_vars => ProcessInv'
<1> SUFFICES ASSUME ProcessInv, [Next]_vars
             PROVE  ProcessInv'
  OBVIOUS
<1>1. CASE Start
  BY <1>1, FailsKeeps, StartKeeps DEF Start
<1>2. CASE Run
  BY <1>2, ControlKeeps, PollReturnsKeeps, AcceptKeeps, HangUpKeeps, ProcessKeeps
     DEF Run
<1>3. CASE Shut
  BY <1>3, StopKeeps DEF Shut
<1>4. CASE Environment
  BY <1>4, PeerSteps, ControlKeeps DEF Environment
<1>5. CASE Over \/ UNCHANGED vars
  <2>1. UNCHANGED vars
    BY <1>5 DEF Over
  <2>2. CloseInv'
    BY <2>1, FdsKept DEF vars, ProcessInv
  <2> QED
    BY <2>1, <2>2 DEF vars, peers, fds, ProcessInv, ProcessTypeOK, NotClosing,
                      StartInv, UpInv, EventsCurrent, Events, Readable
<1> QED
  BY <1>1, <1>2, <1>3, <1>4, <1>5 DEF Next

\* The inductive invariant of the process.
THEOREM ProcessInvariant == Spec => []ProcessInv
<1> QED
  BY ProcessInitInv, ProcessNextInv, PTL DEF Spec

\* The process keeps its type: with any number of descriptors the index of
\* run() never goes beyond one past the entries there can be, and close_fds
\* inserts no key above the descriptors (Server.cpp, run, close_fds).
THEOREM ProcessTypeCorrect == Spec => []ProcessTypeOK
<1>1. ProcessInv => ProcessTypeOK
  BY DEF ProcessInv
<1> QED
  BY ProcessInvariant, <1>1, PTL

\* _pollfds and _db_clients never disagree about the clients, whatever entries
\* are erased under the loop (Server.cpp, acceptNewClient, removeClient).
THEOREM EntriesAlwaysMatch == Spec => []EntriesMatch
<1>1. ProcessInv => EntriesMatch
  <2> SUFFICES ASSUME ProcessInv, pc \in Looping
               PROVE  LET fd(k) == pollfds[k].fd
                      IN /\ fd(1) = server_fd
                         /\ {fd(k) : k \in 2..Len(pollfds)} = DOMAIN db_clients
                         /\ \A k, l \in DOMAIN pollfds : fd(k) = fd(l) => k = l
                         /\ open \ DOMAIN db_clients = 0..server_fd
                         /\ DOMAIN db_clients \subseteq open
    BY DEF EntriesMatch
  <2>1. /\ DOMAIN db_clients \subseteq Clients
        /\ open = 0..server_fd \cup DOMAIN db_clients
        /\ Vector(pollfds, DOMAIN db_clients)
    BY DEF ProcessInv, UpInv
  <2>2. DOMAIN pollfds = 1..Len(pollfds)
    BY EntryTypes DEF ProcessInv
  <2>3. {pollfds[k].fd : k \in 2..Len(pollfds)} = DOMAIN db_clients
    <3>1. \A k \in 2..Len(pollfds) : pollfds[k].fd \in DOMAIN db_clients
      BY <2>1 DEF Vector
    <3>2. \A c \in DOMAIN db_clients : \E k \in 2..Len(pollfds) : c = pollfds[k].fd
      BY <2>1 DEF Vector
    <3> QED
      BY <3>1, <3>2
  <2>4. open \ DOMAIN db_clients = 0..server_fd
    <3>1. \A c \in Clients : c \notin 0..server_fd
      BY ClientsAreNumbers
    <3> QED
      BY <2>1, <3>1
  <2> QED
    BY <2>1, <2>2, <2>3, <2>4 DEF Vector
<1> QED
  BY ProcessInvariant, <1>1, PTL

\* No recv() or accept() is made on the strength of an event that is no longer
\* true, although entries move up and revents is cleared in the wrong one
\* (Server.cpp, run).
THEOREM EventsStayCurrent == Spec => []EventsCurrent
<1>1. ProcessInv => EventsCurrent
  BY DEF ProcessInv
<1> QED
  BY ProcessInvariant, <1>1, PTL

\* The server does not serve without its port (Server.cpp, setupSocket).
THEOREM ServesBound == Spec => []ServesOnlyBound
<1>1. ProcessInv => ServesOnlyBound
  BY ClientsAreNumbers DEF ProcessInv, UpInv, ServesOnlyBound
<1> QED
  BY ProcessInvariant, <1>1, PTL

\* Both calls of close_fds close every descriptor of the server, with whatever
\* clients it has when it stops (Server.cpp, close_fds).
THEOREM NothingLeftOpen == Spec => []AllClosed
<1>1. ProcessInv => AllClosed
  BY DEF ProcessInv, CloseInv
<1> QED
  BY ProcessInvariant, <1>1, PTL

-----------------------------------------------------------------------------
(* What the sockets are promised *)

\* The refinement mapping of Loop.
loopStatus ==
  IF pc \in Starting \cup {"failed"} THEN "starting"
  ELSE IF pc \in Looping THEN "up" ELSE "down"
loopConnected == IF pc \in Looping THEN DOMAIN db_clients ELSE {}

LEMMA LoopStutters ==
  ASSUME UNCHANGED <<loopStatus, loopConnected, peers>>
  PROVE  UNCHANGED Loop!sockets
BY DEF loopStatus, loopConnected, peers, Loop!sockets

\* A place in the program where the sockets can tell no difference.
LEMMA PlaceMoves ==
  ASSUME UNCHANGED peers,
         \/ pc \in Starting /\ pc' \in Starting \cup {"failed"}
         \/ pc \in Looping /\ pc' \in Looping /\ UNCHANGED db_clients
         \/ pc \in Stopping /\ pc' \in Stopping \cup {"over"}
         \/ UNCHANGED <<pc, db_clients>>
  PROVE  UNCHANGED Loop!sockets
<1>1. UNCHANGED <<loopStatus, loopConnected>>
  BY DEF loopStatus, loopConnected, Starting, Looping, Stopping
<1> QED
  BY <1>1, LoopStutters

\* The removals of a scan, as EventLoop sees them.
LEMMA RemovalLoops ==
  ASSUME pc = "scan", pc' = pc, NEW R, NEW left, removeClients(R, left)
  PROVE  Loop!Disconnect(R, left)
<1>1. DOMAIN db_clients' = DOMAIN db_clients \ R
  BY DEF removeClients
<1> QED
  BY <1>1 DEF removeClients, Loop!Disconnect, Looping

LEMMA StartLoops ==
  ASSUME ProcessInv, Start
  PROVE  [Loop!Next]_(Loop!sockets)
<1>1. CASE listen
  <2>1. DOMAIN db_clients = {} /\ pc = "listen" /\ pc' = "test" /\ UNCHANGED <<peers, db_clients>>
    BY <1>1 DEF listen, fds, ProcessInv, StartInv, Starting
  <2>2. Loop!Start
    BY <2>1 DEF Loop!Start, Starting, Looping, peers
  <2> QED
    BY <2>2 DEF Loop!Next
<1>2. CASE ~listen
  <2>1. UNCHANGED peers /\ pc \in Starting /\ pc' \in Starting \cup {"failed"}
    BY <1>2 DEF Start, Fails, socket, bind, setNonBlocking, Starting
  <2> QED
    BY <2>1, PlaceMoves
<1> QED
  BY <1>1, <1>2

LEMMA PeersLoop ==
  ASSUME Connect \/ (\E c \in Clients : Send(c) \/ End(c) \/ Break(c))
  PROVE  Loop!Next
<1>1. CASE Connect
  BY <1>1 DEF Connect, Loop!Next, Loop!Connect, fds, Starting, Looping
<1>2. ASSUME NEW c \in Clients, Send(c) PROVE Loop!Send(c)
  BY <1>2 DEF Send, Loop!Send, fds, Starting, Looping
<1>3. ASSUME NEW c \in Clients, End(c) PROVE Loop!End(c)
  BY <1>3 DEF End, Loop!End, fds, Starting, Looping
<1>4. ASSUME NEW c \in Clients, Break(c) PROVE Loop!Break(c)
  BY <1>4 DEF Break, Loop!Break, fds, Starting, Looping
<1> QED
  BY <1>1, <1>2, <1>3, <1>4 DEF Loop!Next

\* SIGINT ends the loop, from its test or from poll().
LEMMA LoopStops ==
  ASSUME pc \in Looping, pc' = "stop", UNCHANGED peers
  PROVE  Loop!Stop
BY DEF Loop!Stop, Starting, Looping, peers

LEMMA ControlLoops ==
  ASSUME ProcessInv,
         \/ Test \/ Call \/ PollReturns \/ PollFails \/ Interrupt
         \/ Skip \/ AcceptFails \/ ScanEnds \/ Over
  PROVE  [Loop!Next]_(Loop!sockets)
<1>1. /\ UNCHANGED <<peers, db_clients>>
      /\ \/ pc' = pc
         \/ pc \in Looping /\ pc' \in Looping \cup {"stop"}
  BY DEF Test, Call, PollReturns, PollFails, Interrupt, Skip, AcceptFails, ScanEnds,
         Over, vars, fds, Looping
<1>2. CASE pc \in Looping /\ pc' = "stop"
  BY <1>1, <1>2, LoopStops DEF Loop!Next
<1>3. CASE pc' = pc \/ (pc \in Looping /\ pc' \in Looping)
  BY <1>1, <1>3, PlaceMoves
<1> QED
  BY <1>1, <1>2, <1>3

LEMMA AcceptLoops ==
  ASSUME ProcessInv, Accept
  PROVE  Loop!Accept
<1>1. PICK fd : fd = Min(Clients \ open)
  OBVIOUS
<1>2. /\ pc = "scan" /\ pc' = pc /\ db_clients' = Inserted(fd, fd)
      /\ backlog > 0 /\ backlog' = backlog - 1
      /\ UNCHANGED <<data, ended, broken>>
  BY <1>1 DEF Accept, Scanning
<1>3. fd \in Clients \ open
  <2>1. Clients \ open \subseteq Nat /\ Clients \ open # {}
    BY ClientsAreNumbers DEF Accept
  <2>2. \E x \in Clients \ open : \A y \in Clients \ open : x =< y
    BY <2>1, LeastNumber
  <2> QED
    BY <1>1, <2>2 DEF Min
<1>4. DOMAIN db_clients' = DOMAIN db_clients \cup {fd}
  BY <1>2 DEF Inserted
<1>5. fd \in Clients \ DOMAIN db_clients
  BY <1>2, <1>3 DEF ProcessInv, UpInv, Looping
<1> QED
  BY <1>2, <1>4, <1>5 DEF Loop!Accept, Starting, Looping

\* The entry run() is at is that of a client it has.
LEMMA EntryConnected ==
  ASSUME ProcessInv, Scanning, ~AtServer, NEW c, c = pollfds[i].fd
  PROVE  /\ c \in Clients /\ c \in DOMAIN db_clients
         /\ pollfds[i].revents \subseteq Events(c)
<1>1. pc = "scan" /\ i \in 1..Len(pollfds) /\ i \in i..Len(pollfds)
  BY EntryTypes DEF Scanning, ProcessInv
<1>2. Vector(pollfds, DOMAIN db_clients) /\ DOMAIN db_clients \subseteq Clients
  BY <1>1 DEF ProcessInv, UpInv, Looping
<1>3. i # 1
  BY <1>2 DEF AtServer, Vector
<1>4. i \in 2..Len(pollfds)
  BY <1>1, <1>3, EntryTypes DEF ProcessInv
<1>5. c \in DOMAIN db_clients
  BY <1>2, <1>4 DEF Vector
<1>6. pollfds[i].revents \subseteq Events(c)
  BY <1>1 DEF ProcessInv, EventsCurrent
<1> QED
  BY <1>2, <1>5, <1>6

LEMMA HangUpLoops ==
  ASSUME ProcessInv, HangUp
  PROVE  \E c \in Clients : Loop!LetGo(c)
<1>1. PICK c : c = pollfds[i].fd
  OBVIOUS
<1>2. Scanning /\ ~AtServer /\ POLLHUP /\ pc' = pc
  BY DEF HangUp
<1>3. PICK S \in SUBSET broken : removeClients(S \cup {c}, data)
  BY <1>1 DEF HangUp
<1>4. c \in Clients /\ c \in DOMAIN db_clients /\ c \in broken
  <2>1. c \in Clients /\ c \in DOMAIN db_clients /\ pollfds[i].revents \subseteq Events(c)
    BY <1>1, <1>2, EntryConnected
  <2> QED
    BY <1>2, <2>1 DEF POLLHUP, Events
<1>5. Loop!Disconnect(S \cup {c}, data)
  BY <1>2, <1>3, RemovalLoops DEF Scanning
<1>6. UNCHANGED backlog
  BY <1>3 DEF removeClients
<1>7. Loop!LetGo(c)
  BY <1>2, <1>4, <1>5, <1>6 DEF Loop!LetGo, Scanning, Starting, Looping
<1> QED
  BY <1>4, <1>7

LEMMA ProcessLoops ==
  ASSUME ProcessInv, Process
  PROVE  \E c \in Clients : Loop!Serve(c) \/ Loop!LetGo(c)
<1>1. PICK c : c = pollfds[i].fd
  OBVIOUS
<1>2. Scanning /\ ~AtServer /\ POLLIN /\ pc' = pc
  BY DEF Process
<1>3. PICK left : left = IF data[c] > 0 THEN [data EXCEPT ![c] = @ - 1] ELSE data
  OBVIOUS
<1>4. PICK R \in SUBSET (broken \cup {c}) :
        (data[c] > 0 \/ c \in R) /\ removeClients(R, left)
  BY <1>1, <1>3 DEF Process
<1>5. c \in Clients /\ c \in DOMAIN db_clients /\ Readable(c)
  <2>1. c \in Clients /\ c \in DOMAIN db_clients /\ pollfds[i].revents \subseteq Events(c)
    BY <1>1, <1>2, EntryConnected
  <2> QED
    BY <1>2, <2>1 DEF POLLIN, Events
<1>6. Loop!Disconnect(R, left) /\ UNCHANGED backlog
  BY <1>2, <1>4, RemovalLoops DEF Scanning, removeClients
<1>7. CASE data[c] > 0
  <2>1. Loop!Serve(c)
    BY <1>2, <1>3, <1>4, <1>5, <1>6, <1>7 DEF Loop!Serve, Scanning, Starting, Looping
  <2> QED
    BY <1>5, <2>1
<1>8. CASE ~(data[c] > 0)
  <2>1. left = data /\ c \in R /\ data[c] = 0
    <3>1. data[c] \in 0..MaxData
      BY <1>5 DEF ProcessInv, ProcessTypeOK
    <3>2. data[c] = 0
      BY <1>8, <3>1, ProcessAssumption
    <3> QED
      BY <1>3, <1>4, <1>8, <3>2
  <2>2. c \in broken \/ (c \in ended /\ data[c] = 0)
    BY <1>5, <1>8, <2>1, ClientsAreNumbers DEF Readable
  <2>3. PICK S : S = R \ {c}
    OBVIOUS
  <2>4. S \in SUBSET broken /\ R = S \cup {c}
    BY <1>4, <2>1, <2>3
  <2>5. Loop!Disconnect(S \cup {c}, data)
    BY <1>6, <2>1, <2>4
  <2>6. Loop!LetGo(c)
    BY <1>2, <1>5, <1>6, <2>2, <2>4, <2>5 DEF Loop!LetGo, Scanning, Starting, Looping
  <2> QED
    BY <1>5, <2>6
<1> QED
  BY <1>7, <1>8

\* Each step of the process is one that the sockets have been promised: no
\* client is served, let go or given a descriptor in any other way than
\* EventLoop allows.  That they are in the end is for TLC (EventLoopSpec).
THEOREM ProcessFollowsLoop == Spec => Loop!Init /\ [][Loop!Next]_(Loop!sockets)
<1>1. Init => Loop!Init
  BY DEF Init, Loop!Init, Starting, Looping
<1>2. ProcessInv /\ [Next]_vars => [Loop!Next]_(Loop!sockets)
  <2> SUFFICES ASSUME ProcessInv, [Next]_vars PROVE [Loop!Next]_(Loop!sockets)
    OBVIOUS
  <2>1. CASE Start
    BY <2>1, StartLoops
  <2>2. CASE Run
    <3>1. CASE Accept
      BY <3>1, AcceptLoops DEF Loop!Next
    <3>2. CASE HangUp
      BY <3>2, HangUpLoops DEF Loop!Next
    <3>3. CASE Process
      BY <3>3, ProcessLoops DEF Loop!Next
    <3> QED
      BY <2>2, <3>1, <3>2, <3>3, ControlLoops DEF Run
  <2>3. CASE Shut
    <3>1. UNCHANGED peers /\ pc \in Stopping /\ pc' \in Stopping \cup {"over"}
      BY <2>3 DEF Shut, CloseFds, CloseFdsReturns, Stopping
    <3> QED
      BY <3>1, PlaceMoves
  <2>4. CASE Environment
    BY <2>4, PeersLoop, ControlLoops DEF Environment
  <2>5. CASE Over \/ UNCHANGED vars
    BY <2>5, PlaceMoves DEF Over, vars, peers, fds
  <2> QED
    BY <2>1, <2>2, <2>3, <2>4, <2>5 DEF Next
<1> QED
  BY <1>1, <1>2, ProcessInvariant, PTL DEF Spec
=============================================================================
