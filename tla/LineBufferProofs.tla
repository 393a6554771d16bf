-------------------------- MODULE LineBufferProofs --------------------------
(***************************************************************************)
(* Proofs about LineBuffer, for every set of bytes, every length of stream *)
(* and every size of read.                                                 *)
(***************************************************************************)
EXTENDS LineBuffer, NumberProofs, SequenceTheorems

LEMMA BytesApart == LF \in Bytes /\ CR \in Bytes /\ CR # LF
BY LineBufferAssumption DEF Bytes

-----------------------------------------------------------------------------
(* Line ends of a stream *)

LEMMA SameMax == \A T : Stream!Max(T) = Max(T)
BY DEF Stream!Max, Max

LEMMA SameCardinality == \A T : Stream!Cardinality(T) = Cardinality(T)
BY DEF Stream!Cardinality, Cardinality

\* The ends of commands up to position k.
EndsTo(s, k) == {e \in Stream!CommandEnds(s) : e <= k}

LEMMA EndsAreFinite ==
  ASSUME NEW s \in Seq(Bytes), NEW k \in Nat
  PROVE  /\ IsFiniteSet(EndsTo(s, k))
         /\ Cardinality(EndsTo(s, k)) \in Nat
         /\ EndsTo(s, k) \subseteq 1..Len(s)
<1>1. EndsTo(s, k) \subseteq 1..Len(s)
  BY DEF EndsTo, Stream!CommandEnds, Stream!LineEnds
<1>2. IsFiniteSet(1..Len(s))
  BY FS_Interval
<1>3. IsFiniteSet(EndsTo(s, k))
  BY <1>1, <1>2, FS_Subset
<1> QED
  BY <1>1, <1>3, FS_CardinalityType

\* The last line end before e is k when there is none between them.
LEMMA EndBeforeIs ==
  ASSUME NEW s \in Seq(Bytes), NEW k \in 0..Len(s), NEW e \in Nat, k < e,
         k = 0 \/ s[k] = LF,
         \A i \in 1..Len(s) : k < i /\ i < e => s[i] # LF
  PROVE  Stream!EndBefore(s, e) = k
<1> DEFINE T == {0} \cup {i \in Stream!LineEnds(s) : i < e}
<1>1. T \subseteq Nat /\ k \in T
  BY DEF Stream!LineEnds
<1>2. \A x \in T : x <= k
  BY DEF Stream!LineEnds
<1>3. Max(T) = k
  <2> HIDE DEF T
  <2> QED
    BY <1>1, <1>2, MaxIs
<1> QED
  BY <1>3, SameMax DEF Stream!EndBefore

\* There is a last line end before e.
LEMMA EndBeforeExists ==
  ASSUME NEW s \in Seq(Bytes), NEW e \in 1..Len(s)
  PROVE  /\ Stream!EndBefore(s, e) \in 0..(e - 1)
         /\ Stream!EndBefore(s, e) = 0 \/ s[Stream!EndBefore(s, e)] = LF
         /\ \A i \in 1..Len(s) : Stream!EndBefore(s, e) < i /\ i < e => s[i] # LF
<1> DEFINE T == {0} \cup {i \in Stream!LineEnds(s) : i < e}
           U == {m \in Nat : \A x \in T : x <= m}
<1>1. T \subseteq 0..(e - 1) /\ 0 \in T
  BY DEF Stream!LineEnds
<1>2. e - 1 \in U
  BY <1>1
<1>3. PICK m \in U : \A y \in U : m <= y
  <2> HIDE DEF U
  <2>1. U \subseteq Nat
    BY DEF U
  <2> QED
    BY <1>2, <2>1, LeastNumber
<1>4. m \in T
  <2> SUFFICES ASSUME m \notin T PROVE FALSE
    OBVIOUS
  <2>1. m # 0
    BY <1>1
  <2>2. \A x \in T : x <= m - 1
    BY <1>1, <1>3
  <2>3. m - 1 \in U
    BY <2>1, <2>2, <1>3
  <2> QED
    BY <2>3, <1>3
<1>5. Max(T) = m
  <2>1. \A x \in T : x <= m
    BY <1>3
  <2>2. T \subseteq Nat
    BY <1>1
  <2> HIDE DEF T
  <2> QED
    BY <1>4, <2>1, <2>2, MaxIs
<1>6. Stream!EndBefore(s, e) = m
  BY <1>5, SameMax DEF Stream!EndBefore
<1>7. m \in 0..(e - 1) /\ (m = 0 \/ s[m] = LF)
  BY <1>1, <1>4 DEF Stream!LineEnds
<1>8. \A i \in 1..Len(s) : m < i /\ i < e => s[i] # LF
  BY <1>1, <1>3 DEF Stream!LineEnds
<1> QED
  BY <1>6, <1>7, <1>8

\* The next end of a command adds one to the number of ends.
LEMMA NextEnd ==
  ASSUME NEW s \in Seq(Bytes), NEW k \in Nat, NEW e \in Nat, k < e,
         \A i \in Stream!LineEnds(s) : k < i => e <= i
  PROVE  IF e \in Stream!CommandEnds(s)
         THEN /\ EndsTo(s, e) = EndsTo(s, k) \cup {e}
              /\ Cardinality(EndsTo(s, e)) = Cardinality(EndsTo(s, k)) + 1
         ELSE EndsTo(s, e) = EndsTo(s, k)
<1>1. \A x \in Stream!CommandEnds(s) : x \in Nat /\ x \in Stream!LineEnds(s)
  BY DEF Stream!CommandEnds, Stream!LineEnds
<1>2. CASE e \in Stream!CommandEnds(s)
  <2>1. EndsTo(s, e) = EndsTo(s, k) \cup {e}
    <3>1. ASSUME NEW x \in EndsTo(s, e) PROVE x \in EndsTo(s, k) \cup {e}
      <4>1. x \in Stream!CommandEnds(s) /\ x <= e /\ x \in Nat
        BY <1>1, <3>1 DEF EndsTo
      <4>2. x <= k \/ e <= x
        BY <1>1, <4>1
      <4>3. CASE x <= k
        BY <4>1, <4>3 DEF EndsTo
      <4>4. CASE e <= x
        BY <4>1, <4>4
      <4> QED
        BY <4>2, <4>3, <4>4
    <3>2. ASSUME NEW x \in EndsTo(s, k) \cup {e} PROVE x \in EndsTo(s, e)
      BY <1>1, <1>2, <3>2 DEF EndsTo
    <3> QED
      BY <3>1, <3>2
  <2>2. e \notin EndsTo(s, k)
    BY DEF EndsTo
  <2>3. Cardinality(EndsTo(s, k) \cup {e}) = Cardinality(EndsTo(s, k)) + 1
    BY <2>2, EndsAreFinite, FS_AddElement
  <2> QED
    BY <1>2, <2>1, <2>3
<1>3. CASE e \notin Stream!CommandEnds(s)
  <2>1. ASSUME NEW x \in EndsTo(s, e) PROVE x \in EndsTo(s, k)
    <3>1. x \in Stream!CommandEnds(s) /\ x <= e /\ x \in Nat /\ x # e
      BY <1>1, <1>3, <2>1 DEF EndsTo
    <3>2. x <= k
      BY <1>1, <3>1
    <3> QED
      BY <3>1, <3>2 DEF EndsTo
  <2>2. ASSUME NEW x \in EndsTo(s, k) PROVE x \in EndsTo(s, e)
    BY <1>1, <2>2 DEF EndsTo
  <2>3. EndsTo(s, e) = EndsTo(s, k)
    BY <2>1, <2>2
  <2> QED
    BY <1>3, <2>3
<1> QED
  BY <1>2, <1>3

\* Of two ends of commands the later has the higher number.
LEMMA NumbersRise ==
  ASSUME NEW s \in Seq(Bytes), NEW d \in Stream!CommandEnds(s),
         NEW e \in Stream!CommandEnds(s), d < e
  PROVE  Cardinality(EndsTo(s, d)) < Cardinality(EndsTo(s, e))
<1>1. d \in Nat /\ e \in Nat
  BY DEF Stream!CommandEnds, Stream!LineEnds
<1>2. EndsTo(s, d) \subseteq EndsTo(s, e) /\ e \in EndsTo(s, e) /\ e \notin EndsTo(s, d)
  <2>1. \A x \in Stream!CommandEnds(s) : x \in Nat
    BY DEF Stream!CommandEnds, Stream!LineEnds
  <2>2. ASSUME NEW x \in EndsTo(s, d) PROVE x \in EndsTo(s, e)
    <3>1. x \in Stream!CommandEnds(s) /\ x <= d /\ x \in Nat
      BY <2>1, <2>2 DEF EndsTo
    <3>2. x <= e
      BY <1>1, <3>1
    <3> QED
      BY <3>1, <3>2 DEF EndsTo
  <2>3. e \in EndsTo(s, e) /\ e \notin EndsTo(s, d)
    BY <1>1 DEF EndsTo
  <2> QED
    BY <2>2, <2>3
<1>3. IsFiniteSet(EndsTo(s, e)) /\ Cardinality(EndsTo(s, e)) \in Nat /\ Cardinality(EndsTo(s, d)) \in Nat
  BY <1>1, EndsAreFinite
<1>4. /\ Cardinality(EndsTo(s, d)) <= Cardinality(EndsTo(s, e))
      /\ Cardinality(EndsTo(s, e)) = Cardinality(EndsTo(s, d)) => EndsTo(s, e) = EndsTo(s, d)
  BY <1>2, <1>3, FS_Subset
<1> QED
  BY <1>2, <1>3, <1>4

LEMMA NthIs ==
  ASSUME NEW s \in Seq(Bytes), NEW e \in Stream!CommandEnds(s)
  PROVE  Stream!Nth(Stream!CommandEnds(s), Cardinality(EndsTo(s, e))) = e
<1> DEFINE S == Stream!CommandEnds(s)
           n == Cardinality(EndsTo(s, e))
           N(x) == Cardinality({y \in S : y <= x})
<1>1. \A x \in S : N(x) = Cardinality(EndsTo(s, x))
  BY DEF EndsTo
<1>2. \A x \in S : x \in Nat
  BY DEF Stream!CommandEnds, Stream!LineEnds
<1>3. ASSUME NEW x \in S, N(x) = n PROVE x = e
  <2>1. Cardinality(EndsTo(s, x)) = n
    BY <1>1, <1>3
  <2>2. ~(x < e) /\ ~(e < x)
    <3>1. Cardinality(EndsTo(s, x)) \in Nat /\ n \in Nat
      BY <1>2, EndsAreFinite
    <3> QED
      BY <2>1, <3>1, NumbersRise
  <2> QED
    BY <1>2, <2>2
<1>4. e \in S /\ N(e) = n
  BY <1>1
<1>5. Stream!Nth(S, n) = CHOOSE x \in S : N(x) = n
  BY SameCardinality DEF Stream!Nth
<1> HIDE DEF S, n, N
<1> QED
  BY <1>3, <1>4, <1>5 DEF S, n

\* Every number up to that of the commands is the number of an end.
LEMMA NthExists ==
  ASSUME NEW s \in Seq(Bytes),
         NEW i \in 1..Cardinality(Stream!CommandEnds(s))
  PROVE  \E e \in Stream!CommandEnds(s) : Cardinality(EndsTo(s, e)) = i
<1> DEFINE U == {m \in Nat : i <= Cardinality(EndsTo(s, m))}
<1>1. Stream!CommandEnds(s) = EndsTo(s, Len(s))
  BY DEF EndsTo, Stream!CommandEnds, Stream!LineEnds
<1>2. Len(s) \in U /\ i \in Nat /\ 1 <= i
  BY <1>1, EndsAreFinite
<1>3. PICK m \in U : \A y \in U : m <= y
  <2> HIDE DEF U
  <2>1. U \subseteq Nat
    BY DEF U
  <2> QED
    BY <1>2, <2>1, LeastNumber
<1>4. m \in Nat /\ i <= Cardinality(EndsTo(s, m))
  OBVIOUS
<1>5. m # 0
  <2>1. EndsTo(s, 0) = {}
    BY DEF EndsTo, Stream!CommandEnds, Stream!LineEnds
  <2> QED
    BY <1>2, <1>4, <2>1, FS_EmptySet, SMTT(60)
<1>6. m - 1 \in Nat /\ m - 1 \notin U
  BY <1>3, <1>4, <1>5
<1>7. Cardinality(EndsTo(s, m - 1)) < i
  BY <1>6, EndsAreFinite
<1>8. \A x \in Stream!LineEnds(s) : m - 1 < x => m <= x
  BY <1>4 DEF Stream!LineEnds
<1>9. IF m \in Stream!CommandEnds(s)
      THEN Cardinality(EndsTo(s, m)) = Cardinality(EndsTo(s, m - 1)) + 1
      ELSE EndsTo(s, m) = EndsTo(s, m - 1)
  <2>1. m - 1 < m
    BY <1>4
  <2> QED
    BY <1>4, <1>6, <1>8, <2>1, NextEnd
<1>10. Cardinality(EndsTo(s, m)) \in Nat /\ Cardinality(EndsTo(s, m - 1)) \in Nat
  BY <1>4, <1>6, EndsAreFinite
<1> QED
  BY <1>2, <1>4, <1>7, <1>9, <1>10

-----------------------------------------------------------------------------
(* The inductive invariant *)

\* b is what s holds behind position k and up to r.
Remains(b, s, k, r) ==
  /\ Len(b) = r - k
  /\ \A i \in 1..(r - k) : b[i] = s[k + i]

\* The lines h are those of the commands that s ends up to position k.
Answers(h, s, k) ==
  /\ Len(h) = Cardinality(EndsTo(s, k))
  /\ \A e \in EndsTo(s, k) : h[Cardinality(EndsTo(s, e))] = Stream!Line(s, e)

\* The stream is cut behind position k: there a line ends, what is received
\* behind it is in the buffer, and the commands before it have been handled.
CutBehind(k) ==
  /\ k = 0 \/ sent[k] = LF
  /\ Remains(buffer, sent, k, received)
  /\ Answers(served, sent, k)

Cut == \E k \in 0..received : CutBehind(k)

NoLineIn(b) == \A i \in 1..Len(b) : b[i] # LF

\* The commands stream s ends, and with the line it leaves without an end.
EndedCommands(s) ==
  [i \in 1..Cardinality(Stream!CommandEnds(s)) |->
     Stream!Line(s, Stream!Nth(Stream!CommandEnds(s), i))]

AllCommands(s) ==
  IF Stream!Unfinished(s) # <<>>
  THEN Append(EndedCommands(s), Stream!Unfinished(s))
  ELSE EndedCommands(s)

LineInv ==
  /\ pc # "poll" => live
  /\ live /\ pc # "eof" => Cut
  /\ live /\ pc = "poll" => NoLineIn(buffer)
  /\ pc = "eof" =>
       /\ ended /\ received = Len(sent)
       /\ Cut \/ (buffer = <<>> /\ served = AllCommands(sent))

-----------------------------------------------------------------------------
(* Where the next line ends *)

LEMMA FirstIs ==
  ASSUME NEW T, T \subseteq Nat \ {0}
  PROVE  /\ First(T) = 0 <=> T = {}
         /\ T # {} => First(T) \in T /\ \A x \in T : First(T) <= x
<1>1. CASE T = {}
  BY <1>1 DEF First
<1>2. CASE T # {}
  <2>1. Min(T) \in T /\ \A x \in T : Min(T) <= x
    BY <1>2, MinIsLeast
  <2>2. Min(T) # 0
    BY <2>1
  <2> QED
    BY <1>2, <2>1, <2>2 DEF First
<1> QED
  BY <1>1, <1>2

\* What the two searches find.
LEMMA Found ==
  ASSUME buffer \in Seq(Bytes)
  PROVE  /\ IF pos_n = 0 THEN NoLineIn(buffer)
            ELSE /\ pos_n \in 1..Len(buffer) /\ buffer[pos_n] = LF
                 /\ \A i \in 1..Len(buffer) : buffer[i] = LF => pos_n <= i
         /\ pos_rn \in 0..Len(buffer)
         /\ pos_rn # 0 =>
              /\ pos_rn + 1 \in 1..Len(buffer)
              /\ buffer[pos_rn] = CR /\ buffer[pos_rn + 1] = LF
         /\ \A i \in 1..Len(buffer) - 1 :
              buffer[i] = CR /\ buffer[i + 1] = LF => pos_rn # 0 /\ pos_rn <= i
<1> DEFINE N == {i \in 1..Len(buffer) : buffer[i] = LF}
           R == {i \in 1..Len(buffer) - 1 : buffer[i] = CR /\ buffer[i + 1] = LF}
<1>1. N \subseteq Nat \ {0} /\ R \subseteq Nat \ {0}
  OBVIOUS
<1>2. /\ First(N) = 0 <=> N = {}
      /\ N # {} => First(N) \in N /\ \A x \in N : First(N) <= x
  BY <1>1, FirstIs
<1>3. /\ First(R) = 0 <=> R = {}
      /\ R # {} => First(R) \in R /\ \A x \in R : First(R) <= x
  BY <1>1, FirstIs
<1>4. pos_n = First(N) /\ pos_rn = First(R)
  BY DEF pos_n, pos_rn
<1>5. IF pos_n = 0 THEN NoLineIn(buffer)
      ELSE /\ pos_n \in 1..Len(buffer) /\ buffer[pos_n] = LF
           /\ \A i \in 1..Len(buffer) : buffer[i] = LF => pos_n <= i
  BY <1>2, <1>4 DEF NoLineIn
<1>6. /\ pos_rn \in 0..Len(buffer)
      /\ pos_rn # 0 =>
           /\ pos_rn + 1 \in 1..Len(buffer)
           /\ buffer[pos_rn] = CR /\ buffer[pos_rn + 1] = LF
  BY <1>3, <1>4
<1>7. ASSUME NEW i \in 1..Len(buffer) - 1, buffer[i] = CR, buffer[i + 1] = LF
      PROVE  pos_rn # 0 /\ pos_rn <= i
  BY <1>3, <1>4, <1>7
<1> QED
  BY <1>5, <1>6, <1>7

\* The line cut off ends at the first LF, before the CR in front of it.
LEMMA NextLine ==
  ASSUME buffer \in Seq(Bytes), use_pos # 0
  PROVE  \E e \in 1..Len(buffer) :
           /\ buffer[e] = LF
           /\ \A i \in 1..Len(buffer) : i < e => buffer[i] # LF
           /\ use_pos + delim_len = e + 1
           /\ use_pos - 1 = IF e > 1 /\ buffer[e - 1] = CR THEN e - 2 ELSE e - 1
<1>1. CR # LF
  BY BytesApart
<1>2. Len(buffer) \in Nat
  OBVIOUS
<1>3. CASE use_rn
  <2>1. pos_rn # 0 /\ (pos_n = 0 \/ pos_rn <= pos_n) /\ use_pos = pos_rn /\ delim_len = 2
    BY <1>3 DEF use_rn, use_pos, delim_len
  <2>2. PICK r : r = pos_rn
    OBVIOUS
  <2>3. r \in 1..Len(buffer) /\ r + 1 \in 1..Len(buffer) /\ buffer[r] = CR /\ buffer[r + 1] = LF
    BY <2>1, <2>2, Found
  <2>4. pos_n # 0 /\ pos_n \in 1..Len(buffer) /\ buffer[pos_n] = LF /\ pos_n <= r + 1
        /\ \A i \in 1..Len(buffer) : buffer[i] = LF => pos_n <= i
    BY <2>3, Found DEF NoLineIn
  <2>5. pos_n # r
    BY <1>1, <2>3, <2>4
  <2>6. pos_n = r + 1
    BY <2>1, <2>2, <2>3, <2>4, <2>5
  <2>7. \A i \in 1..Len(buffer) : i < r + 1 => buffer[i] # LF
    BY <2>4, <2>6
  <2>8. use_pos + delim_len = (r + 1) + 1 /\ use_pos - 1 = (r + 1) - 2 /\ r + 1 > 1
        /\ buffer[(r + 1) - 1] = CR
    BY <2>1, <2>2, <2>3
  <2> QED
    BY <2>3, <2>7, <2>8
<1>4. CASE ~use_rn
  <2>1. use_pos = pos_n /\ delim_len = 1 /\ pos_n # 0
    BY <1>4 DEF use_pos, delim_len
  <2>2. PICK n : n = pos_n
    OBVIOUS
  <2>3. n \in 1..Len(buffer) /\ buffer[n] = LF
        /\ \A i \in 1..Len(buffer) : i < n => buffer[i] # LF
    BY <2>1, <2>2, Found
  <2>4. ~(n > 1 /\ buffer[n - 1] = CR)
    <3> SUFFICES ASSUME n > 1, buffer[n - 1] = CR PROVE FALSE
      OBVIOUS
    <3>1. n - 1 \in 1..Len(buffer) - 1 /\ (n - 1) + 1 = n
      BY <2>3
    <3>2. pos_rn # 0 /\ pos_rn <= n - 1 /\ pos_rn \in Nat
      BY <2>3, <3>1, Found
    <3>3. pos_rn <= pos_n
      BY <2>2, <2>3, <3>2
    <3> QED
      BY <1>4, <3>2, <3>3 DEF use_rn
  <2>5. use_pos + delim_len = n + 1 /\ use_pos - 1 = n - 1
    BY <2>1, <2>2
  <2> QED
    BY <2>3, <2>4, <2>5
<1> QED
  BY <1>3, <1>4

\* No line is cut off when none is complete.
LEMMA NoLine ==
  ASSUME buffer \in Seq(Bytes), use_pos = 0
  PROVE  NoLineIn(buffer)
<1>1. ~use_rn
  BY DEF use_pos, use_rn
<1>2. pos_n = 0
  BY <1>1 DEF use_pos
<1> QED
  BY <1>2, Found

-----------------------------------------------------------------------------
(* What a growing stream leaves as it is *)

LEMMA SubSeqIs ==
  ASSUME NEW s, NEW m \in Nat \ {0}, NEW n \in Nat, NEW b \in Seq(Bytes),
         Len(b) = IF m <= n THEN n - m + 1 ELSE 0,
         \A i \in 1..Len(b) : b[i] = s[m + i - 1]
  PROVE  SubSeq(s, m, n) = b
<1>1. \A i \in m..n : s[i] \in Bytes
  <2>1. ASSUME NEW i \in m..n PROVE s[i] \in Bytes
    <3>1. i - m + 1 \in 1..Len(b) /\ m + (i - m + 1) - 1 = i
      BY <2>1
    <3>2. b[i - m + 1] = s[i] /\ b[i - m + 1] \in Bytes
      BY <3>1, ElementOfSeq
    <3> QED
      BY <3>2
  <2> QED
    BY <2>1
<1>2. PICK c : c = SubSeq(s, m, n)
  OBVIOUS
<1>3. /\ c \in Seq(Bytes)
      /\ Len(c) = IF m <= n THEN n - m + 1 ELSE 0
      /\ \A i \in 1..n - m + 1 : c[i] = s[m + i - 1]
  BY <1>1, <1>2, SubSeqProperties
<1>4. Len(c) = Len(b) /\ \A i \in 1..Len(c) : c[i] = b[i]
  BY <1>3
<1>5. c = b
  BY <1>3, <1>4, SeqEqual
<1> QED
  BY <1>2, <1>5

\* Streams that agree up to e agree on the line that ends there.
LEMMA SameLine ==
  ASSUME NEW s \in Seq(Bytes), NEW t \in Seq(Bytes), NEW e \in 1..Len(s),
         e <= Len(t), \A i \in 1..e : t[i] = s[i]
  PROVE  /\ Stream!EndBefore(t, e) = Stream!EndBefore(s, e)
         /\ Stream!TextEnd(t, e) = Stream!TextEnd(s, e)
         /\ Stream!Line(t, e) = Stream!Line(s, e)
<1>1. PICK k : k = Stream!EndBefore(s, e)
  OBVIOUS
<1>2. k \in 0..(e - 1) /\ (k = 0 \/ s[k] = LF)
      /\ \A i \in 1..Len(s) : k < i /\ i < e => s[i] # LF
  BY <1>1, EndBeforeExists
<1>3. Stream!EndBefore(t, e) = k
  <2>1. k \in 0..Len(t) /\ k < e /\ (k = 0 \/ t[k] = LF)
    BY <1>2
  <2>2. \A i \in 1..Len(t) : k < i /\ i < e => t[i] # LF
    BY <1>2
  <2> QED
    BY <2>1, <2>2, EndBeforeIs
<1>4. Stream!TextEnd(t, e) = Stream!TextEnd(s, e)
  <2>1. e > 1 => t[e - 1] = s[e - 1]
    OBVIOUS
  <2> QED
    BY <2>1 DEF Stream!TextEnd
<1>5. PICK n : n = Stream!TextEnd(s, e)
  OBVIOUS
<1>6. n \in 0..(e - 1)
  BY <1>5 DEF Stream!TextEnd
<1>7. SubSeq(t, k + 1, n) = SubSeq(s, k + 1, n)
  <2>1. \A i \in k + 1..n : t[i] = s[i] /\ s[i] \in Bytes
    BY <1>2, <1>6, ElementOfSeq
  <2>2. PICK b : b = SubSeq(s, k + 1, n)
    OBVIOUS
  <2>3. /\ b \in Seq(Bytes)
        /\ Len(b) = IF k + 1 <= n THEN n - (k + 1) + 1 ELSE 0
        /\ \A i \in 1..n - (k + 1) + 1 : b[i] = s[(k + 1) + i - 1]
    BY <1>2, <1>6, <2>1, <2>2, SubSeqProperties
  <2>4. \A i \in 1..Len(b) : b[i] = t[(k + 1) + i - 1]
    <3>1. \A i \in 1..Len(b) : (k + 1) + i - 1 \in k + 1..n /\ i \in 1..n - (k + 1) + 1
      BY <1>2, <1>6, <2>3
    <3> QED
      BY <2>1, <2>3, <3>1
  <2>5. k + 1 \in Nat \ {0} /\ n \in Nat
    BY <1>2, <1>6
  <2>6. SubSeq(t, k + 1, n) = b
    <3>1. PICK m : m = k + 1
      OBVIOUS
    <3>2. Len(b) = IF m <= n THEN n - m + 1 ELSE 0
      BY <2>3, <3>1
    <3>3. \A i \in 1..Len(b) : b[i] = t[m + i - 1]
      BY <2>4, <3>1
    <3>4. m \in Nat \ {0} /\ n \in Nat /\ b \in Seq(Bytes)
      BY <2>3, <2>5, <3>1
    <3>5. SubSeq(t, m, n) = b
      BY <3>2, <3>3, <3>4, SubSeqIs, SMTT(60)
    <3> QED
      BY <3>1, <3>5
  <2> QED
    BY <2>2, <2>6
<1> QED
  BY <1>1, <1>3, <1>4, <1>5, <1>7 DEF Stream!Line

\* A byte more changes nothing up to where the stream has been cut.
LEMMA ByteMore ==
  ASSUME NEW s \in Seq(Bytes), NEW b \in Bytes, NEW k \in 0..Len(s), NEW h,
         Answers(h, s, k)
  PROVE  Answers(h, Append(s, b), k)
<1>1. PICK t : t = Append(s, b)
  OBVIOUS
<1>2. t \in Seq(Bytes) /\ Len(t) = Len(s) + 1 /\ \A i \in 1..Len(s) : t[i] = s[i]
  BY <1>1, AppendProperties
<1>3. \A e \in 1..Len(s) : /\ Stream!EndBefore(t, e) = Stream!EndBefore(s, e)
                           /\ Stream!TextEnd(t, e) = Stream!TextEnd(s, e)
                           /\ Stream!Line(t, e) = Stream!Line(s, e)
  BY <1>2, SameLine
<1>4. ASSUME NEW x \in 1..Len(s) PROVE x \in Stream!CommandEnds(t) <=> x \in Stream!CommandEnds(s)
  <2>1. x \in Stream!LineEnds(t) <=> x \in Stream!LineEnds(s)
    BY <1>2 DEF Stream!LineEnds
  <2> QED
    BY <1>3, <2>1 DEF Stream!CommandEnds
<1>5. ASSUME NEW n \in 0..Len(s) PROVE EndsTo(t, n) = EndsTo(s, n)
  <2>0. n \in Nat /\ n <= Len(s) /\ EndsTo(t, n) \subseteq 1..Len(t) /\ EndsTo(s, n) \subseteq 1..Len(s)
    <3>1. n \in Nat /\ n <= Len(s)
      OBVIOUS
    <3> QED
      BY <1>2, <3>1, EndsAreFinite
  <2>1. \A x \in EndsTo(t, n) : x \in 1..Len(s) /\ x <= n /\ x \in Stream!CommandEnds(t)
    <3>1. \A x \in EndsTo(t, n) : x \in 1..Len(t) /\ x <= n /\ x \in Stream!CommandEnds(t)
      BY <2>0 DEF EndsTo
    <3> QED
      BY <1>2, <2>0, <3>1
  <2>2. \A x \in EndsTo(s, n) : x \in 1..Len(s) /\ x <= n /\ x \in Stream!CommandEnds(s)
    BY <2>0 DEF EndsTo
  <2>3. ASSUME NEW x \in EndsTo(t, n) PROVE x \in EndsTo(s, n)
    BY <1>4, <2>1, <2>3 DEF EndsTo
  <2>4. ASSUME NEW x \in EndsTo(s, n) PROVE x \in EndsTo(t, n)
    BY <1>4, <2>2, <2>4 DEF EndsTo
  <2> QED
    BY <2>3, <2>4
<1>6. \A e \in EndsTo(s, k) : e \in 1..Len(s) /\ EndsTo(t, e) = EndsTo(s, e)
  BY <1>5, EndsAreFinite
<1>7. EndsTo(t, k) = EndsTo(s, k)
  BY <1>5
<1>8. Answers(h, t, k)
  BY <1>3, <1>6, <1>7 DEF Answers
<1> QED
  BY <1>1, <1>8

-----------------------------------------------------------------------------
(* Taking a line *)

LEMMA EndNumber ==
  ASSUME NEW s \in Seq(Bytes), NEW k \in Nat, NEW e \in EndsTo(s, k)
  PROVE  Cardinality(EndsTo(s, e)) \in 1..Cardinality(EndsTo(s, k))
<1>1. e \in Nat /\ e <= k /\ e \in Stream!CommandEnds(s)
  <2>1. e <= k /\ e \in Stream!CommandEnds(s)
    BY DEF EndsTo
  <2> QED
    BY <2>1 DEF Stream!CommandEnds, Stream!LineEnds
<1>2. \A x \in Stream!CommandEnds(s) : x \in Nat
  BY DEF Stream!CommandEnds, Stream!LineEnds
<1>3. \A x \in EndsTo(s, e) : x \in EndsTo(s, k)
  BY <1>1, <1>2 DEF EndsTo
<1>4. /\ IsFiniteSet(EndsTo(s, e)) /\ Cardinality(EndsTo(s, e)) \in Nat
      /\ IsFiniteSet(EndsTo(s, k)) /\ Cardinality(EndsTo(s, k)) \in Nat
  BY <1>1, EndsAreFinite
<1>5. Cardinality(EndsTo(s, e)) <= Cardinality(EndsTo(s, k))
  BY <1>3, <1>4, FS_Subset
<1>6. EndsTo(s, e) # {}
  BY <1>1 DEF EndsTo
<1>7. Cardinality(EndsTo(s, e)) # 0
  BY <1>4, <1>6, FS_EmptySet
<1> QED
  BY <1>4, <1>5, <1>7

\* The line that ends next in the stream is the one that is cut off the buffer.
LEMMA LineTaken ==
  ASSUME LineTypeOK, use_pos # 0, NEW k \in 0..received, CutBehind(k)
  PROVE  LET line == SubSeq(buffer, 1, use_pos - 1)
         IN  /\ line \in Seq(Bytes)
             /\ \E j \in 1..received :
                  /\ k < j /\ sent[j] = LF
                  /\ Stream!Line(sent, j) = line
                  /\ SubSeq(buffer, use_pos + delim_len, Len(buffer)) \in Seq(Bytes)
                  /\ Remains(SubSeq(buffer, use_pos + delim_len, Len(buffer)), sent, j, received)
                  /\ IF line # <<>>
                     THEN /\ j \in Stream!CommandEnds(sent)
                          /\ EndsTo(sent, j) = EndsTo(sent, k) \cup {j}
                          /\ Cardinality(EndsTo(sent, j)) = Cardinality(EndsTo(sent, k)) + 1
                     ELSE EndsTo(sent, j) = EndsTo(sent, k)
<1>1. /\ sent \in Seq(Bytes) /\ buffer \in Seq(Bytes)
      /\ received \in Nat /\ received <= Len(sent)
  BY DEF LineTypeOK
<1>2. /\ k \in Nat /\ k <= received /\ k \in 0..Len(sent)
      /\ k = 0 \/ sent[k] = LF
      /\ Len(buffer) = received - k
      /\ \A i \in 1..Len(buffer) : buffer[i] = sent[k + i]
  BY <1>1 DEF CutBehind, Remains
<1>3. PICK e \in 1..Len(buffer) :
        /\ buffer[e] = LF
        /\ \A i \in 1..Len(buffer) : i < e => buffer[i] # LF
        /\ use_pos + delim_len = e + 1
        /\ use_pos - 1 = IF e > 1 /\ buffer[e - 1] = CR THEN e - 2 ELSE e - 1
  BY <1>1, NextLine
<1>4. PICK j : j = k + e
  OBVIOUS
<1>5. j \in 1..received /\ k < j /\ sent[j] = LF /\ j \in 1..Len(sent) /\ j \in Nat
  BY <1>1, <1>2, <1>3, <1>4
<1>6. ASSUME NEW i \in 1..Len(sent), k < i, i < j PROVE sent[i] # LF
  <2>1. i - k \in 1..Len(buffer) /\ i - k < e /\ k + (i - k) = i
    BY <1>2, <1>4, <1>5, <1>6
  <2> QED
    BY <1>2, <1>3, <2>1
<1>7. Stream!EndBefore(sent, j) = k
  BY <1>1, <1>2, <1>5, <1>6, EndBeforeIs
<1>8. PICK n : n = use_pos - 1
  OBVIOUS
<1>9. n = IF e > 1 /\ buffer[e - 1] = CR THEN e - 2 ELSE e - 1
  BY <1>3, <1>8
<1>10. Stream!TextEnd(sent, j) = k + n
  <2>1. CASE e > 1
    <3>1. sent[j - 1] = buffer[e - 1]
      <4>1. e - 1 \in 1..Len(buffer) /\ k + (e - 1) = j - 1
        BY <1>2, <1>3, <1>4, <2>1
      <4> QED
        BY <1>2, <4>1
    <3>2. j > 1
      BY <1>2, <1>4, <2>1
    <3>3. e - 1 \in Int /\ e - 2 \in Int /\ j - 2 = k + (e - 2) /\ j - 1 = k + (e - 1)
      BY <1>2, <1>3, <1>4
    <3> QED
      BY <1>9, <2>1, <3>1, <3>2, <3>3 DEF Stream!TextEnd
  <2>2. CASE ~(e > 1)
    <3>1. e = 1 /\ n = 0 /\ j = k + 1
      BY <1>3, <1>4, <1>9, <2>2
    <3>2. ~(j > 1 /\ sent[j - 1] = CR)
      <4>1. CASE k = 0
        BY <3>1, <4>1
      <4>2. CASE k # 0
        <5>1. j - 1 = k /\ sent[k] = LF /\ CR # LF
          BY <1>2, <3>1, <4>2, BytesApart
        <5> QED
          BY <5>1
      <4> QED
        BY <4>1, <4>2
    <3>3. j - 1 = k + n
      BY <1>2, <3>1
    <3> QED
      BY <3>2, <3>3 DEF Stream!TextEnd
  <2> QED
    BY <2>1, <2>2
<1>11. n \in 0..Len(buffer)
  BY <1>1, <1>3, <1>9
<1>12. PICK line : line = SubSeq(buffer, 1, n)
  OBVIOUS
<1>13. line \in Seq(Bytes) /\ Len(line) = n /\ \A i \in 1..n : line[i] = buffer[i]
  <2>1. \A i \in 1..n : buffer[i] \in Bytes
    BY <1>1, <1>11, ElementOfSeq
  <2>2. 1 \in Int /\ n \in Int
    BY <1>11
  <2>3. /\ line \in Seq(Bytes)
        /\ Len(line) = IF 1 <= n THEN n - 1 + 1 ELSE 0
        /\ \A i \in 1..n - 1 + 1 : line[i] = buffer[1 + i - 1]
    BY <1>12, <2>1, <2>2, SubSeqProperties
  <2>4. n - 1 + 1 = n /\ \A i \in 1..n : 1 + i - 1 = i
    BY <1>11
  <2> QED
    BY <1>11, <2>3, <2>4
<1>14. Stream!Line(sent, j) = line
  <2>1. PICK m, p : m = k + 1 /\ p = k + n
    OBVIOUS
  <2>2. m \in Nat \ {0} /\ p \in Nat
    BY <1>2, <1>11, <2>1
  <2>3. Len(line) = IF m <= p THEN p - m + 1 ELSE 0
    BY <1>2, <1>11, <1>13, <2>1
  <2>4. \A i \in 1..Len(line) : line[i] = sent[m + i - 1]
    <3>1. \A i \in 1..Len(line) : i \in 1..Len(buffer) /\ m + i - 1 = k + i
      BY <1>2, <1>11, <1>13, <2>1
    <3> QED
      BY <1>2, <1>13, <3>1
  <2>5. SubSeq(sent, m, p) = line
    BY <1>13, <2>2, <2>3, <2>4, SubSeqIs
  <2> QED
    BY <1>7, <1>10, <2>1, <2>5 DEF Stream!Line
<1>15. PICK rest : rest = SubSeq(buffer, e + 1, Len(buffer))
  OBVIOUS
<1>16. rest \in Seq(Bytes) /\ Remains(rest, sent, j, received)
  <2>1. \A i \in e + 1..Len(buffer) : buffer[i] \in Bytes
    BY <1>1, <1>3, ElementOfSeq
  <2>2. e + 1 \in Int /\ Len(buffer) \in Int
    BY <1>1, <1>3
  <2>3. /\ rest \in Seq(Bytes)
        /\ Len(rest) = IF e + 1 <= Len(buffer) THEN Len(buffer) - (e + 1) + 1 ELSE 0
        /\ \A i \in 1..Len(buffer) - (e + 1) + 1 : rest[i] = buffer[(e + 1) + i - 1]
    BY <1>15, <2>1, <2>2, SubSeqProperties
  <2>4. Len(rest) = received - j
    BY <1>1, <1>2, <1>3, <1>4, <2>3
  <2>5. ASSUME NEW i \in 1..received - j PROVE rest[i] = sent[j + i]
    <3>1. i \in 1..Len(buffer) - (e + 1) + 1 /\ (e + 1) + i - 1 = e + i
          /\ e + i \in 1..Len(buffer) /\ k + (e + i) = j + i
      <4>1. i \in Nat /\ 1 <= i /\ i <= received - j /\ e \in Nat /\ 1 <= e /\ Len(buffer) \in Nat
            /\ Len(buffer) = received - k /\ j = k + e /\ k \in Nat /\ received \in Nat
        BY <1>1, <1>2, <1>3, <1>4, <2>5
      <4>2. i <= Len(buffer) - e
        BY <4>1
      <4> QED
        BY <4>1, <4>2
    <3> QED
      BY <1>2, <2>3, <3>1
  <2> QED
    BY <2>3, <2>4, <2>5 DEF Remains
<1>17. IF line # <<>>
       THEN /\ j \in Stream!CommandEnds(sent)
            /\ EndsTo(sent, j) = EndsTo(sent, k) \cup {j}
            /\ Cardinality(EndsTo(sent, j)) = Cardinality(EndsTo(sent, k)) + 1
       ELSE EndsTo(sent, j) = EndsTo(sent, k)
  <2>1. j \in Stream!LineEnds(sent)
    BY <1>1, <1>5 DEF Stream!LineEnds
  <2>2. line # <<>> <=> n # 0
    BY <1>13, EmptySeq
  <2>3. j \in Stream!CommandEnds(sent) <=> line # <<>>
    <3>1. k < k + n <=> n # 0
      BY <1>2, <1>11
    <3> QED
      BY <1>7, <1>10, <2>1, <2>2, <3>1 DEF Stream!CommandEnds
  <2>4. \A i \in Stream!LineEnds(sent) : k < i => j <= i
    BY <1>1, <1>5, <1>6 DEF Stream!LineEnds
  <2> QED
    BY <1>1, <1>2, <1>5, <2>3, <2>4, NextEnd
<1>18. /\ SubSeq(buffer, 1, use_pos - 1) = line
       /\ SubSeq(buffer, use_pos + delim_len, Len(buffer)) = rest
  BY <1>3, <1>8, <1>12, <1>15
<1> QED
  BY <1>5, <1>13, <1>14, <1>16, <1>17, <1>18

\* What answers the commands up to k and one that ends at j answers those to j.
LEMMA AnswersOneMore ==
  ASSUME NEW s \in Seq(Bytes), NEW k \in Nat, NEW j \in Nat, NEW h \in Seq(Seq(Bytes)),
         Answers(h, s, k), NEW line \in Seq(Bytes), line = Stream!Line(s, j),
         EndsTo(s, j) = EndsTo(s, k) \cup {j},
         Cardinality(EndsTo(s, j)) = Cardinality(EndsTo(s, k)) + 1
  PROVE  Answers(Append(h, line), s, j)
<1>1. PICK g : g = Append(h, line)
  OBVIOUS
<1>2. Len(g) = Len(h) + 1 /\ (\A i \in 1..Len(h) : g[i] = h[i]) /\ g[Len(h) + 1] = line
  BY <1>1, AppendProperties
<1>3. Len(g) = Cardinality(EndsTo(s, j))
  BY <1>2 DEF Answers
<1>4. ASSUME NEW e \in EndsTo(s, j) PROVE g[Cardinality(EndsTo(s, e))] = Stream!Line(s, e)
  <2>1. CASE e = j
    <3>1. g[Cardinality(EndsTo(s, j))] = line
      BY <1>2 DEF Answers
    <3> QED
      BY <2>1, <3>1
  <2>2. CASE e # j
    <3>1. e \in EndsTo(s, k)
      BY <1>4, <2>2
    <3>2. Cardinality(EndsTo(s, e)) \in 1..Len(h)
      BY <3>1, EndNumber DEF Answers
    <3>3. h[Cardinality(EndsTo(s, e))] = Stream!Line(s, e)
      BY <3>1 DEF Answers
    <3> QED
      BY <1>2, <3>2, <3>3
  <2> QED
    BY <2>1, <2>2
<1>5. Answers(g, s, j)
  BY <1>3, <1>4 DEF Answers
<1> QED
  BY <1>1, <1>5

-----------------------------------------------------------------------------
(* The commands of a stream *)

LEMMA CommandsAre ==
  Stream!Commands = IF ended THEN AllCommands(sent) ELSE EndedCommands(sent)
BY SameCardinality DEF Stream!Commands, Stream!Ended, AllCommands, EndedCommands

LEMMA EndedIsSequence ==
  ASSUME NEW s \in Seq(Bytes)
  PROVE  /\ EndedCommands(s) \in Seq(Seq(Bytes))
         /\ Len(EndedCommands(s)) = Cardinality(Stream!CommandEnds(s))
         /\ \A e \in Stream!CommandEnds(s) :
              EndedCommands(s)[Cardinality(EndsTo(s, e))] = Stream!Line(s, e)
<1> DEFINE S == Stream!CommandEnds(s)
<1>1. S = EndsTo(s, Len(s)) /\ Len(s) \in Nat
  BY DEF EndsTo, Stream!CommandEnds, Stream!LineEnds
<1>2. PICK n : n = Cardinality(S)
  OBVIOUS
<1>3. n \in Nat
  BY <1>1, <1>2, EndsAreFinite
<1>4. \A e \in S : Cardinality(EndsTo(s, e)) \in 1..n /\ Stream!Nth(S, Cardinality(EndsTo(s, e))) = e
  BY <1>1, <1>2, EndNumber, NthIs
<1>5. ASSUME NEW e \in S PROVE Stream!Line(s, e) \in Seq(Bytes)
  <2>1. e \in 1..Len(s)
    BY DEF Stream!CommandEnds, Stream!LineEnds
  <2>2. PICK k, m : k = Stream!EndBefore(s, e) /\ m = Stream!TextEnd(s, e)
    OBVIOUS
  <2>3. k \in 0..(e - 1) /\ m \in Int /\ m < e
    <3>1. k \in 0..(e - 1)
      BY <2>1, <2>2, EndBeforeExists
    <3>2. m \in Int /\ m < e
      BY <2>1, <2>2 DEF Stream!TextEnd
    <3> QED
      BY <3>1, <3>2
  <2>4. \A i \in k + 1..m : s[i] \in Bytes
    <3>1. \A i \in k + 1..m : i \in 1..Len(s)
      BY <2>1, <2>3
    <3> QED
      BY <3>1, ElementOfSeq
  <2>5. SubSeq(s, k + 1, m) \in Seq(Bytes)
    <3>1. k + 1 \in Int
      BY <2>3
    <3> QED
      BY <2>3, <2>4, <3>1, SubSeqProperties
  <2> QED
    BY <2>2, <2>5 DEF Stream!Line
<1>6. ASSUME NEW i \in 1..n PROVE Stream!Line(s, Stream!Nth(S, i)) \in Seq(Bytes)
  <2>1. PICK e \in S : Cardinality(EndsTo(s, e)) = i
    BY <1>2, <1>6, NthExists
  <2>2. Stream!Nth(S, i) = e
    BY <1>4, <2>1
  <2> QED
    BY <1>5, <2>2
<1>7. PICK f : f = EndedCommands(s)
  OBVIOUS
<1>8. f = [i \in 1..n |-> Stream!Line(s, Stream!Nth(S, i))]
  BY <1>2, <1>7 DEF EndedCommands
<1>9. f \in [1..n -> Seq(Bytes)]
  BY <1>6, <1>8
<1>10. f \in Seq(Seq(Bytes))
  BY <1>3, <1>9, SeqDef
<1>11. Len(f) = n
  <2>1. DOMAIN f = 1..n /\ DOMAIN f = 1..Len(f) /\ Len(f) \in Nat
    BY <1>9, <1>10, LenProperties
  <2> QED
    BY <1>3, <2>1
<1>12. \A e \in S : f[Cardinality(EndsTo(s, e))] = Stream!Line(s, e)
  BY <1>4, <1>8
<1> QED
  BY <1>2, <1>7, <1>10, <1>11, <1>12

\* Behind the last line end is the unfinished line.
LEMMA UnfinishedIs ==
  ASSUME NEW s \in Seq(Bytes), NEW b \in Seq(Bytes), NEW k \in 0..Len(s),
         k = 0 \/ s[k] = LF, Remains(b, s, k, Len(s)), NoLineIn(b)
  PROVE  Stream!Unfinished(s) = b
<1>1. Len(s) \in Nat /\ Len(b) = Len(s) - k /\ k \in Nat
  BY DEF Remains
<1>2. ASSUME NEW i \in 1..Len(s), k < i PROVE s[i] # LF
  <2>1. i - k \in 1..Len(s) - k /\ k + (i - k) = i
    BY <1>1, <1>2
  <2>2. b[i - k] = s[i]
    BY <2>1 DEF Remains
  <2> QED
    BY <1>1, <2>1, <2>2 DEF NoLineIn
<1>3. Stream!EndBefore(s, Len(s) + 1) = k
  <2>1. PICK e : e = Len(s) + 1
    OBVIOUS
  <2>2. e \in Nat /\ k < e
    BY <1>1, <2>1
  <2>3. Stream!EndBefore(s, e) = k
    BY <1>2, <2>2, EndBeforeIs
  <2> QED
    BY <2>1, <2>3
<1>4. PICK m, n : m = k + 1 /\ n = Len(s)
  OBVIOUS
<1>5. m \in Nat \ {0} /\ n \in Nat /\ Len(b) = IF m <= n THEN n - m + 1 ELSE 0
  BY <1>1, <1>4
<1>6. \A i \in 1..Len(b) : b[i] = s[m + i - 1]
  <2>1. \A i \in 1..Len(b) : i \in 1..Len(s) - k /\ m + i - 1 = k + i
    BY <1>1, <1>4
  <2> QED
    BY <2>1 DEF Remains
<1>7. SubSeq(s, m, n) = b
  BY <1>5, <1>6, SubSeqIs, ZenonT(60)
<1> QED
  BY <1>3, <1>4, <1>7 DEF Stream!Unfinished

\* When everything is received and no line is left, all but the unfinished
\* line has been handled.
LEMMA AllAnswered ==
  ASSUME LineTypeOK, received = Len(sent), NoLineIn(buffer), NEW k \in 0..received,
         CutBehind(k)
  PROVE  /\ served = EndedCommands(sent)
         /\ Stream!Unfinished(sent) = buffer
<1>1. /\ sent \in Seq(Bytes) /\ buffer \in Seq(Bytes) /\ k \in 0..Len(sent) /\ k \in Nat
      /\ served \in Seq(Seq(Bytes))
  <2>1. served \in Seq(Seq(Bytes) \ {<<>>}) /\ (Seq(Bytes) \ {<<>>}) \subseteq Seq(Bytes)
    BY DEF LineTypeOK
  <2>2. served \in Seq(Seq(Bytes))
    BY <2>1, SeqMonotonic
  <2> QED
    BY <2>2 DEF LineTypeOK
<1>2. (k = 0 \/ sent[k] = LF) /\ Remains(buffer, sent, k, Len(sent)) /\ Answers(served, sent, k)
  BY DEF CutBehind
<1>3. Stream!Unfinished(sent) = buffer
  BY <1>1, <1>2, UnfinishedIs
<1>4. EndsTo(sent, k) = Stream!CommandEnds(sent)
  <2>1. ASSUME NEW i \in Stream!CommandEnds(sent) PROVE i <= k
    <3> SUFFICES ASSUME ~(i <= k) PROVE FALSE
      OBVIOUS
    <3>1. i \in 1..Len(sent) /\ sent[i] = LF
      BY DEF Stream!CommandEnds, Stream!LineEnds
    <3>2. i - k \in 1..Len(sent) - k /\ k + (i - k) = i /\ Len(buffer) = Len(sent) - k
      BY <1>1, <1>2, <3>1 DEF Remains
    <3>3. buffer[i - k] = LF
      BY <1>2, <3>1, <3>2 DEF Remains
    <3> QED
      BY <3>2, <3>3 DEF NoLineIn
  <2> QED
    BY <2>1 DEF EndsTo
<1>5. /\ Len(served) = Cardinality(Stream!CommandEnds(sent))
      /\ \A e \in Stream!CommandEnds(sent) :
           served[Cardinality(EndsTo(sent, e))] = Stream!Line(sent, e)
  BY <1>2, <1>4 DEF Answers
<1>6. PICK f : f = EndedCommands(sent)
  OBVIOUS
<1>7. /\ f \in Seq(Seq(Bytes)) /\ Len(f) = Len(served)
      /\ \A e \in Stream!CommandEnds(sent) :
           f[Cardinality(EndsTo(sent, e))] = Stream!Line(sent, e)
  BY <1>1, <1>5, <1>6, EndedIsSequence
<1>8. ASSUME NEW i \in 1..Len(served) PROVE served[i] = f[i]
  <2>1. PICK e \in Stream!CommandEnds(sent) : Cardinality(EndsTo(sent, e)) = i
    BY <1>1, <1>5, <1>8, NthExists
  <2> QED
    BY <1>5, <1>7, <2>1
<1>9. served = f
  BY <1>1, <1>7, <1>8, SeqEqual
<1> QED
  BY <1>3, <1>6, <1>9

-----------------------------------------------------------------------------
(* The steps *)

LEMMA Typed ==
  ASSUME LineTypeOK
  PROVE  /\ sent \in Seq(Bytes) /\ buffer \in Seq(Bytes)
         /\ received \in Nat /\ received <= Len(sent) /\ Len(sent) \in Nat
         /\ served \in Seq(Seq(Bytes))
<1>1. served \in Seq(Seq(Bytes) \ {<<>>}) /\ (Seq(Bytes) \ {<<>>}) \subseteq Seq(Bytes)
  BY DEF LineTypeOK
<1>2. served \in Seq(Seq(Bytes))
  BY <1>1, SeqMonotonic
<1> QED
  BY <1>2 DEF LineTypeOK

\* A line cut off is the next command of the stream, or empty and none.
LEMMA TakeLineStep ==
  ASSUME LineTypeOK, LineInv, TakeLine
  PROVE  /\ LineTypeOK' /\ LineInv'
         /\ Stream!Serve \/ UNCHANGED Stream!stream
<1>1. /\ sent \in Seq(Bytes) /\ buffer \in Seq(Bytes)
      /\ received \in Nat /\ received <= Len(sent) /\ Len(sent) \in Nat
      /\ served \in Seq(Seq(Bytes))
  BY Typed
<1>2. /\ pc \in {"lines", "eof"} /\ use_pos # 0
      /\ sent' = sent /\ ended' = ended /\ broken' = broken /\ received' = received
      /\ pc' = IF live' THEN pc ELSE "poll"
  BY DEF TakeLine, client, Continue
<1>3. live
  BY <1>2 DEF LineInv
<1>4. buffer # <<>>
  <2>1. PICK e \in 1..Len(buffer) : buffer[e] = LF
    BY <1>1, <1>2, NextLine
  <2> QED
    BY <2>1, EmptySeq
<1>5. PICK k \in 0..received : CutBehind(k)
  BY <1>2, <1>3, <1>4 DEF LineInv, Cut
<1>6. PICK line : line = SubSeq(buffer, 1, use_pos - 1)
  OBVIOUS
<1>7. line \in Seq(Bytes)
  BY <1>2, <1>5, <1>6, LineTaken
<1>8. PICK j \in 1..received :
        /\ k < j /\ sent[j] = LF
        /\ Stream!Line(sent, j) = line
        /\ SubSeq(buffer, use_pos + delim_len, Len(buffer)) \in Seq(Bytes)
        /\ Remains(SubSeq(buffer, use_pos + delim_len, Len(buffer)), sent, j, received)
        /\ IF line # <<>>
           THEN /\ j \in Stream!CommandEnds(sent)
                /\ EndsTo(sent, j) = EndsTo(sent, k) \cup {j}
                /\ Cardinality(EndsTo(sent, j)) = Cardinality(EndsTo(sent, k)) + 1
           ELSE EndsTo(sent, j) = EndsTo(sent, k)
  BY <1>2, <1>5, <1>6, LineTaken
<1>9. buffer' \in Seq(Bytes) /\ Remains(buffer', sent, j, received)
  BY <1>8 DEF TakeLine
<1>10. k \in Nat /\ j \in Nat /\ j \in 0..received /\ Answers(served, sent, k)
  BY <1>1, <1>5, <1>8 DEF CutBehind
<1>11. \/ line # <<>> /\ served' = Append(served, line) /\ live' \in BOOLEAN
       \/ line = <<>> /\ served' = served /\ live' = live
  BY <1>6 DEF TakeLine, HandleLine, handleMessage
<1>12. Answers(served', sent, j)
  <2>1. CASE line # <<>>
    <3>1. served' = Append(served, line)
      BY <1>11, <2>1
    <3>2. Answers(Append(served, line), sent, j)
      BY <1>1, <1>7, <1>8, <1>10, <2>1, AnswersOneMore
    <3> QED
      BY <3>1, <3>2
  <2>2. CASE line = <<>>
    <3>1. served' = served /\ EndsTo(sent, j) = EndsTo(sent, k)
      BY <1>8, <1>11, <2>2
    <3>2. Answers(served, sent, j)
      BY <1>10, <3>1 DEF Answers
    <3> QED
      BY <3>1, <3>2
  <2> QED
    BY <2>1, <2>2
<1>13. Cut'
  <2>1. sent[j] = LF
    BY <1>8
  <2>2. CutBehind(j)'
    BY <1>2, <1>9, <1>12, <2>1 DEF CutBehind
  <2>3. j \in 0..received'
    BY <1>2, <1>10
  <2> QED
    BY <2>2, <2>3 DEF Cut
<1>14. LineTypeOK'
  <2>1. served' \in Seq(Seq(Bytes) \ {<<>>}) /\ live' \in BOOLEAN
    <3>1. served \in Seq(Seq(Bytes) \ {<<>>}) /\ live \in BOOLEAN
      BY DEF LineTypeOK
    <3>2. CASE line # <<>>
      <4>1. line \in Seq(Bytes) \ {<<>>} /\ served' = Append(served, line) /\ live' \in BOOLEAN
        BY <1>7, <1>11, <3>2
      <4> QED
        BY <3>1, <4>1, AppendProperties
    <3>3. CASE line = <<>>
      BY <1>11, <3>1, <3>3
    <3> QED
      BY <3>2, <3>3
  <2> QED
    BY <1>2, <1>9, <2>1 DEF LineTypeOK
<1>15. LineInv'
  <2>1. pc' # "poll" => live' /\ pc' = pc
    BY <1>2
  <2>2. ~(live' /\ pc' = "poll")
    BY <1>2
  <2>3. pc' = "eof" => ended' /\ received' = Len(sent')
    BY <1>2, <2>1 DEF LineInv
  <2> QED
    BY <1>13, <2>1, <2>2, <2>3 DEF LineInv
<1>16. CASE line # <<>>
  <2>1. served' = Append(served, line) /\ live' \in BOOLEAN
    BY <1>11, <1>16
  <2>2. /\ j \in Stream!CommandEnds(sent)
        /\ Cardinality(EndsTo(sent, j)) = Len(served) + 1
    BY <1>8, <1>10, <1>16 DEF Answers
  <2>3. PICK n : n = Len(served) + 1
    OBVIOUS
  <2>4. n \in 1..Cardinality(Stream!CommandEnds(sent))
    <3>1. Stream!CommandEnds(sent) = EndsTo(sent, Len(sent))
      BY <1>1 DEF EndsTo, Stream!CommandEnds, Stream!LineEnds
    <3> QED
      BY <1>1, <2>2, <2>3, <3>1, EndNumber
  <2>5. PICK f : f = EndedCommands(sent)
    OBVIOUS
  <2>6. /\ f \in Seq(Seq(Bytes)) /\ Len(f) = Cardinality(Stream!CommandEnds(sent))
        /\ f[n] = line
    BY <1>1, <1>8, <2>2, <2>3, <2>5, EndedIsSequence
  <2>7. PICK c : c = Stream!Commands
    OBVIOUS
  <2>8. n <= Len(c) /\ Len(c) \in Nat /\ c[n] = line
    <3>1. CASE c = f
      BY <2>4, <2>6, <3>1
    <3>2. CASE c # f
      <4>1. c = Append(f, Stream!Unfinished(sent))
        BY <2>5, <2>7, <3>2, CommandsAre DEF AllCommands
      <4>2. Len(c) = Len(f) + 1 /\ \A i \in 1..Len(f) : c[i] = f[i]
        BY <2>6, <4>1
      <4> QED
        BY <2>4, <2>6, <4>2
    <3> QED
      BY <3>1, <3>2
  <2>9. Len(served) < Len(c) /\ c[Len(served) + 1] = line
    BY <1>1, <2>3, <2>8
  <2>10. Stream!Serve
    BY <1>2, <1>3, <2>1, <2>7, <2>9 DEF Stream!Serve
  <2> QED
    BY <1>14, <1>15, <2>10
<1>17. CASE line = <<>>
  <2>1. UNCHANGED Stream!stream
    BY <1>2, <1>11, <1>17 DEF Stream!stream
  <2> QED
    BY <1>14, <1>15, <2>1
<1> QED
  BY <1>16, <1>17

\* A byte sent leaves where the stream has been cut as it is.
LEMMA SendStep ==
  ASSUME LineTypeOK, LineInv, NEW b \in Bytes, Send(b)
  PROVE  LineTypeOK' /\ LineInv' /\ Stream!Send(b)
<1>1. /\ sent \in Seq(Bytes) /\ buffer \in Seq(Bytes)
      /\ received \in Nat /\ received <= Len(sent) /\ Len(sent) \in Nat
  BY Typed
<1>2. /\ ~ended /\ ~broken /\ Len(sent) < MaxBytes /\ sent' = Append(sent, b)
      /\ UNCHANGED <<ended, broken, received, buffer, pc, served, live>>
  BY DEF Send
<1>3. sent' \in Seq(Bytes) /\ Len(sent') = Len(sent) + 1 /\ \A i \in 1..Len(sent) : sent'[i] = sent[i]
  BY <1>1, <1>2, AppendProperties
<1>4. LineTypeOK'
  <2>1. Len(sent') <= MaxBytes /\ received' \in 0..Len(sent')
    BY <1>1, <1>2, <1>3, LineBufferAssumption
  <2> QED
    BY <1>2, <1>3, <2>1 DEF LineTypeOK
<1>5. ASSUME Cut PROVE Cut'
  <2>1. PICK k \in 0..received : CutBehind(k)
    BY <1>5 DEF Cut
  <2>2. k \in 0..Len(sent) /\ k \in Nat
    BY <1>1
  <2>3. Answers(served, Append(sent, b), k)
    BY <1>1, <2>1, <2>2, ByteMore DEF CutBehind
  <2>4. Remains(buffer, sent', k, received)
    <3>1. \A i \in 1..received - k : k + i \in 1..Len(sent)
      BY <1>1, <2>2
    <3> QED
      BY <1>3, <2>1, <3>1 DEF CutBehind, Remains
  <2>5. k = 0 \/ sent'[k] = LF
    BY <1>3, <2>1, <2>2 DEF CutBehind
  <2>6. CutBehind(k)'
    BY <1>2, <2>3, <2>4, <2>5 DEF CutBehind
  <2> QED
    BY <1>2, <2>6 DEF Cut
<1>6. LineInv'
  <2>1. pc # "eof"
    BY <1>2 DEF LineInv
  <2> QED
    BY <1>2, <1>5, <2>1 DEF LineInv, NoLineIn
<1>7. Stream!Send(b)
  BY <1>2 DEF Stream!Send
<1> QED
  BY <1>4, <1>6, <1>7

LEMMA EndStep ==
  ASSUME LineTypeOK, LineInv, End
  PROVE  LineTypeOK' /\ LineInv' /\ Stream!End
<1>1. /\ ~ended /\ ~broken /\ ended' = TRUE
      /\ UNCHANGED <<sent, broken, received, buffer, pc, served, live>>
  BY DEF End
<1>2. LineTypeOK'
  BY <1>1 DEF LineTypeOK
<1>3. LineInv'
  BY <1>1 DEF LineInv, Cut, CutBehind, NoLineIn
<1>4. Stream!End
  BY <1>1 DEF Stream!End
<1> QED
  BY <1>2, <1>3, <1>4

LEMMA BreakStep ==
  ASSUME LineTypeOK, LineInv, Break
  PROVE  LineTypeOK' /\ LineInv' /\ Stream!Break
<1>1. /\ ~broken /\ broken' = TRUE
      /\ UNCHANGED <<sent, ended, received, buffer, pc, served, live>>
  BY DEF Break
<1>2. LineTypeOK'
  BY <1>1 DEF LineTypeOK
<1>3. LineInv'
  BY <1>1 DEF LineInv, Cut, CutBehind, NoLineIn
<1>4. Stream!Break
  BY <1>1 DEF Stream!Break
<1> QED
  BY <1>2, <1>3, <1>4

\* What is received goes behind what is in the buffer.
LEMMA ReceiveStep ==
  ASSUME LineTypeOK, LineInv, NEW n \in 1..MaxBytes, Receive(n)
  PROVE  LineTypeOK' /\ LineInv' /\ UNCHANGED Stream!stream
<1>1. /\ sent \in Seq(Bytes) /\ buffer \in Seq(Bytes)
      /\ received \in Nat /\ received <= Len(sent) /\ Len(sent) \in Nat /\ n \in Nat /\ 1 <= n
  BY Typed, LineBufferAssumption
<1>2. /\ pc = "poll" /\ live /\ received + n <= Len(sent) /\ received' = received + n
      /\ buffer' = buffer \o SubSeq(sent, received + 1, received + n) /\ pc' = "lines"
      /\ UNCHANGED <<sent, ended, broken, served, live>>
  BY DEF Receive, appendToBuffer, client
<1>3. PICK data : data = SubSeq(sent, received + 1, received + n)
  OBVIOUS
<1>4. data \in Seq(Bytes) /\ Len(data) = n /\ \A i \in 1..n : data[i] = sent[received + i]
  <2>1. PICK l, m : l = received + 1 /\ m = received + n
    OBVIOUS
  <2>2. l \in Int /\ m \in Int /\ l <= m /\ m - l + 1 = n
        /\ \A i \in 1..n : l + i - 1 = received + i
    BY <1>1, <2>1
  <2>3. \A i \in l..m : sent[i] \in Bytes
    <3>1. \A i \in l..m : i \in 1..Len(sent)
      BY <1>1, <1>2, <2>1
    <3> QED
      BY <1>1, <3>1, ElementOfSeq
  <2>4. data = SubSeq(sent, l, m)
    BY <1>3, <2>1
  <2>5. /\ data \in Seq(Bytes)
        /\ Len(data) = IF l <= m THEN m - l + 1 ELSE 0
        /\ \A i \in 1..m - l + 1 : data[i] = sent[l + i - 1]
    BY <2>2, <2>3, <2>4, SubSeqProperties
  <2> QED
    BY <2>2, <2>5
<1>5. /\ buffer' \in Seq(Bytes) /\ Len(buffer') = Len(buffer) + n
      /\ \A i \in 1..Len(buffer) + n :
           buffer'[i] = IF i <= Len(buffer) THEN buffer[i] ELSE data[i - Len(buffer)]
  <2>1. buffer' = buffer \o data
    BY <1>2, <1>3
  <2>2. /\ buffer \o data \in Seq(Bytes) /\ Len(buffer \o data) = Len(buffer) + Len(data)
        /\ \A i \in 1..Len(buffer) + Len(data) :
             (buffer \o data)[i] = IF i <= Len(buffer) THEN buffer[i] ELSE data[i - Len(buffer)]
    BY <1>1, <1>4, ConcatProperties, Zenon
  <2> QED
    BY <1>4, <2>1, <2>2, Zenon
<1>6. PICK k \in 0..received : CutBehind(k)
  BY <1>2 DEF LineInv, Cut
<1>7. /\ Len(buffer) = received - k /\ \A i \in 1..received - k : buffer[i] = sent[k + i]
      /\ k \in Nat /\ k <= received
  BY <1>1, <1>6 DEF CutBehind, Remains
<1>8. Remains(buffer', sent, k, received + n)
  <2>1. Len(buffer') = (received + n) - k
    BY <1>1, <1>5, <1>7
  <2>2. ASSUME NEW i \in 1..(received + n) - k PROVE buffer'[i] = sent[k + i]
    <3>1. i \in 1..Len(buffer) + n /\ i \in Nat
      BY <1>1, <1>7, <2>2
    <3>2. CASE i <= Len(buffer)
      <4>1. i \in 1..received - k
        BY <1>7, <3>1, <3>2
      <4> QED
        BY <1>5, <1>7, <3>1, <3>2, <4>1
    <3>3. CASE ~(i <= Len(buffer))
      <4>1. i - Len(buffer) \in 1..n /\ received + (i - Len(buffer)) = k + i
        BY <1>1, <1>7, <3>1, <3>3
      <4>2. buffer'[i] = data[i - Len(buffer)]
        BY <1>5, <3>1, <3>3
      <4> QED
        BY <1>4, <4>1, <4>2
    <3> QED
      BY <3>2, <3>3
  <2> QED
    BY <2>1, <2>2 DEF Remains
<1>9. Cut'
  <2>1. CutBehind(k)'
    BY <1>2, <1>6, <1>8 DEF CutBehind
  <2>2. k \in 0..received'
    BY <1>1, <1>2, <1>7
  <2> QED
    BY <2>1, <2>2 DEF Cut
<1>10. LineTypeOK'
  <2>1. received' \in 0..Len(sent')
    BY <1>1, <1>2
  <2> QED
    BY <1>2, <1>5, <2>1 DEF LineTypeOK
<1>11. LineInv'
  BY <1>2, <1>9 DEF LineInv
<1>12. UNCHANGED Stream!stream
  BY <1>2 DEF Stream!stream
<1> QED
  BY <1>10, <1>11, <1>12

LEMMA ReceiveEndStep ==
  ASSUME LineTypeOK, LineInv, ReceiveEnd
  PROVE  LineTypeOK' /\ LineInv' /\ UNCHANGED Stream!stream
<1>1. /\ pc = "poll" /\ live /\ ended /\ received = Len(sent) /\ pc' = "eof"
      /\ UNCHANGED <<sent, ended, broken, received, buffer, served, live>>
  BY DEF ReceiveEnd, client
<1>2. LineTypeOK'
  BY <1>1 DEF LineTypeOK
<1>3. Cut /\ (Cut => Cut')
  BY <1>1 DEF LineInv, Cut, CutBehind
<1>4. LineInv'
  BY <1>1, <1>3 DEF LineInv
<1>5. UNCHANGED Stream!stream
  BY <1>1 DEF Stream!stream
<1> QED
  BY <1>2, <1>4, <1>5

\* A client that is removed because its connection is broken.
LEMMA DropStep ==
  ASSUME LineTypeOK, LineInv, Drop
  PROVE  LineTypeOK' /\ LineInv' /\ Stream!Disconnect
<1>1. /\ pc = "poll" /\ live /\ broken /\ live' = FALSE
      /\ UNCHANGED <<sent, ended, broken, received, buffer, pc, served>>
  BY DEF Drop, client
<1>2. LineTypeOK'
  BY <1>1 DEF LineTypeOK
<1>3. LineInv'
  BY <1>1 DEF LineInv
<1>4. Stream!Disconnect
  BY <1>1 DEF Stream!Disconnect
<1> QED
  BY <1>2, <1>3, <1>4

\* When no line is left the server goes back to poll().
LEMMA AwaitMoreStep ==
  ASSUME LineTypeOK, LineInv, AwaitMore
  PROVE  LineTypeOK' /\ LineInv' /\ UNCHANGED Stream!stream
<1>1. /\ pc = "lines" /\ use_pos = 0 /\ pc' = "poll"
      /\ UNCHANGED <<sent, ended, broken, received, buffer, served, live>>
  BY DEF AwaitMore, client
<1>2. LineTypeOK'
  BY <1>1 DEF LineTypeOK
<1>3. NoLineIn(buffer)
  BY <1>1, Typed, NoLine
<1>4. Cut /\ (Cut => Cut')
  BY <1>1 DEF LineInv, Cut, CutBehind
<1>5. LineInv'
  BY <1>1, <1>3, <1>4 DEF LineInv, NoLineIn
<1>6. UNCHANGED Stream!stream
  BY <1>1 DEF Stream!stream
<1> QED
  BY <1>2, <1>5, <1>6

\* The unfinished line is the last command of an ended stream.
LEMMA TakeUnfinishedStep ==
  ASSUME LineTypeOK, LineInv, TakeUnfinished
  PROVE  LineTypeOK' /\ LineInv' /\ Stream!Serve
<1>1. /\ pc = "eof" /\ use_pos = 0 /\ buffer # <<>> /\ buffer' = <<>>
      /\ served' = Append(served, buffer) /\ live' \in BOOLEAN
      /\ pc' = IF live' THEN pc ELSE "poll"
      /\ UNCHANGED <<sent, ended, broken, received>>
  BY DEF TakeUnfinished, client, handleMessage, Continue
<1>2. /\ sent \in Seq(Bytes) /\ buffer \in Seq(Bytes)
      /\ received \in Nat /\ received <= Len(sent) /\ Len(sent) \in Nat
      /\ served \in Seq(Seq(Bytes))
  BY Typed
<1>3. live /\ ended /\ received = Len(sent) /\ Cut
  BY <1>1 DEF LineInv
<1>4. PICK k \in 0..received : CutBehind(k)
  BY <1>3 DEF Cut
<1>5. served = EndedCommands(sent) /\ Stream!Unfinished(sent) = buffer
  BY <1>1, <1>2, <1>3, <1>4, NoLine, AllAnswered
<1>6. AllCommands(sent) = Append(served, buffer)
  BY <1>1, <1>5 DEF AllCommands
<1>7. Stream!Commands = Append(served, buffer)
  BY <1>3, <1>6, CommandsAre
<1>8. LineTypeOK'
  <2>1. served' \in Seq(Seq(Bytes) \ {<<>>})
    <3>1. served \in Seq(Seq(Bytes) \ {<<>>}) /\ buffer \in Seq(Bytes) \ {<<>>}
      BY <1>1, <1>2 DEF LineTypeOK
    <3> QED
      BY <1>1, <3>1, AppendProperties
  <2>2. buffer' \in Seq(Bytes) /\ pc' \in {"poll", "lines", "eof"}
    BY <1>1
  <2> QED
    BY <1>1, <2>1, <2>2 DEF LineTypeOK
<1>9. LineInv'
  <2>1. pc' = "eof" => /\ ended' /\ received' = Len(sent')
                       /\ buffer' = <<>> /\ served' = AllCommands(sent')
    BY <1>1, <1>3, <1>6
  <2>2. (pc' # "poll" => live') /\ ~(live' /\ pc' # "eof")
    BY <1>1
  <2> QED
    BY <2>1, <2>2 DEF LineInv
<1>10. Stream!Serve
  <2>1. PICK c : c = Stream!Commands
    OBVIOUS
  <2>2. Len(served) < Len(c) /\ c[Len(served) + 1] = buffer
    BY <1>2, <1>7, <2>1, AppendProperties
  <2> QED
    BY <1>1, <1>3, <2>1, <2>2 DEF Stream!Serve
<1> QED
  BY <1>8, <1>9, <1>10

\* A client that has ended its stream goes when all has been handled.
LEMMA CloseEndedStep ==
  ASSUME LineTypeOK, LineInv, CloseEnded
  PROVE  LineTypeOK' /\ LineInv' /\ Stream!Disconnect
<1>1. /\ pc = "eof" /\ use_pos = 0 /\ buffer = <<>> /\ live' = FALSE /\ pc' = "poll"
      /\ UNCHANGED <<sent, ended, broken, received, buffer, served>>
  BY DEF CloseEnded, client
<1>2. LineTypeOK'
  BY <1>1 DEF LineTypeOK
<1>3. LineInv'
  BY <1>1 DEF LineInv
<1>4. live /\ ended /\ received = Len(sent)
  BY <1>1 DEF LineInv
<1>5. served = AllCommands(sent)
  <2>1. CASE Cut
    <3>1. PICK k \in 0..received : CutBehind(k)
      BY <2>1 DEF Cut
    <3>2. NoLineIn(buffer)
      BY <1>1, Typed, NoLine
    <3>3. served = EndedCommands(sent) /\ Stream!Unfinished(sent) = buffer
      BY <1>4, <3>1, <3>2, AllAnswered
    <3> QED
      BY <1>1, <3>3 DEF AllCommands
  <2>2. CASE ~Cut
    BY <1>1, <2>2 DEF LineInv
  <2> QED
    BY <2>1, <2>2
<1>6. Stream!Disconnect
  BY <1>1, <1>4, <1>5, CommandsAre DEF Stream!Disconnect
<1> QED
  BY <1>2, <1>3, <1>6

-----------------------------------------------------------------------------
(* The results *)

LEMMA LinesStart == Init => LineTypeOK /\ LineInv /\ Stream!Init
<1> SUFFICES ASSUME Init PROVE LineTypeOK /\ LineInv /\ Stream!Init
  OBVIOUS
<1>1. /\ sent = <<>> /\ ended = FALSE /\ broken = FALSE /\ received = 0 /\ buffer = <<>>
      /\ pc = "poll" /\ served = <<>> /\ live = TRUE
  BY DEF Init
<1>2. LineTypeOK
  <2>1. sent \in Seq(Bytes) /\ Len(sent) = 0 /\ buffer \in Seq(Bytes)
    BY <1>1, EmptySeq
  <2>2. served \in Seq(Seq(Bytes) \ {<<>>})
    BY <1>1, EmptySeq
  <2>3. {ended, broken, live} \subseteq BOOLEAN /\ pc \in {"poll", "lines", "eof"}
    BY <1>1
  <2>4. Len(sent) <= MaxBytes /\ received \in 0..Len(sent)
    BY <1>1, <2>1, LineBufferAssumption
  <2> QED
    BY <2>1, <2>2, <2>3, <2>4 DEF LineTypeOK
<1>3. PICK s : s = <<>>
  OBVIOUS
<1>4. s \in Seq(Bytes) /\ Len(s) = 0
  BY <1>3, EmptySeq
<1>5. EndsTo(s, 0) = {} /\ Cardinality({}) = 0
  <2>1. EndsTo(s, 0) \subseteq 1..Len(s)
    <3>1. 0 \in Nat
      OBVIOUS
    <3> QED
      BY <1>4, <3>1, EndsAreFinite
  <2>2. EndsTo(s, 0) = {}
    BY <1>4, <2>1
  <2> QED
    BY <2>2, FS_EmptySet
<1>6. Answers(s, s, 0)
  BY <1>4, <1>5 DEF Answers
<1>7. Remains(s, s, 0, 0) /\ NoLineIn(s)
  BY <1>4 DEF Remains, NoLineIn
<1>8. CutBehind(0)
  BY <1>1, <1>3, <1>6, <1>7 DEF CutBehind
<1>9. LineInv
  BY <1>1, <1>3, <1>7, <1>8 DEF LineInv, Cut
<1>10. Stream!Init
  BY <1>1 DEF Stream!Init
<1> QED
  BY <1>2, <1>9, <1>10

LEMMA LinesStep ==
  ASSUME LineTypeOK, LineInv, [Next]_vars
  PROVE  LineTypeOK' /\ LineInv' /\ [Stream!Next]_Stream!stream
<1>1. CASE \E b \in Bytes : Send(b)
  <2>1. PICK b \in Bytes : Send(b)
    BY <1>1
  <2>2. LineTypeOK' /\ LineInv' /\ Stream!Send(b) /\ b \in Stream!Bytes
    BY <2>1, SendStep DEF Stream!Bytes, Bytes
  <2> QED
    BY <2>2 DEF Stream!Next
<1>2. CASE End
  BY <1>2, EndStep DEF Stream!Next
<1>3. CASE Break
  BY <1>3, BreakStep DEF Stream!Next
<1>4. CASE \E n \in 1..MaxBytes : Receive(n)
  BY <1>4, ReceiveStep
<1>5. CASE ReceiveEnd
  BY <1>5, ReceiveEndStep
<1>6. CASE Drop
  BY <1>6, DropStep DEF Stream!Next
<1>7. CASE TakeLine
  BY <1>7, TakeLineStep DEF Stream!Next
<1>8. CASE AwaitMore
  BY <1>8, AwaitMoreStep
<1>9. CASE TakeUnfinished
  BY <1>9, TakeUnfinishedStep DEF Stream!Next
<1>10. CASE CloseEnded
  BY <1>10, CloseEndedStep DEF Stream!Next
<1>11. CASE UNCHANGED vars
  <2>1. UNCHANGED <<sent, ended, broken, received, buffer, pc, served, live>>
    BY <1>11 DEF vars
  <2>2. LineTypeOK' /\ UNCHANGED Stream!stream
    BY <2>1 DEF LineTypeOK, Stream!stream
  <2>3. LineInv'
    BY <2>1 DEF LineInv, Cut, CutBehind, NoLineIn
  <2> QED
    BY <2>2, <2>3
<1> QED
  BY <1>1, <1>2, <1>3, <1>4, <1>5, <1>6, <1>7, <1>8, <1>9, <1>10, <1>11 DEF Next, Server

\* The lines handed to handleMessage are never empty; every variable keeps its
\* type (processClientData).
THEOREM LinesTypeCorrect == Spec => []LineTypeOK
<1>1. Init => LineTypeOK /\ LineInv
  BY LinesStart
<1>2. LineTypeOK /\ LineInv /\ [Next]_vars => (LineTypeOK /\ LineInv)'
  BY LinesStep
<1> QED
  BY <1>1, <1>2, PTL DEF Spec

\* Between two reads the buffer of a client is exactly what it has sent behind
\* the last line end received (the loops of processClientData).
THEOREM UnfinishedLineHeld == Spec => []HoldsUnfinishedLine
<1>1. Init => LineTypeOK /\ LineInv
  BY LinesStart
<1>2. LineTypeOK /\ LineInv /\ [Next]_vars => (LineTypeOK /\ LineInv)'
  BY LinesStep
<1>3. LineTypeOK /\ LineInv => HoldsUnfinishedLine
  <2> SUFFICES ASSUME LineTypeOK, LineInv, live, pc = "poll"
               PROVE  buffer = Stream!Unfinished(SubSeq(sent, 1, received))
    BY DEF HoldsUnfinishedLine
  <2>1. /\ sent \in Seq(Bytes) /\ buffer \in Seq(Bytes)
        /\ received \in Nat /\ received <= Len(sent) /\ Len(sent) \in Nat
    BY Typed
  <2>2. NoLineIn(buffer) /\ Cut
    BY DEF LineInv
  <2>3. PICK k \in 0..received : CutBehind(k)
    BY <2>2 DEF Cut
  <2>4. PICK p : p = SubSeq(sent, 1, received)
    OBVIOUS
  <2>5. p \in Seq(Bytes) /\ Len(p) = received /\ \A i \in 1..received : p[i] = sent[i]
    <3>1. \A i \in 1..received : sent[i] \in Bytes
      <4>1. \A i \in 1..received : i \in 1..Len(sent)
        BY <2>1
      <4> QED
        BY <2>1, <4>1, ElementOfSeq
    <3>2. 1 \in Int /\ received \in Int
      BY <2>1
    <3>3. /\ p \in Seq(Bytes)
          /\ Len(p) = IF 1 <= received THEN received - 1 + 1 ELSE 0
          /\ \A i \in 1..received - 1 + 1 : p[i] = sent[1 + i - 1]
      BY <2>4, <3>1, <3>2, SubSeqProperties
    <3>4. received - 1 + 1 = received /\ \A i \in 1..received : 1 + i - 1 = i
      BY <2>1
    <3> QED
      BY <2>1, <3>3, <3>4
  <2>6. k \in Nat /\ k <= received
    BY <2>1
  <2>7. k = 0 \/ p[k] = LF
    BY <2>3, <2>5, <2>6 DEF CutBehind
  <2>8. Remains(buffer, p, k, Len(p))
    <3>1. \A i \in 1..received - k : k + i \in 1..received
      BY <2>1, <2>6
    <3> QED
      BY <2>3, <2>5, <3>1 DEF CutBehind, Remains
  <2>9. Stream!Unfinished(p) = buffer
    BY <2>1, <2>2, <2>5, <2>6, <2>7, <2>8, UnfinishedIs
  <2> QED
    BY <2>4, <2>9
<1> QED
  BY <1>1, <1>2, <1>3, PTL DEF Spec

\* Every line is handled as the command it is in the stream, in order, once and
\* without its end, whatever the reads were, and a client is removed in no
\* other way than the stream allows: the safety part of StreamSpec.
THEOREM LinesFollowStream == Spec => Stream!Init /\ [][Stream!Next]_Stream!stream
<1>1. Init => LineTypeOK /\ LineInv /\ Stream!Init
  BY LinesStart
<1>2. LineTypeOK /\ LineInv /\ [Next]_vars => (LineTypeOK /\ LineInv)'
  BY LinesStep
<1>3. LineTypeOK /\ LineInv /\ [Next]_vars => [Stream!Next]_Stream!stream
  BY LinesStep
<1> QED
  BY <1>1, <1>2, <1>3, PTL DEF Spec
=============================================================================
