---------------------------- MODULE SendingProofs ----------------------------
(***************************************************************************)
(* Proofs about Sending, for every set of descriptors, number of channels, *)
(* depth of the stack and number of writes a message takes.                *)
(***************************************************************************)
EXTENDS Sending, NumberProofs, SequenceTheorems

-----------------------------------------------------------------------------
(* Instructions *)

News == {NoNews} \cup (Fds \X Names)

Instructions ==
  [op : {"send"}, to : Fds, news : News, writes : Nat]
    \cup [op : {"use"}, to : Fds]
    \cup [op : {"channel"}, chan : Names]
    \cup [op : {"cast"}, chan : Names, but : Fds \cup {0}, news : News,
          at : Fds \cup {0}]
    \cup [op : {"each"}, at : Fds \cup {0}]
    \cup [op : {"leave"}, who : Fds, chan : Names]
    \cup [op : {"sweep"}, who : Fds, at : Nat, notices : {0, 1}]
    \cup [op : {"erase", "remove"}, who : Fds]

\* What an instruction consists of.
WellFormed(x) ==
  /\ x.op \in {"send", "use", "channel", "cast", "each", "leave", "sweep", "erase",
              "remove"}
  /\ x.op \in {"send", "use"} => x.to \in Fds
  /\ x.op = "send" => x.writes \in Nat
  /\ x.op \in {"send", "cast"} => x.news \in News
  /\ x.op \in {"cast", "leave", "channel"} => x.chan \in Names
  /\ x.op = "cast" => x.but \in Fds \cup {0}
  /\ x.op \in {"cast", "each"} => x.at \in Fds \cup {0}
  /\ x.op \in {"leave", "sweep", "erase", "remove"} => x.who \in Fds
  /\ x.op = "sweep" => x.at \in Nat /\ x.notices \in {0, 1}

LEMMA InstructionsWellFormed == \A x \in Instructions : WellFormed(x)
BY SMT DEF Instructions, WellFormed

LEMMA Numbers == Fds \subseteq Nat /\ 0 \notin Fds /\ Names \subseteq Nat /\ 0 \notin Names
BY SendingAssumption DEF Names

LEMMA NewsMade ==
  /\ NoNews \in News
  /\ \A f \in Fds, n \in Names : Departs(f, n) \in News /\ Departs(f, n) # NoNews
BY Numbers DEF News, NoNews, Departs

LEMMA SendMade ==
  \A g \in Fds, news \in News, w \in Nat : SendMore(g, news, w) \in Instructions
BY DEF Instructions, SendMore

LEMMA CastMade ==
  \A n \in Names, x \in Fds \cup {0}, news \in News, p \in Fds \cup {0} :
    CastFrom(n, x, news, p) \in Instructions
BY DEF Instructions, CastFrom

LEMMA OthersMade ==
  /\ \A g \in Fds : Use(g) \in Instructions /\ Erase(g) \in Instructions /\ Remove(g) \in Instructions
  /\ \A p \in Fds \cup {0} : EachFrom(p) \in Instructions
  /\ \A n \in Names : UseChannel(n) \in Instructions
  /\ \A f \in Fds, n \in Names : Leave(f, n) \in Instructions
  /\ \A f \in Fds, n \in Nat, c \in {0, 1} : SweepFrom(f, n, c) \in Instructions
BY DEF Instructions, Use, UseChannel, Erase, Remove, EachFrom, Leave, SweepFrom

-----------------------------------------------------------------------------
(* The stack *)

\* r is s without its first instruction.
Popped(r, s) ==
  /\ Len(r) = Len(s) - 1
  /\ \A k \in 1..Len(r) : r[k] = s[k + 1]

\* r is s with c more in front: what they are is said apart.
Shifted(r, s, c) ==
  /\ Len(r) = Len(s) + c
  /\ \A k \in c + 2..Len(r) : r[k] = s[k - c]

LEMMA TailPops ==
  ASSUME NEW s \in Seq(Instructions), s # <<>>
  PROVE  /\ Len(s) \in Nat \ {0} /\ Head(s) = s[1] /\ s[1] \in Instructions
         /\ Tail(s) \in Seq(Instructions) /\ Popped(Tail(s), s)
         /\ DOMAIN s = 1..Len(s) /\ DOMAIN Tail(s) = 1..Len(Tail(s))
<1>1. Len(s) \in Nat \ {0}
  BY EmptySeq
<1>2. Head(s) = s[1] /\ s[1] \in Instructions
  BY <1>1, ElementOfSeq
<1>3. Tail(s) \in Seq(Instructions) /\ Popped(Tail(s), s)
  BY HeadTailProperties DEF Popped
<1> QED
  BY <1>1, <1>2, <1>3, LenProperties

LEMMA Prefixed ==
  ASSUME NEW s \in Seq(Instructions), s # <<>>,
         NEW d \in Seq(Instructions), NEW c \in Nat, Len(d) = c
  PROVE  /\ d \o Tail(s) \in Seq(Instructions)
         /\ \A k \in 1..c : (d \o Tail(s))[k] = d[k]
         /\ Shifted(d \o Tail(s), s, c - 1)
<1>1. /\ Len(s) \in Nat \ {0} /\ Tail(s) \in Seq(Instructions)
      /\ Popped(Tail(s), s)
  BY TailPops
<1>2. PICK t \in Seq(Instructions) : t = Tail(s)
  BY <1>1
<1>3. /\ d \o t \in Seq(Instructions) /\ Len(d \o t) = c + Len(t)
      /\ \A k \in 1..c + Len(t) : (d \o t)[k] = IF k <= c THEN d[k] ELSE t[k - c]
  BY ConcatProperties
<1>4. Len(t) = Len(s) - 1 /\ \A k \in 1..Len(t) : t[k] = s[k + 1]
  BY <1>1, <1>2 DEF Popped
<1>5. \A k \in 1..c : (d \o t)[k] = d[k]
  BY <1>1, <1>3, <1>4
<1>6. ASSUME NEW k \in (c - 1) + 2..Len(d \o t)
      PROVE  (d \o t)[k] = s[k - (c - 1)]
  <2>1. k \in Int /\ k - c \in 1..Len(t) /\ ~(k <= c) /\ k \in 1..c + Len(t)
    BY <1>1, <1>3, <1>4
  <2>2. (d \o t)[k] = t[k - c] /\ t[k - c] = s[(k - c) + 1]
    BY <2>1, <1>3, <1>4
  <2> QED
    BY <2>1, <2>2, (k - c) + 1 = k - (c - 1)
<1>7. Len(d \o t) = Len(s) + (c - 1)
  BY <1>1, <1>3, <1>4
<1> QED
  BY <1>2, <1>3, <1>5, <1>6, <1>7 DEF Shifted

LEMMA Single ==
  ASSUME NEW x \in Instructions
  PROVE  \E one \in Seq(Instructions) : one = <<x>> /\ Len(one) = 1 /\ one[1] = x
<1>1. <<x>> \in Seq(Instructions) /\ Len(<<x>>) = 1 /\ <<x>>[1] = x
  OBVIOUS
<1> QED
  BY <1>1

LEMMA FollowedBy ==
  ASSUME NEW a \in Seq(Instructions), NEW b \in Seq(Instructions)
  PROVE  /\ a \o b \in Seq(Instructions) /\ Len(a \o b) = Len(a) + Len(b)
         /\ \A k \in 1..Len(a) : (a \o b)[k] = a[k]
         /\ \A k \in 1..Len(b) : (a \o b)[Len(a) + k] = b[k]
<1>1. Len(a) \in Nat /\ Len(b) \in Nat
  BY LenProperties
<1>2. /\ a \o b \in Seq(Instructions) /\ Len(a \o b) = Len(a) + Len(b)
      /\ \A k \in 1..Len(a) + Len(b) : (a \o b)[k] =
           IF k <= Len(a) THEN a[k] ELSE b[k - Len(a)]
  BY ConcatProperties
<1> QED
  BY <1>1, <1>2

\* One, two, three and four instructions in the place of the first.
LEMMA OneForTheFirst ==
  ASSUME NEW s \in Seq(Instructions), s # <<>>, NEW x \in Instructions
  PROVE  LET r == <<x>> \o Tail(s)
         IN r \in Seq(Instructions) /\ r[1] = x /\ Shifted(r, s, 0)
<1>2. PICK d \in Seq(Instructions) : d = <<x>> /\ Len(d) = 1 /\ d[1] = x
  BY Single
<1>3. /\ d \o Tail(s) \in Seq(Instructions)
      /\ \A k \in 1..1 : (d \o Tail(s))[k] = d[k]
      /\ Shifted(d \o Tail(s), s, 1 - 1)
  BY <1>2, Prefixed, 1 \in Nat
<1> QED
  BY <1>2, <1>3

LEMMA TwoForTheFirst ==
  ASSUME NEW s \in Seq(Instructions), s # <<>>,
         NEW x \in Instructions, NEW y \in Instructions
  PROVE  LET r == <<x, y>> \o Tail(s)
         IN r \in Seq(Instructions) /\ r[1] = x /\ r[2] = y /\ Shifted(r, s, 1)
<1>1. <<x, y>> \in Seq(Instructions) /\ Len(<<x, y>>) = 2 /\ <<x, y>>[1] = x /\ <<x, y>>[2] = y
  OBVIOUS
<1>2. PICK d \in Seq(Instructions) : d = <<x, y>> /\ Len(d) = 2 /\ d[1] = x /\ d[2] = y
  BY <1>1
<1>3. /\ d \o Tail(s) \in Seq(Instructions)
      /\ \A k \in 1..2 : (d \o Tail(s))[k] = d[k]
      /\ Shifted(d \o Tail(s), s, 2 - 1)
  BY <1>2, Prefixed, 2 \in Nat
<1> QED
  BY <1>2, <1>3
\* What a sweep puts in the place of itself.
LEMMA FarewellMade ==
  ASSUME NEW f \in Fds, NEW n \in Names, NEW c \in {0, 1}
  PROVE  LET d == Farewell(f, n, c) \o <<SweepFrom(f, n + 1, c)>>
         IN /\ d \in Seq(Instructions) /\ Len(d) = 3 + c
            /\ d[1] = CastFrom(n, f, Departs(f, n), 0)
            /\ c = 1 => d[2] = Broadcast(n, f)
            /\ d[2 + c] = Leave(f, n)
            /\ d[3 + c] = SweepFrom(f, n + 1, c)
<1>0. n \in Nat /\ n + 1 \in Nat /\ c \in Nat
  BY Numbers
<1>1. PICK cast \in Instructions : cast = CastFrom(n, f, Departs(f, n), 0)
  BY CastMade, NewsMade
<1>2. PICK notice \in Instructions : notice = Broadcast(n, f)
  BY CastMade, NewsMade DEF Broadcast
<1>3. PICK leave \in Instructions : leave = Leave(f, n)
  BY OthersMade
<1>4. PICK sweep \in Instructions : sweep = SweepFrom(f, n + 1, c)
  BY OthersMade, <1>0
<1>5. PICK notices \in Seq(Instructions) :
        /\ notices = [k \in 1..c |-> notice] /\ Len(notices) = c
        /\ (c = 1 => notices[1] = notice)
  <2>1. [k \in 1..c |-> notice] \in [1..c -> Instructions]
    OBVIOUS
  <2>2. [k \in 1..c |-> notice] \in Seq(Instructions)
    BY <2>1, <1>0, SeqDef
  <2>3. Len([k \in 1..c |-> notice]) = c
    BY <1>0, <2>2, LenProperties
  <2>4. PICK q \in Seq(Instructions) : q = [k \in 1..c |-> notice] /\ Len(q) = c
    BY <2>2, <2>3
  <2>5. c = 1 => q[1] = notice
    BY <2>4
  <2> QED
    BY <2>4, <2>5
<1>6. PICK a \in Seq(Instructions) :
        /\ a = <<cast>> \o notices /\ Len(a) = 1 + c
        /\ a[1] = cast /\ (c = 1 => a[2] = notice)
  <2>1. PICK one \in Seq(Instructions) : one = <<cast>> /\ Len(one) = 1 /\ one[1] = cast
    BY Single
  <2>2. /\ one \o notices \in Seq(Instructions) /\ Len(one \o notices) = 1 + c
        /\ (one \o notices)[1] = cast /\ (c = 1 => (one \o notices)[2] = notice)
    <3>1. 2 = 1 + 1
      OBVIOUS
    <3> QED
      BY <1>0, <1>5, <2>1, <3>1, FollowedBy
  <2> QED
    BY <2>1, <2>2
<1>7. PICK b \in Seq(Instructions) :
        /\ b = a \o <<leave>> /\ Len(b) = 2 + c
        /\ b[1] = cast /\ (c = 1 => b[2] = notice)
        /\ b[2 + c] = leave
  <2>1. PICK one \in Seq(Instructions) : one = <<leave>> /\ Len(one) = 1 /\ one[1] = leave
    BY Single
  <2>2. /\ a \o one \in Seq(Instructions) /\ Len(a \o one) = 2 + c
        /\ (a \o one)[1] = cast /\ (c = 1 => (a \o one)[2] = notice)
        /\ (a \o one)[2 + c] = leave
    BY <1>0, <1>6, <2>1, FollowedBy
  <2> QED
    BY <2>1, <2>2
<1>8. /\ b \o <<sweep>> \in Seq(Instructions) /\ Len(b \o <<sweep>>) = 3 + c
      /\ (b \o <<sweep>>)[1] = cast /\ (c = 1 => (b \o <<sweep>>)[2] = notice)
      /\ (b \o <<sweep>>)[2 + c] = leave
      /\ (b \o <<sweep>>)[3 + c] = sweep
  <2>1. PICK one \in Seq(Instructions) : one = <<sweep>> /\ Len(one) = 1 /\ one[1] = sweep
    BY Single
  <2> QED
    BY <1>0, <1>7, <2>1, FollowedBy
<1>9. b = Farewell(f, n, c)
  BY <1>1, <1>2, <1>3, <1>5, <1>6, <1>7, Zenon DEF Farewell
<1> QED
  BY <1>1, <1>2, <1>3, <1>4, <1>8, <1>9

-----------------------------------------------------------------------------
(* What a step does, by the instruction it executes *)

TypeInv ==
  /\ SendingTypeOK
  /\ polled = live
  /\ todo \in Seq(Instructions)
  /\ fault # "none" => todo = <<>>

Quietly == UNCHANGED <<clients, broken, fault, history, heard>>

\* A send fails, ends, or goes on.
Fails ==
  /\ todo[1].op = "send" /\ todo[1].to \in live
  /\ todo'[1] = Remove(todo[1].to) /\ Shifted(todo', todo, 0)
  /\ struck' = struck \cup {todo[1].to}
  /\ UNCHANGED <<clients, broken, kind, before, fault, heard>>

Ends ==
  /\ todo[1].op = "send" /\ todo[1].to \in live
  /\ Popped(todo', todo)
  /\ heard' = IF todo[1].news = NoNews THEN heard
              ELSE heard \cup {<<todo[1].to>> \o todo[1].news}
  /\ UNCHANGED <<clients, broken, fault, history>>

Continues ==
  /\ todo[1].op = "send" /\ todo[1].to \in live
  /\ todo'[1] = SendMore(todo[1].to, todo[1].news, todo[1].writes + 1)
  /\ Shifted(todo', todo, 0)
  /\ Quietly

Used ==
  /\ \/ todo[1].op = "use" /\ todo[1].to \in live
     \/ todo[1].op = "channel" /\ member[todo[1].chan] # {}
  /\ Popped(todo', todo) /\ Quietly

CastEnds ==
  /\ todo[1].op = "cast" /\ todo[1].at \in member[todo[1].chan] \cup {0}
  /\ \A g \in member[todo[1].chan] : g > todo[1].at => g = todo[1].but
  /\ Popped(todo', todo) /\ Quietly

CastSends(c) ==
  /\ todo[1].op = "cast" /\ todo[1].at \in member[todo[1].chan] \cup {0}
  /\ c \in member[todo[1].chan] /\ c # todo[1].but
  /\ \A g \in member[todo[1].chan] : g > todo[1].at => g = todo[1].but \/ c <= g
  /\ todo'[1] = SendMore(c, todo[1].news, 0)
  /\ todo'[2] = CastFrom(todo[1].chan, todo[1].but, todo[1].news, c)
  /\ Shifted(todo', todo, 1) /\ Quietly

EachEnds ==
  /\ todo[1].op = "each" /\ todo[1].at \in live \cup {0}
  /\ Popped(todo', todo) /\ Quietly

EachSends(c) ==
  /\ todo[1].op = "each" /\ todo[1].at \in live \cup {0}
  /\ c \in live
  /\ todo'[1] = Send(c) /\ todo'[2] = EachFrom(c)
  /\ Shifted(todo', todo, 1) /\ Quietly

Removes ==
  /\ todo[1].op = "remove"
  /\ todo'[1] = SweepFrom(todo[1].who, 1, 0) /\ todo'[2] = Erase(todo[1].who)
  /\ Shifted(todo', todo, 1) /\ Quietly

SweepEnds ==
  /\ todo[1].op = "sweep"
  /\ todo[1].who \in live =>
       \A n \in Names : n >= todo[1].at => todo[1].who \notin member[n]
  /\ Popped(todo', todo) /\ Quietly

SweepLeaves(n, c) ==
  /\ todo[1].op = "sweep" /\ todo[1].who \in live /\ c = todo[1].notices
  /\ todo[1].who \in member[n] /\ n >= todo[1].at
  /\ \A m \in Names : m >= todo[1].at /\ todo[1].who \in member[m] => n <= m
  /\ todo'[1] = CastFrom(n, todo[1].who, Departs(todo[1].who, n), 0)
  /\ c = 1 => todo'[2] = Broadcast(n, todo[1].who)
  /\ todo'[2 + c] = Leave(todo[1].who, n)
  /\ todo'[3 + c] = SweepFrom(todo[1].who, n + 1, c)
  /\ Shifted(todo', todo, 2 + c) /\ Quietly

Leaves ==
  /\ todo[1].op = "leave"
  /\ member' = [member EXCEPT ![todo[1].chan] = @ \ {todo[1].who}]
  /\ Popped(todo', todo)
  /\ UNCHANGED <<live, polled, broken, fault, history, heard>>

Erases ==
  /\ todo[1].op = "erase" /\ todo[1].who \in live
  /\ live' = live \ {todo[1].who} /\ polled' = polled \ {todo[1].who}
  /\ broken' = broken \ {todo[1].who}
  /\ Popped(todo', todo)
  /\ UNCHANGED <<member, fault, history, heard>>

\* An object that is gone is used, or the stack exhausted.
Dangles ==
  /\ \/ todo[1].op \in {"send", "use"} /\ todo[1].to \notin live
     \/ todo[1].op = "channel" /\ member[todo[1].chan] = {}
     \/ todo[1].op = "cast" /\ todo[1].at \notin member[todo[1].chan] \cup {0}
     \/ todo[1].op = "each" /\ todo[1].at \notin live \cup {0}
     \/ todo[1].op = "erase" /\ todo[1].who \notin live
  /\ Undefined("dangling")

Overflows ==
  /\ todo[1].op = "remove"
  /\ ~(Cardinality(Pending(todo[1].who)) < MaxDepth)
  /\ Undefined("overflow")

Executes ==
  \/ Fails \/ Ends \/ Continues \/ Used
  \/ CastEnds \/ \E c \in Fds : CastSends(c)
  \/ EachEnds \/ \E c \in Fds : EachSends(c)
  \/ Removes
  \/ SweepEnds \/ \E n \in Names, c \in {0, 1} : SweepLeaves(n, c)
  \/ Leaves \/ Erases
  \/ Dangles \/ Overflows

LEMMA SendExecutes ==
  ASSUME TypeInv, Running, sendToClient
  PROVE  Executes /\ todo' \in Seq(Instructions)
<1>1. /\ todo \in Seq(Instructions) /\ todo # <<>>
      /\ this = todo[1] /\ todo[1] \in Instructions
      /\ rest \in Seq(Instructions) /\ Popped(rest, todo) /\ rest = Tail(todo)
  BY TailPops DEF TypeInv, Running, this, rest
<1>2. todo[1].op = "send" /\ todo[1].to \in live
  BY <1>1 DEF sendToClient
<1>3. todo[1].to \in Fds /\ todo[1].news \in News /\ todo[1].writes + 1 \in Nat
  BY <1>1, <1>2, InstructionsWellFormed DEF WellFormed
<1>4. CASE SendFails
  <2>1. Remove(todo[1].to) \in Instructions /\ todo' = <<Remove(todo[1].to)>> \o Tail(todo)
    BY <1>1, <1>3, <1>4, OthersMade DEF SendFails
  <2>2. todo' \in Seq(Instructions) /\ todo'[1] = Remove(todo[1].to) /\ Shifted(todo', todo, 0)
    BY <1>1, <2>1, OneForTheFirst
  <2> QED
    BY <1>1, <1>2, <1>4, <2>2 DEF SendFails, Fails, Executes
<1>5. CASE SendEnds
  BY <1>1, <1>2, <1>5 DEF SendEnds, Ends, Executes
<1>6. CASE SendPart
  <2>1. /\ SendMore(todo[1].to, todo[1].news, todo[1].writes + 1) \in Instructions
        /\ todo' = <<SendMore(todo[1].to, todo[1].news, todo[1].writes + 1)>> \o Tail(todo)
        /\ Quietly
    BY <1>1, <1>3, <1>6, SendMade DEF SendPart, Becomes, Quietly
  <2>2. /\ todo' \in Seq(Instructions) /\ Shifted(todo', todo, 0)
        /\ todo'[1] = SendMore(todo[1].to, todo[1].news, todo[1].writes + 1)
    BY <1>1, <2>1, OneForTheFirst
  <2> QED
    BY <1>2, <2>1, <2>2 DEF Continues, Executes
<1> QED
  BY <1>4, <1>5, <1>6 DEF sendToClient

LEMMA UseExecutes ==
  ASSUME TypeInv, Running, Refer \/ Dangling
  PROVE  Executes /\ todo' \in Seq(Instructions)
<1>1. this = todo[1] /\ rest \in Seq(Instructions) /\ Popped(rest, todo)
  BY TailPops DEF TypeInv, Running, this, rest
<1>2. CASE Refer
  BY <1>1, <1>2 DEF Refer, Becomes, Used, Quietly, Executes
<1>3. CASE Dangling
  <2>1. todo' \in Seq(Instructions)
    BY <1>3, EmptySeq DEF Dangling, Undefined
  <2>2. Dangles
    BY <1>1, <1>3 DEF Dangling, Dangles
  <2> QED
    BY <2>1, <2>2 DEF Executes
<1> QED
  BY <1>2, <1>3

LEMMA TheTop ==
  ASSUME TypeInv, Running
  PROVE  /\ todo \in Seq(Instructions) /\ todo # <<>> /\ Len(todo) \in Nat \ {0}
         /\ this = todo[1] /\ todo[1] \in Instructions /\ WellFormed(todo[1])
         /\ rest = Tail(todo) /\ rest \in Seq(Instructions) /\ Popped(rest, todo)
BY TailPops, InstructionsWellFormed DEF TypeInv, Running, this, rest

LEMMA CastExecutes ==
  ASSUME TypeInv, Running, Cast
  PROVE  Executes /\ todo' \in Seq(Instructions)
<1>1. /\ todo \in Seq(Instructions) /\ todo # <<>> /\ this = todo[1]
      /\ rest = Tail(todo) /\ rest \in Seq(Instructions) /\ Popped(rest, todo)
      /\ WellFormed(todo[1])
  BY TheTop
<1>2. todo[1].op = "cast"
  BY <1>1 DEF Cast
<1>3. /\ todo[1].chan \in Names /\ todo[1].but \in Fds \cup {0}
      /\ todo[1].news \in News /\ todo[1].at \in Fds \cup {0}
  BY <1>1, <1>2 DEF WellFormed
<1>4. CASE todo[1].at \notin member[todo[1].chan] \cup {0}
  <2>1. Undefined("dangling")
    BY <1>1, <1>4 DEF Cast
  <2>2. todo' \in Seq(Instructions)
    BY <2>1, EmptySeq DEF Undefined
  <2> QED
    BY <1>2, <1>4, <2>1, <2>2 DEF Dangles, Executes
<1>5. CASE todo[1].at \in member[todo[1].chan] \cup {0}
  <2>1. PICK N : N = Beyond(member[todo[1].chan], todo[1].at) \ {todo[1].but}
    OBVIOUS
  <2>2. member[todo[1].chan] \subseteq Fds
    BY <1>3 DEF TypeInv, SendingTypeOK
  <2>3. N \subseteq Fds /\ N \subseteq Nat
    BY <2>1, <2>2, Numbers DEF Beyond
  <2>4. CASE N = {}
    <3>1. Becomes(rest)
      BY <1>1, <1>5, <2>1, <2>4 DEF Cast
    <3>2. todo' \in Seq(Instructions) /\ Popped(todo', todo) /\ Quietly
      BY <3>1, <1>1 DEF Becomes, Quietly
    <3>3. \A g \in member[todo[1].chan] : g > todo[1].at => g = todo[1].but
      BY <2>1, <2>4 DEF Beyond
    <3> QED
      BY <1>2, <1>5, <3>2, <3>3 DEF CastEnds, Executes
  <2>5. CASE N # {}
    <3>1. PICK c : c = Min(N)
      OBVIOUS
    <3>2. c \in N /\ \A g \in N : c <= g
      BY <2>3, <2>5, <3>1, MinIsLeast
    <3>3. /\ c \in Fds /\ c \in member[todo[1].chan] /\ c # todo[1].but
          /\ \A g \in member[todo[1].chan] : g > todo[1].at => g = todo[1].but \/ c <= g
      BY <2>1, <2>3, <3>2 DEF Beyond
    <3>4. Becomes(<<SendMore(c, todo[1].news, 0),
                    CastFrom(todo[1].chan, todo[1].but, todo[1].news, c)>> \o Tail(todo))
      BY <1>1, <1>5, <2>1, <2>5, <3>1 DEF Cast
    <3>5. /\ SendMore(c, todo[1].news, 0) \in Instructions
          /\ CastFrom(todo[1].chan, todo[1].but, todo[1].news, c) \in Instructions
      BY <1>3, <3>3, SendMade, CastMade
    <3>6. /\ todo' \in Seq(Instructions) /\ Shifted(todo', todo, 1)
          /\ todo'[1] = SendMore(c, todo[1].news, 0)
          /\ todo'[2] = CastFrom(todo[1].chan, todo[1].but, todo[1].news, c)
          /\ Quietly
      BY <1>1, <3>4, <3>5, TwoForTheFirst DEF Becomes, Quietly
    <3>7. CastSends(c)
      BY <1>2, <1>5, <3>3, <3>6 DEF CastSends
    <3> QED
      BY <3>3, <3>6, <3>7 DEF Executes
  <2> QED
    BY <2>4, <2>5
<1> QED
  BY <1>4, <1>5

LEMMA EachExecutes ==
  ASSUME TypeInv, Running, Each
  PROVE  Executes /\ todo' \in Seq(Instructions)
<1>1. /\ todo \in Seq(Instructions) /\ todo # <<>> /\ this = todo[1]
      /\ rest = Tail(todo) /\ rest \in Seq(Instructions) /\ Popped(rest, todo)
      /\ WellFormed(todo[1])
  BY TheTop
<1>2. todo[1].op = "each"
  BY <1>1 DEF Each
<1>4. CASE todo[1].at \notin live \cup {0}
  <2>1. Undefined("dangling")
    BY <1>1, <1>4 DEF Each
  <2>2. todo' \in Seq(Instructions)
    BY <2>1, EmptySeq DEF Undefined
  <2> QED
    BY <1>2, <1>4, <2>1, <2>2 DEF Dangles, Executes
<1>5. CASE todo[1].at \in live \cup {0}
  <2>1. PICK N : N = Beyond(live, todo[1].at)
    OBVIOUS
  <2>2. live \subseteq Fds
    BY DEF TypeInv, SendingTypeOK
  <2>3. N \subseteq live /\ N \subseteq Nat
    BY <2>1, <2>2, Numbers DEF Beyond
  <2>4. CASE N = {}
    <3>1. Becomes(rest)
      BY <1>1, <1>5, <2>1, <2>4 DEF Each
    <3> QED
      BY <1>1, <1>2, <1>5, <3>1 DEF Becomes, Quietly, EachEnds, Executes
  <2>5. CASE N # {}
    <3>1. PICK c : c = Min(N)
      OBVIOUS
    <3>2. c \in live /\ c \in Fds
      BY <2>2, <2>3, <2>5, <3>1, MinIsLeast
    <3>4. Becomes(<<Send(c), EachFrom(c)>> \o Tail(todo))
      BY <1>1, <1>5, <2>1, <2>5, <3>1 DEF Each
    <3>5. Send(c) \in Instructions /\ EachFrom(c) \in Instructions
      BY <3>2, SendMade, NewsMade, OthersMade DEF Send
    <3>6. /\ todo' \in Seq(Instructions) /\ Shifted(todo', todo, 1)
          /\ todo'[1] = Send(c) /\ todo'[2] = EachFrom(c) /\ Quietly
      BY <1>1, <3>4, <3>5, TwoForTheFirst DEF Becomes, Quietly
    <3>7. EachSends(c)
      BY <1>2, <1>5, <3>2, <3>6 DEF EachSends
    <3> QED
      BY <3>2, <3>6, <3>7 DEF Executes
  <2> QED
    BY <2>4, <2>5
<1> QED
  BY <1>4, <1>5

LEMMA RemovingExecutes ==
  ASSUME TypeInv, Running, Removing
  PROVE  Executes /\ todo' \in Seq(Instructions)
<1>1. /\ todo \in Seq(Instructions) /\ todo # <<>> /\ this = todo[1]
      /\ rest = Tail(todo) /\ WellFormed(todo[1])
  BY TheTop
<1>2. todo[1].op = "remove" /\ todo[1].who \in Fds
  BY <1>1 DEF Removing, WellFormed
<1>3. CASE Cardinality(Pending(todo[1].who)) < MaxDepth
  <2>1. Becomes(<<SweepFrom(todo[1].who, 1, 0), Erase(todo[1].who)>> \o Tail(todo))
    BY <1>1, <1>3 DEF Removing, removeClient
  <2>2. SweepFrom(todo[1].who, 1, 0) \in Instructions /\ Erase(todo[1].who) \in Instructions
    BY <1>2, OthersMade
  <2>3. /\ todo' \in Seq(Instructions) /\ Shifted(todo', todo, 1) /\ Quietly
        /\ todo'[1] = SweepFrom(todo[1].who, 1, 0) /\ todo'[2] = Erase(todo[1].who)
    BY <1>1, <2>1, <2>2, TwoForTheFirst DEF Becomes, Quietly
  <2> QED
    BY <1>2, <2>3 DEF Removes, Executes
<1>4. CASE ~(Cardinality(Pending(todo[1].who)) < MaxDepth)
  <2>1. Undefined("overflow")
    BY <1>1, <1>4 DEF Removing
  <2>2. todo' \in Seq(Instructions)
    BY <2>1, EmptySeq DEF Undefined
  <2> QED
    BY <1>2, <1>4, <2>1, <2>2 DEF Overflows, Executes
<1> QED
  BY <1>3, <1>4

LEMMA SweepExecutes ==
  ASSUME TypeInv, Running, Sweep
  PROVE  Executes /\ todo' \in Seq(Instructions)
<1>1. /\ todo \in Seq(Instructions) /\ todo # <<>> /\ this = todo[1]
      /\ rest = Tail(todo) /\ rest \in Seq(Instructions) /\ Popped(rest, todo)
      /\ WellFormed(todo[1])
  BY TheTop
<1>2. /\ todo[1].op = "sweep" /\ todo[1].who \in Fds
      /\ todo[1].at \in Nat /\ todo[1].notices \in {0, 1}
  BY <1>1 DEF Sweep, WellFormed
<1>3. PICK f \in Fds, c \in {0, 1} : f = todo[1].who /\ c = todo[1].notices
  BY <1>2
<1>4. PICK N : N = {n \in Names : n >= todo[1].at /\ f \in member[n]}
  OBVIOUS
<1>5. N \subseteq Names /\ N \subseteq Nat
  BY <1>4, Numbers
<1>6. CASE f \notin live \/ N = {}
  <2>1. Becomes(rest)
    BY <1>1, <1>3, <1>4, <1>6 DEF Sweep
  <2>2. f \in live => \A n \in Names : n >= todo[1].at => f \notin member[n]
    BY <1>4, <1>6
  <2> QED
    BY <1>1, <1>2, <1>3, <2>1, <2>2 DEF Becomes, Quietly, SweepEnds, Executes
<1>7. CASE f \in live /\ N # {}
  <2>1. PICK n : n = Min(N)
    OBVIOUS
  <2>2. n \in N /\ \A m \in N : n <= m
    BY <1>5, <1>7, <2>1, MinIsLeast
  <2>3. /\ n \in Names /\ n >= todo[1].at /\ f \in member[n]
        /\ \A m \in Names : m >= todo[1].at /\ f \in member[m] => n <= m
    BY <1>4, <2>2
  <2>4. Becomes((Farewell(f, n, c) \o <<SweepFrom(f, n + 1, c)>>) \o Tail(todo))
    BY <1>1, <1>3, <1>4, <1>7, <2>1 DEF Sweep
  <2>5. PICK d \in Seq(Instructions) :
          /\ d = Farewell(f, n, c) \o <<SweepFrom(f, n + 1, c)>>
          /\ Len(d) = 3 + c
          /\ d[1] = CastFrom(n, f, Departs(f, n), 0)
          /\ (c = 1 => d[2] = Broadcast(n, f))
          /\ d[2 + c] = Leave(f, n)
          /\ d[3 + c] = SweepFrom(f, n + 1, c)
    BY <2>3, FarewellMade
  <2>6. /\ d \o Tail(todo) \in Seq(Instructions)
        /\ \A k \in 1..3 + c : (d \o Tail(todo))[k] = d[k]
        /\ Shifted(d \o Tail(todo), todo, (3 + c) - 1)
    <3>1. PICK e \in Nat : e = 3 + c /\ Len(d) = e
      BY <2>5
    <3>2. /\ d \o Tail(todo) \in Seq(Instructions)
          /\ \A k \in 1..e : (d \o Tail(todo))[k] = d[k]
          /\ Shifted(d \o Tail(todo), todo, e - 1)
      BY <1>1, <2>5, <3>1, Prefixed, ZenonT(60)
    <3> QED
      BY <3>1, <3>2
  <2>7. todo' = d \o Tail(todo) /\ Quietly
    BY <2>4, <2>5 DEF Becomes, Quietly
  <2>8. /\ todo'[1] = CastFrom(n, f, Departs(f, n), 0)
        /\ (c = 1 => todo'[2] = Broadcast(n, f))
        /\ todo'[2 + c] = Leave(f, n)
        /\ todo'[3 + c] = SweepFrom(f, n + 1, c)
    <3>1. 1 \in 1..3 + c /\ 2 \in 1..3 + c /\ 2 + c \in 1..3 + c /\ 3 + c \in 1..3 + c
      OBVIOUS
    <3> QED
      BY <2>5, <2>6, <2>7, <3>1
  <2>9. Shifted(todo', todo, 2 + c)
    BY <2>6, <2>7, (3 + c) - 1 = 2 + c
  <2>10. SweepLeaves(n, c)
    BY <1>2, <1>3, <1>7, <2>3, <2>7, <2>8, <2>9 DEF SweepLeaves
  <2> QED
    BY <2>3, <2>6, <2>7, <2>10 DEF Executes
<1> QED
  BY <1>6, <1>7

LEMMA StepExecutes ==
  ASSUME TypeInv, Step
  PROVE  /\ Running /\ Executes /\ todo' \in Seq(Instructions)
         /\ Len(todo) \in Nat \ {0} /\ WellFormed(todo[1])
<1>1. Running
  BY DEF Step, sendToClient, Refer, Dangling, Cast, Each, Removing, Sweep, Left, Erased
<1>2. /\ this = todo[1] /\ Len(todo) \in Nat \ {0} /\ WellFormed(todo[1])
      /\ rest \in Seq(Instructions) /\ Popped(rest, todo)
  BY <1>1, TheTop
<1>3. CASE Left
  BY <1>2, <1>3 DEF Left, Leaves, Executes
<1>4. CASE Erased
  <2>1. CASE todo[1].who \notin polled
    <3>1. Undefined("dangling")
      BY <1>2, <1>4, <2>1 DEF Erased
    <3>2. Dangles
      BY <1>2, <1>4, <2>1, <3>1 DEF Erased, Dangles, TypeInv
    <3> QED
      BY <1>1, <1>2, <3>1, <3>2, EmptySeq DEF Undefined, Executes
  <2>2. CASE todo[1].who \in polled
    BY <1>1, <1>2, <1>4, <2>2 DEF Erased, Erases, Executes, TypeInv
  <2> QED
    BY <2>1, <2>2
<1> QED
  BY <1>1, <1>2, <1>3, <1>4, SendExecutes, UseExecutes, CastExecutes, EachExecutes,
     RemovingExecutes, SweepExecutes DEF Step

-----------------------------------------------------------------------------
(* What a handler begins with *)

\* An instruction a handler may begin with; `last' says that none is behind it.
Fresh(x, last) ==
  /\ x \in Instructions /\ x.op \notin {"erase", "leave", "channel"}
  /\ x.op \in {"send", "use"} => x.to \in live
  /\ x.op \in {"cast", "each"} => x.at = 0
  /\ x.op = "remove" => last /\ x.who \in live

\* The last instruction of PART, with the announcement in front.
Parts(r) ==
  /\ Len(r) = 3 /\ r[3].op = "leave" /\ r[3] \in Instructions
  /\ r[1] = CastFrom(r[3].chan, r[3].who, Departs(r[3].who, r[3].chan), 0)

\* The last instruction of INVITE, with its replies in front.
Invites(r) ==
  /\ Len(r) = 5 /\ r[5].op = "channel" /\ member[r[5].chan] # {}
  /\ \A i \in 1..4 : r[i].op \in {"send", "use"}

Begins ==
  /\ fault = "none" /\ todo = <<>>
  /\ kind' \in Kinds /\ before' = member /\ struck' = {} /\ heard' = {}
  /\ UNCHANGED <<live, polled, broken, fault>>
  /\ todo' \in Seq(Instructions)
  /\ \A k \in 1..Len(todo') :
       \/ Fresh(todo'[k], k = Len(todo'))
       \/ Parts(todo') /\ k = 3
       \/ Invites(todo') /\ member' = member /\ k = 5
  /\ kind' \in {"reply", "private"} => Len(todo') = 1 /\ todo'[1].op = "send"
  /\ member' \in [Names -> SUBSET Fds]
  /\ \A n \in Names : member'[n] \subseteq member[n] \cup live
  /\ \A n \in Names : \A f \in member[n] \ member'[n] :
       todo' # <<>> /\ todo'[1] = CastFrom(n, Nobody, Departs(f, n), 0)

\* The lists handlers begin with, by their length.
LEMMA BeginsOne ==
  ASSUME NEW a, Fresh(a, TRUE)
  PROVE  /\ <<a>> \in Seq(Instructions) /\ Len(<<a>>) = 1 /\ <<a>>[1] = a
         /\ \A k \in 1..Len(<<a>>) : Fresh(<<a>>[k], k = Len(<<a>>))
<1>1. a \in Instructions
  BY DEF Fresh
<1>2. PICK d \in Seq(Instructions) : d = <<a>> /\ Len(d) = 1 /\ d[1] = a
  BY <1>1, Single
<1>3. \A k \in 1..Len(d) : d[k] = a /\ k = Len(d)
  BY <1>2
<1>4. ASSUME NEW k \in 1..Len(d) PROVE Fresh(d[k], k = Len(d))
  BY <1>3 DEF Fresh
<1> QED
  BY <1>2, <1>4

LEMMA BeginsTwo ==
  ASSUME NEW a, NEW b, Fresh(a, FALSE), Fresh(b, TRUE)
  PROVE  /\ <<a, b>> \in Seq(Instructions) /\ Len(<<a, b>>) = 2 /\ <<a, b>>[1] = a
         /\ \A k \in 1..Len(<<a, b>>) : Fresh(<<a, b>>[k], k = Len(<<a, b>>))
<1>1. a \in Instructions /\ b \in Instructions
  BY DEF Fresh
<1>2. <<a, b>> \in Seq(Instructions) /\ Len(<<a, b>>) = 2 /\ <<a, b>>[1] = a /\ <<a, b>>[2] = b
  BY <1>1
<1>3. PICK d \in Seq(Instructions) : d = <<a, b>> /\ Len(d) = 2 /\ d[1] = a /\ d[2] = b
  BY <1>2
<1>4. ASSUME NEW k \in 1..Len(d) PROVE Fresh(d[k], k = Len(d))
  <2>1. k = 1 \/ k = 2
    BY <1>3
  <2> QED
    BY <1>3, <2>1 DEF Fresh
<1> QED
  BY <1>3, <1>4

LEMMA BeginsThree ==
  ASSUME NEW a, NEW b, NEW c, Fresh(a, FALSE), Fresh(b, FALSE), Fresh(c, TRUE)
  PROVE  /\ <<a, b, c>> \in Seq(Instructions) /\ Len(<<a, b, c>>) = 3
         /\ \A k \in 1..Len(<<a, b, c>>) : Fresh(<<a, b, c>>[k], k = Len(<<a, b, c>>))
<1>1. a \in Instructions /\ b \in Instructions /\ c \in Instructions
  BY DEF Fresh
<1>2. /\ <<a, b, c>> \in Seq(Instructions) /\ Len(<<a, b, c>>) = 3
      /\ <<a, b, c>>[1] = a /\ <<a, b, c>>[2] = b /\ <<a, b, c>>[3] = c
  BY <1>1
<1>3. PICK d \in Seq(Instructions) :
        d = <<a, b, c>> /\ Len(d) = 3 /\ d[1] = a /\ d[2] = b /\ d[3] = c
  BY <1>2
<1>4. ASSUME NEW k \in 1..Len(d) PROVE Fresh(d[k], k = Len(d))
  <2>1. k = 1 \/ k = 2 \/ k = 3
    BY <1>3
  <2> QED
    BY <1>3, <2>1 DEF Fresh
<1> QED
  BY <1>3, <1>4

LEMMA SinglesJoined ==
  ASSUME NEW a \in Instructions, NEW b \in Instructions
  PROVE  <<a>> \o <<b>> = <<a, b>>
<1>1. PICK x \in Seq(Instructions) : x = <<a>> /\ Len(x) = 1 /\ x[1] = a
  BY Single
<1>2. PICK y \in Seq(Instructions) : y = <<b>> /\ Len(y) = 1 /\ y[1] = b
  BY Single
<1>3. <<a, b>> \in Seq(Instructions) /\ Len(<<a, b>>) = 2 /\ <<a, b>>[1] = a /\ <<a, b>>[2] = b
  OBVIOUS
<1>4. PICK z \in Seq(Instructions) : z = <<a, b>> /\ Len(z) = 2 /\ z[1] = a /\ z[2] = b
  BY <1>3
<1>5. /\ x \o y \in Seq(Instructions) /\ Len(x \o y) = 2
      /\ (x \o y)[1] = a /\ (x \o y)[2] = b
  BY <1>1, <1>2, FollowedBy, 2 = 1 + 1
<1>6. PICK w \in Seq(Instructions) : w = x \o y /\ Len(w) = 2 /\ w[1] = a /\ w[2] = b
  BY <1>5
<1>7. \A i \in 1..Len(w) : w[i] = z[i]
  <2>1. \A i \in 1..Len(w) : i = 1 \/ i = 2
    BY <1>6
  <2> QED
    BY <1>4, <1>6, <2>1
<1>8. w = z
  BY <1>4, <1>6, <1>7, SeqEqual
<1> QED
  BY <1>1, <1>2, <1>4, <1>6, <1>8

LEMMA FreshMade ==
  ASSUME NEW f \in live, live \subseteq Fds, NEW last \in BOOLEAN
  PROVE  /\ Fresh(Send(f), last) /\ Fresh(Use(f), last) /\ Fresh(EachFrom(0), last)
         /\ Fresh(SweepFrom(f, 1, 1), last) /\ Fresh(Remove(f), TRUE)
<1>1. /\ Send(f) \in Instructions /\ Use(f) \in Instructions /\ Remove(f) \in Instructions
      /\ EachFrom(0) \in Instructions /\ SweepFrom(f, 1, 1) \in Instructions
  BY SendMade, OthersMade, NewsMade DEF Send
<1> QED
  BY <1>1 DEF Fresh, Send, SendMore, Use, EachFrom, SweepFrom, Remove

LEMMA CastFresh ==
  ASSUME NEW n \in Names, NEW x \in Fds \cup {0}, NEW news \in News, NEW last \in BOOLEAN
  PROVE  Fresh(CastFrom(n, x, news, 0), last) /\ Fresh(Broadcast(n, x), last)
<1>1. CastFrom(n, x, news, 0) \in Instructions /\ Broadcast(n, x) \in Instructions
  BY CastMade, NewsMade DEF Broadcast
<1> QED
  BY <1>1 DEF Fresh, CastFrom, Broadcast

\* A handler that begins with d and takes no one out of a channel.
LEMMA HandlerBegins ==
  ASSUME TypeInv, NEW name \in Kinds, NEW mem, NEW d, Handler(name, mem, d),
         d \in Seq(Instructions), \A k \in 1..Len(d) : Fresh(d[k], k = Len(d)),
         name \in {"reply", "private"} => Len(d) = 1 /\ d[1].op = "send",
         mem \in [Names -> SUBSET Fds],
         \A n \in Names : member[n] \subseteq mem[n] /\ mem[n] \subseteq member[n] \cup live
  PROVE  Begins
BY DEF Handler, Idle, Begins

LEMMA InviteBegins ==
  ASSUME TypeInv, NEW f \in live, NEW g \in live, NEW n \in Names, INVITE(f, g, n)
  PROVE  Begins
<1>1. f \in Fds /\ g \in Fds /\ member[n] # {} /\ member \in [Names -> SUBSET Fds]
  BY DEF TypeInv, SendingTypeOK, INVITE
<1>2. PICK a \in Instructions : a = Send(g) /\ a.op = "send" /\ a.to = g
  <2>1. Send(g).op = "send" /\ Send(g).to = g
    BY DEF Send, SendMore
  <2> QED
    BY <1>1, <2>1, SendMade, NewsMade DEF Send
<1>3. PICK b \in Instructions : b = Use(g) /\ b.op = "use" /\ b.to = g
  <2>1. Use(g).op = "use" /\ Use(g).to = g
    BY DEF Use
  <2> QED
    BY <1>1, <2>1, OthersMade
<1>4. PICK c \in Instructions : c = Send(f) /\ c.op = "send" /\ c.to = f
  <2>1. Send(f).op = "send" /\ Send(f).to = f
    BY DEF Send, SendMore
  <2> QED
    BY <1>1, <2>1, SendMade, NewsMade DEF Send
<1>5. PICK x \in Instructions : x = UseChannel(n) /\ x.op = "channel" /\ x.chan = n
  <2>1. UseChannel(n).op = "channel" /\ UseChannel(n).chan = n
    BY DEF UseChannel
  <2> QED
    BY <2>1, OthersMade
<1>6. PICK d \in Seq(Instructions) :
        /\ d = <<a, b, c, b, x>> /\ Len(d) = 5
        /\ d[1] = a /\ d[2] = b /\ d[3] = c /\ d[4] = b /\ d[5] = x
  <2>1. /\ <<a, b, c, b, x>> \in Seq(Instructions) /\ Len(<<a, b, c, b, x>>) = 5
        /\ <<a, b, c, b, x>>[1] = a /\ <<a, b, c, b, x>>[2] = b
        /\ <<a, b, c, b, x>>[3] = c /\ <<a, b, c, b, x>>[4] = b
        /\ <<a, b, c, b, x>>[5] = x
    OBVIOUS
  <2> QED
    BY <2>1
<1>7. \A k \in 1..Len(d) : k = 5 \/ (k # 5 /\ d[k].op \in {"send", "use"} /\ d[k].to \in live)
  <2>1. \A k \in 1..Len(d) : k = 1 \/ k = 2 \/ k = 3 \/ k = 4 \/ k = 5
    BY <1>6
  <2> QED
    BY <1>2, <1>3, <1>4, <1>6, <2>1
<1>8. Invites(d)
  <2>1. \A i \in 1..4 : i \in 1..Len(d) /\ i # 5
    BY <1>6
  <2> QED
    BY <1>1, <1>5, <1>6, <1>7, <2>1 DEF Invites
<1>9. ASSUME NEW k \in 1..Len(d), NEW last \in BOOLEAN, k # 5 PROVE Fresh(d[k], last)
  <2>1. d[k] \in Instructions /\ d[k].op \in {"send", "use"} /\ d[k].to \in live
    BY <1>7, <1>9, ElementOfSeq
  <2> QED
    BY <2>1 DEF Fresh
<1>10. Handler("invite", member, d)
  BY <1>2, <1>3, <1>4, <1>5, <1>6 DEF INVITE
<1> QED
  BY <1>1, <1>8, <1>9, <1>10 DEF Handler, Idle, Begins, Kinds

LEMMA ServeBegins ==
  ASSUME TypeInv, NEW f \in live, Serve(f)
  PROVE  Begins
<1>1. /\ live \subseteq Fds /\ f \in Fds /\ member \in [Names -> SUBSET Fds]
      /\ \A n \in Names : member[n] \subseteq member[n] /\ member[n] \subseteq member[n] \cup live
  BY DEF TypeInv, SendingTypeOK
<1>2. TRUE \in BOOLEAN /\ FALSE \in BOOLEAN /\ NoNews \in News
  BY NewsMade
<1>3. {"reply", "replies", "private", "relay", "everyone", "part", "kick", "invite",
       "nick", "quit", "pass", "hangup"} \subseteq Kinds
  BY DEF Kinds
<1>4. \A g \in live : Send(g).op = "send"
  BY DEF Send, SendMore
<1>5. CASE Reply(f)
  BY <1>1, <1>2, <1>3, <1>4, <1>5, FreshMade, BeginsOne, HandlerBegins DEF Reply
<1>6. CASE Replies(f)
  <2>1. /\ <<Send(f), Use(f), Send(f)>> \in Seq(Instructions)
        /\ \A k \in 1..Len(<<Send(f), Use(f), Send(f)>>) :
             Fresh(<<Send(f), Use(f), Send(f)>>[k], k = Len(<<Send(f), Use(f), Send(f)>>))
    BY <1>1, <1>2, FreshMade, BeginsThree
  <2> QED
    BY <1>1, <1>3, <1>6, <2>1, HandlerBegins DEF Replies
<1>7. CASE NICK(f)
  <2>1. /\ <<EachFrom(0), Use(f)>> \in Seq(Instructions)
        /\ \A k \in 1..Len(<<EachFrom(0), Use(f)>>) :
             Fresh(<<EachFrom(0), Use(f)>>[k], k = Len(<<EachFrom(0), Use(f)>>))
    BY <1>1, <1>2, FreshMade, BeginsTwo
  <2> QED
    BY <1>1, <1>3, <1>7, <2>1, HandlerBegins DEF NICK
<1>8. CASE QUIT(f)
  <2>1. PICK d : d = <<SweepFrom(f, 1, 1), Use(f), Remove(f)>>
    OBVIOUS
  <2>2. d \in Seq(Instructions) /\ \A k \in 1..Len(d) : Fresh(d[k], k = Len(d))
    BY <1>1, <1>2, <2>1, FreshMade, BeginsThree
  <2> QED
    BY <1>1, <1>3, <1>8, <2>1, <2>2, HandlerBegins DEF QUIT
<1>9. CASE WrongPASS(f)
  <2>1. PICK d : d = <<Send(f), Use(f), Remove(f)>>
    OBVIOUS
  <2>2. d \in Seq(Instructions) /\ \A k \in 1..Len(d) : Fresh(d[k], k = Len(d))
    BY <1>1, <1>2, <2>1, FreshMade, BeginsThree
  <2> QED
    BY <1>1, <1>3, <1>9, <2>1, <2>2, HandlerBegins DEF WrongPASS
<1>10. CASE HangUp(f)
  <2>1. PICK d : d = <<Remove(f)>>
    OBVIOUS
  <2>2. d \in Seq(Instructions) /\ \A k \in 1..Len(d) : Fresh(d[k], k = Len(d))
    BY <1>1, <1>2, <2>1, FreshMade, BeginsOne
  <2> QED
    BY <1>1, <1>3, <1>10, <2>1, <2>2, HandlerBegins DEF HangUp
<1>11. ASSUME NEW g \in live, Private(g) PROVE Begins
  <2>1. PICK d : d = <<Send(g)>>
    OBVIOUS
  <2>2. /\ d \in Seq(Instructions) /\ \A k \in 1..Len(d) : Fresh(d[k], k = Len(d))
        /\ Len(d) = 1 /\ d[1].op = "send"
    BY <1>1, <1>2, <1>4, <2>1, FreshMade, BeginsOne
  <2> QED
    BY <1>1, <1>3, <1>11, <2>1, <2>2, HandlerBegins DEF Private
<1>12. ASSUME NEW n \in Names, Relay(f, n) PROVE Begins
  <2>1. PICK d : d = <<Broadcast(n, f)>>
    OBVIOUS
  <2>2. d \in Seq(Instructions) /\ \A k \in 1..Len(d) : Fresh(d[k], k = Len(d))
    BY <1>1, <1>2, <2>1, CastFresh, BeginsOne, ZenonT(60)
  <2> QED
    BY <1>1, <1>3, <1>12, <2>1, <2>2, HandlerBegins DEF Relay
<1>13. ASSUME NEW n \in Names, TOPIC(f, n) PROVE Begins
  <2>1. PICK d : d = <<Broadcast(n, Nobody)>>
    OBVIOUS
  <2>2. d \in Seq(Instructions) /\ \A k \in 1..Len(d) : Fresh(d[k], k = Len(d))
    BY <1>1, <1>2, <2>1, CastFresh, BeginsOne, ZenonT(60) DEF Nobody
  <2> QED
    BY <1>1, <1>3, <1>13, <2>1, <2>2, HandlerBegins DEF TOPIC
<1>14. ASSUME NEW n \in Names, JOIN(f, n) PROVE Begins
  <2>1. PICK mem : mem = [member EXCEPT ![n] = @ \cup {f}]
    OBVIOUS
  <2>2. /\ mem \in [Names -> SUBSET Fds]
        /\ \A m \in Names : member[m] \subseteq mem[m] /\ mem[m] \subseteq member[m] \cup live
    BY <1>1, <2>1
  <2>3. PICK next \in {<<>>, <<Use(f)>>} :
          Handler("everyone", mem, <<Broadcast(n, Nobody)>> \o next)
    BY <1>14, <2>1 DEF JOIN
  <2>4. PICK d : d = <<Broadcast(n, Nobody)>> \o next
    OBVIOUS
  <2>5. d \in Seq(Instructions) /\ \A k \in 1..Len(d) : Fresh(d[k], k = Len(d))
    <3>1. \A last \in BOOLEAN : Fresh(Broadcast(n, Nobody), last)
      BY <1>2, CastFresh DEF Nobody
    <3>2. CASE next = <<>>
      <4>1. d = <<Broadcast(n, Nobody)>>
        BY <2>4, <3>2
      <4> QED
        BY <3>1, <4>1, BeginsOne, ZenonT(60)
    <3>3. CASE next = <<Use(f)>>
      <4>1. d = <<Broadcast(n, Nobody), Use(f)>>
        <5>1. Broadcast(n, Nobody) \in Instructions /\ Use(f) \in Instructions
          BY <1>1, <3>1, OthersMade DEF Fresh
        <5> QED
          BY <2>4, <3>3, <5>1, SinglesJoined
      <4> QED
        <5>1. Fresh(Broadcast(n, Nobody), FALSE) /\ Fresh(Use(f), TRUE)
          BY <1>1, <3>1, FreshMade
        <5> QED
          BY <4>1, <5>1, BeginsTwo, ZenonT(60)
    <3> QED
      BY <3>2, <3>3
  <2> QED
    BY <1>3, <2>2, <2>3, <2>4, <2>5, HandlerBegins
<1>15. ASSUME NEW n \in Names, PART(f, n) PROVE Begins
  <2>1. PICK d : d = <<CastFrom(n, f, Departs(f, n), 0), Use(f), Leave(f, n)>>
    OBVIOUS
  <2>2. /\ CastFrom(n, f, Departs(f, n), 0) \in Instructions /\ Use(f) \in Instructions
        /\ Leave(f, n) \in Instructions
    BY <1>1, CastMade, OthersMade, NewsMade
  <2>3. /\ d \in Seq(Instructions) /\ Len(d) = 3
        /\ d[1] = CastFrom(n, f, Departs(f, n), 0) /\ d[2] = Use(f) /\ d[3] = Leave(f, n)
    BY <2>1, <2>2
  <2>4. Parts(d)
    BY <2>2, <2>3 DEF Parts, Leave
  <2>5. Fresh(d[1], 1 = Len(d)) /\ Fresh(d[2], 2 = Len(d))
    <3>1. (1 = Len(d)) = FALSE /\ (2 = Len(d)) = FALSE
      BY <2>3
    <3>2. Fresh(d[1], FALSE) /\ Fresh(d[2], FALSE)
      BY <1>1, <1>2, <2>3, FreshMade, CastFresh, NewsMade
    <3> QED
      BY <3>1, <3>2 DEF Fresh
  <2>6. \A k \in 1..Len(d) : Fresh(d[k], k = Len(d)) \/ (Parts(d) /\ k = 3)
    <3>1. \A k \in 1..Len(d) : k = 1 \/ k = 2 \/ k = 3
      BY <2>3
    <3> QED
      BY <2>4, <2>5, <3>1
  <2> QED
    BY <1>1, <1>3, <1>15, <2>1, <2>3, <2>6 DEF PART, Handler, Idle, Begins
<1>16. ASSUME NEW n \in Names, NEW g \in live, KICK(f, g, n) PROVE Begins
  <2>1. PICK d : d = <<CastFrom(n, Nobody, Departs(g, n), 0)>>
    OBVIOUS
  <2>2. /\ d \in Seq(Instructions) /\ \A k \in 1..Len(d) : Fresh(d[k], k = Len(d))
        /\ Len(d) = 1 /\ d[1] = CastFrom(n, Nobody, Departs(g, n), 0)
    BY <1>1, <1>2, <2>1, CastFresh, NewsMade, BeginsOne, ZenonT(60) DEF Nobody
  <2>3. PICK mem : mem = [member EXCEPT ![n] = @ \ {g}]
    OBVIOUS
  <2>4. /\ mem \in [Names -> SUBSET Fds]
        /\ \A m \in Names : mem[m] \subseteq member[m]
        /\ \A m \in Names : \A h \in member[m] \ mem[m] : m = n /\ h = g
    BY <1>1, <2>3
  <2>5. Handler("kick", mem, d)
    BY <1>16, <2>1, <2>3 DEF KICK
  <2>6. d # <<>>
    BY <2>2
  <2> QED
    BY <1>3, <2>2, <2>4, <2>5, <2>6 DEF Handler, Idle, Begins
<1>17. ASSUME NEW n \in Names, NEW g \in live, INVITE(f, g, n) PROVE Begins
  BY <1>17, InviteBegins
<1> QED
  BY <1>5, <1>6, <1>7, <1>8, <1>9, <1>10, <1>11, <1>12, <1>13, <1>14, <1>15, <1>16, <1>17
     DEF Serve

-----------------------------------------------------------------------------
(* Type correctness *)

Connects == \E f \in Fds : Connect(f)
Breaks == \E f \in Fds : Break(f)

LEMMA NextForms ==
  ASSUME TypeInv, [Next]_vars
  PROVE  \/ UNCHANGED vars
         \/ Connects
         \/ Breaks
         \/ Begins
         \/ /\ Running /\ Executes /\ todo' \in Seq(Instructions)
            /\ Len(todo) \in Nat \ {0} /\ WellFormed(todo[1])
BY StepExecutes, ServeBegins DEF Next, Lost, Connects, Breaks

LEMMA TripleJoined ==
  ASSUME NEW S, NEW a \in S, NEW b \in S, NEW c \in S
  PROVE  <<a>> \o <<b, c>> = <<a, b, c>>
<1>1. PICK x \in Seq(S) : x = <<a>> /\ Len(x) = 1 /\ x[1] = a
  <2>1. <<a>> \in Seq(S) /\ Len(<<a>>) = 1 /\ <<a>>[1] = a
    OBVIOUS
  <2> QED
    BY <2>1
<1>2. PICK y \in Seq(S) : y = <<b, c>> /\ Len(y) = 2 /\ y[1] = b /\ y[2] = c
  <2>1. <<b, c>> \in Seq(S) /\ Len(<<b, c>>) = 2 /\ <<b, c>>[1] = b /\ <<b, c>>[2] = c
    OBVIOUS
  <2> QED
    BY <2>1
<1>3. PICK z \in Seq(S) :
        z = <<a, b, c>> /\ Len(z) = 3 /\ z[1] = a /\ z[2] = b /\ z[3] = c
  <2>1. /\ <<a, b, c>> \in Seq(S) /\ Len(<<a, b, c>>) = 3
        /\ <<a, b, c>>[1] = a /\ <<a, b, c>>[2] = b /\ <<a, b, c>>[3] = c
    OBVIOUS
  <2> QED
    BY <2>1
<1>4. /\ x \o y \in Seq(S) /\ Len(x \o y) = 1 + 2
      /\ \A i \in 1..1 + 2 : (x \o y)[i] = IF i <= 1 THEN x[i] ELSE y[i - 1]
  BY <1>1, <1>2, ConcatProperties
<1>5. PICK w : w = x \o y
  OBVIOUS
<1>6. /\ w \in Seq(S) /\ Len(w) = Len(z)
      /\ \A i \in 1..Len(w) : w[i] = z[i]
  <2>1. w \in Seq(S) /\ Len(w) = 3 /\ w[1] = a /\ w[2] = b /\ w[3] = c
    BY <1>1, <1>2, <1>4, <1>5
  <2>2. \A i \in 1..Len(w) : i = 1 \/ i = 2 \/ i = 3
    BY <2>1
  <2> QED
    BY <1>3, <2>1, <2>2
<1>7. w = z
  BY <1>3, <1>5, <1>6, SeqEqual
<1> QED
  BY <1>1, <1>2, <1>3, <1>5, <1>7

LEMMA ToldTyped ==
  ASSUME NEW g \in Fds, NEW news \in News, news # NoNews
  PROVE  <<g>> \o news \in Fds \X Fds \X Names
<1>1. PICK f \in Fds, n \in Names : news = <<f, n>>
  BY DEF News
<1>2. <<g>> \o <<f, n>> = <<g, f, n>>
  <2>1. g \in Fds \cup Names /\ f \in Fds \cup Names /\ n \in Fds \cup Names
    OBVIOUS
  <2> QED
    BY <2>1, TripleJoined
<1> QED
  BY <1>1, <1>2

LEMMA TypeInitially == Init => TypeInv
BY EmptySeq DEF Init, TypeInv, SendingTypeOK, Kinds

LEMMA ExecutesTyped ==
  ASSUME TypeInv, Running, Executes, todo' \in Seq(Instructions), WellFormed(todo[1])
  PROVE  TypeInv'
<1>1. fault = "none" /\ fault' \in {"none", "dangling", "overflow"}
      /\ (fault' # "none" => todo' = <<>>) /\ kind' \in Kinds
  BY SMTT(60) DEF Running, TypeInv, SendingTypeOK, Executes, Fails, Ends, Continues, Used, CastEnds,
     CastSends, EachEnds, EachSends, Removes, SweepEnds, SweepLeaves, Leaves, Erases, Dangles,
     Overflows, Undefined, Quietly, clients, history
<1>2. live' \subseteq Fds /\ polled' = live' /\ broken' \subseteq live'
  BY DEF TypeInv, SendingTypeOK, Executes, Fails, Ends, Continues, Used, CastEnds,
     CastSends, EachEnds, EachSends, Removes, SweepEnds, SweepLeaves, Leaves, Erases, Dangles,
     Overflows, Undefined, Quietly, clients, history
<1>3. member' \in [Names -> SUBSET Fds] /\ before' \in [Names -> SUBSET Fds]
  BY DEF TypeInv, SendingTypeOK, Executes, Fails, Ends, Continues, Used, CastEnds,
     CastSends, EachEnds, EachSends, Removes, SweepEnds, SweepLeaves, Leaves, Erases, Dangles,
     Overflows, Undefined, Quietly, clients, history
<1>4. struck' \subseteq Fds
  BY DEF WellFormed, TypeInv, SendingTypeOK, Executes, Fails, Ends, Continues, Used, CastEnds,
     CastSends, EachEnds, EachSends, Removes, SweepEnds, SweepLeaves, Leaves, Erases, Dangles,
     Overflows, Undefined, Quietly, clients, history
<1>5. heard' \subseteq Fds \X Fds \X Names
  <2>1. CASE Ends
    <3>1. /\ todo[1].to \in Fds /\ todo[1].news \in News
          /\ heard \subseteq Fds \X Fds \X Names
      BY <2>1 DEF Ends, WellFormed, TypeInv, SendingTypeOK
    <3>2. CASE todo[1].news = NoNews
      BY <2>1, <3>1, <3>2 DEF Ends
    <3>3. CASE todo[1].news # NoNews
      <4>1. <<todo[1].to>> \o todo[1].news \in Fds \X Fds \X Names
        BY <3>1, <3>3, ToldTyped
      <4>2. heard' = heard \cup {<<todo[1].to>> \o todo[1].news}
        BY <2>1, <3>3 DEF Ends
      <4> QED
        BY <3>1, <4>1, <4>2, Zenon
    <3> QED
      BY <3>2, <3>3
  <2>2. CASE ~Ends
    <3>1. heard' = heard \/ heard' = {}
      BY <2>2 DEF Executes, Fails, Continues, Used, CastEnds, CastSends,
         EachEnds, EachSends, Removes, SweepEnds, SweepLeaves, Leaves, Erases, Dangles,
         Overflows, Undefined, Quietly
    <3> QED
      BY <3>1 DEF TypeInv, SendingTypeOK
  <2> QED
    BY <2>1, <2>2
<1> QED
  BY <1>1, <1>2, <1>3, <1>4, <1>5, SMTT(60) DEF TypeInv, SendingTypeOK

LEMMA TypeNext == TypeInv /\ [Next]_vars => TypeInv'
<1> SUFFICES ASSUME TypeInv, [Next]_vars PROVE TypeInv'
  OBVIOUS
<1>1. CASE UNCHANGED vars
  BY <1>1 DEF TypeInv, SendingTypeOK, vars, clients, history
<1>2. CASE Connects
  BY <1>2 DEF Connects, Connect, Idle, TypeInv, SendingTypeOK, history
<1>3. CASE Breaks
  BY <1>3 DEF Breaks, Break, TypeInv, SendingTypeOK, clients, history
<1>4. CASE Begins
  BY <1>4 DEF Begins, TypeInv, SendingTypeOK
<1> QED
  BY <1>1, <1>2, <1>3, <1>4, NextForms, ExecutesTyped

\* Descriptors stay descriptors and the stack holds instructions only, whatever
\* is pushed on it (SendingTypeOK).
THEOREM SendingTypeCorrect == Spec => []SendingTypeOK
<1>1. Spec => []TypeInv
  BY TypeInitially, TypeNext, PTL DEF Spec
<1>2. TypeInv => SendingTypeOK
  BY DEF TypeInv
<1> QED
  BY <1>1, <1>2, PTL

-----------------------------------------------------------------------------
(* Members of channels are clients *)

\* Above the erasure of f at k, the sweep has not passed channel n, or f's
\* leaving n is still to come.
SweptAbove(f, n, k) ==
  \/ k > 1 /\ todo[k - 1].op = "sweep" /\ todo[k - 1].who = f /\ todo[k - 1].at <= n
  \/ k > 2 /\ todo[k - 2] = Leave(f, n)

ErasedSwept ==
  \A k \in 1..Len(todo) : \A n \in Names :
    todo[k].op = "erase" /\ todo[k].who \in member[n] => SweptAbove(todo[k].who, n, k)


MembersInv == TypeInv /\ NoStaleMembers /\ ErasedSwept

LEMMA LenTyped == TypeInv => Len(todo) \in Nat
BY LenProperties DEF TypeInv

\* A first instruction other than a sweep and a departure is not what an
\* erasure relies on.
LEMMA SweptShifts ==
  ASSUME TypeInv, Len(todo) \in Nat \ {0}, todo[1].op \notin {"sweep", "leave"}, ErasedSwept,
         NEW c \in Nat, Shifted(todo', todo, c), todo' \in Seq(Instructions),
         UNCHANGED member, \A k \in 1..c + 1 : todo'[k].op # "erase"
  PROVE  ErasedSwept'
<1> SUFFICES ASSUME NEW k \in 1..Len(todo'), NEW n \in Names,
                    todo'[k].op = "erase", todo'[k].who \in member[n]
             PROVE  SweptAbove(todo[k].who, n, k)'
  BY DEF ErasedSwept
<1>1. Len(todo') = Len(todo) + c /\ \A j \in c + 2..Len(todo') : todo'[j] = todo[j - c]
  BY DEF Shifted
<1>2. k \in c + 2..Len(todo') /\ k - c \in 2..Len(todo)
  BY <1>1
<1>3. todo'[k] = todo[k - c]
  BY <1>1, <1>2
<1>4. SweptAbove(todo[k - c].who, n, k - c)
  BY <1>2, <1>3 DEF ErasedSwept
<1>5. Leave(todo[k - c].who, n).op = "leave"
  BY DEF Leave
<1>6. k - c > 2
  BY <1>2, <1>4, <1>5 DEF SweptAbove
<1>7. todo'[k - 1] = todo[(k - c) - 1]
  <2>1. k - 1 \in c + 2..Len(todo') /\ (k - 1) - c = (k - c) - 1
    BY <1>1, <1>2, <1>6
  <2> QED
    BY <1>1, <2>1
<1>8. k - c > 3 => todo'[k - 2] = todo[(k - c) - 2]
  <2>1. k - c > 3 => k - 2 \in c + 2..Len(todo') /\ (k - 2) - c = (k - c) - 2
    BY <1>1, <1>2, <1>6
  <2> QED
    BY <1>1, <2>1
<1>9. k - c = 3 => todo[(k - c) - 2] = todo[1]
  BY <1>2
<1>10. k > 1 /\ k > 2
  BY <1>2, <1>6
<1> QED
  BY <1>2, <1>3, <1>4, <1>5, <1>6, <1>7, <1>8, <1>9, <1>10 DEF SweptAbove

\* The first instruction is done, and no erasure relies on it any more.
LEMMA SweptPops ==
  ASSUME TypeInv, Len(todo) \in Nat \ {0}, ErasedSwept,
         Popped(todo', todo), todo' \in Seq(Instructions),
         \A n \in Names : member'[n] \subseteq member[n],
         \A f, n : /\ n \in Names /\ f \in member'[n] /\ Len(todo) > 1
                   /\ todo[2].op = "erase" /\ todo[2].who = f
                   => ~(todo[1].op = "sweep" /\ todo[1].who = f /\ todo[1].at <= n),
         \A f, n : n \in Names /\ f \in member'[n] => todo[1] # Leave(f, n)
  PROVE  ErasedSwept'
<1> SUFFICES ASSUME NEW k \in 1..Len(todo'), NEW n \in Names,
                    todo'[k].op = "erase", todo'[k].who \in member'[n]
             PROVE  SweptAbove(todo[k].who, n, k)'
  BY DEF ErasedSwept
<1>1. Len(todo') = Len(todo) - 1 /\ \A j \in 1..Len(todo') : todo'[j] = todo[j + 1]
  BY DEF Popped
<1>2. k + 1 \in 2..Len(todo) /\ todo'[k] = todo[k + 1]
  BY <1>1
<1>3. SweptAbove(todo[k + 1].who, n, k + 1)
  BY <1>2 DEF ErasedSwept
<1>4. PICK f : f = todo'[k].who
  OBVIOUS
<1>5. f \in member'[n] /\ todo[k + 1].who = f
  BY <1>2, <1>4
<1>6. CASE todo[(k + 1) - 1].op = "sweep" /\ todo[(k + 1) - 1].who = f /\ todo[(k + 1) - 1].at <= n
  <2>1. k # 1
    <3>1. SUFFICES ASSUME k = 1 PROVE FALSE
      OBVIOUS
    <3>2. /\ Len(todo) > 1 /\ todo[2].op = "erase" /\ todo[2].who = f
          /\ todo[1].op = "sweep" /\ todo[1].who = f /\ todo[1].at <= n
      BY <1>2, <1>5, <1>6, <3>1, 1 + 1 = 2, 2 - 1 = 1
    <3> QED
      BY <1>5, <3>2
  <2>2. todo'[k - 1] = todo[(k + 1) - 1]
    <3>1. k - 1 \in 1..Len(todo') /\ (k - 1) + 1 = (k + 1) - 1
      BY <1>1, <2>1
    <3> QED
      BY <1>1, <3>1
  <2> QED
    BY <1>4, <1>6, <2>1, <2>2 DEF SweptAbove
<1>7. CASE k + 1 > 2 /\ todo[(k + 1) - 2] = Leave(f, n)
  <2>1. k # 2
    BY <1>5, <1>7
  <2>2. k > 2 /\ todo'[k - 2] = todo[(k + 1) - 2]
    BY <1>1, <1>7, <2>1
  <2> QED
    BY <1>4, <1>7, <2>2 DEF SweptAbove
<1> QED
  BY <1>3, <1>5, <1>6, <1>7 DEF SweptAbove

\* An erasure that is carried out finds its client in no channel.
LEMMA ErasedIsOut ==
  ASSUME TypeInv, Len(todo) \in Nat \ {0}, ErasedSwept, todo[1].op = "erase"
  PROVE  \A n \in Names : todo[1].who \notin member[n]
BY DEF ErasedSwept, SweptAbove

LEMMA SweepLeavesSwept ==
  ASSUME TypeInv, Len(todo) \in Nat \ {0}, WellFormed(todo[1]), ErasedSwept,
         todo' \in Seq(Instructions), NEW n \in Names, NEW c \in {0, 1}, SweepLeaves(n, c)
  PROVE  ErasedSwept'
<1>0. PICK f : f = todo[1].who
  OBVIOUS
<1> SUFFICES ASSUME NEW k \in 1..Len(todo'), NEW m \in Names,
                    todo'[k].op = "erase", todo'[k].who \in member[m]
             PROVE  SweptAbove(todo[k].who, m, k)'
  BY DEF ErasedSwept, SweepLeaves, Quietly, clients
<1>1. Len(todo') = Len(todo) + (2 + c) /\ \A j \in (2 + c) + 2..Len(todo') : todo'[j] = todo[j - (2 + c)]
  BY DEF SweepLeaves, Shifted
<1>2. /\ todo'[1].op = "cast" /\ (c = 1 => todo'[2].op = "cast")
      /\ todo'[2 + c] = Leave(f, n) /\ todo'[2 + c].op = "leave"
      /\ todo'[3 + c].op = "sweep" /\ todo'[3 + c].who = f /\ todo'[3 + c].at = n + 1
  BY <1>0 DEF SweepLeaves, CastFrom, Broadcast, Leave, SweepFrom
<1>3. k \in (2 + c) + 2..Len(todo')
  BY <1>1, <1>2
<1>4. k - (2 + c) \in 2..Len(todo) /\ todo'[k] = todo[k - (2 + c)]
  BY <1>1, <1>3
<1>5. SweptAbove(todo[k - (2 + c)].who, m, k - (2 + c))
  BY <1>4 DEF ErasedSwept
<1>6. n \in Nat /\ m \in Nat /\ todo[1].at \in Nat /\ todo[1].op = "sweep"
  BY Numbers DEF WellFormed, SweepLeaves
<1>7. CASE k = 4 + c
  <2>1. k - (2 + c) = 2 /\ todo'[k] = todo[2]
    BY <1>4, <1>7
  <2>2. todo[1].who = todo[2].who /\ todo[1].at <= m
    <3>1. SweptAbove(todo[2].who, m, 2)
      BY <1>5, <2>1
    <3> QED
      BY <3>1, 2 - 1 = 1 DEF SweptAbove
  <2>3. todo'[k].who = f /\ f \in member[m]
    BY <1>0, <2>1, <2>2
  <2>4. n <= m
    BY <1>0, <1>6, <2>2, <2>3 DEF SweepLeaves
  <2>5. CASE n = m
    <3>1. k > 2 /\ k - 2 = 2 + c
      BY <1>7
    <3>2. todo'[k - 2] = Leave(f, m)
      BY <1>2, <2>5, <3>1
    <3> QED
      BY <2>3, <3>1, <3>2 DEF SweptAbove
  <2>6. CASE n + 1 <= m
    <3>1. k > 1 /\ k - 1 = 3 + c
      BY <1>7
    <3>2. todo'[k - 1].op = "sweep" /\ todo'[k - 1].who = f /\ todo'[k - 1].at <= m
      BY <1>2, <2>6, <3>1
    <3> QED
      BY <2>3, <3>1, <3>2 DEF SweptAbove
  <2> QED
    BY <1>6, <2>4, <2>5, <2>6
<1>8. CASE k # 4 + c
  <2>1. /\ k > 1 /\ k > 2 /\ k - 1 \in (2 + c) + 2..Len(todo')
        /\ (k - 1) - (2 + c) = (k - (2 + c)) - 1
    BY <1>3, <1>8
  <2>2. todo'[k - 1] = todo[(k - (2 + c)) - 1]
    BY <1>1, <2>1
  <2>3. CASE todo[(k - (2 + c)) - 1].op = "sweep" /\ todo[(k - (2 + c)) - 1].who = todo'[k].who
             /\ todo[(k - (2 + c)) - 1].at <= m
    BY <2>1, <2>2, <2>3 DEF SweptAbove
  <2>4. CASE k - (2 + c) > 2 /\ todo[(k - (2 + c)) - 2] = Leave(todo'[k].who, m)
    <3>1. Leave(todo'[k].who, m).op = "leave"
      BY DEF Leave
    <3>2. k - (2 + c) # 3
      BY <1>6, <2>4, <3>1
    <3>3. k - 2 \in (2 + c) + 2..Len(todo') /\ (k - 2) - (2 + c) = (k - (2 + c)) - 2
      BY <1>3, <2>4, <3>2
    <3>4. todo'[k - 2] = todo[(k - (2 + c)) - 2]
      BY <1>1, <3>3
    <3> QED
      BY <2>1, <2>4, <3>4 DEF SweptAbove
  <2> QED
    BY <1>4, <1>5, <2>3, <2>4 DEF SweptAbove
<1> QED
  BY <1>7, <1>8

LEMMA RemovesSwept ==
  ASSUME TypeInv, Len(todo) \in Nat \ {0}, ErasedSwept, todo' \in Seq(Instructions), Removes
  PROVE  ErasedSwept'
<1> SUFFICES ASSUME NEW k \in 1..Len(todo'), NEW n \in Names,
                    todo'[k].op = "erase", todo'[k].who \in member[n]
             PROVE  SweptAbove(todo[k].who, n, k)'
  BY DEF ErasedSwept, Removes, Quietly, clients
<1>1. Len(todo') = Len(todo) + 1 /\ \A j \in 3..Len(todo') : todo'[j] = todo[j - 1]
  BY DEF Removes, Shifted
<1>2. /\ todo'[1].op = "sweep" /\ todo'[1].who = todo[1].who /\ todo'[1].at = 1
      /\ todo'[2].who = todo[1].who /\ todo'[2].op = "erase"
  BY DEF Removes, SweepFrom, Erase
<1>3. k # 1 /\ n >= 1
  BY <1>2, Numbers
<1>4. CASE k = 2
  BY <1>2, <1>3, <1>4, 2 - 1 = 1 DEF SweptAbove
<1>5. CASE k > 2
  <2>1. k - 1 \in 2..Len(todo) /\ todo'[k] = todo[k - 1]
    BY <1>1, <1>5
  <2>2. SweptAbove(todo[k - 1].who, n, k - 1)
    BY <2>1 DEF ErasedSwept
  <2>3. k - 1 # 2
    <3>1. SUFFICES ASSUME k - 1 = 2 PROVE FALSE
      OBVIOUS
    <3>2. SweptAbove(todo[2].who, n, 2)
      BY <2>2, <3>1
    <3> QED
      BY <3>2, 2 - 1 = 1 DEF SweptAbove, Removes
  <2>4. todo'[k - 1] = todo[(k - 1) - 1]
    BY <1>1, <1>5, <2>1, <2>3
  <2>5. CASE todo[(k - 1) - 2] = Leave(todo[k - 1].who, n)
    <3>1. k - 1 # 3
      <4>1. SUFFICES ASSUME k - 1 = 3 PROVE FALSE
        OBVIOUS
      <4>2. todo[1].op = "leave"
        BY <2>5, <4>1, 3 - 2 = 1 DEF Leave
      <4> QED
        BY <4>2 DEF Removes
    <3>2. k > 2 /\ todo'[k - 2] = todo[(k - 1) - 2]
      <4>1. k \in Int /\ k - 2 \in 3..Len(todo') /\ (k - 2) - 1 = (k - 1) - 2
        BY <1>1, <2>1, <2>3, <3>1
      <4> QED
        BY <1>1, <1>5, <4>1
    <3> QED
      BY <2>1, <2>5, <3>2 DEF SweptAbove
  <2> QED
    BY <1>5, <2>1, <2>2, <2>4, <2>5 DEF SweptAbove
<1> QED
  BY <1>3, <1>4, <1>5

LEMMA ExecutesSwept ==
  ASSUME TypeInv, NoStaleMembers, ErasedSwept, Running, Executes, todo' \in Seq(Instructions),
         Len(todo) \in Nat \ {0}, WellFormed(todo[1])
  PROVE  ErasedSwept'
<1>0. /\ todo[1].op \in {"leave", "sweep", "erase", "remove"} => todo[1].who \in Fds
      /\ todo[1].op \in {"leave", "cast"} => todo[1].chan \in Names
      /\ todo[1].op = "sweep" => todo[1].at \in Nat
  BY DEF WellFormed
<1>1. CASE Fails
  BY <1>1, SweptShifts, 0 \in Nat DEF Fails, Remove, clients
<1>2. CASE Continues
  BY <1>2, SweptShifts, 0 \in Nat DEF Continues, SendMore, Quietly, clients
<1>3. ASSUME NEW c \in Fds, CastSends(c) PROVE ErasedSwept'
  <2>1. \A k \in 1..1 + 1 : k = 1 \/ k = 2
    OBVIOUS
  <2>2. \A k \in 1..1 + 1 : todo'[k].op # "erase"
    BY <1>3, <2>1 DEF CastSends, SendMore, CastFrom
  <2> QED
    BY <1>3, <2>2, SweptShifts, 1 \in Nat DEF CastSends, Quietly, clients
<1>4. ASSUME NEW c \in Fds, EachSends(c) PROVE ErasedSwept'
  <2>1. \A k \in 1..1 + 1 : k = 1 \/ k = 2
    OBVIOUS
  <2>2. \A k \in 1..1 + 1 : todo'[k].op # "erase"
    BY <1>4, <2>1 DEF EachSends, Send, SendMore, EachFrom
  <2> QED
    BY <1>4, <2>2, SweptShifts, 1 \in Nat DEF EachSends, Quietly, clients
<1>5. CASE Ends \/ Used \/ CastEnds \/ EachEnds \/ Erases
  <2>1. todo[1].op \notin {"sweep", "leave"} /\ Popped(todo', todo) /\ member' = member
    BY <1>5 DEF Ends, Used, CastEnds, EachEnds, Erases, Quietly, clients
  <2>2. \A f, n : todo[1] # Leave(f, n)
    BY <2>1 DEF Leave
  <2> QED
    BY <2>1, <2>2, SweptPops
<1>6. CASE SweepEnds
  <2>1. todo[1].op = "sweep" /\ Popped(todo', todo) /\ member' = member
    BY <1>6 DEF SweepEnds, Quietly, clients
  <2>2. \A f, n : todo[1] # Leave(f, n)
    BY <2>1 DEF Leave
  <2>3. \A n \in Names : member[n] \subseteq live
    BY DEF NoStaleMembers, Running
  <2>4. ASSUME NEW f, NEW n \in Names, f \in member[n]
        PROVE  ~(todo[1].op = "sweep" /\ todo[1].who = f /\ todo[1].at <= n)
    BY <1>0, <1>6, <2>1, <2>3, <2>4, Numbers DEF SweepEnds
  <2> QED
    BY <2>1, <2>2, <2>4, SweptPops
<1>7. CASE Leaves
  <2>1. /\ todo[1].op = "leave" /\ Popped(todo', todo)
        /\ member' = [member EXCEPT ![todo[1].chan] = @ \ {todo[1].who}]
        /\ todo[1].chan \in Names /\ member \in [Names -> SUBSET Fds]
    BY <1>0, <1>7 DEF Leaves, TypeInv, SendingTypeOK
  <2>2. \A n \in Names : member'[n] \subseteq member[n]
    BY <2>1
  <2>3. todo[1].who \notin member'[todo[1].chan]
    BY <2>1
  <2>4. \A f, n : n \in Names /\ f \in member'[n] => todo[1] # Leave(f, n)
    BY <2>3 DEF Leave
  <2> QED
    BY <2>1, <2>2, <2>4, SweptPops
<1>8. CASE Dangles \/ Overflows
  BY <1>8, EmptySeq DEF Dangles, Overflows, Undefined, ErasedSwept
<1> QED
  BY <1>1, <1>2, <1>3, <1>4, <1>5, <1>6, <1>7, <1>8, RemovesSwept, SweepLeavesSwept
     DEF Executes

LEMMA ExecutesNoStale ==
  ASSUME TypeInv, NoStaleMembers, ErasedSwept, Running, Executes,
         Len(todo) \in Nat \ {0}, WellFormed(todo[1])
  PROVE  NoStaleMembers'
<1>1. \A n \in Names : member[n] \subseteq live
  BY DEF NoStaleMembers, Running
<1>2. CASE Erases
  <2>1. \A n \in Names : todo[1].who \notin member[n]
    BY <1>2, ErasedIsOut DEF Erases
  <2> QED
    BY <1>1, <1>2, <2>1 DEF Erases, NoStaleMembers
<1>3. CASE Leaves
  <2>1. /\ member' = [member EXCEPT ![todo[1].chan] = @ \ {todo[1].who}]
        /\ todo[1].chan \in Names /\ member \in [Names -> SUBSET Fds] /\ live' = live
    BY <1>3 DEF Leaves, TypeInv, SendingTypeOK, WellFormed
  <2> QED
    BY <1>1, <2>1 DEF NoStaleMembers
<1>4. CASE Dangles \/ Overflows
  BY <1>1, <1>4 DEF Dangles, Overflows, Undefined, clients, NoStaleMembers
<1>5. CASE ~Erases /\ ~Leaves /\ ~Dangles /\ ~Overflows
  <2>1. member' = member /\ live' = live
    BY <1>5 DEF Executes, Fails, Ends, Continues, Used, CastEnds, CastSends,
       EachEnds, EachSends, Removes, SweepEnds, SweepLeaves, Quietly, clients
  <2> QED
    BY <1>1, <2>1 DEF NoStaleMembers
<1> QED
  BY <1>2, <1>3, <1>4, <1>5

LEMMA MembersInitially == Init => MembersInv
<1> SUFFICES ASSUME Init PROVE MembersInv
  OBVIOUS
<1>1. TypeInv
  BY TypeInitially
<1>2. Len(todo) = 0
  BY EmptySeq DEF Init
<1>3. ErasedSwept
  BY <1>2 DEF ErasedSwept
<1>4. NoStaleMembers
  BY DEF Init, NoStaleMembers
<1> QED
  BY <1>1, <1>3, <1>4 DEF MembersInv

LEMMA MembersNext == MembersInv /\ [Next]_vars => MembersInv'
<1> SUFFICES ASSUME MembersInv, [Next]_vars PROVE MembersInv'
  OBVIOUS
<1>1. TypeInv /\ NoStaleMembers /\ ErasedSwept
  BY DEF MembersInv
<1>2. SUFFICES NoStaleMembers' /\ ErasedSwept'
  BY <1>1, TypeNext DEF MembersInv
<1>3. CASE UNCHANGED vars
  BY <1>1, <1>3 DEF vars, clients, NoStaleMembers, ErasedSwept, SweptAbove
<1>4. CASE Connects
  <2>1. todo' = <<>> /\ member' = member /\ live \subseteq live' /\ fault = "none"
    BY <1>4 DEF Connects, Connect, Idle
  <2> QED
    BY <1>1, <2>1, EmptySeq DEF NoStaleMembers, ErasedSwept
<1>5. CASE Breaks
  BY <1>1, <1>5 DEF Breaks, Break, clients, NoStaleMembers, ErasedSwept, SweptAbove
<1>6. CASE Begins
  <2>1. NoStaleMembers'
    BY <1>1, <1>6 DEF Begins, NoStaleMembers
  <2>2. Len(todo') \in Nat
    BY <1>6, LenProperties DEF Begins
  <2>3. \A k \in 1..Len(todo') : todo'[k].op # "erase"
    <3>1. ASSUME NEW k \in 1..Len(todo') PROVE todo'[k].op # "erase"
      <4>1. CASE Fresh(todo'[k], k = Len(todo'))
        BY <4>1 DEF Fresh
      <4>2. CASE Parts(todo') /\ k = 3
        BY <4>2 DEF Parts
      <4>3. CASE Invites(todo') /\ k = 5
        BY <4>3 DEF Invites
      <4> QED
        BY <1>6, <4>1, <4>2, <4>3 DEF Begins
    <3> QED
      BY <3>1
  <2> QED
    BY <2>1, <2>3 DEF ErasedSwept
<1>7. CASE /\ Running /\ Executes /\ todo' \in Seq(Instructions)
           /\ Len(todo) \in Nat \ {0} /\ WellFormed(todo[1])
  BY <1>1, <1>7, ExecutesSwept, ExecutesNoStale
<1> QED
  BY <1>1, <1>3, <1>4, <1>5, <1>6, <1>7, NextForms

\* In the middle of any number of removals within removals, and after one has
\* ended in the use of something erased, every member of a channel is a client
\* that is still there (NoStaleMembers).
THEOREM MembersNeverStale == Spec => []NoStaleMembers
<1>1. Spec => []MembersInv
  BY MembersInitially, MembersNext, PTL DEF Spec
<1> QED
  BY <1>1, PTL DEF MembersInv

-----------------------------------------------------------------------------
(* Departures are announced *)

\* g has been sent it, or will be by the first k instructions.
Told(g, f, n, k) ==
  <<g, f, n>> \in heard \/ \E j \in 1..k : StillTells(todo[j], g, f, n)

\* A client leaves a channel when those it leaves behind have been told.
LeavesTold ==
  \A k \in 1..Len(todo) : todo[k].op = "leave" =>
    \A g \in member[todo[k].chan] \ {todo[k].who} :
      Told(g, todo[k].who, todo[k].chan, k - 1)

GoneTold ==
  fault = "none" =>
    \A n \in Names : \A f \in before[n] \ member[n] : \A g \in member[n] :
      Told(g, f, n, Len(todo))

AnnouncedInv == MembersInv /\ LeavesTold /\ GoneTold

LEMMA PoppedShifts ==
  ASSUME NEW r, NEW s, Len(s) \in Nat, Popped(r, s)
  PROVE  Shifted(r, s, -1)
BY DEF Popped, Shifted

\* What follows the first instruction covers what it did; what the first did
\* is done, or is done by those in its place.
LEMMA ToldCarried ==
  ASSUME Len(todo) \in Nat \ {0}, NEW c \in Int, c >= -1, Shifted(todo', todo, c),
         heard \subseteq heard', NEW g, NEW f, NEW n,
         NEW k \in 1..Len(todo), Told(g, f, n, k),
         StillTells(todo[1], g, f, n) =>
           <<g, f, n>> \in heard' \/ \E j \in 1..c + 1 : StillTells(todo'[j], g, f, n)
  PROVE  Told(g, f, n, k + c)'
<1>1. \A j \in c + 2..Len(todo) + c : todo'[j] = todo[j - c]
  BY DEF Shifted
<1>2. ASSUME <<g, f, n>> \in heard' PROVE Told(g, f, n, k + c)'
  BY <1>2 DEF Told
<1>3. ASSUME NEW j \in 1..k, StillTells(todo[j], g, f, n) PROVE Told(g, f, n, k + c)'
  <2>1. CASE j = 1
    <3>1. SUFFICES ASSUME NEW i \in 1..c + 1, StillTells(todo'[i], g, f, n)
                   PROVE  Told(g, f, n, k + c)'
      BY <1>2, <1>3, <2>1
    <3>2. i \in 1..k + c
      OBVIOUS
    <3> QED
      BY <3>1, <3>2 DEF Told
  <2>2. CASE j # 1
    <3>1. PICK i \in Int : i = j + c
      OBVIOUS
    <3>2. i \in 1..k + c /\ i \in c + 2..Len(todo) + c /\ i - c = j
      BY <2>2, <3>1
    <3>3. todo'[i] = todo[j]
      BY <1>1, <3>2
    <3> QED
      BY <1>3, <3>2, <3>3 DEF Told
  <2> QED
    BY <2>1, <2>2
<1> QED
  BY <1>2, <1>3 DEF Told

LEMMA AnnouncementsCarried ==
  ASSUME TypeInv, LeavesTold, GoneTold, fault = "none",
         Len(todo) \in Nat \ {0}, WellFormed(todo[1]), todo' \in Seq(Instructions),
         NEW c \in Int, c >= -1, Shifted(todo', todo, c),
         heard \subseteq heard', before' = before,
         \A n \in Names : member'[n] \subseteq member[n],
         \A n \in Names : \A g \in member'[n] : \A f \in Fds :
           StillTells(todo[1], g, f, n) =>
             <<g, f, n>> \in heard' \/ \E j \in 1..c + 1 : StillTells(todo'[j], g, f, n),
         \A k \in 1..c + 1 : todo'[k].op = "leave" =>
           \A g \in member'[todo'[k].chan] \ {todo'[k].who} :
             \E j \in 1..k - 1 : StillTells(todo'[j], g, todo'[k].who, todo'[k].chan),
         \A n \in Names : \A f \in member[n] \ member'[n] :
           todo[1].op = "leave" /\ todo[1].who = f /\ todo[1].chan = n
  PROVE  LeavesTold' /\ GoneTold'
<1>0. todo \in Seq(Instructions) /\ member \in [Names -> SUBSET Fds] /\ before \in [Names -> SUBSET Fds]
  BY DEF TypeInv, SendingTypeOK
<1>1. Len(todo') = Len(todo) + c /\ \A j \in c + 2..Len(todo') : todo'[j] = todo[j - c]
  BY DEF Shifted
<1>2. ASSUME NEW k \in 1..Len(todo'), todo'[k].op = "leave",
             NEW g \in member'[todo'[k].chan] \ {todo'[k].who}
      PROVE  Told(g, todo[k].who, todo[k].chan, k - 1)'
  <2>1. CASE k \in 1..c + 1
    BY <1>2, <2>1 DEF Told
  <2>2. CASE k \notin 1..c + 1
    <3>1. PICK i \in 2..Len(todo) : i = k - c
      BY <1>1, <2>2
    <3>2. todo'[k] = todo[i]
      BY <1>1, <2>2, <3>1
    <3>3. todo[i].who \in Fds /\ todo[i].chan \in Names
      <4>1. todo[i] \in Instructions
        BY <1>0, <3>1, ElementOfSeq
      <4> QED
        BY <1>2, <3>2, <4>1, InstructionsWellFormed DEF WellFormed
    <3>4. PICK f \in Fds, n \in Names : f = todo[i].who /\ n = todo[i].chan
      BY <3>3
    <3>5. g \in member'[n] /\ g \in member[n] \ {f}
      BY <1>2, <3>2, <3>4
    <3>6. Told(g, f, n, i - 1)
      <4>1. i \in 1..Len(todo) /\ todo[i].op = "leave"
        BY <1>2, <3>1, <3>2
      <4>2. \A h \in member[todo[i].chan] \ {todo[i].who} :
              Told(h, todo[i].who, todo[i].chan, i - 1)
        BY <4>1 DEF LeavesTold
      <4> QED
        BY <3>4, <3>5, <4>2
    <3>7. i - 1 \in 1..Len(todo)
      BY <3>1
    <3>8. Told(g, f, n, (i - 1) + c)'
      BY <3>5, <3>6, <3>7, ToldCarried
    <3>9. (i - 1) + c = k - 1
      BY <3>1
    <3>10. Told(g, f, n, k - 1)'
      BY <3>8, <3>9
    <3> QED
      BY <3>2, <3>4, <3>10 DEF Told
  <2> QED
    BY <2>1, <2>2
<1>3. ASSUME NEW n \in Names, NEW f \in before[n] \ member'[n], NEW g \in member'[n]
      PROVE  Told(g, f, n, Len(todo))'
  <2>1. f \in Fds /\ g \in member[n]
    BY <1>0, <1>3
  <2>2. CASE f \in member[n]
    <3>1. todo[1].op = "leave" /\ todo[1].who = f /\ todo[1].chan = n
      BY <1>3, <2>2
    <3>2. 1 \in 1..Len(todo) /\ g # f
      BY <1>3
    <3>3. Told(g, f, n, 1 - 1)
      BY <2>1, <3>1, <3>2 DEF LeavesTold
    <3>4. <<g, f, n>> \in heard
      BY <3>3 DEF Told
    <3> QED
      BY <3>4 DEF Told
  <2>3. CASE f \notin member[n]
    <3>1. PICK k \in 1..Len(todo) : k = Len(todo)
      OBVIOUS
    <3>2. Told(g, f, n, k)
      BY <1>3, <2>1, <2>3, <3>1 DEF GoneTold
    <3>3. Told(g, f, n, k + c)'
      BY <2>1, <3>2, ToldCarried
    <3>4. k + c = Len(todo')
      BY <1>1, <3>1
    <3> QED
      BY <3>3, <3>4 DEF Told
  <2> QED
    BY <2>2, <2>3
<1> QED
  BY <1>2, <1>3 DEF LeavesTold, GoneTold

LEMMA ExecutesAnnounced ==
  ASSUME AnnouncedInv, Running, Executes, todo' \in Seq(Instructions),
         Len(todo) \in Nat \ {0}, WellFormed(todo[1])
  PROVE  LeavesTold' /\ GoneTold'
<1>0. /\ TypeInv /\ NoStaleMembers /\ ErasedSwept /\ LeavesTold /\ GoneTold /\ fault = "none"
      /\ member \in [Names -> SUBSET Fds]
      /\ \A n \in Names : member[n] \subseteq live
  BY DEF AnnouncedInv, MembersInv, Running, NoStaleMembers, TypeInv, SendingTypeOK
<1>00. \A n \in Names : \A g \in member[n] : g \in Nat /\ g > 0
  <2>1. ASSUME NEW n \in Names, NEW g \in member[n] PROVE g \in Nat /\ g > 0
    <3>1. g \in Fds
      BY <1>0
    <3> QED
      BY <3>1, Numbers
  <2> QED
    BY <2>1
<1>1. CASE Fails
  <2>1. todo'[1] = Remove(todo[1].to) /\ Shifted(todo', todo, 0) /\ todo[1].op = "send"
        /\ heard' = heard /\ before' = before /\ member' = member
    BY <1>1 DEF Fails, clients
  <2>2. \A g, f, n : StillTells(todo[1], g, f, n) => StillTells(todo'[1], g, f, n)
    BY <2>1 DEF StillTells, Remove
  <2>3. todo'[1].op # "leave" /\ 1 \in 1..0 + 1 /\ \A k \in 1..0 + 1 : k = 1
    BY <2>1 DEF Remove
  <2> QED
    BY <1>0, <2>1, <2>2, <2>3, AnnouncementsCarried, 0 \in Int, 0 >= -1
<1>2. CASE Continues
  <2>1. /\ todo'[1] = SendMore(todo[1].to, todo[1].news, todo[1].writes + 1)
        /\ Shifted(todo', todo, 0) /\ todo[1].op = "send"
        /\ heard' = heard /\ before' = before /\ member' = member
    BY <1>2 DEF Continues, Quietly, clients, history
  <2>2. \A g, f, n : StillTells(todo[1], g, f, n) => StillTells(todo'[1], g, f, n)
    BY <2>1 DEF StillTells, SendMore
  <2>3. todo'[1].op # "leave" /\ 1 \in 1..0 + 1 /\ \A k \in 1..0 + 1 : k = 1
    BY <2>1 DEF SendMore
  <2> QED
    BY <1>0, <2>1, <2>2, <2>3, AnnouncementsCarried, 0 \in Int, 0 >= -1
<1>3. CASE Ends
  <2>1. /\ todo[1].op = "send" /\ Shifted(todo', todo, -1) /\ before' = before /\ member' = member
        /\ heard' = IF todo[1].news = NoNews THEN heard
                    ELSE heard \cup {<<todo[1].to>> \o todo[1].news}
    BY <1>3, PoppedShifts DEF Ends, clients, history
  <2>2. ASSUME NEW n \in Names, NEW g \in member[n], NEW f \in Fds, StillTells(todo[1], g, f, n)
        PROVE  <<g, f, n>> \in heard'
    <3>1. todo[1].to = g /\ todo[1].news = <<f, n>> /\ todo[1].news # NoNews
      BY <2>1, <2>2, NewsMade DEF StillTells, Departs
    <3>2. <<g>> \o <<f, n>> = <<g, f, n>>
      <4>1. g \in Fds \cup Names /\ f \in Fds \cup Names /\ n \in Fds \cup Names
        BY <1>0
      <4> QED
        BY <4>1, TripleJoined
    <3>3. heard' = heard \cup {<<g, f, n>>}
      BY <2>1, <3>1, <3>2
    <3> QED
      BY <3>3
  <2>3. heard \subseteq heard' /\ \A k \in 1..-1 + 1 : FALSE
    BY <2>1
  <2> QED
    BY <1>0, <2>1, <2>2, <2>3, AnnouncementsCarried, -1 \in Int, -1 >= -1
<1>4. CASE Used \/ EachEnds \/ SweepEnds
  <2>1. /\ todo[1].op \in {"use", "channel", "each", "sweep"} /\ Shifted(todo', todo, -1)
        /\ heard' = heard /\ before' = before /\ member' = member
    BY <1>4, PoppedShifts DEF Used, EachEnds, SweepEnds, Quietly, clients, history
  <2>2. \A g, f, n : ~StillTells(todo[1], g, f, n)
    BY <2>1 DEF StillTells
  <2>3. \A k \in 1..-1 + 1 : FALSE
    OBVIOUS
  <2> QED
    BY <1>0, <2>1, <2>2, <2>3, AnnouncementsCarried, -1 \in Int, -1 >= -1
<1>5. CASE CastEnds
  <2>1. /\ todo[1].op = "cast" /\ Shifted(todo', todo, -1)
        /\ heard' = heard /\ before' = before /\ member' = member
        /\ \A g \in member[todo[1].chan] : g > todo[1].at => g = todo[1].but
    BY <1>5, PoppedShifts DEF CastEnds, Quietly, clients, history
  <2>2. todo[1].at \in Nat /\ \A n \in Names : \A g \in member[n] : g \in Nat
    <3>1. todo[1].at \in Nat
      <4>1. todo[1].at \in Fds \cup {0}
        BY <2>1 DEF WellFormed
      <4>2. \A g \in Fds \cup {0} : g \in Nat
        BY Numbers
      <4> QED
        BY <4>1, <4>2, Zenon
    <3> QED
      BY <1>00, <3>1, Numbers
  <2>3. ASSUME NEW n \in Names, NEW g \in member[n], NEW f \in Fds PROVE ~StillTells(todo[1], g, f, n)
    BY <2>1, <2>2 DEF StillTells
  <2>4. \A k \in 1..-1 + 1 : FALSE
    OBVIOUS
  <2> QED
    BY <1>0, <2>1, <2>3, <2>4, AnnouncementsCarried, -1 \in Int, -1 >= -1
<1>6. ASSUME NEW c \in Fds, CastSends(c) PROVE LeavesTold' /\ GoneTold'
  <2>1. /\ todo[1].op = "cast" /\ Shifted(todo', todo, 1)
        /\ heard' = heard /\ before' = before /\ member' = member
        /\ \A g \in member[todo[1].chan] : g > todo[1].at => g = todo[1].but \/ c <= g
        /\ todo'[1] = SendMore(c, todo[1].news, 0)
        /\ todo'[2] = CastFrom(todo[1].chan, todo[1].but, todo[1].news, c)
    BY <1>6 DEF CastSends, Quietly, clients, history
  <2>2. todo[1].at \in Nat /\ c \in Nat /\ \A n \in Names : \A g \in member[n] : g \in Nat
    <3>1. todo[1].at \in Nat
      <4>1. todo[1].at \in Fds \cup {0}
        BY <2>1 DEF WellFormed
      <4>2. \A g \in Fds \cup {0} : g \in Nat
        BY Numbers
      <4> QED
        BY <4>1, <4>2, Zenon
    <3> QED
      BY <1>00, <3>1, Numbers
  <2>3. ASSUME NEW n \in Names, NEW g \in member[n], NEW f \in Fds, StillTells(todo[1], g, f, n)
        PROVE  StillTells(todo'[1], g, f, n) \/ StillTells(todo'[2], g, f, n)
    <3>1. todo[1].chan = n /\ todo[1].news = Departs(f, n) /\ todo[1].but # g /\ todo[1].at < g
      BY <2>1, <2>3 DEF StillTells, Departs
    <3>2. c = g \/ c < g
      BY <2>1, <2>2, <3>1
    <3> QED
      BY <2>1, <3>1, <3>2 DEF StillTells, SendMore, CastFrom, Departs
  <2>4. /\ 1 \in 1..1 + 1 /\ 2 \in 1..1 + 1
        /\ \A k \in 1..1 + 1 : k = 1 \/ k = 2
    OBVIOUS
  <2>5. todo'[1].op # "leave" /\ todo'[2].op # "leave"
    BY <2>1 DEF SendMore, CastFrom
  <2> QED
    BY <1>0, <2>1, <2>3, <2>4, <2>5, AnnouncementsCarried, 1 \in Int, 1 >= -1
<1>7. ASSUME NEW c \in Fds, EachSends(c) PROVE LeavesTold' /\ GoneTold'
  <2>1. /\ todo[1].op = "each" /\ Shifted(todo', todo, 1)
        /\ heard' = heard /\ before' = before /\ member' = member
        /\ todo'[1] = Send(c) /\ todo'[2] = EachFrom(c)
    BY <1>7 DEF EachSends, Quietly, clients, history
  <2>2. \A g, f, n : ~StillTells(todo[1], g, f, n)
    BY <2>1 DEF StillTells
  <2>4. \A k \in 1..1 + 1 : k = 1 \/ k = 2
    OBVIOUS
  <2>5. todo'[1].op # "leave" /\ todo'[2].op # "leave"
    BY <2>1 DEF Send, SendMore, EachFrom
  <2> QED
    BY <1>0, <2>1, <2>2, <2>4, <2>5, AnnouncementsCarried, 1 \in Int, 1 >= -1
<1>8. CASE Removes
  <2>1. /\ todo[1].op = "remove" /\ Shifted(todo', todo, 1)
        /\ heard' = heard /\ before' = before /\ member' = member
        /\ todo'[1] = SweepFrom(todo[1].who, 1, 0) /\ todo'[2] = Erase(todo[1].who)
    BY <1>8 DEF Removes, Quietly, clients, history
  <2>2. \A g, f, n : StillTells(todo[1], g, f, n) => StillTells(todo'[2], g, f, n)
    BY <2>1 DEF StillTells, Erase
  <2>4. 2 \in 1..1 + 1 /\ \A k \in 1..1 + 1 : k = 1 \/ k = 2
    OBVIOUS
  <2>5. todo'[1].op # "leave" /\ todo'[2].op # "leave"
    BY <2>1 DEF SweepFrom, Erase
  <2> QED
    BY <1>0, <2>1, <2>2, <2>4, <2>5, AnnouncementsCarried, 1 \in Int, 1 >= -1
<1>9. ASSUME NEW n \in Names, NEW c \in {0, 1}, SweepLeaves(n, c) PROVE LeavesTold' /\ GoneTold'
  <2>0. PICK f : f = todo[1].who
    OBVIOUS
  <2>1. /\ todo[1].op = "sweep" /\ Shifted(todo', todo, 2 + c)
        /\ heard' = heard /\ before' = before /\ member' = member
        /\ todo'[1] = CastFrom(n, f, Departs(f, n), 0)
        /\ (c = 1 => todo'[2] = Broadcast(n, f))
        /\ todo'[2 + c] = Leave(f, n)
        /\ todo'[3 + c] = SweepFrom(f, n + 1, c)
    BY <1>9, <2>0 DEF SweepLeaves, Quietly, clients, history
  <2>2. \A g, h, m : ~StillTells(todo[1], g, h, m)
    BY <2>1 DEF StillTells
  <2>3. ASSUME NEW k \in 1..(2 + c) + 1, todo'[k].op = "leave",
               NEW g \in member[todo'[k].chan] \ {todo'[k].who}
        PROVE  \E j \in 1..k - 1 : StillTells(todo'[j], g, todo'[k].who, todo'[k].chan)
    <3>1. todo'[1].op # "leave" /\ (c = 1 => todo'[2].op # "leave") /\ todo'[3 + c].op # "leave"
      BY <2>1 DEF CastFrom, Broadcast, SweepFrom
    <3>2. k = 2 + c
      <4>1. k = 1 \/ (k = 2 /\ c = 1) \/ k = 2 + c \/ k = 3 + c
        OBVIOUS
      <4> QED
        BY <2>3, <3>1, <4>1
    <3>3. todo'[k].chan = n /\ todo'[k].who = f
      BY <2>1, <3>2 DEF Leave
    <3>4. g \in Nat /\ g > 0 /\ g # f
      BY <1>00, <1>9, <2>3, <3>3
    <3>5. StillTells(todo'[1], g, f, n)
      BY <2>1, <3>4 DEF StillTells, CastFrom, Departs
    <3> QED
      BY <3>2, <3>3, <3>5, 1 \in 1..k - 1
  <2> QED
    BY <1>0, <2>1, <2>2, <2>3, AnnouncementsCarried, 2 + c \in Int, 2 + c >= -1
<1>10. CASE Leaves
  <2>1. /\ todo[1].op = "leave" /\ Shifted(todo', todo, -1)
        /\ heard' = heard /\ before' = before
        /\ member' = [member EXCEPT ![todo[1].chan] = @ \ {todo[1].who}]
    BY <1>10, PoppedShifts DEF Leaves, history
  <2>2. \A g, f, n : ~StillTells(todo[1], g, f, n)
    BY <2>1 DEF StillTells
  <2>3. \A k \in 1..-1 + 1 : FALSE
    OBVIOUS
  <2>4. /\ \A n \in Names : member'[n] \subseteq member[n]
        /\ \A n \in Names : \A f \in member[n] \ member'[n] : todo[1].who = f /\ todo[1].chan = n
    BY <1>0, <2>1
  <2> QED
    BY <1>0, <2>1, <2>2, <2>3, <2>4, AnnouncementsCarried, -1 \in Int, -1 >= -1
<1>11. CASE Erases
  <2>1. /\ todo[1].op = "erase" /\ Shifted(todo', todo, -1)
        /\ heard' = heard /\ before' = before /\ member' = member
    BY <1>11, PoppedShifts DEF Erases, history
  <2>2. \A n \in Names : todo[1].who \notin member[n]
    BY <1>0, <2>1, ErasedIsOut
  <2>3. ASSUME NEW n \in Names, NEW g \in member[n], NEW f \in Fds PROVE ~StillTells(todo[1], g, f, n)
    BY <2>1, <2>2 DEF StillTells
  <2>4. \A k \in 1..-1 + 1 : FALSE
    OBVIOUS
  <2> QED
    BY <1>0, <2>1, <2>3, <2>4, AnnouncementsCarried, -1 \in Int, -1 >= -1
<1>12. CASE Dangles \/ Overflows
  BY <1>12, EmptySeq DEF Dangles, Overflows, Undefined, LeavesTold, GoneTold
<1> QED
  BY <1>1, <1>2, <1>3, <1>4, <1>5, <1>6, <1>7, <1>8, <1>9, <1>10, <1>11, <1>12 DEF Executes

LEMMA BeginsAnnounced ==
  ASSUME TypeInv, NoStaleMembers, Begins
  PROVE  LeavesTold' /\ GoneTold'
<1>0. /\ member' \in [Names -> SUBSET Fds] /\ before' = member
      /\ \A n \in Names : \A g \in member'[n] : g \in Fds /\ g \in Nat /\ g > 0
  <2>1. ASSUME NEW n \in Names, NEW g \in member'[n] PROVE g \in Fds /\ g \in Nat /\ g > 0
    <3>1. g \in Fds
      BY DEF Begins
    <3> QED
      BY <3>1, Numbers
  <2> QED
    BY <2>1 DEF Begins
<1>1. ASSUME NEW k \in 1..Len(todo'), todo'[k].op = "leave",
             NEW g \in member'[todo'[k].chan] \ {todo'[k].who}
      PROVE  Told(g, todo[k].who, todo[k].chan, k - 1)'
  <2>1. Parts(todo') /\ k = 3
    BY <1>1 DEF Begins, Fresh, Invites
  <2>2. PICK f, n : f = todo'[3].who /\ n = todo'[3].chan
    OBVIOUS
  <2>3. todo'[1] = CastFrom(n, f, Departs(f, n), 0) /\ n \in Names
    BY <2>1, <2>2, InstructionsWellFormed DEF Parts, WellFormed
  <2>4. g # f /\ g \in Nat /\ g > 0
    BY <1>0, <1>1, <2>1, <2>2, <2>3
  <2>5. StillTells(todo'[1], g, f, n)
    BY <2>3, <2>4 DEF StillTells, CastFrom, Departs
  <2> QED
    BY <2>1, <2>2, <2>5, 1 \in 1..3 - 1 DEF Told
<1>2. ASSUME NEW n \in Names, NEW f \in before'[n] \ member'[n], NEW g \in member'[n]
      PROVE  Told(g, f, n, Len(todo))'
  <2>1. todo' # <<>> /\ todo'[1] = CastFrom(n, Nobody, Departs(f, n), 0)
    BY <1>0, <1>2 DEF Begins
  <2>2. g \in Nat /\ g > 0
    BY <1>0
  <2>3. StillTells(todo'[1], g, f, n)
    BY <2>1, <2>2 DEF StillTells, CastFrom, Nobody, Departs
  <2>4. 1 \in 1..Len(todo')
    BY <2>1, EmptySeq DEF Begins
  <2> QED
    BY <2>3, <2>4 DEF Told
<1> QED
  BY <1>1, <1>2 DEF LeavesTold, GoneTold

LEMMA AnnouncedInitially == Init => AnnouncedInv
<1> SUFFICES ASSUME Init PROVE AnnouncedInv
  OBVIOUS
<1>1. MembersInv
  BY MembersInitially
<1>2. Len(todo) = 0 /\ before = member
  BY EmptySeq DEF Init
<1>3. LeavesTold
  BY <1>2 DEF LeavesTold
<1>4. GoneTold
  BY <1>2 DEF GoneTold
<1> QED
  BY <1>1, <1>3, <1>4 DEF AnnouncedInv

LEMMA AnnouncedNext == AnnouncedInv /\ [Next]_vars => AnnouncedInv'
<1> SUFFICES ASSUME AnnouncedInv, [Next]_vars PROVE AnnouncedInv'
  OBVIOUS
<1>1. TypeInv /\ NoStaleMembers /\ MembersInv /\ LeavesTold /\ GoneTold
  BY DEF AnnouncedInv, MembersInv
<1>2. SUFFICES LeavesTold' /\ GoneTold'
  BY <1>1, MembersNext DEF AnnouncedInv
<1>3. CASE UNCHANGED vars \/ Connects \/ Breaks
  <2>1. UNCHANGED <<todo, member, before, heard, fault>>
    BY <1>3 DEF vars, clients, history, Connects, Connect, Breaks, Break
  <2> QED
    BY <1>1, <2>1 DEF LeavesTold, GoneTold, Told
<1>4. CASE Begins
  BY <1>1, <1>4, BeginsAnnounced
<1>5. CASE /\ Running /\ Executes /\ todo' \in Seq(Instructions)
           /\ Len(todo) \in Nat \ {0} /\ WellFormed(todo[1])
  BY <1>5, ExecutesAnnounced
<1> QED
  BY <1>1, <1>3, <1>4, <1>5, NextForms

\* Whoever departs from a channel while a handler runs, by its own command or
\* because a send to it failed, at any depth of removals within removals, has
\* been announced to every member that is left or will be by what is still to
\* be done, until something erased is used (DeparturesAnnounced).
THEOREM AllDeparturesAnnounced == Spec => []DeparturesAnnounced
<1>1. Spec => []AnnouncedInv
  BY AnnouncedInitially, AnnouncedNext, PTL DEF Spec
<1>2. AnnouncedInv => DeparturesAnnounced
  <2> SUFFICES ASSUME AnnouncedInv, fault = "none", NEW n \in Names,
                      NEW gone \in before[n] \ member[n], NEW f \in member[n]
               PROVE  \/ <<f, gone, n>> \in heard
                      \/ \E k \in DOMAIN todo : StillTells(todo[k], f, gone, n)
    BY DEF DeparturesAnnounced
  <2>1. Told(f, gone, n, Len(todo))
    BY DEF AnnouncedInv, GoneTold
  <2>2. DOMAIN todo = 1..Len(todo)
    BY LenProperties DEF AnnouncedInv, MembersInv, TypeInv
  <2> QED
    BY <2>1, <2>2 DEF Told
<1> QED
  BY <1>1, <1>2, PTL

-----------------------------------------------------------------------------
(* What stands above a removal that is under way *)

\* There is an erasure further down the stack.
Above(j) == \E k \in 1..Len(todo) : j < k /\ todo[k].op = "erase"

\* Above an erasure the stack is made of removals, each called from within the
\* announcement of the one below: the instruction at j and those it belongs
\* to.  A send or a call of removeClient is in front, called by a loop over the
\* members of a channel that has both the recipient and the client announced.
Frame(j) ==
  /\ todo[j].op \in {"send", "remove", "cast", "leave", "sweep", "erase"}
  /\ todo[j].op \in {"send", "remove"} =>
       /\ j = 1 /\ todo[2].op = "cast"
       /\ todo[j].op = "send" => todo[2].at = todo[j].to
       /\ todo[j].op = "remove" => todo[2].at = todo[j].who
       /\ {todo[2].at, todo[2].but} \subseteq member[todo[2].chan]
       /\ todo[2].at # todo[2].but
  /\ todo[j].op \in {"remove", "erase"} => todo[j].who \in struck
  /\ todo[j].op = "erase" => todo[j + 1].op = "cast" /\ todo[j + 1].at = todo[j].who
  /\ todo[j].op = "cast" => todo[j + 1] = Leave(todo[j].but, todo[j].chan)
  /\ todo[j].op = "cast" /\ j = 1 /\ todo[j].at \in member[todo[j].chan] \cup {0} =>
       todo[j].but \in member[todo[j].chan]
  /\ todo[j].op = "leave" => todo[j + 1].op = "sweep" /\ todo[j + 1].who = todo[j].who
  /\ todo[j].op = "sweep" => todo[j + 1] = Erase(todo[j].who) /\ todo[j].notices = 0

Framed == \A j \in 1..Len(todo) : Above(j) => Frame(j)

\* Only what has failed is removed twice at a time, and only from within the
\* announcement of another that failed in a channel of both.
OverflowInv == MembersInv /\ Framed /\ OverflowNeedsTwo

\* Behind the c + 1 instructions in the place of the first.
LEMMA FramesCarried ==
  ASSUME Framed, Len(todo) \in Nat \ {0}, NEW c \in Int, c >= -1, Shifted(todo', todo, c),
         struck \subseteq struck', NEW j \in c + 2..Len(todo'), Above(j)',
         j = 1 /\ todo[2].op = "cast" /\ todo[2].at \in member'[todo[2].chan] \cup {0} =>
           todo[2].but \in member'[todo[2].chan]
  PROVE  Frame(j)'
<1>1. Len(todo') = Len(todo) + c /\ \A k \in c + 2..Len(todo') : todo'[k] = todo[k - c]
  BY DEF Shifted
<1>2. PICK k \in 1..Len(todo') : j < k /\ todo'[k].op = "erase"
  BY DEF Above
<1>3. PICK i \in 2..Len(todo) : i = j - c
  BY <1>1
<1>4. k - c \in 1..Len(todo) /\ i < k - c /\ todo[k - c].op = "erase"
  BY <1>1, <1>2, <1>3
<1>5. Frame(i)
  BY <1>3, <1>4 DEF Framed, Above
<1>6. todo'[j] = todo[i]
  BY <1>1, <1>3
<1>7. todo'[j + 1] = todo[i + 1]
  <2>1. j + 1 \in c + 2..Len(todo') /\ (j + 1) - c = i + 1
    BY <1>1, <1>2, <1>3
  <2> QED
    BY <1>1, <2>1
<1>8. todo[i].op \notin {"send", "remove"}
  BY <1>3, <1>5 DEF Frame
<1>9. j = 1 => i = 2
  BY <1>3
<1> QED
  BY <1>5, <1>6, <1>7, <1>8, <1>9 DEF Frame

\* The c + 1 instructions themselves are above an erasure if the first was.
LEMMA AboveCarried ==
  ASSUME Len(todo) \in Nat \ {0}, NEW c \in Nat, Shifted(todo', todo, c),
         NEW j \in 1..c + 1, Above(j)', \A k \in j + 1..c + 1 : todo'[k].op # "erase"
  PROVE  Above(1) /\ 1 \in 1..Len(todo) /\ Len(todo) >= 2 /\ todo'[c + 2] = todo[2]
<1>1. Len(todo') = Len(todo) + c /\ \A k \in c + 2..Len(todo') : todo'[k] = todo[k - c]
  BY DEF Shifted
<1>2. PICK k \in 1..Len(todo') : j < k /\ todo'[k].op = "erase"
  BY DEF Above
<1>3. k \in c + 2..Len(todo')
  BY <1>2
<1>4. k - c \in 2..Len(todo) /\ todo[k - c].op = "erase"
  BY <1>1, <1>2, <1>3
<1>5. c + 2 \in c + 2..Len(todo') /\ (c + 2) - c = 2
  BY <1>3
<1> QED
  BY <1>1, <1>4, <1>5, SMTT(60) DEF Above

\* Each instruction that puts others in its place.
LEMMA PushesFramed ==
  ASSUME Framed, Len(todo) \in Nat \ {0}, NEW c \in Nat, Shifted(todo', todo, c),
         struck \subseteq struck',
         \A j \in 1..c + 1 : Above(j)' => Frame(j)'
  PROVE  Framed'
<1> SUFFICES ASSUME NEW j \in 1..Len(todo'), Above(j)'
             PROVE  Frame(j)'
  BY DEF Framed
<1>1. CASE j \in 1..c + 1
  BY <1>1
<1>2. CASE j \notin 1..c + 1
  <2>1. j \in c + 2..Len(todo') /\ j # 1 /\ c >= -1 /\ c \in Int
    BY <1>2
  <2> QED
    BY <2>1, FramesCarried
<1> QED
  BY <1>1, <1>2

LEMMA OneFramed ==
  ASSUME Framed, Len(todo) \in Nat \ {0}, Shifted(todo', todo, 0), struck \subseteq struck',
         Above(1) /\ Frame(1) /\ Len(todo) >= 2 /\ todo'[2] = todo[2] => Frame(1)'
  PROVE  Framed'
<1>1. ASSUME NEW j \in 1..0 + 1, Above(j)' PROVE Frame(j)'
  <2>1. j = 1 /\ \A k \in j + 1..0 + 1 : FALSE
    OBVIOUS
  <2>2. Above(1) /\ 1 \in 1..Len(todo) /\ Len(todo) >= 2 /\ todo'[2] = todo[2]
    BY <1>1, <2>1, AboveCarried, 0 \in Nat, 0 + 2 = 2
  <2>3. Frame(1)'
    BY <2>2 DEF Framed
  <2> QED
    BY <2>1, <2>3
<1> QED
  BY <1>1, PushesFramed, 0 \in Nat

LEMMA SendFramed ==
  ASSUME Framed, Len(todo) \in Nat \ {0}, Fails \/ Continues
  PROVE  Framed'
<1>1. CASE Fails
  <2>1. /\ todo[1].op = "send" /\ todo'[1] = Remove(todo[1].to) /\ Shifted(todo', todo, 0)
        /\ struck' = struck \cup {todo[1].to} /\ member' = member
    BY <1>1 DEF Fails, clients
  <2>2. ASSUME Frame(1), todo'[2] = todo[2] PROVE Frame(1)'
    BY <2>1, <2>2 DEF Frame, Remove
  <2> QED
    BY <2>1, <2>2, OneFramed
<1>2. CASE Continues
  <2>1. /\ todo[1].op = "send"
        /\ todo'[1] = SendMore(todo[1].to, todo[1].news, todo[1].writes + 1)
        /\ Shifted(todo', todo, 0) /\ struck' = struck /\ member' = member
    BY <1>2 DEF Continues, Quietly, clients, history
  <2>2. ASSUME Frame(1), todo'[2] = todo[2] PROVE Frame(1)'
    BY <2>1, <2>2 DEF Frame, SendMore
  <2> QED
    BY <2>1, <2>2, OneFramed
<1> QED
  BY <1>1, <1>2

LEMMA CastFramed ==
  ASSUME Framed, Len(todo) \in Nat \ {0}, NEW c \in Fds, CastSends(c)
  PROVE  Framed'
<1>1. /\ todo[1].op = "cast" /\ Shifted(todo', todo, 1)
      /\ member' = member /\ struck' = struck
      /\ todo[1].at \in member[todo[1].chan] \cup {0}
      /\ c \in member[todo[1].chan] /\ c # todo[1].but
      /\ todo'[1] = SendMore(c, todo[1].news, 0)
      /\ todo'[2] = CastFrom(todo[1].chan, todo[1].but, todo[1].news, c)
  BY DEF CastSends, Quietly, clients, history
<1>2. ASSUME NEW j \in 1..1 + 1, Above(j)' PROVE Frame(j)'
  <2>1. todo'[2].op = "cast" /\ \A k \in j + 1..1 + 1 : k = 2
    BY <1>1 DEF CastFrom
  <2>2. Above(1) /\ 1 \in 1..Len(todo) /\ todo'[3] = todo[2]
    BY <1>1, <1>2, <2>1, AboveCarried, 1 \in Nat, 1 + 2 = 3
  <2>3. Frame(1)
    BY <2>2 DEF Framed
  <2>4. todo[1].but \in member[todo[1].chan] /\ todo[2] = Leave(todo[1].but, todo[1].chan)
    BY <1>1, <2>3 DEF Frame
  <2>5. CASE j = 1
    BY <1>1, <2>4, <2>5 DEF Frame, SendMore, CastFrom
  <2>6. CASE j = 2
    <3>1. todo'[2 + 1] = Leave(todo[1].but, todo[1].chan)
      BY <2>2, <2>4, 2 + 1 = 3
    <3> QED
      BY <1>1, <2>6, <3>1 DEF Frame, CastFrom
  <2> QED
    BY <2>5, <2>6
<1> QED
  BY <1>1, <1>2, PushesFramed, 1 \in Nat

LEMMA EachFramed ==
  ASSUME Framed, Len(todo) \in Nat \ {0}, NEW c \in Fds, EachSends(c)
  PROVE  Framed'
<1>1. /\ todo[1].op = "each" /\ Shifted(todo', todo, 1) /\ struck' = struck
      /\ todo'[1] = Send(c) /\ todo'[2] = EachFrom(c)
  BY DEF EachSends, Quietly, history
<1>2. ASSUME NEW j \in 1..1 + 1, Above(j)' PROVE Frame(j)'
  <2>1. todo'[2].op = "each" /\ \A k \in j + 1..1 + 1 : k = 2
    BY <1>1 DEF EachFrom
  <2>2. Above(1) /\ 1 \in 1..Len(todo)
    BY <1>1, <1>2, <2>1, AboveCarried, 1 \in Nat
  <2>3. Frame(1)
    BY <2>2 DEF Framed
  <2> QED
    BY <1>1, <2>3 DEF Frame
<1> QED
  BY <1>1, <1>2, PushesFramed, 1 \in Nat

LEMMA RemovesFramed ==
  ASSUME Framed, Len(todo) \in Nat \ {0}, Removes
  PROVE  Framed'
<1>1. /\ todo[1].op = "remove" /\ Shifted(todo', todo, 1)
      /\ member' = member /\ struck' = struck
      /\ todo'[1] = SweepFrom(todo[1].who, 1, 0) /\ todo'[2] = Erase(todo[1].who)
  BY DEF Removes, Quietly, clients, history
<1>2. ASSUME NEW j \in 1..1 + 1, Above(j)' PROVE Frame(j)'
  <2>1. CASE j = 1
    BY <1>1, <2>1, 1 + 1 = 2 DEF Frame, SweepFrom
  <2>2. CASE j = 2
    <3>1. \A k \in j + 1..1 + 1 : FALSE
      BY <2>2
    <3>2. Above(1) /\ 1 \in 1..Len(todo) /\ todo'[3] = todo[2]
      BY <1>1, <1>2, <3>1, AboveCarried, 1 \in Nat, 1 + 2 = 3
    <3>3. Frame(1)
      BY <3>2 DEF Framed
    <3>4. todo[2].op = "cast" /\ todo[2].at = todo[1].who /\ todo[1].who \in struck
      BY <1>1, <3>3 DEF Frame
    <3> QED
      BY <1>1, <2>2, <3>2, <3>4, 2 + 1 = 3 DEF Frame, Erase
  <2> QED
    BY <2>1, <2>2
<1> QED
  BY <1>1, <1>2, PushesFramed, 1 \in Nat

LEMMA SweepFramed ==
  ASSUME Framed, Len(todo) \in Nat \ {0}, NEW n \in Names, NEW c \in {0, 1}, SweepLeaves(n, c)
  PROVE  Framed'
<1>0. PICK f : f = todo[1].who
  OBVIOUS
<1>1. /\ todo[1].op = "sweep" /\ Shifted(todo', todo, 2 + c) /\ c = todo[1].notices
      /\ member' = member /\ struck' = struck /\ f \in member[n]
      /\ todo'[1] = CastFrom(n, f, Departs(f, n), 0)
      /\ (c = 1 => todo'[2] = Broadcast(n, f))
      /\ todo'[2 + c] = Leave(f, n)
      /\ todo'[3 + c] = SweepFrom(f, n + 1, c)
  BY <1>0 DEF SweepLeaves, Quietly, clients, history
<1>2. ASSUME NEW j \in 1..(2 + c) + 1, Above(j)' PROVE Frame(j)'
  <2>1. \A k \in 1..(2 + c) + 1 : todo'[k].op # "erase"
    <3>1. /\ todo'[1].op # "erase" /\ (c = 1 => todo'[2].op # "erase")
          /\ todo'[2 + c].op # "erase" /\ todo'[3 + c].op # "erase"
      BY <1>1 DEF CastFrom, Broadcast, Leave, SweepFrom
    <3>2. \A k \in 1..(2 + c) + 1 : k = 1 \/ (k = 2 /\ c = 1) \/ k = 2 + c \/ k = 3 + c
      OBVIOUS
    <3> QED
      BY <3>1, <3>2
  <2>2. Above(1) /\ 1 \in 1..Len(todo) /\ todo'[(2 + c) + 2] = todo[2]
    BY <1>1, <1>2, <2>1, AboveCarried, 2 + c \in Nat, SMTT(60)
  <2>3. Frame(1)
    BY <2>2 DEF Framed
  <2>4. c = 0 /\ todo[2] = Erase(f)
    BY <1>0, <1>1, <2>3 DEF Frame
  <2>5. /\ todo'[1] = CastFrom(n, f, Departs(f, n), 0) /\ todo'[2] = Leave(f, n)
        /\ todo'[3] = SweepFrom(f, n + 1, 0) /\ todo'[4] = Erase(f)
    BY <1>1, <2>2, <2>4, 2 + 0 = 2, 3 + 0 = 3, (2 + 0) + 2 = 4
  <2>6. CASE j = 1
    BY <1>1, <2>5, <2>6, 1 + 1 = 2 DEF Frame, CastFrom
  <2>7. CASE j = 2
    BY <2>5, <2>7, 2 + 1 = 3 DEF Frame, Leave, SweepFrom
  <2>8. CASE j = 3
    BY <2>5, <2>8, 3 + 1 = 4 DEF Frame, SweepFrom
  <2> QED
    BY <2>4, <2>6, <2>7, <2>8
<1> QED
  BY <1>1, <1>2, PushesFramed, 2 + c \in Nat

LEMMA PopFramed ==
  ASSUME Framed, Len(todo) \in Nat \ {0}, Popped(todo', todo), struck' = struck,
         /\ Above(1) /\ Frame(1) /\ todo[2].op = "cast"
         /\ todo[2].at \in member'[todo[2].chan] \cup {0}
         => todo[2].but \in member'[todo[2].chan]
  PROVE  Framed'
<1>1. Shifted(todo', todo, -1) /\ -1 \in Int /\ -1 >= -1
  BY PoppedShifts
<1>2. Len(todo') = Len(todo) - 1 /\ \A k \in 1..Len(todo') : todo'[k] = todo[k + 1]
  BY DEF Popped
<1> SUFFICES ASSUME NEW j \in 1..Len(todo'), Above(j)'
             PROVE  Frame(j)'
  BY DEF Framed
<1>3. j \in -1 + 2..Len(todo')
  BY <1>2
<1>4. PICK k \in 1..Len(todo') : j < k /\ todo'[k].op = "erase"
  BY DEF Above
<1>5. k + 1 \in 1..Len(todo) /\ 1 < k + 1 /\ todo[k + 1].op = "erase" /\ 1 \in 1..Len(todo)
  BY <1>2, <1>4
<1>6. Above(1) /\ Frame(1)
  BY <1>5 DEF Above, Framed
<1> QED
  BY <1>1, <1>3, <1>6, FramesCarried

LEMMA DoneFramed ==
  ASSUME TypeInv, ErasedSwept, Framed, Len(todo) \in Nat \ {0}, WellFormed(todo[1]),
         Ends \/ Used \/ CastEnds \/ EachEnds \/ SweepEnds \/ Leaves \/ Erases
  PROVE  Framed'
<1>1. Popped(todo', todo) /\ struck' = struck
  BY DEF Ends, Used, CastEnds, EachEnds, SweepEnds, Leaves, Erases, Quietly, history
<1>2. CASE Ends
  BY <1>1, <1>2, PopFramed DEF Ends, Frame, clients
<1>3. CASE Used \/ EachEnds
  <2>1. todo[1].op \in {"use", "channel", "each"}
    BY <1>3 DEF Used, EachEnds
  <2> QED
    BY <1>1, <2>1, PopFramed DEF Frame
<1>4. CASE CastEnds \/ SweepEnds \/ Leaves
  <2>1. todo[1].op \in {"cast", "sweep", "leave"}
    BY <1>4 DEF CastEnds, SweepEnds, Leaves
  <2>2. Frame(1) => todo[2].op # "cast"
    BY <2>1, 1 + 1 = 2 DEF Frame, Leave, Erase
  <2> QED
    BY <1>1, <2>2, PopFramed
<1>5. CASE Erases
  <2>1. todo[1].op = "erase" /\ member' = member /\ todo[1].who \in Fds
    BY <1>5 DEF Erases, WellFormed
  <2>2. \A n \in Names : todo[1].who \notin member[n]
    BY <2>1, ErasedIsOut
  <2>3. ASSUME Above(1), Frame(1), todo[2].op = "cast" PROVE todo[2].at \notin member[todo[2].chan] \cup {0}
    <3>1. todo[2].at = todo[1].who
      BY <2>1, <2>3, 1 + 1 = 2 DEF Frame
    <3>2. todo[2].chan \in Names
      <4>1. 2 \in 1..Len(todo)
        BY <2>3 DEF Above
      <4>2. todo[2] \in Instructions
        BY <4>1, ElementOfSeq DEF TypeInv
      <4> QED
        BY <2>3, <4>2, InstructionsWellFormed DEF WellFormed
    <3> QED
      BY <2>1, <2>2, <3>1, <3>2, Numbers
  <2> QED
    BY <1>1, <2>1, <2>3, PopFramed
<1> QED
  BY <1>2, <1>3, <1>4, <1>5

LEMMA ExecutesFramed ==
  ASSUME TypeInv, ErasedSwept, Framed, Executes, Len(todo) \in Nat \ {0}, WellFormed(todo[1])
  PROVE  Framed'
<1>1. CASE Dangles \/ Overflows
  BY <1>1, EmptySeq DEF Dangles, Overflows, Undefined, Framed
<1> QED
  BY <1>1, SendFramed, CastFramed, EachFramed, RemovesFramed, SweepFramed, DoneFramed
     DEF Executes

\* The client that is removed once too often and the one whose departure is
\* being announced to it are two that have failed, in a channel of both.
LEMMA OverflowsOnTwo ==
  ASSUME TypeInv, Framed, Overflows, Len(todo) \in Nat \ {0}, WellFormed(todo[1])
  PROVE  \E n \in Names : \E f, g \in struck : f # g /\ {f, g} \subseteq member[n]
<1>1. todo[1].op = "remove" /\ todo[1].who \in Fds
      /\ ~(Cardinality(Pending(todo[1].who)) < MaxDepth)
  BY DEF Overflows, WellFormed
<1>2. PICK k \in 1..Len(todo) : todo[k] = Erase(todo[1].who)
  <2>1. Pending(todo[1].who) # {}
    <3>1. SUFFICES ASSUME Pending(todo[1].who) = {} PROVE FALSE
      OBVIOUS
    <3>2. Cardinality(Pending(todo[1].who)) = 0
      BY <3>1, FS_EmptySet
    <3> QED
      BY <1>1, <3>2, SendingAssumption
  <2> QED
    BY <2>1, LenProperties DEF Pending, TypeInv
<1>3. todo[k].op = "erase" /\ todo[k].who = todo[1].who
  BY <1>2 DEF Erase
<1>4. k # 1
  BY <1>1, <1>3
<1>5. Above(1) /\ Frame(1)
  BY <1>3, <1>4, 1 \in 1..Len(todo) DEF Above, Framed
<1>6. PICK f, g, n : f = todo[1].who /\ g = todo[2].but /\ n = todo[2].chan
  OBVIOUS
<1>7. /\ f \in struck /\ todo[2].op = "cast" /\ todo[2].at = f /\ f # g
      /\ {f, g} \subseteq member[n]
  BY <1>1, <1>5, <1>6 DEF Frame
<1>8. k # 2
  BY <1>3, <1>7
<1>9. Frame(2) /\ 2 \in 1..Len(todo)
  BY <1>3, <1>4, <1>8 DEF Above, Framed
<1>10. todo[3].op = "leave" /\ todo[3].who = g
  BY <1>6, <1>7, <1>9, 2 + 1 = 3 DEF Frame, Leave
<1>11. k # 3
  BY <1>3, <1>10
<1>12. Frame(3)
  BY <1>3, <1>4, <1>8, <1>11 DEF Above, Framed
<1>13. todo[4].op = "sweep" /\ todo[4].who = g
  BY <1>10, <1>12, 3 + 1 = 4 DEF Frame
<1>14. k # 4
  BY <1>3, <1>13
<1>15. Frame(4)
  BY <1>3, <1>4, <1>8, <1>11, <1>14 DEF Above, Framed
<1>16. todo[5].op = "erase" /\ todo[5].who = g
  BY <1>13, <1>15, 4 + 1 = 5 DEF Frame, Erase
<1>17. k # 5
  BY <1>3, <1>6, <1>7, <1>16
<1>18. Frame(5)
  BY <1>3, <1>4, <1>8, <1>11, <1>14, <1>17 DEF Above, Framed
<1>19. g \in struck
  BY <1>16, <1>18 DEF Frame
<1>20. n \in Names
  <2>1. todo[2] \in Instructions
    BY <1>9, ElementOfSeq DEF TypeInv
  <2> QED
    BY <1>6, <1>7, <2>1, InstructionsWellFormed DEF WellFormed
<1> QED
  BY <1>7, <1>19, <1>20

LEMMA OverflowInitially == Init => OverflowInv
<1> SUFFICES ASSUME Init PROVE OverflowInv
  OBVIOUS
<1>1. Len(todo) = 0 /\ fault = "none"
  BY EmptySeq DEF Init
<1>2. Framed /\ OverflowNeedsTwo
  BY <1>1 DEF Framed, OverflowNeedsTwo
<1> QED
  BY <1>2, MembersInitially DEF OverflowInv

LEMMA OverflowNext == OverflowInv /\ [Next]_vars => OverflowInv'
<1> SUFFICES ASSUME OverflowInv, [Next]_vars PROVE OverflowInv'
  OBVIOUS
<1>1. TypeInv /\ ErasedSwept /\ MembersInv /\ Framed /\ OverflowNeedsTwo
  BY DEF OverflowInv, MembersInv
<1>2. SUFFICES Framed' /\ OverflowNeedsTwo'
  BY <1>1, MembersNext DEF OverflowInv
<1>3. CASE UNCHANGED vars \/ Connects \/ Breaks
  <2>1. UNCHANGED <<todo, member, fault, struck>>
    BY <1>3 DEF vars, clients, history, Connects, Connect, Breaks, Break
  <2> QED
    BY <1>1, <2>1 DEF Framed, Above, Frame, OverflowNeedsTwo
<1>4. CASE Begins
  <2>1. \A k \in 1..Len(todo') : todo'[k].op # "erase"
    <3>1. ASSUME NEW k \in 1..Len(todo') PROVE todo'[k].op # "erase"
      BY <1>4 DEF Begins, Fresh, Parts, Invites
    <3> QED
      BY <3>1
  <2> QED
    BY <1>4, <2>1 DEF Begins, Framed, Above, OverflowNeedsTwo
<1>5. CASE /\ Running /\ Executes /\ todo' \in Seq(Instructions)
           /\ Len(todo) \in Nat \ {0} /\ WellFormed(todo[1])
  <2>1. Framed'
    BY <1>1, <1>5, ExecutesFramed
  <2>2. CASE Overflows
    <3>1. UNCHANGED <<member, struck>>
      BY <2>2 DEF Overflows, Undefined, clients, history
    <3> QED
      BY <1>1, <1>5, <2>1, <2>2, <3>1, OverflowsOnTwo DEF OverflowNeedsTwo
  <2>3. CASE ~Overflows
    <3>1. fault' # "overflow"
      BY <1>5, <2>3 DEF Running, Executes, Fails, Ends, Continues, Used, CastEnds, CastSends,
         EachEnds, EachSends, Removes, SweepEnds, SweepLeaves, Leaves, Erases, Dangles,
         Undefined, Quietly
    <3> QED
      BY <2>1, <3>1, SMTT(60) DEF OverflowNeedsTwo
  <2> QED
    BY <2>2, <2>3
<1> QED
  BY <1>1, <1>3, <1>4, <1>5, NextForms

\* The recursion of sendToClient and removeClient exhausts the stack only where
\* two broken clients share a channel, however little stack there is and however
\* many clients and channels there are: one broken client never suffices
\* (OverflowNeedsTwo).
THEOREM OverflowTakesTwo == Spec => []OverflowNeedsTwo
<1>1. Spec => []OverflowInv
  BY OverflowInitially, OverflowNext, PTL DEF Spec
<1>2. OverflowInv => OverflowNeedsTwo
  BY DEF OverflowInv
<1> QED
  BY <1>1, <1>2, PTL

-----------------------------------------------------------------------------
(* One failure does no harm behind which nothing is used *)

\* Nothing has failed, or one client in a handler that sends one message.
Contained ==
  \/ struck = {}
  \/ kind \in {"reply", "private"} /\ \A f, g \in struck : f = g

\* The instruction at j finds what it refers to.  An iterator stands on an
\* element while a send is in front only, a channel is used behind replies; removals
\* are the last thing a handler does; once a client has failed, all that is left is its removal.
Sound(j) ==
  /\ todo[j].op \in {"send", "use"} => todo[j].to \in live \ struck
  /\ todo[j].op = "channel" =>
       /\ member[todo[j].chan] # {}
       /\ \A i \in 1..j - 1 : todo[i].op \in {"send", "use"}
  /\ todo[j].op \in {"cast", "each"} /\ todo[j].at # 0 =>
       /\ j <= 2 /\ (j = 2 => todo[1].op = "send")
       /\ todo[j].op = "cast" => todo[j].at \in member[todo[j].chan]
       /\ todo[j].op = "each" => todo[j].at \in live
  /\ todo[j].op \in {"remove", "erase"} => j = Len(todo) /\ todo[j].who \in live
  /\ struck # {} =>
       /\ todo[j].op \notin {"use", "channel", "each"}
       /\ todo[j].op = "cast" => todo[j].but \in struck
       /\ todo[j].op \in {"leave", "sweep", "remove", "erase"} => todo[j].who \in struck
  /\ kind \in {"reply", "private"} /\ struck = {} => todo[j].op = "send" /\ Len(todo) = 1

AllSound == \A j \in 1..Len(todo) : Sound(j)

ContainedInv == MembersInv /\ (Contained => fault = "none" /\ AllSound)

\* Behind the c + 1 instructions in the place of the first.
LEMMA SoundCarried ==
  ASSUME AllSound, Len(todo) \in Nat \ {0}, NEW c \in Int, c >= -1, Shifted(todo', todo, c),
         live' = live, struck' = struck, kind' = kind,
         todo[1].op \in {"send", "use"} =>
           member' = member /\ (c = -1 \/ (c = 0 /\ todo'[1].op = "send")),
         NEW j \in c + 2..Len(todo')
  PROVE  Sound(j)'
<1>1. Len(todo') = Len(todo) + c /\ \A k \in c + 2..Len(todo') : todo'[k] = todo[k - c]
  BY DEF Shifted
<1>2. PICK i \in 2..Len(todo) : i = j - c
  BY <1>1
<1>3. todo'[j] = todo[i] /\ (i = Len(todo) <=> j = Len(todo'))
  BY <1>1, <1>2
<1>4. Sound(i)
  BY <1>2 DEF AllSound
<1>5. ~(kind \in {"reply", "private"} /\ struck = {})
  BY <1>2, <1>4 DEF Sound
<1>6. CASE todo[i].op \in {"cast", "each"} /\ todo[i].at # 0
  <2>1. i = 2 /\ todo[1].op = "send"
    BY <1>2, <1>4, <1>6 DEF Sound
  <2>2. j <= 2 /\ (j = 2 => todo'[1].op = "send") /\ member' = member
    BY <1>2, <2>1
  <2> QED
    BY <1>3, <1>4, <1>5, <2>2 DEF Sound
<1>7. CASE todo[i].op = "channel"
  <2>1. /\ todo[1].op \in {"send", "use"} /\ member[todo[i].chan] # {}
        /\ \A h \in 1..i - 1 : todo[h].op \in {"send", "use"}
    BY <1>2, <1>4, <1>7 DEF Sound
  <2>2. member' = member /\ (c = -1 \/ (c = 0 /\ todo'[1].op = "send"))
    BY <2>1
  <2>3. ASSUME NEW h \in 1..j - 1 PROVE todo'[h].op \in {"send", "use"}
    <3>1. CASE h >= c + 2
      <4>1. h \in c + 2..Len(todo') /\ h - c \in 1..i - 1
        BY <1>2, <2>2, <3>1
      <4> QED
        BY <1>1, <2>1, <4>1
    <3>2. CASE ~(h >= c + 2)
      BY <2>2, <3>2
    <3> QED
      BY <3>1, <3>2
  <2> QED
    BY <1>3, <1>4, <1>5, <1>7, <2>1, <2>2, <2>3 DEF Sound
<1>8. CASE ~(todo[i].op \in {"cast", "each"} /\ todo[i].at # 0) /\ todo[i].op # "channel"
  BY <1>3, <1>4, <1>5, <1>8 DEF Sound
<1> QED
  BY <1>6, <1>7, <1>8

LEMMA PushesSound ==
  ASSUME AllSound, Len(todo) \in Nat \ {0}, NEW c \in Int, c >= -1, Shifted(todo', todo, c),
         live' = live, struck' = struck, kind' = kind,
         todo[1].op \in {"send", "use"} =>
           member' = member /\ (c = -1 \/ (c = 0 /\ todo'[1].op = "send")),
         \A j \in 1..c + 1 : Sound(j)'
  PROVE  AllSound'
<1> SUFFICES ASSUME NEW j \in 1..Len(todo') PROVE Sound(j)'
  BY DEF AllSound
<1>1. CASE j \in 1..c + 1
  BY <1>1
<1>2. CASE j \notin 1..c + 1
  <2>1. j \in c + 2..Len(todo')
    BY <1>2
  <2> QED
    BY <2>1, SoundCarried
<1> QED
  BY <1>1, <1>2

\* The send that fails is the only one of its handler: what is left is the
\* removal.
LEMMA FailsSound ==
  ASSUME TypeInv, AllSound, Len(todo) \in Nat \ {0}, Fails, Contained'
  PROVE  AllSound'
<1>1. /\ todo[1].op = "send" /\ todo[1].to \in live
      /\ todo'[1] = Remove(todo[1].to) /\ Shifted(todo', todo, 0)
      /\ struck' = struck \cup {todo[1].to} /\ live' = live /\ kind' = kind
  BY DEF Fails, clients
<1>2. 1 \in 1..Len(todo) /\ Sound(1)
  BY DEF AllSound
<1>3. todo[1].to \notin struck
  BY <1>1, <1>2 DEF Sound
<1>4. kind \in {"reply", "private"} /\ \A f \in struck : f = todo[1].to
  BY <1>1 DEF Contained
<1>5. struck = {}
  BY <1>3, <1>4
<1>6. Len(todo) = 1
  BY <1>2, <1>4, <1>5 DEF Sound
<1>7. Len(todo') = 1
  BY <1>1, <1>6 DEF Shifted
<1>8. Sound(1)'
  BY <1>1, <1>7 DEF Sound, Remove
<1> QED
  BY <1>7, <1>8 DEF AllSound

LEMMA PopsSound ==
  ASSUME AllSound, Len(todo) \in Nat \ {0}, Popped(todo', todo),
         live' = live, struck' = struck, kind' = kind,
         todo[1].op \in {"send", "use"} => member' = member
  PROVE  AllSound'
<1>1. Shifted(todo', todo, -1) /\ -1 \in Int /\ -1 >= -1 /\ \A j \in 1..-1 + 1 : FALSE
  BY PoppedShifts
<1> QED
  BY <1>1, PushesSound

LEMMA ContinuesSound ==
  ASSUME AllSound, Len(todo) \in Nat \ {0}, Continues
  PROVE  AllSound'
<1>1. /\ todo[1].op = "send" /\ Shifted(todo', todo, 0)
      /\ todo'[1] = SendMore(todo[1].to, todo[1].news, todo[1].writes + 1)
      /\ struck' = struck /\ live' = live /\ kind' = kind /\ member' = member
  BY DEF Continues, Quietly, clients, history
<1>2. 1 \in 1..Len(todo) /\ Sound(1)
  BY DEF AllSound
<1>3. Len(todo') = Len(todo)
  BY <1>1 DEF Shifted
<1>4. Sound(1)' /\ todo'[1].op = "send"
  BY <1>1, <1>2, <1>3 DEF Sound, SendMore
<1>5. \A j \in 1..0 + 1 : j = 1
  OBVIOUS
<1> QED
  BY <1>1, <1>4, <1>5, PushesSound, 0 \in Int, 0 >= -1

LEMMA CastSound ==
  ASSUME TypeInv, NoStaleMembers, fault = "none", AllSound, Contained, WellFormed(todo[1]),
         Len(todo) \in Nat \ {0}, NEW c \in Fds, CastSends(c)
  PROVE  AllSound'
<1>1. /\ todo[1].op = "cast" /\ Shifted(todo', todo, 1)
      /\ struck' = struck /\ live' = live /\ kind' = kind /\ member' = member
      /\ c \in member[todo[1].chan] /\ c # todo[1].but
      /\ todo'[1] = SendMore(c, todo[1].news, 0)
      /\ todo'[2] = CastFrom(todo[1].chan, todo[1].but, todo[1].news, c)
  BY DEF CastSends, Quietly, clients, history
<1>2. 1 \in 1..Len(todo) /\ Sound(1)
  BY DEF AllSound
<1>3. c \in live
  BY <1>1 DEF NoStaleMembers, WellFormed
<1>4. c \notin struck
  BY <1>1, <1>2 DEF Sound, Contained
<1>5. ~(kind \in {"reply", "private"} /\ struck = {})
  BY <1>1, <1>2 DEF Sound
<1>6. Sound(1)'
  BY <1>1, <1>3, <1>4, <1>5 DEF Sound, SendMore
<1>7. Sound(2)'
  BY <1>1, <1>2, <1>5 DEF Sound, SendMore, CastFrom
<1>8. \A j \in 1..1 + 1 : j = 1 \/ j = 2
  OBVIOUS
<1> QED
  BY <1>1, <1>6, <1>7, <1>8, PushesSound, 1 \in Int, 1 >= -1

LEMMA EachSound ==
  ASSUME AllSound, Len(todo) \in Nat \ {0}, NEW c \in Fds, EachSends(c)
  PROVE  AllSound'
<1>1. /\ todo[1].op = "each" /\ Shifted(todo', todo, 1) /\ c \in live
      /\ struck' = struck /\ live' = live /\ kind' = kind /\ member' = member
      /\ todo'[1] = Send(c) /\ todo'[2] = EachFrom(c)
  BY DEF EachSends, Quietly, clients, history
<1>2. 1 \in 1..Len(todo) /\ Sound(1)
  BY DEF AllSound
<1>3. struck = {} /\ kind \notin {"reply", "private"}
  BY <1>1, <1>2 DEF Sound
<1>4. Sound(1)'
  BY <1>1, <1>3 DEF Sound, Send, SendMore
<1>5. Sound(2)'
  BY <1>1, <1>3 DEF Sound, Send, SendMore, EachFrom
<1>6. \A j \in 1..1 + 1 : j = 1 \/ j = 2
  OBVIOUS
<1> QED
  BY <1>1, <1>4, <1>5, <1>6, PushesSound, 1 \in Int, 1 >= -1

LEMMA RemovesSound ==
  ASSUME AllSound, Len(todo) \in Nat \ {0}, Removes
  PROVE  AllSound'
<1>1. /\ todo[1].op = "remove" /\ Shifted(todo', todo, 1)
      /\ struck' = struck /\ live' = live /\ kind' = kind /\ member' = member
      /\ todo'[1] = SweepFrom(todo[1].who, 1, 0) /\ todo'[2] = Erase(todo[1].who)
  BY DEF Removes, Quietly, clients, history
<1>2. 1 \in 1..Len(todo) /\ Sound(1)
  BY DEF AllSound
<1>3. /\ 1 = Len(todo) /\ todo[1].who \in live
      /\ (struck # {} => todo[1].who \in struck)
      /\ ~(kind \in {"reply", "private"} /\ struck = {})
  BY <1>1, <1>2 DEF Sound
<1>4. Len(todo') = 2
  <2>1. Len(todo) = 1
    BY <1>3
  <2>2. Len(todo') = Len(todo) + 1
    BY <1>1 DEF Shifted
  <2> QED
    BY <2>1, <2>2
<1>5. Sound(1)'
  BY <1>1, <1>3 DEF Sound, SweepFrom
<1>6. Sound(2)'
  BY <1>1, <1>3, <1>4 DEF Sound, Erase
<1>7. \A j \in 1..1 + 1 : j = 1 \/ j = 2
  OBVIOUS
<1> QED
  BY <1>1, <1>5, <1>6, <1>7, PushesSound, 1 \in Int, 1 >= -1

LEMMA SweepSound ==
  ASSUME AllSound, Len(todo) \in Nat \ {0}, NEW n \in Names, NEW c \in {0, 1}, SweepLeaves(n, c)
  PROVE  AllSound'
<1>0. PICK f : f = todo[1].who
  OBVIOUS
<1>1. /\ todo[1].op = "sweep" /\ Shifted(todo', todo, 2 + c)
      /\ struck' = struck /\ live' = live /\ kind' = kind /\ member' = member
      /\ todo'[1] = CastFrom(n, f, Departs(f, n), 0)
      /\ (c = 1 => todo'[2] = Broadcast(n, f))
      /\ todo'[2 + c] = Leave(f, n)
      /\ todo'[3 + c] = SweepFrom(f, n + 1, c)
  BY <1>0 DEF SweepLeaves, Quietly, clients, history
<1>2. 1 \in 1..Len(todo) /\ Sound(1)
  BY DEF AllSound
<1>3. (struck # {} => f \in struck) /\ ~(kind \in {"reply", "private"} /\ struck = {})
  BY <1>0, <1>1, <1>2 DEF Sound
<1>4. Sound(1)'
  BY <1>1, <1>3 DEF Sound, CastFrom
<1>5. c = 1 => Sound(2)'
  BY <1>1, <1>3 DEF Sound, CastFrom, Broadcast
<1>6. Sound(2 + c)'
  BY <1>1, <1>3 DEF Sound, Leave
<1>7. Sound(3 + c)'
  BY <1>1, <1>3 DEF Sound, SweepFrom
<1>8. \A j \in 1..(2 + c) + 1 : j = 1 \/ (j = 2 /\ c = 1) \/ j = 2 + c \/ j = 3 + c
  OBVIOUS
<1>9. \A j \in 1..(2 + c) + 1 : Sound(j)'
  BY <1>4, <1>5, <1>6, <1>7, <1>8
<1> QED
  BY <1>1, <1>9, PushesSound, 2 + c \in Int, 2 + c >= -1

LEMMA ExecutesSound ==
  ASSUME ContainedInv, Running, Executes, Contained',
         Len(todo) \in Nat \ {0}, WellFormed(todo[1])
  PROVE  fault' = "none" /\ AllSound'
<1>1. Contained /\ TypeInv /\ NoStaleMembers /\ fault = "none" /\ AllSound
  <2>1. \/ struck' = struck
        \/ struck' = struck \cup {todo[1].to}
    BY SMTT(60) DEF Executes, Fails, Ends, Continues, Used, CastEnds, CastSends, EachEnds, EachSends,
       Removes, SweepEnds, SweepLeaves, Leaves, Erases, Dangles, Overflows, Undefined, Quietly,
       history
  <2>2. kind' = kind
    BY DEF Executes, Fails, Ends, Continues, Used, CastEnds, CastSends, EachEnds, EachSends,
       Removes, SweepEnds, SweepLeaves, Leaves, Erases, Dangles, Overflows, Undefined, Quietly,
       history
  <2>3. Contained
    BY <2>1, <2>2 DEF Contained
  <2> QED
    BY <2>3, SMTT(60) DEF ContainedInv, MembersInv, Running
<1>2. 1 \in 1..Len(todo) /\ Sound(1)
  BY <1>1 DEF AllSound
<1>3. ~Dangles
  BY <1>2 DEF Dangles, Sound
<1>4. ~Overflows
  <2>1. SUFFICES ASSUME Overflows PROVE FALSE
    OBVIOUS
  <2>2. todo[1].op = "remove" /\ 1 = Len(todo)
    BY <1>2, <2>1 DEF Overflows, Sound
  <2>3. Pending(todo[1].who) = {}
    <3>1. SUFFICES ASSUME NEW k \in DOMAIN todo, todo[k] = Erase(todo[1].who) PROVE FALSE
      BY DEF Pending
    <3>2. k \in 1..Len(todo)
      BY <1>1, LenProperties DEF TypeInv
    <3>3. k = 1
      BY <2>2, <3>2
    <3> QED
      BY <2>2, <3>1, <3>3 DEF Erase
  <2>4. Cardinality(Pending(todo[1].who)) = 0
    BY <2>3, FS_EmptySet, SMTT(60)
  <2> QED
    BY <2>1, <2>4, SendingAssumption DEF Overflows
<1>5. fault' = "none"
  BY <1>1, <1>3, <1>4 DEF Executes, Fails, Ends, Continues, Used, CastEnds, CastSends,
     EachEnds, EachSends, Removes, SweepEnds, SweepLeaves, Leaves, Erases, Quietly
<1>6. CASE Fails
  BY <1>1, <1>5, <1>6, FailsSound
<1>7. CASE Continues
  BY <1>1, <1>5, <1>7, ContinuesSound
<1>8. CASE Ends \/ Used \/ CastEnds \/ EachEnds \/ SweepEnds
  <2>1. /\ Popped(todo', todo) /\ UNCHANGED <<live, struck, kind, member>>
    BY <1>8 DEF Ends, Used, CastEnds, EachEnds, SweepEnds, Quietly, clients, history
  <2> QED
    BY <1>1, <1>5, <2>1, PopsSound
<1>9. CASE Leaves
  <2>1. /\ todo[1].op \notin {"send", "use"} /\ Popped(todo', todo)
        /\ UNCHANGED <<live, struck, kind>>
    BY <1>9 DEF Leaves, history
  <2> QED
    BY <1>1, <1>5, <2>1, PopsSound
<1>10. CASE Erases
  <2>1. todo[1].op = "erase" /\ Len(todo') = Len(todo) - 1
    BY <1>10 DEF Erases, Popped
  <2>2. Len(todo) = 1
    BY <1>2, <2>1 DEF Sound
  <2>3. Len(todo') = 0
    BY <2>1, <2>2
  <2> QED
    BY <1>5, <2>3 DEF AllSound
<1>11. ASSUME NEW c \in Fds, CastSends(c) PROVE AllSound'
  BY <1>1, <1>11, CastSound
<1>12. ASSUME NEW c \in Fds, EachSends(c) PROVE AllSound'
  BY <1>1, <1>12, EachSound
<1>13. CASE Removes
  BY <1>1, <1>5, <1>13, RemovesSound
<1>14. ASSUME NEW n \in Names, NEW c \in {0, 1}, SweepLeaves(n, c) PROVE AllSound'
  BY <1>1, <1>14, SweepSound
<1> QED
  BY <1>3, <1>4, <1>5, <1>6, <1>7, <1>8, <1>9, <1>10, <1>11, <1>12, <1>13, <1>14 DEF Executes

LEMMA BeginsSound ==
  ASSUME Begins
  PROVE  AllSound'
<1> SUFFICES ASSUME NEW j \in 1..Len(todo') PROVE Sound(j)'
  BY DEF AllSound
<1>1. live' = live /\ struck' = {}
  BY DEF Begins
<1>2. kind' \in {"reply", "private"} => todo'[j].op = "send" /\ Len(todo') = 1
  <2>1. SUFFICES ASSUME kind' \in {"reply", "private"}
                 PROVE  todo'[j].op = "send" /\ Len(todo') = 1
    OBVIOUS
  <2>2. Len(todo') = 1 /\ todo'[1].op = "send"
    BY <2>1 DEF Begins
  <2>3. j = 1
    BY <2>2
  <2> QED
    BY <2>2, <2>3
<1>3. CASE Fresh(todo'[j], j = Len(todo'))
  BY <1>1, <1>2, <1>3 DEF Sound, Fresh
<1>4. CASE Parts(todo') /\ j = 3
  BY <1>1, <1>2, <1>4 DEF Sound, Parts
<1>5. CASE Invites(todo') /\ member' = member /\ j = 5
  BY <1>1, <1>2, <1>5 DEF Sound, Invites
<1> QED
  BY <1>3, <1>4, <1>5 DEF Begins

LEMMA ContainedInitially == Init => ContainedInv
<1> SUFFICES ASSUME Init PROVE ContainedInv
  OBVIOUS
<1>1. Len(todo) = 0 /\ fault = "none"
  BY EmptySeq DEF Init
<1>2. AllSound
  BY <1>1 DEF AllSound
<1> QED
  BY <1>1, <1>2, MembersInitially DEF ContainedInv

LEMMA ContainedNext == ContainedInv /\ [Next]_vars => ContainedInv'
<1> SUFFICES ASSUME ContainedInv, [Next]_vars PROVE ContainedInv'
  OBVIOUS
<1>1. TypeInv /\ MembersInv
  BY DEF ContainedInv, MembersInv
<1>2. SUFFICES ASSUME Contained' PROVE fault' = "none" /\ AllSound'
  BY <1>1, MembersNext DEF ContainedInv
<1>3. CASE UNCHANGED vars \/ Breaks
  <2>1. UNCHANGED <<todo, member, live, fault, struck, kind>>
    BY <1>3 DEF vars, clients, history, Breaks, Break
  <2> QED
    BY <1>2, <2>1 DEF ContainedInv, Contained, AllSound, Sound
<1>4. CASE Connects
  <2>1. Len(todo') = 0 /\ fault' = "none"
    BY <1>4, EmptySeq DEF Connects, Connect, Idle
  <2> QED
    BY <2>1 DEF AllSound
<1>5. CASE Begins
  BY <1>5, BeginsSound DEF Begins
<1>6. CASE /\ Running /\ Executes /\ todo' \in Seq(Instructions)
           /\ Len(todo) \in Nat \ {0} /\ WellFormed(todo[1])
  BY <1>2, <1>6, ExecutesSound
<1> QED
  BY <1>1, <1>3, <1>4, <1>5, <1>6, NextForms

\* Nothing that is gone is used, and the stack is not exhausted, unless a send
\* has failed; and where a handler sends one message, an error, a reply or a
\* PRIVMSG to one client, two clients must fail (LoneFailureContained).
THEOREM LoneFailuresContained == Spec => []LoneFailureContained
<1>1. Spec => []ContainedInv
  BY ContainedInitially, ContainedNext, PTL DEF Spec
<1>2. ContainedInv => LoneFailureContained
  <2> SUFFICES ASSUME ContainedInv, fault # "none"
               PROVE  /\ struck # {}
                      /\ kind \in {"reply", "private"} => Cardinality(struck) > 1
    BY DEF LoneFailureContained
  <2>1. ~Contained
    BY DEF ContainedInv
  <2>2. struck # {}
    BY <2>1 DEF Contained
  <2>3. ASSUME kind \in {"reply", "private"} PROVE Cardinality(struck) > 1
    <3>1. PICK f \in struck, g \in struck : f # g
      BY <2>1, <2>3 DEF Contained
    <3>2. IsFiniteSet(struck)
      BY SendingAssumption, FS_Subset DEF ContainedInv, MembersInv, TypeInv, SendingTypeOK
    <3>3. IsFiniteSet({f}) /\ Cardinality({f}) = 1
      BY FS_Singleton
    <3>4. Cardinality({f} \cup {g}) = Cardinality({f}) + 1
      BY <3>1, <3>3, FS_AddElement
    <3>5. {f} \cup {g} \subseteq struck
      BY <3>1
    <3>6. Cardinality({f} \cup {g}) <= Cardinality(struck)
      BY <3>2, <3>5, FS_Subset
    <3>7. Cardinality(struck) \in Nat
      BY <3>2, FS_CardinalityType
    <3> QED
      BY <3>3, <3>4, <3>6, <3>7
  <2> QED
    BY <2>2, <2>3
<1> QED
  BY <1>1, <1>2, PTL
=============================================================================
