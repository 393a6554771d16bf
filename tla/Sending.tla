------------------------------- MODULE Sending -------------------------------
(***************************************************************************)
(* What a failing send does: sendToClient removes the client, from within  *)
(* whatever was sending to it, and the removal sends in turn.  A handler   *)
(* is the list of what it still has to do; a call puts what the callee     *)
(* does in front, so that the list is the call stack laid flat.            *)
(*                                                                         *)
(* Sends, the loops around them and the objects they refer to are kept;    *)
(* what a handler checks before it sends, its replies' contents and the    *)
(* rights of operators are left to IrcServer.  Using an erased client or   *)
(* map element is undefined behaviour: `fault' says so and the model stops *)
(* there (the program then crashes or goes on with what the memory holds). *)
(***************************************************************************)
EXTENDS Naturals, FiniteSets, Sequences, FiniteSetsExt

CONSTANTS
  Fds,       \* descriptors of clients, numbers
  MaxName,   \* the channels are 1..MaxName, in the order of _channels
  MaxDepth,  \* bound: removals of one client that may be under way at once,
             \* the stack of the program
  Writes     \* bound: the calls of send() one message takes at most

ASSUME SendingAssumption ==
  /\ Fds \subseteq Nat \ {0} /\ IsFiniteSet(Fds)
  /\ MaxName \in Nat /\ MaxDepth \in Nat \ {0} /\ Writes \in Nat \ {0}

Names == 1..MaxName

VARIABLES
  live,    \* the keys of _db_clients
  polled,  \* the clients with an entry in _pollfds
  member,  \* member[n]: the keys of the _clients of channel n
  broken,  \* the clients on whom send() fails with EPIPE or ECONNRESET
  todo,    \* what the handler under way still has to do, <<>> between handlers
  kind,    \* the handler under way, or the last one
  fault,   \* "none", "dangling": an erased object was used, or "overflow"
  struck,  \* the clients a send of this handler has failed on
  before,  \* member when the handler began
  heard    \* <<g, f, n>> once this handler has sent g, to its end or as far as
           \* its connection takes it, that f departs from channel n

clients == <<live, polled, member>>
history == <<kind, struck, before>>
vars == <<clients, broken, todo, fault, history, heard>>

Kinds == {"none", "reply", "replies", "private", "relay", "everyone", "part",
          "kick", "invite", "nick", "quit", "pass", "hangup"}

SendingTypeOK ==
  /\ live \subseteq Fds /\ polled \subseteq Fds /\ broken \subseteq live
  /\ {member, before} \subseteq [Names -> SUBSET Fds]
  /\ kind \in Kinds /\ fault \in {"none", "dangling", "overflow"}
  /\ struck \subseteq Fds
  /\ heard \subseteq Fds \X Fds \X Names

Init ==
  /\ live = {} /\ polled = {} /\ member = [n \in Names |-> {}] /\ broken = {}
  /\ todo = <<>> /\ kind = "none" /\ fault = "none"
  /\ struck = {} /\ before = member /\ heard = {}

-----------------------------------------------------------------------------
(***************************************************************************)
(* What a handler does, one instruction after the other.                   *)
(***************************************************************************)
NoNews == <<0, 0>>   \* a message that announces no departure

\* Mutant of Departs: the channel for the client.
DepartsSwapped(f, n) == <<n, f>>

\* The announcement that client f departs from channel n.
Departs(f, n) == <<f, n>>

\* sendToClient(g, ...), of which w calls of send() have been made.
SendMore(g, news, w) == [op |-> "send", to |-> g, news |-> news, writes |-> w]
Send(g) == SendMore(g, NoNews, 0)

\* A reference to client g is used.
Use(g) == [op |-> "use", to |-> g]

\* A reference to channel n is used, which had a member when it was taken: the
\* last member to be removed takes the channel with it.
UseChannel(n) == [op |-> "channel", chan |-> n]

\* The loop of broadcast over the members of n but x, which is at p.
CastFrom(n, x, news, p) ==
  [op |-> "cast", chan |-> n, but |-> x, news |-> news, at |-> p]
Nobody == 0
Broadcast(n, x) == CastFrom(n, x, NoNews, 0)

\* The loop of handleNICK over _db_clients, which is at p.
EachFrom(p) == [op |-> "each", at |-> p]

\* Channel::removeClient, then the channel is erased if it is empty.
Leave(f, n) == [op |-> "leave", who |-> f, chan |-> n]

\* The loop of removeClientFromAllChannels, which is at channel n.
SweepFrom(f, n, notices) == [op |-> "sweep", who |-> f, at |-> n, notices |-> notices]

\* _db_clients.erase, _pollfds.erase and close.
Erase(f) == [op |-> "erase", who |-> f]

\* removeClient is called.
Remove(f) == [op |-> "remove", who |-> f]

\* Mutant of removeClient: the client is erased before its channels are left.
removeClientLate(f) == <<Erase(f), SweepFrom(f, 1, 0)>>

removeClient(f) == <<SweepFrom(f, 1, 0), Erase(f)>>

-----------------------------------------------------------------------------
(***************************************************************************)
(* Between handlers: a client connects, or one is served.                  *)
(***************************************************************************)
Idle == todo = <<>> /\ fault = "none"

Connect(f) ==
  /\ Idle /\ f \in Fds \ live
  /\ live' = live \cup {f} /\ polled' = polled \cup {f}
  /\ UNCHANGED <<member, broken, todo, fault, history, heard>>

Handler(name, mem, does) ==
  /\ Idle
  /\ kind' = name /\ todo' = does /\ member' = mem
  /\ before' = member /\ struck' = {} /\ heard' = {}
  /\ UNCHANGED <<live, polled, broken, fault>>

\* One reply: the errors, PING, the answers of TOPIC and MODE.
Reply(f) == Handler("reply", member, <<Send(f)>>)

\* Several replies to one client: the welcome, whose `nick' refers into the
\* client, PASS, the items of JOIN and PART that are refused.
Replies(f) == Handler("replies", member, <<Send(f), Use(f), Send(f)>>)

\* PRIVMSG and NOTICE to a client.
Private(g) == Handler("private", member, <<Send(g)>>)

\* PRIVMSG and NOTICE to channel n; NOTICE may come from outside.
Relay(f, n) == Handler("relay", member, <<Broadcast(n, f)>>)

\* TOPIC.
TOPIC(f, n) ==
  /\ f \in member[n]
  /\ Handler("everyone", member, <<Broadcast(n, Nobody)>>)

\* JOIN, as the last channel of its list or with another one to come.
JOIN(f, n) ==
  /\ f \notin member[n]
  /\ \E next \in {<<>>, <<Use(f)>>} :
       Handler("everyone", [member EXCEPT ![n] = @ \cup {f}],
               <<Broadcast(n, Nobody)>> \o next)

PART(f, n) ==
  /\ f \in member[n]
  /\ Handler("part", member,
             <<CastFrom(n, f, Departs(f, n), 0), Use(f), Leave(f, n)>>)

KICK(f, g, n) ==
  /\ {f, g} \subseteq member[n]
  /\ Handler("kick", [member EXCEPT ![n] = @ \ {g}],
             <<CastFrom(n, Nobody, Departs(g, n), 0)>>)

\* Both replies name the client invited; at the end the channel, found before
\* them, authorises it.
INVITE(f, g, n) ==
  /\ f \in member[n] /\ g \notin member[n]
  /\ Handler("invite", member,
             <<Send(g), Use(g), Send(f), Use(g), UseChannel(n)>>)

NICK(f) == Handler("nick", member, <<EachFrom(0), Use(f)>>)

\* The sweep with notice uses the client at each of its channels.
QUIT(f) ==
  Handler("quit", member, <<SweepFrom(f, 1, 1), Use(f), Remove(f)>>)

\* PASS with the wrong password.
WrongPASS(f) ==
  Handler("pass", member, <<Send(f), Use(f), Remove(f)>>)

\* POLLHUP, a failed recv(), end of file, QUIT before registration.
HangUp(f) == Handler("hangup", member, <<Remove(f)>>)

Serve(f) ==
  \/ Reply(f) \/ Replies(f) \/ NICK(f) \/ QUIT(f) \/ WrongPASS(f) \/ HangUp(f)
  \/ \E g \in live : Private(g)
  \/ \E n \in Names :
       \/ Relay(f, n) \/ TOPIC(f, n) \/ JOIN(f, n) \/ PART(f, n)
       \/ \E g \in live : KICK(f, g, n) \/ INVITE(f, g, n)

-----------------------------------------------------------------------------
(***************************************************************************)
(* The instruction in front is executed.                                   *)
(***************************************************************************)
Running == todo # <<>> /\ fault = "none"
this == Head(todo)
rest == Tail(todo)

Undefined(what) ==
  /\ fault' = what
  /\ todo' = <<>> /\ heard' = {}
  /\ UNCHANGED <<clients, broken, history>>

Becomes(does) ==
  /\ todo' = does
  /\ UNCHANGED <<clients, broken, fault, history, heard>>

\* Mutant of SendFails: the client is mentioned once more.
SendFailsMention ==
  /\ this.to \in broken
  /\ struck' = struck \cup {this.to}
  /\ todo' = <<Remove(this.to), Use(this.to)>> \o rest
  /\ UNCHANGED <<clients, broken, kind, before, fault, heard>>

\* send() fails, and sendToClient removes the client.
SendFails ==
  /\ this.to \in broken
  /\ struck' = struck \cup {this.to}
  /\ todo' = <<Remove(this.to)>> \o rest
  /\ UNCHANGED <<clients, broken, kind, before, fault, heard>>

\* Mutant of SendPart: the rest of the message is not sent.
SendPartOnly == Becomes(rest)

\* send() takes a part of the message, and is called again.
SendPart ==
  Becomes(<<SendMore(this.to, this.news, this.writes + 1)>> \o rest)

\* send() takes all that is left, or would block: then the message ends here.
SendEnds ==
  /\ heard' = IF this.news = NoNews THEN heard
              ELSE heard \cup {<<this.to>> \o this.news}
  /\ todo' = rest
  /\ UNCHANGED <<clients, broken, fault, history>>

sendToClient ==
  /\ Running /\ this.op = "send" /\ this.to \in live
  /\ \/ SendFails
     \/ this.to \notin broken /\ SendEnds
     \/ this.to \notin broken /\ this.writes + 1 < Writes /\ SendPart

\* A reference is used, to send or otherwise.
Refer ==
  /\ Running
  /\ \/ this.op = "use" /\ this.to \in live
     \/ this.op = "channel" /\ member[this.chan] # {}
  /\ Becomes(rest)

Dangling ==
  /\ Running
  /\ \/ this.op \in {"send", "use"} /\ this.to \notin live
     \/ this.op = "channel" /\ member[this.chan] = {}
  /\ Undefined("dangling")

-----------------------------------------------------------------------------
\* Mutant of Beyond: the iterator is not advanced.
BeyondNot(S, p) == {c \in S : c >= p}

Beyond(S, p) == {c \in S : c > p}

\* broadcast goes on to the member behind the one it is at: ++it, from an
\* element that must still be in the map.
Cast ==
  /\ Running /\ this.op = "cast"
  /\ LET next == Beyond(member[this.chan], this.at) \ {this.but}
         c == Min(next)
     IN IF this.at \notin member[this.chan] \cup {0} THEN Undefined("dangling")
        ELSE IF next = {} THEN Becomes(rest)
        ELSE Becomes(<<SendMore(c, this.news, 0),
                       CastFrom(this.chan, this.but, this.news, c)>> \o rest)

\* The same of the loop over _db_clients.
Each ==
  /\ Running /\ this.op = "each"
  /\ LET next == Beyond(live, this.at)
     IN IF this.at \notin live \cup {0} THEN Undefined("dangling")
        ELSE IF next = {} THEN Becomes(rest)
        ELSE Becomes(<<Send(Min(next)), EachFrom(Min(next))>> \o rest)

\* The removals of f that are under way.
Pending(f) == {k \in DOMAIN todo : todo[k] = Erase(f)}

Removing ==
  /\ Running /\ this.op = "remove"
  /\ IF Cardinality(Pending(this.who)) < MaxDepth
     THEN Becomes(removeClient(this.who) \o rest)
     ELSE Undefined("overflow")

\* Mutant of Farewell: the client that leaves is told too.
FarewellToAll(f, n, notices) == <<CastFrom(n, Nobody, Departs(f, n), 0), Leave(f, n)>>

\* The announcements of f's departure from n, and the departure.
Farewell(f, n, notices) ==
  <<CastFrom(n, f, Departs(f, n), 0)>>
    \o [k \in 1..notices |-> Broadcast(n, f)]
    \o <<Leave(f, n)>>

\* The client is looked up at the start; its next channel is left.
Sweep ==
  /\ Running /\ this.op = "sweep"
  /\ LET f == this.who
         next == {n \in Names : n >= this.at /\ f \in member[n]}
         n == Min(next)
     IN Becomes(IF f \notin live \/ next = {} THEN rest
                ELSE Farewell(f, n, this.notices)
                       \o <<SweepFrom(f, n + 1, this.notices)>> \o rest)

Left ==
  /\ Running /\ this.op = "leave"
  /\ member' = [member EXCEPT ![this.chan] = @ \ {this.who}]
  /\ todo' = rest
  /\ UNCHANGED <<live, polled, broken, fault, history, heard>>

\* _pollfds.erase wants an element: there is none for a client that is gone.
Erased ==
  /\ Running /\ this.op = "erase"
  /\ IF this.who \notin polled THEN Undefined("dangling")
     ELSE /\ live' = live \ {this.who}
          /\ polled' = polled \ {this.who}
          /\ broken' = broken \ {this.who}
          /\ todo' = rest
          /\ UNCHANGED <<member, fault, history, heard>>

-----------------------------------------------------------------------------
\* A connection breaks, at any moment.
Break(f) ==
  /\ fault = "none" /\ f \in live \ broken
  /\ broken' = broken \cup {f}
  /\ UNCHANGED <<clients, todo, fault, history, heard>>

Step ==
  \/ sendToClient \/ Refer \/ Dangling
  \/ Cast \/ Each \/ Removing \/ Sweep \/ Left \/ Erased

\* After a fault nothing is said of the program.
Lost == fault # "none" /\ UNCHANGED vars

Next ==
  \/ Step \/ Lost
  \/ \E f \in Fds : Connect(f) \/ Break(f)
  \/ \E f \in live : Serve(f)

\* A handler runs on until it returns.
Spec == Init /\ [][Next]_vars /\ WF_vars(Step)

-----------------------------------------------------------------------------
\* No channel ever holds a client that is gone, in the middle of nested
\* removals or after one has been cut short: an erasure finds its client out of
\* every channel, whatever a send of its own farewells has removed meanwhile
\* (removeClient, reached from sendToClient at any depth).
NoStaleMembers == \A n \in Names : member[n] \subseteq live

\* Once x is executed, with all it calls, f has been sent that gone departs
\* from n, or is gone itself.
StillTells(x, f, gone, n) ==
  \/ x.op = "send" /\ x.to = f /\ x.news = <<gone, n>>
  \/ /\ x.op = "cast" /\ x.chan = n /\ x.news = <<gone, n>>
     /\ x.but # f /\ x.at < f
  \/ x.op \in {"remove", "erase"} /\ x.who = f

\* At every moment of a handler, whoever has departed from a channel, by its own
\* command or because a send to it failed, has been announced to each member
\* left, in full unless that member's own connection would block, or will be by
\* what the handler and the removals it is in the middle of still have to do.
\* So no one is forgotten by a broadcast that a removal has interrupted
\* (sendToClient, removeClientFromAllChannels, handlePART, handleKICK).
DeparturesAnnounced ==
  fault = "none" =>
    \A n \in Names : \A gone \in before[n] \ member[n] : \A f \in member[n] :
      \/ <<f, gone, n>> \in heard
      \/ \E k \in DOMAIN todo : StillTells(todo[k], f, gone, n)

\* No erased object is used unless a send has failed; and one failure does no
\* harm where nothing is used behind the send, in single replies and in
\* messages to one client (sendToClient, its callers).
LoneFailureContained ==
  fault # "none" =>
    /\ struck # {}
    /\ kind \in {"reply", "private"} => Cardinality(struck) > 1

\* The stack is exhausted only by two broken clients that keep announcing each
\* other's departure in a channel they share, never by one alone.
OverflowNeedsTwo ==
  fault = "overflow" =>
    \E n \in Names : \E f, g \in struck : f # g /\ {f, g} \subseteq member[n]

\* A handler returns, however many removals it is made to carry out, unless it
\* has used an erased object or exhausted the stack.
HandlersReturn == todo # <<>> ~> todo = <<>> \/ fault # "none"

\* "Ferme proprement la connexion" (sendToClient on its call of removeClient).
ClosedCleanly == fault = "none"
=============================================================================
