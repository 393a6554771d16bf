---------------------------- MODULE ChannelAccess ----------------------------
(***************************************************************************)
(* What the channels of the server promise their users, stated about       *)
(* connections and not about the descriptors the program identifies them   *)
(* by: nobody is put into a channel, made its operator or given a say in   *)
(* its settings except by entering it first or by an operator's command.   *)
(*                                                                         *)
(* A connection is the serial number of its accept().  The connection the  *)
(* server serves in a step is `actor' after the step.  IrcServer is shown  *)
(* to implement this specification by MCIrcServer.                         *)
(***************************************************************************)
EXTENDS Naturals

CONSTANTS
  Names,   \* the channels
  Default  \* the settings of a channel nobody has changed

VARIABLES
  member,   \* member[n]: the connections in channel n
  oper,     \* oper[n]: the connections with operator status in n
  settings, \* settings[n]: modes, key, limit, topic and invitations
  mandate,  \* <<c, n>> while connection c carries out a mode change of n that
            \* it was found entitled to make when it began; <<>> otherwise
  actor     \* the connection served in the last step

access == <<member, oper, settings, mandate>>

Init ==
  /\ member = [n \in Names |-> {}]
  /\ oper = [n \in Names |-> {}]
  /\ settings = [n \in Names |-> Default]
  /\ mandate = <<>>

\* The connection served enters n.  It may become an operator only of a
\* channel that has no member and no settings.
Enter(n) ==
  /\ actor' \notin member[n]
  /\ member' = [member EXCEPT ![n] = @ \cup {actor'}]
  /\ \/ UNCHANGED oper
     \/ /\ member[n] = {} /\ settings[n] = Default
        /\ oper' = [oper EXCEPT ![n] = @ \cup {actor'}]
  /\ UNCHANGED <<settings, mandate>>

\* What is left of the settings of the channels once their members are mem.
Kept(mem) == [n \in Names |-> IF mem[n] = {} THEN Default ELSE settings[n]]

\* The connection served leaves the channels in S, with its operator status.
\* A channel it leaves empty loses its settings.
Leave(S) ==
  /\ member' = [n \in Names |-> IF n \in S THEN member[n] \ {actor'} ELSE member[n]]
  /\ oper' = [n \in Names |-> IF n \in S THEN oper[n] \ {actor'} ELSE oper[n]]
  /\ settings' = [n \in Names |-> IF n \in S THEN Kept(member')[n] ELSE settings[n]]
  /\ UNCHANGED mandate

Entitled(n) == actor' \in oper[n] \/ mandate = <<actor', n>>

\* An operator excludes members of n, gives or takes operator status among
\* its members, or changes its settings.
Govern(n) ==
  /\ Entitled(n)
  /\ member'[n] \subseteq member[n]
  /\ oper'[n] \subseteq member'[n]
  /\ \A k \in Names \ {n} :
       /\ member'[k] = member[k]
       /\ oper'[k] = oper[k]
       /\ settings'[k] = settings[k]
  /\ UNCHANGED mandate

\* A mode change begins, by an operator, and ends.
BeginMode(n) ==
  /\ actor' \in oper[n]
  /\ mandate = <<>> /\ mandate' = <<actor', n>>
  /\ UNCHANGED <<member, oper, settings>>

EndMode ==
  /\ mandate' = <<>>
  /\ UNCHANGED <<member, oper, settings>>

Next ==
  \/ \E n \in Names : Enter(n) \/ Govern(n) \/ BeginMode(n)
  \/ \E S \in SUBSET Names : Leave(S)
  \/ EndMode

Spec == Init /\ [][Next]_access
=============================================================================
