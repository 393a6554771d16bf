------------------------------ MODULE LineStream ------------------------------
(***************************************************************************)
(* What a client can count on when it sends commands, whatever way the     *)
(* network cuts its bytes into packets and the server reads them: every    *)
(* line it has ended is taken as one command, in order and once, and what  *)
(* it leaves without an end when it closes its side is its last command.   *)
(*                                                                         *)
(* A line ends with LF; one CR just before the LF belongs to the end; an   *)
(* empty line is no command.  LineBuffer is shown to implement this        *)
(* specification.                                                          *)
(***************************************************************************)
EXTENDS Naturals, FiniteSets, Sequences, FiniteSetsExt, SequencesExt

CONSTANTS
  Letters,   \* the bytes that are neither of the two below
  CR, LF,
  MaxBytes   \* bound: bytes one client sends

Bytes == Letters \cup {CR, LF}

VARIABLES
  sent,    \* the bytes the client has sent
  ended,   \* the client has closed its side
  broken,  \* the connection is reset
  served,  \* the commands the server has handled
  live     \* the server has not removed the client

stream == <<sent, ended, broken, served, live>>

Init ==
  /\ sent = <<>> /\ ended = FALSE /\ broken = FALSE
  /\ served = <<>> /\ live = TRUE

-----------------------------------------------------------------------------
\* The positions of the line ends, and the last one before position e.
LineEnds(s) == {i \in DOMAIN s : s[i] = LF}
EndBefore(s, e) == Max({0} \cup {i \in LineEnds(s) : i < e})

\* The line that ends at e, and what follows the last line end.
TextEnd(s, e) == IF e > 1 /\ s[e - 1] = CR THEN e - 2 ELSE e - 1
Line(s, e) == SubSeq(s, EndBefore(s, e) + 1, TextEnd(s, e))
Unfinished(s) == SubSeq(s, EndBefore(s, Len(s) + 1) + 1, Len(s))

\* The positions at which commands end, and the k-th of such positions.
CommandEnds(s) == {e \in LineEnds(s) : EndBefore(s, e) < TextEnd(s, e)}
Nth(S, k) == CHOOSE e \in S : Cardinality({x \in S : x <= e}) = k

\* The commands in what a client has sent; once it has ended its stream, the
\* unfinished line is the last of them.
Ended == [k \in 1..Cardinality(CommandEnds(sent)) |->
            Line(sent, Nth(CommandEnds(sent), k))]

Commands ==
  IF ended /\ Unfinished(sent) # <<>> THEN Append(Ended, Unfinished(sent)) ELSE Ended

-----------------------------------------------------------------------------
\* The client sends a byte, closes its side, or its connection breaks.
Send(b) ==
  /\ ~ended /\ ~broken /\ Len(sent) < MaxBytes
  /\ sent' = Append(sent, b)
  /\ UNCHANGED <<ended, broken, served, live>>

End ==
  /\ ~ended /\ ~broken
  /\ ended' = TRUE
  /\ UNCHANGED <<sent, broken, served, live>>

Break ==
  /\ ~broken
  /\ broken' = TRUE
  /\ UNCHANGED <<sent, ended, served, live>>

\* The server handles the next command, which may make it remove the client.
Serve ==
  /\ live /\ Len(served) < Len(Commands)
  /\ served' = Append(served, Commands[Len(served) + 1])
  /\ live' \in BOOLEAN
  /\ UNCHANGED <<sent, ended, broken>>

\* It removes a client that has ended its stream after the last command, and
\* one whose connection is broken at any time.
Disconnect ==
  /\ live
  /\ broken \/ (ended /\ served = Commands)
  /\ live' = FALSE
  /\ UNCHANGED <<sent, ended, broken, served>>

Next ==
  \/ \E b \in Bytes : Send(b)
  \/ End \/ Break
  \/ Serve \/ Disconnect

\* The server does not stop before a command it has received.
Spec == Init /\ [][Next]_stream /\ WF_stream(Serve \/ Disconnect)
=============================================================================
