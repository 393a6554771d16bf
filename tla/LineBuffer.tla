------------------------------ MODULE LineBuffer ------------------------------
(***************************************************************************)
(* How the bytes of one client become commands: Server::processClientData  *)
(* and Client::_buffer.  Each recv() takes what the network has delivered  *)
(* so far, at most ReadSize bytes, behind what is left in the buffer; the  *)
(* lines complete by then are cut off and handled one by one, until none   *)
(* is left or handling one has removed the client.                         *)
(*                                                                         *)
(* A command is the line handed to handleMessage; that it may remove the   *)
(* client (QUIT, a wrong password, a broken connection) is a choice.  A    *)
(* recv() that would block changes nothing and is no action.               *)
(***************************************************************************)
EXTENDS Naturals, FiniteSets, Sequences, FiniteSetsExt, SequencesExt

CONSTANTS Letters, CR, LF, MaxBytes,
  ReadSize   \* the size of the array recv() fills

ASSUME LineBufferAssumption ==
  /\ CR \notin Letters /\ LF \notin Letters /\ CR # LF
  /\ MaxBytes \in Nat /\ ReadSize \in Nat \ {0}

Bytes == Letters \cup {CR, LF}

VARIABLES
  sent,     \* every byte the client has sent
  ended,    \* it has closed its side
  broken,   \* the connection is reset
  received, \* how many bytes recv() has returned
  buffer,   \* Client::_buffer
  pc,       \* "poll": in run(); "lines", "eof": in the loop over the lines,
            \* of a read or at end of file
  served,   \* the lines handed to handleMessage
  live      \* the client is in _db_clients

client == <<sent, ended, broken>>
vars == <<sent, ended, broken, received, buffer, pc, served, live>>

LineTypeOK ==
  /\ sent \in Seq(Bytes) /\ Len(sent) <= MaxBytes
  /\ {ended, broken, live} \subseteq BOOLEAN
  /\ received \in 0..Len(sent)
  /\ buffer \in Seq(Bytes)
  /\ pc \in {"poll", "lines", "eof"}
  /\ served \in Seq(Seq(Bytes) \ {<<>>})

Init ==
  /\ sent = <<>> /\ ended = FALSE /\ broken = FALSE
  /\ received = 0 /\ buffer = <<>> /\ pc = "poll"
  /\ served = <<>> /\ live = TRUE

-----------------------------------------------------------------------------
\* The client and the network.
Send(b) ==
  /\ ~ended /\ ~broken /\ Len(sent) < MaxBytes
  /\ sent' = Append(sent, b)
  /\ UNCHANGED <<ended, broken, received, buffer, pc, served, live>>

End ==
  /\ ~ended /\ ~broken
  /\ ended' = TRUE
  /\ UNCHANGED <<sent, broken, received, buffer, pc, served, live>>

Break ==
  /\ ~broken
  /\ broken' = TRUE
  /\ UNCHANGED <<sent, ended, received, buffer, pc, served, live>>

-----------------------------------------------------------------------------
\* appendToBuffer.
appendToBuffer(data) == buffer' = buffer \o data

\* recv() returns n of the bytes that have arrived.
Receive(n) ==
  /\ pc = "poll" /\ live
  /\ n <= ReadSize /\ received + n <= Len(sent)
  /\ received' = received + n
  /\ appendToBuffer(SubSeq(sent, received + 1, received + n))
  /\ pc' = "lines"
  /\ UNCHANGED <<client, served, live>>

\* recv() returns 0: the client has closed its side and all is read.
ReceiveEnd ==
  /\ pc = "poll" /\ live
  /\ ended /\ ~broken /\ received = Len(sent)
  /\ pc' = "eof"
  /\ UNCHANGED <<client, received, buffer, served, live>>

\* The connection is broken: recv() fails, or run() has seen the hang-up, or
\* a send to the client has failed while another was served.
Drop ==
  /\ pc = "poll" /\ live /\ broken
  /\ live' = FALSE
  /\ UNCHANGED <<client, received, buffer, pc, served>>

-----------------------------------------------------------------------------
\* buf.find("\r\n") and buf.find('\n'); 0 stands for npos.
First(S) == IF S = {} THEN 0 ELSE Min(S)

pos_rn == First({i \in 1..Len(buffer) - 1 : buffer[i] = CR /\ buffer[i + 1] = LF})
pos_n == First({i \in 1..Len(buffer) : buffer[i] = LF})

\* Mutant of use_rn: CR LF is preferred wherever it is.
use_rn_anywhere == pos_rn # 0

use_rn == pos_rn # 0 /\ (pos_n = 0 \/ pos_rn <= pos_n)

use_pos == IF use_rn THEN pos_rn ELSE pos_n
delim_len == IF use_rn THEN 2 ELSE 1

\* handleMessage is called, and may remove the client.
handleMessage(line) ==
  /\ served' = Append(served, line)
  /\ live' \in BOOLEAN

\* Mutant of HandleLine: empty lines are handled.
HandleAnyLine(line) == handleMessage(line)

\* An empty line is passed over.
HandleLine(line) ==
  \/ line # <<>> /\ handleMessage(line)
  \/ line = <<>> /\ UNCHANGED <<served, live>>

\* Mutant of Continue: one line for each read.
ContinueNextTime == pc' = "poll"

\* processClientData goes on unless handleMessage has removed the client.
Continue == pc' = IF live' THEN pc ELSE "poll"

TakeLine ==
  /\ pc \in {"lines", "eof"} /\ use_pos # 0
  /\ buffer' = SubSeq(buffer, use_pos + delim_len, Len(buffer))
  /\ HandleLine(SubSeq(buffer, 1, use_pos - 1))
  /\ Continue
  /\ UNCHANGED <<client, received>>

\* No complete line is left: the next read goes on from here.
AwaitMore ==
  /\ pc = "lines" /\ use_pos = 0
  /\ pc' = "poll"
  /\ UNCHANGED <<client, received, buffer, served, live>>

\* At end of file an unfinished line is handled too, and the client removed.
TakeUnfinished ==
  /\ pc = "eof" /\ use_pos = 0 /\ buffer # <<>>
  /\ buffer' = <<>>
  /\ handleMessage(buffer)
  /\ Continue
  /\ UNCHANGED <<client, received>>

CloseEnded ==
  /\ pc = "eof" /\ use_pos = 0 /\ buffer = <<>>
  /\ live' = FALSE /\ pc' = "poll"
  /\ UNCHANGED <<client, received, buffer, served>>

Server ==
  \/ \E n \in 1..MaxBytes : Receive(n)
  \/ ReceiveEnd \/ Drop
  \/ TakeLine \/ AwaitMore \/ TakeUnfinished \/ CloseEnded

Next ==
  \/ \E b \in Bytes : Send(b)
  \/ End \/ Break
  \/ Server

\* poll() reports a descriptor with something to read until it is read, and a
\* broken one until it is closed: the server never leaves either forever.
Spec == Init /\ [][Next]_vars /\ WF_vars(Server)

-----------------------------------------------------------------------------
Stream == INSTANCE LineStream

\* Every line the client has ended is handled as one command, in order, once
\* and without its end, however it was cut into reads; an unfinished line is
\* handled at end of file only; nothing received in time is left unhandled
\* (processClientData, both loops).
StreamSpec == Stream!Spec

\* Between two reads the buffer holds the unfinished line and nothing else: no
\* command waits there for more input, none is handled before its end, and
\* the buffer grows only while its client does not end a line.
HoldsUnfinishedLine ==
  live /\ pc = "poll" => buffer = Stream!Unfinished(SubSeq(sent, 1, received))
=============================================================================
