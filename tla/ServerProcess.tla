---------------------------- MODULE ServerProcess ----------------------------
(***************************************************************************)
(* The process around the handlers: main, the constructor with its system  *)
(* calls, the loop of Server::run over _pollfds, SIGINT, and the two calls *)
(* of close_fds.  The kernel's side is here too: descriptors are given out *)
(* lowest first, poll() reports what is ready at that moment, and a reset  *)
(* connection is reported as readable and hung up at once.                 *)
(*                                                                         *)
(* What a client sends is abstracted to the number of reads it takes; what *)
(* handling it does to connections (the client itself removed, others on   *)
(* whom a send has failed) is a choice.  IrcServer and LineBuffer say what *)
(* is inside.  fcntl() does not fail on a socket just accepted.            *)
(***************************************************************************)
EXTENDS CloseFds, Sequences, FiniteSetsExt

CONSTANTS
  MaxFd,      \* the largest descriptor the process may open
  MaxBacklog, \* bound: connections that wait to be accepted
  MaxData     \* bound: reads a client keeps the server busy with

ASSUME ProcessAssumption ==
  /\ MaxFd \in Nat /\ MaxFd > server_fd
  /\ MaxBacklog \in Nat \ {0} /\ MaxData \in Nat \ {0}

Clients == server_fd + 1..MaxFd

VARIABLES
  pc,        \* where main() is
  g_running,
  bound,     \* the listening socket is bound to its port
  pollfds,   \* _pollfds
  i,         \* the loop variable of run(): an index of pollfds
  backlog,   \* connections accept() would return
  data,      \* data[c]: reads it takes to get what client c has sent
  ended,     \* the clients that have closed their side
  broken     \* the clients whose connection is reset

peers == <<backlog, data, ended, broken>>
vars == <<pc, g_running, bound, pollfds, i, peers, fds>>

Starting == {"socket", "bind", "nonblocking", "listen"}
Looping == {"test", "call", "poll", "scan"}
Stopping == {"stop", "destroy"}

Pollfd == [fd : {server_fd} \cup Clients, revents : SUBSET {"POLLIN", "POLLHUP"}]

ProcessTypeOK ==
  /\ pc \in Starting \cup Looping \cup Stopping \cup {"over", "failed"}
  /\ {g_running, bound} \subseteq BOOLEAN
  /\ pollfds \in Seq(Pollfd) /\ i \in 1..MaxFd - server_fd + 2
  /\ open \subseteq 0..MaxFd /\ DOMAIN db_clients \subseteq 0..MaxFd
  /\ backlog \in 0..MaxBacklog
  /\ data \in [Clients -> 0..MaxData]
  /\ ended \cup broken \subseteq DOMAIN db_clients
  /\ teardown \in {"none", "closing", "closed"}

Init ==
  /\ pc = "socket" /\ g_running = TRUE /\ bound = FALSE
  /\ open = 0..server_fd - 1
  /\ db_clients = <<>> /\ pollfds = <<>> /\ i = 1
  /\ backlog = 0 /\ data = [c \in Clients |-> 0] /\ ended = {} /\ broken = {}
  /\ position = 0 /\ teardown = "none"

-----------------------------------------------------------------------------
\* setupSocket, listen: system calls in a row.  A failure is thrown to main,
\* or exit(1): either way the process ends.
Fails(call) ==
  /\ pc = call /\ pc' = "failed"
  /\ UNCHANGED <<g_running, bound, pollfds, i, peers, fds>>

socket ==
  /\ pc = "socket" /\ pc' = "bind"
  /\ open' = open \cup {server_fd}
  /\ UNCHANGED <<g_running, bound, pollfds, i, peers, db_clients, position, teardown>>

\* setsockopt and bind.  When bind fails, `&& close(_server_fd)' closes the
\* socket; close returns 0, so that nothing is thrown.
bind ==
  /\ pc = "bind" /\ pc' = "nonblocking"
  /\ bound' \in BOOLEAN
  /\ open' = IF bound' THEN open ELSE open \ {server_fd}
  /\ UNCHANGED <<g_running, pollfds, i, peers, db_clients, position, teardown>>

\* Mutant of fcntlSucceeds: setNonBlocking ignores errors.
fcntlIgnored == TRUE

\* fcntl fails on a descriptor that is not open.
fcntlSucceeds == server_fd \in open

\* Mutant of NewEntry: revents is not reset.
NewEntryReady(fd) == [fd |-> fd, revents |-> {"POLLIN"}]

NewEntry(fd) == [fd |-> fd, revents |-> {}]

setNonBlocking ==
  /\ pc = "nonblocking"
  /\ IF fcntlSucceeds
     THEN pc' = "listen" /\ pollfds' = <<NewEntry(server_fd)>>
     ELSE pc' = "failed" /\ UNCHANGED pollfds
  /\ UNCHANGED <<g_running, bound, i, peers, fds>>

listen ==
  /\ pc = "listen" /\ pc' = "test"
  /\ UNCHANGED <<g_running, bound, pollfds, i, peers, fds>>

-----------------------------------------------------------------------------
\* The peers, while the server is up.
Connect ==
  /\ pc \in Looping /\ backlog < MaxBacklog
  /\ backlog' = backlog + 1
  /\ UNCHANGED <<pc, g_running, bound, pollfds, i, data, ended, broken, fds>>

Send(c) ==
  /\ pc \in Looping
  /\ c \in DOMAIN db_clients \ (ended \cup broken) /\ data[c] < MaxData
  /\ data' = [data EXCEPT ![c] = @ + 1]
  /\ UNCHANGED <<pc, g_running, bound, pollfds, i, backlog, ended, broken, fds>>

End(c) ==
  /\ pc \in Looping
  /\ c \in DOMAIN db_clients \ (ended \cup broken)
  /\ ended' = ended \cup {c}
  /\ UNCHANGED <<pc, g_running, bound, pollfds, i, backlog, data, broken, fds>>

Break(c) ==
  /\ pc \in Looping
  /\ c \in DOMAIN db_clients \ broken
  /\ broken' = broken \cup {c}
  /\ UNCHANGED <<pc, g_running, bound, pollfds, i, backlog, data, ended, fds>>

-----------------------------------------------------------------------------
\* Mutant of interrupted: g_running does not end the loop.
interruptedNever == FALSE

\* The test of `while (g_running)'.
interrupted == ~g_running

\* while (g_running) ... poll(): the flag is read, then the call is made.
Test ==
  /\ pc = "test"
  /\ pc' = IF interrupted THEN "stop" ELSE "call"
  /\ UNCHANGED <<g_running, bound, pollfds, i, peers, fds>>

Call ==
  /\ pc = "call" /\ pc' = "poll"
  /\ UNCHANGED <<g_running, bound, pollfds, i, peers, fds>>

Readable(fd) ==
  IF fd = server_fd THEN backlog > 0 ELSE data[fd] > 0 \/ fd \in ended \cup broken

Events(fd) ==
  {e \in {"POLLIN", "POLLHUP"} : Readable(fd) /\ (e = "POLLHUP" => fd \in broken)}

SomethingReady == \E k \in DOMAIN pollfds : Readable(pollfds[k].fd)

PollReturns ==
  /\ pc = "poll" /\ SomethingReady
  /\ pollfds' = [k \in DOMAIN pollfds |->
                   [pollfds[k] EXCEPT !.revents = Events(pollfds[k].fd)]]
  /\ pc' = "scan" /\ i' = 1
  /\ UNCHANGED <<g_running, bound, peers, fds>>

\* poll() fails for want of memory: "Poll failed!", and the loop goes on.
PollFails ==
  /\ pc = "poll" /\ pc' = "test"
  /\ UNCHANGED <<g_running, bound, pollfds, i, peers, fds>>

\* SIGINT, at any moment: signalHandler.  A poll() under way returns EINTR, and
\* the loop is left.
Interrupt ==
  /\ pc \notin {"over", "failed"}
  /\ g_running' = FALSE
  /\ pc' = IF pc = "poll" THEN "stop" ELSE pc
  /\ UNCHANGED <<bound, pollfds, i, peers, fds>>

-----------------------------------------------------------------------------
\* The loop over _pollfds; i counts from 1 here.  The constructor puts the
\* listening socket first.
Scanning == pc = "scan" /\ i <= Len(pollfds)
POLLIN == "POLLIN" \in pollfds[i].revents
POLLHUP == "POLLHUP" \in pollfds[i].revents
AtServer == pollfds[i].fd = server_fd

Skip ==
  /\ Scanning /\ ~POLLIN
  /\ i' = i + 1
  /\ UNCHANGED <<pc, g_running, bound, pollfds, peers, fds>>

\* acceptNewClient gets the lowest free descriptor.
Accept ==
  /\ Scanning /\ POLLIN /\ AtServer /\ backlog > 0
  /\ Clients \ open # {}
  /\ LET fd == Min(Clients \ open)
     IN /\ open' = open \cup {fd}
        /\ db_clients' = Inserted(fd, fd)
        /\ pollfds' = Append(pollfds, NewEntry(fd))
  /\ backlog' = backlog - 1
  /\ i' = i + 1
  /\ UNCHANGED <<pc, g_running, bound, data, ended, broken, position, teardown>>

\* "Failed to accept client!": no descriptor is left, the connection stays in
\* the backlog and poll() will report it again.
AcceptFails ==
  /\ Scanning /\ POLLIN /\ AtServer
  /\ Clients \ open = {}
  /\ i' = i + 1
  /\ UNCHANGED <<pc, g_running, bound, pollfds, peers, fds>>

\* Mutant of Unpolled: the entry of a client is not erased.
UnpolledNot(R) == pollfds

\* The entries of _pollfds that are not of clients in R.
Kept(R) == {k \in DOMAIN pollfds : pollfds[k].fd \notin R}

\* The numbers in S from the least to the largest.
InOrder(S) ==
  CHOOSE f \in [1..Cardinality(S) -> S] :
    \A j, k \in DOMAIN f : j < k => f[j] < f[k]

\* _pollfds without the clients in R: those behind an erased entry move up.
Unpolled(R) ==
  LET order == InOrder(Kept(R))
  IN [k \in DOMAIN order |-> pollfds[order[k]]]

\* removeClient for each client in R; what they have sent is lost.
removeClients(R, left) ==
  /\ db_clients' = [c \in DOMAIN db_clients \ R |-> db_clients[c]]
  /\ open' = open \ R
  /\ data' = [c \in Clients |-> IF c \in R THEN 0 ELSE left[c]]
  /\ ended' = ended \ R /\ broken' = broken \ R
  /\ UNCHANGED <<backlog, position, teardown>>

\* The branch of POLLHUP and POLLERR: removeClient, whose farewell to others
\* may find them broken too; then --i.
HangUp ==
  /\ Scanning /\ POLLIN /\ ~AtServer /\ POLLHUP
  /\ \E R \in SUBSET broken :
       /\ removeClients(R \cup {pollfds[i].fd}, data)
       /\ pollfds' = Unpolled(R \cup {pollfds[i].fd})
  /\ UNCHANGED <<pc, g_running, bound, i>>

\* _pollfds[i].revents = 0 after the handlers have run: the entry at i may be
\* another client's by now, or behind the last one, where the vector keeps
\* its storage and nothing is read.
Cleared(entries) ==
  IF i <= Len(entries) THEN [entries EXCEPT ![i].revents = {}] ELSE entries

\* Mutant of Advance: the loop is left once a client has been served.
AdvanceBreak == i' = Len(pollfds') + 1

Advance == i' = i + 1

\* processClientData reads once.  It removes the client if this is the end of
\* its stream, if its connection is broken, or by what is in the lines.
Process ==
  /\ Scanning /\ POLLIN /\ ~AtServer /\ ~POLLHUP
  /\ LET c == pollfds[i].fd
         More == data[c] > 0
     IN \E R \in SUBSET (broken \cup {c}) :
          /\ More \/ c \in R
          /\ removeClients(R, IF More THEN [data EXCEPT ![c] = @ - 1] ELSE data)
          /\ pollfds' = Cleared(Unpolled(R))
  /\ Advance
  /\ UNCHANGED <<pc, g_running, bound>>

\* The vector may have shrunk below i in the meantime.
ScanEnds ==
  /\ pc = "scan" /\ i > Len(pollfds)
  /\ pc' = "test" /\ i' = 1
  /\ UNCHANGED <<g_running, bound, pollfds, peers, fds>>

-----------------------------------------------------------------------------
\* close_fds at the end of run(), then in ~Server when main returns.
CloseFds ==
  /\ pc \in Stopping
  /\ Begin \/ CloseNext
  /\ UNCHANGED <<pc, g_running, bound, pollfds, i, peers>>

CloseFdsReturns ==
  /\ pc \in Stopping
  /\ CloseServer
  /\ pc' = IF pc = "stop" THEN "destroy" ELSE "over"
  /\ UNCHANGED <<g_running, bound, pollfds, i, peers>>

\* The process has ended.
Over == pc \in {"over", "failed"} /\ UNCHANGED vars

-----------------------------------------------------------------------------
Start ==
  \/ \E call \in Starting \ {"nonblocking"} : Fails(call)
  \/ socket \/ bind \/ setNonBlocking \/ listen

Run ==
  \/ Test \/ Call \/ PollReturns
  \/ Skip \/ Accept \/ AcceptFails \/ HangUp \/ Process \/ ScanEnds

Shut == CloseFds \/ CloseFdsReturns

Environment ==
  \/ Connect \/ Interrupt \/ PollFails
  \/ \E c \in Clients : Send(c) \/ End(c) \/ Break(c)

Next == Start \/ Run \/ Shut \/ Environment \/ Over

\* The process runs on; peers and signals come or not.  poll() does not fail
\* for ever.
Spec ==
  /\ Init /\ [][Next]_vars
  /\ WF_vars(Start \/ Run \/ Shut) /\ SF_vars(PollReturns)

-----------------------------------------------------------------------------
\* _pollfds and _db_clients are two lists of the same clients, each on an open
\* descriptor and once, behind the listening socket (acceptNewClient,
\* removeClient).
EntriesMatch ==
  pc \in Looping =>
    LET fd(k) == pollfds[k].fd
    IN /\ fd(1) = server_fd
       /\ {fd(k) : k \in 2..Len(pollfds)} = DOMAIN db_clients
       /\ \A k, l \in DOMAIN pollfds : fd(k) = fd(l) => k = l
       /\ open \ DOMAIN db_clients = 0..server_fd
       /\ DOMAIN db_clients \subseteq open

\* An event run() still has to look at is true of the socket on the entry's
\* descriptor now: no recv() and no accept() is made for a connection that is
\* gone or new, and no client is hung up whose connection is whole (run,
\* acceptNewClient).
EventsCurrent ==
  pc = "scan" => \A k \in i..Len(pollfds) :
                   pollfds[k].revents \subseteq Events(pollfds[k].fd)

\* The server never gets to poll() without its port, although a failure of
\* bind() throws nothing (setupSocket).
ServesOnlyBound == pc \in Looping => bound /\ server_fd \in open

\* Whom the server owes an answer, whatever else it is doing.
Loop == INSTANCE EventLoop WITH
  status <- IF pc \in Starting \cup {"failed"} THEN "starting"
            ELSE IF pc \in Looping THEN "up" ELSE "down",
  connected <- IF pc \in Looping THEN DOMAIN db_clients ELSE {}

\* Nobody is forgotten: whatever entries are erased, shifted or skipped while
\* run() is going through _pollfds, a connection that waits is accepted when
\* there is a descriptor for it, every client that sends is read, and every
\* client that leaves or breaks is removed, unless the server stops.
EventLoopSpec == Loop!Spec

\* Once SIGINT has come, the process ends as soon as one descriptor is ready,
\* even when it came between the test of g_running and poll() and did not
\* interrupt the call (run).
StopsWhenWoken ==
  ~g_running /\ pc \in Looping /\ SomethingReady ~> pc = "over"
=============================================================================
