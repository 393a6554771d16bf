# A verification development of ft_irc

ft_irc is a single-threaded IRC server in C++98: one `poll()` loop, one `Client`
object per connection, one `Channel` object per channel, one handler per IRC
command. This directory holds TLA+ models of it, the TLC configurations that
check them on small instances, and proofs, checked by TLAPS, that what they
check of safety holds for every instance. Paths are relative to the
repository's root.

## The system

| Component | Code | State | Operations | Modelled |
|---|---|---|---|---|
| Connection registry | `src/Server.cpp` (`acceptNewClient`, `removeClient`, lookups), `src/Client.cpp`, `handlePASS/NICK/USER` | `_db_clients`: fd -> `Client` (nickname, username, `_registered`, `_hasPassword`) | accept, PASS, NICK, USER, removal | `Registry` |
| Channels | `src/Channel.cpp`, `_channels` | members (fd -> `Client*`), `_operators`, `_authorizedClients` (sets of fds), modes i t k l, key, limit, topic | add, remove, broadcast, setters, creation by JOIN, erasure | `IrcServer` |
| Commands | `src/Commands.cpp`, `handleMessage` | none of their own | 14 handlers | `IrcServer` |
| Sending | `sendToClient`, `Channel::broadcast` | kernel socket buffers | send loop; removes a broken recipient | `Sending` |
| Line framing | `processClientData`, `Client::_buffer` | bytes received and not yet a line | append, split, flush at end of file | `LineBuffer`, `LineStream` |
| Poll loop | `Server::run`, `_pollfds` | vector of `pollfd` | wait, dispatch, erase under the loop | `ServerProcess`, `EventLoop` |
| Start, stop, signals | `src/main.cpp`, `~Server`, `close_fds` | `g_running` | SIGINT, close | `ServerProcess`, `CloseFds` |
| Socket setup | `setupSocket`, `listen` | listening socket | system calls in a row | `ServerProcess` |
| Syntax of names and arguments, reply texts, debug output, `test.cpp`, `colors.hpp`, test scripts | | | | no: string functions and presentation |

**How they interact.** `run` waits in `poll`, then serves the readable
descriptors one after the other. `processClientData` reads, splits the buffer
into lines, and calls `handleMessage` for each until the client is gone.
`handleMessage` checks for the password and calls a handler through `_cmd_map`.
Handlers change `_db_clients` and `_channels` directly and send through
`sendToClient`, alone or from `Channel::broadcast`, which follows the `Client*`
pointers the channel keeps. A client leaves through `removeClient` (end of file,
error, hang-up, wrong password, QUIT, a broken send), which first takes it out of
every channel.

**What is hard about it.** Nothing runs in parallel, but the order in which
commands of different clients are served is arbitrary, and identity is weak:
a client *is* its file descriptor. Three collections refer to it from the side
(`Channel::_clients` by fd and raw pointer, `_operators` and `_authorizedClients`
by fd), the kernel gives a closed descriptor to the next connection, and some
handlers return in the middle of a list. So the properties worth having relate
channels to connections over several steps: no pointer outlives its object, no
privilege outlives its holder, nobody enters or governs a channel without being
entitled to, no half-applied command leaves a state that a later command trips
over. Failures inside a broadcast, the poll vector, byte framing and shutdown
are the other hard parts; `PROJECT.json` lists every hazard at its line.

**What makes each component correct.**

- Registry: nicknames unique; registered exactly when PASS, NICK and USER have
  all succeeded, in either order; welcomed exactly once.
- Channels: members are live, registered connections; operators are members;
  an invitation serves the one it was for (it does not, see below); an empty
  channel disappears (not after KICK); the limit and the key are set before use.
- Commands: each changes membership, operators or settings only as its sender is
  entitled to; all who remain in a channel hear of every change of membership.
- Sending: a failed send takes the recipient out of everything and announces it,
  and should disturb nobody's iteration (it does, see below).
- Framing: the sequence of commands served depends on the bytes sent, not on how
  they were cut into reads.
- Poll loop: every readable descriptor is eventually served; no entry that is
  gone is touched.
- Shutdown: a SIGINT is eventually obeyed, every descriptor closed.

## The modules

| Module | What it is |
|---|---|
| `Registry` | The map of connections and PASS, NICK, USER, accept and removal. A specification of its own (`AloneSpec`), and, as `RegistrySpec`, a part of the server. |
| `ChannelAccess` | Abstract: what channels promise their users, in terms of connections and not of descriptors. Who may enter, leave, govern. |
| `IrcServer` | The server: `Registry` extended with channels and every command. Composes the two above: it implements both (`RegistrySpec`, `AccessSpec`). |
| `Sending` | What `sendToClient` does to its callers when a connection is broken: every handler cut down to its sends and to the references it holds across them. |
| `LineBuffer` | The receive buffer of one client and both loops of `processClientData`. |
| `LineStream` | Abstract: the commands in a stream of bytes. `LineBuffer` implements it (`StreamSpec`). |
| `CloseFds` | `close_fds`, one turn of its loop a step. |
| `ServerProcess` | `CloseFds` extended with `main`, the constructor, `run` over `_pollfds`, accept, removal and SIGINT. |
| `EventLoop` | Abstract: whom the server owes an answer. `ServerProcess` implements it (`EventLoopSpec`). |
| `MCRegistry`, `MCIrcServer`, `MCLines`, `MCProcess`, `MCSending` | Instances for TLC: symmetry, view. |
| `RegistryProofs`, `IrcServerProofs`, `SendingProofs`, `LineBufferProofs`, `CloseFdsProofs`, `ServerProcessProofs` | Theorems about the module each is named after. |
| `IrcServerStepProofs` | Theorems about the steps of `IrcServer`: its action properties and its refinement of `ChannelAccess`. |
| `NumberProofs` | Lemmas about least and greatest numbers. |

The three groups meet in `processClientData`. `ServerProcess` calls it: its
`Process` is one read, whose effect on connections is a choice. `LineBuffer` is
what it does with the bytes, each line ending in a `handleMessage` that may
remove the client. `IrcServer` is what `handleMessage` does when every send
succeeds, `Sending` what it does to connections and members when some do not.

### Correspondence

- `clients[f]` is `_db_clients[f]`; `Absent` is no entry. A connection is named
  by `conn`, the serial number of its `accept()`, which the program does not
  have: it is the identity that reuse of descriptors confuses. `acceptNewClient`
  returns the least free descriptor, as the kernel does.
- `channels[n]` is `_channels[n]`; `NoChannel` is no entry. `clients[f]` of a
  channel is the `conn` of the object the pointer was taken from, so a dangling
  pointer is a number that is not that of the live connection. `operators` is
  `_operators`. `authorized[f] # NoConn` is membership in `_authorizedClients`;
  its value, whom the invitation was for, is a history value only the properties read.
- `sent` is the set of messages handed to `sendToClient` in the last step: kind
  (verb or numeric), sender, addressee, channel. `actor` is the connection
  served. Both are outputs: no action reads them.
- A handler is one action, with a disjunct for each early return. JOIN, PART and
  MODE loop over a list of the command, return or continue in the middle of it,
  and have checked the sender before it; they are a first action that sets
  `busy`, an action per item, and the end of the loop. Items are chosen as the
  loop goes, so that every list a client can send is covered, of any length.
  While `busy` no other command is served and no connection ends.
- The commands of one read, and those left in the buffer at end of file, are
  successive commands.
- Strings are members of small sets: what a command's parser decides (a missing
  parameter, a malformed name) is a choice among the replies it can lead to.
  A `+l` argument that is not a positive number is 0.
- `Channel(name)` leaves `_userLimit` uninitialised; the model gives it the
  value `Unset`, which is no limit, and a property says that it is not read.
- TOPIC and INVITE of a channel that does not exist use the end iterator
  (`Dereference`): undefined behaviour, modelled as the reply of a client that
  is not in the channel, or the death of the process (`crashed`). The build of
  the Makefile dies of a segmentation fault. Undefined behaviour in which the
  memory found reads as a channel with members is not modelled.
- In `LineBuffer`, `sent` is all the client ever wrote and `received` counts the
  bytes `recv()` has returned, so that a read is any piece of what has arrived;
  `pc` tells `run` from the two loops. `served` is a history of the lines handed
  to `handleMessage`.
- In `ServerProcess`, `pollfds` is the vector with its `revents` and `i` its
  index, counted from 1. `data[c]` counts the reads that what `c` has sent will
  take. Handling one read may remove the client served and any clients whose
  connection is broken: these are the removals `Sending` has. `Unpolled` erases
  their entries, the later ones move up, and what the code then does to
  `_pollfds[i]` it does to whichever entry is there.
- In `CloseFds`, `_db_clients` is a function from keys to what `getFd()` returns.
  The loop subscripts it with positions, and the subscript inserts a missing key
  with a client of descriptor 0: the map grows until the position has passed its
  largest key. That is why every client *is* closed, and why descriptor 0 is too.
- A failed `bind` in `setupSocket` throws only if `close` fails as well; it closes
  the socket otherwise, and it is the `fcntl` of `setNonBlocking` that fails then.
- In `Sending`, `todo` is the call stack laid flat: the instructions left in the
  handler under way, in front of them those of a function it has called. A use of
  an erased client, or an increment of an iterator to an erased element, sets
  `fault` to "dangling" and ends what the model says; so does "overflow", when
  `MaxDepth` removals of one client are under way. The program has no such limit
  but its stack: two broken members of a channel announce each other's departure
  without end. A send that would block and a send that is complete are the same
  step, since either way nothing follows it. A reference is to a client (`Use`)
  or, in INVITE, to a channel (`UseChannel`), which its last member takes along.
  `before`, `heard`, `struck` and `kind` are history for the properties.
- A send that fails inside `Channel::broadcast` or the loop of `handleNICK` always
  ends in `fault`, when the loop goes on from the element that is gone. Removals
  within removals therefore never get to the end of their handler in the model,
  and nothing can be said of the state they would leave. What the properties of
  `Sending` say of them they say of every step up to that fault: the sweeps,
  announcements and erasures on the stack at the time.
- `Stopped` and `Quiet` are steps without effect of a process that has died, or
  whose bounded number of connections is used up, so that TLC can look for
  deadlocks anywhere else.

## What the runs check

Three specifications have fairness.

- `LineBuffer`: weak fairness of the server's steps on one client. `poll()` is
  level-triggered: a descriptor with bytes, an end of file or a reset is reported
  again by every call until it is read or closed (that the loop gets to it is
  what `process` shows).
- `ServerProcess`: weak fairness of the steps of the process, which runs on, and
  strong fairness of the return of `poll()`: when something is ready it may fail
  for want of memory, but not for ever. Nothing is assumed of the peers or of
  SIGINT.
- `Sending`: weak fairness of the next instruction of the handler. No handler
  waits: sockets are not blocking.

The abstract `LineStream` and `EventLoop` state their own fairness, per command
and per client; that the steps refine theirs is proved, that the fairness is
implied is what the runs `lines` and `process` check.

| Run | Instance | Shows |
|---|---|---|
| `registry` | 3 descriptors, 2 nicknames, 5 connections | `NicknamesUnique`, `RegistrationComplete` (registered iff password, nickname and user name), `WelcomedOnce` (001 in the step that registers and in no other) |
| `modes` | 2 descriptors, 3 connections, 1 channel, all flags, limits 0, 1, 2, a key | `SettingsInitialised`, `AdmissionControl` (of +i and +l; that the key given is the key set is not stated); the server implements the registry (`RegistrySpec`) and the promise about channels (`AccessSpec`), and keeps its type |
| `channels` | 2 descriptors, 3 connections, 2 channels, topics, flag i | `MembersLive`, `DisconnectSweeps` (members and operators; an invitation stays, see `invited_only`), `AccessSpec` over several channels |
| `crowd` | 3 descriptors, 4 connections, 1 channel, flag o | `MembersLive`, `OperatorsAreMembers`, `MembershipAnnounced` |
| `lines` | streams of up to 5 bytes of two letters, CR and LF; reads of 1 to 3 | `StreamSpec` (the commands handled are the lines of the stream, in order, once, all of them in the end), `HoldsUnfinishedLine`, `LineTypeOK` |
| `process` | descriptors 2 and 3 for clients, 2 connections waiting, 2 reads a client | `EntriesMatch`, `EventsCurrent`, `ServesOnlyBound`, `AllClosed`, `ProcessTypeOK`; `EventLoopSpec` (nobody waits forever) and `StopsWhenWoken` (SIGINT is obeyed at the next event even if it came just before `poll`) |
| `sending` | 3 clients, 2 channels, 2 removals of one client at once, 2 calls of `send` a message | `NoStaleMembers`, `DeparturesAnnounced`, `LoneFailureContained`, `OverflowNeedsTwo`, `HandlersReturn`, `SendingTypeOK` |

`AccessSpec` is the strongest of the first four. `ChannelAccess` says, of connections: one
enters a channel only by its own step; becomes operator by entering only when the
channel has no members and no settings; loses membership and status only by its
own leaving or by an operator; and operators, settings and the members that
others lose change only by a connection that is an operator, or was one when the
MODE command it is still carrying out began.

**Bounds and why they are enough.** `MaxConns` is one more than the number of
descriptors (two more in `registry`), so that at least one descriptor is reused
while the other clients and their channels live on, which is what staleness
needs. Two clients are an operator and another; three allow a member that is
neither sender nor target and a second operator. Two channels allow a client to
be in one, both or the wrong one. Limits 1 and 2 against two clients reach
below, at and above the limit. With one key the only wrong key is the empty
one; a wrong key that is not empty is refused by the same disjunct. `Flags` splits the modes over the
runs; all five are together in `modes`.

Five bytes hold a line ended by CR LF, cut between the two, an empty line and an
unfinished one, and every order of CR and LF that the search for the delimiter
tells apart; a read of at most three bytes leaves some behind. Two client
descriptors show an entry skipped after an erasure, an event moved up by the
removal of an earlier entry, `revents` cleared in the wrong entry, an accept at
the limit of descriptors and a descriptor reused in the same round; the
invariants of `process` are proved for any number. Three clients in a channel
are one that sends, one that breaks before or after another, and one that must
hear of it. That is enough for removals within removals to matter: an operator
kicks 4 from channel 2, whose other members are 5 and itself, 6; 5 is broken, and
is removed from within the announcement; its farewell in channel 1 finds 4
broken, which is removed in turn. Now two clients are half removed and 6 has not
yet been told that 4 has left channel 2; another run of the same kind has a
client taken out of its channel with both removals still on the stack. With
`MaxDepth` 2 a removal is entered again while the same one is under way, which is
all that its repetition adds; `Writes` 2 lets the connection break in the middle
of a message.

**Symmetry and view.** Nicknames, channel names and keys are only compared for
equality; descriptors are ordered (`accept`, lookups) and are not symmetric. The
view leaves out `sent` and `actor`, which no action reads and no property
mentions unprimed, and identifies the states of a dead process.

### Where the code does not do what the repository says

| Run | Claim | What happens |
|---|---|---|
| `invited_only` | testing.md:54, a client that was not invited cannot join under +i | `Channel::removeClient` leaves the descriptor in `_authorizedClients`; when its holder disconnects, the next connection on the descriptor is let in |
| `no_empty_channel` | README_2.md:48, a channel without clients is removed | an operator kicks the last member, itself: `handleKICK` does not erase the channel, which keeps its modes; its name is then joined without the operator status that its creator would get. Any later disconnection erases it (`DisconnectSweeps`) |
| `registered_first` | README.md:179, a client that has not sent NICK/USER can do nothing else | the gate of `handleMessage` is the password; PRIVMSG to a nickname and NOTICE are relayed |
| `closed_cleanly` | Server.cpp:316, on the call of `removeClient` in `sendToClient`: closes the connection properly ("Ferme proprement la connexion") | the caller still refers to what was erased: `Channel::broadcast` increments an iterator to the member, the welcome and the lists of JOIN and PART go on with the `Client`, `handleNICK` iterates over `_db_clients`, INVITE uses a channel whose only member it was sending to (Commands.cpp:846). In a build with g++ the server died of a segmentation fault when the last member of a channel was reset before a PRIVMSG to it was handled, and of an exhausted stack with two of them; with the broken member in the middle it went on |
| `lookups_checked` | Commands.cpp:811, the existence of the channel is verified | INVITE (824) and TOPIC (769) use `_channels.end()` |

Two more, which no run states. README.md:62 limits a message to 512 characters: the
buffer takes a line of any length (`HoldsUnfinishedLine` says what it holds, not
how much). A send that would block drops the rest of the message and keeps the
client, so that its next message begins inside a line.

## What is proved

Every safety property of the runs that pass, and the steps of every refinement,
for every value of the constants: any number of descriptors, connections,
nicknames, channels, keys, limits and topics; streams of any length in reads of
any size; any depth of removals, up to the first use of something erased. The
assumptions are those the modules name: descriptors and limits are natural numbers; the empty
name, key and topic are none of the others; there are finitely many descriptors
(the members of a channel are counted against its limit, and `Sending` and the
iterators of the code go over them in order); CR, LF and the letters differ; the
bounds are positive numbers; the listening socket has not the largest
descriptor.

- **`RegistryProofs`.** `RegistryInv` is inductive for `RegistrySpec`. The two
  properties are not inductive alone: uniqueness needs that an entry that is
  absent is blank (`AbsentIsBlank`), completeness that nothing but the password
  comes before the password (`PasswordFirst`); `SerialsDistinct` makes `conn` an
  identity. All three handlers are an update of one entry, so the proof is one
  lemma about that (`EntryReplaced`) and one about removal (`EntryErased`), and
  an instance of it per handler. `NicknamesAreUnique`, `RegistrationIsComplete`,
  `RegistryTypeCorrect` follow, and `EachIsWelcomedOnce`, by what each handler
  does to `registered` of an entry and to `sent`.
- **`IrcServerProofs`.** `ServerInv` is inductive for `Spec`: `RegistryInv`; every
  channel is good (`GoodChannel`: its type, live members, operators within
  members, settings initialised); and `LoopInv` about the loop in progress. They
  need each other: that a member stays registered comes from the registry; that
  the channel of a MODE loop still exists from the fact that no connection ends
  meanwhile; that an operator made by +o is a member from the test in the same
  iteration; that removal leaves no pointer behind from going over all channels.
  The proof is by lemmas about the operations on one channel (`RemoveFromGood`,
  `AddClientGood`, ...), one about replacing one channel (`ChannelReplaced`), one
  about a client leaving all of them (`Removal`) and one about a step of the
  registry under them (`RegistryStep`), then one lemma per handler.
  `TypeCorrect`, `MembersAreLive`, `OperatorsStayMembers`
  and `SettingsAreInitialised` follow. `LoopInv` itself is no result: it says
  that the client served and the channel of MODE are there while the loop runs,
  which in `IrcServer`, where no send fails, is by construction. What a failing
  send does to those loops is in `Sending`, and there they do use the client
  after it is gone (`closed_cleanly`).
- `ServerImplementsRegistry`: `Spec => RegistrySpec`, by the effect of each
  handler on `registry`; so the registry's theorems hold in the server
  (`ServerNicknamesAreUnique`).
- **`IrcServerStepProofs`.** What a step may never do. Each step of the server is
  of one of five kinds (`StepsHaveKinds`): it leaves every channel as it is
  (`Aside`), ends a connection (`Ends`), lets the one served enter a channel
  (`Enters`) or takes it out of one (`Leaves`), or changes a channel for one of
  its operators, adding no member (`Governs`). The properties are proved of the kinds and not of the
  handlers. They need `ServerInv` and that a name without a channel has no
  settings either (`Blank`: `erase` takes everything with it), without
  which a channel made by JOIN would not be a fresh one. `DisconnectionsSweep` is
  what removal does to every channel; `AdmissionIsControlled` adds that the tests
  of JOIN and its entry are about the same state, with one member more than the
  number compared to the limit; `MembershipIsAnnounced` that who remains is in
  the broadcast. `ServerImplementsAccess` maps descriptors to
  connections: because no two live connections have the same `conn`
  (`SerialsDistinct`) and every member is live, a change of a set of descriptors
  is the same change of the set of connections, and a descriptor reused is
  another member.
- **`SendingProofs`.** The stack `todo` is shortened, or its first instruction is
  replaced by a few (`Popped`, `Shifted`): one lemma per instruction says which
  (`Executes`), and an invariant about the stack is carried to the instructions
  behind, then shown for the new ones. `MembersNeverStale` needs what an
  erasure relies on: the sweep above it has not passed a channel that the client
  is still in, or is about to take it out (`ErasedSwept`).
  `AllDeparturesAnnounced` needs that whom a broadcast has not reached is still
  ahead of its iterator, or is being removed itself (`Told`, `StillTells`): this
  is where iterating in the order of descriptors matters, and where a
  removal that interrupts a broadcast must not lose a listener.
  `OverflowTakesTwo` needs the shape of the stack while removals are nested
  (`Framed`: above an erasure, each call stands on the one that made it).
  `LoneFailuresContained` needs that until a send fails everything the
  instructions refer to is there, and that a handler of one message has nothing
  left to do behind it, and that nobody leaves a channel before INVITE uses it
  again (`AllSound`).
- **`LineBufferProofs`.** `LineInv` relates the buffer to the stream: there is a
  position, the end of a line or the beginning, such that the buffer is what has
  been received behind it and what was served is the commands before it (`Cut`).
  Between two reads there is no LF in the buffer; at the end of file it may be
  that all has been served. `find` finds the first line end behind that position,
  so one turn of the loop moves it to the next (`EndBefore`, `CommandEnds`).
  `UnfinishedLineHeld` and `LinesTypeCorrect` follow, and `LinesFollowStream`,
  the steps of the refinement of `LineStream`, which numbers a command by the
  line ends before it, not by recursion on the stream.
- **`CloseFdsProofs`.** `close_fds` closes everything, on any clients and called
  any number of times (`EveryDescriptorClosed`). `AllClosed` needs what holds in
  the middle of the loop: each position passed is a key by now and its client
  closed. At the end the positions passed are as many as the keys, so they are
  the keys.
- **`ServerProcessProofs`.** `ProcessInv` is inductive for `ServerProcess`, under
  `ServerFdAssumption` and `ProcessAssumption` (the bounds are positive numbers,
  the listening socket has not the largest descriptor). It says how `_pollfds`,
  `_db_clients` and the open descriptors go together (`Vector`, `UpInv`), that
  the events ahead of the index are current, which system calls have been made
  (`StartInv`), and `CloseInv`. `EventsCurrent`, that the events shown ahead
  of the index are still events of their sockets, needs `Vector`: after a removal
  the entry at a position was at that position or behind it, and it is not the
  one just served, because no two entries share a descriptor. The erasure is by
  the order of the entries kept (`InOrder`); that there is such an order, that it
  moves entries up only and loses none is `InOrderEnumerates`, by induction, made
  from the existence of least numbers (`LeastNumber` of `NumberProofs`) because
  the library's induction rules take operators. `ProcessTypeCorrect`, `EntriesAlwaysMatch`,
  `EventsStayCurrent`, `ServesBound` and `NothingLeftOpen` follow.
  `ProcessFollowsLoop` gives the steps of the refinement of `EventLoop`: a client
  that is not served is let go only if its connection is broken or has ended with
  nothing left to read, which is why the events must be current for hang-ups as
  well.

**Only model-checked**, because liveness under fairness and `ENABLED` are out of
the prover's reach: `StopsWhenWoken`, `HandlersReturn`, and in `StreamSpec` and
`EventLoopSpec` the fairness of the abstract specification (their initial states
and steps are `LinesFollowStream` and `ProcessFollowsLoop`). The properties of
the runs that end in a violation are false and have no theorem.

## Not modelled, and the plan

What is left, in order of importance:

1. The safety facts that liveness rests on, as action properties with proofs:
   that a scan of `run` only moves forward, and skips no entry but the one that
   an erasure moves under the index; that an instruction of a handler makes the
   call stack and what it still has to visit smaller, but for a send that fails.
2. The pairing of names and keys in JOIN (below), as a pure function in a module
   of its own.

Not modelled:

- The syntax of nicknames and user names and the splitting of arguments: string
  functions. In `IrcServer` their outcome is a choice. The one hazard in them,
  that JOIN drops blank channel names and keeps blank keys (Commands.cpp:408), so
  that the keys no longer stand beside their channels, is therefore out of sight:
  which key a channel is tried with is a choice as well.
- The wording of replies and the line ends of messages sent, debug output, the
  test programs: presentation.
- What the program does after undefined behaviour: `IrcServer` and `Sending` say
  when it is reached and nothing of what comes after.
- Addresses, ports, `fcntl` failing on a socket just accepted, `send()` returning
  0 for a message that is not empty, the exhaustion of memory other than in
  `poll()`.

## Running it

    tlc -config MCModes.cfg MCIrcServer
    tlc -config MCProcess.cfg MCProcess
    tlapm IrcServerProofs.tla
