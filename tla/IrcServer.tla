----------------------------- MODULE IrcServer -----------------------------
(***************************************************************************)
(* The ft_irc server: the registry of connections together with the        *)
(* channels and the handlers of every command.                             *)
(*                                                                         *)
(* The server is single-threaded: the poll loop serves one descriptor at a *)
(* time and a handler runs to completion.  A handler without a loop is one *)
(* action.  JOIN, PART and MODE go through a list (channels, flags) and    *)
(* return early on some items of it: they are a first action that makes    *)
(* the checks before the loop and sets `busy', one action per iteration,   *)
(* and the end of the loop.  While busy no other command is served, and    *)
(* the list, chosen item by item, is any list a client can send.           *)
(*                                                                         *)
(* A member of a channel is recorded in Channel::_clients as a descriptor  *)
(* with a pointer to a Client object.  The object is named by its `conn',  *)
(* so that a pointer that outlives its object is a number that is not the  *)
(* conn of clients[f] any more.  _operators and _authorizedClients are     *)
(* sets of descriptors in the code, with nothing to say whose descriptor   *)
(* it was when it was put there.                                           *)
(*                                                                         *)
(* In this module every send succeeds in full: sendToClient's own failure  *)
(* paths are left to a module of their own.                                *)
(***************************************************************************)
EXTENDS Registry, FiniteSets

CONSTANTS
  Names,     \* the well-formed channel names clients use
  Keys,      \* the channel keys
  NoKey,     \* the empty key
  LimitArgs, \* the arguments of +l, one that is no positive number standing as 0
  Topics,    \* the topics
  NoTopic,   \* the empty topic
  Flags      \* bound: the mode flags clients use, among "i", "t", "o", "k", "l"

\* A process has finitely many descriptors.
ASSUME ServerAssumption ==
  /\ IsFiniteSet(Fds)
  /\ NoName \notin Names
  /\ NoKey \notin Keys
  /\ NoTopic \notin Topics
  /\ LimitArgs \subseteq Nat
  /\ Flags \subseteq {"i", "t", "o", "k", "l"}

VARIABLES
  channels, \* _channels; a name with no entry maps to NoChannel
  busy,     \* the loop in progress in a handler, or Idle
  actor,    \* the connection served in the last step
  crashed   \* the process has died of undefined behaviour

vars == <<clients, accepted, sent, channels, busy, actor, crashed>>
server == <<channels, busy, crashed>>

-----------------------------------------------------------------------------
(* Channels *)

\* The value of _userLimit that the constructor leaves: none in particular.
Unset == -1

\* No entry in _channels.
NoChannel ==
  [exists |-> FALSE, clients |-> [f \in Fds |-> NoConn], operators |-> {},
   authorized |-> [f \in Fds |-> NoConn],
   modeI |-> FALSE, modeT |-> FALSE, modeK |-> FALSE, modeL |-> FALSE,
   pass |-> NoKey, userLimit |-> Unset, topic |-> NoTopic]

\* What the constructor Channel(name) leaves.
NewChannel == [NoChannel EXCEPT !.exists = TRUE]

\* authorized[f] # NoConn says that f is in _authorizedClients; the value is
\* the connection the invitation was for, which the code does not record.
Channel ==
  [exists : BOOLEAN, clients : [Fds -> Nat], operators : SUBSET Fds,
   authorized : [Fds -> Nat],
   modeI : BOOLEAN, modeT : BOOLEAN, modeK : BOOLEAN, modeL : BOOLEAN,
   pass : Keys \cup {NoKey}, userLimit : Int, topic : Topics \cup {NoTopic}]

hasClient(ch, f) == ch.clients[f] # NoConn

\* Mutant of isOperator: every member is one.
isOperatorMember(ch, f) == hasClient(ch, f)

isOperator(ch, f) == f \in ch.operators
isAuthorizedClient(ch, f) == ch.authorized[f] # NoConn

Members(ch) == {f \in Fds : hasClient(ch, f)}

addClient(ch, f) == [ch EXCEPT !.clients[f] = clients[f].conn]

\* Mutant of removeFrom: the operator status is forgotten.
removeFromMembers(ch, f) == [ch EXCEPT !.clients[f] = NoConn]

\* Channel::removeClient takes the operator status away with the membership,
\* but leaves the invitation.
removeFrom(ch, f) ==
  [ch EXCEPT !.clients[f] = NoConn, !.operators = @ \ {f}]

eraseIfEmpty(ch) == IF Members(ch) = {} THEN NoChannel ELSE ch

\* One message for each member of the channel but the excepted one, sent
\* through the pointers it keeps.
broadcast(ch, n, kind, from, excepted) ==
  {Message(kind, from, ch.clients[g], n) : g \in Members(ch) \ excepted}

\* Mutant of removeClientFromAllChannels: the pointers to the client stay.
removeClientFromNone(f) == [n \in Names |-> eraseIfEmpty(channels[n])]

\* Mutant of removeClientFromAllChannels: only the client's channels are examined.
removeClientFromOwn(f) ==
  [n \in Names |-> IF hasClient(channels[n], f)
                   THEN eraseIfEmpty(removeFrom(channels[n], f))
                   ELSE channels[n]]

\* removeClientFromAllChannels erases every channel without members that it
\* meets, whether or not the client was in it.
removeClientFromAllChannels(f) ==
  [n \in Names |-> eraseIfEmpty(IF hasClient(channels[n], f)
                                THEN removeFrom(channels[n], f)
                                ELSE channels[n])]

\* Mutant of Farewell: a departure is announced by QUIT alone.
FarewellQuit(f, kinds) ==
  UNION {broadcast(channels[n], n, kind, clients[f].conn, {f}) :
           kind \in kinds \ {"PART"}, n \in {k \in Names : hasClient(channels[k], f)}}

Farewell(f, kinds) ==
  UNION {broadcast(channels[n], n, kind, clients[f].conn, {f}) :
           kind \in kinds, n \in {k \in Names : hasClient(channels[k], f)}}

\* Mutant of removeClient: the Client object is kept for the next connection.
removeClientRecycled(f, farewell) ==
  /\ clients' = [clients EXCEPT ![f] = NewClient(@.conn)]
  /\ UNCHANGED accepted
  /\ channels' = removeClientFromAllChannels(f)
  /\ sent' = Farewell(f, farewell)

removeClient(f, farewell) ==
  /\ erase(f)
  /\ channels' = removeClientFromAllChannels(f)
  /\ sent' = Farewell(f, farewell)

-----------------------------------------------------------------------------
(* Serving a client *)

Idle == [op |-> "none", fd |-> 0, chan |-> NoName, adding |-> FALSE]

\* A command of the client on f is dispatched by handleMessage.
Ready(f) == Open(f) /\ busy = Idle /\ ~crashed

\* ... past the test for the password that precedes every command but PASS
\* and QUIT.
Admitted(f) == Ready(f) /\ clients[f].hasPassword

\* The client is answered and nothing changes.
Answer(f, codes) ==
  /\ \E code \in codes : Reply(f, code)
  /\ UNCHANGED <<registry, server>>

Ignore == Silent /\ UNCHANGED <<registry, server>>

\* The name of a channel that does not exist is looked up and the result,
\* _channels.end(), used: the reply of a client that is not in the channel if
\* the memory found there reads as an empty channel, the end of the process if not.
Dereference(f) ==
  \/ Answer(f, {"442"})
  \/ /\ crashed' = TRUE
     /\ Silent
     /\ UNCHANGED <<registry, channels, busy>>

\* A handler starts its loop, goes on to the next item, and ends.
StartLoop(f, op, n, adding) ==
  /\ busy' = [op |-> op, fd |-> f, chan |-> n, adding |-> adding]
  /\ Silent
  /\ UNCHANGED <<registry, channels, crashed>>

InLoop(f, op) == busy.op = op /\ busy.fd = f /\ ~crashed

Continue == UNCHANGED <<registry, busy, crashed>>

EndLoop(f) ==
  /\ busy # Idle /\ busy.fd = f /\ ~crashed
  /\ busy' = Idle
  /\ Silent
  /\ UNCHANGED <<registry, channels, crashed>>

\* Commands that handleMessage deals with itself: CAP is ignored, an unknown
\* command refused, and every command but PASS and QUIT before the password.
handleMessage(f) ==
  /\ Ready(f)
  /\ \/ Ignore
     \/ Answer(f, {"421"})
     \/ ~clients[f].hasPassword /\ Answer(f, {"451"})

-----------------------------------------------------------------------------
(* Connections *)

Accept(f) ==
  /\ ~crashed /\ busy = Idle
  /\ acceptNewClient(f)
  /\ UNCHANGED server

\* End of file, a hang-up or an error on the socket of f.  Commands still in
\* the buffer at end of file are served first, as commands.
Hangup(f) == Ready(f) /\ removeClient(f, {"PART"}) /\ UNCHANGED <<busy, crashed>>

\* Mutant of handleQUIT: the client goes, its channels are not told.
handleQUITErase(f) == Ready(f) /\ erase(f) /\ Silent /\ UNCHANGED server

\* A registered client is announced twice to each of its channels, by PART and
\* by QUIT; the removal of a client that is not registered announces nothing.
handleQUIT(f) ==
  /\ Ready(f)
  /\ removeClient(f, IF clients[f].registered /\ clients[f].hasPassword
                     THEN {"PART", "QUIT"} ELSE {"PART"})
  /\ UNCHANGED <<busy, crashed>>

\* A wrong password ends in removeClient, which goes over all channels.
Password(f) ==
  /\ Ready(f)
  /\ handlePASS(f)
  /\ channels' = IF clients'[f] = Absent THEN removeClientFromAllChannels(f)
                                         ELSE channels
  /\ UNCHANGED <<busy, crashed>>

Nickname(f) == Ready(f) /\ handleNICK(f) /\ UNCHANGED server

Username(f) == Ready(f) /\ handleUSER(f) /\ UNCHANGED server

handlePING(f) == Admitted(f) /\ Answer(f, {"409", "PONG"})

handlePONG(f) == Admitted(f) /\ Ignore

-----------------------------------------------------------------------------
(* JOIN and PART *)

handleJOIN(f) ==
  /\ Admitted(f)
  /\ \/ ~clients[f].registered /\ Answer(f, {"451"})
     \/ clients[f].registered /\ Answer(f, {"461"})
     \/ clients[f].registered /\ StartLoop(f, "JOIN", NoName, FALSE)

\* Mutant of Full: one too many.
FullAfter(ch) == ch.modeL /\ Cardinality(Members(ch)) > ch.userLimit

\* The obstacles to joining ch, in the order in which they are looked for.
Uninvited(ch, f) == ch.modeI /\ ~isAuthorizedClient(ch, f)
WrongKey(ch, key) == ch.modeK /\ (key = NoKey \/ key # ch.pass)
Full(ch) == ch.modeL /\ Cardinality(Members(ch)) >= ch.userLimit

\* Mutant of Joined: the operators are not identified by descriptor.
JoinedByConn(n, f) ==
  IF channels[n].exists THEN channels[n]
                        ELSE [NewChannel EXCEPT !.operators = {clients[f].conn}]

\* The channel a client joins is created if need be, with it as operator.
Joined(n, f) ==
  IF channels[n].exists THEN channels[n]
                        ELSE [NewChannel EXCEPT !.operators = {f}]

\* One channel of the list, with the key in the same position of the keys.
joinChannel(f, n, key) ==
  LET ch == Joined(n, f)
      become(new, messages) ==
        channels' = [channels EXCEPT ![n] = new] /\ sent' = messages
  IN  /\ InLoop(f, "JOIN")
      /\ \/ Uninvited(ch, f) /\ become(ch, {Numeric(f, "473")})
         \/ /\ ~Uninvited(ch, f) /\ WrongKey(ch, key)
            /\ become(ch, {Numeric(f, "475")})
         \/ /\ ~Uninvited(ch, f) /\ ~WrongKey(ch, key) /\ Full(ch)
            /\ become(ch, {Numeric(f, "471")})
         \/ /\ ~Uninvited(ch, f) /\ ~WrongKey(ch, key) /\ ~Full(ch)
            /\ IF hasClient(ch, f)
               THEN become(ch, {})
               ELSE LET new == addClient(ch, f)
                    IN  become(new, broadcast(new, n, "JOIN", clients[f].conn, {}))
      /\ Continue

\* A list item that is no channel name.
joinInvalid(f) ==
  InLoop(f, "JOIN") /\ Reply(f, "476") /\ UNCHANGED <<registry, server>>

handlePART(f) ==
  /\ Admitted(f)
  /\ \/ Answer(f, {"461"})
     \/ StartLoop(f, "PART", NoName, FALSE)

partUnknown(f) ==
  InLoop(f, "PART") /\ Reply(f, "403") /\ UNCHANGED <<registry, server>>

\* One channel of the list; the last member to leave takes the channel along.
partChannel(f, n) ==
  /\ InLoop(f, "PART")
  /\ channels[n].exists
  /\ IF hasClient(channels[n], f)
     THEN /\ channels' = [channels EXCEPT ![n] = eraseIfEmpty(removeFrom(@, f))]
          /\ sent' = broadcast(channels[n], n, "PART", clients[f].conn, {f})
     ELSE UNCHANGED channels /\ Reply(f, "442")
  /\ Continue

-----------------------------------------------------------------------------
(* Messages *)

\* The client that getClientByNickName finds: the first that has the nickname,
\* if any.  The empty nickname is that of every client that has sent no NICK.
First(nick) == {g \in Holders(nick) : \A h \in Holders(nick) : g <= h}

\* Both commands relay to the first client that has the nickname; PRIVMSG to a
\* channel asks for membership, NOTICE does not, and NOTICE never answers.
RelayToNick(f, kind, nick) ==
  /\ Holders(nick) # {}
  /\ sent' = {Message(kind, clients[f].conn, clients[g].conn, NoName) :
                g \in First(nick)}
  /\ UNCHANGED <<registry, server>>

RelayToChannel(f, kind, n) ==
  /\ channels[n].exists
  /\ sent' = broadcast(channels[n], n, kind, clients[f].conn, {f})
  /\ UNCHANGED <<registry, server>>

handlePRIVMSG(f) ==
  /\ Admitted(f)
  /\ \/ Answer(f, {"411", "412", "403"})
     \/ \E n \in {k \in Names : channels[k].exists} :
          \/ hasClient(channels[n], f) /\ RelayToChannel(f, "PRIVMSG", n)
          \/ ~hasClient(channels[n], f) /\ Answer(f, {"404"})
     \/ \E nick \in Nicks :
          \/ RelayToNick(f, "PRIVMSG", nick)
          \/ Holders(nick) = {} /\ Answer(f, {"401"})

handleNOTICE(f) ==
  /\ Admitted(f)
  /\ \/ Ignore
     \/ \E n \in Names : RelayToChannel(f, "NOTICE", n)
     \/ \E nick \in Nicks : RelayToNick(f, "NOTICE", nick)

-----------------------------------------------------------------------------
(* Operators' commands *)

\* The channel is left without its target, and is not erased when that leaves
\* it empty.  The target is not among those who are told.
handleKICK(f) ==
  /\ Admitted(f)
  /\ \/ Answer(f, {"403"})
     \/ \E n \in {k \in Names : channels[k].exists} :
          \/ ~isOperator(channels[n], f) /\ Answer(f, {"482"})
          \/ \E nick \in Nicks \cup {NoNick} :
               /\ isOperator(channels[n], f)
               /\ \/ First(nick) = {} /\ Answer(f, {"401"})
                  \/ \E g \in First(nick) :
                       IF hasClient(channels[n], g)
                       THEN LET ch == removeFrom(channels[n], g)
                            IN  /\ channels' = [channels EXCEPT ![n] = ch]
                                /\ sent' = broadcast(ch, n, "KICK", clients[f].conn, {})
                                /\ Continue
                       ELSE Answer(f, {"441"})

handleTOPIC(f) ==
  /\ Admitted(f)
  /\ \/ Answer(f, {"403"})
     \/ Dereference(f)
     \/ \E n \in {k \in Names : channels[k].exists} :
          \/ ~hasClient(channels[n], f) /\ Answer(f, {"442"})
          \/ /\ hasClient(channels[n], f)
             /\ Answer(f, {IF channels[n].topic = NoTopic THEN "331" ELSE "332"})
          \/ /\ hasClient(channels[n], f) /\ ~isOperator(channels[n], f)
             /\ Answer(f, {"482"})
          \/ \E topic \in Topics \cup {NoTopic} :
               /\ hasClient(channels[n], f) /\ isOperator(channels[n], f)
               /\ channels' = [channels EXCEPT ![n].topic = topic]
               /\ sent' = broadcast(channels[n], n, "TOPIC", clients[f].conn, {})
               /\ Continue

\* The invitation is to whoever holds the descriptor g from now on.
authorize(ch, g) == [ch EXCEPT !.authorized[g] = clients[g].conn]

handleINVITE(f) ==
  /\ Admitted(f)
  /\ \/ Answer(f, {"461", "403"})
     \/ \E nick \in Nicks : Holders(nick) = {} /\ Answer(f, {"401"})
     \/ (\E nick \in Nicks : Holders(nick) # {}) /\ Dereference(f)
     \/ \E nick \in Nicks : \E g \in First(nick) :
        \E n \in {k \in Names : channels[k].exists} :
          \/ ~hasClient(channels[n], f) /\ Answer(f, {"442"})
          \/ /\ hasClient(channels[n], f) /\ hasClient(channels[n], g)
             /\ Answer(f, {"443"})
          \/ /\ hasClient(channels[n], f) /\ ~hasClient(channels[n], g)
             /\ IF isOperator(channels[n], f)
                THEN /\ channels' = [channels EXCEPT ![n] = authorize(@, g)]
                     /\ sent' = {Message("341", NoConn, clients[h].conn, n) : h \in {f, g}}
                     /\ Continue
                ELSE Answer(f, {"482"})

\* The operator status of the client is looked at once, before the flags.
handleMODE(f) ==
  /\ Admitted(f)
  /\ \/ Answer(f, {"461", "501", "403"})
     \/ clients[f].nickname # NoNick /\ Answer(f, {"221"})
     \/ \E n \in {k \in Names : channels[k].exists} :
          \/ Answer(f, {"324"})
          \/ ~isOperator(channels[n], f) /\ Answer(f, {"482"})
          \/ \E adding \in BOOLEAN :
               isOperator(channels[n], f) /\ StartLoop(f, "MODE", n, adding)

\* A flag takes effect at once and without a word to the channel.
setChannel(f, ch) ==
  /\ InLoop(f, "MODE")
  /\ channels' = [channels EXCEPT ![busy.chan] = ch]
  /\ Silent
  /\ Continue

\* A flag that cannot be applied ends the loop; the flags before it stay.
abandon(f, codes) ==
  /\ InLoop(f, "MODE")
  /\ \E code \in codes : Reply(f, code)
  /\ busy' = Idle
  /\ UNCHANGED <<registry, channels, crashed>>

modeFlagI(f) == setChannel(f, [channels[busy.chan] EXCEPT !.modeI = busy.adding])

modeFlagT(f) == setChannel(f, [channels[busy.chan] EXCEPT !.modeT = busy.adding])

modeFlagO(f) ==
  \E nick \in Nicks :
    \/ First(nick) = {} /\ abandon(f, {"401"})
    \/ \E g \in First(nick) :
         LET ch == channels[busy.chan]
         IN  IF hasClient(ch, g)
             THEN setChannel(f, [ch EXCEPT !.operators =
                                   IF busy.adding THEN @ \cup {g} ELSE @ \ {g}])
             ELSE abandon(f, {"441"})

\* Mutant of modeFlagK: -k clears the key and leaves the mode.
modeFlagKHalf(f) ==
  LET ch == channels[busy.chan]
  IN  \/ ~busy.adding /\ setChannel(f, [ch EXCEPT !.pass = NoKey])
      \/ \E key \in Keys :
           busy.adding /\ setChannel(f, [ch EXCEPT !.pass = key, !.modeK = TRUE])

modeFlagK(f) ==
  LET ch == channels[busy.chan]
  IN  \/ /\ ~busy.adding
         /\ setChannel(f, [ch EXCEPT !.pass = NoKey, !.modeK = FALSE])
      \/ \E key \in Keys :
           busy.adding /\ setChannel(f, [ch EXCEPT !.pass = key, !.modeK = TRUE])

modeFlagL(f) ==
  LET ch == channels[busy.chan]
  IN  \/ /\ ~busy.adding
         /\ setChannel(f, [ch EXCEPT !.userLimit = 0, !.modeL = FALSE])
      \/ \E limit \in LimitArgs :
           /\ busy.adding
           /\ IF limit <= 0
              THEN abandon(f, {"501"})
              ELSE setChannel(f, [ch EXCEPT !.userLimit = limit, !.modeL = TRUE])

\* An unknown flag, or one whose parameter is missing.
modeFlagBad(f) == abandon(f, {"501", "461"})

modeFlag(f) ==
  /\ InLoop(f, "MODE")
  /\ \/ "i" \in Flags /\ modeFlagI(f)
     \/ "t" \in Flags /\ modeFlagT(f)
     \/ "o" \in Flags /\ modeFlagO(f)
     \/ "k" \in Flags /\ modeFlagK(f)
     \/ "l" \in Flags /\ modeFlagL(f)
     \/ modeFlagBad(f)

-----------------------------------------------------------------------------
(* The specification *)

ServerInit ==
  /\ Init
  /\ channels = [n \in Names |-> NoChannel]
  /\ busy = Idle
  /\ actor = NoConn
  /\ crashed = FALSE

Connection(f) ==
  \/ Hangup(f) \/ handleQUIT(f) \/ Password(f) \/ Nickname(f) \/ Username(f)
  \/ handlePING(f) \/ handlePONG(f) \/ handleMessage(f)

Joining(f) ==
  \/ handleJOIN(f) \/ joinInvalid(f)
  \/ \E n \in Names, key \in Keys \cup {NoKey} : joinChannel(f, n, key)

Parting(f) ==
  \/ handlePART(f) \/ partUnknown(f)
  \/ \E n \in Names : partChannel(f, n)

Relaying(f) == handlePRIVMSG(f) \/ handleNOTICE(f)

Governing(f) ==
  \/ handleKICK(f) \/ handleTOPIC(f) \/ handleINVITE(f)
  \/ handleMODE(f) \/ modeFlag(f)

Serve(f) ==
  \/ Connection(f) \/ Joining(f) \/ Parting(f) \/ Relaying(f) \/ Governing(f)
  \/ EndLoop(f)

\* Nothing happens any more: the process has died, or the bounded history of
\* connections is over.
Stopped ==
  /\ crashed \/ Quiet
  /\ UNCHANGED vars

Next ==
  \/ \E f \in Fds :
       \/ Accept(f) /\ actor' = accepted'
       \/ Serve(f) /\ actor' = clients[f].conn
  \/ Stopped

Spec == ServerInit /\ [][Next]_vars

-----------------------------------------------------------------------------
(* Properties *)

\* The shape of _channels and of the state of the server.
TypeOK ==
  /\ RegistryTypeOK
  /\ channels \in [Names -> Channel]
  /\ busy \in [op : {"none", "JOIN", "PART", "MODE"}, fd : Nat,
               chan : Names \cup {NoName}, adding : BOOLEAN]
  /\ actor \in Nat
  /\ crashed \in BOOLEAN

\* A channel's Client* (Channel::_clients, Channel.hpp:30) always points to the
\* Client object of the live, registered connection on its descriptor: no
\* disconnection, of whoever and by whichever command, leaves a pointer to an
\* erased object for broadcast (Channel.cpp:42) to follow, and no reuse of the
\* descriptor makes a newcomer a member.
MembersLive ==
  \A n \in Names, f \in Fds :
    hasClient(channels[n], f) =>
      /\ channels[n].exists
      /\ channels[n].clients[f] = clients[f].conn
      /\ clients[f].registered

\* Operator status (Channel::_operators, a set of descriptors apart from the
\* members) never outlives membership, so that the next connection on the
\* descriptor, or a kicked operator that joins again, does not inherit it.
OperatorsAreMembers ==
  \A n \in Names, f \in Fds :
    isOperator(channels[n], f) => hasClient(channels[n], f)

\* The fields that JOIN reads because of a mode (Commands.cpp:466, 474) have
\* been set by then: the limit, which the constructor leaves uninitialised, is
\* a positive number under +l, and there is a key under +k, however the flags
\* of several MODE commands were applied or abandoned.
SettingsInitialised ==
  \A n \in Names :
    /\ channels[n].modeL => channels[n].userLimit > 0
    /\ channels[n].modeK => channels[n].pass # NoKey

\* Whenever a connection ends, no channel without members is left in _channels
\* (removeClientFromAllChannels, Server.cpp:425), the channels the client was not
\* in, or had been kicked from, included; and no channel has the client as a member
\* or an operator.  Its invitations stay (InvitedOnly).
DisconnectSweeps ==
  [][\A f \in Fds : Open(f) /\ clients'[f] = Absent =>
       \A n \in Names :
         /\ channels'[n].exists => Members(channels'[n]) # {}
         /\ ~hasClient(channels'[n], f) /\ ~isOperator(channels'[n], f)]_vars

\* A channel only gains a member that the modes in force let in: one whose
\* descriptor is authorized under +i (Commands.cpp:459), and within the limit
\* under +l (Commands.cpp:474), also after a limit was lowered below the number
\* of members or a channel was emptied without being erased.
AdmissionControl ==
  [][\A n \in Names : \A f \in Members(channels'[n]) \ Members(channels[n]) :
       /\ channels[n].modeI => isAuthorizedClient(channels[n], f)
       /\ channels'[n].modeL =>
            Cardinality(Members(channels'[n])) <= channels'[n].userLimit]_vars

\* Whoever remains in a channel is told of every change of its membership, by a
\* JOIN, PART or KICK of the connection served, whatever command made it (QUIT
\* and every kind of disconnection included).
MembershipAnnounced ==
  [][\A n \in Names : Members(channels'[n]) # Members(channels[n]) =>
       \A g \in Members(channels'[n]) :
         \E kind \in {"JOIN", "PART", "KICK"} :
           Message(kind, actor', clients'[g].conn, n) \in sent']_vars

\* The promise to the users of channels, in terms of connections: membership,
\* operator status and settings change only as ChannelAccess allows.
Access == INSTANCE ChannelAccess WITH
  Default <- [NoChannel EXCEPT !.exists = TRUE],
  member <- [n \in Names |-> {channels[n].clients[f] : f \in Members(channels[n])}],
  oper <- [n \in Names |-> {clients[f].conn : f \in channels[n].operators}],
  settings <- [n \in Names |->
                [channels[n] EXCEPT !.exists = TRUE, !.operators = {},
                                    !.clients = [f \in Fds |-> NoConn]]],
  mandate <- IF busy.op = "MODE" THEN <<clients[busy.fd].conn, busy.chan>> ELSE <<>>

AccessSpec == Access!Spec

-----------------------------------------------------------------------------
(* What the repository says of the program, and the program does not do *)

\* "(+i) Client essaie de join un channel auquel il n'est pas invite (473)"
\* (testing.md:54): under +i only a connection that was invited enters.  An
\* invitation stays with the descriptor when its holder leaves, and the next
\* connection on the descriptor is let in by it.
InvitedOnly ==
  [][\A n \in Names : \A f \in Members(channels'[n]) \ Members(channels[n]) :
       channels[n].modeI => channels[n].authorized[f] = clients[f].conn]_vars

\* "Suppression d'un channel si plus aucun clients connectes" (README_2.md:48):
\* no channel without members is left between two commands.  An operator that
\* kicks itself out as the last member leaves one.
NoEmptyChannel ==
  busy = Idle =>
    \A n \in Names : channels[n].exists => Members(channels[n]) # {}

\* "Garantir qu'un client n'ayabnt pas encore envoye NICK/USER ne peut rien faire
\* d'autre" (README.md:179): no client has a message relayed to another before it
\* is registered.  PRIVMSG to a nickname and NOTICE ask for the password only.
RegisteredFirst ==
  [][\A m \in sent' : m.kind \in {"PRIVMSG", "NOTICE"} /\ m.from \notin {NoConn, m.to} =>
       \E f \in Fds : clients[f].conn = m.from /\ clients[f].registered]_vars

\* "Verification de l'existance d'un client nickname et d'un channel de ce nom"
\* (Commands.cpp:811): the result of looking a channel up is not used when there
\* is no such channel.  INVITE and TOPIC use it.
LookupsChecked == ~crashed
=============================================================================
