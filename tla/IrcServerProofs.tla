-------------------------- MODULE IrcServerProofs --------------------------
(***************************************************************************)
(* Proofs about IrcServer, for every set of descriptors, nicknames,        *)
(* channels, keys, limits and topics, every number of connections and      *)
(* every set of mode flags.                                                *)
(***************************************************************************)
EXTENDS IrcServer, RegistryProofs

-----------------------------------------------------------------------------
(* The inductive invariant *)

\* What is true of one channel, cl being the map of clients it points into.
LiveMembers(ch, cl) ==
  \A f \in Fds : hasClient(ch, f) =>
    ch.exists /\ ch.clients[f] = cl[f].conn /\ cl[f].registered

OperatorsWithin(ch) == \A f \in Fds : isOperator(ch, f) => hasClient(ch, f)

Initialised(ch) ==
  /\ ch.modeL => ch.userLimit > 0
  /\ ch.modeK => ch.pass # NoKey

GoodChannel(ch, cl) ==
  /\ ch \in Channel
  /\ LiveMembers(ch, cl)
  /\ OperatorsWithin(ch)
  /\ Initialised(ch)

ChannelsGood ==
  /\ channels \in [Names -> Channel]
  /\ \A n \in Names : GoodChannel(channels[n], clients)

\* What is true of the loop in progress: whom it serves is connected and, in
\* JOIN, registered; the channel of MODE exists.  The steps of the loops need it
\* to keep ChannelsGood.  It holds because nothing else is served meanwhile and a
\* send does not fail here; what a failing send does to a loop is in Sending.
LoopInv ==
  /\ busy \in [op : {"none", "JOIN", "PART", "MODE"}, fd : Nat,
               chan : Names \cup {NoName}, adding : BOOLEAN]
  /\ busy.op = "none" => busy = Idle
  /\ busy # Idle => busy.fd \in Fds /\ Open(busy.fd)
  /\ busy.op = "JOIN" => clients[busy.fd].registered
  /\ busy.op = "MODE" => busy.chan \in Names /\ channels[busy.chan].exists

CoreInv ==
  /\ RegistryInv
  /\ ChannelsGood
  /\ LoopInv
  /\ crashed \in BOOLEAN

-----------------------------------------------------------------------------
(* Operations on one channel *)

LEMMA NoChannelShape ==
  /\ NoChannel \in Channel
  /\ NoChannel.operators = {}
  /\ NoChannel.modeI = FALSE /\ NoChannel.modeK = FALSE /\ NoChannel.modeL = FALSE
  /\ \A f \in Fds : NoChannel.clients[f] = NoConn
BY DEF NoChannel, Channel, NoConn, Unset

LEMMA NoChannelGood == \A cl : GoodChannel(NoChannel, cl)
BY NoChannelShape DEF GoodChannel, LiveMembers, OperatorsWithin, Initialised,
                      hasClient, isOperator

LEMMA RemoveFromGood ==
  ASSUME NEW cl, NEW ch, GoodChannel(ch, cl), NEW f \in Fds
  PROVE  /\ GoodChannel(removeFrom(ch, f), cl)
         /\ ~hasClient(removeFrom(ch, f), f)
         /\ \A g \in Fds : g # f => (hasClient(removeFrom(ch, f), g) <=> hasClient(ch, g))
<1>. DEFINE new == removeFrom(ch, f)
<1>1. /\ new \in Channel
      /\ \A g \in Fds : new.clients[g] = IF g = f THEN NoConn ELSE ch.clients[g]
      /\ new.operators = ch.operators \ {f}
      /\ new.exists = ch.exists
      /\ new.modeL = ch.modeL /\ new.modeK = ch.modeK
      /\ new.userLimit = ch.userLimit /\ new.pass = ch.pass
  BY DEF removeFrom, GoodChannel, Channel, NoConn
<1>. HIDE DEF new
<1>2. LiveMembers(new, cl)
  BY <1>1 DEF GoodChannel, LiveMembers, hasClient
<1>3. OperatorsWithin(new)
  BY <1>1 DEF GoodChannel, OperatorsWithin, hasClient, isOperator
<1>4. Initialised(new)
  BY <1>1 DEF GoodChannel, Initialised
<1>5. /\ ~hasClient(new, f)
      /\ \A g \in Fds : g # f => (hasClient(new, g) <=> hasClient(ch, g))
  BY <1>1 DEF hasClient
<1>. QED
  BY <1>1, <1>2, <1>3, <1>4, <1>5 DEF GoodChannel, new

LEMMA EraseIfEmptyGood ==
  ASSUME NEW cl, NEW ch, GoodChannel(ch, cl)
  PROVE  GoodChannel(eraseIfEmpty(ch), cl)
BY NoChannelGood DEF eraseIfEmpty

\* A client added to an existing channel, or to one that has just been created
\* with it as its operator.
LEMMA AddClientGood ==
  ASSUME CoreInv, NEW n \in Names, NEW f \in Fds, Open(f), clients[f].registered
  PROVE  GoodChannel(addClient(Joined(n, f), f), clients)
<1>. DEFINE ch == Joined(n, f)
            new == addClient(ch, f)
<1>1. /\ ch \in Channel
      /\ ch.exists = TRUE
      /\ Initialised(ch)
      /\ \A g \in Fds : isOperator(ch, g) => hasClient(ch, g) \/ g = f
      /\ \A g \in Fds : hasClient(ch, g) =>
           ch.clients[g] = clients[g].conn /\ clients[g].registered
  <2>1. CASE channels[n].exists
    BY <2>1 DEF Joined, CoreInv, ChannelsGood, GoodChannel, LiveMembers,
                OperatorsWithin, Channel
  <2>2. CASE ~channels[n].exists
    <3>1. /\ ch \in Channel /\ ch.exists = TRUE /\ ch.operators = {f}
          /\ ch.clients = NoChannel.clients
          /\ ch.modeL = FALSE /\ ch.modeK = FALSE
      BY <2>2, NoChannelShape DEF Joined, NewChannel, Channel
    <3>. QED
      BY <3>1, NoChannelShape DEF Initialised, isOperator, hasClient
  <2>. QED
    BY <2>1, <2>2
<1>. HIDE DEF ch
<1>2. clients[f].conn \in Nat
  BY DEF CoreInv, RegistryInv, RegistryTypeOK, Client
<1>3. /\ new \in Channel
      /\ \A g \in Fds : new.clients[g] = IF g = f THEN clients[f].conn ELSE ch.clients[g]
      /\ new.operators = ch.operators /\ new.exists = TRUE
      /\ new.modeL = ch.modeL /\ new.modeK = ch.modeK
      /\ new.userLimit = ch.userLimit /\ new.pass = ch.pass
  BY <1>1, <1>2 DEF addClient, Channel
<1>. HIDE DEF new
<1>4. LiveMembers(new, clients)
  BY <1>1, <1>3 DEF LiveMembers, hasClient
<1>5. OperatorsWithin(new)
  BY <1>1, <1>3 DEF OperatorsWithin, hasClient, isOperator, Open
<1>6. Initialised(new)
  BY <1>1, <1>3 DEF Initialised
<1>. QED
  BY <1>3, <1>4, <1>5, <1>6 DEF GoodChannel, new, ch

\* A change of the settings alone.
LEMMA SettingsGood ==
  ASSUME NEW cl, NEW ch, GoodChannel(ch, cl), NEW new \in Channel, Initialised(new),
         new.clients = ch.clients, new.operators = ch.operators, new.exists = ch.exists
  PROVE  GoodChannel(new, cl)
BY DEF GoodChannel, LiveMembers, OperatorsWithin, hasClient, isOperator

\* The clients change, but not those a channel points to.
LEMMA OtherClientsGood ==
  ASSUME NEW cl, NEW cm, NEW ch, GoodChannel(ch, cl),
         \A g \in Fds : hasClient(ch, g) =>
           cm[g].conn = cl[g].conn /\ (cl[g].registered => cm[g].registered)
  PROVE  GoodChannel(ch, cm)
BY DEF GoodChannel, LiveMembers

-----------------------------------------------------------------------------
(* The kinds of steps *)

\* A step of a handler that leaves clients and channels alone.
LEMMA LoopStep ==
  ASSUME CoreInv, UNCHANGED <<registry, channels>>, LoopInv', crashed' \in BOOLEAN
  PROVE  CoreInv'
<1>1. RegistryInv'
  BY RegistryStutters DEF CoreInv, registry
<1>2. ChannelsGood'
  BY DEF CoreInv, ChannelsGood, registry
<1>. QED
  BY <1>1, <1>2 DEF CoreInv

LEMMA LoopInvStutters ==
  ASSUME LoopInv, UNCHANGED <<clients, channels, busy>>
  PROVE  LoopInv'
BY DEF LoopInv, Open, Idle

LEMMA NothingChanges ==
  ASSUME CoreInv, UNCHANGED <<registry, channels, busy>>, crashed' \in BOOLEAN
  PROVE  CoreInv'
<1>1. LoopInv'
  BY LoopInvStutters DEF CoreInv, registry
<1>. QED
  BY <1>1, LoopStep

LEMMA LoopEnds ==
  ASSUME CoreInv, UNCHANGED <<registry, channels, crashed>>, busy' = Idle
  PROVE  CoreInv'
<1>1. LoopInv'
  BY DEF LoopInv, Idle, Open
<1>. QED
  BY <1>1, LoopStep DEF CoreInv

\* One channel is replaced, in a step between or in the middle of loops.
LEMMA ChannelReplaced ==
  ASSUME CoreInv, NEW n \in Names, NEW ch, GoodChannel(ch, clients),
         busy.op = "MODE" => ch.exists,
         channels' = [channels EXCEPT ![n] = ch],
         UNCHANGED <<registry, busy, crashed>>
  PROVE  CoreInv'
<1>1. \A k \in Names : channels'[k] = IF k = n THEN ch ELSE channels[k]
  BY DEF CoreInv, ChannelsGood
<1>2. UNCHANGED <<clients, accepted>>
  BY DEF registry
<1>3. RegistryInv'
  BY RegistryStutters DEF CoreInv
<1>4. ChannelsGood'
  <2>1. channels' \in [Names -> Channel]
    BY DEF CoreInv, ChannelsGood, GoodChannel
  <2>2. \A k \in Names : GoodChannel(channels'[k], clients)
    BY <1>1 DEF CoreInv, ChannelsGood
  <2>. QED
    BY <1>2, <2>1, <2>2 DEF ChannelsGood
<1>5. LoopInv'
  BY <1>1, <1>2 DEF CoreInv, LoopInv, Open, Idle
<1>. QED
  BY <1>3, <1>4, <1>5 DEF CoreInv

\* A client is removed between two loops.
LEMMA Removal ==
  ASSUME CoreInv, busy = Idle, NEW f \in Fds, erase(f),
         channels' = removeClientFromAllChannels(f), UNCHANGED <<busy, crashed>>
  PROVE  CoreInv'
<1>1. RegistryInv'
  BY EntryErased DEF CoreInv
<1>2. \A g \in Fds : g # f => clients'[g] = clients[g]
  BY DEF CoreInv, RegistryInv, RegistryTypeOK, erase
<1>3. ASSUME NEW n \in Names
      PROVE  GoodChannel(channels'[n], clients')
  <2>. DEFINE ch == IF hasClient(channels[n], f) THEN removeFrom(channels[n], f)
                                                ELSE channels[n]
  <2>1. GoodChannel(channels[n], clients)
    BY DEF CoreInv, ChannelsGood
  <2>2. GoodChannel(ch, clients) /\ ~hasClient(ch, f)
    BY <2>1, RemoveFromGood
  <2>. HIDE DEF ch
  <2>3. GoodChannel(ch, clients')
    BY <1>2, <2>2, OtherClientsGood
  <2>4. GoodChannel(eraseIfEmpty(ch), clients')
    BY <2>3, EraseIfEmptyGood
  <2>5. channels'[n] = eraseIfEmpty(ch)
    BY DEF removeClientFromAllChannels, ch
  <2>. QED
    BY <2>4, <2>5
<1>4. ChannelsGood'
  <2>1. channels' = [n \in Names |-> channels'[n]]
    BY DEF removeClientFromAllChannels
  <2>2. channels' \in [Names -> Channel]
    BY <1>3, <2>1 DEF GoodChannel
  <2>. QED
    BY <1>3, <2>2 DEF ChannelsGood
<1>5. LoopInv'
  BY DEF CoreInv, LoopInv, Idle
<1>. QED
  BY <1>1, <1>4, <1>5 DEF CoreInv

\* A step of the registry that keeps every connection a channel points to.
LEMMA RegistryStep ==
  ASSUME CoreInv, RegistryNext, busy = Idle, UNCHANGED server,
         \A g \in Fds : Open(g) =>
           /\ clients'[g].conn = clients[g].conn
           /\ clients[g].registered => clients'[g].registered
  PROVE  CoreInv'
<1>1. RegistryInv'
  BY NextKeepsInv DEF CoreInv
<1>2. UNCHANGED <<channels, busy, crashed>>
  BY DEF server
<1>3. ASSUME NEW n \in Names
      PROVE  GoodChannel(channels[n], clients')
  <2>1. GoodChannel(channels[n], clients)
    BY DEF CoreInv, ChannelsGood
  <2>2. \A g \in Fds : hasClient(channels[n], g) => Open(g)
    BY <2>1 DEF GoodChannel, LiveMembers, hasClient, Open
  <2>. QED
    BY <2>1, <2>2, OtherClientsGood
<1>4. ChannelsGood'
  BY <1>2, <1>3 DEF CoreInv, ChannelsGood
<1>5. LoopInv'
  BY <1>2 DEF CoreInv, LoopInv, Idle
<1>. QED
  BY <1>1, <1>2, <1>4, <1>5 DEF CoreInv

-----------------------------------------------------------------------------
(* The handlers *)

LEMMA RecordsKept ==
  ASSUME RegistryInv, NEW f \in Fds,
         handleNICK(f) \/ handleUSER(f) \/ (handlePASS(f) /\ clients'[f] # Absent)
  PROVE  \A g \in Fds : /\ clients'[g].conn = clients[g].conn
                        /\ clients[g].registered => clients'[g].registered
<1>1. clients \in [Fds -> Client]
  BY DEF RegistryInv, RegistryTypeOK
<1>2. CASE UNCHANGED registry
  BY <1>2 DEF registry
<1>3. ASSUME NEW nick, setNickname(f, nick)
      PROVE  \A g \in Fds : /\ clients'[g].conn = clients[g].conn
                            /\ clients[g].registered => clients'[g].registered
  BY <1>1, <1>3 DEF setNickname, Client
<1>4. CASE setIdentity(f)
  BY <1>1, <1>4 DEF setIdentity, Client
<1>5. CASE clients' = [clients EXCEPT ![f].hasPassword = TRUE]
  BY <1>1, <1>5 DEF Client
<1>6. CASE handleNICK(f)
  BY <1>2, <1>3, <1>6 DEF handleNICK, Refuse
<1>7. CASE handleUSER(f)
  BY <1>2, <1>4, <1>7 DEF handleUSER, Refuse
<1>8. CASE handlePASS(f) /\ clients'[f] # Absent
  <2>1. ~erase(f)
    BY <1>1, <1>8 DEF erase
  <2>. QED
    BY <1>2, <1>5, <1>8, <2>1 DEF handlePASS, Refuse
<1>. QED
  BY <1>6, <1>7, <1>8

LEMMA ConnectionKeepsCore ==
  ASSUME CoreInv, NEW f \in Fds, Connection(f)
  PROVE  CoreInv'
<1>1. CASE UNCHANGED <<registry, server>>
  BY <1>1, NothingChanges DEF server, CoreInv
<1>2. CASE Hangup(f)
  BY <1>2, Removal DEF Hangup, Ready, removeClient
<1>3. CASE handleQUIT(f)
  BY <1>3, Removal DEF handleQUIT, Ready, removeClient
<1>4. CASE Nickname(f)
  <2>1. RegistryNext
    BY <1>4 DEF Nickname, RegistryNext, Register
  <2>2. \A g \in Fds : /\ clients'[g].conn = clients[g].conn
                       /\ clients[g].registered => clients'[g].registered
    BY <1>4, RecordsKept DEF Nickname, CoreInv
  <2>. QED
    BY <1>4, <2>1, <2>2, RegistryStep DEF Nickname, Ready
<1>5. CASE Username(f)
  <2>1. RegistryNext
    BY <1>5 DEF Username, RegistryNext, Register
  <2>2. \A g \in Fds : /\ clients'[g].conn = clients[g].conn
                       /\ clients[g].registered => clients'[g].registered
    BY <1>5, RecordsKept DEF Username, CoreInv
  <2>. QED
    BY <1>5, <2>1, <2>2, RegistryStep DEF Username, Ready
<1>6. CASE Password(f) /\ clients'[f] # Absent
  <2>1. RegistryNext /\ UNCHANGED server
    BY <1>6 DEF Password, RegistryNext, Register, server
  <2>2. \A g \in Fds : /\ clients'[g].conn = clients[g].conn
                       /\ clients[g].registered => clients'[g].registered
    BY <1>6, RecordsKept DEF Password, CoreInv
  <2>. QED
    BY <1>6, <2>1, <2>2, RegistryStep DEF Password, Ready
<1>7. CASE Password(f) /\ clients'[f] = Absent
  <2>1. clients \in [Fds -> Client] /\ Open(f) /\ Absent.conn = NoConn
    BY <1>7 DEF CoreInv, RegistryInv, RegistryTypeOK, Password, Ready, Absent, NewClient
  <2>2. clients' # [clients EXCEPT ![f].hasPassword = TRUE]
    BY <1>7, <2>1 DEF Open, Client
  <2>3. ~ UNCHANGED registry
    BY <1>7, <2>1 DEF Open, registry
  <2>4. erase(f)
    BY <1>7, <2>2, <2>3 DEF Password, handlePASS, Refuse
  <2>. QED
    BY <1>7, <2>4, Removal DEF Password, Ready
<1>8. CASE handlePING(f) \/ handlePONG(f) \/ handleMessage(f)
  BY <1>1, <1>8 DEF handlePING, handlePONG, handleMessage, Answer, Ignore
<1>. QED
  BY <1>2, <1>3, <1>4, <1>5, <1>6, <1>7, <1>8 DEF Connection

LEMMA AcceptKeepsCore ==
  ASSUME CoreInv, NEW f \in Fds, Accept(f)
  PROVE  CoreInv'
<1>1. RegistryNext /\ busy = Idle /\ UNCHANGED server
  BY DEF Accept, RegistryNext, Register
<1>2. \A g \in Fds : g # f => clients'[g] = clients[g]
  BY DEF CoreInv, RegistryInv, RegistryTypeOK, Accept, acceptNewClient
<1>3. ~Open(f)
  BY DEF Accept, acceptNewClient
<1>. QED
  BY <1>1, <1>2, <1>3, RegistryStep

\* The first step of a loop.
LEMMA LoopStarts ==
  ASSUME CoreInv, NEW f \in Fds, Open(f), NEW op \in {"JOIN", "PART", "MODE"},
         NEW n \in Names \cup {NoName}, NEW adding \in BOOLEAN,
         StartLoop(f, op, n, adding),
         op = "JOIN" => clients[f].registered,
         op = "MODE" => n \in Names /\ channels[n].exists
  PROVE  CoreInv'
<1>1. busy' = [op |-> op, fd |-> f, chan |-> n, adding |-> adding]
      /\ UNCHANGED <<registry, channels, crashed>> /\ UNCHANGED clients
  BY DEF StartLoop, registry
<1>2. f \in Nat
  BY RegistryAssumption
<1>3. LoopInv'
  BY <1>1, <1>2 DEF LoopInv, Open
<1>. QED
  BY <1>1, <1>3, LoopStep DEF CoreInv

\* A channel of a refused or repeated JOIN is there already, and stays as it is.
LEMMA JoinedExisting ==
  ASSUME NEW n \in Names, NEW f \in Fds,
         \/ Uninvited(Joined(n, f), f) \/ Joined(n, f).modeK \/ Full(Joined(n, f))
         \/ hasClient(Joined(n, f), f)
  PROVE  Joined(n, f) = channels[n]
<1>. DEFINE new == [NewChannel EXCEPT !.operators = {f}]
<1>1. /\ new.modeI = FALSE /\ new.modeK = FALSE /\ new.modeL = FALSE
      /\ new.clients[f] = NoConn
  BY DEF NewChannel, NoChannel
<1>. HIDE DEF new
<1>2. Joined(n, f) = IF channels[n].exists THEN channels[n] ELSE new
  BY DEF Joined, new
<1>. QED
  BY <1>1, <1>2 DEF Uninvited, Full, hasClient

LEMMA JoinKeepsCore ==
  ASSUME CoreInv, NEW f \in Fds, NEW n \in Names, NEW key, joinChannel(f, n, key)
  PROVE  CoreInv'
<1>. DEFINE ch == Joined(n, f)
<1>1. /\ busy.op = "JOIN" /\ busy.fd = f /\ UNCHANGED <<registry, busy, crashed>>
  BY DEF joinChannel, InLoop, Continue
<1>2. Open(f) /\ clients[f].registered
  BY <1>1 DEF CoreInv, LoopInv, Idle
<1>3. CASE channels' = [channels EXCEPT ![n] = ch]
           /\ (Uninvited(ch, f) \/ ch.modeK \/ Full(ch) \/ hasClient(ch, f))
  <2>1. ch = channels[n]
    BY <1>3, JoinedExisting
  <2>2. channels' = channels
    BY <1>3, <2>1 DEF CoreInv, ChannelsGood
  <2>. QED
    BY <1>1, <2>2, NothingChanges DEF CoreInv
<1>4. CASE channels' = [channels EXCEPT ![n] = addClient(ch, f)]
  <2>1. GoodChannel(addClient(ch, f), clients)
    BY <1>2, AddClientGood
  <2>2. busy.op # "MODE"
    BY <1>1
  <2>. HIDE DEF ch
  <2>. QED
    BY <1>1, <1>4, <2>1, <2>2, ChannelReplaced
<1>. QED
  BY <1>3, <1>4 DEF joinChannel, WrongKey

LEMMA JoiningKeepsCore ==
  ASSUME CoreInv, NEW f \in Fds, Joining(f)
  PROVE  CoreInv'
<1>1. CASE UNCHANGED <<registry, server>>
  BY <1>1, NothingChanges DEF server, CoreInv
<1>2. CASE Ready(f) /\ clients[f].registered /\ StartLoop(f, "JOIN", NoName, FALSE)
  BY <1>2, LoopStarts DEF Ready
<1>. QED
  BY <1>1, <1>2, JoinKeepsCore DEF Joining, handleJOIN, joinInvalid, Answer, Admitted

LEMMA PartingKeepsCore ==
  ASSUME CoreInv, NEW f \in Fds, Parting(f)
  PROVE  CoreInv'
<1>1. CASE UNCHANGED <<registry, server>>
  BY <1>1, NothingChanges DEF server, CoreInv
<1>2. CASE Ready(f) /\ StartLoop(f, "PART", NoName, FALSE)
  BY <1>2, LoopStarts DEF Ready
<1>3. ASSUME NEW n \in Names, partChannel(f, n)
      PROVE  CoreInv'
  <2>. DEFINE ch == eraseIfEmpty(removeFrom(channels[n], f))
  <2>1. busy.op = "PART" /\ UNCHANGED <<registry, busy, crashed>>
    BY <1>3 DEF partChannel, InLoop, Continue
  <2>2. CASE UNCHANGED channels
    BY <2>1, <2>2, NothingChanges DEF CoreInv
  <2>3. CASE channels' = [channels EXCEPT ![n] = ch]
    <3>1. GoodChannel(channels[n], clients)
      BY DEF CoreInv, ChannelsGood
    <3>2. GoodChannel(ch, clients)
      BY <3>1, RemoveFromGood, EraseIfEmptyGood
    <3>. HIDE DEF ch
    <3>. QED
      BY <2>1, <2>3, <3>2, ChannelReplaced
  <2>. QED
    BY <1>3, <2>2, <2>3 DEF partChannel
<1>. QED
  BY <1>1, <1>2, <1>3 DEF Parting, handlePART, partUnknown, Answer, Admitted

LEMMA RelayingKeepsCore ==
  ASSUME CoreInv, NEW f \in Fds, Relaying(f)
  PROVE  CoreInv'
<1>1. UNCHANGED <<registry, server>>
  BY DEF Relaying, handlePRIVMSG, handleNOTICE, RelayToNick, RelayToChannel,
         Answer, Ignore
<1>. QED
  BY <1>1, NothingChanges DEF server, CoreInv

LEMMA KickKeepsCore ==
  ASSUME CoreInv, NEW f \in Fds, handleKICK(f)
  PROVE  CoreInv'
<1>1. CASE UNCHANGED <<registry, server>>
  BY <1>1, NothingChanges DEF server, CoreInv
<1>2. ASSUME NEW n \in Names, NEW g \in Fds, Continue, busy = Idle,
             channels' = [channels EXCEPT ![n] = removeFrom(channels[n], g)]
      PROVE  CoreInv'
  <2>1. GoodChannel(removeFrom(channels[n], g), clients)
    BY RemoveFromGood DEF CoreInv, ChannelsGood
  <2>2. busy.op # "MODE"
    BY <1>2 DEF Idle
  <2>. QED
    BY <1>2, <2>1, <2>2, ChannelReplaced DEF Continue
<1>3. \A nick : First(nick) \subseteq Fds
  BY DEF First, Holders
<1>. QED
  BY <1>1, <1>2, <1>3 DEF handleKICK, Answer, Admitted, Ready

LEMMA TopicKeepsCore ==
  ASSUME CoreInv, NEW f \in Fds, handleTOPIC(f)
  PROVE  CoreInv'
<1>1. CASE UNCHANGED <<registry, server>>
  BY <1>1, NothingChanges DEF server, CoreInv
<1>2. CASE Dereference(f)
  BY <1>1, <1>2, NothingChanges DEF Dereference, Answer
<1>3. ASSUME NEW n \in Names, NEW topic \in Topics \cup {NoTopic}, Continue, busy = Idle,
             channels' = [channels EXCEPT ![n].topic = topic]
      PROVE  CoreInv'
  <2>. DEFINE new == [channels[n] EXCEPT !.topic = topic]
  <2>1. GoodChannel(channels[n], clients)
    BY DEF CoreInv, ChannelsGood
  <2>2. /\ new \in Channel /\ new.clients = channels[n].clients
        /\ new.operators = channels[n].operators /\ new.exists = channels[n].exists
        /\ new.modeL = channels[n].modeL /\ new.modeK = channels[n].modeK
        /\ new.userLimit = channels[n].userLimit /\ new.pass = channels[n].pass
    BY <2>1 DEF GoodChannel, Channel
  <2>3. channels' = [channels EXCEPT ![n] = new]
    BY <1>3
  <2>. HIDE DEF new
  <2>4. GoodChannel(new, clients)
    BY <2>1, <2>2, SettingsGood DEF GoodChannel, Initialised
  <2>5. busy.op # "MODE"
    BY <1>3 DEF Idle
  <2>. QED
    BY <1>3, <2>3, <2>4, <2>5, ChannelReplaced DEF Continue
<1>. QED
  BY <1>1, <1>2, <1>3 DEF handleTOPIC, Answer, Admitted, Ready

LEMMA InviteKeepsCore ==
  ASSUME CoreInv, NEW f \in Fds, handleINVITE(f)
  PROVE  CoreInv'
<1>1. CASE UNCHANGED <<registry, server>>
  BY <1>1, NothingChanges DEF server, CoreInv
<1>2. CASE Dereference(f)
  BY <1>1, <1>2, NothingChanges DEF Dereference, Answer
<1>3. ASSUME NEW n \in Names, NEW g \in Fds, Continue, busy = Idle,
             channels' = [channels EXCEPT ![n] = authorize(channels[n], g)]
      PROVE  CoreInv'
  <2>. DEFINE new == authorize(channels[n], g)
  <2>1. GoodChannel(channels[n], clients)
    BY DEF CoreInv, ChannelsGood
  <2>2. clients[g].conn \in Nat
    BY DEF CoreInv, RegistryInv, RegistryTypeOK, Client
  <2>3. /\ new \in Channel /\ new.clients = channels[n].clients
        /\ new.operators = channels[n].operators /\ new.exists = channels[n].exists
        /\ new.modeL = channels[n].modeL /\ new.modeK = channels[n].modeK
        /\ new.userLimit = channels[n].userLimit /\ new.pass = channels[n].pass
    BY <2>1, <2>2 DEF GoodChannel, Channel, authorize
  <2>. HIDE DEF new
  <2>4. GoodChannel(new, clients)
    BY <2>1, <2>3, SettingsGood DEF GoodChannel, Initialised
  <2>5. busy.op # "MODE"
    BY <1>3 DEF Idle
  <2>. QED
    BY <1>3, <2>4, <2>5, ChannelReplaced DEF Continue, new
<1>4. \A nick : First(nick) \subseteq Fds
  BY DEF First, Holders
<1>. QED
  BY <1>1, <1>2, <1>3, <1>4 DEF handleINVITE, Answer, Admitted, Ready

LEMMA ModeKeepsCore ==
  ASSUME CoreInv, NEW f \in Fds, handleMODE(f)
  PROVE  CoreInv'
<1>1. CASE UNCHANGED <<registry, server>>
  BY <1>1, NothingChanges DEF server, CoreInv
<1>2. ASSUME NEW n \in Names, channels[n].exists, NEW adding \in BOOLEAN,
             StartLoop(f, "MODE", n, adding)
      PROVE  CoreInv'
  BY <1>2, LoopStarts DEF handleMODE, Admitted, Ready
<1>. QED
  BY <1>1, <1>2 DEF handleMODE, Answer

\* A flag changes the settings of the channel, and the operators among the members.
FlagChange(new, ch) ==
  /\ new \in Channel
  /\ new.clients = ch.clients
  /\ new.exists = ch.exists
  /\ \A g \in Fds : isOperator(new, g) => isOperator(ch, g) \/ hasClient(ch, g)
  /\ Initialised(ch) => Initialised(new)

LEMMA FlagApplied ==
  ASSUME CoreInv, NEW f \in Fds, NEW new, setChannel(f, new),
         FlagChange(new, channels[busy.chan])
  PROVE  CoreInv'
<1>1. busy.op = "MODE" /\ UNCHANGED <<registry, busy, crashed>>
      /\ channels' = [channels EXCEPT ![busy.chan] = new]
  BY DEF setChannel, InLoop, Continue
<1>2. busy.chan \in Names /\ channels[busy.chan].exists
  BY <1>1 DEF CoreInv, LoopInv
<1>3. GoodChannel(channels[busy.chan], clients)
  BY <1>2 DEF CoreInv, ChannelsGood
<1>4. GoodChannel(new, clients)
  BY <1>3 DEF FlagChange, GoodChannel, LiveMembers, OperatorsWithin, hasClient
<1>. QED
  BY <1>1, <1>2, <1>3, <1>4, ChannelReplaced DEF FlagChange

LEMMA FlagAbandoned ==
  ASSUME CoreInv, NEW f \in Fds, NEW codes, abandon(f, codes)
  PROVE  CoreInv'
BY LoopEnds DEF abandon

LEMMA FlagKeepsCore ==
  ASSUME CoreInv, NEW f \in Fds, modeFlag(f)
  PROVE  CoreInv'
<1>1. busy.op = "MODE" /\ busy.adding \in BOOLEAN
  BY DEF modeFlag, InLoop, CoreInv, LoopInv
<1>2. PICK ch \in Channel : ch = channels[busy.chan]
  BY <1>1 DEF CoreInv, LoopInv, ChannelsGood
<1>3. CASE modeFlagI(f)
  <2>1. FlagChange([ch EXCEPT !.modeI = busy.adding], ch)
    BY <1>1 DEF Channel, Initialised, FlagChange, isOperator
  <2>. QED
    BY <1>2, <1>3, <2>1, FlagApplied DEF modeFlagI
<1>4. CASE modeFlagT(f)
  <2>1. FlagChange([ch EXCEPT !.modeT = busy.adding], ch)
    BY <1>1 DEF Channel, Initialised, FlagChange, isOperator
  <2>. QED
    BY <1>2, <1>4, <2>1, FlagApplied DEF modeFlagT
<1>5. CASE modeFlagO(f)
  <2>1. ASSUME NEW g \in Fds, hasClient(ch, g),
               setChannel(f, [ch EXCEPT !.operators =
                                IF busy.adding THEN @ \cup {g} ELSE @ \ {g}])
        PROVE  CoreInv'
    <3>1. FlagChange([ch EXCEPT !.operators =
                        IF busy.adding THEN @ \cup {g} ELSE @ \ {g}], ch)
      BY <2>1 DEF Channel, Initialised, FlagChange, isOperator
    <3>. QED
      BY <1>2, <2>1, <3>1, FlagApplied
  <2>2. \A nick : First(nick) \subseteq Fds
    BY DEF First, Holders
  <2>. QED
    BY <1>2, <1>5, <2>1, <2>2, FlagAbandoned DEF modeFlagO
<1>6. CASE modeFlagK(f)
  <2>1. FlagChange([ch EXCEPT !.pass = NoKey, !.modeK = FALSE], ch)
    BY DEF Channel, Initialised, FlagChange, isOperator
  <2>2. ASSUME NEW key \in Keys
        PROVE  FlagChange([ch EXCEPT !.pass = key, !.modeK = TRUE], ch)
    BY ServerAssumption DEF Channel, Initialised, FlagChange, isOperator
  <2>. QED
    BY <1>2, <1>6, <2>1, <2>2, FlagApplied DEF modeFlagK
<1>7. CASE modeFlagL(f)
  <2>1. ASSUME NEW limit \in Int, NEW on \in BOOLEAN, on => limit > 0,
               setChannel(f, [ch EXCEPT !.userLimit = limit, !.modeL = on])
        PROVE  CoreInv'
    <3>1. FlagChange([ch EXCEPT !.userLimit = limit, !.modeL = on], ch)
      BY <2>1 DEF Channel, Initialised, FlagChange, isOperator
    <3>. QED
      BY <1>2, <2>1, <3>1, FlagApplied
  <2>2. ASSUME NEW limit \in LimitArgs,
               IF limit <= 0
               THEN abandon(f, {"501"})
               ELSE setChannel(f, [ch EXCEPT !.userLimit = limit, !.modeL = TRUE])
        PROVE  CoreInv'
    <3>1. limit \in Int
      BY ServerAssumption
    <3>2. CASE limit <= 0
      BY <2>2, <3>2, FlagAbandoned
    <3>3. CASE ~(limit <= 0)
      <4>1. limit > 0
        BY <3>1, <3>3
      <4>2. setChannel(f, [ch EXCEPT !.userLimit = limit, !.modeL = TRUE])
        BY <2>2, <3>3
      <4>. QED
        BY <2>1, <3>1, <4>1, <4>2
    <3>. QED
      BY <3>2, <3>3
  <2>3. CASE setChannel(f, [ch EXCEPT !.userLimit = 0, !.modeL = FALSE])
    <3>1. PICK zero \in Int : zero = 0
      OBVIOUS
    <3>2. setChannel(f, [ch EXCEPT !.userLimit = zero, !.modeL = FALSE])
      BY <2>3, <3>1
    <3>. QED
      BY <2>1, <3>2
  <2>. QED
    BY <1>2, <1>7, <2>2, <2>3 DEF modeFlagL
<1>8. CASE modeFlagBad(f)
  BY <1>8, FlagAbandoned DEF modeFlagBad
<1>. QED
  BY <1>3, <1>4, <1>5, <1>6, <1>7, <1>8 DEF modeFlag

-----------------------------------------------------------------------------
(* The theorems *)

LEMMA ServeKeepsCore ==
  ASSUME CoreInv, NEW f \in Fds, Serve(f)
  PROVE  CoreInv'
<1>1. CASE Connection(f)
  BY <1>1, ConnectionKeepsCore
<1>2. CASE Joining(f)
  BY <1>2, JoiningKeepsCore
<1>3. CASE Parting(f)
  BY <1>3, PartingKeepsCore
<1>4. CASE Relaying(f)
  BY <1>4, RelayingKeepsCore
<1>5. CASE Governing(f)
  BY <1>5, KickKeepsCore, TopicKeepsCore, InviteKeepsCore, ModeKeepsCore,
     FlagKeepsCore DEF Governing
<1>6. CASE EndLoop(f)
  BY <1>6, LoopEnds DEF EndLoop
<1>. QED
  BY <1>1, <1>2, <1>3, <1>4, <1>5, <1>6 DEF Serve

\* The invariant of the server: CoreInv, with the ghost of the client served.
ServerInv == CoreInv /\ actor \in Nat

LEMMA ServerInitInv == ServerInit => ServerInv
<1>. SUFFICES ASSUME ServerInit PROVE ServerInv
  OBVIOUS
<1>1. RegistryInv
  BY InitKeepsInv DEF ServerInit
<1>2. ChannelsGood
  BY NoChannelShape, NoChannelGood DEF ServerInit, ChannelsGood
<1>3. LoopInv
  BY DEF ServerInit, LoopInv, Idle
<1>. QED
  BY <1>1, <1>2, <1>3 DEF ServerInit, ServerInv, CoreInv, NoConn

LEMMA ServerNextInv == ServerInv /\ [Next]_vars => ServerInv'
<1>. SUFFICES ASSUME ServerInv, [Next]_vars PROVE ServerInv'
  OBVIOUS
<1>1. CASE UNCHANGED vars
  <2>1. CoreInv'
    BY <1>1, NothingChanges DEF ServerInv, CoreInv, vars, registry
  <2>. QED
    BY <1>1, <2>1 DEF ServerInv, vars
<1>2. ASSUME NEW f \in Fds, Accept(f), actor' = accepted'
      PROVE  ServerInv'
  <2>1. CoreInv'
    BY <1>2, AcceptKeepsCore DEF ServerInv
  <2>. QED
    BY <1>2, <2>1 DEF ServerInv, CoreInv, RegistryInv, RegistryTypeOK
<1>3. ASSUME NEW f \in Fds, Serve(f), actor' = clients[f].conn
      PROVE  ServerInv'
  <2>1. CoreInv'
    BY <1>3, ServeKeepsCore DEF ServerInv
  <2>. QED
    BY <1>3, <2>1 DEF ServerInv, CoreInv, RegistryInv, RegistryTypeOK, Client
<1>. QED
  BY <1>1, <1>2, <1>3 DEF Next, Stopped

THEOREM ServerInvariant == Spec => []ServerInv
BY ServerInitInv, ServerNextInv, PTL DEF Spec

\* The state of the server always has its type.
THEOREM TypeCorrect == Spec => []TypeOK
<1>1. ServerInv => TypeOK
  BY DEF ServerInv, CoreInv, RegistryInv, ChannelsGood, LoopInv, TypeOK
<1>. QED
  BY <1>1, ServerInvariant, PTL

\* A channel never points to the Client object of a connection that has ended
\* (Channel.cpp:42 follows the pointers without looking), whatever the reuse of
\* descriptors.
THEOREM MembersAreLive == Spec => []MembersLive
<1>1. ServerInv => MembersLive
  BY DEF ServerInv, CoreInv, ChannelsGood, GoodChannel, LiveMembers, MembersLive
<1>. QED
  BY <1>1, ServerInvariant, PTL

\* Operator status never outlives membership.
THEOREM OperatorsStayMembers == Spec => []OperatorsAreMembers
<1>1. ServerInv => OperatorsAreMembers
  BY DEF ServerInv, CoreInv, ChannelsGood, GoodChannel, OperatorsWithin,
         OperatorsAreMembers
<1>. QED
  BY <1>1, ServerInvariant, PTL

\* JOIN never reads the limit or the key of a channel before it has been set.
THEOREM SettingsAreInitialised == Spec => []SettingsInitialised
<1>1. ServerInv => SettingsInitialised
  BY DEF ServerInv, CoreInv, ChannelsGood, GoodChannel, Initialised,
         SettingsInitialised
<1>. QED
  BY <1>1, ServerInvariant, PTL

-----------------------------------------------------------------------------
(* The registry within the server *)

LEMMA ServeIsRegistryStep ==
  ASSUME NEW f \in Fds, Serve(f)
  PROVE  RegistryNext \/ UNCHANGED registry
<1>1. CASE Connection(f)
  <2>1. CASE Hangup(f) \/ handleQUIT(f)
    <3>1. Disconnect(f)
      BY <2>1 DEF Hangup, handleQUIT, removeClient, Ready, Disconnect
    <3>. QED
      BY <3>1 DEF RegistryNext
  <2>2. CASE Password(f) \/ Nickname(f) \/ Username(f)
    BY <2>2 DEF Password, Nickname, Username, RegistryNext, Register
  <2>3. CASE handlePING(f) \/ handlePONG(f) \/ handleMessage(f)
    BY <2>3 DEF handlePING, handlePONG, handleMessage, Answer, Ignore
  <2>. QED
    BY <1>1, <2>1, <2>2, <2>3 DEF Connection
<1>2. CASE Joining(f)
  BY <1>2 DEF Joining, handleJOIN, joinInvalid, joinChannel, Answer, StartLoop, Continue
<1>3. CASE Parting(f)
  BY <1>3 DEF Parting, handlePART, partUnknown, partChannel, Answer, StartLoop, Continue
<1>4. CASE Relaying(f)
  BY <1>4 DEF Relaying, handlePRIVMSG, handleNOTICE, RelayToNick, RelayToChannel,
              Answer, Ignore
<1>5. CASE Governing(f)
  <2>1. CASE handleKICK(f)
    BY <2>1 DEF handleKICK, Answer, Continue
  <2>2. CASE handleTOPIC(f)
    BY <2>2 DEF handleTOPIC, Dereference, Answer, Continue
  <2>3. CASE handleINVITE(f)
    BY <2>3 DEF handleINVITE, Dereference, Answer, Continue
  <2>4. CASE handleMODE(f)
    BY <2>4 DEF handleMODE, Answer, StartLoop
  <2>5. CASE modeFlag(f)
    <3>1. \A codes : abandon(f, codes) => UNCHANGED registry
      BY DEF abandon
    <3>2. \A ch : setChannel(f, ch) => UNCHANGED registry
      BY DEF setChannel, Continue
    <3>. QED
      BY <2>5, <3>1, <3>2 DEF modeFlag, modeFlagI, modeFlagT, modeFlagO, modeFlagK,
                              modeFlagL, modeFlagBad
  <2>. QED
    BY <1>5, <2>1, <2>2, <2>3, <2>4, <2>5 DEF Governing
<1>6. CASE EndLoop(f)
  BY <1>6 DEF EndLoop
<1>. QED
  BY <1>1, <1>2, <1>3, <1>4, <1>5, <1>6 DEF Serve

\* The server implements the registry: no command and no disconnection, in
\* whatever order, does to _db_clients what Registry does not do.
THEOREM ServerImplementsRegistry == Spec => RegistrySpec
<1>1. ServerInit => Init
  BY DEF ServerInit
<1>2. [Next]_vars => [RegistryNext]_registry
  <2>. SUFFICES ASSUME [Next]_vars PROVE RegistryNext \/ UNCHANGED registry
    OBVIOUS
  <2>1. CASE UNCHANGED vars
    BY <2>1 DEF vars, registry
  <2>2. ASSUME NEW f \in Fds, Accept(f) PROVE RegistryNext
    BY <2>2 DEF Accept, RegistryNext, Register
  <2>3. ASSUME NEW f \in Fds, Serve(f) PROVE RegistryNext \/ UNCHANGED registry
    BY <2>3, ServeIsRegistryStep
  <2>. QED
    BY <2>1, <2>2, <2>3 DEF Next, Stopped
<1>. QED
  BY <1>1, <1>2, PTL DEF Spec, RegistrySpec

\* So the nicknames of the clients of the server stay distinct, whatever else
\* it is doing for them, and registration is complete when it is granted.
THEOREM ServerNicknamesAreUnique == Spec => [](NicknamesUnique /\ RegistrationComplete)
BY ServerImplementsRegistry, NicknamesAreUnique, RegistrationIsComplete, PTL
=============================================================================
