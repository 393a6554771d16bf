------------------------ MODULE IrcServerStepProofs ------------------------
(***************************************************************************)
(* Proofs about the steps of IrcServer: what the server may never do to    *)
(* its channels in one step, and that it implements ChannelAccess, for     *)
(* every value of the constants.                                           *)
(***************************************************************************)
EXTENDS IrcServerProofs, FiniteSetTheorems

-----------------------------------------------------------------------------
(* The kinds of steps, for the channels *)

\* Every connection that is open stays the one it is.
ConnsKept == \A g \in Fds : Open(g) => clients'[g].conn = clients[g].conn

\* What the service of f may do to the loop in progress.
LoopMoves(f) ==
  \/ UNCHANGED busy
  \/ busy' = Idle /\ UNCHANGED clients
  \/ busy = Idle /\ UNCHANGED clients /\ busy'.op \in {"JOIN", "PART"}
  \/ /\ busy = Idle /\ UNCHANGED clients
     /\ busy'.op = "MODE" /\ busy'.fd = f /\ busy'.chan \in Names
     /\ isOperator(channels[busy'.chan], f)

\* The channels stay as they are.
Aside(f) == UNCHANGED channels /\ ConnsKept /\ LoopMoves(f)

\* The connection of f ends, and the channels it was in are told.
Ends(f) ==
  /\ busy = Idle /\ UNCHANGED busy
  /\ erase(f)
  /\ channels' = removeClientFromAllChannels(f)
  /\ \/ Farewell(f, {"PART"}) \subseteq sent'
     \/ \A n \in Names : ~hasClient(channels[n], f)

\* f becomes a member of n.
Enters(f, n) ==
  LET ch == Joined(n, f)
      new == addClient(ch, f)
  IN  /\ busy.op = "JOIN" /\ Open(f) /\ UNCHANGED <<registry, busy>>
      /\ ~Uninvited(ch, f) /\ ~Full(ch) /\ ~hasClient(ch, f)
      /\ channels' = [channels EXCEPT ![n] = new]
      /\ sent' = broadcast(new, n, "JOIN", clients[f].conn, {})

\* f leaves n.
Leaves(f, n) ==
  /\ busy.op = "PART" /\ UNCHANGED <<registry, busy>>
  /\ hasClient(channels[n], f)
  /\ channels' = [channels EXCEPT ![n] = eraseIfEmpty(removeFrom(channels[n], f))]
  /\ sent' = broadcast(channels[n], n, "PART", clients[f].conn, {f})

\* f changes n as one of its operators: no member is added, and one that goes
\* is excluded before the eyes of the others.
Governs(f, n) ==
  /\ UNCHANGED <<registry, busy>>
  /\ isOperator(channels[n], f) \/ (busy.op = "MODE" /\ busy.fd = f /\ busy.chan = n)
  /\ \E new \in Channel :
       /\ channels' = [channels EXCEPT ![n] = new]
       /\ new.exists
       /\ \A g \in Fds : new.clients[g] = channels[n].clients[g] \/ new.clients[g] = NoConn
       /\ \/ new.clients = channels[n].clients
          \/ sent' = broadcast(new, n, "KICK", clients[f].conn, {})

StepKind(f) ==
  \/ Aside(f) \/ Ends(f)
  \/ \E n \in Names : Enters(f, n) \/ Leaves(f, n) \/ Governs(f, n)

LEMMA StandsAside ==
  ASSUME NEW f, UNCHANGED <<registry, channels, busy>>
  PROVE  StepKind(f)
BY DEF StepKind, Aside, ConnsKept, LoopMoves, registry

LEMMA ConnectionKind ==
  ASSUME CoreInv, NEW f \in Fds, Connection(f)
  PROVE  StepKind(f)
<1>1. CASE UNCHANGED <<registry, server>>
  BY <1>1, StandsAside DEF server
<1>2. CASE Hangup(f)
  BY <1>2 DEF Hangup, Ready, removeClient, StepKind, Ends
<1>3. CASE handleQUIT(f)
  <2>1. /\ busy = Idle /\ UNCHANGED busy /\ erase(f)
        /\ channels' = removeClientFromAllChannels(f)
    BY <1>3 DEF handleQUIT, Ready, removeClient
  <2>2. Farewell(f, {"PART"}) \subseteq Farewell(f, {"PART", "QUIT"})
    BY DEF Farewell
  <2>3. sent' = Farewell(f, {"PART"}) \/ sent' = Farewell(f, {"PART", "QUIT"})
    BY <1>3 DEF handleQUIT, removeClient
  <2>4. Farewell(f, {"PART"}) \subseteq sent'
    BY <2>2, <2>3
  <2>. QED
    BY <2>1, <2>4 DEF StepKind, Ends
<1>4. CASE Nickname(f) \/ Username(f) \/ (Password(f) /\ clients'[f] # Absent)
  <2>1. UNCHANGED busy /\ channels' = channels
    BY <1>4 DEF Nickname, Username, Password, server
  <2>2. ConnsKept
    BY <1>4, RecordsKept DEF Nickname, Username, Password, CoreInv, ConnsKept
  <2>. QED
    BY <2>1, <2>2 DEF StepKind, Aside, LoopMoves
<1>5. CASE Password(f) /\ clients'[f] = Absent
  <2>1. clients \in [Fds -> Client] /\ Open(f) /\ Absent.conn = NoConn
    BY <1>5 DEF CoreInv, RegistryInv, RegistryTypeOK, Password, Ready, Absent, NewClient
  <2>2. clients' # [clients EXCEPT ![f].hasPassword = TRUE]
    BY <1>5, <2>1 DEF Open, Client
  <2>3. ~ UNCHANGED registry
    BY <1>5, <2>1 DEF Open, registry
  <2>4. erase(f) /\ ~clients[f].hasPassword
    BY <1>5, <2>2, <2>3 DEF Password, handlePASS, Refuse
  <2>5. ~clients[f].registered
    BY <2>4 DEF CoreInv, RegistryInv, RegistrationComplete
  <2>6. \A n \in Names : ~hasClient(channels[n], f)
    BY <2>5 DEF CoreInv, ChannelsGood, GoodChannel, LiveMembers
  <2>7. busy = Idle /\ UNCHANGED busy /\ channels' = removeClientFromAllChannels(f)
    BY <1>5 DEF Password, Ready
  <2>. QED
    BY <2>4, <2>6, <2>7 DEF StepKind, Ends
<1>6. CASE handlePING(f) \/ handlePONG(f) \/ handleMessage(f)
  BY <1>1, <1>6 DEF handlePING, handlePONG, handleMessage, Answer, Ignore
<1>. QED
  BY <1>2, <1>3, <1>4, <1>5, <1>6 DEF Connection

LEMMA LoopStartKind ==
  ASSUME NEW f, busy = Idle, NEW op, NEW n, NEW adding, StartLoop(f, op, n, adding),
         op \in {"JOIN", "PART"} \/ (op = "MODE" /\ n \in Names /\ isOperator(channels[n], f))
  PROVE  StepKind(f)
BY DEF StartLoop, registry, StepKind, Aside, ConnsKept, LoopMoves

LEMMA JoiningKind ==
  ASSUME CoreInv, NEW f \in Fds, Joining(f)
  PROVE  StepKind(f)
<1>1. CASE UNCHANGED <<registry, server>>
  BY <1>1, StandsAside DEF server
<1>2. CASE Ready(f) /\ StartLoop(f, "JOIN", NoName, FALSE)
  BY <1>2, LoopStartKind DEF Ready
<1>3. ASSUME NEW n \in Names, NEW key, joinChannel(f, n, key) PROVE StepKind(f)
  <2>. DEFINE ch == Joined(n, f)
              new == addClient(ch, f)
  <2>1. busy.op = "JOIN" /\ busy.fd = f /\ UNCHANGED <<registry, busy>>
    BY <1>3 DEF joinChannel, InLoop, Continue
  <2>2. Open(f)
    BY <2>1 DEF CoreInv, LoopInv, Idle
  <2>3. CASE channels' = [channels EXCEPT ![n] = ch]
             /\ (Uninvited(ch, f) \/ ch.modeK \/ Full(ch) \/ hasClient(ch, f))
    <3>1. ch = channels[n]
      BY <2>3, JoinedExisting
    <3>2. channels' = channels
      BY <2>3, <3>1 DEF CoreInv, ChannelsGood
    <3>. QED
      BY <2>1, <3>2, StandsAside
  <2>4. CASE /\ ~Uninvited(ch, f) /\ ~Full(ch) /\ ~hasClient(ch, f)
             /\ channels' = [channels EXCEPT ![n] = new]
             /\ sent' = broadcast(new, n, "JOIN", clients[f].conn, {})
    BY <2>1, <2>2, <2>4 DEF StepKind, Enters
  <2>. QED
    BY <1>3, <2>3, <2>4 DEF joinChannel, WrongKey
<1>. QED
  BY <1>1, <1>2, <1>3 DEF Joining, handleJOIN, joinInvalid, Answer, Admitted

LEMMA PartingKind ==
  ASSUME CoreInv, NEW f \in Fds, Parting(f)
  PROVE  StepKind(f)
<1>1. CASE UNCHANGED <<registry, server>>
  BY <1>1, StandsAside DEF server
<1>2. CASE Ready(f) /\ StartLoop(f, "PART", NoName, FALSE)
  BY <1>2, LoopStartKind DEF Ready
<1>3. ASSUME NEW n \in Names, partChannel(f, n) PROVE StepKind(f)
  <2>1. busy.op = "PART" /\ UNCHANGED <<registry, busy>>
    BY <1>3 DEF partChannel, InLoop, Continue
  <2>2. CASE UNCHANGED channels
    BY <2>1, <2>2, StandsAside
  <2>3. CASE /\ hasClient(channels[n], f)
             /\ channels' = [channels EXCEPT ![n] = eraseIfEmpty(removeFrom(channels[n], f))]
             /\ sent' = broadcast(channels[n], n, "PART", clients[f].conn, {f})
    BY <2>1, <2>3 DEF StepKind, Leaves
  <2>. QED
    BY <1>3, <2>2, <2>3 DEF partChannel
<1>. QED
  BY <1>1, <1>2, <1>3 DEF Parting, handlePART, partUnknown, Answer, Admitted

LEMMA RelayingKind ==
  ASSUME NEW f, Relaying(f)
  PROVE  StepKind(f)
<1>1. UNCHANGED <<registry, server>>
  BY DEF Relaying, handlePRIVMSG, handleNOTICE, RelayToNick, RelayToChannel,
         Answer, Ignore
<1>. QED
  BY <1>1, StandsAside DEF server

\* An operator's command replaces the channel n by new.
LEMMA GovernKind ==
  ASSUME NEW f, NEW n \in Names, NEW new \in Channel, Continue,
         channels' = [channels EXCEPT ![n] = new], new.exists,
         isOperator(channels[n], f) \/ (busy.op = "MODE" /\ busy.fd = f /\ busy.chan = n),
         \A g \in Fds : new.clients[g] = channels[n].clients[g] \/ new.clients[g] = NoConn,
         \/ new.clients = channels[n].clients
         \/ sent' = broadcast(new, n, "KICK", clients[f].conn, {})
  PROVE  StepKind(f)
BY DEF Continue, registry, StepKind, Governs

LEMMA KickKind ==
  ASSUME CoreInv, NEW f \in Fds, handleKICK(f)
  PROVE  StepKind(f)
<1>1. CASE UNCHANGED <<registry, server>>
  BY <1>1, StandsAside DEF server
<1>2. ASSUME NEW n \in Names, NEW g \in Fds, Continue, channels[n].exists,
             isOperator(channels[n], f),
             channels' = [channels EXCEPT ![n] = removeFrom(channels[n], g)],
             sent' = broadcast(removeFrom(channels[n], g), n, "KICK", clients[f].conn, {})
      PROVE  StepKind(f)
  <2>1. PICK new : new = removeFrom(channels[n], g)
    OBVIOUS
  <2>2. channels[n] \in Channel
    BY DEF CoreInv, ChannelsGood
  <2>3. /\ new \in Channel /\ new.exists = channels[n].exists
        /\ \A h \in Fds : new.clients[h] = IF h = g THEN NoConn ELSE channels[n].clients[h]
    BY <2>1, <2>2 DEF removeFrom, Channel, NoConn
  <2>. QED
    BY <1>2, <2>1, <2>3, GovernKind, ZenonT(60)
<1>3. \A nick : First(nick) \subseteq Fds
  BY DEF First, Holders
<1>. QED
  BY <1>1, <1>2, <1>3 DEF handleKICK, Answer

LEMMA TopicKind ==
  ASSUME CoreInv, NEW f \in Fds, handleTOPIC(f)
  PROVE  StepKind(f)
<1>1. CASE UNCHANGED <<registry, server>>
  BY <1>1, StandsAside DEF server
<1>2. CASE Dereference(f)
  BY <1>1, <1>2, StandsAside DEF Dereference, Answer
<1>3. ASSUME NEW n \in Names, NEW topic \in Topics \cup {NoTopic}, Continue,
             channels[n].exists, isOperator(channels[n], f),
             channels' = [channels EXCEPT ![n].topic = topic]
      PROVE  StepKind(f)
  <2>1. PICK new : new = [channels[n] EXCEPT !.topic = topic]
    OBVIOUS
  <2>2. channels[n] \in Channel
    BY DEF CoreInv, ChannelsGood
  <2>3. /\ new \in Channel /\ new.exists = channels[n].exists
        /\ new.clients = channels[n].clients
    BY <2>1, <2>2 DEF Channel
  <2>4. channels' = [channels EXCEPT ![n] = new]
    BY <1>3, <2>1
  <2>. QED
    BY <1>3, <2>3, <2>4, GovernKind
<1>. QED
  BY <1>1, <1>2, <1>3 DEF handleTOPIC, Answer

LEMMA InviteKind ==
  ASSUME CoreInv, NEW f \in Fds, handleINVITE(f)
  PROVE  StepKind(f)
<1>1. CASE UNCHANGED <<registry, server>>
  BY <1>1, StandsAside DEF server
<1>2. CASE Dereference(f)
  BY <1>1, <1>2, StandsAside DEF Dereference, Answer
<1>3. ASSUME NEW n \in Names, NEW g \in Fds, Continue, channels[n].exists,
             isOperator(channels[n], f),
             channels' = [channels EXCEPT ![n] = authorize(channels[n], g)]
      PROVE  StepKind(f)
  <2>1. PICK new : new = authorize(channels[n], g)
    OBVIOUS
  <2>2. channels[n] \in Channel /\ clients[g].conn \in Nat
    BY DEF CoreInv, ChannelsGood, RegistryInv, RegistryTypeOK, Client
  <2>3. /\ new \in Channel /\ new.exists = channels[n].exists
        /\ new.clients = channels[n].clients
    BY <2>1, <2>2 DEF Channel, authorize
  <2>. QED
    BY <1>3, <2>1, <2>3, GovernKind
<1>4. \A nick : First(nick) \subseteq Fds
  BY DEF First, Holders
<1>. QED
  BY <1>1, <1>2, <1>3, <1>4 DEF handleINVITE, Answer

LEMMA ModeKind ==
  ASSUME CoreInv, NEW f \in Fds, handleMODE(f)
  PROVE  StepKind(f)
<1>1. CASE UNCHANGED <<registry, server>>
  BY <1>1, StandsAside DEF server
<1>2. ASSUME NEW n \in Names, isOperator(channels[n], f), NEW adding \in BOOLEAN,
             StartLoop(f, "MODE", n, adding)
      PROVE  StepKind(f)
  BY <1>2, LoopStartKind DEF handleMODE, Admitted, Ready
<1>. QED
  BY <1>1, <1>2 DEF handleMODE, Answer

LEMMA FlagAppliedKind ==
  ASSUME CoreInv, NEW f \in Fds, NEW new \in Channel, setChannel(f, new),
         new.clients = channels[busy.chan].clients,
         new.exists = channels[busy.chan].exists
  PROVE  StepKind(f)
<1>1. busy.op = "MODE" /\ busy.fd = f /\ Continue
      /\ channels' = [channels EXCEPT ![busy.chan] = new]
  BY DEF setChannel, InLoop
<1>2. busy.chan \in Names /\ channels[busy.chan].exists
  BY <1>1 DEF CoreInv, LoopInv
<1>3. PICK n \in Names : n = busy.chan
  BY <1>2
<1>. QED
  BY <1>1, <1>2, <1>3, GovernKind

LEMMA FlagAbandonedKind ==
  ASSUME NEW f, NEW codes, abandon(f, codes)
  PROVE  StepKind(f)
BY DEF abandon, registry, StepKind, Aside, ConnsKept, LoopMoves

LEMMA FlagKind ==
  ASSUME CoreInv, NEW f \in Fds, modeFlag(f)
  PROVE  StepKind(f)
<1>1. busy.op = "MODE" /\ busy.adding \in BOOLEAN
  BY DEF modeFlag, InLoop, CoreInv, LoopInv
<1>2. PICK ch \in Channel : ch = channels[busy.chan]
  BY <1>1 DEF CoreInv, LoopInv, ChannelsGood
<1>3. ASSUME NEW new \in Channel, new.clients = ch.clients, new.exists = ch.exists,
             setChannel(f, new)
      PROVE  StepKind(f)
  BY <1>2, <1>3, FlagAppliedKind
<1>4. CASE modeFlagI(f)
  <2>1. PICK new : new = [ch EXCEPT !.modeI = busy.adding]
    OBVIOUS
  <2>2. new \in Channel /\ new.clients = ch.clients /\ new.exists = ch.exists
    BY <1>1, <2>1 DEF Channel
  <2>. QED
    BY <1>2, <1>3, <1>4, <2>1, <2>2 DEF modeFlagI
<1>5. CASE modeFlagT(f)
  <2>1. PICK new : new = [ch EXCEPT !.modeT = busy.adding]
    OBVIOUS
  <2>2. new \in Channel /\ new.clients = ch.clients /\ new.exists = ch.exists
    BY <1>1, <2>1 DEF Channel
  <2>. QED
    BY <1>2, <1>3, <1>5, <2>1, <2>2 DEF modeFlagT
<1>6. CASE modeFlagO(f)
  <2>1. ASSUME NEW g \in Fds,
               setChannel(f, [ch EXCEPT !.operators =
                                IF busy.adding THEN @ \cup {g} ELSE @ \ {g}])
        PROVE  StepKind(f)
    <3>1. PICK new : new = [ch EXCEPT !.operators =
                              IF busy.adding THEN @ \cup {g} ELSE @ \ {g}]
      OBVIOUS
    <3>2. new \in Channel /\ new.clients = ch.clients /\ new.exists = ch.exists
      BY <3>1 DEF Channel
    <3>. QED
      BY <1>3, <2>1, <3>1, <3>2
  <2>2. \A nick : First(nick) \subseteq Fds
    BY DEF First, Holders
  <2>. QED
    BY <1>2, <1>6, <2>1, <2>2, FlagAbandonedKind DEF modeFlagO
<1>7. CASE modeFlagK(f)
  <2>1. ASSUME NEW key \in Keys \cup {NoKey}, NEW on \in BOOLEAN,
               setChannel(f, [ch EXCEPT !.pass = key, !.modeK = on])
        PROVE  StepKind(f)
    <3>1. PICK new : new = [ch EXCEPT !.pass = key, !.modeK = on]
      OBVIOUS
    <3>2. new \in Channel /\ new.clients = ch.clients /\ new.exists = ch.exists
      BY <3>1 DEF Channel
    <3>. QED
      BY <1>3, <2>1, <3>1, <3>2
  <2>. QED
    BY <1>2, <1>7, <2>1 DEF modeFlagK
<1>8. CASE modeFlagL(f)
  <2>1. ASSUME NEW limit \in Int, NEW on \in BOOLEAN,
               setChannel(f, [ch EXCEPT !.userLimit = limit, !.modeL = on])
        PROVE  StepKind(f)
    <3>1. PICK new : new = [ch EXCEPT !.userLimit = limit, !.modeL = on]
      OBVIOUS
    <3>2. new \in Channel /\ new.clients = ch.clients /\ new.exists = ch.exists
      BY <3>1 DEF Channel
    <3>. QED
      BY <1>3, <2>1, <3>1, <3>2
  <2>2. PICK zero \in Int : zero = 0
    OBVIOUS
  <2>3. LimitArgs \subseteq Int
    BY ServerAssumption
  <2>. QED
    BY <1>2, <1>8, <2>1, <2>2, <2>3, FlagAbandonedKind DEF modeFlagL
<1>9. CASE modeFlagBad(f)
  BY <1>9, FlagAbandonedKind DEF modeFlagBad
<1>. QED
  BY <1>4, <1>5, <1>6, <1>7, <1>8, <1>9 DEF modeFlag

LEMMA ServeKind ==
  ASSUME CoreInv, NEW f \in Fds, Serve(f)
  PROVE  StepKind(f)
<1>1. CASE EndLoop(f)
  BY <1>1 DEF EndLoop, registry, StepKind, Aside, ConnsKept, LoopMoves
<1>2. CASE Governing(f)
  BY <1>2, KickKind, TopicKind, InviteKind, ModeKind, FlagKind DEF Governing
<1>. QED
  BY <1>1, <1>2, ConnectionKind, JoiningKind, PartingKind, RelayingKind DEF Serve

\* Who is served in a step.
Served(f) ==
  \/ StepKind(f) /\ actor' = clients[f].conn
  \/ UNCHANGED channels /\ ConnsKept /\ UNCHANGED busy

LEMMA StepsHaveKinds ==
  ASSUME ServerInv, [Next]_vars
  PROVE  (\E f \in Fds : Served(f)) \/ UNCHANGED <<clients, channels, busy>>
<1>1. CASE UNCHANGED vars
  BY <1>1 DEF vars
<1>2. ASSUME NEW f \in Fds, Accept(f) PROVE Served(f)
  <2>1. UNCHANGED <<channels, busy>> /\ ~Open(f)
    BY <1>2 DEF Accept, acceptNewClient, server
  <2>2. \A g \in Fds : g # f => clients'[g] = clients[g]
    BY <1>2 DEF ServerInv, CoreInv, RegistryInv, RegistryTypeOK, Accept, acceptNewClient
  <2>. QED
    BY <2>1, <2>2 DEF Served, ConnsKept
<1>3. ASSUME NEW f \in Fds, Serve(f), actor' = clients[f].conn PROVE Served(f)
  BY <1>3, ServeKind DEF Served, ServerInv
<1>. QED
  BY <1>1, <1>2, <1>3 DEF Next, Stopped

-----------------------------------------------------------------------------
(* Members *)

LEMMA MembersErased ==
  ASSUME NEW ch
  PROVE  Members(eraseIfEmpty(ch)) = Members(ch)
<1>1. Members(NoChannel) = {}
  BY NoChannelShape DEF Members, hasClient
<1>. QED
  BY <1>1 DEF eraseIfEmpty

LEMMA MembersRemoved ==
  ASSUME NEW ch \in Channel, NEW f \in Fds
  PROVE  /\ removeFrom(ch, f) \in Channel
         /\ \A g \in Fds : removeFrom(ch, f).clients[g] = IF g = f THEN NoConn ELSE ch.clients[g]
         /\ Members(removeFrom(ch, f)) = Members(ch) \ {f}
<1>1. PICK new : new = removeFrom(ch, f)
  OBVIOUS
<1>2. /\ new \in Channel
      /\ \A g \in Fds : new.clients[g] = IF g = f THEN NoConn ELSE ch.clients[g]
  BY <1>1 DEF removeFrom, Channel, NoConn
<1>3. Members(new) = Members(ch) \ {f}
  BY <1>2 DEF Members, hasClient
<1>. QED
  BY <1>1, <1>2, <1>3

LEMMA MembersAdded ==
  ASSUME NEW ch \in Channel, NEW f \in Fds, Open(f), clients \in [Fds -> Client]
  PROVE  /\ Members(addClient(ch, f)) = Members(ch) \cup {f}
         /\ \A g \in Fds : addClient(ch, f).clients[g]
                             = IF g = f THEN clients[f].conn ELSE ch.clients[g]
         /\ addClient(ch, f).modeL = ch.modeL /\ addClient(ch, f).userLimit = ch.userLimit
         /\ addClient(ch, f).exists = ch.exists
<1>1. PICK new : new = addClient(ch, f)
  OBVIOUS
<1>2. /\ \A g \in Fds : new.clients[g] = IF g = f THEN clients[f].conn ELSE ch.clients[g]
      /\ new.modeL = ch.modeL /\ new.userLimit = ch.userLimit /\ new.exists = ch.exists
  BY <1>1 DEF addClient, Channel
<1>3. Members(new) = Members(ch) \cup {f}
  BY <1>2 DEF Members, hasClient, Open
<1>. QED
  BY <1>1, <1>2, <1>3

LEMMA JoinedShape ==
  ASSUME CoreInv, NEW n \in Names, NEW f \in Fds
  PROVE  /\ Joined(n, f) \in Channel /\ Joined(n, f).exists = TRUE
         /\ channels[n].exists => Joined(n, f) = channels[n]
         /\ ~channels[n].exists =>
              /\ Joined(n, f).operators = {f} /\ Members(Joined(n, f)) = {}
              /\ Joined(n, f).modeL = FALSE
              /\ Joined(n, f) = [NewChannel EXCEPT !.operators = {f}]
<1>1. channels[n] \in Channel
  BY DEF CoreInv, ChannelsGood
<1>2. CASE channels[n].exists
  BY <1>1, <1>2 DEF Joined, Channel
<1>3. CASE ~channels[n].exists
  <2>1. PICK new : new = [NewChannel EXCEPT !.operators = {f}]
    OBVIOUS
  <2>2. /\ new \in Channel /\ new.exists = TRUE /\ new.operators = {f}
        /\ new.clients = NoChannel.clients /\ new.modeL = FALSE
    BY <2>1, NoChannelShape DEF NewChannel, Channel
  <2>3. Members(new) = {}
    BY <2>2, NoChannelShape DEF Members, hasClient
  <2>. QED
    BY <1>3, <2>1, <2>2, <2>3 DEF Joined
<1>. QED
  BY <1>2, <1>3

\* What becomes of a channel when the connection of f ends.
Swept(ch, f) == eraseIfEmpty(IF hasClient(ch, f) THEN removeFrom(ch, f) ELSE ch)

LEMMA SweptChannel ==
  ASSUME NEW cl, NEW ch, GoodChannel(ch, cl), NEW f \in Fds
  PROVE  /\ Members(Swept(ch, f)) = Members(ch) \ {f}
         /\ Swept(ch, f).exists => Members(Swept(ch, f)) # {}
         /\ Swept(ch, f).exists \/ Swept(ch, f) = NoChannel
         /\ \A g \in Fds : /\ Swept(ch, f).clients[g] = IF g = f THEN NoConn ELSE ch.clients[g]
                           /\ isOperator(Swept(ch, f), g) <=> g # f /\ isOperator(ch, g)
         /\ ~hasClient(Swept(ch, f), f) /\ ~isOperator(Swept(ch, f), f)
<1>1. ch \in Channel
  BY DEF GoodChannel
<1>2. PICK mid : mid = IF hasClient(ch, f) THEN removeFrom(ch, f) ELSE ch
  OBVIOUS
<1>3. /\ \A g \in Fds : mid.clients[g] = IF g = f THEN NoConn ELSE ch.clients[g]
      /\ mid.operators = ch.operators \ {f} /\ mid.exists = ch.exists
  <2>1. CASE hasClient(ch, f)
    BY <1>1, <1>2, <2>1 DEF removeFrom, Channel, NoConn
  <2>2. CASE ~hasClient(ch, f)
    <3>1. mid = ch /\ ch.clients[f] = NoConn /\ f \notin ch.operators
      BY <1>2, <2>2 DEF hasClient, GoodChannel, OperatorsWithin, isOperator
    <3>. QED
      BY <3>1
  <2>. QED
    BY <2>1, <2>2
<1>4. Members(mid) = Members(ch) \ {f}
  BY <1>3 DEF Members, hasClient
<1>5. Swept(ch, f) = IF Members(mid) = {} THEN NoChannel ELSE mid
  BY <1>2 DEF Swept, eraseIfEmpty
<1>6. CASE Members(mid) = {}
  <2>1. Swept(ch, f) = NoChannel /\ NoChannel.exists = FALSE
        /\ NoChannel.operators = {} /\ \A g \in Fds : NoChannel.clients[g] = NoConn
    BY <1>5, <1>6, NoChannelShape DEF NoChannel
  <2>2. \A g \in Fds : mid.clients[g] = NoConn
    BY <1>6 DEF Members, hasClient
  <2>3. \A g \in Fds : g # f => ~isOperator(ch, g)
    BY <1>3, <2>2 DEF GoodChannel, OperatorsWithin, hasClient
  <2>4. Members(NoChannel) = {}
    BY <2>1 DEF Members, hasClient
  <2>5. \A g \in Fds : ~isOperator(NoChannel, g) /\ ~hasClient(NoChannel, g)
    BY <2>1 DEF isOperator, hasClient
  <2>. QED
    BY <1>3, <1>4, <1>6, <2>1, <2>2, <2>3, <2>4, <2>5
<1>7. CASE Members(mid) # {}
  <2>1. Swept(ch, f) = mid
    BY <1>5, <1>7
  <2>2. mid.exists
    <3>1. PICK g \in Fds : hasClient(mid, g)
      BY <1>7 DEF Members
    <3>2. hasClient(ch, g)
      BY <1>3, <3>1 DEF hasClient
    <3>. QED
      BY <1>3, <3>2 DEF GoodChannel, LiveMembers
  <2>3. \A g \in Fds : isOperator(mid, g) <=> g # f /\ isOperator(ch, g)
    BY <1>3 DEF isOperator
  <2>4. ~hasClient(mid, f) /\ ~isOperator(mid, f)
    BY <1>3 DEF hasClient, isOperator
  <2>. QED
    BY <1>3, <1>4, <1>7, <2>1, <2>2, <2>3, <2>4
<1>. QED
  BY <1>6, <1>7

LEMMA ChannelsSwept ==
  ASSUME NEW f, channels' = removeClientFromAllChannels(f), NEW n \in Names
  PROVE  channels'[n] = Swept(channels[n], f)
BY DEF removeClientFromAllChannels, Swept

-----------------------------------------------------------------------------
(* The end of a connection *)

LEMMA EndOfOne ==
  ASSUME ServerInv, NEW f \in Fds, Served(f), NEW g \in Fds, Open(g), clients'[g] = Absent
  PROVE  g = f /\ Ends(f)
<1>1. clients'[g].conn # clients[g].conn
  BY DEF Absent, NewClient, Open
<1>2. ~ConnsKept /\ ~UNCHANGED clients
  BY <1>1 DEF ConnsKept
<1>3. Ends(f)
  BY <1>2 DEF Served, StepKind, Aside, Enters, Leaves, Governs, registry
<1>4. g = f
  BY <1>1, <1>3 DEF Ends, erase, ServerInv, CoreInv, RegistryInv, RegistryTypeOK
<1>. QED
  BY <1>3, <1>4

\* Whenever a connection ends, no channel without members is left, and no
\* channel has the descriptor among its members or its operators; its
\* invitations are not taken away.
THEOREM DisconnectionsSweep == Spec => DisconnectSweeps
<1>. DEFINE Sweeps(f) ==
       \A n \in Names :
         /\ channels'[n].exists => Members(channels'[n]) # {}
         /\ ~hasClient(channels'[n], f) /\ ~isOperator(channels'[n], f)
<1>1. ASSUME ServerInv, [Next]_vars, NEW f \in Fds, Open(f), clients'[f] = Absent
      PROVE  Sweeps(f)
  <2>1. PICK g \in Fds : Served(g)
    BY <1>1, StepsHaveKinds DEF Open, Absent, NewClient
  <2>2. Ends(f)
    BY <1>1, <2>1, EndOfOne
  <2>3. ASSUME NEW n \in Names
        PROVE  /\ channels'[n].exists => Members(channels'[n]) # {}
               /\ ~hasClient(channels'[n], f) /\ ~isOperator(channels'[n], f)
    <3>1. GoodChannel(channels[n], clients)
      BY <1>1 DEF ServerInv, CoreInv, ChannelsGood
    <3>2. channels'[n] = Swept(channels[n], f)
      BY <2>2, ChannelsSwept DEF Ends
    <3>. QED
      BY <3>1, <3>2, SweptChannel
  <2>. QED
    BY <2>3
<1>2. ServerInv /\ [Next]_vars =>
        [\A f \in Fds : Open(f) /\ clients'[f] = Absent => Sweeps(f)]_vars
  BY <1>1
<1>. QED
  BY <1>2, ServerInvariant, PTL DEF Spec, DisconnectSweeps

-----------------------------------------------------------------------------
(* How the members of a channel change *)

LEMMA MembersReplaced ==
  ASSUME CoreInv, NEW n \in Names, NEW new, channels' = [channels EXCEPT ![n] = new]
  PROVE  \A k \in Names : channels'[k] = IF k = n THEN new ELSE channels[k]
BY DEF CoreInv, ChannelsGood

LEMMA LeftMembers ==
  ASSUME CoreInv, NEW n \in Names, NEW f \in Fds, Leaves(f, n)
  PROVE  /\ channels'[n] = Swept(channels[n], f)
         /\ \A k \in Names \ {n} : channels'[k] = channels[k]
<1>1. PICK new : new = eraseIfEmpty(removeFrom(channels[n], f))
  OBVIOUS
<1>2. new = Swept(channels[n], f)
  BY <1>1 DEF Leaves, Swept
<1>3. channels' = [channels EXCEPT ![n] = new]
  BY <1>1 DEF Leaves
<1>4. \A k \in Names : channels'[k] = IF k = n THEN new ELSE channels[k]
  BY <1>3, MembersReplaced
<1>. QED
  BY <1>2, <1>4

LEMMA GovernedMembers ==
  ASSUME CoreInv, NEW n \in Names, NEW f \in Fds, Governs(f, n)
  PROVE  /\ Members(channels'[n]) \subseteq Members(channels[n])
         /\ channels'[n].exists
         /\ \/ Members(channels'[n]) = Members(channels[n])
            \/ sent' = broadcast(channels'[n], n, "KICK", clients[f].conn, {})
         /\ \A k \in Names \ {n} : channels'[k] = channels[k]
<1>1. PICK new \in Channel :
         /\ channels' = [channels EXCEPT ![n] = new]
         /\ new.exists
         /\ \A g \in Fds : new.clients[g] = channels[n].clients[g] \/ new.clients[g] = NoConn
         /\ \/ new.clients = channels[n].clients
            \/ sent' = broadcast(new, n, "KICK", clients[f].conn, {})
  BY DEF Governs
<1>2. \A k \in Names : channels'[k] = IF k = n THEN new ELSE channels[k]
  BY <1>1, MembersReplaced
<1>3. Members(new) \subseteq Members(channels[n])
  BY <1>1 DEF Members, hasClient
<1>4. new.clients = channels[n].clients => Members(new) = Members(channels[n])
  BY DEF Members, hasClient
<1>. QED
  BY <1>1, <1>2, <1>3, <1>4

LEMMA EnteredMembers ==
  ASSUME CoreInv, NEW n \in Names, NEW f \in Fds, Enters(f, n)
  PROVE  /\ channels'[n] = addClient(Joined(n, f), f)
         /\ Members(channels'[n]) = Members(Joined(n, f)) \cup {f}
         /\ \A g \in Fds : channels'[n].clients[g]
                             = IF g = f THEN clients[f].conn ELSE Joined(n, f).clients[g]
         /\ channels'[n].modeL = Joined(n, f).modeL
         /\ channels'[n].userLimit = Joined(n, f).userLimit
         /\ channels'[n].exists = TRUE
         /\ \A k \in Names \ {n} : channels'[k] = channels[k]
<1>1. PICK ch : ch = Joined(n, f)
  OBVIOUS
<1>2. ch \in Channel /\ ch.exists = TRUE
  BY <1>1, JoinedShape
<1>3. Open(f) /\ clients \in [Fds -> Client]
  BY DEF Enters, CoreInv, RegistryInv, RegistryTypeOK
<1>4. channels' = [channels EXCEPT ![n] = addClient(ch, f)]
  BY <1>1 DEF Enters
<1>5. \A k \in Names : channels'[k] = IF k = n THEN addClient(ch, f) ELSE channels[k]
  BY <1>4, MembersReplaced
<1>. QED
  BY <1>1, <1>2, <1>3, <1>5, MembersAdded

\* A name with no entry in _channels maps to the channel nobody has changed.
Blank == \A n \in Names : channels[n].exists \/ channels[n] = NoChannel

LEMMA BlankKept ==
  ASSUME ServerInv, Blank, [Next]_vars
  PROVE  Blank'
<1>1. CASE UNCHANGED channels
  BY <1>1 DEF Blank
<1>2. ASSUME NEW f \in Fds, StepKind(f) PROVE Blank'
  <2>. CoreInv
    BY DEF ServerInv
  <2>1. ASSUME NEW n \in Names
        PROVE  Swept(channels[n], f).exists \/ Swept(channels[n], f) = NoChannel
    BY SweptChannel DEF CoreInv, ChannelsGood
  <2>2. CASE Ends(f)
    BY <2>1, <2>2, ChannelsSwept DEF Ends, Blank
  <2>3. ASSUME NEW n \in Names, Enters(f, n) PROVE Blank'
    BY <2>3, EnteredMembers DEF Blank
  <2>4. ASSUME NEW n \in Names, Leaves(f, n) PROVE Blank'
    BY <2>1, <2>4, LeftMembers DEF Blank
  <2>5. ASSUME NEW n \in Names, Governs(f, n) PROVE Blank'
    BY <2>5, GovernedMembers DEF Blank
  <2>. QED
    BY <1>1, <1>2, <2>2, <2>3, <2>4, <2>5 DEF StepKind, Aside
<1>. QED
  BY <1>1, <1>2, StepsHaveKinds DEF Served

StepInv == ServerInv /\ Blank

LEMMA StepInvariant == Spec => []StepInv
<1>1. ServerInit => Blank
  BY DEF ServerInit, Blank
<1>2. StepInv /\ [Next]_vars => StepInv'
  BY ServerNextInv, BlankKept DEF StepInv
<1>. QED
  BY <1>1, <1>2, ServerInitInv, PTL DEF Spec, StepInv

\* Nobody becomes a member but the client served, by a JOIN.
LEMMA MemberGained ==
  ASSUME CoreInv, NEW g \in Fds, Served(g), NEW n \in Names, NEW f \in Fds,
         f \in Members(channels'[n]), f \notin Members(channels[n])
  PROVE  f = g /\ Enters(f, n)
<1>1. channels' # channels /\ StepKind(g)
  BY DEF Served, StepKind, Aside
<1>2. ~Ends(g)
  BY ChannelsSwept, SweptChannel DEF Ends, CoreInv, ChannelsGood
<1>3. ASSUME NEW k \in Names, Leaves(g, k) PROVE FALSE
  <2>1. Members(Swept(channels[n], g)) \subseteq Members(channels[n])
    BY SweptChannel DEF CoreInv, ChannelsGood
  <2>. QED
    BY <1>3, <2>1, LeftMembers
<1>4. ASSUME NEW k \in Names, Governs(g, k) PROVE FALSE
  BY <1>4, GovernedMembers
<1>5. ASSUME NEW k \in Names, Enters(g, k) PROVE k = n /\ f = g
  <2>1. k = n
    <3>1. \A j \in Names \ {k} : channels'[j] = channels[j]
      BY <1>5, EnteredMembers
    <3>. QED
      BY <3>1
  <2>2. Members(channels'[n]) = Members(Joined(n, g)) \cup {g}
    BY <1>5, <2>1, EnteredMembers
  <2>3. channels[n].exists \/ ~channels[n].exists
    OBVIOUS
  <2>4. Members(Joined(n, g)) \subseteq Members(channels[n])
    BY <2>3, JoinedShape, Zenon
  <2>. QED
    BY <2>1, <2>2, <2>4
<1>. QED
  BY <1>1, <1>2, <1>3, <1>4, <1>5 DEF StepKind, Aside

\* A channel gains only members whom +i and +l let in, whatever was done before
\* to its invitations, its limit and its members.
THEOREM AdmissionIsControlled == Spec => AdmissionControl
<1>. DEFINE LetIn(n, f) ==
       /\ channels[n].modeI => isAuthorizedClient(channels[n], f)
       /\ channels'[n].modeL =>
            Cardinality(Members(channels'[n])) <= channels'[n].userLimit
<1>1. ASSUME StepInv, [Next]_vars, NEW n \in Names, NEW f \in Fds,
             f \in Members(channels'[n]), f \notin Members(channels[n])
      PROVE  LetIn(n, f)
  <2>. CoreInv
    BY <1>1 DEF StepInv, ServerInv
  <2>1. PICK g \in Fds : Served(g)
    BY <1>1, StepsHaveKinds DEF StepInv
  <2>2. Enters(f, n)
    BY <1>1, <2>1, MemberGained
  <2>3. PICK ch : ch = Joined(n, f)
    OBVIOUS
  <2>4. ~Uninvited(ch, f) /\ ~Full(ch) /\ ~hasClient(ch, f)
    BY <2>2, <2>3 DEF Enters
  <2>5. /\ Members(channels'[n]) = Members(ch) \cup {f}
        /\ channels'[n].modeL = ch.modeL /\ channels'[n].userLimit = ch.userLimit
    BY <2>2, <2>3, EnteredMembers
  <2>6. channels[n].modeI => isAuthorizedClient(channels[n], f)
    <3>1. CASE channels[n].exists
      BY <2>3, <2>4, <3>1, JoinedShape DEF Uninvited
    <3>2. CASE ~channels[n].exists
      BY <1>1, <3>2, NoChannelShape DEF StepInv, Blank
    <3>. QED
      BY <3>1, <3>2
  <2>7. ASSUME ch.modeL PROVE Cardinality(Members(channels'[n])) <= ch.userLimit
    <3>1. IsFiniteSet(Members(ch))
      BY ServerAssumption, FS_Subset DEF Members
    <3>2. f \notin Members(ch)
      BY <2>4 DEF Members
    <3>3. Cardinality(Members(ch) \cup {f}) = Cardinality(Members(ch)) + 1
      BY <3>1, <3>2, FS_AddElement
    <3>4. Cardinality(Members(ch)) \in Nat
      BY <3>1, FS_CardinalityType
    <3>5. ch.userLimit \in Int
      BY <2>3, JoinedShape DEF Channel
    <3>6. Cardinality(Members(ch)) < ch.userLimit
      BY <2>4, <2>7, <3>4, <3>5 DEF Full
    <3>. QED
      BY <2>5, <3>3, <3>4, <3>5, <3>6
  <2>. QED
    BY <2>5, <2>6, <2>7
<1>2. StepInv /\ [Next]_vars =>
        [\A n \in Names : \A f \in Members(channels'[n]) \ Members(channels[n]) :
           LetIn(n, f)]_vars
  BY <1>1 DEF Members
<1>. QED
  BY <1>2, StepInvariant, PTL DEF Spec, AdmissionControl

\* The message that a member of n gets through the pointer that ch keeps.
LEMMA MemberTold ==
  ASSUME NEW ch, NEW n, NEW kind, NEW from, NEW excepted, NEW g \in Fds,
         hasClient(ch, g), g \notin excepted
  PROVE  Message(kind, from, ch.clients[g], n) \in broadcast(ch, n, kind, from, excepted)
BY DEF broadcast, Members

\* A channel's members, before and after a step, are at the ends of its pointers.
LEMMA PointersKept ==
  ASSUME CoreInv, CoreInv', NEW n \in Names, NEW g \in Fds, hasClient(channels'[n], g)
  PROVE  /\ channels'[n].clients[g] = clients'[g].conn
         /\ clients'[g].conn # NoConn
<1>1. GoodChannel(channels[n], clients)'
  BY DEF CoreInv, ChannelsGood
<1>2. channels'[n].clients[g] = clients'[g].conn
  BY <1>1 DEF GoodChannel, LiveMembers, hasClient
<1>. QED
  BY <1>2 DEF hasClient

LEMMA MembersTold ==
  ASSUME CoreInv, CoreInv', NEW f \in Fds, StepKind(f), NEW n \in Names,
         Members(channels'[n]) # Members(channels[n]),
         NEW g \in Fds, hasClient(channels'[n], g)
  PROVE  \E kind \in {"JOIN", "PART", "KICK"} :
           Message(kind, clients[f].conn, clients'[g].conn, n) \in sent'
<1>1. channels'[n].clients[g] = clients'[g].conn
  BY PointersKept
<1>2. ASSUME channels'[n] = Swept(channels[n], f),
             \/ Farewell(f, {"PART"}) \subseteq sent'
             \/ sent' = broadcast(channels[n], n, "PART", clients[f].conn, {f})
      PROVE  Message("PART", clients[f].conn, clients'[g].conn, n) \in sent'
  <2>1. /\ Members(channels'[n]) = Members(channels[n]) \ {f}
        /\ channels'[n].clients[g] = IF g = f THEN NoConn ELSE channels[n].clients[g]
    BY <1>2, SweptChannel DEF CoreInv, ChannelsGood
  <2>2. hasClient(channels[n], f)
    BY <2>1 DEF Members
  <2>3. g # f /\ hasClient(channels[n], g) /\ channels[n].clients[g] = clients'[g].conn
    BY <1>1, <2>1 DEF hasClient
  <2>4. Message("PART", clients[f].conn, clients'[g].conn, n)
          \in broadcast(channels[n], n, "PART", clients[f].conn, {f})
    <3>1. Message("PART", clients[f].conn, channels[n].clients[g], n)
            \in broadcast(channels[n], n, "PART", clients[f].conn, {f})
      BY <2>3, MemberTold
    <3>. QED
      BY <2>3, <3>1
  <2>5. broadcast(channels[n], n, "PART", clients[f].conn, {f}) \subseteq Farewell(f, {"PART"})
    BY <2>2 DEF Farewell
  <2>. QED
    BY <1>2, <2>4, <2>5
<1>3. ASSUME NEW kind \in {"JOIN", "PART", "KICK"},
             sent' = broadcast(channels'[n], n, kind, clients[f].conn, {})
      PROVE  Message(kind, clients[f].conn, clients'[g].conn, n) \in sent'
  <2>1. Message(kind, clients[f].conn, channels'[n].clients[g], n)
          \in broadcast(channels'[n], n, kind, clients[f].conn, {})
    BY MemberTold
  <2>. QED
    BY <1>1, <1>3, <2>1
<1>4. CASE Ends(f)
  <2>1. channels'[n] = Swept(channels[n], f)
    BY <1>4, ChannelsSwept DEF Ends
  <2>2. hasClient(channels[n], f)
    <3>1. Members(channels'[n]) = Members(channels[n]) \ {f}
      BY <2>1, SweptChannel DEF CoreInv, ChannelsGood
    <3>. QED
      BY <3>1 DEF Members
  <2>. QED
    BY <1>2, <1>4, <2>1, <2>2 DEF Ends
<1>5. ASSUME NEW k \in Names, Enters(f, k)
      PROVE  sent' = broadcast(channels'[n], n, "JOIN", clients[f].conn, {})
  <2>1. \A j \in Names \ {k} : channels'[j] = channels[j]
    BY <1>5, EnteredMembers
  <2>2. k = n
    BY <2>1
  <2>3. channels'[n] = addClient(Joined(n, f), f)
    BY <1>5, <2>2, EnteredMembers
  <2>. QED
    BY <1>5, <2>2, <2>3 DEF Enters
<1>6. ASSUME NEW k \in Names, Leaves(f, k)
      PROVE  /\ channels'[n] = Swept(channels[n], f)
             /\ sent' = broadcast(channels[n], n, "PART", clients[f].conn, {f})
  <2>1. \A j \in Names \ {k} : channels'[j] = channels[j]
    BY <1>6, LeftMembers
  <2>2. k = n
    BY <2>1
  <2>. QED
    BY <1>6, <2>2, LeftMembers DEF Leaves
<1>7. ASSUME NEW k \in Names, Governs(f, k)
      PROVE  sent' = broadcast(channels'[n], n, "KICK", clients[f].conn, {})
  <2>1. \A j \in Names \ {k} : channels'[j] = channels[j]
    BY <1>7, GovernedMembers
  <2>2. k = n
    BY <2>1
  <2>. QED
    BY <1>7, <2>2, GovernedMembers
<1>8. ~Aside(f)
  BY DEF Aside
<1>. QED
  BY <1>2, <1>3, <1>4, <1>5, <1>6, <1>7, <1>8 DEF StepKind

\* Whoever remains in a channel is told of every change of its membership.
THEOREM MembershipIsAnnounced == Spec => MembershipAnnounced
<1>. DEFINE Told(n, g) ==
       \E kind \in {"JOIN", "PART", "KICK"} :
         Message(kind, actor', clients'[g].conn, n) \in sent'
<1>1. ASSUME ServerInv, ServerInv', [Next]_vars, NEW n \in Names,
             Members(channels'[n]) # Members(channels[n]), NEW g \in Members(channels'[n])
      PROVE  Told(n, g)
  <2>1. PICK f \in Fds : StepKind(f) /\ actor' = clients[f].conn
    BY <1>1, StepsHaveKinds DEF Served
  <2>2. g \in Fds /\ hasClient(channels'[n], g)
    BY DEF Members
  <2>. QED
    BY <1>1, <2>1, <2>2, MembersTold DEF ServerInv
<1>2. ServerInv /\ ServerInv' /\ [Next]_vars =>
        [\A n \in Names : Members(channels'[n]) # Members(channels[n]) =>
           \A g \in Members(channels'[n]) : Told(n, g)]_vars
  BY <1>1
<1>. QED
  BY <1>2, ServerInvariant, PTL DEF Spec, MembershipAnnounced

-----------------------------------------------------------------------------
(* The promise to the users of channels *)

\* What the refinement mapping of Access makes of one channel.
MemberConns(ch) == {ch.clients[f] : f \in Members(ch)}
OperConns(ch, cl) == {cl[f].conn : f \in ch.operators}
SettingsOf(ch) ==
  [ch EXCEPT !.exists = TRUE, !.operators = {}, !.clients = [f \in Fds |-> NoConn]]

accessMember == [n \in Names |-> MemberConns(channels[n])]
accessOper == [n \in Names |-> OperConns(channels[n], clients)]
accessSettings == [n \in Names |-> SettingsOf(channels[n])]
accessMandate == IF busy.op = "MODE" THEN <<clients[busy.fd].conn, busy.chan>> ELSE <<>>

Untouched == [NoChannel EXCEPT !.exists = TRUE]

LEMMA BlankSettings ==
  /\ SettingsOf(NoChannel) = Untouched
  /\ MemberConns(NoChannel) = {}
  /\ \A cl : OperConns(NoChannel, cl) = {}
<1>1. SettingsOf(NoChannel) = Untouched
  <2>1. PICK cl : cl = [f \in Fds |-> NoConn]
    OBVIOUS
  <2>2. SettingsOf(NoChannel)
          = [NoChannel EXCEPT !.exists = TRUE, !.operators = {}, !.clients = cl]
    BY <2>1 DEF SettingsOf
  <2>3. PICK ch \in Channel : ch = NoChannel
    BY NoChannelShape
  <2>4. ch.clients = cl /\ ch.operators = {}
    BY <2>1, <2>3 DEF NoChannel
  <2>5. [ch EXCEPT !.exists = TRUE, !.operators = {}, !.clients = cl]
          = [ch EXCEPT !.exists = TRUE]
    BY <2>4 DEF Channel
  <2>. QED
    BY <2>2, <2>3, <2>5 DEF Untouched
<1>2. Members(NoChannel) = {}
  BY NoChannelShape DEF Members, hasClient
<1>3. MemberConns(NoChannel) = {}
  BY <1>2 DEF MemberConns
<1>4. \A cl : OperConns(NoChannel, cl) = {}
  BY NoChannelShape DEF OperConns
<1>. QED
  BY <1>1, <1>3, <1>4

LEMMA SettingsSame ==
  ASSUME NEW ch \in Channel, NEW new \in Channel,
         new.authorized = ch.authorized, new.modeI = ch.modeI, new.modeT = ch.modeT,
         new.modeK = ch.modeK, new.modeL = ch.modeL, new.pass = ch.pass,
         new.userLimit = ch.userLimit, new.topic = ch.topic
  PROVE  SettingsOf(new) = SettingsOf(ch)
BY DEF SettingsOf, Channel

\* A connection is in a channel exactly when its descriptor is.
LEMMA ConnNames ==
  ASSUME RegistryInv, NEW ch, GoodChannel(ch, clients), NEW f \in Fds
  PROVE  /\ \A g \in Fds : hasClient(ch, g) /\ ch.clients[g] = clients[f].conn => g = f
         /\ \A g \in Fds : isOperator(ch, g) /\ clients[g].conn = clients[f].conn => g = f
<1>1. \A g \in Fds : hasClient(ch, g) => ch.clients[g] = clients[g].conn /\ Open(g)
  BY DEF GoodChannel, LiveMembers, hasClient, Open
<1>2. \A g \in Fds : Open(g) /\ clients[g].conn = clients[f].conn => g = f
  BY DEF RegistryInv, SerialsDistinct, Open
<1>3. \A g \in Fds : isOperator(ch, g) => hasClient(ch, g)
  BY DEF GoodChannel, OperatorsWithin
<1>. QED
  BY <1>1, <1>2, <1>3

LEMMA SweptAccess ==
  ASSUME RegistryInv, NEW ch, GoodChannel(ch, clients), NEW f \in Fds, NEW cl,
         \A g \in Fds : g # f => cl[g] = clients[g]
  PROVE  /\ MemberConns(Swept(ch, f)) = MemberConns(ch) \ {clients[f].conn}
         /\ OperConns(Swept(ch, f), cl) = OperConns(ch, clients) \ {clients[f].conn}
         /\ SettingsOf(Swept(ch, f)) = IF MemberConns(Swept(ch, f)) = {} THEN Untouched
                                                                      ELSE SettingsOf(ch)
         /\ ~hasClient(ch, f) /\ Members(ch) # {} => Swept(ch, f) = ch
<1>1. PICK new : new = Swept(ch, f)
  OBVIOUS
<1>2. /\ Members(new) = Members(ch) \ {f}
      /\ \A g \in Fds : new.clients[g] = IF g = f THEN NoConn ELSE ch.clients[g]
      /\ \A g \in Fds : isOperator(new, g) <=> g # f /\ isOperator(ch, g)
  BY <1>1, SweptChannel
<1>3. MemberConns(new) = MemberConns(ch) \ {clients[f].conn}
  <2>1. ASSUME NEW g \in Fds, hasClient(ch, g)
        PROVE  ch.clients[g] = clients[f].conn <=> g = f
    <3>1. ch.clients[g] = clients[g].conn
      BY <2>1 DEF GoodChannel, LiveMembers
    <3>. QED
      BY <2>1, <3>1, ConnNames
  <2>2. ASSUME NEW c PROVE c \in MemberConns(new) <=> c \in MemberConns(ch) \ {clients[f].conn}
    <3>1. c \in MemberConns(new) <=> \E g \in Fds : hasClient(ch, g) /\ g # f /\ c = ch.clients[g]
      BY <1>2 DEF MemberConns, Members
    <3>2. c \in MemberConns(ch) <=> \E g \in Fds : hasClient(ch, g) /\ c = ch.clients[g]
      BY DEF MemberConns, Members
    <3>. QED
      BY <2>1, <3>1, <3>2
  <2>. QED
    BY <2>2
<1>4. ch.operators \subseteq Fds /\ new.operators \subseteq Fds
  <2>1. ch \in Channel
    BY DEF GoodChannel
  <2>2. new \in Channel
    <3>1. \A h \in Fds : removeFrom(ch, h) \in Channel
      BY <2>1, MembersRemoved
    <3>. QED
      BY <1>1, <2>1, <3>1, NoChannelShape DEF Swept, eraseIfEmpty
  <2>. QED
    BY <2>1, <2>2 DEF Channel
<1>5. OperConns(new, cl) = OperConns(ch, clients) \ {clients[f].conn}
  <2>1. ASSUME NEW c PROVE c \in OperConns(new, cl) <=> c \in OperConns(ch, clients) \ {clients[f].conn}
    <3>1. c \in OperConns(new, cl) <=> \E g \in Fds : isOperator(ch, g) /\ g # f /\ c = clients[g].conn
      BY <1>2, <1>4 DEF OperConns, isOperator
    <3>2. c \in OperConns(ch, clients) <=> \E g \in Fds : isOperator(ch, g) /\ c = clients[g].conn
      BY <1>4 DEF OperConns, isOperator
    <3>. QED
      BY <3>1, <3>2, ConnNames
  <2>. QED
    BY <2>1
<1>6. PICK mid : mid = IF hasClient(ch, f) THEN removeFrom(ch, f) ELSE ch
  OBVIOUS
<1>7. new = IF Members(mid) = {} THEN NoChannel ELSE mid
  BY <1>1, <1>6 DEF Swept, eraseIfEmpty
<1>8. SettingsOf(mid) = SettingsOf(ch)
  BY <1>6 DEF removeFrom, SettingsOf, GoodChannel, Channel
<1>9. MemberConns(new) = {} <=> Members(mid) = {}
  <2>1. Members(new) = Members(mid)
    BY <1>1, <1>6, MembersErased DEF Swept
  <2>. QED
    BY <2>1 DEF MemberConns
<1>10. SettingsOf(new) = IF MemberConns(new) = {} THEN Untouched ELSE SettingsOf(ch)
  BY <1>7, <1>8, <1>9, BlankSettings
<1>11. ~hasClient(ch, f) /\ Members(ch) # {} => new = ch
  BY <1>6, <1>7
<1>. QED
  BY <1>1, <1>3, <1>5, <1>10, <1>11

\* The actions of ChannelAccess under the refinement mapping.
LEMMA AccessEnter ==
  ASSUME NEW n,
         actor' \notin accessMember[n],
         accessMember' = [accessMember EXCEPT ![n] = @ \cup {actor'}],
         \/ UNCHANGED accessOper
         \/ /\ accessMember[n] = {} /\ accessSettings[n] = Untouched
            /\ accessOper' = [accessOper EXCEPT ![n] = @ \cup {actor'}],
         UNCHANGED <<accessSettings, accessMandate>>
  PROVE  Access!Enter(n)
BY ZenonT(60) DEF Access!Enter, accessMember, accessOper, accessSettings, accessMandate,
       MemberConns, OperConns, SettingsOf, Untouched

LEMMA AccessLeave ==
  ASSUME NEW S,
         accessMember' = [n \in Names |-> IF n \in S THEN accessMember[n] \ {actor'}
                                                     ELSE accessMember[n]],
         accessOper' = [n \in Names |-> IF n \in S THEN accessOper[n] \ {actor'}
                                                   ELSE accessOper[n]],
         accessSettings' = [n \in Names |-> IF n \in S THEN Access!Kept(accessMember')[n]
                                                       ELSE accessSettings[n]],
         UNCHANGED accessMandate
  PROVE  Access!Leave(S)
BY ZenonT(60) DEF Access!Leave, accessMember, accessOper, accessSettings, accessMandate,
       MemberConns, OperConns, SettingsOf, Untouched

LEMMA AccessGovern ==
  ASSUME NEW n,
         actor' \in accessOper[n] \/ accessMandate = <<actor', n>>,
         accessMember'[n] \subseteq accessMember[n],
         accessOper'[n] \subseteq accessMember'[n],
         \A k \in Names \ {n} :
           /\ accessMember'[k] = accessMember[k]
           /\ accessOper'[k] = accessOper[k]
           /\ accessSettings'[k] = accessSettings[k],
         UNCHANGED accessMandate
  PROVE  Access!Govern(n)
BY ZenonT(60) DEF Access!Govern, Access!Entitled, accessMember, accessOper, accessSettings,
       accessMandate, MemberConns, OperConns, SettingsOf, Untouched

LEMMA AccessBeginMode ==
  ASSUME NEW n, actor' \in accessOper[n],
         accessMandate = <<>>, accessMandate' = <<actor', n>>,
         UNCHANGED <<accessMember, accessOper, accessSettings>>
  PROVE  Access!BeginMode(n)
BY ZenonT(60) DEF Access!BeginMode, accessMember, accessOper, accessSettings, accessMandate,
       MemberConns, OperConns, SettingsOf, Untouched

LEMMA AccessEndMode ==
  ASSUME accessMandate' = <<>>, UNCHANGED <<accessMember, accessOper, accessSettings>>
  PROVE  Access!EndMode
BY ZenonT(60) DEF Access!EndMode, accessMember, accessOper, accessSettings, accessMandate,
       MemberConns, OperConns, SettingsOf, Untouched

LEMMA AccessStutters ==
  ASSUME UNCHANGED <<accessMember, accessOper, accessSettings, accessMandate>>
  PROVE  UNCHANGED Access!access
BY ZenonT(60) DEF Access!access, accessMember, accessOper, accessSettings, accessMandate,
       MemberConns, OperConns, SettingsOf, Untouched

LEMMA AccessStarts == ServerInit => Access!Init
<1>. SUFFICES ASSUME ServerInit PROVE Access!Init
  OBVIOUS
<1>1. \A n \in Names : channels[n] = NoChannel
  BY DEF ServerInit
<1>2. accessMember = [n \in Names |-> {}]
  BY <1>1, BlankSettings DEF accessMember
<1>3. accessOper = [n \in Names |-> {}]
  BY <1>1, BlankSettings DEF accessOper
<1>4. accessSettings = [n \in Names |-> Untouched]
  BY <1>1, BlankSettings DEF accessSettings
<1>5. accessMandate = <<>>
  BY DEF ServerInit, Idle, accessMandate
<1>. QED
  BY <1>2, <1>3, <1>4, <1>5 DEF Access!Init, accessMember, accessOper, accessSettings,
     accessMandate, MemberConns, OperConns, SettingsOf, Untouched

\* With the channels and their members' connections as they are, nothing but
\* the mandate changes.
LEMMA AccessKept ==
  ASSUME CoreInv, UNCHANGED channels, ConnsKept
  PROVE  UNCHANGED <<accessMember, accessOper, accessSettings>>
<1>1. ASSUME NEW n \in Names PROVE OperConns(channels[n], clients') = OperConns(channels[n], clients)
  <2>1. GoodChannel(channels[n], clients)
    BY DEF CoreInv, ChannelsGood
  <2>2. channels[n].operators \subseteq Fds
    BY <2>1 DEF GoodChannel, Channel
  <2>3. \A g \in channels[n].operators : Open(g)
    BY <2>1, <2>2 DEF GoodChannel, OperatorsWithin, LiveMembers, isOperator, hasClient, Open
  <2>4. \A g \in channels[n].operators : clients'[g].conn = clients[g].conn
    BY <2>2, <2>3 DEF ConnsKept
  <2>. QED
    BY <2>4 DEF OperConns
<1>. QED
  BY <1>1 DEF accessMember, accessOper, accessSettings

LEMMA MandateKept ==
  ASSUME CoreInv, ConnsKept, UNCHANGED busy
  PROVE  UNCHANGED accessMandate
<1>1. CASE busy.op = "MODE"
  <2>1. busy.fd \in Fds /\ Open(busy.fd)
    BY <1>1 DEF CoreInv, LoopInv, Idle
  <2>2. clients'[busy.fd].conn = clients[busy.fd].conn
    BY <2>1 DEF ConnsKept
  <2>. QED
    BY <1>1, <2>2 DEF accessMandate
<1>2. CASE busy.op # "MODE"
  BY <1>2 DEF accessMandate
<1>. QED
  BY <1>1, <1>2

LEMMA AsideAccess ==
  ASSUME CoreInv, NEW f \in Fds, Aside(f), actor' = clients[f].conn
  PROVE  [Access!Next]_(Access!access)
<1>1. UNCHANGED <<accessMember, accessOper, accessSettings>>
  BY AccessKept DEF Aside
<1>2. CASE UNCHANGED busy
  BY <1>1, <1>2, MandateKept, AccessStutters DEF Aside
<1>3. CASE busy' = Idle
  <2>1. accessMandate' = <<>>
    BY <1>3 DEF accessMandate, Idle
  <2>2. Access!EndMode
    BY <1>1, <2>1, AccessEndMode
  <2>. QED
    BY <2>2 DEF Access!Next
<1>4. CASE busy = Idle /\ busy'.op \in {"JOIN", "PART"}
  <2>1. UNCHANGED accessMandate
    BY <1>4 DEF accessMandate, Idle
  <2>. QED
    BY <1>1, <2>1, AccessStutters
<1>5. CASE /\ busy = Idle /\ UNCHANGED clients
           /\ busy'.op = "MODE" /\ busy'.fd = f /\ busy'.chan \in Names
           /\ isOperator(channels[busy'.chan], f)
  <2>1. PICK n \in Names : n = busy'.chan
    BY <1>5
  <2>2. accessMandate = <<>> /\ accessMandate' = <<actor', n>>
    BY <1>5, <2>1 DEF accessMandate, Idle
  <2>3. actor' \in accessOper[n]
    BY <1>5, <2>1 DEF accessOper, OperConns, isOperator
  <2>4. Access!BeginMode(n)
    BY <1>1, <2>2, <2>3, AccessBeginMode
  <2>. QED
    BY <2>4 DEF Access!Next
<1>. QED
  BY <1>2, <1>3, <1>4, <1>5 DEF Aside, LoopMoves

LEMMA EndsAccess ==
  ASSUME CoreInv, NEW f \in Fds, Ends(f), actor' = clients[f].conn
  PROVE  \E S \in SUBSET Names : Access!Leave(S)
<1>0. PICK S : S = {n \in Names : hasClient(channels[n], f) \/ Members(channels[n]) = {}}
  OBVIOUS
<1>1. \A g \in Fds : g # f => clients'[g] = clients[g]
  BY DEF CoreInv, RegistryInv, RegistryTypeOK, Ends, erase
<1>2. ASSUME NEW n \in Names
      PROVE  /\ MemberConns(channels'[n]) = MemberConns(channels[n]) \ {actor'}
             /\ OperConns(channels'[n], clients') = OperConns(channels[n], clients) \ {actor'}
             /\ SettingsOf(channels'[n]) = IF MemberConns(channels'[n]) = {} THEN Untouched
                                           ELSE SettingsOf(channels[n])
             /\ n \notin S => channels'[n] = channels[n]
  <2>1. GoodChannel(channels[n], clients) /\ RegistryInv
    BY DEF CoreInv, ChannelsGood
  <2>2. channels'[n] = Swept(channels[n], f)
    BY ChannelsSwept DEF Ends
  <2>. QED
    BY <1>0, <1>1, <2>1, <2>2, SweptAccess
<1>3. ASSUME NEW n \in Names, n \notin S
      PROVE  /\ MemberConns(channels'[n]) = MemberConns(channels[n])
             /\ OperConns(channels'[n], clients') = OperConns(channels[n], clients)
             /\ SettingsOf(channels'[n]) = SettingsOf(channels[n])
  <2>1. channels'[n] = channels[n]
    BY <1>2, <1>3
  <2>2. GoodChannel(channels[n], clients) /\ RegistryInv
    BY DEF CoreInv, ChannelsGood
  <2>3. \A g \in Fds : isOperator(channels[n], g) => hasClient(channels[n], g)
    BY <2>2 DEF GoodChannel, OperatorsWithin
  <2>4. ~hasClient(channels[n], f)
    BY <1>0, <1>3
  <2>5. channels[n].operators \subseteq Fds
    BY <2>2 DEF GoodChannel, Channel
  <2>6. \A g \in channels[n].operators : clients'[g] = clients[g]
    BY <1>1, <2>3, <2>4, <2>5 DEF isOperator
  <2>7. OperConns(channels[n], clients') = OperConns(channels[n], clients)
    BY <2>6 DEF OperConns
  <2>. QED
    BY <2>1, <2>7
<1>4. accessMember' = [n \in Names |-> IF n \in S THEN accessMember[n] \ {actor'}
                                                  ELSE accessMember[n]]
  BY <1>2, <1>3 DEF accessMember
<1>5. accessOper' = [n \in Names |-> IF n \in S THEN accessOper[n] \ {actor'}
                                                ELSE accessOper[n]]
  BY <1>2, <1>3 DEF accessOper
<1>6. accessSettings' = [n \in Names |-> IF n \in S THEN Access!Kept(accessMember')[n]
                                                    ELSE accessSettings[n]]
  <2>1. \A n \in Names : Access!Kept(accessMember')[n]
                           = IF accessMember'[n] = {} THEN Untouched ELSE accessSettings[n]
    BY DEF Access!Kept, Untouched, accessSettings, SettingsOf
  <2>2. \A n \in Names : accessMember'[n] = MemberConns(channels'[n])
    BY DEF accessMember
  <2>3. \A n \in Names : accessSettings[n] = SettingsOf(channels[n])
    BY DEF accessSettings
  <2>4. accessSettings' = [n \in Names |-> SettingsOf(channels'[n])]
    BY DEF accessSettings
  <2>. QED
    BY <1>2, <1>3, <2>1, <2>2, <2>3, <2>4
<1>7. UNCHANGED accessMandate
  BY DEF Ends, Idle, accessMandate
<1>8. Access!Leave(S)
  BY <1>4, <1>5, <1>6, <1>7, AccessLeave
<1>. QED
  BY <1>0, <1>8

LEMMA LeavesAccess ==
  ASSUME CoreInv, NEW n \in Names, NEW f \in Fds, Leaves(f, n), actor' = clients[f].conn
  PROVE  Access!Leave({n})
<1>0. UNCHANGED clients /\ UNCHANGED busy
  BY DEF Leaves, registry
<1>1. \A k \in Names \ {n} : channels'[k] = channels[k]
  BY LeftMembers
<1>2. /\ MemberConns(channels'[n]) = MemberConns(channels[n]) \ {actor'}
      /\ OperConns(channels'[n], clients) = OperConns(channels[n], clients) \ {actor'}
      /\ SettingsOf(channels'[n]) = IF MemberConns(channels'[n]) = {} THEN Untouched
                                    ELSE SettingsOf(channels[n])
  <2>1. GoodChannel(channels[n], clients) /\ RegistryInv
    BY DEF CoreInv, ChannelsGood
  <2>2. channels'[n] = Swept(channels[n], f)
    BY LeftMembers
  <2>. QED
    BY <2>1, <2>2, SweptAccess
<1>3. accessMember' = [k \in Names |-> IF k \in {n} THEN accessMember[k] \ {actor'}
                                                    ELSE accessMember[k]]
  BY <1>1, <1>2 DEF accessMember
<1>4. accessOper' = [k \in Names |-> IF k \in {n} THEN accessOper[k] \ {actor'}
                                                  ELSE accessOper[k]]
  BY <1>0, <1>1, <1>2 DEF accessOper
<1>5. accessSettings' = [k \in Names |-> IF k \in {n} THEN Access!Kept(accessMember')[k]
                                                      ELSE accessSettings[k]]
  <2>1. \A k \in Names : Access!Kept(accessMember')[k]
                           = IF accessMember'[k] = {} THEN Untouched ELSE accessSettings[k]
    BY DEF Access!Kept, Untouched, accessSettings, SettingsOf
  <2>2. accessMember'[n] = MemberConns(channels'[n])
    BY DEF accessMember
  <2>3. \A k \in Names : accessSettings[k] = SettingsOf(channels[k])
    BY DEF accessSettings
  <2>4. accessSettings' = [k \in Names |-> SettingsOf(channels'[k])]
    BY DEF accessSettings
  <2>. QED
    BY <1>1, <1>2, <2>1, <2>2, <2>3, <2>4
<1>6. UNCHANGED accessMandate
  BY <1>0 DEF accessMandate
<1>. QED
  BY <1>3, <1>4, <1>5, <1>6, AccessLeave

\* What entering makes of the channel entered, in terms of connections.
LEMMA EnteredAccess ==
  ASSUME CoreInv, Blank, NEW n \in Names, NEW f \in Fds, Enters(f, n)
  PROVE  /\ clients[f].conn \notin MemberConns(channels[n])
         /\ MemberConns(channels'[n]) = MemberConns(channels[n]) \cup {clients[f].conn}
         /\ SettingsOf(channels'[n]) = SettingsOf(channels[n])
         /\ \/ OperConns(channels'[n], clients) = OperConns(channels[n], clients)
            \/ /\ MemberConns(channels[n]) = {} /\ SettingsOf(channels[n]) = Untouched
               /\ OperConns(channels'[n], clients)
                    = OperConns(channels[n], clients) \cup {clients[f].conn}
<1>1. PICK ch \in Channel : ch = Joined(n, f)
  BY JoinedShape
<1>2. PICK new : new = addClient(ch, f)
  OBVIOUS
<1>3. channels'[n] = new /\ ~hasClient(ch, f)
  <2>1. channels'[n] = addClient(Joined(n, f), f)
    BY EnteredMembers
  <2>2. ~hasClient(Joined(n, f), f)
    BY DEF Enters
  <2>. QED
    BY <1>1, <1>2, <2>1, <2>2
<1>4. clients[f].conn \in Nat
  BY DEF CoreInv, RegistryInv, RegistryTypeOK, Client
<1>5. /\ new \in Channel
      /\ \A g \in Fds : new.clients[g] = IF g = f THEN clients[f].conn ELSE ch.clients[g]
      /\ new.operators = ch.operators
      /\ Members(new) = Members(ch) \cup {f}
      /\ SettingsOf(new) = SettingsOf(ch)
  <2>1. /\ new \in Channel /\ new.operators = ch.operators
        /\ \A g \in Fds : new.clients[g] = IF g = f THEN clients[f].conn ELSE ch.clients[g]
    BY <1>2, <1>4, SMTT(60) DEF addClient, Channel
  <2>2. SettingsOf(new) = SettingsOf(ch)
    BY <1>2 DEF addClient, SettingsOf, Channel
  <2>3. Members(new) = Members(ch) \cup {f}
    <3>1. Members(channels'[n]) = Members(Joined(n, f)) \cup {f}
      BY EnteredMembers, ZenonT(60)
    <3>. QED
      BY <1>1, <1>3, <3>1
  <2>. QED
    BY <2>1, <2>2, <2>3
<1>6. MemberConns(new) = MemberConns(ch) \cup {clients[f].conn}
  <2>1. f \notin Members(ch)
    BY <1>3 DEF Members
  <2>2. \A g \in Members(ch) : new.clients[g] = ch.clients[g]
    BY <1>5, <2>1 DEF Members
  <2>. QED
    BY <1>5, <2>2 DEF MemberConns
<1>7. CASE channels[n].exists
  <2>1. ch = channels[n]
    BY <1>1, <1>7, JoinedShape
  <2>2. GoodChannel(ch, clients) /\ RegistryInv
    BY <2>1 DEF CoreInv, ChannelsGood
  <2>3. \A g \in Fds : hasClient(ch, g) => ch.clients[g] # clients[f].conn
    BY <1>3, <2>2, ConnNames
  <2>4. clients[f].conn \notin MemberConns(ch)
    BY <2>3 DEF MemberConns, Members
  <2>5. OperConns(new, clients) = OperConns(ch, clients)
    BY <1>5 DEF OperConns
  <2>. QED
    BY <1>3, <1>5, <1>6, <2>1, <2>4, <2>5
<1>8. CASE ~channels[n].exists
  <2>1. channels[n] = NoChannel
    BY <1>8 DEF Blank
  <2>2. ch = [NewChannel EXCEPT !.operators = {f}] /\ ch.operators = {f} /\ Members(ch) = {}
    BY <1>1, <1>8, JoinedShape
  <2>3. MemberConns(ch) = {}
    BY <2>2 DEF MemberConns
  <2>4. SettingsOf(ch) = SettingsOf(NoChannel)
    BY <2>2, NoChannelShape DEF SettingsOf, NewChannel, Channel
  <2>5. OperConns(new, clients) = {clients[f].conn}
    BY <1>5, <2>2 DEF OperConns
  <2>. QED
    BY <1>3, <1>5, <1>6, <2>1, <2>3, <2>4, <2>5, BlankSettings
<1>. QED
  BY <1>7, <1>8

LEMMA EntersAccess ==
  ASSUME CoreInv, Blank, NEW n \in Names, NEW f \in Fds, Enters(f, n),
         actor' = clients[f].conn
  PROVE  Access!Enter(n)
<1>0. UNCHANGED clients /\ UNCHANGED busy
  BY DEF Enters, registry
<1>1. \A k \in Names \ {n} : channels'[k] = channels[k]
  BY EnteredMembers
<1>2. /\ accessMember[n] = MemberConns(channels[n])
      /\ accessOper[n] = OperConns(channels[n], clients)
      /\ accessSettings[n] = SettingsOf(channels[n])
  BY DEF accessMember, accessOper, accessSettings
<1>3. actor' \notin accessMember[n]
  BY <1>2, EnteredAccess
<1>4. accessMember' = [accessMember EXCEPT ![n] = @ \cup {actor'}]
  BY <1>1, EnteredAccess DEF accessMember
<1>5. UNCHANGED accessSettings
  BY <1>1, EnteredAccess DEF accessSettings
<1>6. CASE OperConns(channels'[n], clients) = OperConns(channels[n], clients)
  <2>1. UNCHANGED accessOper
    BY <1>0, <1>1, <1>6 DEF accessOper
  <2>. QED
    BY <1>0, <1>3, <1>4, <1>5, <2>1, AccessEnter DEF accessMandate
<1>7. CASE /\ MemberConns(channels[n]) = {} /\ SettingsOf(channels[n]) = Untouched
           /\ OperConns(channels'[n], clients)
                = OperConns(channels[n], clients) \cup {clients[f].conn}
  <2>1. accessOper' = [accessOper EXCEPT ![n] = @ \cup {actor'}]
    BY <1>0, <1>1, <1>7 DEF accessOper
  <2>2. accessMember[n] = {} /\ accessSettings[n] = Untouched
    BY <1>2, <1>7
  <2>3. UNCHANGED accessMandate
    BY <1>0 DEF accessMandate
  <2>. QED
    BY <1>3, <1>4, <1>5, <2>1, <2>2, <2>3, AccessEnter
<1>. QED
  BY <1>6, <1>7, EnteredAccess

LEMMA GovernsAccess ==
  ASSUME CoreInv, CoreInv', NEW n \in Names, NEW f \in Fds, Governs(f, n),
         actor' = clients[f].conn
  PROVE  Access!Govern(n)
<1>0. UNCHANGED clients /\ UNCHANGED busy
  BY DEF Governs, registry
<1>1. \A k \in Names \ {n} : channels'[k] = channels[k]
  BY GovernedMembers
<1>2. actor' \in accessOper[n] \/ accessMandate = <<actor', n>>
  BY DEF Governs, accessOper, accessMandate, OperConns, isOperator
<1>3. PICK new \in Channel :
        /\ channels' = [channels EXCEPT ![n] = new]
        /\ \A g \in Fds : new.clients[g] = channels[n].clients[g] \/ new.clients[g] = NoConn
  BY DEF Governs
<1>4. channels'[n] = new
  BY <1>3 DEF CoreInv, ChannelsGood
<1>5. MemberConns(new) \subseteq MemberConns(channels[n])
  BY <1>3 DEF MemberConns, Members, hasClient
<1>6. OperConns(new, clients) \subseteq MemberConns(new)
  <2>1. GoodChannel(channels'[n], clients')
    BY DEF CoreInv, ChannelsGood
  <2>2. GoodChannel(new, clients)
    BY <1>0, <1>4, <2>1
  <2>3. \A g \in new.operators : g \in Members(new) /\ new.clients[g] = clients[g].conn
    BY <2>2 DEF GoodChannel, Channel, OperatorsWithin, LiveMembers, isOperator, Members
  <2>. QED
    BY <2>3 DEF OperConns, MemberConns
<1>7. /\ accessMember'[n] \subseteq accessMember[n]
      /\ accessOper'[n] \subseteq accessMember'[n]
  BY <1>0, <1>4, <1>5, <1>6 DEF accessMember, accessOper
<1>8. \A k \in Names \ {n} :
        /\ accessMember'[k] = accessMember[k]
        /\ accessOper'[k] = accessOper[k]
        /\ accessSettings'[k] = accessSettings[k]
  BY <1>0, <1>1 DEF accessMember, accessOper, accessSettings
<1>9. UNCHANGED accessMandate
  BY <1>0 DEF accessMandate
<1>. QED
  BY <1>2, <1>7, <1>8, <1>9, AccessGovern

\* The server implements ChannelAccess: nobody gets into a channel, becomes its
\* operator or changes its settings but in the ways that it allows, under
\* whatever reuse of the descriptors that the code identifies clients by.
THEOREM ServerImplementsAccess == Spec => AccessSpec
<1>1. ASSUME StepInv, StepInv', [Next]_vars
      PROVE  [Access!Next]_(Access!access)
  <2>. CoreInv /\ CoreInv' /\ Blank
    BY <1>1 DEF StepInv, ServerInv
  <2>1. CASE UNCHANGED channels /\ ConnsKept /\ UNCHANGED busy
    BY <2>1, AccessKept, MandateKept, AccessStutters
  <2>2. CASE UNCHANGED <<clients, channels, busy>>
    BY <2>1, <2>2 DEF ConnsKept
  <2>3. ASSUME NEW f \in Fds, StepKind(f), actor' = clients[f].conn
        PROVE  [Access!Next]_(Access!access)
    <3>1. CASE Aside(f)
      BY <2>3, <3>1, AsideAccess
    <3>2. CASE Ends(f)
      BY <2>3, <3>2, EndsAccess DEF Access!Next
    <3>3. ASSUME NEW n \in Names, Enters(f, n) PROVE Access!Next
      BY <2>3, <3>3, EntersAccess DEF Access!Next
    <3>4. ASSUME NEW n \in Names, Leaves(f, n) PROVE Access!Next
      BY <2>3, <3>4, LeavesAccess DEF Access!Next
    <3>5. ASSUME NEW n \in Names, Governs(f, n) PROVE Access!Next
      BY <2>3, <3>5, GovernsAccess DEF Access!Next
    <3>. QED
      BY <2>3, <3>1, <3>2, <3>3, <3>4, <3>5 DEF StepKind
  <2>. QED
    BY <1>1, <2>1, <2>2, <2>3, StepsHaveKinds DEF StepInv, Served
<1>2. StepInv /\ StepInv' /\ [Next]_vars => [Access!Next]_(Access!access)
  BY <1>1
<1>. QED
  BY <1>2, AccessStarts, StepInvariant, PTL DEF Spec, AccessSpec, Access!Spec
=============================================================================
