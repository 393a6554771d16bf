--------------------------- MODULE RegistryProofs ---------------------------
(***************************************************************************)
(* Proofs about Registry, for every set of descriptors and of nicknames    *)
(* and every number of connections.                                        *)
(***************************************************************************)
EXTENDS Registry, TLAPS

\* A descriptor without an entry in _db_clients carries nothing over from the
\* client it served before.
AbsentIsBlank == \A f \in Fds : ~Open(f) => clients[f] = Absent

\* The serial numbers are those of accepted connections, each of one client.
SerialsDistinct ==
  /\ \A f \in Fds : clients[f].conn <= accepted
  /\ \A f, g \in Fds :
       Open(f) /\ clients[f].conn = clients[g].conn => f = g

\* Without the password a client has neither nickname nor user name, so that
\* PASS never completes a registration.
PasswordFirst ==
  \A f \in Fds :
    clients[f].nickname # NoNick \/ clients[f].username => clients[f].hasPassword

\* The inductive invariant: what NicknamesUnique and RegistrationComplete need
\* is each other's absence of interference and the shape of the registry.
RegistryInv ==
  /\ RegistryTypeOK
  /\ AbsentIsBlank
  /\ SerialsDistinct
  /\ PasswordFirst
  /\ NicknamesUnique
  /\ RegistrationComplete

-----------------------------------------------------------------------------
(* The effects the handlers come down to *)

\* An entry replaced by the record c of a live connection: what is needed of c
\* for the invariant to be kept.
LEMMA EntryReplaced ==
  ASSUME RegistryInv,
         NEW f \in Fds, NEW c \in Client,
         clients' = [clients EXCEPT ![f] = c],
         accepted' \in Nat, accepted <= accepted',
         c.conn # NoConn, c.conn <= accepted',
         \A g \in Fds : clients[g].conn = c.conn => g = f,
         c.nickname = NoNick \/ \A g \in Fds : Open(g) /\ g # f => clients[g].nickname # c.nickname,
         c.registered <=> c.hasPassword /\ c.nickname # NoNick /\ c.username,
         c.nickname # NoNick \/ c.username => c.hasPassword
  PROVE  RegistryInv'
<1>1. \A g \in Fds : clients'[g] = IF g = f THEN c ELSE clients[g]
  BY DEF RegistryInv, RegistryTypeOK
<1>2. RegistryTypeOK'
  BY DEF RegistryInv, RegistryTypeOK
<1>3. AbsentIsBlank'
  BY <1>1 DEF RegistryInv, AbsentIsBlank, Open
<1>4. SerialsDistinct'
  BY <1>1 DEF RegistryInv, RegistryTypeOK, Client, SerialsDistinct, Open
<1>5. NicknamesUnique'
  BY <1>1 DEF RegistryInv, NicknamesUnique, Open
<1>6. RegistrationComplete'
  BY <1>1 DEF RegistryInv, RegistrationComplete
<1>7. PasswordFirst'
  BY <1>1 DEF RegistryInv, PasswordFirst
<1>. QED
  BY <1>2, <1>3, <1>4, <1>5, <1>6, <1>7 DEF RegistryInv

\* An entry erased.
LEMMA EntryErased ==
  ASSUME RegistryInv, NEW f \in Fds, erase(f)
  PROVE  RegistryInv'
<1>. USE RegistryAssumption
<1>0. /\ Absent.registered = FALSE /\ Absent.hasPassword = FALSE
      /\ Absent.username = FALSE /\ Absent.nickname = NoNick
  BY DEF Absent, NewClient
<1>1. Absent \in Client
  BY DEF Absent, NewClient, Client, NoConn
<1>2. \A g \in Fds : clients'[g] = IF g = f THEN Absent ELSE clients[g]
  BY DEF RegistryInv, RegistryTypeOK, erase
<1>3. RegistryTypeOK'
  BY <1>1 DEF RegistryInv, RegistryTypeOK, erase
<1>4. AbsentIsBlank'
  BY <1>2 DEF RegistryInv, AbsentIsBlank, Open
<1>5. SerialsDistinct'
  BY <1>2 DEF RegistryInv, RegistryTypeOK, SerialsDistinct, Open, Absent,
              NewClient, NoConn, erase
<1>6. NicknamesUnique'
  BY <1>2 DEF RegistryInv, NicknamesUnique, Open, Absent, NewClient, NoConn
<1>7. RegistrationComplete'
  BY <1>2, <1>0 DEF RegistryInv, RegistrationComplete
<1>8. PasswordFirst'
  BY <1>2, <1>0 DEF RegistryInv, PasswordFirst
<1>. QED
  BY <1>3, <1>4, <1>5, <1>6, <1>7, <1>8 DEF RegistryInv

\* A step that leaves the registry alone keeps the invariant.
LEMMA RegistryStutters ==
  ASSUME RegistryInv, UNCHANGED registry
  PROVE  RegistryInv'
BY DEF RegistryInv, registry, RegistryTypeOK, AbsentIsBlank, SerialsDistinct,
       NicknamesUnique, RegistrationComplete, PasswordFirst, Open

-----------------------------------------------------------------------------
(* One lemma for each handler *)

LEMMA AcceptKeepsInv ==
  ASSUME RegistryInv, NEW f \in Fds, acceptNewClient(f)
  PROVE  RegistryInv'
<1>. DEFINE c == NewClient(accepted + 1)
<1>1. accepted \in Nat
  BY DEF RegistryInv, RegistryTypeOK
<1>2. c \in Client
  BY <1>1, RegistryAssumption DEF NewClient, Client
<1>3. /\ c.conn = accepted + 1 /\ c.nickname = NoNick
      /\ c.registered = FALSE /\ c.hasPassword = FALSE /\ c.username = FALSE
  BY DEF NewClient
<1>4. \A g \in Fds : clients[g].conn # c.conn
  BY <1>1, <1>3 DEF RegistryInv, RegistryTypeOK, SerialsDistinct, Client
<1>5. /\ clients' = [clients EXCEPT ![f] = c]
      /\ accepted' = accepted + 1
  BY DEF acceptNewClient
<1>. HIDE DEF c
<1>6. /\ accepted' \in Nat /\ accepted <= accepted'
      /\ c.conn # NoConn /\ c.conn <= accepted'
  BY <1>1, <1>3, <1>5 DEF NoConn
<1>. QED
  BY <1>2, <1>3, <1>4, <1>5, <1>6, EntryReplaced

\* A client that changes fields of its record, and keeps its connection.
LEMMA RecordUpdated ==
  ASSUME RegistryInv, NEW f \in Fds, Open(f), NEW c \in Client,
         clients' = [clients EXCEPT ![f] = c], accepted' = accepted,
         c.conn = clients[f].conn,
         c.nickname \in {NoNick, clients[f].nickname} \/ Holders(c.nickname) = {},
         c.registered <=> c.hasPassword /\ c.nickname # NoNick /\ c.username,
         c.nickname # NoNick \/ c.username => c.hasPassword
  PROVE  RegistryInv'
<1>1. /\ accepted' \in Nat /\ accepted <= accepted'
      /\ c.conn # NoConn /\ c.conn <= accepted'
  BY DEF RegistryInv, RegistryTypeOK, SerialsDistinct, Open
<1>2. \A g \in Fds : clients[g].conn = c.conn => g = f
  BY DEF RegistryInv, SerialsDistinct, Open
<1>3. c.nickname = NoNick \/ \A g \in Fds : Open(g) /\ g # f => clients[g].nickname # c.nickname
  BY DEF RegistryInv, NicknamesUnique, Holders
<1>. QED
  BY <1>1, <1>2, <1>3, EntryReplaced

LEMMA PassKeepsInv ==
  ASSUME RegistryInv, NEW f \in Fds, handlePASS(f)
  PROVE  RegistryInv'
<1>1. CASE UNCHANGED registry
  BY <1>1, RegistryStutters
<1>2. CASE erase(f)
  BY <1>2, EntryErased
<1>3. CASE /\ ~clients[f].hasPassword
           /\ clients' = [clients EXCEPT ![f].hasPassword = TRUE]
           /\ UNCHANGED accepted
  <2>. DEFINE c == [clients[f] EXCEPT !.hasPassword = TRUE]
  <2>1. clients[f] \in Client
    BY DEF RegistryInv, RegistryTypeOK
  <2>2. /\ c \in Client /\ c.conn = clients[f].conn /\ c.nickname = clients[f].nickname
        /\ c.registered = clients[f].registered /\ c.username = clients[f].username
        /\ c.hasPassword = TRUE
    BY <2>1 DEF Client
  <2>3. clients' = [clients EXCEPT ![f] = c]
    BY <1>3
  <2>4. c.nickname = NoNick /\ c.username = FALSE /\ c.registered = FALSE
    BY <1>3, <2>1, <2>2 DEF RegistryInv, PasswordFirst, RegistrationComplete, Client
  <2>5. Open(f)
    BY DEF handlePASS
  <2>. HIDE DEF c
  <2>. QED
    BY <1>3, <2>2, <2>3, <2>4, <2>5, RecordUpdated
<1>. QED
  BY <1>1, <1>2, <1>3 DEF handlePASS, Refuse

LEMMA NickKeepsInv ==
  ASSUME RegistryInv, NEW f \in Fds, handleNICK(f)
  PROVE  RegistryInv'
<1>1. CASE UNCHANGED registry
  BY <1>1, RegistryStutters
<1>2. ASSUME NEW nick \in Nicks, clients[f].hasPassword, Holders(nick) = {},
             setNickname(f, nick)
      PROVE  RegistryInv'
  <2>. DEFINE registers == clients[f].registered \/ (clients[f].username /\ ~clients[f].registered)
              c == [clients[f] EXCEPT !.nickname = nick, !.registered = registers]
  <2>1. clients[f] \in Client
    BY DEF RegistryInv, RegistryTypeOK
  <2>2. clients' = [clients EXCEPT ![f] = c] /\ accepted' = accepted
    BY <1>2 DEF setNickname
  <2>3. nick # NoNick
    BY RegistryAssumption
  <2>4. /\ c \in Client /\ c.conn = clients[f].conn /\ c.nickname = nick
        /\ c.username = clients[f].username /\ c.registered = registers
        /\ c.hasPassword = TRUE
    BY <1>2, <2>1 DEF Client
  <2>5. registers = clients[f].username
    BY <2>1 DEF RegistryInv, RegistrationComplete, Client
  <2>6. Open(f)
    BY DEF handleNICK
  <2>. HIDE DEF registers, c
  <2>. QED
    BY <1>2, <2>2, <2>3, <2>4, <2>5, <2>6, RecordUpdated
<1>. QED
  BY <1>1, <1>2 DEF handleNICK, Refuse

LEMMA UserKeepsInv ==
  ASSUME RegistryInv, NEW f \in Fds, handleUSER(f)
  PROVE  RegistryInv'
<1>1. CASE UNCHANGED registry
  BY <1>1, RegistryStutters
<1>2. CASE clients[f].hasPassword /\ ~clients[f].username /\ setIdentity(f)
  <2>. DEFINE registers == clients[f].registered \/ (clients[f].nickname # NoNick /\ ~clients[f].registered)
              c == [clients[f] EXCEPT !.username = TRUE, !.registered = registers]
  <2>1. clients[f] \in Client
    BY DEF RegistryInv, RegistryTypeOK
  <2>2. clients' = [clients EXCEPT ![f] = c] /\ accepted' = accepted
    BY <1>2 DEF setIdentity
  <2>3. /\ c \in Client /\ c.conn = clients[f].conn
        /\ c.nickname = clients[f].nickname
        /\ c.username = TRUE /\ c.registered = registers /\ c.hasPassword = TRUE
    BY <1>2, <2>1 DEF Client
  <2>4. registers <=> clients[f].nickname # NoNick
    BY <1>2 DEF RegistryInv, RegistrationComplete
  <2>5. Open(f)
    BY DEF handleUSER
  <2>. HIDE DEF registers, c
  <2>. QED
    BY <2>2, <2>3, <2>4, <2>5, RecordUpdated
<1>. QED
  BY <1>1, <1>2 DEF handleUSER, Refuse

-----------------------------------------------------------------------------
(* The theorems *)

LEMMA InitKeepsInv == Init => RegistryInv
<1>. SUFFICES ASSUME Init PROVE RegistryInv
  OBVIOUS
<1>1. /\ Absent \in Client /\ Absent.conn = NoConn /\ Absent.nickname = NoNick
      /\ Absent.registered = FALSE /\ Absent.username = FALSE
  BY DEF Absent, NewClient, Client, NoConn
<1>2. \A f \in Fds : clients[f] = Absent
  BY DEF Init
<1>3. RegistryTypeOK /\ AbsentIsBlank
  BY <1>1, <1>2 DEF Init, RegistryTypeOK, AbsentIsBlank
<1>4. SerialsDistinct
  BY <1>1, <1>2 DEF Init, SerialsDistinct, Open, NoConn
<1>5. PasswordFirst /\ NicknamesUnique /\ RegistrationComplete
  BY <1>1, <1>2 DEF PasswordFirst, NicknamesUnique, RegistrationComplete, Open
<1>. QED
  BY <1>3, <1>4, <1>5 DEF RegistryInv

LEMMA NextKeepsInv == RegistryInv /\ [RegistryNext]_registry => RegistryInv'
<1>. SUFFICES ASSUME RegistryInv, [RegistryNext]_registry PROVE RegistryInv'
  OBVIOUS
<1>1. CASE UNCHANGED registry
  BY <1>1, RegistryStutters
<1>2. ASSUME NEW f \in Fds, acceptNewClient(f) PROVE RegistryInv'
  BY <1>2, AcceptKeepsInv
<1>3. ASSUME NEW f \in Fds, handlePASS(f) PROVE RegistryInv'
  BY <1>3, PassKeepsInv
<1>4. ASSUME NEW f \in Fds, handleNICK(f) PROVE RegistryInv'
  BY <1>4, NickKeepsInv
<1>5. ASSUME NEW f \in Fds, handleUSER(f) PROVE RegistryInv'
  BY <1>5, UserKeepsInv
<1>6. ASSUME NEW f \in Fds, Disconnect(f) PROVE RegistryInv'
  BY <1>6, EntryErased DEF Disconnect
<1>7. CASE Quiet
  BY <1>7, RegistryStutters DEF Quiet, registry
<1>. QED
  BY <1>1, <1>2, <1>3, <1>4, <1>5, <1>6, <1>7 DEF RegistryNext, Register

\* The invariant holds of the registry, as a part of the server or alone,
\* whatever order PASS, NICK, USER and disconnections are served in.
THEOREM RegistryInvariant == RegistrySpec => []RegistryInv
BY InitKeepsInv, NextKeepsInv, PTL DEF RegistrySpec

\* No two live connections ever have the same nickname (Commands.cpp:95).
THEOREM NicknamesAreUnique == RegistrySpec => []NicknamesUnique
<1>1. RegistryInv => NicknamesUnique
  BY DEF RegistryInv
<1>. QED
  BY <1>1, RegistryInvariant, PTL

\* A client is registered exactly when it has given all there is to give,
\* whichever of NICK (Commands.cpp:115) and USER (Commands.cpp:367) came last.
THEOREM RegistrationIsComplete == RegistrySpec => []RegistrationComplete
<1>1. RegistryInv => RegistrationComplete
  BY DEF RegistryInv
<1>. QED
  BY <1>1, RegistryInvariant, PTL

\* The registry is always a map from descriptors to Client objects.
THEOREM RegistryTypeCorrect == RegistrySpec => []RegistryTypeOK
<1>1. RegistryInv => RegistryTypeOK
  BY DEF RegistryInv
<1>. QED
  BY <1>1, RegistryInvariant, PTL

-----------------------------------------------------------------------------
(* The welcome *)

\* In a step that says nothing of code 001 nobody is welcomed.
LEMMA NobodyWelcomed ==
  ASSUME NEW f, \A m \in sent' : m.kind # "001"
  PROVE  Numeric(f, "001") \notin sent'
BY DEF Numeric, Message

\* A welcome is for one connection.
LEMMA WelcomeIsForOne ==
  ASSUME RegistryInv, NEW f \in Fds, NEW g \in Fds, Open(f), Open(g),
         Numeric(f, "001") = Numeric(g, "001")
  PROVE  f = g
BY DEF Numeric, Message, RegistryInv, SerialsDistinct, Open

\* What one step does to a connection that is open before it.
Welcomes(f) ==
  /\ Numeric(f, "001") \in sent' <=> ~clients[f].registered /\ clients'[f].registered
  /\ clients[f].registered => clients'[f].registered \/ clients'[f] = Absent

LEMMA RefusalWelcomesNobody ==
  ASSUME NEW f \in Fds, NEW h \in Fds, NEW codes, Refuse(f, codes), "001" \notin codes
  PROVE  Welcomes(h)
<1>1. clients' = clients /\ \A m \in sent' : m.kind # "001"
  BY DEF Refuse, Reply, Numeric, Message, registry
<1>. QED
  BY <1>1, NobodyWelcomed DEF Welcomes

\* A record is completed, and the welcome said if that registers the client.
LEMMA CompletionWelcomes ==
  ASSUME RegistryInv, NEW f \in Fds, NEW h \in Fds, Open(f), Open(h), NEW c \in Client,
         clients' = [clients EXCEPT ![f] = c],
         c.registered = (clients[f].registered \/ c.registered),
         \A m \in sent' : m.kind = "001" => m = Numeric(f, "001"),
         Numeric(f, "001") \in sent' <=> ~clients[f].registered /\ c.registered
  PROVE  Welcomes(h)
<1>1. clients \in [Fds -> Client]
  BY DEF RegistryInv, RegistryTypeOK
<1>2. CASE h = f
  BY <1>1, <1>2 DEF Welcomes, Client
<1>3. CASE h # f
  <2>1. clients'[h] = clients[h]
    BY <1>1, <1>3
  <2>2. Numeric(h, "001") # Numeric(f, "001")
    BY <1>3, WelcomeIsForOne
  <2>3. Numeric(h, "001").kind = "001"
    BY DEF Numeric, Message
  <2>4. Numeric(h, "001") \notin sent'
    BY <2>2, <2>3
  <2>. QED
    BY <2>1, <2>4 DEF Welcomes
<1>. QED
  BY <1>2, <1>3

LEMMA StepWelcomes ==
  ASSUME RegistryInv, AloneNext, NEW h \in Fds, Open(h)
  PROVE  Welcomes(h)
<1>1. clients \in [Fds -> Client]
  BY DEF RegistryInv, RegistryTypeOK
<1>2. ASSUME NEW f \in Fds, acceptNewClient(f) PROVE Welcomes(h)
  <2>1. h # f /\ sent' = {} /\ clients'[h] = clients[h]
    BY <1>1, <1>2 DEF acceptNewClient, Silent
  <2>. QED
    BY <2>1 DEF Welcomes
<1>3. ASSUME NEW f \in Fds, erase(f), \A m \in sent' : m.kind # "001" PROVE Welcomes(h)
  <2>1. clients'[h] = clients[h] \/ clients'[h] = Absent
    BY <1>1, <1>3 DEF erase
  <2>2. Absent.registered = FALSE
    BY DEF Absent, NewClient
  <2>. QED
    BY <1>3, <2>1, <2>2, NobodyWelcomed DEF Welcomes
<1>4. ASSUME NEW f \in Fds, handlePASS(f) PROVE Welcomes(h)
  <2>1. Open(f)
    BY <1>4 DEF handlePASS
  <2>2. CASE Refuse(f, {"462"}) \/ Refuse(f, {"461"})
    BY <2>2, RefusalWelcomesNobody
  <2>3. CASE clients' = [clients EXCEPT ![f].hasPassword = TRUE] /\ Reply(f, "NOTICE")
    <3>1. \A m \in sent' : m.kind # "001"
      BY <2>3 DEF Reply, Numeric, Message
    <3>2. clients'[h].registered = clients[h].registered
      BY <1>1, <2>3 DEF Client
    <3>. QED
      BY <3>1, <3>2, NobodyWelcomed DEF Welcomes
  <2>4. CASE Reply(f, "464") /\ erase(f)
    <3>1. \A m \in sent' : m.kind # "001"
      BY <2>4 DEF Reply, Numeric, Message
    <3>. QED
      BY <1>3, <2>4, <3>1
  <2>. QED
    BY <1>4, <2>2, <2>3, <2>4 DEF handlePASS
<1>5. ASSUME NEW f \in Fds, handleNICK(f) PROVE Welcomes(h)
  <2>1. Open(f)
    BY <1>5 DEF handleNICK
  <2>2. CASE Refuse(f, {"451"}) \/ Refuse(f, {"431", "432"}) \/ Refuse(f, {"433"})
    BY <2>2, RefusalWelcomesNobody
  <2>3. ASSUME NEW nick \in Nicks, setNickname(f, nick) PROVE Welcomes(h)
    <3>1. PICK c : c = [clients[f] EXCEPT !.nickname = nick,
                          !.registered = @ \/ (clients[f].username /\ ~clients[f].registered)]
      OBVIOUS
    <3>2. c \in Client /\ clients' = [clients EXCEPT ![f] = c]
          /\ c.registered = (clients[f].registered
                               \/ (clients[f].username /\ ~clients[f].registered))
      BY <1>1, <2>3, <3>1 DEF setNickname, Client
    <3>3. sent' = {Message("NICK", clients[f].conn, clients[g].conn, NoName) :
                     g \in {x \in Fds : Open(x) /\ clients[f].registered}}
                  \cup {m \in {Numeric(f, "001")} : clients[f].username /\ ~clients[f].registered}
      BY <2>3 DEF setNickname
    <3>4. \A m \in sent' : m.kind = "001" => m = Numeric(f, "001")
      BY <3>3 DEF Message
    <3>5. Numeric(f, "001") \in sent' <=> clients[f].username /\ ~clients[f].registered
      BY <3>3 DEF Message, Numeric
    <3>6. clients[f].registered \in BOOLEAN /\ clients[f].username \in BOOLEAN
      BY <1>1 DEF Client
    <3>7. c.registered = (clients[f].registered \/ c.registered)
          /\ (Numeric(f, "001") \in sent' <=> ~clients[f].registered /\ c.registered)
      BY <3>2, <3>5, <3>6
    <3>. QED
      BY <2>1, <3>2, <3>4, <3>7, CompletionWelcomes
  <2>. QED
    BY <1>5, <2>2, <2>3 DEF handleNICK
<1>6. ASSUME NEW f \in Fds, handleUSER(f) PROVE Welcomes(h)
  <2>1. Open(f)
    BY <1>6 DEF handleUSER
  <2>2. CASE Refuse(f, {"451"}) \/ Refuse(f, {"462"}) \/ Refuse(f, {"461", "432"})
    BY <2>2, RefusalWelcomesNobody
  <2>3. CASE setIdentity(f)
    <3>1. PICK c : c = [clients[f] EXCEPT !.username = TRUE,
                          !.registered = @ \/ (clients[f].nickname # NoNick /\ ~clients[f].registered)]
      OBVIOUS
    <3>2. c \in Client /\ clients' = [clients EXCEPT ![f] = c]
          /\ c.registered = (clients[f].registered
                               \/ (clients[f].nickname # NoNick /\ ~clients[f].registered))
      BY <1>1, <2>3, <3>1 DEF setIdentity, Client
    <3>3. sent' = {m \in {Numeric(f, "001")} : clients[f].nickname # NoNick /\ ~clients[f].registered}
      BY <2>3 DEF setIdentity
    <3>4. \A m \in sent' : m = Numeric(f, "001")
      BY <3>3
    <3>5. Numeric(f, "001") \in sent' <=> clients[f].nickname # NoNick /\ ~clients[f].registered
      BY <3>3
    <3>6. clients[f].registered \in BOOLEAN
      BY <1>1 DEF Client
    <3>7. c.registered = (clients[f].registered \/ c.registered)
          /\ (Numeric(f, "001") \in sent' <=> ~clients[f].registered /\ c.registered)
      BY <3>2, <3>5, <3>6
    <3>. QED
      BY <2>1, <3>2, <3>4, <3>7, CompletionWelcomes
  <2>. QED
    BY <1>6, <2>2, <2>3 DEF handleUSER
<1>7. ASSUME NEW f \in Fds, Silent, Disconnect(f) PROVE Welcomes(h)
  BY <1>3, <1>7 DEF Silent, Disconnect
<1>8. CASE Quiet
  BY <1>8 DEF Quiet
<1>. QED
  BY <1>2, <1>4, <1>5, <1>6, <1>7, <1>8 DEF AloneNext, Register

\* A connection is welcomed in the step of NICK or USER that registers it, in no
\* other, and stays registered until it is closed (Commands.cpp:115, 367).
THEOREM EachIsWelcomedOnce == AloneSpec => WelcomedOnce
<1>1. RegistryInv /\ [AloneNext]_<<clients, accepted, sent>> => RegistryInv'
  <2>. SUFFICES ASSUME RegistryInv, [AloneNext]_<<clients, accepted, sent>>
                PROVE  RegistryInv'
    OBVIOUS
  <2>1. CASE AloneNext
    BY <2>1, NextKeepsInv DEF AloneNext, RegistryNext
  <2>2. CASE UNCHANGED <<clients, accepted, sent>>
    BY <2>2, RegistryStutters DEF registry
  <2>. QED
    BY <2>1, <2>2
<1>2. RegistryInv /\ [AloneNext]_<<clients, accepted, sent>> =>
        [\A f \in Fds : Open(f) =>
           /\ Numeric(f, "001") \in sent' <=>
                ~clients[f].registered /\ clients'[f].registered
           /\ clients[f].registered => clients'[f].registered \/ clients'[f] = Absent
        ]_<<clients, accepted, sent>>
  BY StepWelcomes DEF Welcomes
<1>. QED
  BY <1>1, <1>2, InitKeepsInv, PTL DEF AloneSpec, WelcomedOnce
=============================================================================
