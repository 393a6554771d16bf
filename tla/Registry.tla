------------------------------ MODULE Registry ------------------------------
(***************************************************************************)
(* The connection registry of the ft_irc server: the map _db_clients from  *)
(* file descriptors to Client objects, and the handlers of the commands    *)
(* that take a connection from accept() to a registered user (PASS, NICK,  *)
(* USER).  A command handler runs to completion before the poll loop       *)
(* serves another descriptor, so each handler is one action, and its       *)
(* outcomes (one per early return of the code) are its disjuncts.          *)
(*                                                                         *)
(* The kernel reuses descriptors.  Two connections that had the same       *)
(* descriptor one after the other are told apart by `conn', the serial     *)
(* number of the accept() that created the Client object; the program has  *)
(* no such number, it identifies clients by descriptor alone.              *)
(*                                                                         *)
(* The text of a message is abstracted to its kind: an IRC verb, or the    *)
(* numeric of a reply.                                                     *)
(***************************************************************************)
EXTENDS Integers

CONSTANTS
  Fds,      \* the descriptors accept() may return
  Nicks,    \* the well-formed nicknames clients ask for
  NoNick,   \* the empty nickname of a client that has sent no NICK
  NoName,   \* the channel of a message that concerns no channel
  MaxConns  \* bound: the number of connections accepted in a behaviour

ASSUME RegistryAssumption ==
  /\ Fds \subseteq Nat
  /\ NoNick \notin Nicks
  /\ MaxConns \in Nat

VARIABLES
  clients,  \* _db_clients; a descriptor with no entry maps to Absent
  accepted, \* the number of connections accepted so far
  sent      \* the messages handed to sendToClient in the last step

registry == <<clients, accepted>>

-----------------------------------------------------------------------------
(* Clients *)

\* The serial number of no connection.
NoConn == 0

\* What the constructor Client(fd) leaves: nothing given, nothing proved.
NewClient(c) ==
  [conn |-> c, nickname |-> NoNick, username |-> FALSE,
   registered |-> FALSE, hasPassword |-> FALSE]

Absent == NewClient(NoConn)

\* `username' stands for _username and _realname, which USER sets together.
Client ==
  [conn : Nat, nickname : Nicks \cup {NoNick}, username : BOOLEAN,
   registered : BOOLEAN, hasPassword : BOOLEAN]

Open(f) == clients[f].conn # NoConn

\* Mutant of Holders: only the nicknames of registered clients count.
HoldersRegistered(nick) ==
  {f \in Fds : clients[f].registered /\ clients[f].nickname = nick}

\* The clients a scan of _db_clients for a nickname matches.
Holders(nick) == {f \in Fds : Open(f) /\ clients[f].nickname = nick}

-----------------------------------------------------------------------------
(* Messages *)

Message(kind, from, to, chan) ==
  [kind |-> kind, from |-> from, to |-> to, chan |-> chan]

\* A numeric or a notice of the server itself, for the client being served.
Numeric(f, code) == Message(code, NoConn, clients[f].conn, NoName)

Reply(f, code) == sent' = {Numeric(f, code)}

Silent == sent' = {}

-----------------------------------------------------------------------------
(* The handlers *)

\* accept() returns the least free descriptor.
acceptNewClient(f) ==
  /\ accepted < MaxConns
  /\ ~Open(f)
  /\ \A g \in Fds : ~Open(g) => f <= g
  /\ accepted' = accepted + 1
  /\ clients' = [clients EXCEPT ![f] = NewClient(accepted + 1)]
  /\ Silent

\* Mutant of erase: the entry is marked as closed and stays in the map.
eraseMarks(f) ==
  /\ clients' = [clients EXCEPT ![f].conn = -1]
  /\ UNCHANGED accepted

\* _db_clients.erase(fd) and close(fd), at the end of removeClient.
erase(f) ==
  /\ clients' = [clients EXCEPT ![f] = Absent]
  /\ UNCHANGED accepted

Refuse(f, codes) ==
  /\ \E code \in codes : Reply(f, code)
  /\ UNCHANGED registry

\* A wrong password closes the connection.
handlePASS(f) ==
  /\ Open(f)
  /\ \/ clients[f].hasPassword /\ Refuse(f, {"462"})
     \/ ~clients[f].hasPassword /\ Refuse(f, {"461"})
     \/ /\ ~clients[f].hasPassword
        /\ clients' = [clients EXCEPT ![f].hasPassword = TRUE]
        /\ UNCHANGED accepted
        /\ Reply(f, "NOTICE")
     \/ ~clients[f].hasPassword /\ Reply(f, "464") /\ erase(f)

\* Mutant of setNickname: USER is expected to come last.
setNicknameFirst(f, nick) ==
  /\ clients' = [clients EXCEPT ![f].nickname = nick]
  /\ UNCHANGED accepted
  /\ Silent

\* Mutant of setNickname: it does not matter whether the client is registered.
setNicknameAgain(f, nick) ==
  LET completes == clients[f].username
  IN  /\ clients' = [clients EXCEPT ![f].nickname = nick,
                                    ![f].registered = @ \/ completes]
      /\ UNCHANGED accepted
      /\ sent' = {m \in {Numeric(f, "001")} : completes}

\* The client acquires a nickname, and is registered by it when USER came
\* first.  Every client of the server, registered or not, is told of the new
\* nickname of a client that was registered before.
setNickname(f, nick) ==
  LET completes == clients[f].username /\ ~clients[f].registered
  IN  /\ clients' = [clients EXCEPT ![f].nickname = nick,
                                    ![f].registered = @ \/ completes]
      /\ UNCHANGED accepted
      /\ sent' = {Message("NICK", clients[f].conn, clients[g].conn, NoName) :
                    g \in {h \in Fds : Open(h) /\ clients[f].registered}}
                 \cup {m \in {Numeric(f, "001")} : completes}

handleNICK(f) ==
  /\ Open(f)
  /\ \/ ~clients[f].hasPassword /\ Refuse(f, {"451"})
     \/ clients[f].hasPassword /\ Refuse(f, {"431", "432"})
     \/ \E nick \in Nicks :
          /\ clients[f].hasPassword
          /\ \/ Holders(nick) # {} /\ Refuse(f, {"433"})
             \/ Holders(nick) = {} /\ setNickname(f, nick)

\* The client gives its user name, and is registered by it when NICK came first.
setIdentity(f) ==
  LET completes == clients[f].nickname # NoNick /\ ~clients[f].registered
  IN  /\ clients' = [clients EXCEPT ![f].username = TRUE,
                                    ![f].registered = @ \/ completes]
      /\ UNCHANGED accepted
      /\ sent' = {m \in {Numeric(f, "001")} : completes}

handleUSER(f) ==
  /\ Open(f)
  /\ \/ ~clients[f].hasPassword /\ Refuse(f, {"451"})
     \/ clients[f].hasPassword /\ clients[f].username /\ Refuse(f, {"462"})
     \/ /\ clients[f].hasPassword /\ ~clients[f].username
        /\ Refuse(f, {"461", "432"}) \/ setIdentity(f)

\* Every other way a connection ends: QUIT, end of file, an error on the
\* socket, a hang-up.  Who is told of it is up to the channels.
Disconnect(f) == Open(f) /\ erase(f)

-----------------------------------------------------------------------------
(* The specification *)

Init ==
  /\ clients = [f \in Fds |-> Absent]
  /\ accepted = 0
  /\ sent = {}

\* The bounded history is over: every connection it had has been closed.
Quiet ==
  /\ accepted = MaxConns
  /\ \A f \in Fds : ~Open(f)
  /\ UNCHANGED <<clients, accepted, sent>>

Register(f) ==
  acceptNewClient(f) \/ handlePASS(f) \/ handleNICK(f) \/ handleUSER(f)

\* The registry as a part of the server.  `sent' is an output of its steps and
\* not in the subscript: the server sends other messages in other steps.
RegistryNext == (\E f \in Fds : Register(f) \/ Disconnect(f)) \/ Quiet

RegistrySpec == Init /\ [][RegistryNext]_registry

\* The registry alone.
AloneNext == (\E f \in Fds : Register(f) \/ (Silent /\ Disconnect(f))) \/ Quiet

AloneSpec == Init /\ [][AloneNext]_<<clients, accepted, sent>>

-----------------------------------------------------------------------------
(* Properties *)

\* The shape of _db_clients.
RegistryTypeOK ==
  /\ clients \in [Fds -> Client]
  /\ accepted \in Nat

\* No two live connections have the same nickname: a nickname is refused to a
\* second client (Commands.cpp:95) in every order in which PASS, NICK and
\* disconnections of several clients are served.
NicknamesUnique ==
  \A f, g \in Fds :
    Open(f) /\ Open(g) /\ clients[f].nickname = clients[g].nickname
      => f = g \/ clients[f].nickname = NoNick

\* A client is registered exactly when it has given the password, a nickname
\* and a user name, whichever of NICK (Commands.cpp:115) and USER
\* (Commands.cpp:367) came last.
RegistrationComplete ==
  \A f \in Fds :
    clients[f].registered <=>
      /\ clients[f].hasPassword
      /\ clients[f].nickname # NoNick
      /\ clients[f].username

\* A connection is welcomed (001) in the step that registers it, whichever of
\* NICK and USER that is, and in no other step of its life; once registered it
\* stays registered until it is closed.
WelcomedOnce ==
  [][\A f \in Fds : Open(f) =>
       /\ Numeric(f, "001") \in sent' <=>
            ~clients[f].registered /\ clients'[f].registered
       /\ clients[f].registered => clients'[f].registered \/ clients'[f] = Absent
    ]_<<clients, accepted, sent>>
=============================================================================
