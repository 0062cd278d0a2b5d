--------------------------- MODULE ClientSession ---------------------------
(***************************************************************************)
(* How a peer becomes a player of the server, and stops being one:         *)
(* RemoteClient's states (server/clientiface.cpp), the handlers of         *)
(* TOSERVER_INIT, FIRST_SRP, SRP_BYTES_A, SRP_BYTES_M, INIT2 and           *)
(* CLIENT_READY (src/network/serverpackethandler.cpp), and the list of     *)
(* players of the environment, where a player stays for a while after its  *)
(* peer has gone.  The server thread runs one handler at a time, so each   *)
(* is one step; peers send what they like, in any order.                   *)
(*                                                                         *)
(* A password stands for the verifier that is made of it.  Left out: the   *)
(* single-player mode, bans and prejoin callbacks (one more reason to      *)
(* deny), legacy password entries, malformed packets, and users who may    *)
(* bypass the limit.  A handler that changes nothing is not a step.        *)
(***************************************************************************)
EXTENDS Naturals, Sequences, FiniteSets, Null

CONSTANTS
    Peers,      \* the values of session_t
    Names,
    Passwords,
    MaxUsers,   \* the setting max_users
    MaxPlayers  \* bound: clients and players there may be when a peer connects

ASSUME SessionAssumption ==
    /\ None \notin Peers \union Names \union Passwords
    /\ IsFiniteSet(Peers)       \* session_t has 16 bits
    /\ MaxUsers \in Nat /\ MaxPlayers \in Nat

VARIABLES
    client,             \* ClientInterface::m_clients
    players,            \* ServerEnvironment::m_players
    auth,               \* the authentication database
    default_password,   \* the setting
    unexpected,         \* history: a handler notified an event that notifyEvent rejects
    hasty,              \* history: a name joined while its last player was still there
    fatal               \* an exception that nothing handles has ended the server

vars == <<client, players, auth, default_password, unexpected, hasty, fatal>>

InGame == {"Active", "SudoMode"}

States == {"Disconnecting", "Denied", "Created", "HelloSent", "AwaitingInit2",
           "InitDone", "DefinitionsSent"} \union InGame

Mechanisms == {"SRP", "FIRST_SRP"}

Client == [state : States, name : Names \union {None}, enc_pwd : Passwords \union {None},
           allowed : SUBSET Mechanisms, chosen : Mechanisms \union {None}, create : BOOLEAN]

ASSUME ClientAssumption == None \notin Client

Is(p, states) == client[p] # None /\ client[p].state \in states

TypeOK ==
    /\ client \in [Peers -> Client \union {None}]
    /\ players \in Seq([name : Names, peer : Peers \union {None}])
    /\ auth \in [Names -> Passwords \union {None}]
    /\ default_password \in Passwords \union {None}
    /\ unexpected \in BOOLEAN /\ hasty \in BOOLEAN /\ fatal \in BOOLEAN
    /\ \A p \in Peers : Is(p, {"HelloSent"} \union InGame) =>
           /\ client[p].name # None
           /\ "SRP" \in client[p].allowed => client[p].enc_pwd # None

Init ==
    /\ client = [p \in Peers |-> None]
    /\ players = <<>>
    /\ auth = [n \in Names |-> None]
    /\ default_password \in Passwords \union {None}
    /\ unexpected = FALSE /\ hasty = FALSE /\ fatal = FALSE

-----------------------------------------------------------------------------
(* RemoteClient::notifyEvent.                                              *)

Transition ==
    {<<"Created", "Hello", "HelloSent">>,
     <<"HelloSent", "AuthAccept", "AwaitingInit2">>,
     <<"AwaitingInit2", "GotInit2", "InitDone">>,
     <<"InitDone", "SetDefinitionsSent", "DefinitionsSent">>,
     <<"DefinitionsSent", "SetClientReady", "Active">>,
     <<"Active", "SudoSuccess", "SudoMode">>,
     <<"SudoMode", "SudoLeave", "Active">>}

\* It forgets the mechanism when it leaves HelloSent, and on SudoSuccess.
ResetsMechanism(c, event) ==
    event = "SudoSuccess" \/ (c.state = "HelloSent" /\ event # "Disconnect")

Expected(c, event) ==
    \/ c.state \in {"Denied", "Disconnecting"}
    \/ \E s \in States : <<c.state, event, s>> \in Transition

\* The client after an event that is expected; an unexpected one throws
\* ClientStateError, for which Server::Receive denies access.
Notified(c, event) ==
    IF c.state \in {"Denied", "Disconnecting"} THEN c
    ELSE [c EXCEPT
        !.state = IF ~ Expected(c, event) THEN "Denied"
                  ELSE CHOOSE s \in States : <<c.state, event, s>> \in Transition,
        !.chosen = IF ResetsMechanism(c, event) THEN None ELSE @]

Denied(c) ==
    IF c.state \in {"Denied", "Disconnecting"} THEN c
    ELSE [c EXCEPT !.state = "Denied",
                   !.chosen = IF c.state = "HelloSent" THEN None ELSE @]

Notify(p, c, event) ==
    /\ client' = [client EXCEPT ![p] = Notified(c, event)]
    /\ unexpected' = (unexpected \/ ~ Expected(c, event))

\* DenyAccess: the connection will remove the peer, in its own time.
DenyAccess(p) ==
    /\ client' = [client EXCEPT ![p] = Denied(@)]
    /\ UNCHANGED unexpected

-----------------------------------------------------------------------------
(* The players of the environment.                                         *)

\* getPlayer(name, TRUE): the first one of that name.
FirstOf(name) ==
    CHOOSE i \in DOMAIN players :
        /\ players[i].name = name
        /\ \A j \in DOMAIN players : players[j].name = name => i <= j

Known(name) == \E i \in DOMAIN players : players[i].name = name

\* getPlayer(name) finds a player: the first one of that name has a peer.
IsConnected(name) == Known(name) /\ players[FirstOf(name)].peer # None

HasPlayer(p) == \E i \in DOMAIN players : players[i].peer = p

\* Fault: the name is not looked up.
MayEmergeAnyName(p, name) == ~ HasPlayer(p)

\* emergePlayer.
MayEmerge(p, name) == ~ IsConnected(name) /\ ~ HasPlayer(p)

UserLimitReached == Cardinality({p \in Peers : Is(p, InGame)}) >= MaxUsers

-----------------------------------------------------------------------------
(* The connection's events.                                                *)

\* peerAdded.
PeerAdded(p) ==
    /\ ~ fatal
    /\ client[p] = None
    /\ Cardinality({q \in Peers : client[q] # None}) + Len(players) < MaxPlayers
    /\ client' = [client EXCEPT ![p] =
           [state |-> "Created", name |-> None, enc_pwd |-> None, allowed |-> {},
            chosen |-> None, create |-> FALSE]]
    /\ UNCHANGED <<players, auth, default_password, unexpected, hasty, fatal>>

\* Fault: the player keeps its peer until it is removed.
LeftAlone(p) == players

\* PlayerSAO::disconnected.
Left(p) == [i \in DOMAIN players |->
    IF players[i].peer = p THEN [players[i] EXCEPT !.peer = None] ELSE players[i]]

\* deletingPeer and DeleteClient: the peer left, timed out, lingered or was denied.
DeletingPeer(p) ==
    /\ ~ fatal
    /\ client[p] # None
    /\ players' = Left(p)
    /\ client' = [client EXCEPT ![p] = None]
    /\ UNCHANGED <<auth, default_password, unexpected, hasty, fatal>>

\* removeRemovedObjects: once no client knows the object, the player is saved and removed.
RemovePlayer(i) ==
    /\ ~ fatal
    /\ players[i].peer = None
    /\ players' = SubSeq(players, 1, i - 1) \o SubSeq(players, i + 1, Len(players))
    /\ UNCHANGED <<client, auth, default_password, unexpected, hasty, fatal>>

-----------------------------------------------------------------------------
(* The handlers.                                                           *)

\* The answer to TOSERVER_INIT depends on what is known of the name.
Greeted(c, name) ==
    LET known == auth[name] # None
        first == ~ known /\ default_password = None
    IN
    [c EXCEPT !.name = name, !.chosen = None,
              !.allowed = IF first THEN {"FIRST_SRP"} ELSE {"SRP"},
              !.enc_pwd = IF known THEN auth[name] ELSE default_password,
              !.create = ~ known /\ ~ first]

\* handleCommand_Init.
HandleInit(p, name) ==
    /\ ~ fatal
    /\ Is(p, {"Created"})
    /\ IF IsConnected(name) \/ UserLimitReached THEN DenyAccess(p)
       ELSE Notify(p, Greeted(client[p], name), "Hello")
    /\ UNCHANGED <<players, auth, default_password, hasty, fatal>>

\* create_auth: the database takes a name once, and throws for ever after.
CreateAuth(name, password) ==
    IF auth[name] = None
    THEN auth' = [auth EXCEPT ![name] = password] /\ UNCHANGED fatal
    ELSE fatal' = TRUE /\ UNCHANGED auth

\* Fault: nobody looks whether another client was faster.
RegisterAgain(p, password) ==
    LET c == client[p]
    IN
    IF "FIRST_SRP" \notin c.allowed
    THEN DenyAccess(p) /\ UNCHANGED <<auth, fatal>>
    ELSE /\ CreateAuth(c.name, password)
         /\ Notify(p, [c EXCEPT !.enc_pwd = password, !.allowed = {"SRP"}], "AuthAccept")

\* handleCommand_FirstSrp of a new user.
Register(p, password) ==
    LET c == client[p]
    IN
    IF "FIRST_SRP" \notin c.allowed \/ auth[c.name] # None
    THEN DenyAccess(p) /\ UNCHANGED <<auth, fatal>>
    ELSE /\ CreateAuth(c.name, password)
         /\ Notify(p, [c EXCEPT !.enc_pwd = password, !.allowed = {"SRP"}], "AuthAccept")

\* Fault: whoever is in the game may change the password.
MayChangePasswordInGame(p) == Is(p, InGame)

MayChangePassword(p) == Is(p, {"SudoMode"})

ChangePassword(p, password) ==
    /\ auth' = [auth EXCEPT ![client[p].name] = password]
    /\ Notify(p, [client[p] EXCEPT !.enc_pwd = password, !.allowed = {"SRP"}], "SudoLeave")

HandleFirstSrp(p, password) ==
    /\ ~ fatal
    /\ \/ Is(p, {"HelloSent"}) /\ Register(p, password)
       \/ MayChangePassword(p) /\ ChangePassword(p, password) /\ UNCHANGED fatal
    /\ UNCHANGED <<players, default_password, hasty>>

\* handleCommand_SrpBytesA; a client in the game is told, but not denied access.
HandleSrpBytesA(p) ==
    LET c == client[p]
    IN
    /\ ~ fatal
    /\ Is(p, {"HelloSent", "Active"})
    /\ IF c.chosen = None /\ "SRP" \in c.allowed
       THEN client' = [client EXCEPT ![p].chosen = "SRP"] /\ UNCHANGED unexpected
       ELSE c.state = "HelloSent" /\ DenyAccess(p)
    /\ UNCHANGED <<players, auth, default_password, hasty, fatal>>

\* A password that is not the one of enc_pwd, or no preceding SRP_BYTES_A.
FailSrp(p) ==
    /\ IF client[p].state = "HelloSent" THEN DenyAccess(p)
       ELSE client' = [client EXCEPT ![p].chosen = None] /\ UNCHANGED unexpected
    /\ UNCHANGED <<auth, fatal>>

\* acceptAuth, after the name with the default password has been stored.
PassSrp(p) ==
    LET c == client[p]
    IN
    /\ IF c.create THEN CreateAuth(c.name, c.enc_pwd) ELSE UNCHANGED <<auth, fatal>>
    /\ Notify(p, [c EXCEPT !.create = FALSE],
              IF c.state = "Active" THEN "SudoSuccess" ELSE "AuthAccept")

\* handleCommand_SrpBytesM.
HandleSrpBytesM(p, password) ==
    /\ ~ fatal
    /\ Is(p, {"HelloSent", "Active"})
    /\ IF client[p].chosen = "SRP" /\ password = client[p].enc_pwd
       THEN PassSrp(p) ELSE FailSrp(p)
    /\ UNCHANGED <<players, default_password, hasty>>

\* handleCommand_Init2: two events with nothing between them that another could see.
HandleInit2(p) ==
    /\ ~ fatal
    /\ Is(p, {"AwaitingInit2"})
    /\ Notify(p, Notified(client[p], "GotInit2"), "SetDefinitionsSent")
    /\ UNCHANGED <<players, auth, default_password, hasty, fatal>>

\* Fault: the user limit is looked at in handleCommand_Init only.
MayJoinUnlimited(p) == MayEmerge(p, client[p].name)

MayJoin(p) == ~ UserLimitReached /\ MayEmerge(p, client[p].name)

\* handleCommand_ClientReady and StageTwoClientInit.
HandleClientReady(p) ==
    LET name == client[p].name
    IN
    /\ ~ fatal
    /\ Is(p, {"DefinitionsSent"} \union InGame)
    /\ IF MayJoin(p)
       THEN /\ players' = Append(players, [name |-> name, peer |-> p])
            /\ hasty' = (hasty \/ \E i \in DOMAIN players : players[i] = [name |-> name, peer |-> None])
            /\ Notify(p, client[p], "SetClientReady")
       ELSE DenyAccess(p) /\ UNCHANGED <<players, hasty>>
    /\ UNCHANGED <<auth, default_password, fatal>>

\* A player is kicked: by an administrator, a mod or a shutdown.
Kick(p) ==
    /\ ~ fatal
    /\ Is(p, InGame)
    /\ DenyAccess(p)
    /\ UNCHANGED <<players, auth, default_password, hasty, fatal>>

-----------------------------------------------------------------------------
Next ==
    \/ \E p \in Peers : PeerAdded(p) \/ DeletingPeer(p) \/ Kick(p)
    \/ \E p \in Peers, n \in Names : HandleInit(p, n)
    \/ \E p \in Peers, w \in Passwords : HandleFirstSrp(p, w) \/ HandleSrpBytesM(p, w)
    \/ \E p \in Peers : HandleSrpBytesA(p) \/ HandleInit2(p) \/ HandleClientReady(p)
    \/ \E i \in DOMAIN players : RemovePlayer(i)

Spec == Init /\ [][Next]_vars

-----------------------------------------------------------------------------
\* Whoever is in the game has one player object, under the name it logged in with, and
\* a player with a peer has a client: denied clients keep theirs until the connection
\* removes the peer (server.cpp:3098, 3167).
PlayersAreClients ==
    /\ \A p \in Peers : Is(p, InGame) =>
           Cardinality({i \in DOMAIN players :
               players[i] = [name |-> client[p].name, peer |-> p]}) = 1
    /\ \A i \in DOMAIN players : players[i].peer # None =>
           Is(players[i].peer, InGame \union {"Denied"})

\* However many clients are joining, no more than max_users are in the game
\* (serverpackethandler.cpp:371, "two could race the join process").
UserLimitHeld == Cardinality({p \in Peers : Is(p, InGame)}) <= MaxUsers

\* No order of packets makes a handler notify an event that the client's state rejects
\* (clientiface.cpp:465).
NothingUnexpected == ~ unexpected

\* Without a default password a name is registered once, however many clients got as
\* far as TOCLIENT_HELLO under it (serverpackethandler.cpp:1468).
RegisteredOnce == default_password = None => ~ fatal

\* "In the end only one player with a given name will be emerged"
\* (serverpackethandler.cpp:1469).
OnePlayerPerName ==
    \A i, j \in DOMAIN players :
        (players[i].name = players[j].name /\ players[i].peer # None
            /\ players[j].peer # None) => i = j

\* It holds as long as no name joins before the player it had last is removed.
OnePlayerUnlessHasty == hasty \/ OnePlayerPerName
=============================================================================
