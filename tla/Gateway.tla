--------------------------------- MODULE Gateway ---------------------------------
(***************************************************************************)
(* How a network is set up through the gateway: users and their tokens     *)
(* (app.js, helper.js), the channel, its peers, and the chaincode          *)
(* (create-channel.js, join-channel.js, install-chaincode.js,              *)
(* instantiate-chaincode.js).                                              *)
(*                                                                         *)
(* A user is registered with the certificate authority, enrolled, which    *)
(* puts it in the gateway's store, and written to the ledger by the        *)
(* chaincode "currency".  Every other request acts for a user of the       *)
(* store.  Handlers interleave at every await; a handler that throws is    *)
(* gone and its client is never answered (no route catches).               *)
(*                                                                         *)
(* One organisation, one channel and one chaincode.  Invoking and querying *)
(* a chaincode are in Transactions; the authority, the peers and the       *)
(* orderer are external.                                                   *)
(***************************************************************************)
EXTENDS Naturals, FiniteSets

CONSTANTS
  Handlers,   (* requests to the gateway that are in progress at once      *)
  Users,      (* names of users and administrators                         *)
  Peers,      (* the peers of the organisation, each with an event hub     *)
  TargetSets, (* the lists of peers that requests name                     *)
  MaxFaults   (* bound: failed or unanswered calls, and restarts           *)

ASSUME GatewayAssumption ==
  /\ TargetSets \subseteq SUBSET Peers /\ {} \notin TargetSets
  /\ Users # {}
  /\ MaxFaults \in Nat

VARIABLES
  registered,   (* authority: users that are registered                    *)
  enrolled,     (* store, on disk: users that are enrolled                 *)
  regists,      (* ledger: how often a user was written                    *)
  created,      (* orderer: the channel exists                             *)
  joined,       (* peers that are in the channel                           *)
  installed,    (* peers that have the chaincode                           *)
  instantiated, (* ledger: the chaincode is instantiated                   *)
  pc, route, user, targets,  (* of each handler                            *)
  hubs,         (* of each handler: what the hub of a peer came to         *)
  asked,        (* of each handler: peers that were asked to join          *)
  refused,      (* of each handler: one of them did not                    *)
  faults,       (* faults so far                                           *)
  tokens,       (* history: roles and users of the tokens answered         *)
  instantiations (* history: how many instantiations were                  *)

identity  == <<registered, enrolled, regists>>
network   == <<created, joined, installed, instantiated>>
locals    == <<route, user, targets>>
joins     == <<hubs, asked, refused>>
histories == <<tokens, instantiations>>
vars      == <<identity, network, pc, locals, joins, faults, histories>>

--------------------------------------------------------------------------------
UserRoutes == {"admins", "admin_newtoken", "users", "newtoken"}
Labels     == {"idle", "load", "register", "enrol", "regist",
               "create", "join", "joining", "install", "instantiate", "order",
               "valid", "invalid"}
NoHubs     == [p \in Peers |-> "off"]

TypeOK ==
  /\ enrolled \subseteq registered /\ registered \subseteq Users
  /\ regists \in [Users -> Nat]
  /\ {created, instantiated} \subseteq BOOLEAN
  /\ joined \subseteq Peers /\ installed \subseteq Peers
  /\ pc \in [Handlers -> Labels]
  /\ route \in [Handlers -> UserRoutes \cup {"none"}]
  /\ user \in [Handlers -> Users]
  /\ targets \in [Handlers -> SUBSET Peers]
  /\ asked \in [Handlers -> SUBSET Peers]
  /\ refused \in [Handlers -> BOOLEAN]
  /\ hubs \in [Handlers -> [Peers -> {"off", "waiting", "silent", "reported"}]]
  /\ \A n \in Handlers : pc[n] # "joining" => hubs[n] = NoHubs /\ asked[n] = {}
  /\ faults \in 0 .. MaxFaults
  /\ tokens \subseteq {"administrator", "user"} \X Users
  /\ instantiations \in Nat

AnyUser == CHOOSE u \in Users : TRUE

Init ==
  /\ registered = {} /\ enrolled = {}
  /\ regists = [u \in Users |-> 0]
  /\ created = FALSE /\ joined = {} /\ installed = {} /\ instantiated = FALSE
  /\ pc = [n \in Handlers |-> "idle"]
  /\ route = [n \in Handlers |-> "none"]
  /\ user = [n \in Handlers |-> AnyUser]
  /\ targets = [n \in Handlers |-> {}]
  /\ hubs = [n \in Handlers |-> NoHubs]
  /\ asked = [n \in Handlers |-> {}]
  /\ refused = [n \in Handlers |-> FALSE]
  /\ faults = 0
  /\ tokens = {} /\ instantiations = 0

Goto(n, to) == pc' = [pc EXCEPT ![n] = to] /\ UNCHANGED locals

(* A request comes in. *)
Begin(n, to, r, u, ts) ==
  /\ pc[n] = "idle"
  /\ pc' = [pc EXCEPT ![n] = to]
  /\ route' = [route EXCEPT ![n] = r]
  /\ user' = [user EXCEPT ![n] = u]
  /\ targets' = [targets EXCEPT ![n] = ts]
  /\ UNCHANGED <<identity, network, joins, faults, histories>>

(* The handler is gone: it has answered, or thrown. *)
Leave(n) ==
  /\ pc' = [pc EXCEPT ![n] = "idle"]
  /\ route' = [route EXCEPT ![n] = "none"]
  /\ user' = [user EXCEPT ![n] = AnyUser]
  /\ targets' = [targets EXCEPT ![n] = {}]

(* Without a token to hand out: an answer, an error or an exception. *)
Finish(n) == Leave(n) /\ UNCHANGED histories

Role(n) == IF route[n] \in {"admins", "admin_newtoken"} THEN "administrator" ELSE "user"

Token(n) ==
  /\ Leave(n)
  /\ tokens' = tokens \cup {<<Role(n), user[n]>>}
  /\ UNCHANGED instantiations

Fault == faults < MaxFaults /\ faults' = faults + 1

(* A call to another system: it takes effect and is answered, or the answer is lost,
   or it fails. *)
CallOut(accepted, effect, unchanged, ok, error) ==
  \/ accepted /\ effect /\ ok /\ UNCHANGED faults
  \/ accepted /\ effect /\ error /\ Fault
  \/ unchanged /\ error /\ IF accepted THEN Fault ELSE UNCHANGED faults

--------------------------------------------------------------------------------
(* The routes that hand out tokens, for any name: those for a new token take it from the
   token they are given, which they decode and do not verify. *)
Admins(n) == \E u \in Users : Begin(n, "load", "admins", u, {})

UsersRoute(n) == \E u \in Users : Begin(n, "load", "users", u, {})

AdminNewToken(n) == \E u \in Users : Begin(n, "load", "admin_newtoken", u, {})

NewToken(n) == \E u \in Users : Begin(n, "load", "newtoken", u, {})

(* A user that was in the store gets a token from every route. *)
Known(n) == Token(n)

(* One that was not has to be written to the ledger, by /users; for a new token it
   is no valid user, though it is one from now on. *)
New(n) ==
  \/ route[n] = "admins" /\ Token(n)
  \/ route[n] \in {"newtoken", "admin_newtoken"} /\ Finish(n)
  \/ route[n] = "users" /\ Goto(n, "regist") /\ UNCHANGED histories

(* FAULT: every user counts as new. *)
LoadAsNew(n) ==
  /\ pc[n] = "load"
  /\ \/ user[n] \in enrolled /\ New(n)
     \/ user[n] \notin enrolled /\ Goto(n, "register") /\ UNCHANGED histories
  /\ UNCHANGED <<identity, network, joins, faults>>

(* getRegisteredUser: a user of the store is loaded, another one is registered ... *)
Load(n) ==
  /\ pc[n] = "load"
  /\ \/ user[n] \in enrolled /\ Known(n)
     \/ user[n] \notin enrolled /\ Goto(n, "register") /\ UNCHANGED histories
  /\ UNCHANGED <<identity, network, joins, faults>>

(* FAULT: a text that tells of a failure is taken for a response. *)
RegisterAnyAnswer(n) ==
  /\ pc[n] = "register"
  /\ CallOut(user[n] \notin registered,
             registered' = registered \cup {user[n]}, UNCHANGED registered,
             Goto(n, "enrol") /\ UNCHANGED histories, Token(n))
  /\ UNCHANGED <<enrolled, regists, network, joins>>

(* ... which the authority does once for a name ... *)
Register(n) ==
  /\ pc[n] = "register"
  /\ CallOut(user[n] \notin registered,
             registered' = registered \cup {user[n]}, UNCHANGED registered,
             Goto(n, "enrol") /\ UNCHANGED histories, Finish(n))
  /\ UNCHANGED <<enrolled, regists, network, joins>>

(* ... and enrolled with the secret that only this handler has. *)
Enrol(n) ==
  /\ pc[n] = "enrol"
  /\ \/ enrolled' = enrolled \cup {user[n]} /\ New(n) /\ UNCHANGED faults
     \/ UNCHANGED enrolled /\ Finish(n) /\ Fault
  /\ UNCHANGED <<registered, regists, network, joins>>

(* invokeChaincode "regist" throws if it fails. *)
Regist(n) ==
  /\ pc[n] = "regist"
  /\ CallOut(instantiated, regists' = [regists EXCEPT ![user[n]] = @ + 1], UNCHANGED regists,
             Token(n), Finish(n))
  /\ UNCHANGED <<registered, enrolled, network, joins>>

--------------------------------------------------------------------------------
(* The other routes: who asks is in the token, which is verified. *)
Asking == {t[2] : t \in tokens}

CreateRoute(n) == \E u \in Asking : Begin(n, "create", "none", u, {})

Create(n) ==
  /\ pc[n] = "create"
  /\ CallOut(~created, created' = TRUE, UNCHANGED created, Finish(n), Finish(n))
  /\ UNCHANGED <<identity, joined, installed, instantiated, joins>>

JoinRoute(n) == \E u \in Asking, ts \in TargetSets : Begin(n, "join", "none", u, ts)

(* getClientForOrg: the request acts for a user of the store. *)
HasClient(n) == user[n] \in enrolled

(* joinChannel: with the genesis block at hand, a hub is set up for every peer of the
   organisation, and the peers that were named are asked. *)
SetUpHubs(n) ==
  /\ pc[n] = "join"
  /\ \/ /\ HasClient(n) /\ created
        /\ pc' = [pc EXCEPT ![n] = "joining"]
        /\ targets' = [targets EXCEPT ![n] = {}] /\ UNCHANGED <<route, user>>
        /\ hubs' = [hubs EXCEPT ![n] = [p \in Peers |-> "waiting"]]
        /\ asked' = [asked EXCEPT ![n] = targets[n]]
        /\ UNCHANGED <<refused, faults, histories>>
     \/ /\ Finish(n) /\ UNCHANGED joins
        /\ IF HasClient(n) /\ created THEN Fault ELSE UNCHANGED faults
  /\ UNCHANGED <<identity, network>>

(* A peer joins, if it is not in the channel, and answers. *)
PeerJoins(n, p) ==
  /\ p \in asked[n]
  /\ asked' = [asked EXCEPT ![n] = @ \ {p}]
  /\ \/ p \notin joined /\ joined' = joined \cup {p} /\ UNCHANGED <<refused, faults>>
     \/ /\ UNCHANGED joined /\ refused' = [refused EXCEPT ![n] = TRUE]
        /\ IF p \notin joined THEN Fault ELSE UNCHANGED faults
  /\ UNCHANGED <<identity, created, installed, instantiated, pc, locals, hubs,
                 histories>>

(* FAULT: the event streams are not shut down. *)
KeepHubs(n) ==
  /\ asked' = [asked EXCEPT ![n] = {}]
  /\ refused' = [refused EXCEPT ![n] = FALSE]
  /\ \E some \in SUBSET asked[n] : joined' = joined \cup some
  /\ UNCHANGED hubs

(* The event streams are shut down.  Peers that were asked and have not answered may
   join all the same (here at this moment or not at all). *)
Disconnect(n) ==
  /\ hubs' = [hubs EXCEPT ![n] = NoHubs]
  /\ asked' = [asked EXCEPT ![n] = {}]
  /\ refused' = [refused EXCEPT ![n] = FALSE]
  /\ \E some \in SUBSET asked[n] : joined' = joined \cup some

InState(n, q) == {p \in Peers : hubs[n][p] = q}

(* FAULT: the channel of the block is not looked at. *)
HubHearsAny(n, p) ==
  /\ p \in InState(n, "waiting") \cup InState(n, "silent")
  /\ hubs' = [hubs EXCEPT ![n][p] = "reported"]
  /\ UNCHANGED <<identity, network, pc, locals, asked, refused, faults, histories>>

(* A block reaches the hub, from any channel of the peer, and clears the timer.  With
   one transaction, of this channel, it reports the peer; with several it does not. *)
HubHears(n, p) ==
  /\ \/ /\ p \in joined /\ p \in InState(n, "waiting") \cup InState(n, "silent")
        /\ hubs' = [hubs EXCEPT ![n][p] = "reported"]
     \/ /\ p \in InState(n, "waiting")
        /\ hubs' = [hubs EXCEPT ![n][p] = "silent"]
  /\ UNCHANGED <<identity, network, pc, locals, asked, refused, faults, histories>>

(* Promise.all: the first hub that fails ends the join. *)
JoinFails(n) ==
  /\ Disconnect(n) /\ Finish(n)
  /\ UNCHANGED <<identity, created, installed, instantiated, faults>>

(* A silent hub fails if a block of another channel comes or the stream ends ... *)
HubFails(n) == InState(n, "silent") # {} /\ JoinFails(n)

(* FAULT: the timeout is only logged. *)
HubTimeoutLogged(n) == InState(n, "waiting") # {} /\ UNCHANGED vars

(* ... and one with a timer also if nothing comes for a minute. *)
HubTimesOut(n) == InState(n, "waiting") # {} /\ JoinFails(n)

(* Else every hub has to report and every peer to answer, and the join is a success
   if none of them refused. *)
Settled(n) == pc[n] = "joining" /\ asked[n] = {} /\ InState(n, "reported") = Peers

Success(n) == Settled(n) /\ ~refused[n]

JoinAnswer(n) ==
  /\ Settled(n)
  /\ Disconnect(n) /\ Finish(n)
  /\ UNCHANGED <<identity, created, installed, instantiated, faults>>

--------------------------------------------------------------------------------
InstallRoute(n) == \E u \in Asking, ts \in TargetSets : Begin(n, "install", "none", u, ts)

(* installChaincode: each of the peers takes it or not. *)
Install(n) ==
  /\ pc[n] = "install"
  /\ \/ HasClient(n) /\ installed' = installed \cup targets[n] /\ UNCHANGED faults
     \/ /\ HasClient(n) /\ Fault
        /\ \E some \in SUBSET targets[n] : installed' = installed \cup some
     \/ ~HasClient(n) /\ UNCHANGED <<installed, faults>>
  /\ Finish(n)
  /\ UNCHANGED <<identity, created, joined, instantiated, joins>>

InstantiateRoute(n) ==
  \E u \in Asking, ts \in TargetSets : Begin(n, "instantiate", "none", u, ts)

(* instantiateChaincode: all the peers have to endorse ... *)
Endorsed(n) ==
  HasClient(n) /\ targets[n] \subseteq joined \cap installed /\ ~instantiated

Endorse(n) ==
  /\ pc[n] = "instantiate"
  /\ \/ /\ Endorsed(n)
        /\ pc' = [pc EXCEPT ![n] = "order"]
        /\ targets' = [targets EXCEPT ![n] = {}] /\ UNCHANGED <<route, user, faults, histories>>
     \/ Finish(n) /\ IF Endorsed(n) THEN Fault ELSE UNCHANGED faults
  /\ UNCHANGED <<identity, network, joins>>

(* ... the orderer orders it, and of two that were endorsed the second is invalid. *)
Commit(n) ==
  /\ pc[n] = "order"
  /\ CallOut(TRUE, instantiated' = TRUE, UNCHANGED instantiated,
             Goto(n, IF instantiated THEN "invalid" ELSE "valid") /\ UNCHANGED histories,
             Finish(n))
  /\ UNCHANGED <<identity, created, joined, installed, joins>>

(* FAULT: the validation code is not looked at. *)
InstantiateAnyCode(n) ==
  /\ pc[n] \in {"valid", "invalid"}
  /\ Peers \subseteq joined
  /\ Leave(n) /\ instantiations' = instantiations + 1
  /\ UNCHANGED <<identity, network, joins, faults, tokens>>

(* It is done when the hub of every peer has told that it is valid; the hub of a peer
   that is not in the channel has nothing to tell and times out. *)
InstantiateAnswer(n) ==
  /\ pc[n] \in {"valid", "invalid"}
  /\ Leave(n)
  /\ \/ /\ pc[n] = "valid" /\ Peers \subseteq joined
        /\ instantiations' = instantiations + 1 /\ UNCHANGED faults
     \/ /\ UNCHANGED instantiations
        /\ IF pc[n] = "valid" /\ Peers \subseteq joined THEN Fault ELSE UNCHANGED faults
  /\ UNCHANGED <<identity, network, joins, tokens>>

--------------------------------------------------------------------------------
(* The gateway stops and starts: its store is on disk. *)
Restart ==
  /\ Fault
  /\ pc' = [n \in Handlers |-> "idle"]
  /\ route' = [n \in Handlers |-> "none"]
  /\ user' = [n \in Handlers |-> AnyUser]
  /\ targets' = [n \in Handlers |-> {}]
  /\ hubs' = [n \in Handlers |-> NoHubs]
  /\ asked' = [n \in Handlers |-> {}]
  /\ refused' = [n \in Handlers |-> FALSE]
  /\ \E some \in SUBSET UNION {asked[n] : n \in Handlers} : joined' = joined \cup some
  /\ UNCHANGED <<identity, created, installed, instantiated, histories>>

Start(n) ==
  \/ Admins(n) \/ AdminNewToken(n) \/ UsersRoute(n) \/ NewToken(n)
  \/ CreateRoute(n) \/ JoinRoute(n) \/ InstallRoute(n) \/ InstantiateRoute(n)

Continue(n) ==
  \/ Load(n) \/ Register(n) \/ Enrol(n) \/ Regist(n)
  \/ Create(n) \/ Install(n) \/ Endorse(n) \/ Commit(n) \/ InstantiateAnswer(n)
  \/ SetUpHubs(n) \/ JoinAnswer(n)

Next ==
  \/ \E n \in Handlers : Start(n) \/ Continue(n)
  \/ \E n \in Handlers, p \in Peers : PeerJoins(n, p) \/ HubHears(n, p)
  \/ \E n \in Handlers : HubFails(n) \/ HubTimesOut(n)
  \/ Restart

(* Calls end, peers answer and timers fire: whatever a handler waits for, some of it
   comes to pass. *)
Progress(n) == Continue(n) \/ HubTimesOut(n) \/ \E p \in Peers : PeerJoins(n, p)

Fairness == \A n \in Handlers : WF_vars(Progress(n))

Spec     == Init /\ [][Next]_vars
FairSpec == Spec /\ Fairness

--------------------------------------------------------------------------------
(* app.js:681, "write the user to the blockchain if it was not registered before" (in
   Chinese): a user is written once, however many requests for it run at once, are
   repeated, or are cut off by a restart. *)
RegistOnce == \A u \in Users : regists[u] <= 1

(* The same line: a user that got a user's token is on the ledger. *)
UsersAreOnLedger == \A u \in Users : <<"user", u>> \in tokens => regists[u] >= 1

(* A token is only answered for a user whose key is in the store, without which no
   other request for that user can go on (helper.js:90). *)
TokensWork == \A t \in tokens : t[2] \in enrolled

(* join-channel.js:144: an answer that the organisation has joined is only given when
   all its peers are in the channel, those included that were not asked. *)
JoinedMeansAll == \A n \in Handlers : Success(n) => joined = Peers

(* Of instantiations that run at once at most one is answered with success, and not
   before all peers of the organisation can have told of it. *)
InstantiatedOnce ==
  instantiations <= 1 /\ (instantiations = 1 => instantiated /\ joined = Peers)

(* Every handler comes to an end, with one exception: a hub that heard a block of
   several transactions has no timer any more (join-channel.js:64). *)
HandlersEnd ==
  \A n \in Handlers : []<>(pc[n] = "idle" \/ \E p \in Peers : hubs[n][p] = "silent")

================================================================================
