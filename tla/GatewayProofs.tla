----------------------------- MODULE GatewayProofs -----------------------------
(***************************************************************************)
(* Proofs about Gateway, for any number of handlers, users, peers and      *)
(* faults: its types, and that a user is written to the ledger once, that  *)
(* tokens work, that a successful join means that every peer has joined,   *)
(* and that an instantiation succeeds once.                                *)
(***************************************************************************)
EXTENDS Gateway, TLAPS

--------------------------------------------------------------------------------
Writing(n) == pc[n] \in {"enrol", "regist"}

(* What makes a user be written once: a name is registered once, so that one handler
   has its secret; the store then knows the name, and no other handler takes it for a
   new one.  The types need it too: who is enrolled was registered. *)
WritersApart ==
  /\ \A n \in Handlers : pc[n] = "enrol" => user[n] \in registered \ enrolled
  /\ \A n \in Handlers : pc[n] = "regist" => user[n] \in enrolled /\ regists[user[n]] = 0
  /\ \A m, n \in Handlers : Writing(m) /\ Writing(n) /\ user[m] = user[n] => m = n
  /\ \A u \in Users : u \notin enrolled => regists[u] = 0
  /\ RegistOnce

(* There is a user that a handler without one can be given. *)
LEMMA AnyUserExists == AnyUser \in Users
  BY GatewayAssumption DEF AnyUser

(* A token names a user, so that every request begins for a user, at one of these
   labels. *)
LEMMA StartBegins ==
  ASSUME TypeOK, NEW n \in Handlers, Start(n)
  PROVE  \E to \in {"load", "create", "join", "install", "instantiate"},
            r \in UserRoutes \cup {"none"}, u \in Users, ts \in SUBSET Peers :
              Begin(n, to, r, u, ts)
<1>1. Asking \subseteq Users
  BY DEF TypeOK, Asking
<1>2. {} \in SUBSET Peers /\ TargetSets \subseteq SUBSET Peers
  BY GatewayAssumption
<1>3. UserRoutes = {"admins", "admin_newtoken", "users", "newtoken"}
  BY DEF UserRoutes
<1>4. CASE Admins(n)
  BY <1>2, <1>3, <1>4 DEF Admins
<1>5. CASE AdminNewToken(n)
  BY <1>1, <1>2, <1>3, <1>5 DEF AdminNewToken
<1>6. CASE UsersRoute(n)
  BY <1>2, <1>3, <1>6 DEF UsersRoute
<1>7. CASE NewToken(n)
  BY <1>2, <1>3, <1>7 DEF NewToken
<1>8. CASE CreateRoute(n)
  BY <1>1, <1>2, <1>8 DEF CreateRoute
<1>9. CASE JoinRoute(n)
  BY <1>1, <1>2, <1>9 DEF JoinRoute
<1>10. CASE InstallRoute(n)
  BY <1>1, <1>2, <1>10 DEF InstallRoute
<1>11. CASE InstantiateRoute(n)
  BY <1>1, <1>2, <1>11 DEF InstantiateRoute
<1> QED
  BY <1>4, <1>5, <1>6, <1>7, <1>8, <1>9, <1>10, <1>11 DEF Start

--------------------------------------------------------------------------------
(* The types of what every handler has, and of the rest, apart from each other. *)
HandlersTyped ==
  /\ pc \in [Handlers -> Labels]
  /\ route \in [Handlers -> UserRoutes \cup {"none"}]
  /\ user \in [Handlers -> Users]
  /\ targets \in [Handlers -> SUBSET Peers]

HubsTyped ==
  /\ asked \in [Handlers -> SUBSET Peers]
  /\ refused \in [Handlers -> BOOLEAN]
  /\ hubs \in [Handlers -> [Peers -> {"off", "waiting", "silent", "reported"}]]
  /\ \A n \in Handlers : pc[n] # "joining" => hubs[n] = NoHubs /\ asked[n] = {}

SystemTyped ==
  /\ enrolled \subseteq registered /\ registered \subseteq Users
  /\ regists \in [Users -> Nat]
  /\ {created, instantiated} \subseteq BOOLEAN
  /\ joined \subseteq Peers /\ installed \subseteq Peers
  /\ faults \in 0 .. MaxFaults
  /\ tokens \subseteq {"administrator", "user"} \X Users
  /\ instantiations \in Nat

(* A handler that leaves, or goes to another label, keeps the types of the locals. *)
LEMMA LeaveTyped ==
  ASSUME HandlersTyped, NEW n \in Handlers, Leave(n)
  PROVE  HandlersTyped' /\ pc'[n] = "idle" /\ \A m \in Handlers \ {n} : pc'[m] = pc[m]
  BY AnyUserExists DEF HandlersTyped, Leave, Labels

(* A handler that goes on keeps its types and moves nobody else. *)
LEMMA GotoTyped ==
  ASSUME HandlersTyped, NEW n \in Handlers, NEW to \in Labels, Goto(n, to)
  PROVE  HandlersTyped' /\ pc'[n] = to /\ \A m \in Handlers \ {n} : pc'[m] = pc[m]
  BY DEF HandlersTyped, Goto, locals

(* A route that is taken keeps the types and moves nobody else. *)
LEMMA BeginTyped ==
  ASSUME HandlersTyped, NEW n \in Handlers, NEW to \in Labels,
         NEW r \in UserRoutes \cup {"none"}, NEW u \in Users, NEW ts \in SUBSET Peers,
         Begin(n, to, r, u, ts)
  PROVE  HandlersTyped' /\ pc'[n] = to /\ \A m \in Handlers \ {n} : pc'[m] = pc[m]
  BY DEF HandlersTyped, Begin

(* A fault is counted within its bound. *)
LEMMA FaultTyped ==
  ASSUME faults \in 0 .. MaxFaults, Fault \/ UNCHANGED faults
  PROVE  faults' \in 0 .. MaxFaults
  BY GatewayAssumption DEF Fault

(* The initial state has the types. *)
LEMMA TypeInit == Init => TypeOK
<1> SUFFICES ASSUME Init PROVE TypeOK
  OBVIOUS
<1>1. 0 \in 0 .. MaxFaults
  BY GatewayAssumption
<1> QED
  BY <1>1, AnyUserExists DEF Init, TypeOK, Labels, NoHubs

(* TypeOK is the conjunction of its parts. *)
LEMMA TypeParts == TypeOK <=> HandlersTyped /\ HubsTyped /\ SystemTyped
  BY DEF TypeOK, HandlersTyped, HubsTyped, SystemTyped

(* A handler that was not joining keeps the types of the hubs, wherever it goes. *)
LEMMA HubsUntouched ==
  ASSUME HubsTyped, UNCHANGED joins, NEW n \in Handlers, pc[n] # "joining",
         \A m \in Handlers \ {n} : pc'[m] = pc[m]
  PROVE  HubsTyped'
  BY DEF HubsTyped, joins

(* The streams of a join that ends are shut down. *)
LEMMA DisconnectTyped ==
  ASSUME HubsTyped, NEW n \in Handlers, Disconnect(n),
         \A m \in Handlers \ {n} : pc'[m] = pc[m]
  PROVE  HubsTyped' /\ \E some \in SUBSET Peers : joined' = joined \cup some
<1>1. NoHubs \in [Peers -> {"off", "waiting", "silent", "reported"}]
  BY DEF NoHubs
<1> HIDE DEF NoHubs
<1>2. asked[n] \in SUBSET Peers
  BY DEF HubsTyped
<1> QED
  BY <1>1, <1>2 DEF HubsTyped, Disconnect

(* Where a handler waits with hubs or peers that were asked, it is joining. *)
LEMMA OnlyJoining ==
  ASSUME HubsTyped, NEW n \in Handlers, NEW p \in Peers,
         p \in asked[n] \/ hubs[n][p] # "off"
  PROVE  pc[n] = "joining"
  BY DEF HubsTyped, NoHubs

--------------------------------------------------------------------------------
(* The steps of the routes that hand out tokens keep the types. *)
LEMMA IdentityTyped ==
  ASSUME TypeOK, WritersApart, NEW n \in Handlers, Load(n) \/ Register(n) \/ Enrol(n) \/ Regist(n)
  PROVE  TypeOK'
<1>1. HandlersTyped /\ HubsTyped /\ SystemTyped
  BY TypeParts
<1>2. UNCHANGED joins /\ pc[n] # "joining"
  BY DEF Load, Register, Enrol, Regist
<1>3. HandlersTyped' /\ \A m \in Handlers \ {n} : pc'[m] = pc[m]
  <2>1. Leave(n) \/ \E to \in Labels : Goto(n, to)
    BY DEF Load, Register, Enrol, Regist, CallOut, Known, New, Token, Finish, Labels
  <2> QED
    BY <1>1, <2>1, LeaveTyped, GotoTyped
<1>4. HubsTyped'
  BY <1>1, <1>2, <1>3, HubsUntouched
<1>5. SystemTyped'
  <2>1. user[n] \in Users /\ faults \in 0 .. MaxFaults /\ Role(n) \in {"administrator", "user"}
    BY <1>1 DEF HandlersTyped, SystemTyped, Role
  <2>2. faults' \in 0 .. MaxFaults
    <3>1. Fault \/ UNCHANGED faults
      BY DEF Load, Register, Enrol, Regist, CallOut
    <3> QED
      BY <2>1, <3>1, FaultTyped
  <2>3. /\ tokens' \in {tokens, tokens \cup {<<Role(n), user[n]>>}}
        /\ UNCHANGED <<network, instantiations>>
    BY DEF Load, Register, Enrol, Regist, CallOut, Known, New, Token, Finish, histories
  <2>4. /\ registered' \in {registered, registered \cup {user[n]}}
        /\ enrolled' = enrolled \/ (registered' = registered /\ enrolled' = enrolled \cup {user[n]})
        /\ regists' \in {regists, [regists EXCEPT ![user[n]] = @ + 1]}
    BY DEF Load, Register, Enrol, Regist, CallOut, identity
  <2>5. enrolled' # enrolled => user[n] \in registered
    BY DEF Load, Register, Enrol, Regist, CallOut, WritersApart, identity
  <2> QED
    BY <1>1, <2>1, <2>2, <2>3, <2>4, <2>5 DEF SystemTyped, network
<1> QED
  BY <1>3, <1>4, <1>5
     DEF TypeOK, HandlersTyped, HubsTyped, SystemTyped

(* The steps of the other routes keep them. *)
LEMMA ChannelTyped ==
  ASSUME TypeOK, NEW n \in Handlers,
         Create(n) \/ Install(n) \/ Endorse(n) \/ Commit(n) \/ InstantiateAnswer(n)
  PROVE  TypeOK'
<1>1. HandlersTyped /\ HubsTyped /\ SystemTyped
  BY TypeParts
<1>2. UNCHANGED <<joins, identity>> /\ pc[n] # "joining"
  BY DEF Create, Install, Endorse, Commit, InstantiateAnswer
<1>3. HandlersTyped' /\ \A m \in Handlers \ {n} : pc'[m] = pc[m]
  <2>1. CASE pc' = [pc EXCEPT ![n] = "order"] /\ UNCHANGED <<route, user>>
             /\ targets' = [targets EXCEPT ![n] = {}]
    BY <1>1, <2>1 DEF HandlersTyped, Labels
  <2>2. CASE Leave(n) \/ \E to \in Labels : Goto(n, to)
    BY <1>1, <2>2, LeaveTyped, GotoTyped
  <2> QED
    BY <2>1, <2>2
       DEF Create, Install, Endorse, Commit, InstantiateAnswer, CallOut, Finish, Labels
<1>4. HubsTyped'
  BY <1>1, <1>2, <1>3, HubsUntouched
<1>5. SystemTyped'
  <2>1. targets[n] \in SUBSET Peers /\ faults \in 0 .. MaxFaults
    BY <1>1 DEF HandlersTyped, SystemTyped
  <2>2. faults' \in 0 .. MaxFaults
    <3>1. Fault \/ UNCHANGED faults
      BY DEF Create, Install, Endorse, Commit, InstantiateAnswer, CallOut
    <3> QED
      BY <2>1, <3>1, FaultTyped
  <2>3. tokens' = tokens /\ instantiations' \in {instantiations, instantiations + 1}
    BY DEF Create, Install, Endorse, Commit, InstantiateAnswer, CallOut, Finish, histories
  <2>4. /\ created' \in {created, TRUE} /\ instantiated' \in {instantiated, TRUE}
        /\ joined' = joined
        /\ \E some \in SUBSET Peers : installed' = installed \cup some
    <3>1. installed = installed \cup {}
      OBVIOUS
    <3> QED
      BY <2>1, <3>1
         DEF Create, Install, Endorse, Commit, InstantiateAnswer, CallOut, network
  <2> QED
    <3>1. installed' \subseteq Peers /\ {created', instantiated'} \subseteq BOOLEAN
      BY <1>1, <2>4 DEF SystemTyped
    <3>2. instantiations' \in Nat
      BY <1>1, <2>3 DEF SystemTyped
    <3> QED
      BY <1>1, <1>2, <2>2, <2>3, <2>4, <3>1, <3>2 DEF SystemTyped, identity
<1> QED
  BY <1>3, <1>4, <1>5
     DEF TypeOK, HandlersTyped, HubsTyped, SystemTyped

(* The steps of a join keep them. *)
LEMMA JoinTyped ==
  ASSUME TypeOK, NEW n \in Handlers,
         \/ SetUpHubs(n) \/ JoinFails(n) \/ JoinAnswer(n)
         \/ \E p \in Peers : PeerJoins(n, p) \/ HubHears(n, p)
  PROVE  TypeOK'
<1>1. HandlersTyped /\ HubsTyped /\ SystemTyped
  BY TypeParts
<1>0. faults \in 0 .. MaxFaults
  BY <1>1 DEF SystemTyped
<1>2. CASE SetUpHubs(n)
  <2>1. SystemTyped'
    <3>1. Fault \/ UNCHANGED faults
      BY <1>2 DEF SetUpHubs
    <3>2. faults' \in 0 .. MaxFaults
      BY <1>0, <3>1, FaultTyped
    <3> QED
      BY <1>1, <1>2, <3>2 DEF SetUpHubs, Finish, SystemTyped, identity, network, histories
  <2>2. CASE Finish(n) /\ UNCHANGED joins
    <3>1. HandlersTyped' /\ HubsTyped'
      BY <1>1, <1>2, <2>2, LeaveTyped, HubsUntouched DEF SetUpHubs, Finish
    <3> QED
      BY <2>1, <3>1 DEF TypeOK, HandlersTyped, HubsTyped, SystemTyped
  <2>3. CASE ~(Finish(n) /\ UNCHANGED joins)
    <3>1. /\ pc' = [pc EXCEPT ![n] = "joining"]
          /\ targets' = [targets EXCEPT ![n] = {}] /\ UNCHANGED <<route, user, refused>>
          /\ hubs' = [hubs EXCEPT ![n] = [q \in Peers |-> "waiting"]]
          /\ asked' = [asked EXCEPT ![n] = targets[n]]
      BY <1>2, <2>3 DEF SetUpHubs
    <3>2. HandlersTyped'
      BY <1>1, <3>1 DEF HandlersTyped, Labels
    <3>3. HubsTyped'
      BY <1>1, <3>1 DEF HandlersTyped, HubsTyped
    <3> QED
      BY <2>1, <3>2, <3>3
         DEF TypeOK, HandlersTyped, HubsTyped, SystemTyped
  <2> QED
    BY <2>2, <2>3
<1>3. ASSUME NEW p \in Peers, PeerJoins(n, p) PROVE TypeOK'
  <2>1. pc[n] = "joining"
    BY <1>1, <1>3, OnlyJoining DEF PeerJoins
  <2>2. HandlersTyped'
    BY <1>1, <1>3 DEF PeerJoins, HandlersTyped, locals
  <2>3. HubsTyped'
    BY <1>1, <1>3, <2>1 DEF PeerJoins, HubsTyped
  <2>4. SystemTyped'
    <3>1. Fault \/ UNCHANGED faults
      BY <1>3 DEF PeerJoins
    <3>2. faults' \in 0 .. MaxFaults
      BY <1>0, <3>1, FaultTyped
    <3>3. joined' \in {joined, joined \cup {p}}
      BY <1>3 DEF PeerJoins
    <3> QED
      BY <1>1, <1>3, <3>2, <3>3 DEF PeerJoins, SystemTyped, identity, histories
  <2> QED
    BY <2>2, <2>3, <2>4
       DEF TypeOK, HandlersTyped, HubsTyped, SystemTyped
<1>4. ASSUME NEW p \in Peers, HubHears(n, p) PROVE TypeOK'
  <2>1. pc[n] = "joining"
    BY <1>1, <1>4, OnlyJoining DEF HubHears, InState
  <2>2. HandlersTyped' /\ SystemTyped'
    BY <1>1, <1>4
       DEF HubHears, HandlersTyped, SystemTyped, locals, identity, network, histories
  <2>3. \E q \in {"silent", "reported"} : hubs' = [hubs EXCEPT ![n][p] = q]
    BY <1>4 DEF HubHears
  <2>4. HubsTyped'
    BY <1>1, <1>4, <2>1, <2>3 DEF HubHears, HubsTyped
  <2> QED
    BY <2>2, <2>4
       DEF TypeOK, HandlersTyped, HubsTyped, SystemTyped
<1>5. CASE JoinFails(n) \/ JoinAnswer(n)
  <2>1. HandlersTyped' /\ \A m \in Handlers \ {n} : pc'[m] = pc[m]
    BY <1>1, <1>5, LeaveTyped DEF JoinFails, JoinAnswer, Finish
  <2>2. HubsTyped' /\ \E some \in SUBSET Peers : joined' = joined \cup some
    BY <1>1, <1>5, <2>1, DisconnectTyped DEF JoinFails, JoinAnswer
  <2>3. SystemTyped'
    BY <1>1, <1>5, <2>2 DEF JoinFails, JoinAnswer, Finish, SystemTyped, identity, histories
  <2> QED
    BY <2>1, <2>2, <2>3
       DEF TypeOK, HandlersTyped, HubsTyped, SystemTyped
<1> QED
  BY <1>2, <1>3, <1>4, <1>5

(* A restart empties the handlers. *)
LEMMA RestartTyped == ASSUME TypeOK, Restart PROVE TypeOK'
<1>1. HandlersTyped /\ HubsTyped /\ SystemTyped
  BY TypeParts
<1>2. HandlersTyped' /\ HubsTyped'
  BY AnyUserExists DEF Restart, HandlersTyped, HubsTyped, Labels, NoHubs
<1>3. \E some \in SUBSET Peers : joined' = joined \cup some
  <2>1. UNION {asked[n] : n \in Handlers} \subseteq Peers
    BY <1>1 DEF HubsTyped
  <2> QED
    BY <2>1 DEF Restart
<1>4. faults' \in 0 .. MaxFaults
  BY <1>1, FaultTyped DEF Restart, SystemTyped
<1>5. SystemTyped'
  BY <1>1, <1>3, <1>4 DEF Restart, SystemTyped, identity, histories
<1> QED
  BY <1>2, <1>5 DEF TypeOK, HandlersTyped, HubsTyped, SystemTyped

(* A request that begins changes the types of nothing. *)
LEMMA BeginKeepsTypes ==
  ASSUME TypeOK, NEW n \in Handlers, Start(n)
  PROVE  TypeOK'
<1>1. HandlersTyped /\ HubsTyped /\ SystemTyped
  BY TypeParts
<1>2. PICK to \in {"load", "create", "join", "install", "instantiate"},
           r \in UserRoutes \cup {"none"}, u \in Users, ts \in SUBSET Peers :
             Begin(n, to, r, u, ts)
  BY StartBegins
<1>3. to \in Labels
  BY DEF Labels
<1>4. HandlersTyped' /\ \A m \in Handlers \ {n} : pc'[m] = pc[m]
  BY <1>1, <1>2, <1>3, BeginTyped
<1>5. HubsTyped'
  BY <1>1, <1>2, <1>4, HubsUntouched DEF Begin
<1>6. SystemTyped'
  BY <1>1, <1>2 DEF Begin, SystemTyped, identity, network, histories
<1> QED
  BY <1>4, <1>5, <1>6 DEF TypeOK, HandlersTyped, HubsTyped, SystemTyped

(* Every step keeps the types. *)
LEMMA TypeStep == TypeOK /\ WritersApart /\ [Next]_vars => TypeOK'
<1> SUFFICES ASSUME TypeOK, WritersApart, [Next]_vars PROVE TypeOK'
  OBVIOUS
<1>1. ASSUME NEW n \in Handlers, Start(n) PROVE TypeOK'
  BY <1>1, BeginKeepsTypes
<1>2. ASSUME NEW n \in Handlers, Load(n) \/ Register(n) \/ Enrol(n) \/ Regist(n)
      PROVE  TypeOK'
  BY <1>2, IdentityTyped
<1>3. ASSUME NEW n \in Handlers,
             Create(n) \/ Install(n) \/ Endorse(n) \/ Commit(n) \/ InstantiateAnswer(n)
      PROVE  TypeOK'
  BY <1>3, ChannelTyped
<1>4. ASSUME NEW n \in Handlers,
             \/ SetUpHubs(n) \/ JoinFails(n) \/ JoinAnswer(n)
             \/ \E p \in Peers : PeerJoins(n, p) \/ HubHears(n, p)
      PROVE  TypeOK'
  BY <1>4, JoinTyped
<1>5. CASE Restart
  BY <1>5, RestartTyped
<1>6. CASE UNCHANGED vars
  BY <1>6 DEF vars, identity, network, locals, joins, histories, TypeOK
<1> QED
  BY <1>1, <1>2, <1>3, <1>4, <1>5, <1>6
     DEF Next, Continue, HubFails, HubTimesOut, InState

--------------------------------------------------------------------------------
(* Writers stay apart in steps that end at no label where a user is written, whatever
   else is registered. *)
LEMMA WritersUntouched ==
  ASSUME WritersApart, registered \subseteq registered', UNCHANGED <<enrolled, regists>>,
         \A m \in Handlers : Writing(m)' => UNCHANGED <<pc[m], user[m]>>
  PROVE  WritersApart'
  BY DEF WritersApart, Writing, RegistOnce

(* A handler that leaves, and one that goes elsewhere, leaves the others as they are. *)
LEMMA OthersStay ==
  ASSUME HandlersTyped, NEW n \in Handlers, NEW to,
         (Leave(n) /\ to = "idle") \/ (pc' = [pc EXCEPT ![n] = to] /\ UNCHANGED user)
  PROVE  pc'[n] = to /\ \A m \in Handlers \ {n} : UNCHANGED <<pc[m], user[m]>>
  BY DEF HandlersTyped, Leave

(* A handler that ends, or goes on to code that does not write, leaves the writers apart. *)
LEMMA WritersLeft ==
  ASSUME HandlersTyped, WritersApart,
         registered \subseteq registered', UNCHANGED <<enrolled, regists>>,
         NEW n \in Handlers, NEW to, to \notin {"enrol", "regist"},
         (Leave(n) /\ to = "idle") \/ (pc' = [pc EXCEPT ![n] = to] /\ UNCHANGED user)
  PROVE  WritersApart'
  BY OthersStay, WritersUntouched DEF Writing

(* Where a name is registered, enrolled and written: the one handler that registered it
   goes through the three. *)
LEMMA WritersStep ==
  ASSUME TypeOK, WritersApart, NEW n \in Handlers,
         Load(n) \/ Register(n) \/ Enrol(n) \/ Regist(n)
  PROVE  WritersApart'
<1>1. HandlersTyped /\ SystemTyped /\ user[n] \in Users
  BY TypeParts DEF HandlersTyped
<1>2. CASE registered \subseteq registered' /\ UNCHANGED <<enrolled, regists>> /\ Leave(n)
  BY <1>1, <1>2, WritersLeft
<1>3. CASE Load(n)
  <2>1. CASE Goto(n, "register")
    <3>1. /\ pc' = [pc EXCEPT ![n] = "register"] /\ UNCHANGED user
          /\ registered \subseteq registered' /\ UNCHANGED <<enrolled, regists>>
      BY <1>3, <2>1 DEF Load, Goto, identity, locals
    <3> QED
      BY <1>1, <3>1, WritersLeft
  <2> QED
    BY <1>2, <1>3, <2>1 DEF Load, Known, New, Token, Finish, identity
<1>4. CASE Register(n)
  <2>1. CASE Goto(n, "enrol") /\ user[n] \notin registered
             /\ registered' = registered \cup {user[n]}
    <3>1. pc'[n] = "enrol" /\ user' = user /\ \A m \in Handlers \ {n} : UNCHANGED pc[m]
      BY <1>1, <2>1 DEF HandlersTyped, Goto, locals
    <3>2. UNCHANGED <<enrolled, regists>> /\ user[n] \notin enrolled
      BY <1>1, <1>4, <2>1 DEF Register, SystemTyped
    <3>3. \A m \in Handlers \ {n} : Writing(m) => user[m] # user[n]
      BY <1>1, <2>1 DEF WritersApart, Writing, SystemTyped
    <3> QED
      BY <2>1, <3>1, <3>2, <3>3 DEF WritersApart, Writing, RegistOnce
  <2> QED
    BY <1>2, <1>4, <2>1 DEF Register, CallOut, Finish
<1>5. CASE Enrol(n)
  <2>1. pc[n] = "enrol" /\ UNCHANGED <<registered, regists>>
    BY <1>5 DEF Enrol
  <2>2. user[n] \in registered \ enrolled /\ regists[user[n]] = 0
    BY <1>1, <2>1 DEF WritersApart
  <2>3. \A m \in Handlers \ {n} : Writing(m) => user[m] # user[n]
    BY <2>1 DEF WritersApart, Writing
  <2>4. CASE enrolled' = enrolled \cup {user[n]} /\ Leave(n)
    <3>1. pc'[n] = "idle" /\ \A m \in Handlers \ {n} : UNCHANGED <<pc[m], user[m]>>
      BY <1>1, <2>4, OthersStay
    <3> QED
      BY <2>1, <2>2, <2>3, <2>4, <3>1 DEF WritersApart, Writing, RegistOnce
  <2>5. CASE enrolled' = enrolled \cup {user[n]} /\ Goto(n, "regist")
    <3>1. pc'[n] = "regist" /\ user' = user /\ \A m \in Handlers \ {n} : UNCHANGED pc[m]
      BY <1>1, <2>5 DEF HandlersTyped, Goto, locals
    <3> QED
      BY <2>1, <2>2, <2>3, <2>5, <3>1 DEF WritersApart, Writing, RegistOnce
  <2> QED
    BY <1>2, <1>5, <2>1, <2>4, <2>5 DEF Enrol, New, Token, Finish
<1>6. CASE Regist(n)
  <2>1. pc[n] = "regist" /\ UNCHANGED <<registered, enrolled>> /\ Leave(n)
    BY <1>6 DEF Regist, CallOut, Token, Finish
  <2>2. user[n] \in enrolled /\ regists[user[n]] = 0
    BY <2>1 DEF WritersApart
  <2>3. \A m \in Handlers \ {n} : Writing(m) => user[m] # user[n]
    BY <2>1 DEF WritersApart, Writing
  <2>4. pc'[n] = "idle" /\ \A m \in Handlers \ {n} : UNCHANGED <<pc[m], user[m]>>
    BY <1>1, <2>1, OthersStay
  <2>5. CASE regists' = [regists EXCEPT ![user[n]] = @ + 1]
    <3>1. regists'[user[n]] = 1 /\ \A u \in Users \ {user[n]} : regists'[u] = regists[u]
      BY <1>1, <2>2, <2>5 DEF SystemTyped
    <3>2. \A m \in Handlers : user[m] \in Users
      BY <1>1 DEF HandlersTyped
    <3> QED
      BY <2>1, <2>2, <2>3, <2>4, <3>1, <3>2 DEF WritersApart, Writing, RegistOnce
  <2> QED
    BY <1>2, <1>6, <2>1, <2>5 DEF Regist, CallOut
<1> QED
  BY <1>3, <1>4, <1>5, <1>6

(* The other steps write no user. *)
LEMMA WritersElsewhere ==
  ASSUME TypeOK, WritersApart, NEW n \in Handlers,
         \/ Start(n)
         \/ Create(n) \/ Install(n) \/ Endorse(n) \/ Commit(n) \/ InstantiateAnswer(n)
         \/ SetUpHubs(n) \/ JoinFails(n) \/ JoinAnswer(n)
         \/ \E p \in Peers : PeerJoins(n, p) \/ HubHears(n, p)
  PROVE  WritersApart'
<1>1. HandlersTyped
  BY TypeParts
<1>2. CASE Start(n)
  <2>1. PICK to \in {"load", "create", "join", "install", "instantiate"},
             r \in UserRoutes \cup {"none"}, u \in Users, ts \in SUBSET Peers :
               Begin(n, to, r, u, ts)
    BY <1>2, StartBegins
  <2>2. pc'[n] = to /\ \A m \in Handlers \ {n} : UNCHANGED <<pc[m], user[m]>>
    BY <1>1, <2>1 DEF Begin, HandlersTyped
  <2> QED
    BY <2>1, <2>2, WritersUntouched DEF Begin, Writing, identity
<1>3. CASE ~Start(n)
  <2>1. UNCHANGED identity
    BY <1>3 DEF Create, Install, Endorse, Commit, InstantiateAnswer, SetUpHubs, JoinFails,
                JoinAnswer, PeerJoins, HubHears
  <2>2. CASE UNCHANGED <<pc, user>>
    BY <2>1, <2>2, WritersUntouched DEF identity
  <2>3. CASE Leave(n)
    BY <1>1, <2>1, <2>3, WritersLeft DEF identity
  <2>4. CASE \E to \in {"order", "valid", "invalid", "joining"} :
               pc' = [pc EXCEPT ![n] = to] /\ UNCHANGED user
    BY <1>1, <2>1, <2>4, WritersLeft DEF identity
  <2> QED
    BY <1>3, <2>2, <2>3, <2>4
       DEF Create, Install, Endorse, Commit, InstantiateAnswer, SetUpHubs, JoinFails,
           JoinAnswer, PeerJoins, HubHears, CallOut, Finish, Goto, locals
<1> QED
  BY <1>2, <1>3

(* No handler enrols or registers at the start. *)
LEMMA WritersInit == Init => WritersApart
  BY DEF Init, WritersApart, Writing, RegistOnce

(* Handlers that write for one user stay apart: each has taken its user before. *)
LEMMA WritersKept == TypeOK /\ WritersApart /\ [Next]_vars => WritersApart'
<1> SUFFICES ASSUME TypeOK, WritersApart, [Next]_vars PROVE WritersApart'
  OBVIOUS
<1>1. CASE Restart
  BY <1>1 DEF Restart, WritersApart, Writing, RegistOnce, identity
<1>2. CASE UNCHANGED vars
  BY <1>2, WritersUntouched DEF vars, identity, locals
<1> QED
  BY <1>1, <1>2, WritersStep, WritersElsewhere
     DEF Next, Continue, HubFails, HubTimesOut

--------------------------------------------------------------------------------
(* Every reachable state has the types, and writers are apart in it. *)
LEMMA Reachable == Spec => [](TypeOK /\ WritersApart)
  BY TypeInit, TypeStep, WritersInit, WritersKept, PTL DEF Spec

(* The variables have their types, always; among them, that who is enrolled was
   registered, and that hubs and peers are waited for by joining handlers only. *)
THEOREM TypeCorrect == Spec => []TypeOK
  BY Reachable, PTL

(* A user is written to the ledger at most once (app.js:681), through any interleaving
   of requests for it, lost answers and restarts. *)
THEOREM WrittenOnce == Spec => []RegistOnce
<1>1. WritersApart => RegistOnce
  BY DEF WritersApart
<1> QED
  BY <1>1, Reachable, PTL

--------------------------------------------------------------------------------
(* No step takes a user out of the store, and a token is only added for one in it. *)
LEMMA TokensStep ==
  ASSUME TypeOK, WritersApart, TokensWork, [Next]_vars
  PROVE  TokensWork'
<1>1. CASE UNCHANGED <<enrolled, tokens>>
  BY <1>1 DEF TokensWork
<1>2. ASSUME NEW n \in Handlers, Start(n) PROVE UNCHANGED <<enrolled, tokens>>
  BY <1>2, StartBegins DEF Begin, identity, histories
<1>3. ASSUME NEW n \in Handlers, Load(n) \/ Register(n) \/ Enrol(n) \/ Regist(n)
      PROVE  TokensWork'
  <2>1. enrolled \subseteq enrolled'
    BY <1>3 DEF Load, Register, Enrol, Regist, identity
  <2>2. tokens' = tokens \/ (tokens' = tokens \cup {<<Role(n), user[n]>>} /\ user[n] \in enrolled')
    <3>1. pc[n] = "regist" => user[n] \in enrolled
      BY DEF WritersApart
    <3> QED
      BY <1>3, <3>1 DEF Load, Register, Enrol, Regist, CallOut, Known, New, Token, Finish,
                        identity, histories
  <2>3. <<Role(n), user[n]>>[2] = user[n]
    OBVIOUS
  <2> QED
    BY <2>1, <2>2, <2>3 DEF TokensWork
<1>4. ASSUME NEW n \in Handlers,
             \/ Create(n) \/ Install(n) \/ Endorse(n) \/ Commit(n) \/ InstantiateAnswer(n)
             \/ SetUpHubs(n) \/ JoinFails(n) \/ JoinAnswer(n)
             \/ \E p \in Peers : PeerJoins(n, p) \/ HubHears(n, p)
      PROVE  UNCHANGED <<enrolled, tokens>>
  BY <1>4 DEF Create, Install, Endorse, Commit, InstantiateAnswer, SetUpHubs, JoinFails,
              JoinAnswer, PeerJoins, HubHears, CallOut, Finish, identity, histories
<1>5. CASE Restart
  BY <1>1, <1>5 DEF Restart, identity, histories
<1>6. CASE UNCHANGED vars
  BY <1>1, <1>6 DEF vars, identity, histories
<1> QED
  BY <1>1, <1>2, <1>3, <1>4, <1>5, <1>6 DEF Next, Continue, HubFails, HubTimesOut

(* A token is only answered for a user of the store, and users stay there
   (helper.js:90). *)
THEOREM TokensAlwaysWork == Spec => []TokensWork
<1>1. Init => TokensWork
  BY DEF Init, TokensWork
<1>2. TypeOK /\ WritersApart /\ TokensWork /\ [Next]_vars => TokensWork'
  BY TokensStep
<1> QED
  BY <1>1, <1>2, Reachable, PTL DEF Spec

--------------------------------------------------------------------------------
(* What a hub that has reported stands for: its peer is in the channel.  Peers do not
   leave it. *)
HubsTell == \A n \in Handlers, p \in Peers : hubs[n][p] = "reported" => p \in joined

(* Every step keeps what event hubs say of the peers they listen to. *)
LEMMA HubsStep ==
  ASSUME TypeOK, HubsTell, [Next]_vars
  PROVE  HubsTell'
<1>1. HubsTyped
  BY TypeParts
<1>2. CASE joined \subseteq joined' /\ UNCHANGED hubs
  BY <1>2 DEF HubsTell
<1>3. ASSUME NEW n \in Handlers, Disconnect(n) PROVE HubsTell'
  BY <1>1, <1>3 DEF Disconnect, HubsTell, HubsTyped, NoHubs
<1>4. ASSUME NEW n \in Handlers, SetUpHubs(n) PROVE HubsTell'
  BY <1>1, <1>4 DEF SetUpHubs, HubsTell, HubsTyped, network, joins
<1>5. ASSUME NEW n \in Handlers, NEW p \in Peers, HubHears(n, p) PROVE HubsTell'
  <2>1. joined' = joined /\ \/ p \in joined /\ hubs' = [hubs EXCEPT ![n][p] = "reported"]
                            \/ hubs' = [hubs EXCEPT ![n][p] = "silent"]
    BY <1>5 DEF HubHears, network
  <2>2. CASE p \in joined /\ hubs' = [hubs EXCEPT ![n][p] = "reported"]
    BY <1>1, <2>1, <2>2 DEF HubsTell, HubsTyped
  <2>3. CASE hubs' = [hubs EXCEPT ![n][p] = "silent"]
    BY <1>1, <2>1, <2>3 DEF HubsTell, HubsTyped
  <2> QED
    BY <2>1, <2>2, <2>3
<1>6. ASSUME NEW n \in Handlers,
             \/ Start(n) \/ Load(n) \/ Register(n) \/ Enrol(n) \/ Regist(n)
             \/ Create(n) \/ Install(n) \/ Endorse(n) \/ Commit(n) \/ InstantiateAnswer(n)
             \/ \E p \in Peers : PeerJoins(n, p)
      PROVE  joined \subseteq joined' /\ UNCHANGED hubs
  BY <1>6, StartBegins
     DEF Begin, Load, Register, Enrol, Regist, Create, Install, Endorse, Commit,
         InstantiateAnswer, PeerJoins, network, joins
<1>7. CASE Restart
  BY <1>7 DEF Restart, HubsTell, NoHubs
<1>8. CASE UNCHANGED vars
  BY <1>2, <1>8 DEF vars, network, joins
<1> QED
  BY <1>2, <1>3, <1>4, <1>5, <1>6, <1>7, <1>8
     DEF Next, Continue, HubFails, HubTimesOut, JoinFails, JoinAnswer

(* A join is answered with success only when all peers of the organisation are in the
   channel (join-channel.js:144), whatever peers were named and whatever other joins
   ran at the same time. *)
THEOREM SuccessMeansAll == Spec => []JoinedMeansAll
<1>1. Init => HubsTell
  BY DEF Init, HubsTell, NoHubs
<1>2. TypeOK /\ HubsTell /\ [Next]_vars => HubsTell'
  BY HubsStep
<1>3. TypeOK /\ HubsTell => JoinedMeansAll
  BY DEF TypeOK, HubsTell, JoinedMeansAll, Success, Settled, InState
<1> QED
  BY <1>1, <1>2, <1>3, Reachable, PTL DEF Spec

--------------------------------------------------------------------------------
(* Of the instantiations that the orderer has ordered one is valid, and while its
   handler waits for the hubs none was answered with success. *)
OneValid ==
  /\ \A n \in Handlers : pc[n] = "valid" =>
       /\ instantiated /\ instantiations = 0
       /\ \A m \in Handlers : pc[m] = "valid" => m = n
  /\ InstantiatedOnce

(* Steps that neither order nor answer an instantiation. *)
LEMMA ValidUntouched ==
  ASSUME OneValid, UNCHANGED <<instantiated, instantiations>>,
         joined \subseteq joined', joined' \subseteq Peers,
         \A m \in Handlers : pc'[m] = "valid" => pc[m] = "valid"
  PROVE  OneValid'
  BY DEF OneValid, InstantiatedOnce

(* Every step keeps the validity of at most one instantiation. *)
LEMMA ValidStep ==
  ASSUME TypeOK, TypeOK', OneValid, [Next]_vars
  PROVE  OneValid'
<1>1. HandlersTyped /\ SystemTyped /\ joined' \subseteq Peers
  BY TypeParts DEF TypeOK
<1>2. ASSUME NEW n \in Handlers, Commit(n) PROVE OneValid'
  <2>1. joined' = joined /\ UNCHANGED instantiations
    BY <1>2 DEF Commit, CallOut, Finish, histories
  <2>2. CASE instantiated' = instantiated /\ \A m \in Handlers : pc'[m] = "valid" => pc[m] = "valid"
    BY <1>1, <2>1, <2>2, ValidUntouched
  <2>3. CASE instantiated' = TRUE /\ instantiated = FALSE
    <3>1. instantiations = 0 /\ \A m \in Handlers : pc[m] # "valid"
      BY <1>1, <2>3 DEF OneValid, InstantiatedOnce, SystemTyped
    <3>2. \A m \in Handlers \ {n} : pc'[m] = pc[m]
      BY <1>1, <1>2 DEF Commit, CallOut, Goto, Finish, Leave, HandlersTyped
    <3> QED
      BY <2>1, <2>3, <3>1, <3>2 DEF OneValid, InstantiatedOnce
  <2>4. instantiated \in BOOLEAN
    BY <1>1 DEF SystemTyped
  <2>5. instantiated' \in {instantiated, TRUE}
    BY <1>2 DEF Commit, CallOut
  <2>6. instantiated => \A m \in Handlers : pc'[m] = "valid" => pc[m] = "valid"
    BY <1>1, <1>2 DEF Commit, CallOut, Goto, Finish, Leave, HandlersTyped
  <2>7. instantiated' = FALSE => \A m \in Handlers : pc'[m] = "valid" => pc[m] = "valid"
    BY <1>1, <1>2 DEF Commit, CallOut, Goto, Finish, Leave, HandlersTyped
  <2> QED
    BY <2>2, <2>3, <2>4, <2>5, <2>6, <2>7
<1>3. ASSUME NEW n \in Handlers, InstantiateAnswer(n) PROVE OneValid'
  <2>1. /\ pc'[n] = "idle" /\ \A m \in Handlers \ {n} : pc'[m] = pc[m]
        /\ UNCHANGED <<instantiated, joined>>
    BY <1>1, <1>3 DEF InstantiateAnswer, Leave, HandlersTyped, network
  <2>2. CASE UNCHANGED instantiations
    BY <1>1, <2>1, <2>2, ValidUntouched
  <2>3. CASE pc[n] = "valid" /\ Peers \subseteq joined /\ instantiations' = instantiations + 1
    <3>1. instantiations = 0 /\ instantiated /\ \A m \in Handlers : pc[m] = "valid" => m = n
      BY <2>3 DEF OneValid
    <3>2. joined' = Peers
      BY <1>1, <2>1, <2>3 DEF SystemTyped
    <3>3. \A m \in Handlers : pc'[m] # "valid"
      BY <2>1, <3>1
    <3> QED
      BY <2>1, <2>3, <3>1, <3>2, <3>3 DEF OneValid, InstantiatedOnce
  <2> QED
    BY <1>3, <2>2, <2>3 DEF InstantiateAnswer
<1>4. ASSUME NEW n \in Handlers,
             \/ Start(n) \/ Load(n) \/ Register(n) \/ Enrol(n) \/ Regist(n)
             \/ Create(n) \/ Install(n) \/ Endorse(n)
             \/ SetUpHubs(n) \/ JoinFails(n) \/ JoinAnswer(n)
             \/ \E p \in Peers : PeerJoins(n, p) \/ HubHears(n, p)
      PROVE  OneValid'
  <2>1. UNCHANGED <<instantiated, instantiations>> /\ joined \subseteq joined'
    BY <1>4, StartBegins
       DEF Begin, Load, Register, Enrol, Regist, Create, Install, Endorse, SetUpHubs,
           JoinFails, JoinAnswer, PeerJoins, HubHears, CallOut, Known, New, Token, Finish,
           Disconnect, Goto, network, histories
  <2>2. pc' = pc \/ \E to \in Labels \ {"valid"} : pc' = [pc EXCEPT ![n] = to]
    BY <1>4, StartBegins
       DEF Begin, Load, Register, Enrol, Regist, Create, Install, Endorse, SetUpHubs,
           JoinFails, JoinAnswer, PeerJoins, HubHears, CallOut, Known, New, Token, Finish,
           Leave, Goto, Labels
  <2>3. \A m \in Handlers : pc'[m] = "valid" => pc[m] = "valid"
    BY <1>1, <2>2 DEF HandlersTyped
  <2> QED
    BY <1>1, <2>1, <2>3, ValidUntouched
<1>5. CASE Restart
  BY <1>1, <1>5, ValidUntouched DEF Restart, histories
<1>6. CASE UNCHANGED vars
  BY <1>1, <1>6, ValidUntouched DEF vars, network, histories
<1> QED
  BY <1>2, <1>3, <1>4, <1>5, <1>6 DEF Next, Continue, HubFails, HubTimesOut

(* Of instantiations that run at once at most one is answered with success, after the
   chaincode was instantiated and with all peers in the channel. *)
THEOREM InstantiatedByOne == Spec => []InstantiatedOnce
<1>1. Init => OneValid
  BY DEF Init, OneValid, InstantiatedOnce
<1>2. TypeOK /\ TypeOK' /\ OneValid /\ [Next]_vars => OneValid'
  BY ValidStep
<1>3. OneValid => InstantiatedOnce
  BY DEF OneValid
<1> QED
  BY <1>1, <1>2, <1>3, Reachable, PTL DEF Spec

================================================================================
