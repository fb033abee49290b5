--------------------------- MODULE TransactionsProofs ---------------------------
(***************************************************************************)
(* Proofs about Transactions, for any number of calls, peers and keys: its *)
(* types, that what is ordered was endorsed by all its targets, that an    *)
(* answer of success is visible at every peer, and that of two calls that  *)
(* read the same version of a key one is told that it failed.              *)
(***************************************************************************)
EXTENDS Transactions, FiniteSetTheorems, SequenceTheorems, TLAPS

--------------------------------------------------------------------------------
(* Versions: how many valid transactions of a key are among the first of the ledger. *)
Counted(n, k) == {i \in 1 .. n : ledger[i].valid /\ key[ledger[i].call] = k}

(* A version is the number of the valid transactions before it that write the key. *)
LEMMA VersionIsCount ==
  ASSUME NEW n \in Nat, NEW k
  PROVE  /\ IsFiniteSet(Counted(n, k)) /\ Version(n, k) = Cardinality(Counted(n, k))
         /\ Version(n, k) \in Nat
<1>1. Counted(n, k) \in SUBSET (1 .. n) /\ IsFiniteSet(1 .. n)
  BY FS_Interval DEF Counted
<1>2. IsFiniteSet(Counted(n, k))
  BY <1>1, FS_Subset
<1>3. Version(n, k) = Cardinality(Counted(n, k))
  BY DEF Version, Counted
<1> QED
  BY <1>2, <1>3, FS_CardinalityType

(* A valid transaction makes a new version of its key, which later ones keep. *)
LEMMA VersionGrows ==
  ASSUME NEW n \in Nat, NEW k, NEW i \in 1 .. n,
         ledger[i].valid, key[ledger[i].call] = k
  PROVE  Version(i - 1, k) < Version(n, k)
<1>1. i - 1 \in Nat /\ i \in Nat /\ 1 .. (i - 1) \subseteq 1 .. n
  OBVIOUS
<1> DEFINE before == Counted(i - 1, k)
<1>2. i \notin before /\ before \cup {i} \subseteq Counted(n, k)
  BY <1>1 DEF Counted
<1>3. IsFiniteSet(before) /\ Version(i - 1, k) = Cardinality(before) /\ Version(i - 1, k) \in Nat
  BY <1>1, VersionIsCount
<1>4. IsFiniteSet(Counted(n, k)) /\ Version(n, k) = Cardinality(Counted(n, k)) /\ Version(n, k) \in Nat
  BY VersionIsCount
<1> HIDE DEF before
<1>5. Cardinality(before \cup {i}) = Cardinality(before) + 1
  BY <1>2, <1>3, FS_AddElement
<1>6. Cardinality(before \cup {i}) <= Cardinality(Counted(n, k))
  BY <1>2, <1>4, FS_Subset
<1> QED
  BY <1>3, <1>4, <1>5, <1>6

(* The versions of the past do not change when the ledger grows. *)
LEMMA VersionStays ==
  ASSUME NEW n \in Nat, NEW k, UNCHANGED key, \A i \in 1 .. n : ledger'[i] = ledger[i]
  PROVE  Version(n, k)' = Version(n, k)
<1>1. {i \in 1 .. n : ledger'[i].valid /\ key'[ledger'[i].call] = k} =
        {i \in 1 .. n : ledger[i].valid /\ key[ledger[i].call] = k}
  OBVIOUS
<1> QED
  BY <1>1 DEF Version

--------------------------------------------------------------------------------
(* The parts of TypeOK: the calls, what was endorsed, and the network. *)
CallsTyped ==
  /\ pc \in [Calls -> {"new", "endorsing", "waiting", "done"}]
  /\ answer \in [Calls -> {"none", "success", "error", "timeout"}]
  /\ service \subseteq Calls
  /\ key \in [Calls -> Keys]
  /\ targets \in [Calls -> TargetSets]

RepliesTyped ==
  /\ read \in [Calls -> SUBSET Endorsement]
  /\ refusing \in [Calls -> SUBSET Peers]

HubsTyped ==
  /\ hub \in [Calls -> [Peers -> {"off", "connecting", "open", "valid"}]]
  /\ reply \in [Calls -> {"none", "SUCCESS", "refused"}]

NetworkTyped ==
  /\ inFlight \subseteq Calls
  /\ ledger \in Seq(Entry)
  /\ height \in [Peers -> Nat]
  /\ \A p \in Peers : height[p] <= Len(ledger)

(* TypeOK is the conjunction of its parts. *)
LEMMA TypeParts == TypeOK <=> CallsTyped /\ RepliesTyped /\ HubsTyped /\ NetworkTyped
  BY DEF TypeOK, CallsTyped, RepliesTyped, HubsTyped, NetworkTyped

(* A call goes on and is answered within the types. *)
LEMMA GoesOn ==
  ASSUME CallsTyped, UNCHANGED request, NEW c \in Calls,
         \/ UNCHANGED pc
         \/ \E from, to \in {"new", "endorsing", "waiting", "done"} : Goto(c, from, to),
         UNCHANGED answer \/ \E a \in {"success", "error", "timeout"} : Answer(c, a)
  PROVE  CallsTyped'
<1>1. pc' \in [Calls -> {"new", "endorsing", "waiting", "done"}]
  BY DEF CallsTyped, Goto
<1>2. answer' \in [Calls -> {"none", "success", "error", "timeout"}]
  BY DEF CallsTyped, Answer
<1> QED
  BY <1>1, <1>2 DEF CallsTyped, request

(* The end of a call, and an event at one of its hubs, keep the types. *)
LEMMA FinishTyped ==
  ASSUME CallsTyped, HubsTyped, UNCHANGED request, NEW c \in Calls,
         Finish(c, "success") \/ Finish(c, "error")
  PROVE  CallsTyped' /\ HubsTyped'
<1>1. CallsTyped'
  BY GoesOn DEF Finish
<1>2. HubsTyped'
  BY DEF Finish, HubsTyped
<1> QED
  BY <1>1, <1>2

(* An event hub that reports keeps the types. *)
LEMMA ReportTyped ==
  ASSUME CallsTyped, HubsTyped, UNCHANGED request, NEW c \in Calls, NEW p \in Peers,
         NEW valid, Report(c, p, valid)
  PROVE  CallsTyped' /\ HubsTyped'
<1>1. CASE hub' = [hub EXCEPT ![c][p] = "valid"] /\ UNCHANGED <<pc, answer, reply>>
  BY <1>1 DEF CallsTyped, HubsTyped, request
<1> QED
  BY <1>1, FinishTyped DEF Report

(* At the start nobody has called. *)
LEMMA TypeInit == Init => TypeOK
<1> SUFFICES ASSUME Init PROVE TypeOK
  OBVIOUS
<1>1. ledger \in Seq(Entry) /\ Len(ledger) = 0
  BY DEF Init
<1> QED
  BY <1>1 DEF Init, TypeOK

(* The steps of a proposal keep the types ... *)
LEMMA ProposeTyped ==
  ASSUME TypeOK, NEW c \in Calls, Propose(c) \/ CloseConnection(c)
  PROVE  TypeOK'
<1>1. CallsTyped /\ RepliesTyped /\ HubsTyped /\ NetworkTyped
  BY TypeParts
<1>2. CallsTyped'
  <2>1. /\ UNCHANGED request
        /\ \/ UNCHANGED pc
           \/ \E from, to \in {"new", "endorsing", "waiting", "done"} : Goto(c, from, to)
        /\ UNCHANGED answer \/ \E a \in {"success", "error", "timeout"} : Answer(c, a)
    BY DEF Propose, CloseConnection, Start, RejectProposal, Send, SendAndAnswer, Endorse, Goto
  <2> QED
    BY <1>1, <2>1, GoesOn
<1>3. RepliesTyped'
  <2>1. CASE UNCHANGED replies
    BY <1>1, <2>1 DEF RepliesTyped, replies
  <2>2. ASSUME NEW p \in Peers, Endorse(c, p) PROVE RepliesTyped'
    <3>1. QueryChaincode(p, key[c]) \in Nat
      BY <1>1, VersionIsCount DEF QueryChaincode, NetworkTyped
    <3> HIDE DEF QueryChaincode
    <3>2. [peer |-> p, version |-> QueryChaincode(p, key[c])] \in Endorsement
      BY <3>1 DEF Endorsement
    <3> QED
      BY <1>1, <2>2, <3>2 DEF Endorse, RepliesTyped
  <2> QED
    BY <2>1, <2>2 DEF Propose, CloseConnection, Start, RejectProposal, Send, SendAndAnswer
<1>4. HubsTyped'
  BY <1>1 DEF Propose, CloseConnection, Start, RejectProposal, Send, SendAndAnswer, Endorse,
              SetUpHubs, HubsTyped
<1>5. NetworkTyped'
  BY <1>1 DEF Propose, CloseConnection, Start, RejectProposal, Send, SendAndAnswer, Endorse,
              NetworkTyped, network
<1> QED
  BY <1>2, <1>3, <1>4, <1>5 DEF TypeOK, CallsTyped, RepliesTyped, HubsTyped, NetworkTyped

(* ... and so do those of a call that waits, and those of the network. *)
LEMMA AwaitTyped ==
  ASSUME TypeOK, NEW c \in Calls, AwaitCommit(c)
  PROVE  TypeOK'
<1>1. CallsTyped /\ RepliesTyped /\ HubsTyped /\ NetworkTyped
  BY TypeParts
<1>2. UNCHANGED <<request, replies, network>>
  BY DEF AwaitCommit, LoseReply, Resolve, Connect, HubFails, HubTimesOut
<1>3. RepliesTyped' /\ NetworkTyped'
  BY <1>1, <1>2 DEF RepliesTyped, NetworkTyped, replies, network
<1>4. CallsTyped' /\ HubsTyped'
  <2>1. CASE Finish(c, "success") \/ Finish(c, "error")
    BY <1>1, <1>2, <2>1, FinishTyped
  <2>2. ASSUME NEW p \in Peers, Connect(c, p) PROVE CallsTyped' /\ HubsTyped'
    <3>1. CASE hub' = [hub EXCEPT ![c][p] = "open"] /\ UNCHANGED <<pc, answer, reply>>
      BY <1>1, <1>2, <3>1 DEF CallsTyped, HubsTyped, request
    <3>2. CASE \E valid : Report(c, p, valid)
      BY <1>1, <1>2, <3>2, ReportTyped
    <3> QED
      BY <2>2, <3>1, <3>2 DEF Connect
  <2> QED
    BY <2>1, <2>2 DEF AwaitCommit, LoseReply, Resolve, HubFails, HubTimesOut
<1> QED
  BY <1>3, <1>4 DEF TypeOK, CallsTyped, RepliesTyped, HubsTyped, NetworkTyped

(* What is ordered is added to the end of the ledger. *)
LEMMA OrderAppends ==
  ASSUME NetworkTyped, NEW c \in Calls, Order(c)
  PROVE  /\ ledger' \in Seq(Entry) /\ Len(ledger) \in Nat /\ Len(ledger') = Len(ledger) + 1
         /\ \A i \in 1 .. Len(ledger) : ledger'[i] = ledger[i]
         /\ ledger'[Len(ledger) + 1].call = c
         /\ ledger'[Len(ledger) + 1].valid = Valid(c)
<1>1. ledger \in Seq(Entry) /\ ledger' = Append(ledger, [call |-> c, valid |-> Valid(c)])
  BY DEF NetworkTyped, Order
<1>2. Valid(c) \in BOOLEAN
  BY DEF Valid
<1> HIDE DEF Valid
<1>3. [call |-> c, valid |-> Valid(c)] \in Entry
  BY <1>2 DEF Entry
<1> QED
  BY <1>1, <1>3, AppendProperties

(* Every place of the ledger has a call and its validation. *)
LEMMA EntryAt ==
  ASSUME NetworkTyped, NEW i \in 1 .. Len(ledger)
  PROVE  /\ ledger[i].call \in Calls /\ ledger[i].valid \in BOOLEAN
         /\ ledger[i] = [call |-> ledger[i].call, valid |-> ledger[i].valid]
<1>1. ledger[i] \in Entry
  BY DEF NetworkTyped
<1> QED
  BY <1>1 DEF Entry

(* What orderer and peers do keeps the types. *)
LEMMA NetworkTakes ==
  ASSUME TypeOK, \/ \E c \in Calls : Order(c) \/ Reply(c)
                 \/ \E p \in Peers : Commit(p)
  PROVE  TypeOK'
<1>1. CallsTyped /\ RepliesTyped /\ HubsTyped /\ NetworkTyped
  BY TypeParts
<1>2. ASSUME NEW c \in Calls, Order(c) PROVE TypeOK'
  <2>1. CallsTyped' /\ RepliesTyped' /\ HubsTyped'
    BY <1>1, <1>2 DEF Order, CallsTyped, RepliesTyped, HubsTyped, request, replies
  <2>2. \A p \in Peers : height'[p] <= Len(ledger')
    BY <1>1, <1>2, OrderAppends DEF Order, NetworkTyped
  <2>3. NetworkTyped'
    BY <1>1, <1>2, <2>2, OrderAppends DEF Order, NetworkTyped
  <2> QED
    BY <2>1, <2>3 DEF TypeOK, CallsTyped, RepliesTyped, HubsTyped, NetworkTyped
<1>3. ASSUME NEW c \in Calls, Reply(c) PROVE TypeOK'
  <2>1. CallsTyped' /\ RepliesTyped' /\ NetworkTyped'
    BY <1>1, <1>3 DEF Reply, CallsTyped, RepliesTyped, NetworkTyped, request, replies
  <2>2. HubsTyped'
    BY <1>1, <1>3 DEF Reply, HubsTyped
  <2> QED
    BY <2>1, <2>2 DEF TypeOK, CallsTyped, RepliesTyped, HubsTyped, NetworkTyped
<1>4. ASSUME NEW p \in Peers, Commit(p) PROVE TypeOK'
  <2>1. RepliesTyped' /\ UNCHANGED request
    BY <1>1, <1>4 DEF Commit, RepliesTyped, replies
  <2>2. NetworkTyped'
    BY <1>1, <1>4 DEF Commit, NetworkTyped
  <2>3. height[p] + 1 \in 1 .. Len(ledger)
    BY <1>1, <1>4 DEF Commit, NetworkTyped
  <2>4. ledger[height[p] + 1].call \in Calls
    BY <1>1, <2>3, EntryAt
  <2>5. \/ UNCHANGED <<pc, answer, hub, reply>>
        \/ Report(ledger[height[p] + 1].call, p, ledger[height[p] + 1].valid)
    BY <1>4 DEF Commit
  <2>6. CallsTyped' /\ HubsTyped'
    <3>1. CASE UNCHANGED <<pc, answer, hub, reply>>
      BY <1>1, <2>1, <3>1 DEF CallsTyped, HubsTyped, request
    <3> QED
      BY <1>1, <2>1, <2>4, <2>5, <3>1, ReportTyped
  <2> QED
    BY <2>1, <2>2, <2>6 DEF TypeOK, CallsTyped, RepliesTyped, HubsTyped, NetworkTyped
<1> QED
  BY <1>2, <1>3, <1>4

(* Every step keeps the types. *)
LEMMA TypeStep == TypeOK /\ [Next]_vars => TypeOK'
<1> SUFFICES ASSUME TypeOK, [Next]_vars PROVE TypeOK'
  OBVIOUS
<1>1. CASE UNCHANGED vars
  BY <1>1 DEF vars, request, replies, network, TypeOK
<1> QED
  BY <1>1, ProposeTyped, AwaitTyped, NetworkTakes DEF Next

(* The variables have their types, always; no peer is ahead of the ledger. *)
THEOREM TypeCorrect == Spec => []TypeOK
  BY TypeInit, TypeStep, PTL DEF Spec

--------------------------------------------------------------------------------
(* A transaction is sent once, by a call that all its targets have endorsed and that
   asks no more of them. *)
Sent(c) == c \in inFlight \/ Ordered(c) # {}

SentWhole ==
  \A c \in Calls :
    /\ Sent(c) => AllGood(c) /\ pc[c] \in {"waiting", "done"}
    /\ c \in inFlight => Ordered(c) = {}
    /\ \A i, j \in Ordered(c) : i = j

(* Where the ledger and what was endorsed stay the same. *)
LEMMA OrderedStays ==
  ASSUME UNCHANGED ledger, NEW c
  PROVE  Ordered(c)' = Ordered(c)
  BY DEF Ordered

(* Where a call that was sent goes: on, with its endorsements as they were. *)
LEMMA SentGoesOn ==
  ASSUME TypeOK, SentWhole, NEW c \in Calls, pc[c] \in {"waiting", "done"},
         Propose(c) \/ AwaitCommit(c) \/ CloseConnection(c)
  PROVE  /\ UNCHANGED <<read, refusing, targets, inFlight, ledger>>
         /\ pc'[c] \in {"waiting", "done"} /\ \A d \in Calls \ {c} : pc'[d] = pc[d]
<1>1. CallsTyped
  BY TypeParts
<1>2. ~Propose(c)
  BY DEF Propose, Start, RejectProposal, Send, SendAndAnswer, Endorse, Goto
<1>3. CASE CloseConnection(c)
  BY <1>3 DEF CloseConnection, request, replies, network
<1>4. ASSUME NEW valid, NEW p, Report(c, p, valid)
      PROVE  pc'[c] \in {"waiting", "done"} /\ \A d \in Calls \ {c} : pc'[d] = pc[d]
  BY <1>1, <1>4 DEF Report, Finish, Goto, CallsTyped
<1>5. CASE AwaitCommit(c)
  <2>1. UNCHANGED <<read, refusing, targets, inFlight, ledger>>
    BY <1>5 DEF AwaitCommit, LoseReply, Resolve, Connect, HubFails, HubTimesOut, request,
                replies, network
  <2>2. CASE \E p \in Peers : Connect(c, p)
    BY <1>4, <2>1, <2>2 DEF Connect
  <2>3. CASE LoseReply(c) \/ Resolve(c) \/ \E p \in Peers : HubFails(c, p) \/ HubTimesOut(c, p)
    BY <1>1, <2>1, <2>3
       DEF LoseReply, Resolve, HubFails, HubTimesOut, Finish, Goto, CallsTyped
  <2> QED
    BY <1>5, <2>1, <2>2, <2>3 DEF AwaitCommit
<1> QED
  BY <1>2, <1>3, <1>5

(* The other calls stay where they are, with what they have. *)
LEMMA OthersStay ==
  ASSUME TypeOK, NEW c \in Calls, Propose(c) \/ AwaitCommit(c) \/ CloseConnection(c),
         NEW d \in Calls \ {c}
  PROVE  /\ UNCHANGED <<pc[d], read[d], refusing[d], targets, ledger>>
         /\ d \in inFlight' => d \in inFlight
<1>1. CallsTyped /\ RepliesTyped
  BY TypeParts
<1>2. CASE Propose(c) \/ CloseConnection(c)
  BY <1>1, <1>2
     DEF Propose, CloseConnection, Start, RejectProposal, Send, SendAndAnswer, Endorse, Goto,
         CallsTyped, RepliesTyped, request, replies, network
<1>3. ASSUME NEW valid, NEW p, Report(c, p, valid) PROVE UNCHANGED pc[d]
  BY <1>1, <1>3 DEF Report, Finish, Goto, CallsTyped
<1>4. CASE AwaitCommit(c)
  <2>1. UNCHANGED <<read, refusing, targets, inFlight, ledger>>
    BY <1>4 DEF AwaitCommit, LoseReply, Resolve, Connect, HubFails, HubTimesOut, request,
                replies, network
  <2>2. UNCHANGED pc[d]
    BY <1>1, <1>3, <1>4
       DEF AwaitCommit, LoseReply, Resolve, Connect, HubFails, HubTimesOut, Finish, Goto,
           CallsTyped
  <2> QED
    BY <2>1, <2>2
<1> QED
  BY <1>2, <1>4

(* A call that was not sent before is sent with all endorsements, or not. *)
LEMMA NewlySent ==
  ASSUME TypeOK, NEW c \in Calls, ~Sent(c),
         Propose(c) \/ AwaitCommit(c) \/ CloseConnection(c), Sent(c)'
  PROVE  AllGood(c)' /\ pc'[c] = "waiting" /\ Ordered(c)' = {}
<1>1. CallsTyped
  BY TypeParts
<1>2. UNCHANGED ledger
  BY DEF Propose, Start, RejectProposal, Send, SendAndAnswer, Endorse, CloseConnection,
         AwaitCommit, LoseReply, Resolve, Connect, HubFails, HubTimesOut, network
<1>3. Ordered(c)' = {} /\ c \in inFlight'
  BY <1>2, OrderedStays DEF Sent
<1>4. Send(c) \/ SendAndAnswer(c)
  BY <1>3 DEF Sent, Propose, Start, RejectProposal, Endorse, CloseConnection,
              AwaitCommit, LoseReply, Resolve, Connect, HubFails, HubTimesOut, network
<1>5. pc'[c] = "waiting" /\ UNCHANGED <<read, refusing, targets>> /\ AllGood(c)
  BY <1>1, <1>4 DEF Send, SendAndAnswer, Goto, CallsTyped, request, replies
<1> QED
  BY <1>3, <1>5 DEF AllGood, Responded

(* Where a transaction of the ledger is: at the end if it was ordered just now. *)
LEMMA OrderedGrows ==
  ASSUME TypeOK, NEW c \in Calls, Order(c), NEW d \in Calls
  PROVE  Ordered(d)' = IF d = c THEN Ordered(c) \cup {Len(ledger) + 1} ELSE Ordered(d)
<1>1. NetworkTyped
  BY TypeParts
<1>2. /\ Len(ledger) \in Nat /\ Len(ledger') = Len(ledger) + 1
      /\ \A i \in 1 .. Len(ledger) : ledger'[i] = ledger[i]
      /\ ledger'[Len(ledger) + 1].call = c
  BY <1>1, OrderAppends
<1>3. 1 .. Len(ledger') = (1 .. Len(ledger)) \cup {Len(ledger) + 1}
  BY <1>2
<1> QED
  BY <1>2, <1>3 DEF Ordered

(* Every step keeps the endorsements of what is sent. *)
LEMMA SentStep ==
  ASSUME TypeOK, SentWhole, [Next]_vars
  PROVE  SentWhole'
<1>1. CallsTyped /\ NetworkTyped
  BY TypeParts
<1>2. ASSUME NEW c \in Calls, Propose(c) \/ AwaitCommit(c) \/ CloseConnection(c)
      PROVE  SentWhole'
  <2>1. ASSUME NEW d \in Calls \ {c}
        PROVE  /\ Sent(d)' => AllGood(d)' /\ pc'[d] \in {"waiting", "done"}
               /\ d \in inFlight' => Ordered(d)' = {}
               /\ \A i, j \in Ordered(d)' : i = j
    <3>1. /\ UNCHANGED <<pc[d], read[d], refusing[d], targets, ledger>>
          /\ d \in inFlight' => d \in inFlight
      BY <1>2, OthersStay
    <3>2. Ordered(d)' = Ordered(d) /\ AllGood(d)' = AllGood(d)
      BY <3>1 DEF Ordered, AllGood, Responded
    <3> QED
      BY <3>1, <3>2 DEF SentWhole, Sent
  <2>2. /\ Sent(c)' => AllGood(c)' /\ pc'[c] \in {"waiting", "done"}
        /\ c \in inFlight' => Ordered(c)' = {}
        /\ \A i, j \in Ordered(c)' : i = j
    <3>1. CASE Sent(c)
      <4>1. AllGood(c) /\ pc[c] \in {"waiting", "done"}
        BY <3>1 DEF SentWhole
      <4>2. UNCHANGED <<read, refusing, targets, inFlight, ledger>> /\ pc'[c] \in {"waiting", "done"}
        BY <1>2, <4>1, SentGoesOn
      <4>3. Ordered(c)' = Ordered(c) /\ AllGood(c)' = AllGood(c)
        BY <4>2 DEF Ordered, AllGood, Responded
      <4> QED
        BY <4>1, <4>2, <4>3 DEF SentWhole, Sent
    <3>2. CASE ~Sent(c)
      BY <1>2, <3>2, NewlySent DEF Sent
    <3> QED
      BY <3>1, <3>2
  <2> QED
    BY <2>1, <2>2 DEF SentWhole
<1>3. ASSUME NEW c \in Calls, Order(c) PROVE SentWhole'
  <2>1. c \in inFlight /\ inFlight' = inFlight \ {c} /\ UNCHANGED <<pc, request, replies>>
    BY <1>3 DEF Order
  <2>2. \A d \in Calls : AllGood(d)' = AllGood(d)
    BY <2>1 DEF AllGood, Responded, request, replies
  <2>3. \A d \in Calls :
          Ordered(d)' = IF d = c THEN Ordered(c) \cup {Len(ledger) + 1} ELSE Ordered(d)
    BY <1>3, OrderedGrows
  <2>4. Sent(c) /\ Ordered(c) = {}
    BY <2>1 DEF SentWhole, Sent
  <2> QED
    BY <2>1, <2>2, <2>3, <2>4 DEF SentWhole, Sent
<1>4. ASSUME NEW c \in Calls, Reply(c) PROVE SentWhole'
  <2>1. inFlight' \subseteq inFlight /\ UNCHANGED <<pc, request, replies, ledger>>
    BY <1>4 DEF Reply
  <2>2. \A d \in Calls : Ordered(d)' = Ordered(d) /\ AllGood(d)' = AllGood(d)
    BY <2>1 DEF Ordered, AllGood, Responded, request, replies
  <2> QED
    BY <2>1, <2>2 DEF SentWhole, Sent
<1>5. ASSUME NEW p \in Peers, Commit(p) PROVE SentWhole'
  <2>1. UNCHANGED <<request, replies, inFlight, ledger>>
    BY <1>5 DEF Commit
  <2>2. \A d \in Calls : Ordered(d)' = Ordered(d) /\ AllGood(d)' = AllGood(d)
    BY <2>1 DEF Ordered, AllGood, Responded, request, replies
  <2>3. \A d \in Calls : pc'[d] = pc[d] \/ pc'[d] = "done"
    BY <1>1, <1>5 DEF Commit, Report, Finish, Goto, CallsTyped
  <2> QED
    BY <2>1, <2>2, <2>3 DEF SentWhole, Sent
<1>6. CASE UNCHANGED vars
  <2>1. \A d \in Calls : Ordered(d)' = Ordered(d) /\ AllGood(d)' = AllGood(d)
    BY <1>6 DEF Ordered, AllGood, Responded, vars, request, replies, network
  <2> QED
    BY <1>6, <2>1 DEF SentWhole, Sent, vars, network
<1> QED
  BY <1>2, <1>3, <1>4, <1>5, <1>6 DEF Next

(* In every behaviour what is sent to the orderer has been endorsed. *)
LEMMA SentKept == Spec => [](TypeOK /\ SentWhole)
<1>1. Init => SentWhole
  BY DEF Init, SentWhole, Sent, Ordered
<1>2. TypeOK /\ SentWhole /\ [Next]_vars => SentWhole'
  BY SentStep
<1> QED
  BY <1>1, <1>2, TypeCorrect, PTL DEF Spec

(* What reaches the ledger was endorsed by every target it named
   (invoke-transaction.js:65), whatever became of its call. *)
THEOREM LedgerIsEndorsed == Spec => []EndorsedByAll
<1>1. TypeOK /\ SentWhole => EndorsedByAll
  <2> SUFFICES ASSUME TypeOK, SentWhole, NEW i \in 1 .. Len(ledger)
               PROVE  {e.peer : e \in read[ledger[i].call]} = targets[ledger[i].call]
    BY DEF EndorsedByAll
  <2>1. ledger[i].call \in Calls
    BY TypeParts, EntryAt
  <2>2. i \in Ordered(ledger[i].call)
    BY DEF Ordered
  <2>3. AllGood(ledger[i].call)
    BY <2>1, <2>2 DEF SentWhole, Sent
  <2> QED
    BY <2>3 DEF AllGood, Responded
<1> QED
  BY <1>1, SentKept, PTL

--------------------------------------------------------------------------------
(* The ledger only grows, peers only commit more of it, and a call keeps its request. *)
LEMMA LedgerGrows ==
  ASSUME TypeOK, [Next]_vars
  PROVE  /\ Len(ledger) \in Nat /\ Len(ledger') \in Nat /\ Len(ledger) <= Len(ledger')
         /\ \A i \in 1 .. Len(ledger) : ledger'[i] = ledger[i]
         /\ \A p \in Peers : height[p] \in Nat /\ height'[p] \in Nat /\ height[p] <= height'[p]
         /\ UNCHANGED request
<1>1. NetworkTyped /\ Len(ledger) \in Nat /\ \A p \in Peers : height[p] \in Nat
  BY TypeParts DEF NetworkTyped
<1>2. CASE \E c \in Calls : Order(c)
  <2>1. UNCHANGED <<height, request>>
    BY <1>2 DEF Order
  <2> QED
    BY <1>1, <1>2, <2>1, OrderAppends
<1>3. CASE \E p \in Peers : Commit(p)
  <2>1. UNCHANGED <<ledger, request>> /\ \A p \in Peers : height'[p] \in {height[p], height[p] + 1}
    BY <1>1, <1>3 DEF Commit, NetworkTyped
  <2> QED
    BY <1>1, <2>1
<1>4. CASE UNCHANGED <<ledger, height, request>>
  BY <1>1, <1>4
<1>5. ASSUME NEW c \in Calls, Propose(c) \/ AwaitCommit(c) \/ CloseConnection(c) \/ Reply(c)
      PROVE  UNCHANGED <<ledger, height, request>>
  BY <1>5 DEF Propose, Start, RejectProposal, Send, SendAndAnswer, Endorse, CloseConnection,
              AwaitCommit, LoseReply, Resolve, Connect, HubFails, HubTimesOut, Reply, network
<1>6. UNCHANGED vars => UNCHANGED <<ledger, height, request>>
  BY DEF vars, network
<1> QED
  BY <1>2, <1>3, <1>4, <1>5, <1>6 DEF Next

(* A call that was sent is endorsed no more. *)
LEMMA ReadsStay ==
  ASSUME TypeOK, SentWhole, [Next]_vars, NEW c \in Calls, Sent(c)
  PROVE  read'[c] = read[c]
<1>1. pc[c] \in {"waiting", "done"}
  BY DEF SentWhole
<1>2. ASSUME NEW d \in Calls, Propose(d) \/ AwaitCommit(d) \/ CloseConnection(d)
      PROVE  read'[c] = read[c]
  BY <1>1, <1>2, SentGoesOn, OthersStay
<1> QED
  BY <1>2 DEF Next, Order, Reply, Commit, vars, replies

(* A valid transaction read the newest version of its key at its place of the ledger. *)
ReadNewest(i) ==
  \A e \in read[ledger[i].call] : e.version = Version(i - 1, key[ledger[i].call])

ValidReads == \A i \in 1 .. Len(ledger) : ledger[i].valid => ReadNewest(i)

(* Every step keeps the reads of the valid transactions up to date. *)
LEMMA ValidStep ==
  ASSUME TypeOK, SentWhole, ValidReads, [Next]_vars
  PROVE  ValidReads'
<1>1. NetworkTyped
  BY TypeParts
<1>2. /\ Len(ledger) \in Nat /\ Len(ledger') \in Nat /\ Len(ledger) <= Len(ledger')
      /\ \A i \in 1 .. Len(ledger) : ledger'[i] = ledger[i]
      /\ UNCHANGED key
  BY LedgerGrows DEF request
<1>3. ASSUME NEW i \in 1 .. Len(ledger), ledger'[i].valid PROVE ReadNewest(i)'
  <2>1. ledger'[i] = ledger[i] /\ ledger[i].call \in Calls
    BY <1>1, <1>2, EntryAt
  <2>2. Sent(ledger[i].call)
    BY DEF Sent, Ordered
  <2>3. read'[ledger[i].call] = read[ledger[i].call]
    BY <2>1, <2>2, ReadsStay
  <2>5. \A k : Version(i - 1, k)' = Version(i - 1, k)
    <3>1. i - 1 \in Nat /\ \A j \in 1 .. (i - 1) : ledger'[j] = ledger[j]
      BY <1>2
    <3> QED
      BY <1>2, <3>1, VersionStays
  <2>6. ReadNewest(i)
    BY <1>3, <2>1 DEF ValidReads
  <2> QED
    BY <1>2, <2>1, <2>3, <2>5, <2>6 DEF ReadNewest
<1>4. ASSUME NEW i \in (1 .. Len(ledger')) \ (1 .. Len(ledger)), ledger'[i].valid
      PROVE  ReadNewest(i)'
  <2>1. PICK c \in Calls : Order(c)
    <3>1. ledger' # ledger
      BY <1>4
    <3> QED
      BY <3>1 DEF Next, Propose, Start, RejectProposal, Send, SendAndAnswer, Endorse,
                  CloseConnection, AwaitCommit, LoseReply, Resolve, Connect, HubFails,
                  HubTimesOut, Reply, Commit, network, vars
  <2>2. i = Len(ledger) + 1 /\ ledger'[i].call = c /\ ledger'[i].valid = Valid(c)
    BY <1>1, <1>2, <2>1, OrderAppends
  <2>3. \A e \in read[c] : e.version = Version(Len(ledger), key[c])
    BY <1>4, <2>2 DEF Valid, Current
  <2>4. PICK n \in Nat : n = Len(ledger)
    BY <1>2
  <2>5. \A k : Version(n, k)' = Version(n, k)
    BY <1>2, <2>4, VersionStays
  <2>6. i - 1 = n /\ \A e \in read[c] : e.version = Version(n, key[c])
    BY <2>2, <2>3, <2>4
  <2>7. UNCHANGED read
    BY <2>1 DEF Order, replies
  <2> QED
    BY <1>2, <2>2, <2>5, <2>6, <2>7 DEF ReadNewest
<1> QED
  BY <1>2, <1>3, <1>4 DEF ValidReads

(* A valid transaction read the newest version of its key, always. *)
LEMMA ValidKept == Spec => [](TypeOK /\ SentWhole /\ ValidReads)
<1>1. Init => ValidReads
  BY DEF Init, ValidReads
<1> QED
  BY <1>1, ValidStep, SentKept, PTL DEF Spec

--------------------------------------------------------------------------------
(* A peer that has committed a call shows it from then on. *)
Shows(p, c) == \E i \in Ordered(c) : ledger[i].valid /\ i <= height[p]

(* A peer that has committed a transaction goes on showing it. *)
LEMMA ShowsStays ==
  ASSUME TypeOK, [Next]_vars, NEW p \in Peers, NEW c, Shows(p, c)
  PROVE  Shows(p, c)'
<1>1. PICK i \in Ordered(c) : ledger[i].valid /\ i <= height[p]
  BY DEF Shows
<1>2. i \in 1 .. Len(ledger) /\ ledger[i].call = c
  BY <1>1 DEF Ordered
<1>3. /\ Len(ledger) \in Nat /\ Len(ledger') \in Nat /\ Len(ledger) <= Len(ledger')
      /\ ledger'[i] = ledger[i]
      /\ height[p] \in Nat /\ height'[p] \in Nat /\ height[p] <= height'[p]
  BY <1>2, LedgerGrows
<1>4. i \in 1 .. Len(ledger') /\ i <= height'[p] /\ ledger'[i].call = c /\ ledger'[i].valid
  BY <1>1, <1>2, <1>3
<1> QED
  BY <1>4 DEF Shows, Ordered

(* A hub that has told its call of a VALID transaction belongs to a peer that has
   committed it. *)
HubsTell == \A c \in Calls, p \in Peers : hub[c][p] = "valid" => Shows(p, c)

(* A call is told only by its own hub, at the peer of the event, and only if valid. *)
LEMMA ReportTells ==
  ASSUME HubsTyped, NEW d \in Calls, NEW q \in Peers, NEW valid, Report(d, q, valid),
         NEW c \in Calls, NEW p \in Peers, hub'[c][p] = "valid"
  PROVE  hub[c][p] = "valid" \/ (c = d /\ p = q /\ valid)
  BY DEF Report, Finish, HubsTyped

(* A hub that hears of its transaction now does so from a peer that has it. *)
LEMMA TellsNow ==
  ASSUME TypeOK, [Next]_vars, NEW c \in Calls, NEW p \in Peers,
         hub'[c][p] = "valid", hub[c][p] # "valid"
  PROVE  Shows(p, c)'
<1>1. HubsTyped /\ NetworkTyped
  BY TypeParts
<1>2. ASSUME NEW d \in Calls, NEW q \in Peers, Connect(d, q) PROVE Shows(p, c)'
  <2>1. PICK i \in Ordered(d) : i = height[q] /\ Report(d, q, ledger[i].valid)
    BY <1>1, <1>2 DEF Connect, HubsTyped
  <2>2. c = d /\ p = q /\ ledger[i].valid
    BY <1>1, <2>1, ReportTells
  <2>3. i <= height[p]
    BY <1>1, <2>1, <2>2 DEF NetworkTyped
  <2> QED
    BY <2>1, <2>2, <2>3, ShowsStays DEF Shows
<1>3. ASSUME NEW q \in Peers, Commit(q) PROVE Shows(p, c)'
  <2>1. height[q] \in Nat /\ height[q] + 1 \in 1 .. Len(ledger)
    BY <1>1, <1>3 DEF Commit, NetworkTyped
  <2>2. PICK i \in 1 .. Len(ledger) : i = height[q] + 1
    BY <2>1
  <2>3. ledger[i].call \in Calls
    BY <1>1, EntryAt
  <2>4. Report(ledger[i].call, q, ledger[i].valid)
    BY <1>3, <2>2 DEF Commit
  <2>5. ledger[i].call = c /\ q = p /\ ledger[i].valid
    BY <1>1, <2>3, <2>4, ReportTells
  <2>6. UNCHANGED ledger /\ height'[p] = i
    BY <1>1, <1>3, <2>2, <2>5 DEF Commit, NetworkTyped
  <2>7. i \in Ordered(c)' /\ ledger'[i].valid /\ i <= height'[p]
    BY <2>5, <2>6 DEF Ordered
  <2> QED
    BY <2>7 DEF Shows
<1>4. ASSUME NEW d \in Calls, Propose(d) \/ CloseConnection(d) \/ Order(d) \/ Reply(d)
      PROVE  FALSE
  BY <1>1, <1>4 DEF Propose, Start, RejectProposal, Send, SendAndAnswer, Endorse, SetUpHubs,
                    CloseConnection, Order, Reply, HubsTyped
<1>5. ASSUME NEW d \in Calls,
             \/ LoseReply(d) \/ Resolve(d)
             \/ \E q \in Peers : HubFails(d, q) \/ HubTimesOut(d, q)
      PROVE  FALSE
  BY <1>1, <1>5 DEF LoseReply, Resolve, HubFails, HubTimesOut, Finish, HubsTyped
<1>6. ~UNCHANGED vars
  BY DEF vars
<1> QED
  BY <1>2, <1>3, <1>4, <1>5, <1>6 DEF Next, AwaitCommit

(* A call of invoke-transaction.js that was answered with success is shown by every
   peer of the organization: the answer waits for all of its hubs. *)
Answered ==
  \A c \in Calls \ service : answer[c] = "success" => \A p \in Peers : Shows(p, c)

(* Only the resolution of all promises answers such a call with success. *)
LEMMA AnswersNow ==
  ASSUME TypeOK, [Next]_vars, NEW c \in Calls \ service,
         answer'[c] = "success", answer[c] # "success"
  PROVE  \A p \in Peers : hub[c][p] = "valid"
<1>1. CallsTyped /\ NetworkTyped
  BY TypeParts
<1>2. \A d \in Calls, a \in {"error", "timeout"} : ~Answer(d, a)
  BY <1>1 DEF Answer, CallsTyped
<1>3. \A d \in Calls : \A q, valid : ~Report(d, q, valid)
  BY <1>2 DEF Report, Finish
<1>4. ASSUME NEW d \in Calls, Propose(d) \/ CloseConnection(d) \/ Order(d) \/ Reply(d)
      PROVE  FALSE
  BY <1>1, <1>2, <1>4
     DEF Propose, Start, RejectProposal, Send, SendAndAnswer, Endorse, Answer,
         CloseConnection, Order, Reply, CallsTyped
<1>5. ASSUME NEW q \in Peers, Commit(q) PROVE FALSE
  <2>1. height[q] + 1 \in 1 .. Len(ledger)
    BY <1>1, <1>5 DEF Commit, NetworkTyped
  <2>2. ledger[height[q] + 1].call \in Calls
    BY <1>1, <2>1, EntryAt
  <2> QED
    BY <1>3, <1>5, <2>2 DEF Commit
<1>6. ASSUME NEW d \in Calls,
             \/ LoseReply(d)
             \/ \E q \in Peers : Connect(d, q) \/ HubFails(d, q) \/ HubTimesOut(d, q)
      PROVE  FALSE
  BY <1>2, <1>3, <1>6 DEF LoseReply, Connect, HubFails, HubTimesOut, Finish
<1>7. ASSUME NEW d \in Calls, Resolve(d) PROVE \A p \in Peers : hub[c][p] = "valid"
  <2>1. AllResolved(d) /\ \E a \in {"success", "error"} : Answer(d, a)
    BY <1>7 DEF Resolve, Finish
  <2>2. c = d
    BY <1>1, <2>1 DEF Answer, CallsTyped
  <2> QED
    BY <2>1, <2>2 DEF AllResolved
<1>8. ~UNCHANGED vars
  BY DEF vars
<1> QED
  BY <1>4, <1>5, <1>6, <1>7, <1>8 DEF Next, AwaitCommit

(* What the hubs tell and what was answered is shown, always. *)
LEMMA AnsweredKept ==
  Spec => [](TypeOK /\ SentWhole /\ ValidReads /\ HubsTell /\ Answered)
<1>1. Init => HubsTell /\ Answered
  BY DEF Init, HubsTell, Answered
<1>2. ASSUME TypeOK, HubsTell, [Next]_vars PROVE HubsTell'
  <2> SUFFICES ASSUME NEW c \in Calls, NEW p \in Peers, hub'[c][p] = "valid"
               PROVE  Shows(p, c)'
    BY DEF HubsTell
  <2> QED
    BY <1>2, ShowsStays, TellsNow DEF HubsTell
<1>3. ASSUME TypeOK, HubsTell, Answered, [Next]_vars PROVE Answered'
  <2>1. UNCHANGED service
    BY <1>3, LedgerGrows DEF request
  <2> SUFFICES ASSUME NEW c \in Calls \ service, answer'[c] = "success", NEW p \in Peers
               PROVE  Shows(p, c)'
    BY <2>1 DEF Answered
  <2>2. CASE answer[c] = "success"
    BY <1>3, <2>2, ShowsStays DEF Answered
  <2>3. CASE answer[c] # "success"
    BY <1>3, <2>3, AnswersNow, ShowsStays DEF HubsTell
  <2> QED
    BY <2>2, <2>3
<1>4. TypeOK /\ HubsTell /\ Answered /\ [Next]_vars => HubsTell' /\ Answered'
  BY <1>2, <1>3
<1> QED
  BY <1>1, <1>4, ValidKept, PTL DEF Spec

--------------------------------------------------------------------------------
(* A call that is shown has one place in the ledger, where it is valid. *)
LEMMA PlaceOf ==
  ASSUME TypeOK, SentWhole, ValidReads, NEW c \in Calls, NEW p \in Peers, Shows(p, c)
  PROVE  \E i \in 1 .. Len(ledger) :
           /\ Ordered(c) = {i} /\ i <= height[p]
           /\ ledger[i] = [call |-> c, valid |-> TRUE]
           /\ \A e \in read[c] : e.version = Version(i - 1, key[c])
<1>1. PICK i \in Ordered(c) : ledger[i].valid /\ i <= height[p]
  BY DEF Shows
<1>2. Ordered(c) = {i}
  BY <1>1 DEF SentWhole
<1>3. i \in 1 .. Len(ledger) /\ ledger[i].call = c
  BY <1>1 DEF Ordered
<1>4. ledger[i].valid \in BOOLEAN /\ ledger[i] = [call |-> c, valid |-> ledger[i].valid]
  BY <1>3, TypeParts, EntryAt
<1>5. ledger[i] = [call |-> c, valid |-> TRUE]
  BY <1>1, <1>4
<1>6. \A e \in read[c] : e.version = Version(i - 1, key[c])
  BY <1>1, <1>3 DEF ValidReads, ReadNewest
<1> QED
  BY <1>1, <1>2, <1>3, <1>5, <1>6

(* invoke-transaction.js:87, the commit was good on each peer of our organization: a
   call answered with success is valid and shown by the queries of the transaction, the
   key, the number of blocks and a block by its number, from then on and by every peer,
   whatever fails or is lost for other calls. *)
THEOREM SuccessIsVisible == Spec => []AnsweredIsVisible
<1>1. TypeOK /\ SentWhole /\ ValidReads /\ Answered => AnsweredIsVisible
  <2> SUFFICES ASSUME TypeOK, SentWhole, ValidReads, Answered,
                      NEW c \in Calls \ service, answer[c] = "success", NEW p \in Peers
               PROVE  /\ QueryTransaction(p, c) = {[call |-> c, valid |-> TRUE]}
                      /\ \A e \in read[c] : QueryChaincode(p, key[c]) > e.version
                      /\ \A i \in Ordered(c) :
                           /\ QueryInfo(p) >= i
                           /\ QueryBlockByNumber(p, i) = QueryTransaction(p, c)
    BY DEF AnsweredIsVisible
  <2>1. \A q \in Peers : height[q] \in Nat
    BY TypeParts DEF NetworkTyped
  <2>2. PICK i \in 1 .. Len(ledger) :
          /\ Ordered(c) = {i}
          /\ ledger[i] = [call |-> c, valid |-> TRUE]
          /\ \A e \in read[c] : e.version = Version(i - 1, key[c])
    BY PlaceOf DEF Answered
  <2>3. \A q \in Peers : i <= height[q]
    BY <2>2 DEF Answered, Shows
  <2>4. \A q \in Peers : Committed(q, {i}) = {[call |-> c, valid |-> TRUE]}
    BY <2>2, <2>3 DEF Committed
  <2>5. \A e \in read[c] : Version(height[p], key[c]) > e.version
    <3>1. i \in 1 .. height[p] /\ ledger[i].valid /\ ledger[i].call = c
      BY <2>1, <2>2, <2>3
    <3>2. Version(i - 1, key[c]) < Version(height[p], key[c])
      BY <2>1, <3>1, VersionGrows
    <3>3. i - 1 \in Nat
      BY <3>1
    <3>4. Version(i - 1, key[c]) \in Nat /\ Version(height[p], key[c]) \in Nat
      BY <2>1, <3>3, VersionIsCount
    <3> QED
      BY <2>2, <3>2, <3>4
  <2>6. (CHOOSE q \in Peers : TRUE) \in Peers
    OBVIOUS
  <2> QED
    BY <2>1, <2>2, <2>3, <2>4, <2>5, <2>6
       DEF QueryTransaction, QueryChaincode, QueryInfo, QueryBlockByNumber
<1> QED
  BY <1>1, AnsweredKept, PTL

(* Of two calls that read the same version of a key, one is told that it failed: the
   valid one that is ordered first makes the version of the other stale. *)
THEOREM SuccessIsSerial == Spec => []AnswersAreSerial
<1>1. ASSUME TypeOK, NEW i \in 1 .. Len(ledger), NEW j \in 1 .. Len(ledger), i < j,
             NEW k, ledger[i].valid, key[ledger[i].call] = k
      PROVE  Version(i - 1, k) # Version(j - 1, k)
  <2>1. Len(ledger) \in Nat
    BY <1>1, TypeParts DEF NetworkTyped
  <2>2. i - 1 \in Nat /\ j - 1 \in Nat /\ i \in 1 .. (j - 1)
    BY <1>1, <2>1
  <2>3. Version(i - 1, k) < Version(j - 1, k)
    BY <1>1, <2>2, VersionGrows
  <2>4. Version(i - 1, k) \in Nat /\ Version(j - 1, k) \in Nat
    BY <2>2, VersionIsCount
  <2> QED
    BY <2>3, <2>4
<1>2. TypeOK /\ SentWhole /\ ValidReads /\ Answered => AnswersAreSerial
  <2> SUFFICES ASSUME TypeOK, SentWhole, ValidReads, Answered,
                      NEW c \in Calls \ service, NEW d \in Calls \ service,
                      c # d, key[c] = key[d], answer[c] = "success", answer[d] = "success",
                      NEW e \in read[c], NEW f \in read[d]
               PROVE  e.version # f.version
    BY DEF AnswersAreSerial
  <2>1. \E p \in Peers : TRUE
    <3>1. targets[c] \in TargetSets
      BY TypeParts DEF CallsTyped
    <3> QED
      BY <3>1, TransactionsAssumption
  <2>2. PICK i \in 1 .. Len(ledger) :
          /\ ledger[i] = [call |-> c, valid |-> TRUE]
          /\ e.version = Version(i - 1, key[c])
    BY <2>1, PlaceOf DEF Answered
  <2>3. PICK j \in 1 .. Len(ledger) :
          /\ ledger[j] = [call |-> d, valid |-> TRUE]
          /\ f.version = Version(j - 1, key[c])
    BY <2>1, PlaceOf DEF Answered
  <2>4. i < j \/ j < i
    <3>1. ledger[i].call = c /\ ledger[j].call = d
      BY <2>2, <2>3
    <3>2. i # j /\ i \in Int /\ j \in Int
      BY <3>1
    <3> QED
      BY <3>2
  <2> QED
    BY <1>1, <2>2, <2>3, <2>4
<1> QED
  BY <1>2, AnsweredKept, PTL

================================================================================
