------------------------------ MODULE Transactions ------------------------------
(***************************************************************************)
(* How the gateway runs a transaction: invokeChaincode of                  *)
(* invoke-transaction.js, and invokeChaincode and commit of service.js,    *)
(* with the queries of query.js.                                           *)
(*                                                                         *)
(* A call sends its proposal to the targets it names, which simulate it on *)
(* what they have committed.  If all endorse, it connects one event hub    *)
(* per peer of the organization, sends the transaction to the orderer and  *)
(* waits for all of them (Promise.all); service.js answers without waiting *)
(* and leaves the rest to run in the background.  Every call has a client, *)
(* a channel and event hubs of its own.                                    *)
(*                                                                         *)
(* The network is external: the orderer appends a transaction to the       *)
(* ledger, every peer commits the ledger in order at its own pace, and a   *)
(* transaction is valid if what it read is still current.  A chaincode     *)
(* call reads and writes one key; a block holds one transaction.           *)
(***************************************************************************)
EXTENDS Naturals, FiniteSets, Sequences

CONSTANTS
  Calls,       (* calls of either invokeChaincode                          *)
  Peers,       (* peers of the organization                                *)
  TargetSets,  (* the peers that callers name                              *)
  Keys         (* what the chaincode reads and writes                      *)

ASSUME TransactionsAssumption ==
  /\ IsFiniteSet(Calls) /\ IsFiniteSet(Peers)
  /\ TargetSets \subseteq (SUBSET Peers) \ {{}}

VARIABLES
  pc,        (* where each call is                                         *)
  answer,    (* what its caller got                                        *)
  service,   (* the calls of service.js, which do not wait                 *)
  key,       (* the key a call works on                                    *)
  targets,   (* the peers it was told to send its proposal to              *)
  read,      (* its endorsements: the version each peer read               *)
  refusing,  (* the targets that answered with an error                    *)
  hub,       (* its event hub at each peer                                 *)
  reply,     (* the orderer's answer to it                                 *)
  inFlight,  (* transactions on their way to the orderer                   *)
  ledger,    (* the order of the transactions, with their validation       *)
  height     (* how much of the ledger each peer has committed             *)

request == <<service, key, targets>>
replies == <<read, refusing>>
network == <<inFlight, ledger, height>>
vars    == <<pc, answer, request, replies, hub, reply, network>>

--------------------------------------------------------------------------------
Entry       == [call : Calls, valid : BOOLEAN]
Endorsement == [peer : Peers, version : Nat]

TypeOK ==
  /\ pc \in [Calls -> {"new", "endorsing", "waiting", "done"}]
  /\ answer \in [Calls -> {"none", "success", "error", "timeout"}]
  /\ service \subseteq Calls
  /\ key \in [Calls -> Keys]
  /\ targets \in [Calls -> TargetSets]
  /\ read \in [Calls -> SUBSET Endorsement]
  /\ refusing \in [Calls -> SUBSET Peers]
  /\ hub \in [Calls -> [Peers -> {"off", "connecting", "open", "valid"}]]
  /\ reply \in [Calls -> {"none", "SUCCESS", "refused"}]
  /\ inFlight \subseteq Calls
  /\ ledger \in Seq(Entry)
  /\ height \in [Peers -> Nat]
  /\ \A p \in Peers : height[p] <= Len(ledger)

Init ==
  /\ pc = [c \in Calls |-> "new"]
  /\ answer = [c \in Calls |-> "none"]
  /\ service \in SUBSET Calls
  /\ key \in [Calls -> Keys]
  /\ targets \in [Calls -> TargetSets]
  /\ read = [c \in Calls |-> {}]
  /\ refusing = [c \in Calls |-> {}]
  /\ hub = [c \in Calls |-> [p \in Peers |-> "off"]]
  /\ reply = [c \in Calls |-> "none"]
  /\ inFlight = {}
  /\ ledger = <<>>
  /\ height = [p \in Peers |-> 0]

Goto(c, from, to) ==
  /\ pc[c] = from
  /\ pc' = [pc EXCEPT ![c] = to]

(* A caller that has been answered, or has given up, gets nothing more. *)
Answer(c, a) ==
  answer' = [answer EXCEPT ![c] = IF @ = "none" THEN a ELSE @]

--------------------------------------------------------------------------------
(* The state of a peer that has committed the first n transactions. *)
Version(n, k) ==
  Cardinality({i \in 1 .. n : ledger[i].valid /\ key[ledger[i].call] = k})

Current(k) == Version(Len(ledger), k)

Ordered(c) == {i \in 1 .. Len(ledger) : ledger[i].call = c}

(* The queries of query.js: a peer answers from what it has committed.  (A query that
   fails returns the text of its error as if it were the answer.) *)
Committed(p, places) == {ledger[i] : i \in {j \in places : j <= height[p]}}

QueryChaincode(p, k) == Version(height[p], k)

QueryTransaction(p, c) == Committed(p, Ordered(c))


(* The peer is given to parseInt and not to the query: the default peer answers. *)
QueryBlockByNumber(p, i) == Committed(CHOOSE q \in Peers : TRUE, {i})

QueryInfo(p) == height[p]

--------------------------------------------------------------------------------
(* getClientForOrg knows the user and the channel, or the call throws. *)
Start(c) ==
  /\ pc[c] = "new"
  /\ \/ pc' = [pc EXCEPT ![c] = "endorsing"] /\ UNCHANGED answer
     \/ pc' = [pc EXCEPT ![c] = "done"] /\ Answer(c, "error")
  /\ UNCHANGED <<request, replies, hub, reply, network>>

Responded(c) == {e.peer : e \in read[c]} \cup refusing[c]

(* sendTransactionProposal: a target simulates the call, or answers with an error
   (or not at all, which the SDK turns into one). *)
Endorse(c, p) ==
  /\ pc[c] = "endorsing"
  /\ p \in targets[c] \ Responded(c)
  /\ \/ /\ read' = [read EXCEPT ![c] =
                      @ \cup {[peer |-> p, version |-> QueryChaincode(p, key[c])]}]
        /\ UNCHANGED refusing
     \/ refusing' = [refusing EXCEPT ![c] = @ \cup {p}] /\ UNCHANGED read
  /\ UNCHANGED <<pc, answer, request, hub, reply, network>>

(* FAULT: one good response is enough. *)
OneGood(c) == Responded(c) = targets[c] /\ read[c] # {}

(* every response has status 200. *)
AllGood(c) == Responded(c) = targets[c] /\ refusing[c] = {}

(* Some response is bad: the caller gets its error, nothing is sent. *)
RejectProposal(c) ==
  /\ Responded(c) = targets[c] /\ ~AllGood(c)
  /\ Goto(c, "endorsing", "done")
  /\ Answer(c, "error")
  /\ UNCHANGED <<request, replies, hub, reply, network>>

(* Register the hubs, connect them, and send the transaction last. *)
SetUpHubs(c) == hub' = [hub EXCEPT ![c] = [p \in Peers |-> "connecting"]]

Send(c) ==
  /\ c \notin service /\ AllGood(c)
  /\ Goto(c, "endorsing", "waiting")
  /\ SetUpHubs(c)
  /\ inFlight' = inFlight \cup {c}
  /\ UNCHANGED <<answer, request, replies, reply, ledger, height>>

(* service.js calls commit and answers with the payload at once. *)
SendAndAnswer(c) ==
  /\ c \in service /\ AllGood(c)
  /\ Goto(c, "endorsing", "waiting")
  /\ SetUpHubs(c)
  /\ inFlight' = inFlight \cup {c}
  /\ Answer(c, "success")
  /\ UNCHANGED <<request, replies, reply, ledger, height>>

--------------------------------------------------------------------------------
(* Fabric validates a transaction against what was ordered before it: endorsements
   that differ, or that read what has changed since, make it invalid. *)
Valid(c) == \A e \in read[c] : e.version = Current(key[c])

Order(c) ==
  /\ c \in inFlight
  /\ inFlight' = inFlight \ {c}
  /\ ledger' = Append(ledger, [call |-> c, valid |-> Valid(c)])
  /\ UNCHANGED <<pc, answer, request, replies, hub, reply, height>>

(* The orderer has taken the transaction, or refuses it. *)
Reply(c) ==
  /\ pc[c] = "waiting" /\ reply[c] = "none"
  /\ \/ /\ Ordered(c) # {} /\ UNCHANGED inFlight
        /\ reply' = [reply EXCEPT ![c] = "SUCCESS"]
     \/ /\ c \in inFlight /\ inFlight' = inFlight \ {c}
        /\ reply' = [reply EXCEPT ![c] = "refused"]
  /\ UNCHANGED <<pc, answer, request, replies, hub, ledger, height>>

--------------------------------------------------------------------------------
(* The call is over: what the other hubs and the orderer report changes nothing. *)
Finish(c, a) ==
  /\ Goto(c, "waiting", "done")
  /\ hub' = [hub EXCEPT ![c] = [p \in Peers |-> "off"]]
  /\ reply' = [reply EXCEPT ![c] = "none"]
  /\ Answer(c, a)

(* The broadcast fails or is not answered in time; the transaction may be ordered
   all the same. *)
LoseReply(c) ==
  /\ reply[c] = "none"
  /\ Finish(c, "error")
  /\ UNCHANGED <<request, replies, network>>

(* FAULT: the code of the event is not looked at. *)
ReportAny(c, p, valid) ==
  /\ hub' = [hub EXCEPT ![c][p] = "valid"]
  /\ UNCHANGED <<pc, answer, reply>>

(* The callback of a transaction event: VALID resolves the hub's promise, any other
   code rejects it, and with it Promise.all. *)
Report(c, p, valid) ==
  \/ /\ valid
     /\ hub' = [hub EXCEPT ![c][p] = "valid"]
     /\ UNCHANGED <<pc, answer, reply>>
  \/ ~valid /\ Finish(c, "error")

(* A hub that connects is sent the newest block of its peer, and those after it. *)
Connect(c, p) ==
  /\ hub[c][p] = "connecting"
  /\ LET newest == {i \in Ordered(c) : i = height[p]}
     IN  \/ \E i \in newest : Report(c, p, ledger[i].valid)
         \/ /\ newest = {}
            /\ hub' = [hub EXCEPT ![c][p] = "open"]
            /\ UNCHANGED <<pc, answer, reply>>
  /\ UNCHANGED <<request, replies, network>>

(* A peer commits the next transaction and tells the hub that waits for it. *)
Commit(p) ==
  /\ height[p] < Len(ledger)
  /\ height' = [height EXCEPT ![p] = @ + 1]
  /\ LET entry == ledger[height[p] + 1]
     IN  \/ hub[entry.call][p] = "open" /\ Report(entry.call, p, entry.valid)
         \/ hub[entry.call][p] # "open" /\ UNCHANGED <<pc, answer, hub, reply>>
  /\ UNCHANGED <<request, replies, inFlight, ledger>>

(* The stream of a hub fails: its error callback rejects. *)
HubFails(c, p) ==
  /\ hub[c][p] \in {"connecting", "open"}
  /\ Finish(c, "error")
  /\ UNCHANGED <<request, replies, network>>

(* FAULT: the timeout is only logged. *)
TimeoutLogged(c, p) ==
  /\ hub[c][p] \in {"connecting", "open"}
  /\ UNCHANGED vars

(* After 1000 seconds the hub is disconnected, which calls the same callback. *)
HubTimesOut(c, p) ==
  /\ hub[c][p] \in {"connecting", "open"}
  /\ Finish(c, "error")
  /\ UNCHANGED <<request, replies, network>>

(* FAULT: one event is enough. *)
FirstResolved(c) == reply[c] # "none" /\ \E p \in Peers : hub[c][p] = "valid"

(* Promise.all: every hub has seen the transaction and the orderer has answered. *)
AllResolved(c) == reply[c] # "none" /\ \A p \in Peers : hub[c][p] = "valid"

(* FAULT: the answer is the status of the orderer. *)
ResolveWithStatus(c) ==
  /\ AllResolved(c)
  /\ Finish(c, reply[c])
  /\ UNCHANGED <<request, replies, network>>

Resolve(c) ==
  /\ AllResolved(c)
  /\ Finish(c, IF reply[c] = "SUCCESS" THEN "success" ELSE "error")
  /\ UNCHANGED <<request, replies, network>>

(* The server closes a connection that has been idle for 240 seconds; the call goes
   on.  (A route that lets an exception go answers nothing before that, either.) *)
CloseConnection(c) ==
  /\ pc[c] \in {"endorsing", "waiting"} /\ answer[c] = "none"
  /\ Answer(c, "timeout")
  /\ UNCHANGED <<pc, request, replies, hub, reply, network>>

--------------------------------------------------------------------------------
(* A call up to the answer of its proposal, and what both ways of calling wait for:
   service.js's commit does so in the background. *)
Propose(c) ==
  \/ Start(c) \/ RejectProposal(c) \/ Send(c) \/ SendAndAnswer(c)
  \/ \E p \in Peers : Endorse(c, p)

AwaitCommit(c) ==
  \/ LoseReply(c) \/ Resolve(c)
  \/ \E p \in Peers : Connect(c, p) \/ HubFails(c, p) \/ HubTimesOut(c, p)

Next ==
  \/ \E c \in Calls : Propose(c) \/ AwaitCommit(c) \/ CloseConnection(c)
  \/ \E c \in Calls : Order(c) \/ Reply(c)
  \/ \E p \in Peers : Commit(p)

(* What Node and the SDK do for a call whatever the network does: run the code that
   is ready, and fire the timers of the targets, the orderer and the hubs. *)
Progress(c) ==
  \/ RejectProposal(c) \/ Send(c) \/ SendAndAnswer(c) \/ Resolve(c) \/ LoseReply(c)
  \/ \E p \in Peers : Endorse(c, p) \/ HubTimesOut(c, p)

Fairness == \A c \in Calls : WF_vars(Progress(c))

Spec     == Init /\ [][Next]_vars
FairSpec == Spec /\ Fairness

--------------------------------------------------------------------------------
(* invoke-transaction.js:87, "wait for the channel-based event hub to tell us that
   the commit was good or bad on each peer in our organization": a call that was
   answered with success is valid, and the queries of the transaction, of the key, of
   the number of blocks and of a block by its number show it from then on, whichever
   peer of the organization is asked. *)
AnsweredIsVisible ==
  \A c \in Calls \ service : answer[c] = "success" =>
    \A p \in Peers :
      /\ QueryTransaction(p, c) = {[call |-> c, valid |-> TRUE]}
      /\ \A e \in read[c] : QueryChaincode(p, key[c]) > e.version
      /\ \A i \in Ordered(c) :
           /\ QueryInfo(p) >= i
           /\ QueryBlockByNumber(p, i) = QueryTransaction(p, c)

(* Two calls that worked on the same version of a key are not both answered with
   success: of two transfers from one balance, one is told that it failed. *)
AnswersAreSerial ==
  \A c, d \in Calls \ service :
    c # d /\ key[c] = key[d] /\ answer[c] = "success" /\ answer[d] = "success" =>
      \A e \in read[c], f \in read[d] : e.version # f.version

(* invoke-transaction.js:65, "lets have a look at the responses to see if they are
   all good": what reaches the ledger was endorsed by every target it named, also
   when its call was given up, lost its reply or was answered before. *)
EndorsedByAll ==
  \A i \in 1 .. Len(ledger) :
    {e.peer : e \in read[ledger[i].call]} = targets[ledger[i].call]

(* invoke-transaction.js:94: whatever the network does, a call that was sent is
   settled in the end, at the latest by the timeout of its event hubs. *)
Settles == \A c \in Calls : (pc[c] = "endorsing") ~> (pc[c] = "done")

================================================================================
