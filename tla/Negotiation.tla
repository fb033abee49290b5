------------------------------- MODULE Negotiation -------------------------------
(***************************************************************************)
(* How a requester and its providers come to an agreement: request.js,     *)
(* response.js, negotiation-utils.js, the recovery of service.js and the   *)
(* start of the gateway (app.js, initialize).                              *)
(*                                                                         *)
(* A negotiation writes its task to the chain unless taskMap has it, and   *)
(* goes through the rounds of its strategy: write a request, tell the      *)
(* listening providers, wait, and check.  At the time of an agreement a    *)
(* job in memory has the task paid.  Handlers interleave at every await.   *)
(*                                                                         *)
(* An invocation of the chaincode is two steps: the ledger changes (or the *)
(* call fails, and it does not), and the handler goes on with the answer.  *)
(* The chaincode is external: what it accepts is taken from the gateway's  *)
(* logs.  One requester; a round has one request; ids are numbers.         *)
(***************************************************************************)
EXTENDS Naturals, FiniteSets

CONSTANTS
  Handlers,     (* requests to the gateway that are in progress at once    *)
  Names,        (* names of tasks                                          *)
  Providers,    (* providers, all with a response strategy                 *)
  LastRound,    (* rounds 0..LastRound are in the request strategy         *)
  MaxTasks,     (* bound: tasks written to the chain                       *)
  MaxRequests,  (* bound: ids of requests; then the last is given again    *)
  MaxCalls,     (* bound: handlers that are started                        *)
  MaxFaults     (* bound: restarts, failed invocations and lost answers    *)

ASSUME NegotiationAssumption ==
  /\ Names # {}
  /\ {LastRound, MaxTasks, MaxCalls, MaxFaults} \subseteq Nat /\ MaxRequests \in Nat \ {0}

VARIABLES
  taskMap,      (* memory: id of the task of a name, 0 if there is none    *)
  taskJsonMap,  (* memory: ids whose JSON is kept, with the name in it     *)
  requestMap,   (* memory: id of the request of a name and round, or 0     *)
  listening,    (* memory: pairs of a name and a provider that listens     *)
  responding,   (* memory: responses that are being written                *)
  jobs,         (* memory: payments that are scheduled                     *)
  phase,        (* memory: how far initialize is                           *)
  snapshot,     (* memory: the tasks initialize was told                   *)
  pc, name, task, round, item,  (* of each handler                         *)
  state,        (* chain: state of a task                                  *)
  nameOf,       (* chain: its name                                         *)
  requests,     (* chain: requests of the tasks                            *)
  written,      (* chain: number of requests ever written                  *)
  responses,    (* chain: requests that have a response                    *)
  agreements,   (* chain: number of agreements a task has had              *)
  calls,        (* handlers started so far                                 *)
  faults,       (* restarts, failures and lost answers so far              *)
  paid,         (* chain: agreements that were paid for                    *)
  told,         (* history: agreements that a requester was answered       *)
  fired         (* history: jobs whose time has come                       *)

maps    == <<taskMap, taskJsonMap, requestMap>>
loading == <<phase, snapshot>>
locals  == <<name, task, round, item>>
chain   == <<state, nameOf, requests, written, responses, agreements, paid>>
vars    == <<maps, listening, responding, jobs, loading, pc, locals, chain,
             calls, faults, told, fired>>

--------------------------------------------------------------------------------
TaskId    == 1 .. MaxTasks
RequestId == 1 .. MaxRequests
Round     == 0 .. LastRound
Payment   == [task : TaskId, agreement : Nat]

Labels == {"idle", "addTask", "added", "writeRequest", "wrote", "emit", "collect",
           "check", "agreed", "writeTask", "deleteTask", "deleted", "changeState", "drop"}

TypeOK ==
  /\ taskMap \in [Names -> 0 .. MaxTasks]
  /\ taskJsonMap \subseteq TaskId \X Names
  /\ requestMap \in [Names \X Round -> 0 .. MaxRequests]
  /\ listening \subseteq Names \X Providers
  /\ responding \subseteq [task : TaskId, request : RequestId, provider : Providers]
  /\ jobs \subseteq Payment
  /\ phase \in {"query", "fill", "up"} /\ snapshot \subseteq TaskId
  /\ pc \in [Handlers -> Labels]
  /\ name \in [Handlers -> Names]
  /\ task \in [Handlers -> 0 .. MaxTasks]
  /\ round \in [Handlers -> 0 .. LastRound + 1]
  /\ item \in [Handlers -> Nat]
  /\ state \in [TaskId -> {"none", "instantiation", "acceptation", "deleted"}]
  /\ nameOf \in [TaskId -> Names]
  /\ requests \subseteq [task : TaskId, id : RequestId] /\ responses \subseteq RequestId
  /\ written \in 0 .. MaxRequests
  /\ agreements \in [TaskId -> Nat]
  /\ calls \in 0 .. MaxCalls /\ faults \in 0 .. MaxFaults
  /\ paid \subseteq Payment /\ told \subseteq Payment /\ fired \subseteq Payment

AnyName == CHOOSE k \in Names : TRUE

ForgetMemory ==
  /\ taskMap' = [k \in Names |-> 0]
  /\ taskJsonMap' = {}
  /\ requestMap' = [k \in Names \X Round |-> 0]
  /\ listening' = {} /\ responding' = {} /\ jobs' = {} /\ snapshot' = {}
  /\ pc' = [n \in Handlers |-> "idle"]
  /\ name' = [n \in Handlers |-> AnyName]
  /\ task' = [n \in Handlers |-> 0]
  /\ round' = [n \in Handlers |-> 0]
  /\ item' = [n \in Handlers |-> 0]

Init ==
  /\ taskMap = [k \in Names |-> 0]
  /\ taskJsonMap = {}
  /\ requestMap = [k \in Names \X Round |-> 0]
  /\ listening = {} /\ responding = {} /\ jobs = {} /\ snapshot = {}
  /\ phase = "up"
  /\ pc = [n \in Handlers |-> "idle"]
  /\ name = [n \in Handlers |-> AnyName]
  /\ task = [n \in Handlers |-> 0]
  /\ round = [n \in Handlers |-> 0]
  /\ item = [n \in Handlers |-> 0]
  /\ state = [t \in TaskId |-> "none"]
  /\ nameOf = [t \in TaskId |-> AnyName]
  /\ requests = {} /\ written = 0 /\ responses = {}
  /\ agreements = [t \in TaskId |-> 0]
  /\ calls = 0 /\ faults = 0
  /\ paid = {} /\ told = {} /\ fired = {}

Move(n, to) == pc' = [pc EXCEPT ![n] = to] /\ UNCHANGED locals

(* The handler is where it is told to be, with these locals. *)
Enter(n, to, k, t, r, i) ==
  /\ pc' = [pc EXCEPT ![n] = to]
  /\ name' = [name EXCEPT ![n] = k]
  /\ task' = [task EXCEPT ![n] = t]
  /\ round' = [round EXCEPT ![n] = r]
  /\ item' = [item EXCEPT ![n] = i]

(* It answers, with a result or an error, and its locals are gone. *)
Answer(n) == Enter(n, "idle", AnyName, 0, 0, 0)

Fault == faults < MaxFaults /\ faults' = faults + 1

(* An invocation of the chaincode: it takes effect if the chaincode accepts it, and the
   handler goes on with the result, or with an error if the answer is lost; else, or if
   the transaction fails, only with an error. *)
Invoke(accepted, effect, result, error) ==
  \/ accepted /\ effect /\ result /\ UNCHANGED faults
  \/ accepted /\ effect /\ error /\ Fault
  \/ UNCHANGED chain /\ error /\ IF accepted THEN Fault ELSE UNCHANGED faults

(* A call starts a handler that is free. *)
Call(n) == pc[n] = "idle" /\ calls < MaxCalls /\ calls' = calls + 1

--------------------------------------------------------------------------------
(* strategyByTaskNameRound: a name that has no task yet is written first; a round
   that the strategy does not have is an error. *)
AskRound(n, k, t, r) ==
  \/ r \in Round /\ Enter(n, "writeRequest", k, t, r, 0)
  \/ r \notin Round /\ Answer(n)

BeginRound(n, k, r) ==
  \/ taskMap[k] = 0 /\ Enter(n, "addTask", k, 0, r, 0)
  \/ taskMap[k] # 0 /\ AskRound(n, k, taskMap[k], r)

(* /request_strategy: propose the task from round 0. *)
Propose(n) ==
  /\ Call(n)
  /\ \E k \in Names : BeginRound(n, k, 0)
  /\ UNCHANGED <<maps, listening, responding, jobs, loading, chain, faults, told, fired>>

(* negoUtil.writeTask: the chain gives the task an id. *)
FreeIds == {t \in TaskId : state[t] = "none" /\ \A u \in TaskId : u < t => state[u] # "none"}

NewTask(n, t) ==
  /\ state' = [state EXCEPT ![t] = "instantiation"]
  /\ nameOf' = [nameOf EXCEPT ![t] = name[n]]
  /\ UNCHANGED <<requests, written, responses, agreements, paid>>

AddTask(n) ==
  /\ pc[n] = "addTask"
  /\ \E t \in FreeIds \cup {0} :
       /\ t = 0 <=> FreeIds = {}
       /\ Invoke(t # 0, NewTask(n, t), Enter(n, "added", name[n], t, round[n], 0), Answer(n))
  /\ UNCHANGED <<maps, listening, responding, jobs, loading, calls, told, fired>>

(* The id is remembered; if another handler wrote the task too, the last one wins. *)
SetTask(n) ==
  /\ pc[n] = "added"
  /\ taskMap' = [taskMap EXCEPT ![name[n]] = task[n]]
  /\ taskJsonMap' = taskJsonMap \cup {<<task[n], name[n]>>}
  /\ AskRound(n, name[n], task[n], round[n])
  /\ UNCHANGED <<requestMap, listening, responding, jobs, loading, chain, calls, faults,
                 told, fired>>

(* writeRequest: a failure ends the negotiation. *)
NewRequest(t) ==
  /\ written' = IF written < MaxRequests THEN written + 1 ELSE written
  /\ requests' = requests \cup {[task |-> t, id |-> written']}
  /\ UNCHANGED <<state, nameOf, responses, agreements, paid>>

WriteRequest(n) ==
  /\ pc[n] = "writeRequest"
  /\ Invoke(state[task[n]] = "instantiation", NewRequest(task[n]),
            Enter(n, "wrote", name[n], task[n], round[n], written'), Answer(n))
  /\ UNCHANGED <<maps, listening, responding, jobs, loading, calls, told, fired>>

SetRequest(n) ==
  /\ pc[n] = "wrote"
  /\ requestMap' = [requestMap EXCEPT ![<<name[n], round[n]>>] = item[n]]
  /\ Move(n, "emit")
  /\ UNCHANGED <<taskMap, taskJsonMap, listening, responding, jobs, loading, chain, calls,
                 faults, told, fired>>

--------------------------------------------------------------------------------
(* FAULT: it does not ask whether they are there. *)
RespondAlways(k, r, p) ==
  {[task |-> taskMap[k], request |-> requestMap[<<k, r>>], provider |-> p]}

(* response.js: a provider looks up the task and the request by their names, as they
   are when it is called, and writes a response to them. *)
Respond(k, r, p) ==
  {[task |-> t, request |-> q, provider |-> p] :
     t \in {taskMap[k]} \ {0}, q \in {requestMap[<<k, r>>]} \ {0}}

(* After a second the listeners are called; some strategies have nothing to say. *)
Emit(n) ==
  /\ pc[n] = "emit"
  /\ \E who \in SUBSET {p \in Providers : <<name[n], p>> \in listening} :
       responding' = responding \cup UNION {Respond(name[n], round[n], p) : p \in who}
  /\ Move(n, "collect")
  /\ UNCHANGED <<maps, listening, jobs, loading, chain, calls, faults, told, fired>>

(* /response_strategy: a provider answers by hand; round 0 counts as missing. *)
RespondByHand ==
  /\ calls < MaxCalls /\ calls' = calls + 1
  /\ \E k \in Names, r \in Round \ {0}, p \in Providers :
       responding' = responding \cup Respond(k, r, p)
  /\ UNCHANGED <<maps, listening, jobs, loading, pc, locals, chain, faults, told, fired>>

(* negoUtil.writeResponse: the chain takes it if the task has the request. *)
NewResponse(x) ==
  /\ responses' = responses \cup {x.request}
  /\ UNCHANGED <<state, nameOf, requests, written, agreements, paid>>

WriteResponse(x) ==
  /\ x \in responding
  /\ responding' = responding \ {x}
  /\ Invoke(state[x.task] = "instantiation" /\ [task |-> x.task, id |-> x.request] \in requests,
            NewResponse(x), TRUE, TRUE)
  /\ UNCHANGED <<maps, listening, jobs, loading, pc, locals, calls, told, fired>>

(* /writerequest, /writeresponse: the ids are in the request to the gateway. *)
WriteRequestByHand ==
  /\ calls < MaxCalls /\ calls' = calls + 1
  /\ \E t \in TaskId : state[t] = "instantiation" /\ NewRequest(t)
  /\ UNCHANGED <<maps, listening, responding, jobs, loading, pc, locals, faults, told, fired>>

WriteResponseByHand ==
  /\ calls < MaxCalls /\ calls' = calls + 1
  /\ \E q \in requests, p \in Providers :
       responding' = responding \cup {[task |-> q.task, request |-> q.id, provider |-> p]}
  /\ UNCHANGED <<maps, listening, jobs, loading, pc, locals, chain, faults, told, fired>>

(* /add_listener, /remove_listener (see TaskListener). *)
SetListener ==
  /\ calls < MaxCalls /\ calls' = calls + 1
  /\ \E k \in Names, p \in Providers : 
       listening' \in {listening \cup {<<k, p>>}, listening \ {<<k, p>>}}
  /\ UNCHANGED <<maps, responding, jobs, loading, pc, locals, chain, faults, told, fired>>

--------------------------------------------------------------------------------
(* When the requester's timeout is over it looks its task up again. *)
Collect(n) ==
  /\ pc[n] = "collect"
  /\ Enter(n, "check", name[n], taskMap[name[n]], round[n], 0)
  /\ UNCHANGED <<maps, listening, responding, jobs, loading, chain, calls, faults, told,
                 fired>>

(* FAULT: the same round is tried again. *)
SameRound(n) == BeginRound(n, name[n], round[n])

(* strategyByTaskName: an error goes on with the next round. *)
NextRound(n) == BeginRound(n, name[n], round[n] + 1)

(* negoUtil.check: the chain picks a response and accepts the task. *)
Agreeable(t) ==
  t # 0 /\ state[t] = "instantiation" /\ \E q \in requests : q.task = t /\ q.id \in responses

Agree(t) ==
  /\ state' = [state EXCEPT ![t] = "acceptation"]
  /\ agreements' = [agreements EXCEPT ![t] = @ + 1]
  /\ UNCHANGED <<nameOf, requests, written, responses, paid>>

(* FAULT: an error is taken for an agreement. *)
CheckAnyAnswer(n) ==
  /\ pc[n] = "check"
  /\ \/ Agreeable(task[n]) /\ Agree(task[n])
     \/ task[n] # 0 /\ ~Agreeable(task[n]) /\ UNCHANGED chain
  /\ Enter(n, "agreed", name[n], task[n], round[n], agreements'[task[n]])
  /\ UNCHANGED <<maps, listening, responding, jobs, loading, calls, faults, told, fired>>

Check(n) ==
  /\ pc[n] = "check"
  /\ Invoke(Agreeable(task[n]), Agree(task[n]),
            Enter(n, "agreed", name[n], task[n], round[n], agreements'[task[n]]), NextRound(n))
  /\ UNCHANGED <<maps, listening, responding, jobs, loading, calls, told, fired>>

(* /check: a task is accepted by hand, which schedules nothing. *)
CheckByHand ==
  /\ calls < MaxCalls /\ calls' = calls + 1
  /\ \E t \in TaskId : Agreeable(t) /\ Agree(t)
  /\ UNCHANGED <<maps, listening, responding, jobs, loading, pc, locals, faults, told, fired>>

Agreement(n) == [task |-> task[n], agreement |-> item[n]]

(* The payment is scheduled, in addition to any other job of the task, and the
   requester gets the agreement. *)
Schedule(n) ==
  /\ pc[n] = "agreed"
  /\ told' = told \cup {Agreement(n)}
  /\ jobs' = jobs \cup {Agreement(n)}
  /\ Answer(n)
  /\ UNCHANGED <<maps, listening, responding, loading, chain, calls, faults, fired>>

(* /schedule: an administrator schedules the payment of an agreement that the chain has
   of the task, whatever became of the task.  (What the query answers before the job is
   made stays true: agreements are not taken back.) *)
ScheduledTransfer ==
  /\ calls < MaxCalls /\ calls' = calls + 1
  /\ \E t \in TaskId : \E a \in 1 .. agreements[t] :
       jobs' = jobs \cup {[task |-> t, agreement |-> a]}
  /\ UNCHANGED <<maps, listening, responding, loading, pc, locals, chain, faults, told,
                 fired>>

(* confirmPay is given the task: what is paid for is the agreement it has by now. *)
Pay(t) ==
  /\ paid' = paid \cup {[task |-> t, agreement |-> agreements[t]]}
  /\ UNCHANGED <<state, nameOf, requests, written, responses, agreements>>

(* The time of a job has come: confirmPay is invoked, and not again if it fails. *)
ConfirmPay(j) ==
  /\ j \in jobs
  /\ jobs' = jobs \ {j}
  /\ fired' = fired \cup {j}
  /\ Invoke(state[j.task] = "acceptation", Pay(j.task), TRUE, TRUE)
  /\ UNCHANGED <<maps, listening, responding, loading, pc, locals, calls, told>>

--------------------------------------------------------------------------------
(* /writetask: taskMap is asked, and not told. *)
WriteTaskRoute(n) ==
  /\ Call(n)
  /\ \E k \in Names : taskMap[k] = 0 /\ Enter(n, "writeTask", k, 0, 0, 0)
  /\ UNCHANGED <<maps, listening, responding, jobs, loading, chain, faults, told, fired>>

WriteTask(n) ==
  /\ pc[n] = "writeTask"
  /\ \E t \in FreeIds \cup {0} :
       (t = 0 <=> FreeIds = {}) /\ Invoke(t # 0, NewTask(n, t), Answer(n), Answer(n))
  /\ UNCHANGED <<maps, listening, responding, jobs, loading, calls, told, fired>>

(* /delete_task: the id is looked up ... *)
DeleteTaskRoute(n) ==
  /\ Call(n)
  /\ \E k \in Names : taskMap[k] # 0 /\ Enter(n, "deleteTask", k, taskMap[k], 0, 0)
  /\ UNCHANGED <<maps, listening, responding, jobs, loading, chain, faults, told, fired>>

Without(t) ==
  /\ requests' = {q \in requests : q.task # t}
  /\ responses' = responses \ {q.id : q \in requests \ requests'}

Delete(t) ==
  /\ state' = [state EXCEPT ![t] = "deleted"]
  /\ Without(t)
  /\ UNCHANGED <<nameOf, written, agreements, paid>>

DeleteTask(n) ==
  /\ pc[n] = "deleteTask"
  /\ Invoke(state[task[n]] # "deleted", Delete(task[n]), Move(n, "deleted"), Answer(n))
  /\ UNCHANGED <<maps, listening, responding, jobs, loading, calls, told, fired>>

(* FAULT: the name keeps its id. *)
ForgetJson(n) ==
  /\ pc[n] = "deleted"
  /\ taskJsonMap' = {x \in taskJsonMap : x[1] # task[n]}
  /\ requestMap' = [x \in Names \X Round |-> 0]
  /\ Answer(n)
  /\ UNCHANGED <<taskMap, listening, responding, jobs, loading, chain, calls, faults,
                 told, fired>>

(* FAULT: the payment of the task is not made any more. *)
ForgetJobs(n) ==
  /\ pc[n] = "deleted"
  /\ taskMap' = [taskMap EXCEPT ![name[n]] = 0]
  /\ taskJsonMap' = {x \in taskJsonMap : x[1] # task[n]}
  /\ requestMap' = [x \in Names \X Round |-> 0]
  /\ jobs' = {j \in jobs : j.task # task[n]}
  /\ Answer(n)
  /\ UNCHANGED <<listening, responding, loading, chain, calls, faults, told, fired>>

(* ... and forgotten once the chain has deleted it, by name and by id, with the
   requests of all tasks.  Its payment stays scheduled. *)
Forget(n) ==
  /\ pc[n] = "deleted"
  /\ taskMap' = [taskMap EXCEPT ![name[n]] = 0]
  /\ taskJsonMap' = {x \in taskJsonMap : x[1] # task[n]}
  /\ requestMap' = [x \in Names \X Round |-> 0]
  /\ Answer(n)
  /\ UNCHANGED <<listening, responding, jobs, loading, chain, calls, faults, told, fired>>

--------------------------------------------------------------------------------
(* service.js: a call under an agreement failed or came late.  The provider stops
   listening and the task gets a new round; what became of that is not looked at
   before it is proposed again. *)
Recover(n) ==
  /\ Call(n)
  /\ \E x \in taskJsonMap, p \in Providers :
       /\ listening' = listening \ {<<x[2], p>>}
       /\ Enter(n, "changeState", x[2], x[1], 0, 1)
  /\ UNCHANGED <<maps, responding, jobs, loading, chain, faults, told, fired>>

(* /new_round, for a task that the requester names by its id. *)
NewRoundRoute(n) ==
  /\ Call(n)
  /\ \E t \in TaskId :
       state[t] # "none" /\ Enter(n, "changeState", AnyName, t, 0, 0)
  /\ UNCHANGED <<maps, listening, responding, jobs, loading, chain, faults, told, fired>>

AfterNewRound(n) ==
  \/ item[n] = 1 /\ BeginRound(n, name[n], 0)
  \/ item[n] = 0 /\ Answer(n)

(* newround: back to instantiation, then drop requests and responses. *)
Instantiate(t) ==
  /\ state' = [state EXCEPT ![t] = "instantiation"]
  /\ UNCHANGED <<nameOf, requests, written, responses, agreements, paid>>

ChangeState(n) ==
  /\ pc[n] = "changeState"
  /\ Invoke(state[task[n]] \in {"instantiation", "acceptation"}, Instantiate(task[n]),
            Move(n, "drop"), AfterNewRound(n))
  /\ UNCHANGED <<maps, listening, responding, jobs, loading, calls, told, fired>>

DropRequests(t) == Without(t) /\ UNCHANGED <<state, nameOf, written, agreements, paid>>

Drop(n) ==
  /\ pc[n] = "drop"
  /\ Invoke(TRUE, DropRequests(task[n]), AfterNewRound(n), AfterNewRound(n))
  /\ UNCHANGED <<maps, listening, responding, jobs, loading, calls, told, fired>>

--------------------------------------------------------------------------------
(* The gateway stops and starts: what was in memory is lost, jobs included. *)
Restart ==
  /\ Fault
  /\ ForgetMemory
  /\ phase' = "query"
  /\ told' = {}
  /\ UNCHANGED <<chain, calls, fired>>

(* initialize asks the chain for its tasks, while handlers run already; a query that
   fails leaves the maps empty. *)
QueryTask ==
  /\ phase = "query"
  /\ \/ phase' = "up" /\ UNCHANGED snapshot /\ Fault
     \/ /\ phase' = "fill" /\ UNCHANGED faults
        /\ snapshot' = {t \in TaskId : state[t] \in {"instantiation", "acceptation"}}
  /\ UNCHANGED <<maps, listening, responding, jobs, pc, locals, chain, calls, told,
                 fired>>

(* Of two tasks with one name the map keeps one; later entries are overwritten. *)
FillMaps ==
  LET found(k) == {t \in snapshot : nameOf[t] = k}
  IN  /\ phase = "fill" /\ phase' = "up" /\ snapshot' = {}
      /\ \E last \in [Names -> 0 .. MaxTasks] :
           /\ \A k \in Names :
                IF found(k) = {} THEN last[k] = taskMap[k] ELSE last[k] \in found(k)
           /\ taskMap' = last
      /\ taskJsonMap' = taskJsonMap \cup {<<t, nameOf[t]>> : t \in snapshot}
      /\ UNCHANGED <<requestMap, listening, responding, jobs, pc, locals, chain, calls,
                     faults, told, fired>>

--------------------------------------------------------------------------------
Start(n) ==
  Propose(n) \/ WriteTaskRoute(n) \/ DeleteTaskRoute(n) \/ Recover(n) \/ NewRoundRoute(n)

Continue(n) ==
  \/ AddTask(n) \/ SetTask(n) \/ WriteRequest(n) \/ SetRequest(n) \/ Emit(n)
  \/ Collect(n) \/ Check(n) \/ Schedule(n)
  \/ WriteTask(n) \/ DeleteTask(n) \/ Forget(n) \/ ChangeState(n) \/ Drop(n)

Next ==
  \/ \E n \in Handlers : Start(n) \/ Continue(n)
  \/ \E x \in responding : WriteResponse(x)
  \/ \E j \in jobs : ConfirmPay(j)
  \/ RespondByHand \/ WriteRequestByHand \/ WriteResponseByHand \/ CheckByHand
  \/ SetListener \/ ScheduledTransfer
  \/ Restart \/ QueryTask \/ FillMaps

(* Every invocation ends (Transactions, Settles), and every timer fires. *)
Fairness == \A n \in Handlers : WF_vars(Continue(n))

Spec     == Init /\ [][Next]_vars
FairSpec == Spec /\ Fairness

--------------------------------------------------------------------------------
(* request.js:135: a name that has a task has its JSON too, under the same name, as
   recovery relies on; also when tasks are written, deleted and loaded at once. *)
MapsAgree ==
  \A k \in Names : taskMap[k] # 0 => <<taskMap[k], k>> \in taskJsonMap

(* request.js:189, 202: nothing is scheduled or paid but what was agreed on the chain,
   whatever answers were lost and whoever negotiated at the same time; and what is paid
   is an agreement whose time has come, or a later one of the same task: confirmPay is
   only given the task. *)
JobsFollowAgreements ==
  /\ \A j \in jobs \cup fired \cup paid : j.agreement \in 1 .. agreements[j.task]
  /\ \A p \in paid : \E j \in fired : j.task = p.task /\ j.agreement <= p.agreement

(* An agreement is answered to one negotiation only, though several may work on the
   same task, and its payment is scheduled by that one. *)
ToldOnce ==
  \A n \in Handlers : pc[n] = "agreed" =>
    /\ Agreement(n) \notin told
    /\ \A m \in Handlers \ {n} : pc[m] = "agreed" => Agreement(m) # Agreement(n)

(* request.js:202: an agreement that was answered keeps its job until its time has
   come, unless the gateway is started again: no later negotiation, deletion or recovery
   of the task takes the job away.  (The payment itself may then fail, and is not tried
   again.) *)
DueIsScheduled == told \subseteq jobs \cup fired

(* request.js:201, "carry out the final transfer at the scheduled time" (in Chinese):
   the transfer of every job is at least tried. *)
AgreementsArePaid == [][\A j \in jobs : j \in jobs' \cup fired']_vars

(* Every handler answers in the end: a negotiation does not go through its rounds for
   ever, whatever fails. *)
Terminates == \A n \in Handlers : []<>(pc[n] = "idle")

================================================================================
