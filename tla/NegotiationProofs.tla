--------------------------- MODULE NegotiationProofs ---------------------------
(***************************************************************************)
(* Proofs about Negotiation, for any number of handlers, names, providers, *)
(* rounds, tasks and faults: its types, that names and their tasks agree,  *)
(* that payments follow agreements, and that an agreement is answered to   *)
(* one negotiation and keeps its job until it is due.                      *)
(***************************************************************************)
EXTENDS Negotiation, TLAPS

--------------------------------------------------------------------------------
(* The parts of TypeOK: memory, the handlers, the chain, and what is counted. *)
MapsTyped ==
  /\ taskMap \in [Names -> 0 .. MaxTasks]
  /\ taskJsonMap \subseteq TaskId \X Names
  /\ requestMap \in [Names \X Round -> 0 .. MaxRequests]

MemoryTyped ==
  /\ listening \subseteq Names \X Providers
  /\ responding \subseteq [task : TaskId, request : RequestId, provider : Providers]
  /\ jobs \subseteq Payment
  /\ phase \in {"query", "fill", "up"} /\ snapshot \subseteq TaskId
  /\ told \subseteq Payment /\ fired \subseteq Payment

LocalsTyped ==
  /\ pc \in [Handlers -> Labels]
  /\ name \in [Handlers -> Names]
  /\ task \in [Handlers -> 0 .. MaxTasks]
  /\ round \in [Handlers -> 0 .. LastRound + 1]
  /\ item \in [Handlers -> Nat]

ChainTyped ==
  /\ state \in [TaskId -> {"none", "instantiation", "acceptation", "deleted"}]
  /\ nameOf \in [TaskId -> Names]
  /\ requests \subseteq [task : TaskId, id : RequestId] /\ responses \subseteq RequestId
  /\ written \in 0 .. MaxRequests
  /\ agreements \in [TaskId -> Nat] /\ paid \subseteq Payment

CountsTyped == calls \in 0 .. MaxCalls /\ faults \in 0 .. MaxFaults

(* TypeOK is the conjunction of its parts. *)
LEMMA TypeParts ==
  TypeOK <=> MapsTyped /\ MemoryTyped /\ LocalsTyped /\ ChainTyped /\ CountsTyped
  BY DEF TypeOK, MapsTyped, MemoryTyped, LocalsTyped, ChainTyped, CountsTyped

(* What a handler at a label needs of its locals, without which the types do not last:
   a task it works on, a round of the strategy, the request it wrote. *)
Fits(to, t, r, i) ==
  /\ to \in {"added", "writeRequest", "wrote", "agreed", "deleteTask", "deleted",
             "changeState", "drop"} => t \in TaskId
  /\ to \in {"writeRequest", "wrote", "emit", "collect", "check"} => r \in Round
  /\ to = "wrote" => i \in RequestId
  /\ to \in {"changeState", "drop"} => i \in {0, 1}

LocalsFit == \A n \in Handlers : Fits(pc[n], task[n], round[n], item[n])

(* There is a name that a handler without one can be given. *)
LEMMA AnyNameExists == AnyName \in Names
  BY NegotiationAssumption DEF AnyName

(* What is always a number of a task, a round and a request. *)
LEMMA Numbers ==
  /\ 0 \in 0 .. MaxTasks /\ TaskId \subseteq 0 .. MaxTasks
  /\ 0 \in Round /\ Round \subseteq 0 .. LastRound + 1 /\ \A r \in Round : r + 1 \in 0 .. LastRound + 1
  /\ 0 \in 0 .. MaxRequests /\ RequestId \subseteq 0 .. MaxRequests /\ RequestId \subseteq Nat
  /\ 0 .. MaxTasks = TaskId \cup {0} /\ 0 .. MaxRequests = RequestId \cup {0}
  /\ TaskId \subseteq Nat
  BY NegotiationAssumption DEF TaskId, RequestId, Round

--------------------------------------------------------------------------------
(* A handler that enters a label with locals that fit it keeps the types. *)
LEMMA EnterTyped ==
  ASSUME LocalsTyped, LocalsFit, NEW n \in Handlers, NEW to \in Labels, NEW k \in Names,
         NEW t \in 0 .. MaxTasks, NEW r \in 0 .. LastRound + 1, NEW i \in Nat,
         Fits(to, t, r, i), Enter(n, to, k, t, r, i)
  PROVE  LocalsTyped' /\ LocalsFit'
<1>1. LocalsTyped'
  BY DEF LocalsTyped, Enter
<1>2. \A m \in Handlers :
        IF m = n
          THEN pc'[m] = to /\ task'[m] = t /\ round'[m] = r /\ item'[m] = i
          ELSE UNCHANGED <<pc[m], task[m], round[m], item[m]>>
  BY DEF LocalsTyped, Enter
<1>3. LocalsFit'
  BY <1>2 DEF LocalsFit, Fits
<1> QED
  BY <1>1, <1>3

(* A handler that answers keeps the types of the locals and what they fit. *)
LEMMA AnswerTyped ==
  ASSUME LocalsTyped, LocalsFit, NEW n \in Handlers, Answer(n)
  PROVE  LocalsTyped' /\ LocalsFit'
<1>1. Fits("idle", 0, 0, 0) /\ "idle" \in Labels
  BY DEF Fits, Labels
<1> QED
  BY <1>1, AnyNameExists, Numbers, EnterTyped DEF Answer

(* So does one that goes on to a point its locals fit. *)
LEMMA MoveTyped ==
  ASSUME LocalsTyped, LocalsFit, NEW n \in Handlers, NEW to \in Labels,
         Fits(to, task[n], round[n], item[n]), Move(n, to)
  PROVE  LocalsTyped' /\ LocalsFit'
<1>1. LocalsTyped'
  BY DEF LocalsTyped, Move, locals
<1>2. \A m \in Handlers : pc'[m] = IF m = n THEN to ELSE pc[m]
  BY DEF LocalsTyped, Move
<1>3. LocalsFit'
  BY <1>2 DEF LocalsFit, Fits, Move, locals
<1> QED
  BY <1>1, <1>3

(* So does one that asks for a round. *)
LEMMA AskRoundTyped ==
  ASSUME LocalsTyped, LocalsFit, NEW n \in Handlers, NEW k \in Names, NEW t \in TaskId,
         NEW r \in 0 .. LastRound + 1, AskRound(n, k, t, r)
  PROVE  LocalsTyped' /\ LocalsFit'
<1>1. ASSUME r \in Round PROVE Fits("writeRequest", t, r, 0)
  BY <1>1 DEF Fits
<1>2. "writeRequest" \in Labels /\ t \in 0 .. MaxTasks
  BY Numbers DEF Labels
<1> QED
  BY <1>1, <1>2, AnswerTyped, EnterTyped DEF AskRound

(* So does one that begins a round. *)
LEMMA BeginRoundTyped ==
  ASSUME LocalsTyped, LocalsFit, MapsTyped, NEW n \in Handlers, NEW k \in Names,
         NEW r \in 0 .. LastRound + 1, BeginRound(n, k, r)
  PROVE  LocalsTyped' /\ LocalsFit'
<1>1. "addTask" \in Labels /\ Fits("addTask", 0, r, 0)
  BY DEF Labels, Fits
<1>2. ASSUME taskMap[k] # 0 PROVE taskMap[k] \in TaskId
  BY <1>2, Numbers DEF MapsTyped
<1> QED
  BY <1>1, <1>2, Numbers, EnterTyped, AskRoundTyped DEF BeginRound

(* A fault is counted within its bound. *)
LEMMA FaultTyped ==
  ASSUME CountsTyped, Fault \/ UNCHANGED faults
  PROVE  faults' \in 0 .. MaxFaults
  BY NegotiationAssumption DEF CountsTyped, Fault

(* A call is counted within its bound. *)
LEMMA CallTyped ==
  ASSUME CountsTyped, NEW n \in Handlers, Call(n), UNCHANGED faults
  PROVE  CountsTyped'
  BY NegotiationAssumption DEF CountsTyped, Call

(* What the chaincode does to a task keeps the types of the chain. *)
LEMMA ChainEffects ==
  ASSUME ChainTyped, LocalsTyped, NEW t \in TaskId,
         \/ \E n \in Handlers : NewTask(n, t)
         \/ NewRequest(t) \/ Agree(t) \/ Delete(t) \/ Instantiate(t) \/ DropRequests(t)
         \/ Pay(t)
  PROVE  ChainTyped'
<1>1. CASE \E n \in Handlers : NewTask(n, t)
  BY <1>1 DEF NewTask, ChainTyped, LocalsTyped
<1>2. CASE NewRequest(t)
  <2>1. written' \in RequestId /\ written' \in 0 .. MaxRequests
    BY <1>2, NegotiationAssumption DEF NewRequest, ChainTyped, RequestId
  <2> QED
    BY <1>2, <2>1 DEF NewRequest, ChainTyped
<1>3. CASE Agree(t)
  BY <1>3 DEF Agree, ChainTyped
<1>4. ASSUME Without(t)
      PROVE  /\ requests' \subseteq [task : TaskId, id : RequestId]
             /\ responses' \subseteq RequestId
  BY <1>4 DEF Without, ChainTyped
<1>5. CASE Delete(t)
  BY <1>4, <1>5 DEF Delete, ChainTyped
<1>6. CASE Instantiate(t)
  BY <1>6 DEF Instantiate, ChainTyped
<1>7. CASE DropRequests(t)
  BY <1>4, <1>7 DEF DropRequests, ChainTyped
<1>8. CASE Pay(t)
  <2>1. [task |-> t, agreement |-> agreements[t]] \in Payment
    BY DEF ChainTyped, Payment
  <2> QED
    BY <1>8, <2>1 DEF Pay, ChainTyped
<1> QED
  BY <1>1, <1>2, <1>3, <1>5, <1>6, <1>7, <1>8

(* What does not change keeps its types. *)
LEMMA ChainUntouched == ASSUME ChainTyped, UNCHANGED chain PROVE ChainTyped'
  BY DEF ChainTyped, chain

(* A step that leaves a part of the state alone keeps its types: the maps of requests, *)
LEMMA MapsUntouched == ASSUME MapsTyped, UNCHANGED maps PROVE MapsTyped'
  BY DEF MapsTyped, maps

(* what the process remembers, *)
LEMMA MemoryUntouched ==
  ASSUME MemoryTyped, UNCHANGED <<listening, responding, jobs, loading, told, fired>>
  PROVE  MemoryTyped'
  BY DEF MemoryTyped, loading

(* the counts of calls and faults, *)
LEMMA CountsUntouched ==
  ASSUME CountsTyped, UNCHANGED calls, Fault \/ UNCHANGED faults
  PROVE  CountsTyped'
  BY FaultTyped DEF CountsTyped

(* and the locals of the handlers. *)
LEMMA LocalsUntouched ==
  ASSUME LocalsTyped, LocalsFit, UNCHANGED <<pc, locals>>
  PROVE  LocalsTyped' /\ LocalsFit'
  BY DEF LocalsTyped, LocalsFit, Fits, locals

--------------------------------------------------------------------------------
Fit == TypeOK /\ LocalsFit

(* A new request to the gateway finds its handler free. *)
LEMMA StartTyped == ASSUME Fit, NEW n \in Handlers, Start(n) PROVE Fit'
<1>1. MapsTyped /\ MemoryTyped /\ LocalsTyped /\ ChainTyped /\ CountsTyped /\ LocalsFit
  BY TypeParts DEF Fit
<1>2. /\ UNCHANGED <<maps, responding, jobs, loading, chain, faults, told, fired>>
      /\ listening' \subseteq listening
  BY <1>1 DEF Start, Propose, WriteTaskRoute, DeleteTaskRoute, Recover, NewRoundRoute
<1>3. MapsTyped' /\ ChainTyped' /\ MemoryTyped'
  BY <1>1, <1>2, MapsUntouched, ChainUntouched DEF MemoryTyped, loading
<1>4. Call(n)
  BY DEF Start, Propose, WriteTaskRoute, DeleteTaskRoute, Recover, NewRoundRoute
<1>5. CountsTyped'
  BY <1>1, <1>2, <1>4, CallTyped
<1>6. LocalsTyped' /\ LocalsFit'
  <2>1. CASE Propose(n)
    BY <1>1, <2>1, Numbers, BeginRoundTyped DEF Propose
  <2>2. CASE WriteTaskRoute(n)
    <3>1. "writeTask" \in Labels /\ Fits("writeTask", 0, 0, 0)
      BY DEF Labels, Fits
    <3> QED
      BY <1>1, <2>2, <3>1, Numbers, EnterTyped DEF WriteTaskRoute
  <2>3. CASE DeleteTaskRoute(n)
    <3>1. PICK k \in Names : taskMap[k] # 0 /\ Enter(n, "deleteTask", k, taskMap[k], 0, 0)
      BY <2>3 DEF DeleteTaskRoute
    <3>2. taskMap[k] \in TaskId
      BY <1>1, <3>1, Numbers DEF MapsTyped
    <3>3. "deleteTask" \in Labels /\ Fits("deleteTask", taskMap[k], 0, 0)
      BY <3>2 DEF Labels, Fits
    <3> QED
      BY <1>1, <3>1, <3>2, <3>3, Numbers, EnterTyped
  <2>4. CASE Recover(n)
    <3>1. PICK x \in taskJsonMap : Enter(n, "changeState", x[2], x[1], 0, 1)
      BY <2>4 DEF Recover
    <3>2. x[1] \in TaskId /\ x[2] \in Names
      BY <1>1 DEF MapsTyped
    <3>3. "changeState" \in Labels /\ Fits("changeState", x[1], 0, 1)
      BY <3>2 DEF Labels, Fits
    <3> QED
      BY <1>1, <3>1, <3>2, <3>3, Numbers, EnterTyped
  <2>5. CASE NewRoundRoute(n)
    <3>1. PICK t \in TaskId : Enter(n, "changeState", AnyName, t, 0, 0)
      BY <2>5 DEF NewRoundRoute
    <3>2. "changeState" \in Labels /\ Fits("changeState", t, 0, 0)
      BY DEF Labels, Fits
    <3> QED
      BY <1>1, <3>1, <3>2, Numbers, AnyNameExists, EnterTyped
  <2> QED
    BY <2>1, <2>2, <2>3, <2>4, <2>5 DEF Start
<1> QED
  BY <1>3, <1>5, <1>6
     DEF Fit, TypeOK, MapsTyped, MemoryTyped, LocalsTyped, ChainTyped, CountsTyped

(* The next round of a handler is one the strategy may have, and an answer to a new
   round proposes the task again or ends. *)
LEMMA AfterNewRoundTyped ==
  ASSUME LocalsTyped, LocalsFit, MapsTyped, NEW n \in Handlers, AfterNewRound(n)
  PROVE  LocalsTyped' /\ LocalsFit'
<1>1. name[n] \in Names
  BY DEF LocalsTyped
<1> QED
  BY <1>1, Numbers, BeginRoundTyped, AnswerTyped DEF AfterNewRound

(* The steps in which a handler invokes the chaincode keep the types. *)
LEMMA InvocationsTyped ==
  ASSUME Fit, NEW n \in Handlers,
         \/ AddTask(n) \/ WriteRequest(n) \/ Check(n) \/ WriteTask(n) \/ DeleteTask(n)
         \/ ChangeState(n) \/ Drop(n)
  PROVE  Fit'
<1>1. MapsTyped /\ MemoryTyped /\ LocalsTyped /\ ChainTyped /\ CountsTyped /\ LocalsFit
  BY TypeParts DEF Fit
<1>2. /\ UNCHANGED <<maps, listening, responding, jobs, loading, calls, told, fired>>
      /\ Fault \/ UNCHANGED faults
  BY DEF AddTask, WriteRequest, Check, WriteTask, DeleteTask, ChangeState, Drop, Invoke
<1>3. MapsTyped' /\ MemoryTyped' /\ CountsTyped'
  BY <1>1, <1>2, MapsUntouched, MemoryUntouched, CountsUntouched
<1>4. /\ name[n] \in Names /\ task[n] \in 0 .. MaxTasks /\ round[n] \in 0 .. LastRound + 1
      /\ Fits(pc[n], task[n], round[n], item[n])
  BY <1>1 DEF LocalsTyped, LocalsFit
<1>5. FreeIds \subseteq TaskId
  BY DEF FreeIds
<1>6. ASSUME Answer(n) PROVE LocalsTyped' /\ LocalsFit'
  BY <1>1, <1>6, AnswerTyped
<1>7. CASE AddTask(n) \/ WriteTask(n)
  <2>1. ChainTyped'
    <3>1. UNCHANGED chain \/ \E t \in TaskId : NewTask(n, t)
      BY <1>5, <1>7 DEF AddTask, WriteTask, Invoke
    <3> QED
      BY <1>1, <3>1, ChainEffects, ChainUntouched
  <2>2. ASSUME NEW t \in TaskId, Enter(n, "added", name[n], t, round[n], 0)
        PROVE  LocalsTyped' /\ LocalsFit'
    <3>1. "added" \in Labels /\ Fits("added", t, round[n], 0)
      BY DEF Labels, Fits
    <3> QED
      BY <1>1, <1>4, <2>2, <3>1, Numbers, EnterTyped
  <2>3. Answer(n) \/ \E t \in TaskId : Enter(n, "added", name[n], t, round[n], 0)
    BY <1>5, <1>7 DEF AddTask, WriteTask, Invoke
  <2>4. LocalsTyped' /\ LocalsFit'
    BY <1>6, <2>2, <2>3
  <2> QED
    BY <1>3, <2>1, <2>4
       DEF Fit, TypeOK, MapsTyped, MemoryTyped, LocalsTyped, ChainTyped, CountsTyped
<1>8. CASE WriteRequest(n)
  <2>1. task[n] \in TaskId /\ round[n] \in Round
    BY <1>4, <1>8 DEF WriteRequest, Fits
  <2>2. \/ UNCHANGED chain /\ Answer(n)
        \/ NewRequest(task[n]) /\ Answer(n)
        \/ NewRequest(task[n]) /\ Enter(n, "wrote", name[n], task[n], round[n], written')
    BY <1>8 DEF WriteRequest, Invoke
  <2>3. ChainTyped'
    BY <1>1, <2>1, <2>2, ChainEffects, ChainUntouched
  <2>4. ASSUME NewRequest(task[n]), Enter(n, "wrote", name[n], task[n], round[n], written')
        PROVE  LocalsTyped' /\ LocalsFit'
    <3>1. PICK i : i = written'
      OBVIOUS
    <3>2. i \in RequestId
      BY <1>1, <2>4, <3>1, NegotiationAssumption DEF NewRequest, ChainTyped, RequestId
    <3>3. "wrote" \in Labels /\ Fits("wrote", task[n], round[n], i)
      BY <2>1, <3>2 DEF Labels, Fits
    <3> QED
      BY <1>1, <1>4, <2>4, <3>1, <3>2, <3>3, Numbers, EnterTyped
  <2>5. LocalsTyped' /\ LocalsFit'
    BY <1>6, <2>2, <2>4
  <2> QED
    BY <1>3, <2>3, <2>5
       DEF Fit, TypeOK, MapsTyped, MemoryTyped, LocalsTyped, ChainTyped, CountsTyped
<1>9. CASE Check(n)
  <2>1. round[n] \in Round /\ round[n] + 1 \in 0 .. LastRound + 1
    BY <1>4, <1>9, Numbers DEF Check, Fits
  <2>2. ASSUME Agreeable(task[n]) PROVE task[n] \in TaskId
    BY <1>4, <2>2, Numbers DEF Agreeable
  <2>3. \/ UNCHANGED chain /\ NextRound(n)
        \/ Agreeable(task[n]) /\ Agree(task[n]) /\ NextRound(n)
        \/ /\ Agreeable(task[n]) /\ Agree(task[n])
           /\ Enter(n, "agreed", name[n], task[n], round[n], agreements'[task[n]])
    BY <1>9 DEF Check, Invoke
  <2>4. ChainTyped'
    BY <1>1, <2>2, <2>3, ChainEffects, ChainUntouched
  <2>5. ASSUME Agreeable(task[n]),
               Enter(n, "agreed", name[n], task[n], round[n], agreements'[task[n]])
        PROVE  LocalsTyped' /\ LocalsFit'
    <3>1. PICK i : i = agreements'[task[n]]
      OBVIOUS
    <3>2. i \in Nat
      BY <2>2, <2>4, <2>5, <3>1 DEF ChainTyped
    <3>3. "agreed" \in Labels /\ Fits("agreed", task[n], round[n], i)
      BY <2>2, <2>5 DEF Labels, Fits
    <3> QED
      BY <1>1, <1>4, <2>5, <3>1, <3>2, <3>3, EnterTyped
  <2>6. LocalsTyped' /\ LocalsFit'
    BY <1>1, <1>4, <2>1, <2>3, <2>5, BeginRoundTyped DEF NextRound
  <2> QED
    BY <1>3, <2>4, <2>6
       DEF Fit, TypeOK, MapsTyped, MemoryTyped, LocalsTyped, ChainTyped, CountsTyped
<1>10. CASE DeleteTask(n) \/ ChangeState(n) \/ Drop(n)
  <2>1. task[n] \in TaskId
    BY <1>4, <1>10 DEF DeleteTask, ChangeState, Drop, Fits
  <2>2. UNCHANGED chain \/ Delete(task[n]) \/ Instantiate(task[n]) \/ DropRequests(task[n])
    BY <1>10 DEF DeleteTask, ChangeState, Drop, Invoke
  <2>3. ChainTyped'
    BY <1>1, <2>1, <2>2, ChainEffects, ChainUntouched
  <2>4. \/ pc[n] = "deleteTask" /\ Move(n, "deleted")
        \/ pc[n] = "changeState" /\ Move(n, "drop")
        \/ Answer(n) \/ AfterNewRound(n)
    BY <1>10 DEF DeleteTask, ChangeState, Drop, Invoke
  <2>5. /\ {"deleted", "drop"} \subseteq Labels
        /\ pc[n] = "deleteTask" => Fits("deleted", task[n], round[n], item[n])
        /\ pc[n] = "changeState" => Fits("drop", task[n], round[n], item[n])
    BY <1>4 DEF Labels, Fits
  <2>6. LocalsTyped' /\ LocalsFit'
    BY <1>1, <1>6, <2>4, <2>5, MoveTyped, AfterNewRoundTyped
  <2> QED
    BY <1>3, <2>3, <2>6
       DEF Fit, TypeOK, MapsTyped, MemoryTyped, LocalsTyped, ChainTyped, CountsTyped
<1> QED
  BY <1>7, <1>8, <1>9, <1>10

(* A response is to a task and a request that the maps have. *)
LEMMA RespondTyped ==
  ASSUME MapsTyped, NEW k \in Names, NEW r \in Round, NEW p \in Providers
  PROVE  Respond(k, r, p) \subseteq [task : TaskId, request : RequestId, provider : Providers]
<1>1. taskMap[k] \in TaskId \cup {0} /\ requestMap[<<k, r>>] \in RequestId \cup {0}
  BY Numbers DEF MapsTyped
<1>2. 0 \notin TaskId /\ 0 \notin RequestId
  BY DEF TaskId, RequestId
<1> QED
  BY <1>1, <1>2 DEF Respond

(* The steps in between, in the memory of the gateway, keep the types. *)
LEMMA MemoryStepsTyped ==
  ASSUME Fit, NEW n \in Handlers,
         \/ SetTask(n) \/ SetRequest(n) \/ Emit(n) \/ Collect(n) \/ Schedule(n) \/ Forget(n)
  PROVE  Fit'
<1>1. MapsTyped /\ MemoryTyped /\ LocalsTyped /\ ChainTyped /\ CountsTyped /\ LocalsFit
  BY TypeParts DEF Fit
<1>2. UNCHANGED <<chain, calls, faults, loading>>
  BY DEF SetTask, SetRequest, Emit, Collect, Schedule, Forget
<1>3. ChainTyped' /\ CountsTyped'
  BY <1>1, <1>2, ChainUntouched, CountsUntouched
<1>4. /\ name[n] \in Names /\ task[n] \in 0 .. MaxTasks /\ round[n] \in 0 .. LastRound + 1
      /\ item[n] \in Nat /\ Fits(pc[n], task[n], round[n], item[n])
  BY <1>1 DEF LocalsTyped, LocalsFit
<1>5. MapsTyped'
  <2>1. CASE UNCHANGED maps
    BY <1>1, <2>1, MapsUntouched
  <2>2. CASE SetTask(n)
    <3>1. task[n] \in TaskId
      BY <1>4, <2>2 DEF SetTask, Fits
    <3> QED
      BY <1>1, <1>4, <2>2, <3>1 DEF SetTask, MapsTyped
  <2>3. CASE SetRequest(n)
    <3>1. item[n] \in 0 .. MaxRequests
      BY <1>4, <2>3, Numbers DEF SetRequest, Fits
    <3> QED
      BY <1>1, <2>3, <3>1 DEF SetRequest, MapsTyped
  <2>4. CASE Forget(n)
    BY <1>1, <2>4, Numbers DEF Forget, MapsTyped
  <2> QED
    BY <2>1, <2>2, <2>3, <2>4 DEF Emit, Collect, Schedule
<1>6. MemoryTyped'
  <2>1. CASE UNCHANGED <<listening, responding, jobs, told, fired>>
    BY <1>1, <1>2, <2>1, MemoryUntouched
  <2>2. CASE Emit(n)
    <3>1. round[n] \in Round
      BY <1>4, <2>2 DEF Emit, Fits
    <3>2. PICK who \in SUBSET {p \in Providers : <<name[n], p>> \in listening} :
            responding' = responding \cup UNION {Respond(name[n], round[n], p) : p \in who}
      BY <2>2 DEF Emit
    <3>3. UNION {Respond(name[n], round[n], p) : p \in who} \subseteq
            [task : TaskId, request : RequestId, provider : Providers]
      <4>1. ASSUME NEW p \in who
            PROVE  Respond(name[n], round[n], p) \subseteq
                     [task : TaskId, request : RequestId, provider : Providers]
        BY <1>1, <1>4, <3>1, RespondTyped
      <4> HIDE DEF Respond
      <4> QED
        BY <4>1
    <3> QED
      BY <1>1, <1>2, <2>2, <3>2, <3>3 DEF Emit, MemoryTyped, loading
  <2>3. CASE Schedule(n)
    <3>1. Agreement(n) \in Payment
      BY <1>4, <2>3 DEF Schedule, Fits, Agreement, Payment
    <3> QED
      BY <1>1, <1>2, <2>3, <3>1 DEF Schedule, MemoryTyped, loading
  <2> QED
    BY <2>1, <2>2, <2>3 DEF SetTask, SetRequest, Collect, Forget
<1>7. LocalsTyped' /\ LocalsFit'
  <2>1. CASE SetTask(n)
    <3>1. task[n] \in TaskId
      BY <1>4, <2>1 DEF SetTask, Fits
    <3> QED
      BY <1>1, <1>4, <2>1, <3>1, AskRoundTyped DEF SetTask
  <2>2. CASE SetRequest(n)
    <3>1. "emit" \in Labels /\ Fits("emit", task[n], round[n], item[n])
      BY <1>4, <2>2 DEF SetRequest, Labels, Fits
    <3> QED
      BY <1>1, <2>2, <3>1, MoveTyped DEF SetRequest
  <2>3. CASE Emit(n)
    <3>1. "collect" \in Labels /\ Fits("collect", task[n], round[n], item[n])
      BY <1>4, <2>3 DEF Emit, Labels, Fits
    <3> QED
      BY <1>1, <2>3, <3>1, MoveTyped DEF Emit
  <2>4. CASE Collect(n)
    <3>1. "check" \in Labels /\ Fits("check", taskMap[name[n]], round[n], 0)
      BY <1>4, <2>4 DEF Collect, Labels, Fits
    <3>2. taskMap[name[n]] \in 0 .. MaxTasks
      BY <1>1, <1>4 DEF MapsTyped
    <3> QED
      BY <1>1, <1>4, <2>4, <3>1, <3>2, EnterTyped DEF Collect
  <2>5. CASE Schedule(n) \/ Forget(n)
    BY <1>1, <2>5, AnswerTyped DEF Schedule, Forget
  <2> QED
    BY <2>1, <2>2, <2>3, <2>4, <2>5
<1> QED
  BY <1>3, <1>5, <1>6, <1>7
     DEF Fit, TypeOK, MapsTyped, MemoryTyped, LocalsTyped, ChainTyped, CountsTyped

(* So do the steps that no negotiation takes. *)
LEMMA OtherStepsTyped ==
  ASSUME Fit,
         \/ \E x \in responding : WriteResponse(x)
         \/ \E j \in jobs : ConfirmPay(j)
         \/ RespondByHand \/ WriteRequestByHand \/ WriteResponseByHand \/ CheckByHand
         \/ SetListener \/ ScheduledTransfer
  PROVE  Fit'
<1>1. MapsTyped /\ MemoryTyped /\ LocalsTyped /\ ChainTyped /\ CountsTyped /\ LocalsFit
  BY TypeParts DEF Fit
<1>2. UNCHANGED <<maps, loading, pc, locals>>
  BY DEF WriteResponse, ConfirmPay, RespondByHand, WriteRequestByHand, WriteResponseByHand,
         CheckByHand, SetListener, ScheduledTransfer
<1>3. MapsTyped' /\ LocalsTyped' /\ LocalsFit'
  BY <1>1, <1>2, MapsUntouched, LocalsUntouched
<1>4. CountsTyped'
  <2>1. \/ UNCHANGED calls /\ (Fault \/ UNCHANGED faults)
        \/ calls < MaxCalls /\ calls' = calls + 1 /\ UNCHANGED faults
    BY DEF WriteResponse, ConfirmPay, RespondByHand, WriteRequestByHand, WriteResponseByHand,
           CheckByHand, SetListener, ScheduledTransfer, Invoke
  <2> QED
    BY <1>1, <2>1, CountsUntouched, NegotiationAssumption DEF CountsTyped
<1>5. ChainTyped'
  <2>1. CASE \E x \in responding : WriteResponse(x)
    <3>1. PICK x \in responding : UNCHANGED chain \/ NewResponse(x)
      BY <2>1 DEF WriteResponse, Invoke
    <3>2. x.request \in RequestId
      BY <1>1 DEF MemoryTyped
    <3> QED
      BY <1>1, <3>1, <3>2, ChainUntouched DEF NewResponse, ChainTyped
  <2>2. CASE WriteRequestByHand \/ CheckByHand
    BY <1>1, <2>2, ChainEffects DEF WriteRequestByHand, CheckByHand
  <2>3. CASE \E j \in jobs : ConfirmPay(j)
    <3>1. PICK j \in jobs : UNCHANGED chain \/ Pay(j.task)
      BY <2>3 DEF ConfirmPay, Invoke
    <3>2. j.task \in TaskId
      BY <1>1 DEF MemoryTyped, Payment
    <3> QED
      BY <1>1, <3>1, <3>2, ChainUntouched, ChainEffects
  <2> QED
    BY <1>1, <2>1, <2>2, <2>3, ChainUntouched
       DEF RespondByHand, WriteResponseByHand, SetListener, ScheduledTransfer
<1>6. MemoryTyped'
  <2>1. CASE \E x \in responding : WriteResponse(x)
    BY <1>1, <1>2, <2>1 DEF WriteResponse, MemoryTyped, loading
  <2>2. CASE \E j \in jobs : ConfirmPay(j)
    BY <1>1, <1>2, <2>2 DEF ConfirmPay, MemoryTyped, loading
  <2>3. CASE RespondByHand
    <3>1. PICK k \in Names, r \in Round \ {0}, p \in Providers :
            responding' = responding \cup Respond(k, r, p)
      BY <2>3 DEF RespondByHand
    <3>2. Respond(k, r, p) \subseteq [task : TaskId, request : RequestId, provider : Providers]
      BY <1>1, RespondTyped
    <3> QED
      BY <1>1, <1>2, <2>3, <3>1, <3>2 DEF RespondByHand, MemoryTyped, loading
  <2>4. CASE WriteResponseByHand
    <3>1. PICK q \in requests, p \in Providers :
            responding' = responding \cup {[task |-> q.task, request |-> q.id, provider |-> p]}
      BY <2>4 DEF WriteResponseByHand
    <3>2. q.task \in TaskId /\ q.id \in RequestId
      BY <1>1 DEF ChainTyped
    <3> QED
      BY <1>1, <1>2, <2>4, <3>1, <3>2 DEF WriteResponseByHand, MemoryTyped, loading
  <2>5. CASE SetListener
    <3>1. listening' \subseteq Names \X Providers
      BY <1>1, <2>5 DEF SetListener, MemoryTyped
    <3> QED
      BY <1>1, <1>2, <2>5, <3>1 DEF SetListener, MemoryTyped, loading
  <2>6. CASE ScheduledTransfer
    <3>1. PICK t \in TaskId : \E a \in 1 .. agreements[t] :
            jobs' = jobs \cup {[task |-> t, agreement |-> a]}
      BY <2>6 DEF ScheduledTransfer
    <3>2. PICK a \in 1 .. agreements[t] : jobs' = jobs \cup {[task |-> t, agreement |-> a]}
      BY <3>1
    <3>3. [task |-> t, agreement |-> a] \in Payment
      BY <1>1 DEF ChainTyped, Payment
    <3> QED
      BY <1>1, <1>2, <2>6, <3>2, <3>3 DEF ScheduledTransfer, MemoryTyped, loading
  <2>7. CASE WriteRequestByHand \/ CheckByHand
    BY <1>1, <1>2, <2>7, MemoryUntouched DEF WriteRequestByHand, CheckByHand
  <2> QED
    BY <2>1, <2>2, <2>3, <2>4, <2>5, <2>6, <2>7
<1> QED
  BY <1>3, <1>4, <1>5, <1>6
     DEF Fit, TypeOK, MapsTyped, MemoryTyped, LocalsTyped, ChainTyped, CountsTyped

(* And a restart, and what initialize does after it. *)
LEMMA RestartTyped ==
  ASSUME Fit, Restart \/ QueryTask \/ FillMaps
  PROVE  Fit'
<1>1. MapsTyped /\ MemoryTyped /\ LocalsTyped /\ ChainTyped /\ CountsTyped /\ LocalsFit
  BY TypeParts DEF Fit
<1>2. ChainTyped' /\ CountsTyped'
  <2>1. UNCHANGED <<chain, calls>> /\ (Fault \/ UNCHANGED faults)
    BY DEF Restart, QueryTask, FillMaps
  <2> QED
    BY <1>1, <2>1, ChainUntouched, CountsUntouched
<1>3. CASE Restart
  <2>1. MapsTyped' /\ LocalsTyped' /\ MemoryTyped'
    BY <1>1, <1>3, Numbers, AnyNameExists
       DEF Restart, ForgetMemory, MapsTyped, LocalsTyped, MemoryTyped, Labels
  <2>2. LocalsFit'
    BY <1>3 DEF Restart, ForgetMemory, LocalsFit, Fits
  <2> QED
    BY <1>2, <2>1, <2>2
       DEF Fit, TypeOK, MapsTyped, MemoryTyped, LocalsTyped, ChainTyped, CountsTyped
<1>4. CASE QueryTask
  <2>1. MapsTyped' /\ LocalsTyped' /\ LocalsFit'
    BY <1>1, <1>4, MapsUntouched, LocalsUntouched DEF QueryTask
  <2>2. MemoryTyped'
    BY <1>1, <1>4 DEF QueryTask, MemoryTyped
  <2> QED
    BY <1>2, <2>1, <2>2
       DEF Fit, TypeOK, MapsTyped, MemoryTyped, LocalsTyped, ChainTyped, CountsTyped
<1>5. CASE FillMaps
  <2>1. LocalsTyped' /\ LocalsFit'
    BY <1>1, <1>5, LocalsUntouched DEF FillMaps
  <2>2. MemoryTyped'
    BY <1>1, <1>5 DEF FillMaps, MemoryTyped
  <2>3. {<<t, nameOf[t]>> : t \in snapshot} \subseteq TaskId \X Names
    BY <1>1 DEF MemoryTyped, ChainTyped
  <2>4. MapsTyped'
    BY <1>1, <1>5, <2>3 DEF FillMaps, MapsTyped
  <2> QED
    BY <1>2, <2>1, <2>2, <2>4
       DEF Fit, TypeOK, MapsTyped, MemoryTyped, LocalsTyped, ChainTyped, CountsTyped
<1> QED
  BY <1>3, <1>4, <1>5

(* The locals fit at the start. *)
LEMMA FitInit == Init => Fit
<1> SUFFICES ASSUME Init PROVE Fit
  OBVIOUS
<1>1. LocalsTyped /\ LocalsFit
  BY Numbers, AnyNameExists DEF Init, LocalsTyped, LocalsFit, Fits, Labels
<1>2. MapsTyped /\ MemoryTyped
  BY Numbers DEF Init, MapsTyped, MemoryTyped
<1>3. ChainTyped /\ CountsTyped
  BY NegotiationAssumption, AnyNameExists DEF Init, ChainTyped, CountsTyped
<1> QED
  BY <1>1, <1>2, <1>3, TypeParts DEF Fit

(* Every step keeps the types and what the locals fit. *)
LEMMA FitStep == Fit /\ [Next]_vars => Fit'
<1> SUFFICES ASSUME Fit, [Next]_vars PROVE Fit'
  OBVIOUS
<1>1. CASE UNCHANGED vars
  BY <1>1 DEF vars, maps, loading, locals, chain, Fit, TypeOK, LocalsFit, Fits
<1> QED
  BY <1>1, StartTyped, InvocationsTyped, MemoryStepsTyped, OtherStepsTyped, RestartTyped
     DEF Next, Continue

(* In every behaviour the types hold and the locals fit. *)
LEMMA Reachable == Spec => []Fit
  BY FitInit, FitStep, PTL DEF Spec

(* The variables have their types, always: among them, that what is paid for, responded
   to or remembered is a task of the chain. *)
THEOREM TypeCorrect == Spec => []TypeOK
<1>1. Fit => TypeOK
  BY DEF Fit
<1> QED
  BY <1>1, Reachable, PTL

--------------------------------------------------------------------------------
(* The chain knows a task under a name. *)
Known(t, k) == state[t] # "none" /\ nameOf[t] = k

(* What makes a name and its JSON agree although several handlers write, delete and
   load tasks at once: whoever remembers, adds or deletes the task of a name has one
   that the chain knows under that name, so that no deletion forgets the JSON of a task
   that another name stands for. *)
NamesKnown ==
  /\ \A k \in Names : taskMap[k] # 0 => Known(taskMap[k], k)
  /\ \A n \in Handlers :
       pc[n] \in {"added", "deleteTask", "deleted"} => Known(task[n], name[n])
  /\ \A t \in snapshot : state[t] # "none"
  /\ MapsAgree

(* What a step does to the states, names and agreements of the tasks, if anything. *)
LEMMA ChainChange ==
  ASSUME Fit, [Next]_vars
  PROVE  \/ UNCHANGED <<state, nameOf, agreements>>
         \/ \E n \in Handlers, u \in FreeIds : NewTask(n, u)
         \/ \E u \in TaskId :
              Agree(u) \/ Delete(u) \/ Instantiate(u) \/ DropRequests(u) \/ NewRequest(u)
<1>1. ChainTyped /\ LocalsTyped /\ LocalsFit
  BY TypeParts DEF Fit
<1>2. ASSUME NEW n \in Handlers, AddTask(n) \/ WriteTask(n)
      PROVE  UNCHANGED chain \/ \E u \in FreeIds : NewTask(n, u)
  BY <1>2 DEF AddTask, WriteTask, Invoke
<1>3. ASSUME NEW n \in Handlers,
             WriteRequest(n) \/ DeleteTask(n) \/ ChangeState(n) \/ Drop(n) \/ Check(n)
      PROVE  \/ UNCHANGED chain
             \/ \E u \in TaskId :
                  Agree(u) \/ Delete(u) \/ Instantiate(u) \/ DropRequests(u) \/ NewRequest(u)
  <2>1. ASSUME Check(n) PROVE UNCHANGED chain \/ (Agreeable(task[n]) /\ Agree(task[n]))
    BY <2>1 DEF Check, Invoke
  <2>2. Agreeable(task[n]) => task[n] \in TaskId
    BY <1>1, Numbers DEF Agreeable, LocalsTyped
  <2>3. ~Check(n) => task[n] \in TaskId
    BY <1>1, <1>3 DEF WriteRequest, DeleteTask, ChangeState, Drop, LocalsFit, Fits
  <2>4. ~Check(n) => \/ UNCHANGED chain
                     \/ NewRequest(task[n]) \/ Delete(task[n]) \/ Instantiate(task[n])
                     \/ DropRequests(task[n])
    BY <1>3 DEF WriteRequest, DeleteTask, ChangeState, Drop, Invoke
  <2> QED
    BY <2>1, <2>2, <2>3, <2>4
<1>4. ASSUME WriteRequestByHand \/ CheckByHand
      PROVE  \E u \in TaskId : NewRequest(u) \/ Agree(u)
  BY <1>4 DEF WriteRequestByHand, CheckByHand
<1>5. ASSUME NEW n \in Handlers,
             \/ Start(n) \/ SetTask(n) \/ SetRequest(n) \/ Emit(n) \/ Collect(n)
             \/ Schedule(n) \/ Forget(n)
      PROVE  UNCHANGED chain
  BY <1>5 DEF Start, Propose, WriteTaskRoute, DeleteTaskRoute, Recover, NewRoundRoute,
              SetTask, SetRequest, Emit, Collect, Schedule, Forget
<1>6. ASSUME \/ \E x \in responding : WriteResponse(x)
             \/ \E j \in jobs : ConfirmPay(j)
             \/ RespondByHand \/ WriteResponseByHand \/ SetListener \/ ScheduledTransfer
             \/ Restart \/ QueryTask \/ FillMaps \/ UNCHANGED vars
      PROVE  UNCHANGED <<state, nameOf, agreements>>
  BY <1>6 DEF WriteResponse, NewResponse, Invoke, ConfirmPay, Pay, RespondByHand,
              WriteResponseByHand, SetListener, ScheduledTransfer, Restart, QueryTask,
              FillMaps, vars, chain
<1>7. UNCHANGED chain => UNCHANGED <<state, nameOf, agreements>>
  BY DEF chain
<1> QED
  BY <1>2, <1>3, <1>4, <1>5, <1>6, <1>7 DEF Next, Continue

(* A task keeps its name: once the chain has it, it is never free again. *)
LEMMA ChainKeepsNames ==
  ASSUME Fit, [Next]_vars, NEW t \in TaskId, state[t] # "none"
  PROVE  state'[t] # "none" /\ nameOf'[t] = nameOf[t]
<1>1. ChainTyped
  BY TypeParts DEF Fit
<1>2. ASSUME NEW u \in TaskId,
             Agree(u) \/ Delete(u) \/ Instantiate(u) \/ DropRequests(u) \/ NewRequest(u)
      PROVE  state'[t] # "none" /\ nameOf'[t] = nameOf[t]
  BY <1>1, <1>2 DEF Agree, Delete, Instantiate, DropRequests, NewRequest, ChainTyped
<1>3. ASSUME NEW n \in Handlers, NEW u \in FreeIds, NewTask(n, u)
      PROVE  state'[t] # "none" /\ nameOf'[t] = nameOf[t]
  BY <1>1, <1>3 DEF NewTask, FreeIds, ChainTyped
<1> QED
  BY <1>2, <1>3, ChainChange

(* A step of one handler leaves the others where they are ... *)
LEMMA OneMoves ==
  ASSUME LocalsTyped, NEW m \in Handlers, Start(m) \/ Continue(m)
  PROVE  \A n \in Handlers \ {m} : UNCHANGED <<pc[n], name[n], task[n], round[n], item[n]>>
<1>1. ASSUME NEW to, NEW k, NEW t, NEW r, NEW i, Enter(m, to, k, t, r, i)
      PROVE  \A n \in Handlers \ {m} : UNCHANGED <<pc[n], name[n], task[n], round[n], item[n]>>
  BY <1>1 DEF Enter, LocalsTyped
<1>2. ASSUME NEW to, Move(m, to)
      PROVE  \A n \in Handlers \ {m} : UNCHANGED <<pc[n], name[n], task[n], round[n], item[n]>>
  BY <1>2 DEF Move, LocalsTyped, locals
<1>3. CASE Start(m)
  BY <1>1, <1>3
     DEF Start, Propose, BeginRound, AskRound, Answer, WriteTaskRoute, DeleteTaskRoute,
         Recover, NewRoundRoute
<1>4. CASE \/ AddTask(m) \/ SetTask(m) \/ WriteRequest(m) \/ SetRequest(m) \/ Emit(m)
           \/ Collect(m) \/ Schedule(m) \/ WriteTask(m) \/ DeleteTask(m) \/ Forget(m)
  BY <1>1, <1>2, <1>4
     DEF AddTask, SetTask, WriteRequest, SetRequest, Emit, Collect, Schedule, WriteTask,
         DeleteTask, Forget, Invoke, AskRound, Answer
<1>5. CASE Check(m) \/ ChangeState(m) \/ Drop(m)
  BY <1>1, <1>2, <1>5
     DEF Check, ChangeState, Drop, Invoke, NextRound, AfterNewRound, BeginRound, AskRound,
         Answer
<1> QED
  BY <1>3, <1>4, <1>5 DEF Continue

(* ... and only these steps go to labels where the name of a task, or an agreement, is at
   hand. *)
LEMMA LabelsEntered ==
  ASSUME LocalsTyped, NEW n \in Handlers, Start(n) \/ Continue(n)
  PROVE  /\ pc'[n] \in {"added", "deleteTask", "deleted"} =>
              AddTask(n) \/ DeleteTaskRoute(n) \/ DeleteTask(n)
         /\ pc'[n] = "agreed" => Check(n)
<1>1. ASSUME NEW to, NEW k, NEW t, NEW r, NEW i, Enter(n, to, k, t, r, i) PROVE pc'[n] = to
  BY <1>1 DEF Enter, LocalsTyped
<1>2. ASSUME NEW to, Move(n, to) PROVE pc'[n] = to
  BY <1>2 DEF Move, LocalsTyped
<1>3. ASSUME AddTask(n) \/ DeleteTaskRoute(n) \/ DeleteTask(n) PROVE pc'[n] # "agreed"
  BY <1>1, <1>2, <1>3 DEF AddTask, DeleteTaskRoute, DeleteTask, Invoke, Answer
<1>4. ASSUME Check(n) PROVE pc'[n] \notin {"added", "deleteTask", "deleted"}
  BY <1>1, <1>4 DEF Check, Invoke, NextRound, BeginRound, AskRound, Answer
<1>5. ASSUME \/ Propose(n) \/ WriteTaskRoute(n) \/ Recover(n) \/ NewRoundRoute(n)
             \/ SetTask(n) \/ WriteRequest(n) \/ SetRequest(n) \/ Emit(n) \/ Collect(n)
             \/ Schedule(n) \/ WriteTask(n) \/ Forget(n)
      PROVE  pc'[n] \notin {"added", "deleteTask", "deleted", "agreed"}
  BY <1>1, <1>2, <1>5
     DEF Propose, WriteTaskRoute, Recover, NewRoundRoute, SetTask, WriteRequest, SetRequest,
         Emit, Collect, Schedule, WriteTask, Forget, Invoke, BeginRound, AskRound, Answer
<1>6. ASSUME ChangeState(n) \/ Drop(n)
      PROVE  pc'[n] \notin {"added", "deleteTask", "deleted", "agreed"}
  BY <1>1, <1>2, <1>6
     DEF ChangeState, Drop, Invoke, AfterNewRound, BeginRound, AskRound, Answer
<1> QED
  BY <1>3, <1>4, <1>5, <1>6 DEF Start, Continue

(* The steps of no handler leave them all, or end them all. *)
LEMMA NoneMoves ==
  ASSUME [Next]_vars, ~\E n \in Handlers : Start(n) \/ Continue(n)
  PROVE  UNCHANGED <<pc, locals>> \/ (pc' = [n \in Handlers |-> "idle"] /\ told' = {})
  BY DEF Next, WriteResponse, ConfirmPay, RespondByHand, WriteRequestByHand,
         WriteResponseByHand, CheckByHand, SetListener, ScheduledTransfer, Restart,
         ForgetMemory, QueryTask, FillMaps, vars

(* What a handler at one of the three labels has: it got there with a task the chain
   knows under its name. *)
LEMMA HandlersKnow ==
  ASSUME Fit, NamesKnown, [Next]_vars, NEW n \in Handlers,
         pc'[n] \in {"added", "deleteTask", "deleted"}
  PROVE  Known(task[n], name[n])' /\ task'[n] \in TaskId
<1>0. LocalsTyped /\ LocalsFit /\ MapsTyped /\ LocalsFit' /\ ChainTyped
  BY FitStep, TypeParts DEF Fit
<1>1. task'[n] \in TaskId
  BY <1>0 DEF LocalsFit, Fits
<1>2. ASSUME NEW t \in TaskId, NEW k, Known(t, k), task'[n] = t, name'[n] = k
      PROVE  Known(task[n], name[n])'
  BY <1>2, ChainKeepsNames DEF Known
<1>3. CASE pc'[n] = pc[n] /\ UNCHANGED <<task[n], name[n]>>
  <2>1. Known(task[n], name[n]) /\ task[n] \in TaskId
    BY <1>0, <1>3 DEF NamesKnown, LocalsFit, Fits
  <2> QED
    BY <1>2, <1>3, <2>1
<1>4. CASE AddTask(n)
  <2>1. PICK t \in FreeIds : NewTask(n, t) /\ Enter(n, "added", name[n], t, round[n], 0)
    BY <1>0, <1>4 DEF AddTask, Invoke, Answer, Enter, LocalsTyped, FreeIds
  <2> QED
    BY <1>0, <2>1 DEF NewTask, Enter, Known, LocalsTyped, ChainTyped, FreeIds
<1>5. CASE DeleteTaskRoute(n)
  <2>1. PICK k \in Names : taskMap[k] # 0 /\ Enter(n, "deleteTask", k, taskMap[k], 0, 0)
    BY <1>5 DEF DeleteTaskRoute
  <2>2. Known(taskMap[k], k) /\ taskMap[k] \in TaskId
    BY <1>0, <2>1, Numbers DEF NamesKnown, MapsTyped
  <2> QED
    BY <1>0, <1>2, <2>1, <2>2 DEF Enter, LocalsTyped
<1>6. CASE DeleteTask(n)
  <2>1. pc[n] = "deleteTask" /\ UNCHANGED <<task[n], name[n]>>
    BY <1>0, <1>6 DEF DeleteTask, Invoke, Move, Answer, Enter, locals, LocalsTyped
  <2>2. Known(task[n], name[n]) /\ task[n] \in TaskId
    BY <1>0, <2>1 DEF NamesKnown, LocalsFit, Fits
  <2> QED
    BY <1>2, <2>1, <2>2
<1> QED
  <2>1. CASE \E m \in Handlers : Start(m) \/ Continue(m)
    <3>1. PICK m \in Handlers : Start(m) \/ Continue(m)
      BY <2>1
    <3>2. CASE m = n
      BY <1>0, <1>4, <1>5, <1>6, <3>1, <3>2, LabelsEntered
    <3>3. CASE m # n
      BY <1>0, <1>3, <3>1, <3>3, OneMoves
    <3> QED
      BY <3>2, <3>3
  <2>2. CASE ~\E m \in Handlers : Start(m) \/ Continue(m)
    BY <1>1, <1>3, <2>2, NoneMoves DEF locals
  <2> QED
    BY <1>1, <2>1, <2>2

(* Where names get their tasks and lose them. *)
LEMMA MapsChange ==
  ASSUME [Next]_vars
  PROVE  \/ UNCHANGED <<taskMap, taskJsonMap>>
         \/ \E n \in Handlers : SetTask(n) \/ Forget(n)
         \/ Restart \/ FillMaps
<1>1. ASSUME NEW n \in Handlers, Start(n) PROVE UNCHANGED maps
  BY <1>1 DEF Start, Propose, WriteTaskRoute, DeleteTaskRoute, Recover, NewRoundRoute
<1>2. ASSUME NEW n \in Handlers, Continue(n), ~SetTask(n), ~Forget(n)
      PROVE  UNCHANGED <<taskMap, taskJsonMap>>
  BY <1>2 DEF Continue, AddTask, WriteRequest, SetRequest, Emit, Collect, Check, Schedule,
              WriteTask, DeleteTask, ChangeState, Drop, maps
<1> QED
  BY <1>1, <1>2
     DEF Next, WriteResponse, ConfirmPay, RespondByHand, WriteRequestByHand,
         WriteResponseByHand, CheckByHand, SetListener, ScheduledTransfer, QueryTask, vars, maps

(* initialize is told tasks that the chain has. *)
LEMMA SnapshotChange ==
  ASSUME [Next]_vars, NEW t \in snapshot'
  PROVE  t \in snapshot \/ (t \in TaskId /\ state[t] \in {"instantiation", "acceptation"})
<1>1. ASSUME NEW n \in Handlers, Start(n) \/ Continue(n) PROVE UNCHANGED snapshot
  BY <1>1
     DEF Start, Propose, WriteTaskRoute, DeleteTaskRoute, Recover, NewRoundRoute, Continue,
         AddTask, SetTask, WriteRequest, SetRequest, Emit, Collect, Check, Schedule, WriteTask,
         DeleteTask, Forget, ChangeState, Drop, loading
<1> QED
  BY <1>1
     DEF Next, WriteResponse, ConfirmPay, RespondByHand, WriteRequestByHand,
         WriteResponseByHand, CheckByHand, SetListener, ScheduledTransfer, Restart,
         ForgetMemory, QueryTask, FillMaps, vars, loading

(* The task of a name is known, and its JSON is kept, under that name. *)
Stands(k) == Known(taskMap[k], k) /\ <<taskMap[k], k>> \in taskJsonMap

(* Every step keeps the names that the maps and the chain share. *)
LEMMA NamesStep ==
  ASSUME Fit, NamesKnown, [Next]_vars
  PROVE  NamesKnown'
<1>0. /\ MapsTyped /\ LocalsTyped /\ LocalsFit /\ MemoryTyped /\ MapsTyped' /\ ChainTyped
  BY FitStep, TypeParts DEF Fit, TypeOK, MapsTyped
<1>1. \A n \in Handlers :
        pc'[n] \in {"added", "deleteTask", "deleted"} => Known(task[n], name[n])'
  BY HandlersKnow
<1>2. ASSUME NEW t \in snapshot' PROVE state'[t] # "none"
  <2>1. t \in TaskId /\ state[t] # "none"
    BY <1>0, <1>2, SnapshotChange DEF NamesKnown, MemoryTyped
  <2> QED
    BY <2>1, ChainKeepsNames
<1>3. ASSUME NEW t \in TaskId, NEW k, Known(t, k) PROVE state'[t] # "none" /\ nameOf'[t] = k
  BY <1>3, ChainKeepsNames DEF Known
<1>4. ASSUME NEW k \in Names, taskMap'[k] # 0
      PROVE  Stands(k)'
  <2>0. taskMap'[k] \in TaskId /\ (taskMap[k] # 0 => taskMap[k] \in TaskId)
    BY <1>0, <1>4, Numbers DEF MapsTyped
  <2>1. taskMap[k] # 0 => Known(taskMap[k], k) /\ <<taskMap[k], k>> \in taskJsonMap
    BY DEF NamesKnown, MapsAgree
  <2>2. ASSUME taskMap'[k] = taskMap[k], taskJsonMap \subseteq taskJsonMap' PROVE Stands(k)'
    BY <1>3, <1>4, <2>0, <2>1, <2>2 DEF Stands, Known
  <2>3. ASSUME NEW n \in Handlers, SetTask(n) PROVE Stands(k)'
    <3>1. Known(task[n], name[n]) /\ task[n] \in TaskId /\ name[n] \in Names
      BY <1>0, <2>3 DEF SetTask, NamesKnown, LocalsTyped, LocalsFit, Fits
    <3>2. /\ taskMap' = [taskMap EXCEPT ![name[n]] = task[n]]
          /\ taskJsonMap' = taskJsonMap \cup {<<task[n], name[n]>>}
      BY <2>3 DEF SetTask
    <3>3. CASE k = name[n]
      <4>1. taskMap'[k] = task[n]
        BY <1>0, <3>1, <3>2, <3>3 DEF MapsTyped
      <4> QED
        BY <1>3, <3>1, <3>2, <3>3, <4>1 DEF Stands, Known
    <3>4. CASE k # name[n]
      BY <1>0, <2>2, <3>2, <3>4 DEF MapsTyped
    <3> QED
      BY <3>3, <3>4
  <2>4. ASSUME NEW n \in Handlers, Forget(n) PROVE Stands(k)'
    <3>1. Known(task[n], name[n]) /\ task[n] \in TaskId
      BY <1>0, <2>4 DEF Forget, NamesKnown, LocalsFit, Fits
    <3>2. k # name[n] /\ taskMap'[k] = taskMap[k]
      BY <1>0, <1>4, <2>4 DEF Forget, MapsTyped
    <3>3. taskMap[k] # task[n]
      BY <1>4, <2>1, <3>1, <3>2 DEF Known
    <3>4. <<taskMap[k], k>> \in taskJsonMap'
      BY <1>4, <2>1, <2>4, <3>2, <3>3 DEF Forget
    <3> QED
      BY <1>3, <1>4, <2>0, <2>1, <3>2, <3>4 DEF Stands, Known
  <2>5. CASE Restart
    BY <1>4, <2>5 DEF Restart, ForgetMemory
  <2>6. CASE FillMaps
    <3>1. UNCHANGED chain
      BY <2>6 DEF FillMaps
    <3>2. \/ taskMap'[k] = taskMap[k]
          \/ taskMap'[k] \in snapshot /\ nameOf[taskMap'[k]] = k
      BY <2>6 DEF FillMaps
    <3>3. taskJsonMap' = taskJsonMap \cup {<<t, nameOf[t]>> : t \in snapshot}
      BY <2>6 DEF FillMaps
    <3>4. CASE taskMap'[k] = taskMap[k]
      BY <2>2, <3>3, <3>4
    <3>5. CASE taskMap'[k] \in snapshot /\ nameOf[taskMap'[k]] = k
      <4>1. Known(taskMap'[k], k)
        BY <3>5 DEF NamesKnown, Known
      <4> QED
        BY <3>1, <3>3, <3>5, <4>1 DEF chain, Known, Stands
    <3> QED
      BY <3>2, <3>4, <3>5
  <2> QED
    BY <2>2, <2>3, <2>4, <2>5, <2>6, MapsChange
<1> QED
  BY <1>1, <1>2, <1>4 DEF NamesKnown, MapsAgree, Stands

(* A name that has a task has its JSON too, under the same name (request.js:135), through
   tasks that are written, deleted and loaded at once. *)
THEOREM NamesAgree == Spec => []MapsAgree
<1>1. Init => NamesKnown
  BY DEF Init, NamesKnown, MapsAgree
<1>2. Fit /\ NamesKnown /\ [Next]_vars => NamesKnown'
  BY NamesStep
<1>3. NamesKnown => MapsAgree
  BY DEF NamesKnown
<1> QED
  BY <1>1, <1>2, <1>3, Reachable, PTL DEF Spec

--------------------------------------------------------------------------------
(* An agreement that the chain has come to. *)
Made(j) == j.agreement \in 1 .. agreements[j.task]

(* Whatever is due, told or about to be told was agreed on the chain, and an accepted
   task has an agreement.  That an agreement is told once needs all of it: the next one
   has a number that nobody holds. *)
AgreementsMade ==
  /\ \A j \in told \cup jobs \cup fired \cup paid : Made(j)
  /\ \A n \in Handlers : pc[n] = "agreed" => Made(Agreement(n))
  /\ \A t \in TaskId : state[t] = "acceptation" => agreements[t] >= 1
  /\ ToldOnce

(* Agreements are counted up, and a task that is accepted has come to one. *)
LEMMA AgreementsGrow ==
  ASSUME Fit, [Next]_vars, NEW t \in TaskId
  PROVE  /\ agreements[t] \in Nat /\ agreements'[t] \in Nat /\ agreements[t] <= agreements'[t]
         /\ state'[t] = "acceptation" =>
              state[t] = "acceptation" \/ agreements'[t] = agreements[t] + 1
<1>1. ChainTyped
  BY TypeParts DEF Fit
<1>2. ASSUME NEW u \in TaskId, Agree(u)
      PROVE  /\ agreements'[t] = IF t = u THEN agreements[t] + 1 ELSE agreements[t]
             /\ t # u => state'[t] = state[t]
  BY <1>1, <1>2 DEF Agree, ChainTyped
<1>3. ASSUME \/ \E u \in TaskId : Delete(u) \/ Instantiate(u) \/ DropRequests(u) \/ NewRequest(u)
             \/ \E n \in Handlers, u \in FreeIds : NewTask(n, u)
      PROVE  agreements' = agreements /\ (state'[t] = "acceptation" => state[t] = "acceptation")
  BY <1>1, <1>3
     DEF Delete, Instantiate, DropRequests, NewRequest, NewTask, FreeIds, ChainTyped
<1>4. agreements[t] \in Nat
  BY <1>1 DEF ChainTyped
<1> QED
  BY <1>2, <1>3, <1>4, ChainChange

(* Whatever was agreed stays agreed. *)
LEMMA MadeStays ==
  ASSUME Fit, [Next]_vars, NEW j \in Payment, Made(j)
  PROVE  j.agreement \in 1 .. agreements'[j.task] /\ j.agreement \in 1 .. agreements[j.task]
<1>1. j.task \in TaskId /\ j.agreement \in Nat
  BY DEF Payment
<1> QED
  BY <1>1, AgreementsGrow DEF Made

(* Where jobs are made and end, and agreements are told. *)
LEMMA DueChange ==
  ASSUME [Next]_vars
  PROVE  \/ UNCHANGED <<told, jobs, fired>>
         \/ \E n \in Handlers : Schedule(n)
         \/ \E j \in jobs : ConfirmPay(j)
         \/ ScheduledTransfer \/ Restart
<1>1. ASSUME NEW n \in Handlers, (Start(n) \/ Continue(n)) /\ ~Schedule(n)
      PROVE  UNCHANGED <<told, jobs, fired>>
  BY <1>1
     DEF Start, Propose, WriteTaskRoute, DeleteTaskRoute, Recover, NewRoundRoute, Continue,
         AddTask, SetTask, WriteRequest, SetRequest, Emit, Collect, Check, WriteTask,
         DeleteTask, Forget, ChangeState, Drop
<1> QED
  BY <1>1
     DEF Next, WriteResponse, RespondByHand, WriteRequestByHand, WriteResponseByHand,
         CheckByHand, SetListener, QueryTask, FillMaps, vars

(* What is paid for was paid for before, or is the agreement that the task of a job has
   when its time has come. *)
LEMMA PaidChange ==
  ASSUME Fit, [Next]_vars, NEW p \in paid', p \notin paid
  PROVE  \E j \in jobs : /\ ConfirmPay(j) /\ state[j.task] = "acceptation"
                        /\ p = [task |-> j.task, agreement |-> agreements[j.task]]
<1>1. ASSUME NEW n \in Handlers, Start(n) \/ Continue(n) PROVE UNCHANGED paid
  BY <1>1
     DEF Start, Propose, WriteTaskRoute, DeleteTaskRoute, Recover, NewRoundRoute, Continue,
         AddTask, SetTask, WriteRequest, SetRequest, Emit, Collect, Check, Schedule,
         WriteTask, DeleteTask, Forget, ChangeState, Drop, Invoke, NewTask, NewRequest,
         Agree, Delete, Instantiate, DropRequests, chain
<1>2. ASSUME NEW x \in responding, WriteResponse(x) PROVE UNCHANGED paid
  BY <1>2 DEF WriteResponse, Invoke, NewResponse, chain
<1>3. WriteRequestByHand \/ CheckByHand => UNCHANGED paid
  BY DEF WriteRequestByHand, CheckByHand, NewRequest, Agree
<1>4. ASSUME \/ RespondByHand \/ WriteResponseByHand \/ SetListener \/ ScheduledTransfer
             \/ Restart \/ QueryTask \/ FillMaps \/ UNCHANGED vars
      PROVE  UNCHANGED paid
  BY <1>4 DEF RespondByHand, WriteResponseByHand, SetListener, ScheduledTransfer, Restart,
              QueryTask, FillMaps, vars, chain
<1>5. PICK j \in jobs : ConfirmPay(j)
  BY <1>1, <1>2, <1>3, <1>4 DEF Next
<1>6. state[j.task] = "acceptation" /\ Pay(j.task)
  BY <1>5 DEF ConfirmPay, Invoke, chain
<1> QED
  BY <1>5, <1>6 DEF Pay

(* How a handler comes to hold an agreement: it did before, or its check has just come to
   the next one. *)
LEMMA AgreedChange ==
  ASSUME Fit, [Next]_vars, NEW n \in Handlers, pc'[n] = "agreed"
  PROVE  \/ pc[n] = "agreed" /\ UNCHANGED <<task[n], item[n]>>
         \/ /\ task'[n] \in TaskId /\ item'[n] = agreements'[task'[n]]
            /\ agreements'[task'[n]] = agreements[task'[n]] + 1
            /\ \A m \in Handlers \ {n} : UNCHANGED <<pc[m], task[m], item[m]>>
            /\ UNCHANGED told
<1>1. LocalsTyped /\ ChainTyped
  BY TypeParts DEF Fit
<1>2. ASSUME Check(n)
      PROVE  /\ task'[n] \in TaskId /\ item'[n] = agreements'[task'[n]]
             /\ agreements'[task'[n]] = agreements[task'[n]] + 1
             /\ \A m \in Handlers \ {n} : UNCHANGED <<pc[m], task[m], item[m]>>
             /\ UNCHANGED told
  <2>1. ASSUME NextRound(n) PROVE FALSE
    BY <1>1, <2>1
       DEF NextRound, BeginRound, AskRound, Answer, Enter, LocalsTyped
  <2>2. /\ Agreeable(task[n]) /\ Agree(task[n])
        /\ Enter(n, "agreed", name[n], task[n], round[n], agreements'[task[n]])
    BY <1>2, <2>1 DEF Check, Invoke
  <2>3. task[n] \in TaskId
    BY <1>1, <2>2, Numbers DEF Agreeable, LocalsTyped
  <2>4. task'[n] = task[n] /\ item'[n] = agreements'[task[n]]
    BY <1>1, <2>2 DEF Enter, LocalsTyped
  <2>5. agreements'[task[n]] = agreements[task[n]] + 1
    BY <1>1, <2>2, <2>3 DEF Agree, ChainTyped
  <2>6. \A m \in Handlers \ {n} : UNCHANGED <<pc[m], task[m], item[m]>>
    BY <1>1, <2>2 DEF Enter, LocalsTyped
  <2>7. UNCHANGED told
    BY <1>2 DEF Check
  <2> QED
    BY <2>3, <2>4, <2>5, <2>6, <2>7
<1>3. CASE \E m \in Handlers : Start(m) \/ Continue(m)
  <2>1. PICK m \in Handlers : Start(m) \/ Continue(m)
    BY <1>3
  <2> QED
    BY <1>1, <1>2, <2>1, OneMoves, LabelsEntered
<1>4. CASE ~\E m \in Handlers : Start(m) \/ Continue(m)
  BY <1>4, NoneMoves DEF locals
<1> QED
  BY <1>3, <1>4

(* What a handler holds, what is due and what was paid for keeps to what was agreed. *)
LEMMA MadeStep ==
  ASSUME Fit, AgreementsMade, [Next]_vars
  PROVE  /\ \A j \in told' \cup jobs' \cup fired' \cup paid' : Made(j)'
         /\ \A n \in Handlers : pc'[n] = "agreed" => Made(Agreement(n))'
         /\ \A t \in TaskId : state'[t] = "acceptation" => agreements'[t] >= 1
<1>1. MemoryTyped /\ LocalsTyped /\ LocalsFit /\ ChainTyped
  BY TypeParts DEF Fit
<1>2. ASSUME NEW j \in told \cup jobs \cup fired \cup paid PROVE Made(j)'
  <2>1. Made(j) /\ j \in Payment
    BY <1>1 DEF AgreementsMade, MemoryTyped, ChainTyped
  <2> QED
    BY <2>1, MadeStays DEF Made
<1>3. ASSUME NEW n \in Handlers, pc[n] = "agreed"
      PROVE  Agreement(n) \in Payment /\ Made(Agreement(n))
  BY <1>1, <1>3 DEF AgreementsMade, LocalsTyped, LocalsFit, Fits, Agreement, Payment
<1>4. ASSUME NEW t \in TaskId, NEW a \in 1 .. agreements[t]
      PROVE  Made([task |-> t, agreement |-> a])'
  <2>1. [task |-> t, agreement |-> a] \in Payment /\ Made([task |-> t, agreement |-> a])
    BY <1>1 DEF Payment, Made, ChainTyped
  <2> QED
    BY <2>1, MadeStays DEF Made
<1>5. ASSUME NEW j \in paid' PROVE Made(j)'
  <2>1. CASE j \in paid
    BY <1>2, <2>1
  <2>2. CASE j \notin paid
    <3>1. PICK i \in jobs : /\ state[i.task] = "acceptation"
                           /\ j = [task |-> i.task, agreement |-> agreements[i.task]]
      BY <2>2, PaidChange
    <3>2. i.task \in TaskId
      BY <1>1 DEF MemoryTyped, Payment
    <3>3. agreements[i.task] \in 1 .. agreements[i.task]
      BY <1>1, <3>1, <3>2 DEF AgreementsMade, ChainTyped
    <3> QED
      BY <1>4, <3>1, <3>2, <3>3
  <2> QED
    BY <2>1, <2>2
<1>6. ASSUME NEW j \in told' \cup jobs' \cup fired' PROVE Made(j)'
  <2>1. CASE UNCHANGED <<told, jobs, fired>>
    BY <1>2, <2>1
  <2>2. ASSUME NEW n \in Handlers, Schedule(n) PROVE Made(j)'
    <3>1. j \in told \cup jobs \cup fired \/ j = Agreement(n)
      BY <2>2 DEF Schedule
    <3>2. ASSUME j = Agreement(n) PROVE Made(j)'
      <4>1. j \in Payment /\ Made(j)
        BY <1>3, <2>2, <3>2 DEF Schedule
      <4> QED
        BY <4>1, MadeStays DEF Made
    <3> QED
      BY <1>2, <3>1, <3>2
  <2>3. CASE \E i \in jobs : ConfirmPay(i)
    BY <1>2, <2>3 DEF ConfirmPay
  <2>4. CASE ScheduledTransfer
    <3>1. PICK t \in TaskId : \E a \in 1 .. agreements[t] :
            jobs' = jobs \cup {[task |-> t, agreement |-> a]}
      BY <2>4 DEF ScheduledTransfer
    <3>2. PICK a \in 1 .. agreements[t] : jobs' = jobs \cup {[task |-> t, agreement |-> a]}
      BY <3>1
    <3>3. j \in told \cup jobs \cup fired \/ j = [task |-> t, agreement |-> a]
      BY <2>4, <3>2 DEF ScheduledTransfer
    <3> QED
      BY <1>2, <1>4, <3>3
  <2>5. CASE Restart
    BY <1>2, <2>5 DEF Restart, ForgetMemory
  <2> QED
    BY <2>1, <2>2, <2>3, <2>4, <2>5, DueChange
<1>7. ASSUME NEW n \in Handlers, pc'[n] = "agreed" PROVE Made(Agreement(n))'
  <2>1. CASE pc[n] = "agreed" /\ UNCHANGED <<task[n], item[n]>>
    BY <1>3, <2>1, MadeStays DEF Made, Agreement
  <2>2. CASE /\ task'[n] \in TaskId /\ item'[n] = agreements'[task'[n]]
             /\ agreements'[task'[n]] = agreements[task'[n]] + 1
    <3>1. agreements[task'[n]] \in Nat
      BY <1>1, <2>2 DEF ChainTyped
    <3> QED
      BY <2>2, <3>1 DEF Made, Agreement
  <2> QED
    BY <1>7, <2>1, <2>2, AgreedChange
<1>8. ASSUME NEW t \in TaskId, state'[t] = "acceptation" PROVE agreements'[t] >= 1
  BY <1>8, AgreementsGrow DEF AgreementsMade
<1> QED
  BY <1>5, <1>6, <1>7, <1>8

(* Nobody else holds an agreement that a handler has just come to, nor was told of it. *)
LEMMA ToldStep ==
  ASSUME Fit, AgreementsMade, [Next]_vars
  PROVE  ToldOnce'
<1>1. MemoryTyped /\ LocalsTyped /\ LocalsFit /\ ChainTyped
  BY TypeParts DEF Fit
<1>2. ASSUME NEW n \in Handlers, pc[n] = "agreed"
      PROVE  Agreement(n) \in Payment /\ Made(Agreement(n))
  BY <1>1, <1>2 DEF AgreementsMade, LocalsTyped, LocalsFit, Fits, Agreement, Payment
<1> DEFINE Held(n)  == pc[n] = "agreed" /\ UNCHANGED <<pc[n], task[n], item[n]>>
           Fresh(n) == /\ task'[n] \in TaskId /\ item'[n] = agreements'[task'[n]]
                       /\ agreements'[task'[n]] = agreements[task'[n]] + 1
                       /\ \A m \in Handlers \ {n} : UNCHANGED <<pc[m], task[m], item[m]>>
                       /\ UNCHANGED told
<1>3. \A n \in Handlers : pc'[n] = "agreed" => Held(n) \/ Fresh(n)
  BY AgreedChange
<1>4. \A n \in Handlers : Held(n) => Agreement(n)' = Agreement(n)
  BY DEF Agreement
<1>5. ASSUME NEW n \in Handlers, Fresh(n), NEW j \in Payment, Made(j)
      PROVE  Agreement(n)' # j
  BY <1>1, <1>5 DEF Agreement, Made, Payment, ChainTyped
<1>6. ASSUME NEW n \in Handlers, pc'[n] = "agreed", NEW m \in Handlers \ {n}, pc'[m] = "agreed"
      PROVE  Agreement(m)' # Agreement(n)'
  <2>1. CASE Held(n) /\ Held(m)
    BY <1>4, <2>1 DEF AgreementsMade, ToldOnce
  <2>2. CASE Fresh(n)
    <3>1. Held(m)
      BY <1>6, <2>2
    <3> QED
      BY <1>2, <1>4, <1>5, <2>2, <3>1
  <2>3. CASE Fresh(m)
    <3>1. Held(n)
      BY <1>6, <2>3
    <3> QED
      BY <1>2, <1>4, <1>5, <2>3, <3>1
  <2> QED
    BY <1>3, <1>6, <2>1, <2>2, <2>3
<1>7. ASSUME NEW n \in Handlers, pc'[n] = "agreed" PROVE Agreement(n)' \notin told'
  <2>1. CASE Fresh(n)
    <3>1. \A j \in told : j \in Payment /\ Made(j)
      BY <1>1 DEF AgreementsMade, MemoryTyped
    <3> QED
      BY <1>5, <2>1, <3>1
  <2>2. CASE Held(n)
    <3>1. Agreement(n) \notin told /\ Agreement(n)' = Agreement(n)
      BY <1>4, <2>2 DEF AgreementsMade, ToldOnce
    <3>2. CASE told' \subseteq told
      BY <3>1, <3>2
    <3>3. ASSUME NEW m \in Handlers, Schedule(m) PROVE Agreement(n)' \notin told'
      <4>1. pc[m] = "agreed" /\ told' = told \cup {Agreement(m)} /\ pc'[m] = "idle"
        BY <1>1, <3>3 DEF Schedule, Answer, Enter, LocalsTyped
      <4>2. m # n
        BY <1>7, <4>1
      <4>3. Agreement(m) # Agreement(n)
        BY <2>2, <4>1, <4>2 DEF AgreementsMade, ToldOnce
      <4> QED
        BY <3>1, <4>1, <4>3
    <3> QED
      BY <3>2, <3>3, DueChange DEF ConfirmPay, ScheduledTransfer, Restart
  <2> QED
    BY <1>3, <1>7, <2>1, <2>2
<1> QED
  BY <1>6, <1>7 DEF ToldOnce

(* In every behaviour what a handler is about to tell or schedule was agreed. *)
LEMMA AgreementsKept == Spec => []AgreementsMade
<1>1. Init => AgreementsMade
  BY DEF Init, AgreementsMade, ToldOnce
<1>2. Fit /\ AgreementsMade /\ [Next]_vars => AgreementsMade'
  BY MadeStep, ToldStep DEF AgreementsMade
<1> QED
  BY <1>1, <1>2, Reachable, PTL DEF Spec

(* What is paid for was agreed no earlier than what a job was made for. *)
PaidWhenDue ==
  \A p \in paid : \E j \in fired : j.task = p.task /\ j.agreement <= p.agreement

(* A job pays for the agreement its task has when its time has come, which is its own or
   a later one. *)
LEMMA PaidStep ==
  ASSUME Fit, AgreementsMade, PaidWhenDue, [Next]_vars
  PROVE  PaidWhenDue'
<1>1. MemoryTyped /\ ChainTyped
  BY TypeParts DEF Fit
<1>2. fired \subseteq fired'
  BY DueChange DEF Schedule, ConfirmPay, ScheduledTransfer, Restart
<1> SUFFICES ASSUME NEW p \in paid'
             PROVE  \E j \in fired' : j.task = p.task /\ j.agreement <= p.agreement
  BY DEF PaidWhenDue
<1>3. CASE p \in paid
  BY <1>2, <1>3 DEF PaidWhenDue
<1>4. CASE p \notin paid
  <2>1. PICK j \in jobs : /\ ConfirmPay(j)
                         /\ p = [task |-> j.task, agreement |-> agreements[j.task]]
    BY <1>4, PaidChange
  <2>2. j \in fired' /\ j.task = p.task
    BY <2>1 DEF ConfirmPay
  <2>3. j.agreement <= agreements[j.task]
    BY <1>1 DEF AgreementsMade, Made, MemoryTyped, ChainTyped, Payment
  <2> QED
    BY <2>1, <2>2, <2>3
<1> QED
  BY <1>3, <1>4

(* Nothing is scheduled or paid but what the chain has come to agree on, whatever
   invocations fail and whoever negotiates at the same time; and what is paid is an
   agreement whose job had its time, or a later agreement of that task. *)
THEOREM PaymentsWereAgreed == Spec => []JobsFollowAgreements
<1>1. Init => PaidWhenDue
  BY DEF Init, PaidWhenDue
<1>2. Fit /\ AgreementsMade /\ PaidWhenDue /\ [Next]_vars => PaidWhenDue'
  BY PaidStep
<1>3. AgreementsMade /\ PaidWhenDue => JobsFollowAgreements
  BY DEF AgreementsMade, PaidWhenDue, JobsFollowAgreements, Made
<1> QED
  BY <1>1, <1>2, <1>3, Reachable, AgreementsKept, PTL DEF Spec

(* An agreement is answered to one negotiation only, whatever other negotiations of the
   task, recoveries, checks by hand and restarts there are. *)
THEOREM AnsweredToOne == Spec => []ToldOnce
<1>1. AgreementsMade => ToldOnce
  BY DEF AgreementsMade
<1> QED
  BY <1>1, AgreementsKept, PTL

(* Whatever a requester was told has its job, or had its time. *)
LEMMA DueStep == DueIsScheduled /\ [Next]_vars => DueIsScheduled'
  BY DueChange DEF DueIsScheduled, Schedule, ConfirmPay, ScheduledTransfer, Restart, ForgetMemory

(* Every agreement answered since the gateway was started has its job until its time has
   come: no later step takes the job away.  That the payment then succeeds is not said. *)
THEOREM ToldIsDue == Spec => []DueIsScheduled
<1>1. Init => DueIsScheduled
  BY DEF Init, DueIsScheduled
<1> QED
  BY <1>1, DueStep, PTL DEF Spec

(* What AgreementsArePaid says holds of every step but one: only a restart of the gateway
   drops a job before its payment was tried (request.js:201). *)
THEOREM OnlyRestartsDropJobs ==
  Spec => [][Restart \/ \A j \in jobs : j \in jobs' \cup fired']_vars
<1>1. [Next]_vars => [Restart \/ \A j \in jobs : j \in jobs' \cup fired']_vars
  BY DueChange DEF Schedule, ConfirmPay, ScheduledTransfer
<1> QED
  BY <1>1, PTL DEF Spec

================================================================================
