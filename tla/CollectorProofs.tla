---------------------------- MODULE CollectorProofs ----------------------------
(***************************************************************************)
(* Proofs about Collector, for any number of addresses, any length of the  *)
(* lists and any clock: its types, that the timestamps do not go back and  *)
(* that no mark runs ahead of them, that every second is saved, that       *)
(* saving repairs what a Grafana query has filed unless the query is       *)
(* overtaken by it, and that uploads that are skipped leave nothing        *)
(* behind.  The conditions of each theorem are those under which the run   *)
(* of its property checks it.                                              *)
(***************************************************************************)
EXTENDS Collector, TimeSeriesProofs, TLAPS

(* One request at a time, one query at a time; one monitored service; outcomes that
   are collected within the second that they are recorded in. *)
OneRequester == \A r, s \in Requesters : r = s
OnePoller    == \A p, q \in Pollers : p = q
OneAddress   == \A a, b \in Addresses : a = b
Immediate    == MaxLag = 0 /\ Pollers = {}

--------------------------------------------------------------------------------
(* The parts of TypeOK: what the helpers count, the lists, the threads, the uploads. *)
HelpersTyped ==
  /\ now \in Seconds
  /\ count \in [Addresses -> [Seconds -> Nat]]
  /\ timestamp \in [Addresses -> 0 .. MaxTime]
  /\ total \in [Addresses -> Nat]

ListsTyped ==
  local \in [Addresses -> Seq(Point)] /\ chain \in Seq(Point) /\ overtaken \subseteq Addresses

ThreadsTyped ==
  /\ pc \in [Threads -> Labels]
  /\ address \in [Threads -> Addresses]
  /\ since \in [Threads -> 0 .. MaxTime]
  /\ tm \in [Threads -> 0 .. MaxTime]
  /\ value \in [Threads -> Nat]
  /\ ops \in 0 .. MaxOps

UploadsTyped ==
  /\ lastUpdate \in [Addresses -> 0 .. MaxTime]
  /\ torn \subseteq Uploaders
  /\ sent \in [Addresses -> SUBSET Point]
  /\ died \in BOOLEAN

(* TypeOK is the conjunction of its parts. *)
LEMMA TypeParts == TypeOK <=> HelpersTyped /\ ListsTyped /\ ThreadsTyped /\ UploadsTyped
  BY DEF TypeOK, HelpersTyped, ListsTyped, ThreadsTyped, UploadsTyped

(* Every thread works for some address, also while it is idle. *)
LEMMA SomeAddress == (CHOOSE a \in Addresses : TRUE) \in Addresses
  BY CollectorAssumption

(* The lists hold nothing, and nobody does anything, in the beginning. *)
LEMMA TypeInit == Init => TypeOK
<1> SUFFICES ASSUME Init PROVE TypeOK
  OBVIOUS
<1>1. HelpersTyped
  <2>1. now \in Seconds /\ 0 \in 0 .. MaxTime
    BY CollectorAssumption DEF Init, Seconds
  <2>2. count \in [Addresses -> [Seconds -> Nat]]
    BY DEF Init
  <2> QED
    BY <2>1, <2>2 DEF Init, HelpersTyped
<1>4. UploadsTyped
  <2>1. sent \in [Addresses -> SUBSET Point]
    BY DEF Init
  <2>2. lastUpdate \in [Addresses -> 0 .. MaxTime]
    BY CollectorAssumption DEF Init
  <2> QED
    BY <2>1, <2>2 DEF Init, UploadsTyped
<1>2. ListsTyped
  BY DEF Init, ListsTyped
<1>3. ThreadsTyped
  BY CollectorAssumption, SomeAddress DEF Init, ThreadsTyped, Labels
<1> QED
  BY <1>1, <1>2, <1>3, <1>4, TypeParts

(* A thread leaves, or goes on with its locals typed. *)
LEMMA LeaveTyped ==
  ASSUME ThreadsTyped, NEW t \in Threads, NEW from, Leave(t, from), UNCHANGED ops
  PROVE  ThreadsTyped'
  BY SomeAddress, CollectorAssumption DEF Leave, Goto, ThreadsTyped, Labels

(* What is collected is a point. *)
LEMMA PointTyped ==
  ASSUME HelpersTyped, ThreadsTyped, NEW t \in Threads
  PROVE  CollectedPoint(t) \in Point
  BY DEF CollectedPoint, Point, HelpersTyped, ThreadsTyped

(* The steps of a request, of a query and of an upload keep the types. *)
LEMMA RequestTyped ==
  ASSUME TypeOK, NEW r \in Requesters, Request(r)
  PROVE  TypeOK'
<1>1. HelpersTyped /\ ListsTyped /\ ThreadsTyped /\ UploadsTyped
  BY TypeParts
<1>2. r \in Threads /\ Requesters \subseteq Threads /\ Uploaders \subseteq Threads
  BY DEF Threads, Callers
<1>3. HelpersTyped'
  <2>1. CASE UNCHANGED helpers /\ UNCHANGED now
    BY <1>1, <2>1 DEF helpers, HelpersTyped
  <2>2. CASE Record(r)
    BY <1>1, <2>2 DEF Record, HelpersTyped
  <2>3. CASE SetTimestamp(r) \/ SetTotal(r)
    BY <1>1, <1>2, <2>3 DEF SetTimestamp, SetTotal, HelpersTyped, ThreadsTyped
  <2> QED
    BY <2>1, <2>2, <2>3
       DEF Request, Save, Refresh, TestAge, TestFirst, ReadChainKey, ReadChainValue, CollectChain,
           ReadLocalKey, ReadLocalValue, CollectLocal, Submit, ReadClock, ReadTotal
<1>4. ListsTyped'
  <2>1. CASE CollectChain(r)
    <3>1. chain' \in Seq(Point) /\ UNCHANGED local
      BY <1>1, <1>2, <2>1, PointTyped, CollectShape DEF CollectChain, ListsTyped
    <3> QED
      BY <1>1, <2>1, <3>1 DEF CollectChain, ListsTyped
  <2>2. CASE CollectLocal(r)
    <3>1. address[r] \in Addresses /\ local[address[r]] \in Seq(Point)
      BY <1>1, <1>2 DEF ListsTyped, ThreadsTyped
    <3>2. Collect(local[address[r]], CollectedPoint(r)) \in Seq(Point)
      BY <1>1, <1>2, <3>1, PointTyped, CollectShape
    <3>3. overtaken' \subseteq Addresses
      BY <1>1, <2>2, <3>1 DEF CollectLocal, ListsTyped
    <3> QED
      BY <1>1, <2>2, <3>2, <3>3 DEF CollectLocal, ListsTyped
  <2>3. CASE UNCHANGED lists
    BY <1>1, <2>3 DEF ListsTyped, lists
  <2> QED
    BY <2>1, <2>2, <2>3
       DEF Request, Save, Refresh, Record, TestAge, TestFirst, ReadChainKey,
           ReadChainValue, ReadLocalKey, ReadLocalValue, Submit, ReadClock, SetTimestamp,
           ReadTotal, SetTotal
<1>5. ThreadsTyped'
  <2>1. CASE SetTotal(r)
    BY <1>1, <1>2, <2>1, LeaveTyped DEF SetTotal
  <2>2. CASE Submit(r)
    BY <1>1, <1>2, <2>2 DEF Submit, ThreadsTyped, Labels
  <2>3. CASE Record(r)
    <3>1. pc' \in [Threads -> Labels] /\ address' \in [Threads -> Addresses]
      <4>1. "testAge" \in Labels /\ UNCHANGED <<tm, value>>
        BY <2>3 DEF Record, Labels
      <4> QED
        BY <1>1, <2>3, <4>1 DEF Record, Goto, ThreadsTyped
    <3>2. since' \in [Threads -> 0 .. MaxTime] /\ ops' \in 0 .. MaxOps
      <4>1. ops < MaxOps /\ ops' = ops + 1 /\ since' = [since EXCEPT ![r] = now]
        BY <2>3 DEF Record
      <4>2. ops' \in 0 .. MaxOps
        BY <1>1, <4>1, CollectorAssumption DEF ThreadsTyped
      <4>3. now \in 0 .. MaxTime
        BY <1>1 DEF HelpersTyped, Seconds
      <4> QED
        BY <1>1, <4>1, <4>2, <4>3 DEF ThreadsTyped
    <3> QED
      BY <1>1, <2>3, <3>1, <3>2 DEF Record, ThreadsTyped
  <2>4. ASSUME UNCHANGED <<locals, ops>>, NEW to \in Labels, NEW from, Goto(r, from, to)
        PROVE  ThreadsTyped'
    BY <1>1, <2>4 DEF Goto, ThreadsTyped, locals
  <2>5. CASE TestAge(r) \/ TestFirst(r) \/ CollectChain(r) \/ CollectLocal(r) \/ SetTimestamp(r)
    BY <2>4, <2>5 DEF TestAge, TestFirst, CollectChain, CollectLocal, SetTimestamp, Labels
  <2>6. ASSUME UNCHANGED <<address, since, value, ops>>,
               NEW to \in Labels, NEW from, Goto(r, from, to),
               NEW s \in 0 .. MaxTime, tm' = [tm EXCEPT ![r] = s]
        PROVE  ThreadsTyped'
    BY <1>1, <2>6 DEF Goto, ThreadsTyped
  <2>7. CASE ReadChainKey(r) \/ ReadLocalKey(r) \/ ReadClock(r)
    <3>1. timestamp[address[r]] \in 0 .. MaxTime /\ now \in 0 .. MaxTime
      BY <1>1, <1>2 DEF HelpersTyped, ThreadsTyped, Seconds
    <3> QED
      BY <2>6, <2>7, <3>1 DEF ReadChainKey, ReadChainValue, ReadLocalKey, ReadLocalValue,
                              ReadClock, ReadTimestamp, Labels
  <2>8. CASE ReadTotal(r)
    BY <1>1, <1>2, <2>8 DEF ReadTotal, Goto, HelpersTyped, ThreadsTyped, Labels
  <2>9. CASE ReadChainValue(r) \/ ReadLocalValue(r)
    BY <1>1, <1>2, <2>9
       DEF ReadChainValue, ReadLocalValue, ReadValue, Goto, HelpersTyped, ThreadsTyped, Labels
  <2> QED
    BY <2>1, <2>2, <2>3, <2>5, <2>7, <2>8, <2>9 DEF Request, Save, Refresh
<1>6. UploadsTyped'
  BY <1>1
     DEF Request, Save, Refresh, Record, TestAge, TestFirst, ReadChainKey, ReadChainValue,
         CollectChain, ReadLocalKey, ReadLocalValue, CollectLocal, Submit, ReadClock,
         SetTimestamp, ReadTotal, SetTotal, uploads, UploadsTyped, Copying
<1> QED
  BY <1>3, <1>4, <1>5, <1>6 DEF TypeOK, HelpersTyped, ListsTyped, ThreadsTyped, UploadsTyped

(* A query (one turn of the chart's poller) keeps the types. *)
LEMMA QueryTyped ==
  ASSUME TypeOK, NEW p \in Pollers, Query(p)
  PROVE  TypeOK'
<1>1. HelpersTyped /\ ListsTyped /\ ThreadsTyped /\ UploadsTyped
  BY TypeParts
<1>2. p \in Threads
  BY DEF Threads, Callers
<1>3. HelpersTyped' /\ UploadsTyped'
  BY <1>1 DEF Query, Poll, ReadNow, CollectNow, helpers, uploads, HelpersTyped, UploadsTyped
<1>4. CASE Poll(p)
  <2>1. ThreadsTyped'
    BY <1>1, <1>2, <1>4, CollectorAssumption
       DEF Poll, Goto, HelpersTyped, ThreadsTyped, Labels
  <2>2. ListsTyped'
    BY <1>1, <1>4 DEF Poll, lists, ListsTyped
  <2> QED
    BY <1>3, <2>1, <2>2 DEF TypeOK, HelpersTyped, ListsTyped, ThreadsTyped, UploadsTyped
<1>6. CASE ReadNow(p)
  <2>1. ThreadsTyped'
    BY <1>1, <1>2, <1>6 DEF ReadNow, ReadValue, Goto, HelpersTyped, ThreadsTyped, Labels
  <2>2. ListsTyped'
    BY <1>1, <1>6 DEF ReadNow, lists, ListsTyped
  <2> QED
    BY <1>3, <2>1, <2>2 DEF TypeOK, HelpersTyped, ListsTyped, ThreadsTyped, UploadsTyped
<1>5. CASE CollectNow(p)
  <2>1. ThreadsTyped'
    BY <1>1, <1>2, <1>5, LeaveTyped DEF CollectNow
  <2>2. address[p] \in Addresses /\ local[address[p]] \in Seq(Point)
    BY <1>1, <1>2 DEF ListsTyped, ThreadsTyped
  <2>3. Collect(local[address[p]], CollectedPoint(p)) \in Seq(Point)
    BY <1>1, <1>2, <2>2, PointTyped, CollectShape
  <2>4. ListsTyped'
    BY <1>1, <1>5, <2>3 DEF CollectNow, ListsTyped
  <2> QED
    BY <1>3, <2>1, <2>4 DEF TypeOK, HelpersTyped, ListsTyped, ThreadsTyped, UploadsTyped
<1> QED
  BY <1>4, <1>5, <1>6 DEF Query

(* The upload keeps the types. *)
LEMMA UploadTyped ==
  ASSUME TypeOK, NEW u \in Uploaders, Upload(u)
  PROVE  TypeOK'
<1>1. HelpersTyped /\ ListsTyped /\ ThreadsTyped /\ UploadsTyped
  BY TypeParts
<1>2. u \in Threads
  BY DEF Threads
<1>3. HelpersTyped' /\ ListsTyped' /\ UNCHANGED ops
  BY <1>1 DEF Upload, ReadGate, Gate, ReadMark, Mark, BeginCopy, EndCopy, helpers, lists,
              HelpersTyped, ListsTyped
<1>4. ThreadsTyped'
  <2>1. CASE Leave(u, "gate") \/ Leave(u, "endCopy")
    BY <1>1, <1>2, <1>3, <2>1, LeaveTyped
  <2>2. CASE UNCHANGED locals /\ (Goto(u, "gate", "readMark") \/ Goto(u, "mark", "beginCopy")
                                    \/ Goto(u, "beginCopy", "endCopy"))
    BY <1>1, <1>2, <1>3, <2>2 DEF Goto, ThreadsTyped, Labels, locals
  <2>3. CASE ReadGate(u) \/ ReadMark(u)
    BY <1>1, <1>2, <1>3, <2>3
       DEF ReadGate, ReadMark, ReadTimestamp, Goto, HelpersTyped, ThreadsTyped, Labels
  <2> QED
    BY <2>1, <2>2, <2>3 DEF Upload, ReadGate, Gate, ReadMark, Mark, BeginCopy, EndCopy
<1>5. UploadsTyped'
  <2>1. CASE EndCopy(u)
    <3>1. {chain[i] : i \in 1 .. Len(chain)} \subseteq Point
      BY <1>1 DEF ListsTyped
    <3> QED
      BY <1>1, <2>1, <3>1 DEF EndCopy, UploadsTyped
  <2>2. CASE Mark(u)
    BY <1>1, <1>2, <2>2 DEF Mark, ThreadsTyped, UploadsTyped
  <2>3. CASE ReadGate(u) \/ Gate(u) \/ ReadMark(u) \/ BeginCopy(u)
    BY <1>1, <2>3 DEF ReadGate, Gate, ReadMark, BeginCopy, uploads, UploadsTyped
  <2> QED
    BY <2>1, <2>2, <2>3 DEF Upload
<1> QED
  BY <1>3, <1>4, <1>5 DEF TypeOK, HelpersTyped, ListsTyped, ThreadsTyped, UploadsTyped

(* Every step keeps the types. *)
LEMMA TypeStep == TypeOK /\ [Next]_vars => TypeOK'
<1> SUFFICES ASSUME TypeOK, [Next]_vars PROVE TypeOK'
  OBVIOUS
<1>1. CASE UNCHANGED vars
  BY <1>1 DEF vars, helpers, lists, locals, uploads, TypeOK
<1>2. CASE Tick
  <2>1. now' \in Seconds /\ UNCHANGED <<helpers, lists, pc, locals, uploads, ops>>
    BY <1>2, CollectorAssumption DEF Tick, TypeOK, Seconds
  <2> QED
    BY <2>1 DEF helpers, lists, locals, uploads, TypeOK
<1> QED
  BY <1>1, <1>2, RequestTyped, QueryTyped, UploadTyped DEF Next

(* The variables have their types, always. *)
THEOREM TypeCorrect == Spec => []TypeOK
  BY TypeInit, TypeStep, PTL DEF Spec

--------------------------------------------------------------------------------
(* Queries and uploads leave the threads of the requests alone, and the helpers. *)
LEMMA RequestersKeep ==
  ASSUME TypeOK, (\E p \in Pollers : Query(p)) \/ (\E u \in Uploaders : Upload(u)),
         NEW r \in Requesters
  PROVE  /\ UNCHANGED <<now, helpers>>
         /\ UNCHANGED <<pc[r], address[r], since[r], tm[r], value[r]>>
<1>1. ThreadsTyped /\ r \in Threads
  BY TypeParts DEF Threads, Callers
<1>2. ASSUME NEW t \in Threads \ {r},
             \/ \E from : Leave(t, from)
             \/ UNCHANGED locals /\ \E from, to : Goto(t, from, to)
      PROVE  UNCHANGED <<pc[r], address[r], since[r], tm[r], value[r]>>
  BY <1>1, <1>2 DEF Leave, Goto, ThreadsTyped, locals
<1>3. ASSUME NEW p \in Pollers, Query(p)
      PROVE  /\ UNCHANGED <<now, helpers>>
             /\ UNCHANGED <<pc[r], address[r], since[r], tm[r], value[r]>>
  <2>1. p \in Threads \ {r}
    BY CollectorAssumption DEF Threads, Callers
  <2>2. CASE Poll(p)
    BY <1>1, <2>1, <2>2 DEF Poll, Goto, ThreadsTyped
  <2>3. CASE CollectNow(p)
    BY <1>2, <2>1, <2>3 DEF CollectNow
  <2>4. CASE ReadNow(p)
    BY <1>1, <2>1, <2>4 DEF ReadNow, ReadValue, Goto, ThreadsTyped
  <2> QED
    BY <1>3, <2>2, <2>3, <2>4 DEF Query
<1>4. ASSUME NEW u \in Uploaders, Upload(u)
      PROVE  /\ UNCHANGED <<now, helpers>>
             /\ UNCHANGED <<pc[r], address[r], since[r], tm[r], value[r]>>
  <2>1. u \in Threads \ {r}
    BY CollectorAssumption DEF Threads, Callers
  <2>2. CASE ReadGate(u) \/ ReadMark(u)
    BY <1>1, <2>1, <2>2 DEF ReadGate, ReadMark, ReadTimestamp, Goto, ThreadsTyped
  <2> QED
    BY <1>2, <1>4, <2>1, <2>2 DEF Upload, Gate, Mark, BeginCopy, EndCopy
<1> QED
  BY <1>3, <1>4

(* Neither clock, timestamp nor mark is ahead of the one it is set from, while
   requests come one at a time: a timestamp is set to a later second only. *)
Saving == {"testFirst", "readChainKey", "readChainValue", "collectChain",
           "readLocalKey", "readLocalValue", "collectLocal", "submit", "readClock"}

InOrder ==
  /\ \A a \in Addresses : lastUpdate[a] <= timestamp[a] /\ timestamp[a] <= now
  /\ \A r \in Requesters :
       /\ pc[r] \in Saving => timestamp[address[r]] < now
       /\ pc[r] = "setTimestamp" => timestamp[address[r]] < tm[r] /\ tm[r] <= now

(* A request keeps the order ... *)
LEMMA RequestInOrder ==
  ASSUME TypeOK, OneRequester, InOrder, NEW r \in Requesters, Request(r)
  PROVE  InOrder'
<1>1. ThreadsTyped /\ HelpersTyped /\ UploadsTyped /\ r \in Threads
  BY TypeParts DEF Threads, Callers
<1> DEFINE a == address[r]
<1>2. /\ a \in Addresses /\ now \in Int /\ tm[r] \in Int
      /\ \A b \in Addresses : timestamp[b] \in Int /\ lastUpdate[b] \in Int
  BY <1>1 DEF ThreadsTyped, HelpersTyped, UploadsTyped, Seconds
<1>3. UNCHANGED <<now, lastUpdate>> /\ \A s \in Requesters : s = r
  BY DEF OneRequester, Request, Save, Refresh, Record, TestAge, TestFirst, ReadChainKey,
         ReadChainValue, CollectChain, ReadLocalKey, ReadLocalValue, CollectLocal, Submit,
         ReadClock, SetTimestamp, ReadTotal, SetTotal, uploads
<1>4. CASE SetTimestamp(r)
  <2>1. pc[r] = "setTimestamp" /\ pc'[r] = "readTotal"
    BY <1>1, <1>4 DEF SetTimestamp, Goto, ThreadsTyped
  <2>2. \A b \in Addresses : timestamp'[b] = IF b = a THEN tm[r] ELSE timestamp[b]
    BY <1>1, <1>4 DEF SetTimestamp, HelpersTyped
  <2>3. timestamp[a] < tm[r] /\ tm[r] <= now
    BY <2>1 DEF InOrder
  <2>4. \A b \in Addresses : lastUpdate[b] <= timestamp'[b] /\ timestamp'[b] <= now
    BY <1>2, <2>2, <2>3 DEF InOrder
  <2> QED
    BY <1>3, <2>1, <2>4 DEF InOrder, Saving
<1>5. CASE UNCHANGED timestamp
  <2>1. CASE pc'[r] \notin Saving \cup {"setTimestamp"}
    BY <1>3, <1>5, <2>1 DEF InOrder
  <2>2. CASE pc[r] \in Saving /\ pc'[r] \in Saving /\ address'[r] = address[r]
    BY <1>3, <1>5, <2>2 DEF InOrder, Saving
  <2>3. CASE TestAge(r) /\ pc'[r] \in Saving
    <3>1. now - timestamp[a] >= 1 /\ address'[r] = a
      BY <1>1, <2>3 DEF TestAge, Goto, ThreadsTyped, locals, Saving
    <3>2. timestamp[a] < now
      BY <1>2, <3>1
    <3> QED
      BY <1>3, <1>5, <2>3, <3>1, <3>2 DEF InOrder, Saving
  <2>4. CASE ReadClock(r)
    <3>1. pc[r] = "readClock" /\ pc'[r] = "setTimestamp" /\ tm'[r] = now /\ address'[r] = a
      BY <1>1, <2>4 DEF ReadClock, Goto, ThreadsTyped
    <3>2. timestamp[a] < now
      BY <3>1 DEF InOrder, Saving
    <3> QED
      BY <1>2, <1>3, <1>5, <3>1, <3>2 DEF InOrder, Saving
  <2>5. CASE Record(r) \/ ReadTotal(r) \/ SetTotal(r)
    BY <1>1, <2>1, <2>5 DEF Record, ReadTotal, SetTotal, Leave, Goto, ThreadsTyped, Saving
  <2>6. CASE TestFirst(r) \/ ReadChainKey(r) \/ CollectChain(r) \/ ReadLocalKey(r)
               \/ CollectLocal(r) \/ ReadChainValue(r) \/ ReadLocalValue(r)
    BY <1>1, <2>2, <2>6
       DEF TestFirst, ReadChainKey, ReadChainValue, CollectChain, ReadLocalKey,
           ReadLocalValue, CollectLocal, Goto, ThreadsTyped, locals, Saving
  <2>7. CASE Submit(r)
    <3>1. pc[r] = "submit" /\ pc'[r] = "readClock" /\ address'[r] = address[r]
      BY <1>1, <2>7, CollectorAssumption DEF Submit, ThreadsTyped, Callers
    <3> QED
      BY <2>2, <3>1 DEF Saving
  <2>8. CASE TestAge(r)
    BY <1>1, <2>1, <2>3, <2>8 DEF TestAge, Goto, ThreadsTyped, Saving
  <2>9. CASE SetTimestamp(r)
    BY <1>4, <2>9
  <2> QED
    BY <2>4, <2>5, <2>6, <2>7, <2>8, <2>9 DEF Request, Save, Refresh
<1> QED
  BY <1>4, <1>5
     DEF Request, Save, Refresh, Record, TestAge, TestFirst, ReadChainKey, ReadChainValue,
         CollectChain, ReadLocalKey, ReadLocalValue, CollectLocal, Submit, ReadClock,
         ReadTotal, SetTotal, helpers

(* A timestamp is only set to a later second. *)
LEMMA NothingGoesBack ==
  ASSUME TypeOK, InOrder, [Next]_vars, NEW a \in Addresses
  PROVE  timestamp'[a] >= timestamp[a]
<1>1. HelpersTyped /\ ThreadsTyped
  BY TypeParts
<1>2. timestamp[a] \in Int /\ \A r \in Requesters : tm[r] \in Int
  BY <1>1 DEF HelpersTyped, ThreadsTyped, Threads, Callers
<1>3. ASSUME NEW r \in Requesters, SetTimestamp(r) PROVE timestamp'[a] >= timestamp[a]
  <2>1. pc[r] = "setTimestamp"
    BY <1>3 DEF SetTimestamp, Goto
  <2>2. timestamp'[a] = IF a = address[r] THEN tm[r] ELSE timestamp[a]
    BY <1>1, <1>3 DEF SetTimestamp, HelpersTyped
  <2> QED
    BY <1>2, <2>1, <2>2 DEF InOrder
<1>4. CASE UNCHANGED timestamp
  BY <1>2, <1>4
<1> QED
  BY <1>3, <1>4
     DEF Next, vars, Tick, Request, Save, Refresh, Record, TestAge, TestFirst,
         ReadChainKey, ReadChainValue, CollectChain, ReadLocalKey, ReadLocalValue,
         CollectLocal, Submit, ReadClock, ReadTotal, SetTotal, Query, Poll, ReadNow,
         CollectNow, Upload, ReadGate, Gate, ReadMark, Mark, BeginCopy, EndCopy, helpers

--------------------------------------------------------------------------------
(* Nobody but an upload touches the uploads, except to begin one. *)
LEMMA UploadersKeep ==
  ASSUME TypeOK,
         Tick \/ (\E r \in Requesters : Request(r)) \/ (\E p \in Pollers : Query(p)),
         NEW u \in Uploaders
  PROVE  /\ UNCHANGED <<lastUpdate, sent, died>>
         /\ pc[u] # "idle" => UNCHANGED <<pc[u], address[u], tm[u]>>
         /\ pc[u] = "idle" => pc'[u] \in {"idle", "readGate"}
<1>1. ThreadsTyped /\ u \in Threads
  BY TypeParts DEF Threads
<1>2. CASE Tick
  BY <1>2 DEF Tick, uploads, locals
<1>3. UNCHANGED <<lastUpdate, sent, died>>
  BY DEF Tick, Request, Save, Refresh, Record, TestAge, TestFirst, ReadChainKey,
         ReadChainValue, CollectChain, ReadLocalKey, ReadLocalValue, CollectLocal, Submit,
         ReadClock, SetTimestamp, ReadTotal, SetTotal, Query, Poll, ReadNow, CollectNow,
         uploads
<1>4. ASSUME NEW t \in Callers, NEW from, NEW to, Goto(t, from, to),
             \/ UNCHANGED address
             \/ \E a : address' = [address EXCEPT ![t] = a],
             \/ UNCHANGED tm
             \/ \E s : tm' = [tm EXCEPT ![t] = s]
      PROVE  UNCHANGED <<pc[u], address[u], tm[u]>>
  <2>1. t # u
    BY CollectorAssumption
  <2> QED
    BY <1>1, <1>4, <2>1 DEF Goto, ThreadsTyped
<1>5. ASSUME NEW r \in Requesters, Submit(r)
      PROVE  /\ pc[u] # "idle" => UNCHANGED <<pc[u], address[u], tm[u]>>
             /\ pc[u] = "idle" => pc'[u] \in {"idle", "readGate"}
  <2>1. r # u
    BY CollectorAssumption DEF Callers
  <2>2. PICK v \in Uploaders :
          /\ pc[v] = "idle"
          /\ pc' = [pc EXCEPT ![r] = "readClock", ![v] = "readGate"]
          /\ address' = [address EXCEPT ![v] = address[r]]
          /\ UNCHANGED tm
    BY <1>5 DEF Submit
  <2> QED
    BY <1>1, <2>1, <2>2 DEF ThreadsTyped
<1>6. ASSUME NEW r \in Requesters, Request(r), ~Submit(r)
      PROVE  UNCHANGED <<pc[u], address[u], tm[u]>>
  <2>1. r \in Callers
    BY DEF Callers
  <2> QED
    BY <1>4, <1>6, <2>1
       DEF Request, Save, Refresh, Record, TestAge, TestFirst, ReadChainKey,
           ReadChainValue, CollectChain, ReadLocalKey, ReadLocalValue, CollectLocal,
           ReadClock, SetTimestamp, ReadTotal, SetTotal, Leave, ReadTimestamp, locals
<1>7. ASSUME NEW p \in Pollers, Query(p) PROVE  UNCHANGED <<pc[u], address[u], tm[u]>>
  <2>1. p \in Callers
    BY DEF Callers
  <2> QED
    BY <1>4, <1>7, <2>1 DEF Query, Poll, ReadNow, CollectNow, Leave
<1> QED
  BY <1>2, <1>3, <1>5, <1>6, <1>7

(* What an upload is about to mark is a timestamp that was set. *)
MarkIsSet == \A u \in Uploaders : pc[u] = "mark" => tm[u] <= timestamp[address[u]]

(* It stays one that was set, since the timestamp does not go back. *)
LEMMA MarkIsSetStep ==
  ASSUME TypeOK, InOrder, MarkIsSet, [Next]_vars
  PROVE  MarkIsSet'
<1> SUFFICES ASSUME NEW u \in Uploaders, pc'[u] = "mark"
             PROVE  tm'[u] <= timestamp'[address'[u]]
  BY DEF MarkIsSet
<1>1. HelpersTyped /\ ThreadsTyped /\ u \in Threads
  BY TypeParts DEF Threads
<1>2. \A a \in Addresses :
        timestamp[a] \in Int /\ timestamp'[a] \in Int /\ timestamp'[a] >= timestamp[a]
  <2>1. timestamp' \in [Addresses -> 0 .. MaxTime]
    BY TypeStep DEF TypeOK
  <2> QED
    BY <1>1, <2>1, NothingGoesBack DEF HelpersTyped
<1>3. CASE pc[u] = "mark" /\ UNCHANGED <<address[u], tm[u]>>
  <2>1. tm[u] <= timestamp[address[u]] /\ tm[u] \in Int /\ address[u] \in Addresses
    BY <1>1, <1>3 DEF MarkIsSet, ThreadsTyped
  <2> QED
    BY <1>2, <1>3, <2>1
<1>4. CASE UNCHANGED vars
  BY <1>3, <1>4 DEF vars, locals
<1>5. CASE Tick \/ (\E r \in Requesters : Request(r)) \/ (\E p \in Pollers : Query(p))
  BY <1>3, <1>5, UploadersKeep
<1>6. ASSUME NEW v \in Uploaders, Upload(v) PROVE tm'[u] <= timestamp'[address'[u]]
  <2>1. v \in Threads
    BY DEF Threads
  <2>2. CASE v # u
    <3>1. UNCHANGED <<pc[u], address[u], tm[u]>>
      BY <1>1, <1>6, <2>1, <2>2
         DEF Upload, ReadGate, Gate, ReadMark, Mark, BeginCopy, EndCopy, ReadTimestamp,
             Leave, Goto, ThreadsTyped, locals
    <3> QED
      BY <1>3, <3>1
  <2>3. CASE v = u
    <3>1. ReadMark(u)
      BY <1>1, <1>6, <2>3
         DEF Upload, ReadGate, Gate, ReadMark, Mark, BeginCopy, EndCopy, Leave, Goto, ThreadsTyped
    <3>2. tm'[u] = timestamp[address[u]] /\ UNCHANGED <<address, timestamp>>
      BY <1>1, <3>1 DEF ReadMark, ReadTimestamp, ThreadsTyped, helpers
    <3> QED
      BY <1>1, <1>2, <3>2 DEF ThreadsTyped
  <2> QED
    BY <2>2, <2>3
<1> QED
  BY <1>4, <1>5, <1>6 DEF Next

(* ... and so does every step: an upload marks a timestamp that was set. *)
LEMMA InOrderStep ==
  ASSUME TypeOK, OneRequester, InOrder, MarkIsSet, [Next]_vars
  PROVE  InOrder'
<1>1. ThreadsTyped /\ HelpersTyped /\ UploadsTyped
  BY TypeParts
<1>2. /\ now \in Int
      /\ \A b \in Addresses : timestamp[b] \in Int /\ lastUpdate[b] \in Int
      /\ \A r \in Requesters : tm[r] \in Int /\ address[r] \in Addresses
  BY <1>1 DEF ThreadsTyped, HelpersTyped, UploadsTyped, Seconds, Threads, Callers
<1>3. CASE Tick
  <2>1. now' = now + 1 /\ UNCHANGED <<timestamp, lastUpdate, pc, address, tm>>
    BY <1>3 DEF Tick, helpers, locals, uploads
  <2> QED
    BY <1>2, <2>1 DEF InOrder
<1>4. ASSUME NEW p \in Pollers, Query(p) PROVE InOrder'
  <2>1. UNCHANGED lastUpdate
    BY <1>4 DEF Query, Poll, ReadNow, CollectNow, uploads
  <2>2. UNCHANGED <<now, timestamp>>
    BY <1>4 DEF Query, Poll, ReadNow, CollectNow, helpers
  <2>3. \A r \in Requesters : UNCHANGED <<pc[r], address[r], tm[r]>>
    BY <1>4, RequestersKeep
  <2> QED
    BY <2>1, <2>2, <2>3 DEF InOrder
<1>5. ASSUME NEW u \in Uploaders, Upload(u) PROVE InOrder'
  <2>1. UNCHANGED <<now, timestamp>>
    BY <1>5 DEF Upload, ReadGate, Gate, ReadMark, Mark, BeginCopy, EndCopy, helpers
  <2>2. ASSUME UNCHANGED lastUpdate PROVE \A b \in Addresses : lastUpdate'[b] <= timestamp[b]
    BY <1>2, <2>2 DEF InOrder
  <2>5. ASSUME Mark(u) PROVE \A b \in Addresses : lastUpdate'[b] <= timestamp[b]
    <3>1. tm[u] <= timestamp[address[u]] /\ tm[u] \in Int
      BY <1>1, <2>5 DEF Mark, Goto, MarkIsSet, ThreadsTyped, Threads
    <3>2. \A b \in Addresses :
            lastUpdate'[b] = IF b = address[u] THEN tm[u] ELSE lastUpdate[b]
      BY <1>1, <2>5 DEF Mark, UploadsTyped
    <3> QED
      BY <1>2, <3>1, <3>2 DEF InOrder
  <2>3. \A r \in Requesters : UNCHANGED <<pc[r], address[r], tm[r]>>
    BY <1>5, RequestersKeep
  <2>4. \A b \in Addresses : lastUpdate'[b] <= timestamp[b]
    BY <1>5, <2>2, <2>5 DEF Upload, ReadGate, Gate, ReadMark, BeginCopy, EndCopy, uploads
  <2> QED
    BY <2>1, <2>3, <2>4 DEF InOrder
<1>6. CASE UNCHANGED vars
  BY <1>6 DEF vars, helpers, locals, uploads, InOrder
<1> QED
  BY <1>3, <1>4, <1>5, <1>6, RequestInOrder DEF Next

(* Clock, timestamp and mark stay in their order in every behaviour. *)
LEMMA OrderKept == OneRequester => (Spec => [](TypeOK /\ InOrder))
<1> SUFFICES ASSUME OneRequester PROVE Spec => [](TypeOK /\ InOrder)
  OBVIOUS
<1>1. Init => InOrder
  <2> SUFFICES ASSUME Init PROVE InOrder
    OBVIOUS
  <2>1. \A r \in Requesters : pc[r] = "idle"
    BY DEF Init, Threads, Callers
  <2> QED
    BY <2>1 DEF Init, InOrder, Saving
<1>2. Init => MarkIsSet
  BY DEF Init, MarkIsSet, Threads
<1>3. TypeOK /\ InOrder /\ MarkIsSet /\ [Next]_vars => InOrder' /\ MarkIsSet'
  BY InOrderStep, MarkIsSetStep
<1> QED
  BY <1>1, <1>2, <1>3, TypeCorrect, PTL DEF Spec

(* While requests come one at a time, the timestamp of a helper does not go back, however
   long outcomes are in the making and however many queries and uploads are going on. *)
THEOREM NeverGoesBack == OneRequester => (Spec => NeverBack)
<1> SUFFICES ASSUME OneRequester PROVE Spec => NeverBack
  OBVIOUS
<1>1. TypeOK /\ InOrder /\ [Next]_vars =>
        [\A a \in Addresses : timestamp'[a] >= timestamp[a]]_vars
  BY NothingGoesBack
<1> QED
  BY <1>1, OrderKept, PTL DEF Spec, NeverBack

(* While requests come one at a time, no mark is ahead of the timestamp of its helper,
   although any number of uploads read a timestamp and mark it in two steps each. *)
THEOREM MarksAreSet == OneRequester => (Spec => []MarkNotAhead)
<1>1. InOrder => MarkNotAhead
  BY DEF InOrder, MarkNotAhead
<1> QED
  BY <1>1, OrderKept, PTL

--------------------------------------------------------------------------------
(* The chain of one address grows by later seconds: only its newest point can be as new
   as the timestamp, and only while the request that filed it is on its way to set the
   next. *)
ChainFiled ==
  {"readLocalKey", "readLocalValue", "collectLocal", "submit", "readClock", "setTimestamp"}

ChainInOrder ==
  /\ \A a \in Addresses, i \in 1 .. Len(chain) :
       /\ chain[i].tm <= timestamp[a]
       /\ i < Len(chain) \/ (\A r \in Requesters : pc[r] \notin ChainFiled)
            => chain[i].tm < timestamp[a]
  /\ \A r \in Requesters :
       pc[r] \in {"readChainValue", "collectChain"} => tm[r] = timestamp[address[r]]

(* What collecting a point that is newer than the list does to it. *)
LEMMA ChainGrows ==
  ASSUME TypeOK, ChainInOrder, OneRequester, OneAddress,
         NEW r \in Requesters, CollectChain(r)
  PROVE  /\ Len(chain') \in Nat \ {0}
         /\ \A i \in 1 .. Len(chain') - 1 : \E j \in 1 .. Len(chain) : chain'[i] = chain[j]
         /\ \A a \in Addresses :
              /\ chain'[Len(chain')].tm = timestamp[a]
              /\ \A i \in 1 .. Len(chain) : chain[i].tm < timestamp[a]
<1>1. HelpersTyped /\ ListsTyped /\ ThreadsTyped /\ r \in Threads
  BY TypeParts DEF Threads, Callers
<1>2. CollectedPoint(r) \in Point /\ chain \in Seq(Point) /\ Len(chain) \in Nat
  BY <1>1, PointTyped DEF ListsTyped
<1>3. pc[r] = "collectChain" /\ chain' = Collect(chain, CollectedPoint(r))
  BY DEF CollectChain, Goto
<1>4. \A a \in Addresses : CollectedPoint(r).tm = timestamp[a]
  <2>1. address[r] \in Addresses /\ tm[r] = timestamp[address[r]]
    BY <1>1, <1>3 DEF ChainInOrder, ThreadsTyped
  <2> QED
    BY <2>1 DEF CollectedPoint, OneAddress
<1>5. \A a \in Addresses, i \in 1 .. Len(chain) : chain[i].tm < timestamp[a]
  <2>1. \A s \in Requesters : pc[s] \notin ChainFiled
    BY <1>3 DEF OneRequester, ChainFiled
  <2> QED
    BY <2>1 DEF ChainInOrder
<1>6. PICK d, n : CollectedAs(chain, CollectedPoint(r), d, n)
  BY <1>2, CollectShape
<1>7. /\ d \in {0, 1} /\ n \in Nat \ {0} /\ Len(chain') = n /\ n - 1 + d <= Len(chain)
      /\ chain'[n] = CollectedPoint(r)
      /\ \A i \in 1 .. n - 1 : chain'[i] = chain[i + d]
  BY <1>3, <1>6 DEF CollectedAs
<1>8. \A i \in 1 .. n - 1 : i + d \in 1 .. Len(chain)
  BY <1>2, <1>7
<1> QED
  BY <1>4, <1>5, <1>7, <1>8

(* Where the chain is left alone, a request keeps the order of its points. *)
LEMMA ChainOrderStep ==
  ASSUME TypeOK, InOrder, ChainInOrder, OneRequester, OneAddress, [Next]_vars
  PROVE  ChainInOrder'
<1>1. HelpersTyped /\ ListsTyped /\ ThreadsTyped /\ Len(chain) \in Nat
  BY TypeParts DEF ListsTyped
<1>2. \A i \in 1 .. Len(chain) : chain[i].tm \in Int
  <2>1. \A i \in 1 .. Len(chain) : chain[i] \in Point
    BY <1>1 DEF ListsTyped
  <2> QED
    BY <2>1 DEF Point
<1>3. \A a \in Addresses : timestamp[a] \in Int /\ timestamp'[a] \in Int
  <2>1. TypeOK'
    BY TypeStep
  <2> QED
    BY <1>1, <2>1 DEF HelpersTyped, TypeOK
<1>4. ASSUME NEW r \in Requesters, Request(r) PROVE ChainInOrder'
  <2>1. r \in Threads /\ \A s \in Requesters : s = r
    BY DEF Threads, Callers, OneRequester
  <2>2. CASE CollectChain(r)
    <3>1. /\ UNCHANGED timestamp /\ pc'[r] = "readLocalKey"
          /\ Len(chain') \in Nat \ {0}
          /\ \A i \in 1 .. Len(chain') - 1 : \E j \in 1 .. Len(chain) : chain'[i] = chain[j]
          /\ \A a \in Addresses :
               /\ chain'[Len(chain')].tm = timestamp[a]
               /\ \A i \in 1 .. Len(chain) : chain[i].tm < timestamp[a]
      BY <1>1, <2>1, <2>2, ChainGrows DEF CollectChain, Goto, ThreadsTyped, helpers
    <3>2. ASSUME NEW a \in Addresses, NEW i \in 1 .. Len(chain')
          PROVE  chain'[i].tm <= timestamp[a] /\ (i < Len(chain') => chain'[i].tm < timestamp[a])
      <4>1. CASE i = Len(chain')
        BY <1>3, <3>1, <4>1
      <4>2. CASE i \in 1 .. Len(chain') - 1
        BY <1>2, <1>3, <3>1, <4>2
      <4> QED
        BY <3>1, <4>1, <4>2
    <3>3. ~(\A s \in Requesters : pc'[s] \notin ChainFiled)
      BY <3>1 DEF ChainFiled
    <3>4. \A s \in Requesters : pc'[s] \notin {"readChainValue", "collectChain"}
      BY <2>1, <3>1
    <3> QED
      BY <3>1, <3>2, <3>3, <3>4 DEF ChainInOrder
  <2>3. CASE SetTimestamp(r)
    <3>1. UNCHANGED chain /\ pc[r] = "setTimestamp" /\ pc'[r] = "readTotal"
      BY <1>1, <2>1, <2>3 DEF SetTimestamp, Goto, ThreadsTyped, lists
    <3>2. \A a \in Addresses : timestamp'[a] > timestamp[a]
      <4>1. address[r] \in Addresses /\ tm[r] \in Int /\ timestamp[address[r]] < tm[r]
        BY <1>1, <2>1, <3>1 DEF InOrder, ThreadsTyped
      <4>2. \A a \in Addresses : timestamp'[a] = tm[r] /\ timestamp[a] < tm[r]
        BY <1>1, <2>3, <4>1 DEF SetTimestamp, HelpersTyped, OneAddress
      <4> QED
        BY <1>3, <4>1, <4>2
    <3>3. \A a \in Addresses, i \in 1 .. Len(chain) : chain[i].tm < timestamp'[a]
      BY <1>2, <1>3, <3>2 DEF ChainInOrder
    <3> QED
      BY <1>2, <1>3, <2>1, <3>1, <3>3 DEF ChainInOrder
  <2>4. CASE /\ UNCHANGED <<chain, timestamp>>
             /\ pc[r] \in ChainFiled => pc'[r] \in ChainFiled
             /\ pc'[r] \in {"readChainValue", "collectChain"} => tm'[r] = timestamp[address'[r]]
    <3>1. (\A s \in Requesters : pc'[s] \notin ChainFiled) =>
            (\A s \in Requesters : pc[s] \notin ChainFiled)
      BY <2>1, <2>4
    <3> QED
      BY <2>1, <2>4, <3>1 DEF ChainInOrder
  <2>7. CASE ReadChainValue(r)
    <3>1. pc[r] = "readChainValue" /\ pc'[r] = "collectChain" /\ UNCHANGED <<tm, address>>
      BY <1>1, <2>1, <2>7 DEF ReadChainValue, Goto, ThreadsTyped
    <3>2. tm[r] = timestamp[address[r]]
      BY <3>1 DEF ChainInOrder
    <3> QED
      BY <2>4, <2>7, <3>1, <3>2 DEF ReadChainValue, lists, helpers, ChainFiled
  <2>5. CASE Record(r) \/ TestAge(r) \/ TestFirst(r) \/ ReadChainKey(r) \/ ReadLocalKey(r)
               \/ ReadLocalValue(r) \/ CollectLocal(r) \/ ReadClock(r) \/ ReadTotal(r)
               \/ SetTotal(r)
    BY <1>1, <2>1, <2>4, <2>5
       DEF Record, TestAge, TestFirst, ReadChainKey, ReadLocalKey, ReadLocalValue,
           CollectLocal, ReadClock, ReadTotal, SetTotal, ReadTimestamp, Leave, Goto,
           ThreadsTyped, ChainFiled, lists, helpers
  <2>6. CASE Submit(r)
    <3>1. pc'[r] = "readClock" /\ UNCHANGED <<chain, timestamp>>
      BY <1>1, <2>1, <2>6, CollectorAssumption
         DEF Submit, ThreadsTyped, Callers, lists, helpers
    <3> QED
      BY <2>4, <3>1 DEF ChainFiled
  <2> QED
    BY <1>4, <2>2, <2>3, <2>5, <2>6, <2>7 DEF Request, Save, Refresh
<1>5. CASE (\E p \in Pollers : Query(p)) \/ (\E u \in Uploaders : Upload(u))
  <2>1. UNCHANGED <<chain, timestamp>>
    BY <1>5 DEF Query, Poll, ReadNow, CollectNow, Upload, ReadGate, Gate, ReadMark, Mark,
                BeginCopy, EndCopy, lists, helpers
  <2>2. \A r \in Requesters : UNCHANGED <<pc[r], address[r], tm[r]>>
    BY <1>5, RequestersKeep
  <2> QED
    BY <2>1, <2>2 DEF ChainInOrder
<1>6. CASE Tick
  BY <1>6 DEF Tick, helpers, lists, locals, ChainInOrder
<1>7. CASE UNCHANGED vars
  BY <1>7 DEF vars, helpers, lists, locals, ChainInOrder
<1> QED
  BY <1>4, <1>5, <1>6, <1>7 DEF Next

(* Whoever has set a mark sends all that is older than it, or is about to; and every
   point but the newest was sent or will be, by an upload in flight or the next one.  An
   upload whose gate has read a timestamp is only sure to see to what is older than it. *)
Carried == \E u \in Uploaders : pc[u] \in {"beginCopy", "endCopy"}

Pending(point) ==
  \/ \E u \in Uploaders : pc[u] # "idle" /\ (pc[u] = "gate" => point.tm < tm[u])
  \/ \E r \in Requesters : pc[r] \in {"readLocalKey", "readLocalValue", "collectLocal", "submit"}

MarkedIsSent ==
  ~died => \A a \in Addresses, i \in 1 .. Len(chain) :
             chain[i].tm < lastUpdate[a] => chain[i] \in sent[a] \/ Carried

EarlierIsSent ==
  ~died => \A a \in Addresses, i \in 1 .. Len(chain) - 1 :
             chain[i] \in sent[a] \/ Pending(chain[i])

(* An upload that ends well has sent the whole list; one that fails says so. *)
LEMMA EndSends ==
  ASSUME TypeOK, OneAddress, NEW u \in Uploaders, EndCopy(u), ~died', NEW a \in Addresses,
         NEW i \in 1 .. Len(chain)
  PROVE  chain'[i] \in sent'[a]
<1>1. UploadsTyped /\ ThreadsTyped /\ u \in Threads
  BY TypeParts DEF Threads
<1>2. UNCHANGED chain /\ address[u] = a
  BY <1>1 DEF EndCopy, lists, ThreadsTyped, OneAddress
<1>3. sent' = [sent EXCEPT ![address[u]] = @ \cup {chain[j] : j \in 1 .. Len(chain)}]
  BY DEF EndCopy
<1> QED
  BY <1>1, <1>2, <1>3 DEF UploadsTyped

(* What is carried or pending stays so, until it is sent. *)
LEMMA SentStepByUpload ==
  ASSUME TypeOK, OneAddress, InOrder, ChainInOrder, MarkedIsSent, EarlierIsSent,
         NEW u \in Uploaders, Upload(u)
  PROVE  MarkedIsSent' /\ EarlierIsSent'
<1>1. HelpersTyped /\ UploadsTyped /\ ThreadsTyped /\ ListsTyped /\ u \in Threads
  BY TypeParts DEF Threads
<1>2. UNCHANGED chain /\ Len(chain) \in Nat
  BY <1>1 DEF Upload, ReadGate, Gate, ReadMark, Mark, BeginCopy, EndCopy, lists, ListsTyped
<1>3. CASE EndCopy(u)
  BY <1>2, <1>3, EndSends DEF MarkedIsSent, EarlierIsSent
<1>4. \A v \in Uploaders \ {u} : UNCHANGED <<pc[v], tm[v]>>
  <2>1. /\ \E from, to : Goto(u, from, to)
        /\ UNCHANGED tm \/ \E s : tm' = [tm EXCEPT ![u] = s]
    BY DEF Upload, ReadGate, Gate, ReadMark, Mark, BeginCopy, EndCopy, Leave, ReadTimestamp,
           locals
  <2> QED
    BY <1>1, <2>1 DEF Goto, ThreadsTyped, Threads
<1>5. \A r \in Requesters : pc'[r] = pc[r]
  BY RequestersKeep
<1>6. CASE Mark(u) \/ BeginCopy(u)
  <2>1. pc'[u] \in {"beginCopy", "endCopy"} /\ UNCHANGED <<sent, died>>
    BY <1>1, <1>6 DEF Mark, BeginCopy, Goto, ThreadsTyped, uploads
  <2>2. Carried' /\ \A i \in 1 .. Len(chain) : Pending(chain[i])'
    BY <2>1 DEF Carried, Pending
  <2> QED
    BY <1>2, <2>1, <2>2 DEF MarkedIsSent, EarlierIsSent
<1>7. UNCHANGED lastUpdate /\ (Carried => Carried') => (UNCHANGED <<sent, died>> => MarkedIsSent')
  BY <1>2 DEF MarkedIsSent
<1>8. CASE ReadMark(u)
  <2>1. UNCHANGED <<sent, died, lastUpdate>> /\ pc[u] = "readMark" /\ pc'[u] = "mark"
    BY <1>1, <1>8 DEF ReadMark, Goto, ThreadsTyped, uploads
  <2>2. Carried => Carried'
    BY <1>4, <2>1 DEF Carried
  <2>3. \A i \in 1 .. Len(chain) : Pending(chain[i])'
    BY <2>1 DEF Pending
  <2> QED
    BY <1>2, <1>7, <2>1, <2>2, <2>3 DEF EarlierIsSent
<1>9. CASE ReadGate(u)
  <2>1. /\ UNCHANGED <<sent, died, lastUpdate>>
        /\ pc[u] = "readGate" /\ pc'[u] = "gate" /\ tm'[u] = timestamp[address[u]]
    BY <1>1, <1>9 DEF ReadGate, ReadTimestamp, Goto, ThreadsTyped, uploads
  <2>2. Carried => Carried'
    BY <1>4, <2>1 DEF Carried
  <2>3. \A i \in 1 .. Len(chain) - 1 : chain[i].tm < tm'[u]
    <3>1. address[u] \in Addresses
      BY <1>1 DEF ThreadsTyped
    <3>2. \A i \in 1 .. Len(chain) - 1 : i \in 1 .. Len(chain) /\ i < Len(chain)
      BY <1>2
    <3> QED
      BY <2>1, <3>1, <3>2 DEF ChainInOrder
  <2>4. \A i \in 1 .. Len(chain) - 1 : Pending(chain[i])'
    BY <1>2, <2>1, <2>3 DEF Pending
  <2> QED
    BY <1>2, <1>7, <2>1, <2>2, <2>4 DEF EarlierIsSent
<1>10. CASE Gate(u)
  <2>1. UNCHANGED <<sent, died, lastUpdate>> /\ pc[u] = "gate"
    BY <1>10 DEF Gate, Goto, Leave, uploads
  <2>2. Carried => Carried'
    BY <1>4, <2>1 DEF Carried
  <2>3. MarkedIsSent'
    BY <1>7, <2>1, <2>2
  <2>4. CASE pc'[u] = "readMark"
    <3>1. \A i \in 1 .. Len(chain) : Pending(chain[i])'
      BY <2>4 DEF Pending
    <3> QED
      BY <1>2, <2>3, <3>1 DEF EarlierIsSent
  <2>5. CASE tm[u] - lastUpdate[address[u]] < 1
    <3>1. tm[u] \in Int /\ \A a \in Addresses : lastUpdate[a] \in Int /\ tm[u] <= lastUpdate[a]
      <4>1. address[u] \in Addresses /\ tm[u] \in Int
        BY <1>1 DEF ThreadsTyped
      <4>2. \A a \in Addresses : lastUpdate[a] \in Int
        BY <1>1 DEF UploadsTyped
      <4> QED
        BY <2>5, <4>1, <4>2 DEF OneAddress
    <3>2. ASSUME ~died, NEW a \in Addresses, NEW i \in 1 .. Len(chain) - 1,
                 chain[i] \notin sent[a]
          PROVE  Pending(chain[i])'
      <4>1. CASE chain[i].tm < tm[u]
        <5>1. chain[i].tm \in Int
          <6>1. chain[i] \in Point
            BY <1>1, <1>2 DEF ListsTyped
          <6> QED
            BY <6>1 DEF Point
        <5>2. Carried
          BY <1>2, <3>1, <3>2, <4>1, <5>1 DEF MarkedIsSent
        <5> QED
          BY <2>2, <5>2 DEF Carried, Pending
      <4>2. CASE ~(chain[i].tm < tm[u])
        <5>1. Pending(chain[i])
          BY <3>2 DEF EarlierIsSent
        <5>2. CASE \E v \in Uploaders : pc[v] # "idle" /\ (pc[v] = "gate" => chain[i].tm < tm[v])
          <6>1. PICK v \in Uploaders : pc[v] # "idle" /\ (pc[v] = "gate" => chain[i].tm < tm[v])
            BY <5>2
          <6>2. v # u
            BY <2>1, <4>2, <6>1
          <6> QED
            BY <1>2, <1>4, <6>1, <6>2 DEF Pending
        <5> QED
          BY <1>5, <5>1, <5>2 DEF Pending
      <4> QED
        BY <4>1, <4>2
    <3> QED
      BY <1>2, <2>1, <2>3, <3>2 DEF EarlierIsSent
  <2> QED
    BY <1>1, <1>10, <2>4, <2>5 DEF Gate, Goto, ThreadsTyped
<1> QED
  BY <1>3, <1>6, <1>8, <1>9, <1>10 DEF Upload

(* A request adds a point to the chain, which it is going to have uploaded. *)
LEMMA SentStepByOthers ==
  ASSUME TypeOK, OneRequester, OneAddress, InOrder, ChainInOrder, MarkedIsSent, EarlierIsSent,
         Tick \/ (\E r \in Requesters : Request(r)) \/ (\E p \in Pollers : Query(p))
  PROVE  MarkedIsSent' /\ EarlierIsSent'
<1>1. HelpersTyped /\ UploadsTyped /\ ThreadsTyped /\ ListsTyped
  BY TypeParts
<1>2. UNCHANGED <<lastUpdate, sent, died>>
  BY DEF Tick, Request, Save, Refresh, Record, TestAge, TestFirst, ReadChainKey,
         ReadChainValue, CollectChain, ReadLocalKey, ReadLocalValue, CollectLocal, Submit,
         ReadClock, SetTimestamp, ReadTotal, SetTotal, Query, Poll, ReadNow, CollectNow,
         uploads
<1>3. \A u \in Uploaders : pc[u] # "idle" => UNCHANGED <<pc[u], tm[u]>>
  BY UploadersKeep
<1>4. Carried => Carried'
  BY <1>3 DEF Carried
<1>5. ASSUME NEW r \in Requesters, CollectChain(r) PROVE MarkedIsSent' /\ EarlierIsSent'
  <2>1. /\ Len(chain') \in Nat \ {0}
        /\ \A i \in 1 .. Len(chain') - 1 : \E j \in 1 .. Len(chain) : chain'[i] = chain[j]
        /\ \A a \in Addresses : chain'[Len(chain')].tm = timestamp[a]
    BY <1>5, ChainGrows
  <2>2. pc'[r] = "readLocalKey"
    BY <1>1, <1>5 DEF CollectChain, Goto, ThreadsTyped, Threads, Callers
  <2>3. EarlierIsSent'
    <3>1. \A i \in 1 .. Len(chain') : Pending(chain[i])'
      BY <2>2 DEF Pending
    <3> QED
      BY <2>1, <3>1 DEF EarlierIsSent
  <2>4. ASSUME ~died, NEW a \in Addresses, NEW i \in 1 .. Len(chain'),
               chain'[i].tm < lastUpdate[a]
        PROVE  chain'[i] \in sent[a] \/ Carried
    <3>1. timestamp[a] \in Int /\ lastUpdate[a] \in Int /\ lastUpdate[a] <= timestamp[a]
      BY <1>1 DEF HelpersTyped, UploadsTyped, InOrder
    <3>2. i # Len(chain')
      BY <2>1, <2>4, <3>1
    <3>3. i \in 1 .. Len(chain') - 1
      BY <2>1, <3>2
    <3> QED
      BY <2>1, <2>4, <3>3 DEF MarkedIsSent
  <2> QED
    BY <1>2, <1>4, <2>3, <2>4 DEF MarkedIsSent
<1>6. CASE /\ UNCHANGED chain
           /\ \A i \in 1 .. Len(chain) - 1 : Pending(chain[i]) => Pending(chain[i])'
  BY <1>2, <1>4, <1>6 DEF MarkedIsSent, EarlierIsSent
<1>7. CASE Tick \/ (\E p \in Pollers : Query(p))
  <2>1. UNCHANGED chain /\ \A r \in Requesters : pc'[r] = pc[r]
    BY <1>7, RequestersKeep DEF Tick, Query, Poll, ReadNow, CollectNow, lists
  <2>2. \A i \in 1 .. Len(chain) - 1 : Pending(chain[i]) => Pending(chain[i])'
    BY <1>3, <2>1 DEF Pending
  <2> QED
    BY <1>6, <2>1, <2>2
<1>8. ASSUME NEW r \in Requesters, Request(r), ~CollectChain(r)
      PROVE  /\ UNCHANGED chain
             /\ \A i \in 1 .. Len(chain) - 1 : Pending(chain[i]) => Pending(chain[i])'
  <2>1. r \in Threads /\ \A s \in Requesters : s = r
    BY DEF Threads, Callers, OneRequester
  <2>2. UNCHANGED chain
    BY <1>8 DEF Request, Save, Refresh, Record, TestAge, TestFirst, ReadChainKey,
                ReadChainValue, ReadLocalKey, ReadLocalValue, CollectLocal, Submit,
                ReadClock, SetTimestamp, ReadTotal, SetTotal, lists
  <2>3. CASE Submit(r)
    <3>1. PICK u \in Uploaders : pc' = [pc EXCEPT ![r] = "readClock", ![u] = "readGate"]
      BY <2>3 DEF Submit
    <3>2. pc'[u] = "readGate"
      BY <1>1, <3>1 DEF ThreadsTyped, Threads
    <3> QED
      BY <2>2, <3>2 DEF Pending
  <2>4. CASE ~Submit(r)
    <3>1. pc[r] \in {"readLocalKey", "readLocalValue", "collectLocal", "submit"} =>
            pc'[r] \in {"readLocalKey", "readLocalValue", "collectLocal", "submit"}
      BY <1>1, <1>8, <2>1, <2>4
         DEF Request, Save, Refresh, Record, TestAge, TestFirst, ReadChainKey,
             ReadChainValue, ReadLocalKey, ReadLocalValue, CollectLocal, ReadClock,
             SetTimestamp, ReadTotal, SetTotal, Leave, Goto, ThreadsTyped
    <3> QED
      BY <1>3, <2>1, <2>2, <3>1 DEF Pending
  <2> QED
    BY <2>3, <2>4
<1> QED
  BY <1>5, <1>6, <1>7, <1>8

(* While requests for the one monitored service come one at a time, an upload that is
   skipped leaves nothing behind: once everything is at rest, all but the newest point
   has been sent, unless an upload has failed. *)
THEOREM SkippedLeaveNothing == OneRequester /\ OneAddress => (Spec => []UploadsAreComplete)
<1> SUFFICES ASSUME OneRequester, OneAddress PROVE Spec => []UploadsAreComplete
  OBVIOUS
<1>1. Init => ChainInOrder /\ MarkedIsSent /\ EarlierIsSent
  <2> SUFFICES ASSUME Init PROVE ChainInOrder /\ MarkedIsSent /\ EarlierIsSent
    OBVIOUS
  <2>1. chain = <<>> /\ Len(chain) = 0 /\ \A r \in Requesters : pc[r] = "idle"
    BY DEF Init, Threads, Callers
  <2> QED
    BY <2>1 DEF ChainInOrder, MarkedIsSent, EarlierIsSent
<1>2. TypeOK /\ InOrder /\ ChainInOrder /\ MarkedIsSent /\ EarlierIsSent /\ [Next]_vars =>
        ChainInOrder' /\ MarkedIsSent' /\ EarlierIsSent'
  <2>1. ASSUME UNCHANGED vars, MarkedIsSent, EarlierIsSent PROVE MarkedIsSent' /\ EarlierIsSent'
    BY <2>1 DEF vars, lists, locals, uploads, MarkedIsSent, EarlierIsSent, Carried, Pending
  <2> QED
    BY <2>1, ChainOrderStep, SentStepByUpload, SentStepByOthers DEF Next
<1>3. EarlierIsSent => UploadsAreComplete
  BY DEF EarlierIsSent, Pending, UploadsAreComplete, Threads, Callers
<1> QED
  BY <1>1, <1>2, <1>3, OrderKept, PTL DEF Spec

--------------------------------------------------------------------------------
(* A point that is collected is in the list; those that were there stay, unless the list
   has reached MAX_SIZE, which it then does not fall below. *)
Grown(list, point, new) ==
  /\ Len(new) \in Nat
  /\ \A i \in 1 .. Len(new) : new[i] = point \/ \E j \in 1 .. Len(list) : new[i] = list[j]
  /\ \E i \in 1 .. Len(new) : new[i] = point
  /\ Len(list) >= MaxSize => Len(new) >= MaxSize
  /\ Len(list) < MaxSize =>
       \A j \in 1 .. Len(list) : \E i \in 1 .. Len(new) : new[i].tm = list[j].tm

(* collectData makes a list grow like that. *)
LEMMA CollectFiles ==
  ASSUME NEW list \in Seq(Point), NEW point \in Point
  PROVE  Grown(list, point, Collect(list, point))
<1> DEFINE new == Collect(list, point)
<1>1. new \in Seq(Point) /\ \E d, n : CollectedAs(list, point, d, n)
  BY CollectShape
<1>2. PICK d, n : CollectedAs(list, point, d, n)
  BY <1>1
<1>3. /\ d \in {0, 1} /\ n \in Nat \ {0} /\ Len(new) = n
      /\ n - 1 + d <= Len(list) /\ Len(list) <= n + d
      /\ new[n] = point
      /\ \A i \in 1 .. n - 1 : new[i] = list[i + d]
      /\ n + d = Len(list) => list[n + d].tm = point.tm
      /\ d = 1 <=> Len(list) > MaxSize
  BY <1>2 DEF CollectedAs
<1> HIDE DEF new
<1>4. MaxSize \in Nat \ {0} /\ Len(list) \in Nat
  BY TimeSeriesAssumption
<1>5. \A i \in 1 .. n - 1 : i + d \in 1 .. Len(list)
  BY <1>3, <1>4
<1>6. ASSUME Len(list) < MaxSize, NEW j \in 1 .. Len(list)
      PROVE  \E i \in 1 .. n : new[i].tm = list[j].tm
  <2>1. d = 0
    BY <1>3, <1>4, <1>6
  <2>2. CASE j \in 1 .. n - 1
    BY <1>3, <2>1, <2>2
  <2>3. CASE j = n
    BY <1>3, <2>1, <2>3
  <2> QED
    BY <1>3, <1>4, <2>1, <2>2, <2>3
<1>7. Len(list) >= MaxSize => n >= MaxSize
  BY <1>3, <1>4
<1>8. ASSUME NEW i \in 1 .. n PROVE new[i] = point \/ \E j \in 1 .. Len(list) : new[i] = list[j]
  <2>1. i = n \/ i \in 1 .. n - 1
    BY <1>3
  <2> QED
    BY <1>3, <1>5, <2>1
<1>9. n \in 1 .. n /\ Len(new) \in Nat
  BY <1>3
<1>10. Grown(list, point, new)
  BY <1>3, <1>6, <1>7, <1>8, <1>9 DEF Grown
<1> QED
  BY <1>10 DEF new

(* One request at a time, collected within its second, and no query.

   While an outcome is collected the clock stands still, so that its second is the one
   the thread recorded it in, read and will set. *)
Finding    == Saving \cup {"testAge", "setTimestamp"}
Refreshing == {"readTotal", "setTotal"}

WithinSecond ==
  \A r \in Requesters :
    /\ pc[r] # "idle" => since[r] = now
    /\ pc[r] = "setTimestamp" => tm[r] = now
    /\ pc[r] \in Refreshing => timestamp[address[r]] = now
    /\ pc[r] = "setTotal" => value[r] = count[address[r]][now]

KeysRead ==
  \A r \in Requesters :
    /\ pc[r] \in {"readChainKey", "readChainValue", "collectChain",
                  "readLocalKey", "readLocalValue", "collectLocal"} =>
         timestamp[address[r]] # 0
    /\ pc[r] \in {"readLocalValue", "collectLocal"} => tm[r] = timestamp[address[r]]
    /\ pc[r] = "collectLocal" => value[r] = total[address[r]]

(* The totals are those of the second of the timestamp, unless they are being found. *)
Settled(a) ==
  timestamp[a] = now => \A r \in Requesters : pc[r] = "idle" \/ address[r] # a

TotalsExact ==
  \A a \in Addresses :
    timestamp[a] # 0 /\ Settled(a) => total[a] = count[a][timestamp[a]]

(* Nothing was recorded after the timestamp but what is being collected. *)
NothingLater ==
  \A a \in Addresses, s \in Seconds : timestamp[a] < s /\ count[a][s] > 0 =>
    s = now /\ \E r \in Requesters : pc[r] \in Finding /\ address[r] = a

(* A list has points of past seconds only, which count no more. *)
PointsExact ==
  \A a \in Addresses : \A i \in 1 .. Len(local[a]) :
    /\ local[a][i].tm \in Seconds /\ local[a][i].tm < now
    /\ local[a][i].value = count[a][local[a][i].tm]

(* The seconds before the timestamp are in the list, and that of the timestamp is by
   the time when the next one is set. *)
Filed(a, s) == (\E i \in 1 .. Len(local[a]) : local[a][i].tm = s) \/ Len(local[a]) >= MaxSize

EarlierFiled ==
  \A a \in Addresses, s \in Seconds : s < timestamp[a] /\ count[a][s] > 0 => Filed(a, s)

LastFiled ==
  \A r \in Requesters :
    pc[r] \in {"submit", "readClock", "setTimestamp"} /\ timestamp[address[r]] # 0 =>
      Filed(address[r], timestamp[address[r]])

Exact ==
  /\ WithinSecond /\ KeysRead /\ TotalsExact /\ NothingLater
  /\ PointsExact /\ EarlierFiled /\ LastFiled

(* Uploads, and standing still, change nothing of this. *)
LEMMA ExactStays ==
  ASSUME Exact, UNCHANGED <<now, count, timestamp, total, local>>,
         \A r \in Requesters : UNCHANGED <<pc[r], address[r], since[r], tm[r], value[r]>>
  PROVE  Exact'
<1>1. WithinSecond' /\ KeysRead' /\ LastFiled'
  BY DEF Exact, WithinSecond, KeysRead, LastFiled, Filed
<1>2. TotalsExact' /\ NothingLater' /\ PointsExact' /\ EarlierFiled'
  BY DEF Exact, TotalsExact, Settled, NothingLater, PointsExact, EarlierFiled, Filed
<1> QED
  BY <1>1, <1>2 DEF Exact

(* The clock only goes on while nothing is being collected. *)
LEMMA ExactTick ==
  ASSUME TypeOK, Immediate, Exact, InOrder, Tick
  PROVE  Exact'
<1>1. HelpersTyped /\ ThreadsTyped /\ now \in Int
  BY TypeParts DEF HelpersTyped, Seconds
<1>2. now' = now + 1 /\ UNCHANGED <<count, timestamp, total, local, pc, address>>
  BY DEF Tick, helpers, lists, locals
<1>3. \A r \in Requesters : pc[r] = "idle"
  <2> SUFFICES ASSUME NEW r \in Requesters, pc[r] # "idle" PROVE FALSE
    OBVIOUS
  <2>1. since[r] = now /\ now + 1 - since[r] <= 0
    BY DEF Tick, Exact, WithinSecond, Immediate
  <2> QED
    BY <1>1, <2>1
<1>4. WithinSecond' /\ KeysRead' /\ LastFiled'
  BY <1>2, <1>3 DEF WithinSecond, KeysRead, LastFiled, Refreshing
<1>5. TotalsExact'
  BY <1>2, <1>3 DEF Exact, TotalsExact, Settled
<1>6. NothingLater'
  BY <1>2, <1>3 DEF Exact, NothingLater, Finding, Saving
<1>7. PointsExact' /\ EarlierFiled'
  <2>1. PointsExact'
    <3> SUFFICES ASSUME NEW a \in Addresses, NEW i \in 1 .. Len(local[a])
                 PROVE  /\ local[a][i].tm \in Seconds /\ local[a][i].tm < now'
                        /\ local[a][i].value = count[a][local[a][i].tm]
      BY <1>2 DEF PointsExact
    <3>1. /\ local[a][i].tm \in Seconds /\ local[a][i].tm < now
          /\ local[a][i].value = count[a][local[a][i].tm]
      BY DEF Exact, PointsExact
    <3> QED
      BY <1>1, <1>2, <3>1 DEF Seconds
  <2> QED
    BY <1>2, <2>1 DEF Exact, EarlierFiled, Filed
<1> QED
  BY <1>4, <1>5, <1>6, <1>7 DEF Exact

(* A request that goes on without touching helpers or list. *)
LEMMA ExactMoves ==
  ASSUME TypeOK, OneRequester, Exact, NEW r \in Requesters,
         UNCHANGED <<now, count, timestamp, total, local>>, UNCHANGED <<address[r], since[r]>>,
         pc[r] # "idle", pc'[r] # "idle",
         pc[r] \in Finding => pc'[r] \in Finding \/ timestamp[address[r]] = now,
         WithinSecond', KeysRead', LastFiled'
  PROVE  Exact'
<1>1. \A s \in Requesters : s = r
  BY DEF OneRequester
<1>2. TotalsExact'
  BY <1>1 DEF Exact, TotalsExact, Settled
<1>3. NothingLater'
  <2> SUFFICES ASSUME NEW a \in Addresses, NEW s \in Seconds, timestamp[a] < s, count[a][s] > 0
               PROVE  s = now /\ pc'[r] \in Finding /\ address[r] = a
    BY DEF NothingLater
  <2>1. s = now /\ pc[r] \in Finding /\ address[r] = a
    BY <1>1 DEF Exact, NothingLater
  <2>2. now \in Int
    BY DEF TypeOK, Seconds
  <2> QED
    BY <2>1, <2>2
<1>4. PointsExact' /\ EarlierFiled'
  BY DEF Exact, PointsExact, EarlierFiled, Filed
<1> QED
  BY <1>2, <1>3, <1>4 DEF Exact

(* The steps of a request between those that change something: each leaves the thread
   with the keys that it has read within the second. *)
LEMMA ExactFinding ==
  ASSUME TypeOK, OneRequester, InOrder, Exact, NEW r \in Requesters,
         \/ TestAge(r) \/ TestFirst(r) \/ ReadChainKey(r) \/ ReadChainValue(r) \/ CollectChain(r)
         \/ ReadLocalKey(r) \/ ReadLocalValue(r) \/ Submit(r) \/ ReadClock(r) \/ ReadTotal(r)
  PROVE  Exact'
<1>1. HelpersTyped /\ ThreadsTyped /\ r \in Threads /\ \A s \in Requesters : s = r
  BY TypeParts DEF Threads, Callers, OneRequester
<1> DEFINE a == address[r]
<1>2. /\ a \in Addresses /\ now \in Int /\ timestamp[a] \in Int /\ timestamp[a] <= now
      /\ pc[r] # "idle" => since[r] = now
  BY <1>1 DEF ThreadsTyped, HelpersTyped, Seconds, InOrder, Exact, WithinSecond
<1>3. UNCHANGED <<now, count, timestamp, total, local>> /\ UNCHANGED <<address[r], since[r]>>
  <2>1. CASE Submit(r)
    BY <1>1, <2>1, CollectorAssumption DEF Submit, helpers, lists, ThreadsTyped, Callers
  <2> QED
    BY <2>1 DEF TestAge, TestFirst, ReadChainKey, ReadChainValue, CollectChain, ReadLocalKey,
                ReadLocalValue, ReadClock, ReadTotal, helpers, lists, locals
<1>4. CASE TestAge(r)
  <2>1. /\ pc[r] = "testAge" /\ pc'[r] \in {"testFirst", "readTotal"}
        /\ pc'[r] = "readTotal" => now - timestamp[a] < 1
    BY <1>1, <1>4 DEF TestAge, Goto, ThreadsTyped
  <2>2. pc'[r] = "readTotal" => timestamp[a] = now
    BY <1>2, <2>1
  <2>3. WithinSecond' /\ KeysRead' /\ LastFiled'
    BY <1>1, <1>2, <1>3, <2>1, <2>2 DEF WithinSecond, KeysRead, LastFiled, Refreshing
  <2> QED
    BY <1>1, <1>3, <2>1, <2>2, <2>3, ExactMoves DEF Finding, Saving
<1>5. CASE TestFirst(r)
  <2>1. /\ pc[r] = "testFirst"
        /\ \/ timestamp[a] # 0 /\ pc'[r] = "readChainKey"
           \/ timestamp[a] = 0 /\ pc'[r] = "readClock"
    BY <1>1, <1>5 DEF TestFirst, Goto, ThreadsTyped
  <2>2. WithinSecond' /\ KeysRead' /\ LastFiled'
    BY <1>1, <1>2, <1>3, <2>1 DEF WithinSecond, KeysRead, LastFiled, Refreshing
  <2> QED
    BY <1>1, <1>3, <2>1, <2>2, ExactMoves DEF Finding, Saving
<1>6. CASE ReadChainKey(r) \/ ReadChainValue(r) \/ CollectChain(r) \/ ReadLocalKey(r)
             \/ ReadLocalValue(r)
  <2>1. /\ pc[r] \in {"readChainKey", "readChainValue", "collectChain", "readLocalKey",
                      "readLocalValue"}
        /\ pc'[r] \in {"readChainValue", "collectChain", "readLocalKey", "readLocalValue",
                       "collectLocal"}
        /\ pc'[r] \in {"readLocalValue", "collectLocal"} => tm'[r] = timestamp[a]
        /\ pc'[r] = "collectLocal" => value'[r] = total[a]
    <3>1. CASE ReadChainKey(r) \/ ReadChainValue(r) \/ CollectChain(r)
      BY <1>1, <3>1
         DEF ReadChainKey, ReadChainValue, CollectChain, Goto, ThreadsTyped
    <3>2. CASE ReadLocalKey(r)
      BY <1>1, <3>2 DEF ReadLocalKey, ReadTimestamp, Goto, ThreadsTyped
    <3>3. CASE ReadLocalValue(r)
      <4>1. pc[r] = "readLocalValue" /\ pc'[r] = "collectLocal" /\ UNCHANGED tm
            /\ value'[r] = total[a]
        BY <1>1, <3>3 DEF ReadLocalValue, ReadValue, Goto, ThreadsTyped
      <4> QED
        BY <4>1 DEF Exact, KeysRead
    <3> QED
      BY <1>6, <3>1, <3>2, <3>3
  <2>2. timestamp[a] # 0
    BY <2>1 DEF Exact, KeysRead
  <2>3. WithinSecond' /\ KeysRead' /\ LastFiled'
    BY <1>1, <1>2, <1>3, <2>1, <2>2 DEF WithinSecond, KeysRead, LastFiled, Refreshing
  <2> QED
    BY <1>1, <1>3, <2>1, <2>3, ExactMoves DEF Finding, Saving
<1>7. CASE Submit(r) \/ ReadClock(r)
  <2>1. /\ pc[r] \in {"submit", "readClock"} /\ pc'[r] \in {"readClock", "setTimestamp"}
        /\ pc'[r] = "setTimestamp" => tm'[r] = now
    <3>1. CASE Submit(r)
      BY <1>1, <3>1, CollectorAssumption DEF Submit, ThreadsTyped, Callers
    <3>2. CASE ReadClock(r)
      BY <1>1, <3>2 DEF ReadClock, Goto, ThreadsTyped
    <3> QED
      BY <1>7, <3>1, <3>2
  <2>2. timestamp[a] # 0 => Filed(a, timestamp[a])
    BY <2>1 DEF Exact, LastFiled
  <2>3. LastFiled'
    BY <1>1, <1>3, <2>2 DEF LastFiled, Filed
  <2>4. WithinSecond' /\ KeysRead'
    BY <1>1, <1>2, <1>3, <2>1 DEF WithinSecond, KeysRead, Refreshing
  <2> QED
    BY <1>1, <1>3, <2>1, <2>3, <2>4, ExactMoves DEF Finding, Saving
<1>8. CASE ReadTotal(r)
  <2>1. pc[r] = "readTotal" /\ pc'[r] = "setTotal" /\ value'[r] = count[a][now]
    BY <1>1, <1>8 DEF ReadTotal, Goto, ThreadsTyped
  <2>2. timestamp[a] = now
    BY <2>1 DEF Exact, WithinSecond, Refreshing
  <2>3. WithinSecond' /\ KeysRead' /\ LastFiled'
    BY <1>1, <1>2, <1>3, <2>1, <2>2 DEF WithinSecond, KeysRead, LastFiled, Refreshing
  <2> QED
    BY <1>1, <1>3, <2>1, <2>3, ExactMoves DEF Finding, Saving
<1> QED
  BY <1>4, <1>5, <1>6, <1>7, <1>8

(* An outcome is recorded in the second that the clock is in, which no total that is
   settled and no point of a list is about. *)
LEMMA ExactRecord ==
  ASSUME TypeOK, OneRequester, InOrder, Exact, NEW r \in Requesters, Record(r)
  PROVE  Exact'
<1>1. HelpersTyped /\ ListsTyped /\ ThreadsTyped /\ r \in Threads /\ \A s \in Requesters : s = r
  BY TypeParts DEF Threads, Callers, OneRequester
<1>2. PICK a \in Addresses :
        /\ count' = [count EXCEPT ![a][now] = @ + 1]
        /\ address' = [address EXCEPT ![r] = a]
        /\ since' = [since EXCEPT ![r] = now]
        /\ pc[r] = "idle" /\ pc' = [pc EXCEPT ![r] = "testAge"]
        /\ UNCHANGED <<now, timestamp, total, lists>>
  BY DEF Record, Goto
<1>3. pc'[r] = "testAge" /\ address'[r] = a /\ since'[r] = now /\ UNCHANGED local
  BY <1>1, <1>2 DEF ThreadsTyped, lists
<1>4. \A b \in Addresses, s \in Seconds : ~(b = a /\ s = now) => count'[b][s] = count[b][s]
  BY <1>1, <1>2 DEF HelpersTyped
<1>5. /\ now \in Int
      /\ \A b \in Addresses : timestamp[b] \in 0 .. MaxTime /\ timestamp[b] <= now
  BY <1>1 DEF HelpersTyped, Seconds, InOrder
<1>6. WithinSecond' /\ KeysRead' /\ LastFiled'
  BY <1>1, <1>2, <1>3 DEF WithinSecond, KeysRead, LastFiled, Refreshing
<1>7. TotalsExact'
  <2> SUFFICES ASSUME NEW b \in Addresses, timestamp[b] # 0, Settled(b)'
               PROVE  total[b] = count'[b][timestamp[b]]
    BY <1>2 DEF TotalsExact
  <2>1. timestamp[b] \in Seconds /\ ~(b = a /\ timestamp[b] = now)
    BY <1>2, <1>3, <1>5 DEF Settled, Seconds
  <2>2. Settled(b)
    BY <1>1, <1>2 DEF Settled
  <2> QED
    BY <1>4, <2>1, <2>2 DEF Exact, TotalsExact
<1>8. NothingLater'
  <2> SUFFICES ASSUME NEW b \in Addresses, NEW s \in Seconds, timestamp[b] < s, count'[b][s] > 0
               PROVE  s = now /\ pc'[r] \in Finding /\ address'[r] = b
    BY <1>2 DEF NothingLater
  <2>1. CASE b = a /\ s = now
    BY <1>3, <2>1 DEF Finding
  <2>2. CASE ~(b = a /\ s = now)
    <3>1. count[b][s] > 0
      BY <1>4, <2>2
    <3>2. pc[r] \in Finding
      BY <1>1, <3>1 DEF Exact, NothingLater
    <3> QED
      BY <1>2, <3>2 DEF Finding, Saving
  <2> QED
    BY <2>1, <2>2
<1>9. PointsExact'
  <2> SUFFICES ASSUME NEW b \in Addresses, NEW i \in 1 .. Len(local[b])
               PROVE  /\ local[b][i].tm \in Seconds /\ local[b][i].tm < now
                      /\ local[b][i].value = count'[b][local[b][i].tm]
    BY <1>2, <1>3 DEF PointsExact
  <2>1. /\ local[b][i].tm \in Seconds /\ local[b][i].tm < now
        /\ local[b][i].value = count[b][local[b][i].tm]
    BY DEF Exact, PointsExact
  <2>2. local[b][i].tm # now
    BY <1>5, <2>1 DEF Seconds
  <2> QED
    BY <1>4, <2>1, <2>2
<1>10. EarlierFiled'
  <2> SUFFICES ASSUME NEW b \in Addresses, NEW s \in Seconds, s < timestamp[b], count'[b][s] > 0
               PROVE  Filed(b, s)
    BY <1>2, <1>3 DEF EarlierFiled, Filed
  <2>1. s # now
    BY <1>5 DEF Seconds
  <2> QED
    BY <1>4, <2>1 DEF Exact, EarlierFiled
<1> QED
  BY <1>6, <1>7, <1>8, <1>9, <1>10 DEF Exact

(* The totals of the timestamp's second are filed under it, before it is moved on. *)
LEMMA ExactCollect ==
  ASSUME TypeOK, OneRequester, InOrder, Exact, NEW r \in Requesters, CollectLocal(r)
  PROVE  Exact'
<1>1. HelpersTyped /\ ListsTyped /\ ThreadsTyped /\ r \in Threads /\ \A s \in Requesters : s = r
  BY TypeParts DEF Threads, Callers, OneRequester
<1>2. PICK a \in Addresses : a = address[r]
  BY <1>1 DEF ThreadsTyped
<1>3. pc[r] = "collectLocal" /\ pc'[r] = "submit"
  BY <1>1 DEF CollectLocal, Goto, ThreadsTyped
<1>4. UNCHANGED <<now, count, timestamp, total, address, since, tm, value>>
  BY DEF CollectLocal, helpers, locals
<1>5. /\ now \in Int /\ timestamp[a] \in 0 .. MaxTime /\ timestamp[a] # 0
      /\ timestamp[a] < now /\ tm[r] = timestamp[a] /\ since[r] = now
      /\ value[r] = total[a]
  BY <1>1, <1>2, <1>3
     DEF HelpersTyped, Seconds, InOrder, Saving, Exact, KeysRead, WithinSecond
<1> DEFINE point == CollectedPoint(r)
           t     == timestamp[a]
<1>6. point \in Point /\ point.tm = t /\ point.value = count[a][t] /\ t \in Seconds
  <2>1. point \in Point /\ point.tm = t /\ point.value = total[a]
    BY <1>1, <1>2, <1>5, PointTyped DEF CollectedPoint
  <2>2. t \in Seconds
    BY <1>5 DEF Seconds
  <2>3. total[a] = count[a][t]
    BY <1>5 DEF Exact, TotalsExact, Settled
  <2> QED
    BY <2>1, <2>2, <2>3
<1>7. local[a] \in Seq(Point) /\ local'[a] = Collect(local[a], point)
      /\ \A b \in Addresses \ {a} : local'[b] = local[b]
  BY <1>1, <1>2 DEF CollectLocal, ListsTyped
<1> HIDE DEF point
<1>8. PICK old, new : old = local[a] /\ new = local'[a] /\ Grown(old, point, new)
  BY <1>6, <1>7, CollectFiles
<1>9. /\ Len(new) \in Nat
      /\ \A i \in 1 .. Len(new) : new[i] = point \/ \E j \in 1 .. Len(old) : new[i] = old[j]
      /\ \E i \in 1 .. Len(new) : new[i] = point
      /\ Len(old) >= MaxSize => Len(new) >= MaxSize
      /\ Len(old) < MaxSize =>
           \A j \in 1 .. Len(old) : \E i \in 1 .. Len(new) : new[i].tm = old[j].tm
  BY <1>8 DEF Grown
<1>10. \A s : Filed(a, s) => Filed(a, s)'
  <2> SUFFICES ASSUME NEW s, Filed(a, s)
               PROVE  (\E i \in 1 .. Len(new) : new[i].tm = s) \/ Len(new) >= MaxSize
    BY <1>8 DEF Filed
  <2>1. Len(old) \in Nat /\ MaxSize \in Nat
    BY <1>7, <1>8, TimeSeriesAssumption
  <2>2. CASE Len(old) >= MaxSize
    BY <1>9, <2>2
  <2>3. CASE Len(old) < MaxSize
    <3>1. PICK j \in 1 .. Len(old) : old[j].tm = s
      BY <1>8, <2>1, <2>3 DEF Filed
    <3> QED
      BY <1>9, <2>3, <3>1
  <2> QED
    BY <2>1, <2>2, <2>3
<1>11. Filed(a, t)'
  <2>1. \E i \in 1 .. Len(local'[a]) : local'[a][i].tm = timestamp[a]
    BY <1>6, <1>8, <1>9
  <2> QED
    BY <1>4, <2>1 DEF Filed
<1>12. PointsExact'
  <2> SUFFICES ASSUME NEW b \in Addresses, NEW i \in 1 .. Len(local'[b])
               PROVE  /\ local'[b][i].tm \in Seconds /\ local'[b][i].tm < now
                      /\ local'[b][i].value = count[b][local'[b][i].tm]
    BY <1>4 DEF PointsExact
  <2>1. CASE b # a
    BY <1>7, <2>1 DEF Exact, PointsExact
  <2>2. CASE b = a
    <3>1. new[i] = point \/ \E j \in 1 .. Len(old) : new[i] = old[j]
      BY <1>8, <1>9, <2>2
    <3>2. CASE new[i] = point
      BY <1>5, <1>6, <1>8, <2>2, <3>2
    <3>3. CASE \E j \in 1 .. Len(old) : new[i] = old[j]
      <4>1. PICK j \in 1 .. Len(local[a]) : new[i] = local[a][j]
        BY <1>8, <3>3
      <4> QED
        BY <1>8, <2>2, <4>1 DEF Exact, PointsExact
    <3> QED
      BY <3>1, <3>2, <3>3
  <2> QED
    BY <2>1, <2>2
<1>13. EarlierFiled'
  <2> SUFFICES ASSUME NEW b \in Addresses, NEW s \in Seconds, s < timestamp[b], count[b][s] > 0
               PROVE  Filed(b, s)'
    BY <1>4 DEF EarlierFiled
  <2>1. Filed(b, s)
    BY DEF Exact, EarlierFiled
  <2> QED
    BY <1>7, <1>10, <2>1 DEF Filed
<1>14. LastFiled'
  BY <1>1, <1>2, <1>4, <1>11 DEF LastFiled
<1>15. WithinSecond' /\ KeysRead'
  BY <1>1, <1>3, <1>4, <1>5 DEF WithinSecond, KeysRead, Refreshing
<1>16. TotalsExact' /\ NothingLater'
  <2>1. TotalsExact'
    BY <1>1, <1>3, <1>4 DEF Exact, TotalsExact, Settled
  <2>2. NothingLater'
    BY <1>1, <1>3, <1>4 DEF Exact, NothingLater, Finding, Saving
  <2> QED
    BY <2>1, <2>2
<1> QED
  BY <1>12, <1>13, <1>14, <1>15, <1>16 DEF Exact

(* The timestamp is moved on when its second is filed and no other was counted since. *)
LEMMA ExactSetTimestamp ==
  ASSUME TypeOK, OneRequester, InOrder, Exact, NEW r \in Requesters, SetTimestamp(r)
  PROVE  Exact'
<1>1. HelpersTyped /\ ThreadsTyped /\ r \in Threads /\ \A s \in Requesters : s = r
  BY TypeParts DEF Threads, Callers, OneRequester
<1>2. PICK a \in Addresses : a = address[r]
  BY <1>1 DEF ThreadsTyped
<1>3. pc[r] = "setTimestamp" /\ pc'[r] = "readTotal"
  BY <1>1 DEF SetTimestamp, Goto, ThreadsTyped
<1>4. UNCHANGED <<now, count, total, local, address, since, tm, value>>
  BY DEF SetTimestamp, lists, locals
<1>5. tm[r] = now /\ since[r] = now /\ timestamp[a] < now
  BY <1>2, <1>3 DEF Exact, WithinSecond, InOrder
<1>6. /\ timestamp'[a] = now
      /\ \A b \in Addresses \ {a} : timestamp'[b] = timestamp[b]
  BY <1>1, <1>2, <1>5 DEF SetTimestamp, HelpersTyped
<1>7. now \in Nat \ {0} /\ \A b \in Addresses : timestamp[b] \in 0 .. MaxTime
  BY <1>1 DEF HelpersTyped, Seconds
<1>8. WithinSecond' /\ KeysRead' /\ LastFiled'
  BY <1>1, <1>2, <1>3, <1>4, <1>5, <1>6 DEF WithinSecond, KeysRead, LastFiled, Refreshing
<1>9. TotalsExact'
  <2> SUFFICES ASSUME NEW b \in Addresses, timestamp'[b] # 0, Settled(b)'
               PROVE  total[b] = count[b][timestamp'[b]]
    BY <1>4 DEF TotalsExact
  <2>1. b # a
    BY <1>2, <1>3, <1>4, <1>6 DEF Settled
  <2>2. Settled(b)
    BY <1>1, <1>2, <2>1 DEF Settled
  <2> QED
    BY <1>6, <2>1, <2>2 DEF Exact, TotalsExact
<1>10. \A s \in Seconds : timestamp[a] < s /\ count[a][s] > 0 => s = now
  BY DEF Exact, NothingLater
<1>11. NothingLater'
  <2> SUFFICES ASSUME NEW b \in Addresses, NEW s \in Seconds, timestamp'[b] < s, count[b][s] > 0
               PROVE  FALSE
    BY <1>4 DEF NothingLater
  <2>1. CASE b = a
    <3>1. now < s
      BY <1>6, <2>1
    <3>2. timestamp[a] < s /\ s # now
      BY <1>5, <1>7, <3>1 DEF Seconds
    <3> QED
      BY <1>10, <2>1, <3>2
  <2>2. CASE b # a
    BY <1>1, <1>2, <1>6, <2>2 DEF Exact, NothingLater
  <2> QED
    BY <2>1, <2>2
<1>12. PointsExact'
  BY <1>4 DEF Exact, PointsExact
<1>13. EarlierFiled'
  <2> SUFFICES ASSUME NEW b \in Addresses, NEW s \in Seconds, s < timestamp'[b], count[b][s] > 0
               PROVE  Filed(b, s)
    BY <1>4 DEF EarlierFiled, Filed
  <2>1. CASE b # a
    BY <1>6, <2>1 DEF Exact, EarlierFiled
  <2>2. CASE b = a
    <3>1. s < now /\ s \in Nat \ {0}
      BY <1>6, <2>2 DEF Seconds
    <3>2. CASE s < timestamp[a]
      BY <2>2, <3>2 DEF Exact, EarlierFiled
    <3>3. CASE s = timestamp[a]
      BY <1>2, <1>3, <2>2, <3>1, <3>3 DEF Exact, LastFiled
    <3>4. CASE timestamp[a] < s
      BY <1>7, <1>10, <2>2, <3>1, <3>4
    <3> QED
      BY <1>7, <3>1, <3>2, <3>3, <3>4
  <2> QED
    BY <2>1, <2>2
<1> QED
  BY <1>8, <1>9, <1>11, <1>12, <1>13 DEF Exact

(* The totals are those of the second of the timestamp when the request leaves. *)
LEMMA ExactSetTotal ==
  ASSUME TypeOK, OneRequester, Exact, NEW r \in Requesters, SetTotal(r)
  PROVE  Exact'
<1>1. HelpersTyped /\ ThreadsTyped /\ r \in Threads /\ \A s \in Requesters : s = r
  BY TypeParts DEF Threads, Callers, OneRequester
<1>2. PICK a \in Addresses : a = address[r]
  BY <1>1 DEF ThreadsTyped
<1>3. pc[r] = "setTotal" /\ pc'[r] = "idle"
  BY <1>1 DEF SetTotal, Leave, Goto, ThreadsTyped
<1>4. UNCHANGED <<now, count, timestamp, local>>
  BY DEF SetTotal, lists
<1>5. timestamp[a] = now /\ value[r] = count[a][now]
  BY <1>2, <1>3 DEF Exact, WithinSecond, Refreshing
<1>6. total'[a] = count[a][timestamp[a]] /\ \A b \in Addresses \ {a} : total'[b] = total[b]
  BY <1>1, <1>2, <1>5 DEF SetTotal, HelpersTyped
<1>7. WithinSecond' /\ KeysRead' /\ LastFiled'
  BY <1>1, <1>3 DEF WithinSecond, KeysRead, LastFiled, Refreshing
<1>8. TotalsExact'
  <2> SUFFICES ASSUME NEW b \in Addresses, timestamp[b] # 0
               PROVE  total'[b] = count[b][timestamp[b]]
    BY <1>4 DEF TotalsExact
  <2>1. CASE b # a
    <3>1. Settled(b)
      BY <1>1, <1>2, <2>1 DEF Settled
    <3> QED
      BY <1>6, <2>1, <3>1 DEF Exact, TotalsExact
  <2> QED
    BY <1>6, <2>1
<1>9. NothingLater'
  BY <1>1, <1>3, <1>4 DEF Exact, NothingLater, Finding, Saving
<1>10. PointsExact' /\ EarlierFiled'
  BY <1>4 DEF Exact, PointsExact, EarlierFiled, Filed
<1> QED
  BY <1>7, <1>8, <1>9, <1>10 DEF Exact

(* MonitorController.java:197, the last second is saved: requests that come one at a
   time and are collected within their second lose none, and every point shows what
   was recorded in its second. *)
THEOREM EverySecondIsSaved == OneRequester /\ Immediate => (Spec => []SecondsAreSaved)
<1> SUFFICES ASSUME OneRequester, Immediate PROVE Spec => []SecondsAreSaved
  OBVIOUS
<1>1. Init => Exact
  <2> SUFFICES ASSUME Init PROVE Exact
    OBVIOUS
  <2>1. \A r \in Requesters : pc[r] = "idle"
    BY DEF Init, Threads, Callers
  <2>2. \A a \in Addresses :
          /\ timestamp[a] = 0 /\ local[a] = <<>> /\ Len(local[a]) = 0
          /\ \A s \in Seconds : count[a][s] = 0
    BY DEF Init
  <2>3. WithinSecond /\ KeysRead /\ LastFiled
    BY <2>1 DEF WithinSecond, KeysRead, LastFiled, Refreshing
  <2>4. TotalsExact /\ NothingLater /\ PointsExact
    BY <2>2 DEF TotalsExact, NothingLater, PointsExact
  <2>5. EarlierFiled
    BY <2>2 DEF EarlierFiled
  <2> QED
    BY <2>3, <2>4, <2>5 DEF Exact
<1>2. ASSUME TypeOK, InOrder, Exact, [Next]_vars PROVE Exact'
  <2>1. CASE \E u \in Uploaders : Upload(u)
    <3>1. UNCHANGED local
      BY <2>1 DEF Upload, ReadGate, Gate, ReadMark, Mark, BeginCopy, EndCopy, lists
    <3>2. UNCHANGED <<now, helpers>>
      BY <2>1 DEF Upload, ReadGate, Gate, ReadMark, Mark, BeginCopy, EndCopy
    <3>3. \A r \in Requesters : UNCHANGED <<pc[r], address[r], since[r], tm[r], value[r]>>
      BY <1>2, <2>1, RequestersKeep
    <3> QED
      BY <1>2, <3>1, <3>2, <3>3, ExactStays DEF helpers
  <2>2. CASE UNCHANGED vars
    BY <1>2, <2>2, ExactStays DEF vars, helpers, lists, locals
  <2>3. ASSUME NEW r \in Requesters, Request(r) PROVE Exact'
    BY <1>2, <2>3, ExactRecord, ExactFinding, ExactCollect, ExactSetTimestamp, ExactSetTotal
       DEF Request, Save, Refresh
  <2> QED
    BY <1>2, <2>1, <2>2, <2>3, ExactTick DEF Next, Immediate
<1>3. Exact => SecondsAreSaved
  <2> SUFFICES ASSUME Exact, NEW a \in Addresses
               PROVE  /\ \A p \in Points(local[a]) :
                           p.tm \in Seconds /\ p.tm < timestamp[a] => p.value = count[a][p.tm]
                      /\ \A s \in Seconds :
                           s < timestamp[a] /\ count[a][s] > 0 =>
                             (\E p \in Points(local[a]) : p.tm = s) \/ Len(local[a]) >= MaxSize
    BY DEF SecondsAreSaved
  <2>1. \A p \in Points(local[a]) : p.value = count[a][p.tm]
    BY DEF Exact, PointsExact, Points
  <2>2. ASSUME NEW s \in Seconds, s < timestamp[a], count[a][s] > 0
        PROVE  (\E p \in Points(local[a]) : p.tm = s) \/ Len(local[a]) >= MaxSize
    BY <2>2 DEF Exact, EarlierFiled, Filed, Points
  <2> QED
    BY <2>1, <2>2
<1>4. TypeOK /\ InOrder /\ Exact /\ [Next]_vars => Exact'
  BY <1>2
<1> QED
  BY <1>1, <1>3, <1>4, OrderKept, PTL DEF Spec

--------------------------------------------------------------------------------
(* One request and one query at a time, however long they take.

   Requests and uploads leave the threads of the queries alone. *)
LEMMA PollersKeep ==
  ASSUME TypeOK, (\E r \in Requesters : Request(r)) \/ (\E u \in Uploaders : Upload(u)),
         NEW p \in Pollers
  PROVE  UNCHANGED <<pc[p], address[p], tm[p], value[p]>>
<1>1. ThreadsTyped /\ p \in Threads
  BY TypeParts DEF Threads, Callers
<1>2. ASSUME NEW t \in Threads \ {p}, NEW from, NEW to, Goto(t, from, to),
             \/ UNCHANGED address
             \/ \E a : address' = [address EXCEPT ![t] = a],
             \/ UNCHANGED tm
             \/ \E s : tm' = [tm EXCEPT ![t] = s],
             \/ UNCHANGED value
             \/ \E v : value' = [value EXCEPT ![t] = v]
      PROVE  UNCHANGED <<pc[p], address[p], tm[p], value[p]>>
  BY <1>1, <1>2 DEF Goto, ThreadsTyped
<1>3. ASSUME NEW r \in Requesters, Submit(r) PROVE UNCHANGED <<pc[p], address[p], tm[p], value[p]>>
  BY <1>1, <1>3, CollectorAssumption DEF Submit, ThreadsTyped, Callers
<1>4. ASSUME NEW r \in Requesters, Request(r), ~Submit(r)
      PROVE  UNCHANGED <<pc[p], address[p], tm[p], value[p]>>
  <2>1. r \in Threads \ {p}
    BY CollectorAssumption DEF Threads, Callers
  <2> QED
    BY <1>2, <1>4, <2>1
       DEF Request, Save, Refresh, Record, TestAge, TestFirst, ReadChainKey,
           ReadChainValue, CollectChain, ReadLocalKey, ReadLocalValue, CollectLocal,
           ReadClock, SetTimestamp, ReadTotal, SetTotal, Leave, ReadTimestamp, ReadValue,
           locals
<1>5. ASSUME NEW u \in Uploaders, Upload(u) PROVE UNCHANGED <<pc[p], address[p], tm[p], value[p]>>
  <2>1. u \in Threads \ {p}
    BY CollectorAssumption DEF Threads, Callers
  <2> QED
    BY <1>2, <1>5, <2>1 DEF Upload, ReadGate, Gate, ReadMark, Mark, BeginCopy, EndCopy, Leave,
                         ReadTimestamp, locals
<1> QED
  BY <1>3, <1>4, <1>5

(* A value is backed at a time if some second from then on counts as much. *)
Backed(a, v, t) == \E s \in Seconds : s >= t /\ v <= count[a][s]

AllBacked(a) == \A i \in 1 .. Len(local[a]) : Backed(a, local[a][i].value, local[a][i].tm)

(* What is backed stays so, as counts only grow, and was so at any earlier time. *)
LEMMA BackedStays ==
  ASSUME TypeOK, [Next]_vars, NEW a \in Addresses, NEW v \in Nat, NEW t, Backed(a, v, t)
  PROVE  Backed(a, v, t)'
<1>1. PICK s \in Seconds : s >= t /\ v <= count[a][s]
  BY DEF Backed
<1>2. count \in [Addresses -> [Seconds -> Nat]] /\ now \in Seconds
  BY DEF TypeOK
<1>3. count'[a][s] \in {count[a][s], count[a][s] + 1}
  <2>1. ASSUME NEW r \in Requesters, Record(r) PROVE count'[a][s] \in {count[a][s], count[a][s] + 1}
    <3>1. PICK b \in Addresses : count' = [count EXCEPT ![b][now] = @ + 1]
      BY <2>1 DEF Record
    <3> QED
      BY <1>2, <3>1
  <2>2. CASE UNCHANGED count
    BY <2>2
  <2> QED
    BY <2>1, <2>2
       DEF Next, vars, Tick, Request, Save, Refresh, TestAge, TestFirst, ReadChainKey,
           ReadChainValue, CollectChain, ReadLocalKey, ReadLocalValue, CollectLocal,
           Submit, ReadClock, SetTimestamp, ReadTotal, SetTotal, Query, Poll, ReadNow,
           CollectNow, Upload, ReadGate, Gate, ReadMark, Mark, BeginCopy, EndCopy, helpers
<1>4. v <= count'[a][s]
  BY <1>1, <1>2, <1>3
<1> QED
  BY <1>1, <1>4 DEF Backed

(* What was enough for a second is enough for an earlier one. *)
LEMMA BackedEarlier ==
  ASSUME NEW a, NEW v, NEW t \in Int, Backed(a, v, t), NEW u \in Int, u <= t
  PROVE  Backed(a, v, u)
  BY DEF Backed, Seconds

(* Collecting replaces the newest point if the new one is of the same second. *)
Replaced(list, point, new) ==
  /\ Len(new) \in Nat \ {0} /\ new[Len(new)] = point
  /\ \A i \in 1 .. Len(new) : i = Len(new) \/
       \E j \in 1 .. Len(list) : new[i] = list[j] /\ (j = Len(list) => list[j].tm # point.tm)

(* collectData does so, also when it drops the oldest point. *)
LEMMA CollectReplaces ==
  ASSUME NEW list \in Seq(Point), NEW point \in Point
  PROVE  Replaced(list, point, Collect(list, point))
<1> DEFINE new == Collect(list, point)
<1>1. PICK d, n : CollectedAs(list, point, d, n)
  BY CollectShape
<1>2. /\ d \in {0, 1} /\ n \in Nat \ {0} /\ Len(new) = n
      /\ n - 1 + d <= Len(list) /\ Len(list) <= n + d
      /\ new[n] = point
      /\ \A i \in 1 .. n - 1 : new[i] = list[i + d]
      /\ n - 1 + d = Len(list) /\ n > 1 => list[n - 1 + d].tm # point.tm
  BY <1>1 DEF CollectedAs
<1> HIDE DEF new
<1>3. ASSUME NEW i \in 1 .. n - 1
      PROVE  \E j \in 1 .. Len(list) : new[i] = list[j] /\ (j = Len(list) => list[j].tm # point.tm)
  <2>1. i + d \in 1 .. Len(list) /\ (i + d = Len(list) => n - 1 + d = Len(list) /\ n > 1)
    BY <1>2
  <2>2. i + d = Len(list) => list[i + d].tm # point.tm
    BY <1>2, <2>1
  <2> QED
    BY <1>2, <2>1, <2>2
<1>4. \A i \in 1 .. n : i = n \/ i \in 1 .. n - 1
  BY <1>2
<1>5. Replaced(list, point, new)
  BY <1>2, <1>3, <1>4 DEF Replaced
<1> QED
  BY <1>5 DEF new

(* Only the newest point of a list may show too much, and only while its second is that
   of the timestamp: then a query has filed it while the totals were those of the second
   before, and the request that files this second replaces it. *)
Saved == {"submit", "readClock", "setTimestamp"}

OnlyLastUnbacked ==
  \A a \in Addresses \ overtaken : \A i \in 1 .. Len(local[a]) :
    /\ local[a][i].tm <= timestamp[a]
    /\ ~Backed(a, local[a][i].value, local[a][i].tm) =>
         i = Len(local[a]) /\ local[a][i].tm = timestamp[a] /\ timestamp[a] # 0

(* What a request has found, is about to file, or has filed is backed. *)
RequestsBack ==
  \A r \in Requesters :
    /\ pc[r] \in Saved /\ address[r] \notin overtaken => AllBacked(address[r])
    /\ pc[r] \in Refreshing => timestamp[address[r]] # 0
    /\ pc[r] = "setTotal" => Backed(address[r], value[r], timestamp[address[r]])
    /\ pc[r] \in {"readLocalValue", "collectLocal"} => tm[r] = timestamp[address[r]]
    /\ pc[r] = "collectLocal" => value[r] = total[address[r]]

(* The totals are those of the timestamp's second, or of a later one, unless a request is
   about to find them. *)
TotalsBacked ==
  \A a \in Addresses :
    \/ Backed(a, total[a], timestamp[a])
    \/ \E r \in Requesters : pc[r] \in Refreshing /\ address[r] = a

(* A query at l that files for address a under a timestamp t of the past files after
   points that are all backed: it is the only query, and found them so.  What it files is
   backed, or is of the timestamp's second, which no request has saved yet. *)
QueryBacked(l, a, t, v) ==
  /\ t <= timestamp[a]
  /\ t < timestamp[a] /\ a \notin overtaken => AllBacked(a)
  /\ l = "readNow" /\ t < timestamp[a] => Backed(a, total[a], t)
  /\ l = "collectNow" /\ a \notin overtaken =>
       \/ Backed(a, v, t)
       \/ /\ t = timestamp[a] /\ t # 0
          /\ \A r \in Requesters : pc[r] \in Saved => address[r] # a

QueriesBacked ==
  \A p \in Pollers : pc[p] \in {"readNow", "collectNow"} =>
    QueryBacked(pc[p], address[p], tm[p], value[p])

Repaired == OnlyLastUnbacked /\ RequestsBack /\ TotalsBacked /\ QueriesBacked

(* Types that the steps below need over and over. *)
LEMMA ListFacts ==
  ASSUME TypeOK, NEW a \in Addresses
  PROVE  /\ local[a] \in Seq(Point) /\ timestamp[a] \in Int /\ total[a] \in Nat
         /\ \A i \in 1 .. Len(local[a]) : local[a][i].tm \in Int /\ local[a][i].value \in Nat
<1>1. local[a] \in Seq(Point) /\ timestamp[a] \in 0 .. MaxTime /\ total[a] \in Nat
  BY DEF TypeOK
<1>2. \A i \in 1 .. Len(local[a]) : local[a][i] \in Point
  BY <1>1
<1> QED
  BY <1>1, <1>2 DEF Point

(* Where helpers and lists stay, so does what is said of them. *)
LEMMA RepairedStays ==
  ASSUME TypeOK, Repaired, UNCHANGED <<count, timestamp, total, local, overtaken>>
  PROVE  /\ OnlyLastUnbacked'
         /\ \A a \in Addresses : AllBacked(a) => AllBacked(a)'
         /\ \A a, v, t : Backed(a, v, t) => Backed(a, v, t)'
<1>1. \A a, v, t : Backed(a, v, t)' = Backed(a, v, t)
  BY DEF Backed
<1>2. \A a : AllBacked(a)' = AllBacked(a)
  BY <1>1 DEF AllBacked
<1>3. OnlyLastUnbacked'
  BY <1>1 DEF Repaired, OnlyLastUnbacked
<1> QED
  BY <1>1, <1>2, <1>3

(* What holds of a query's locals goes on to hold while the query does not move. *)
LEMMA QueriesStay ==
  ASSUME TypeOK, QueriesBacked,
         \A p \in Pollers : UNCHANGED <<pc[p], address[p], tm[p], value[p]>>,
         \A l : \A a \in Addresses, t \in 0 .. MaxTime, v \in Nat :
           QueryBacked(l, a, t, v) => QueryBacked(l, a, t, v)'
  PROVE  QueriesBacked'
<1> SUFFICES ASSUME NEW p \in Pollers, pc'[p] \in {"readNow", "collectNow"}
             PROVE  QueryBacked(pc[p], address[p], tm[p], value[p])'
  BY DEF QueriesBacked
<1>1. PICK l \in Labels, a \in Addresses, t \in 0 .. MaxTime, v \in Nat :
        l = pc[p] /\ a = address[p] /\ t = tm[p] /\ v = value[p]
  BY DEF TypeOK, Threads, Callers
<1>2. QueryBacked(l, a, t, v)
  BY <1>1 DEF QueriesBacked
<1>3. QueryBacked(l, a, t, v)'
  BY <1>2
<1>4. l = pc'[p] /\ a = address'[p] /\ t = tm'[p] /\ v = value'[p]
  BY <1>1
<1> QED
  BY <1>3, <1>4 DEF QueryBacked

(* Filing a value, under the timestamp or an earlier second, leaves at most the new point
   unbacked, and none if the value is backed. *)
LEMMA FilingRepairs ==
  ASSUME TypeOK, NEW a \in Addresses, NEW t \in 0 .. MaxTime, NEW v \in Nat,
         UNCHANGED <<count, timestamp>>,
         local' = [local EXCEPT ![a] = Collect(@, [tm |-> t, value |-> v])],
         overtaken \subseteq overtaken', overtaken' \subseteq overtaken \cup {a},
         OnlyLastUnbacked, t <= timestamp[a],
         a \notin overtaken' =>
           /\ t < timestamp[a] => Backed(a, v, t) /\ AllBacked(a)
           /\ Backed(a, v, t) \/ timestamp[a] # 0
  PROVE  /\ OnlyLastUnbacked'
         /\ a \notin overtaken' /\ Backed(a, v, t) => AllBacked(a)'
         /\ \A b \in Addresses \ {a} : AllBacked(b) => AllBacked(b)'
<1> DEFINE point == [tm |-> t, value |-> v]
<1>1. local[a] \in Seq(Point) /\ timestamp[a] \in Int
  BY ListFacts
<1>2. point \in Point /\ point.tm = t /\ point.value = v
  BY DEF Point
<1>3. Replaced(local[a], point, Collect(local[a], point))
  BY <1>1, <1>2, CollectReplaces
<1>4. local'[a] = Collect(local[a], point) /\ \A b \in Addresses \ {a} : local'[b] = local[b]
  BY DEF TypeOK
<1>5. \A b, w, s : Backed(b, w, s)' = Backed(b, w, s)
  BY DEF Backed
<1> HIDE DEF point
<1>6. PICK n : n = Len(local'[a])
  OBVIOUS
<1>7. /\ n \in Nat \ {0} /\ local'[a][n] = point
      /\ \A i \in 1 .. n : i = n \/
           \E j \in 1 .. Len(local[a]) :
             local'[a][i] = local[a][j] /\ (j = Len(local[a]) => local[a][j].tm # t)
  BY <1>2, <1>3, <1>4, <1>6 DEF Replaced
<1>8. ASSUME a \notin overtaken', NEW i \in 1 .. n, i # n
      PROVE  /\ local'[a][i].tm <= timestamp[a]
             /\ Backed(a, local'[a][i].value, local'[a][i].tm)
  <2>1. PICK j \in 1 .. Len(local[a]) :
          local'[a][i] = local[a][j] /\ (j = Len(local[a]) => local[a][j].tm # t)
    BY <1>7, <1>8
  <2>2. a \in Addresses \ overtaken
    BY <1>8
  <2>3. local[a][j].tm <= timestamp[a]
    BY <2>2 DEF OnlyLastUnbacked
  <2>4. Backed(a, local[a][j].value, local[a][j].tm)
    <3>1. CASE t < timestamp[a]
      BY <1>8, <3>1 DEF AllBacked
    <3>2. CASE t = timestamp[a]
      BY <2>1, <2>2, <3>2 DEF OnlyLastUnbacked
    <3> QED
      BY <1>1, <3>1, <3>2
  <2> QED
    BY <2>1, <2>3, <2>4
<1>9. /\ local'[a][n].tm = t /\ local'[a][n].value = v
      /\ a \notin overtaken' => Backed(a, v, t) \/ (t = timestamp[a] /\ timestamp[a] # 0)
  BY <1>1, <1>2, <1>7
<1>10. OnlyLastUnbacked'
  <2> SUFFICES ASSUME NEW b \in Addresses \ overtaken', NEW i \in 1 .. Len(local'[b])
               PROVE  /\ local'[b][i].tm <= timestamp[b]
                      /\ ~Backed(b, local'[b][i].value, local'[b][i].tm) =>
                           /\ i = Len(local'[b]) /\ local'[b][i].tm = timestamp[b]
                           /\ timestamp[b] # 0
    BY <1>5 DEF OnlyLastUnbacked
  <2>1. CASE b # a
    BY <1>4, <2>1 DEF OnlyLastUnbacked
  <2>2. CASE b = a /\ i # n
    BY <1>6, <1>8, <2>2
  <2>3. CASE b = a /\ i = n
    BY <1>6, <1>9, <2>3
  <2> QED
    BY <2>1, <2>2, <2>3
<1>11. a \notin overtaken' /\ Backed(a, v, t) => AllBacked(a)'
  BY <1>5, <1>6, <1>8, <1>9 DEF AllBacked
<1>12. \A b \in Addresses \ {a} : AllBacked(b) => AllBacked(b)'
  BY <1>4, <1>5 DEF AllBacked
<1> QED
  BY <1>10, <1>11, <1>12

(* With one request at a time, totals are backed unless that request refreshes them; a
   query that files leaves the points of other addresses, and what requests have filed. *)
LEMMA RepairedByQuery ==
  ASSUME TypeOK, OneRequester, OnePoller, Repaired, NEW p \in Pollers, Query(p)
  PROVE  Repaired'
<1>1. ThreadsTyped /\ HelpersTyped /\ p \in Threads /\ \A q \in Pollers : q = p
  BY TypeParts DEF Threads, Callers, OnePoller
<1>2. UNCHANGED <<now, helpers>>
  BY DEF Query, Poll, ReadNow, CollectNow
<1>3. UNCHANGED <<count, timestamp, total, overtaken>>
  BY <1>2 DEF helpers, Query, Poll, ReadNow, CollectNow, lists
<1>4. \A r \in Requesters : UNCHANGED <<pc[r], address[r], since[r], tm[r], value[r]>>
  BY RequestersKeep
<1>5. \A b, v, s : Backed(b, v, s)' = Backed(b, v, s)
  BY <1>3 DEF Backed
<1>6. \A r \in Requesters : address[r] \in Addresses
  BY <1>1 DEF ThreadsTyped, Threads, Callers
<1>7. TotalsBacked'
  BY <1>3, <1>4, <1>5 DEF Repaired, TotalsBacked
<1>8. ASSUME \A r \in Requesters :
               pc[r] \in Saved /\ address[r] \notin overtaken => AllBacked(address[r])'
      PROVE  RequestsBack'
  <2> SUFFICES ASSUME NEW r \in Requesters
               PROVE  /\ pc'[r] \in Saved /\ address'[r] \notin overtaken' =>
                           AllBacked(address[r])'
                      /\ pc'[r] \in Refreshing => timestamp'[address'[r]] # 0
                      /\ pc'[r] = "setTotal" =>
                           Backed(address[r], value[r], timestamp[address[r]])'
                      /\ pc'[r] \in {"readLocalValue", "collectLocal"} =>
                           tm'[r] = timestamp'[address'[r]]
                      /\ pc'[r] = "collectLocal" => value'[r] = total'[address'[r]]
    BY DEF RequestsBack
  <2>1. pc[r] = "setTotal" => Backed(address[r], value[r], timestamp[address[r]])'
    BY <1>3, <1>4 DEF Repaired, RequestsBack, Backed
  <2> QED
    BY <1>3, <1>4, <1>8, <2>1 DEF Repaired, RequestsBack
<1>9. CASE UNCHANGED local
  <2>1. OnlyLastUnbacked' /\ \A b \in Addresses : AllBacked(b) => AllBacked(b)'
    BY <1>3, <1>9, RepairedStays
  <2>2. \A r \in Requesters :
          pc[r] \in Saved /\ address[r] \notin overtaken => AllBacked(address[r])'
    <3> SUFFICES ASSUME NEW r \in Requesters, pc[r] \in Saved, address[r] \notin overtaken
                 PROVE  AllBacked(address[r])'
      OBVIOUS
    <3>1. PICK b \in Addresses : b = address[r]
      BY <1>6
    <3>2. AllBacked(b)'
      BY <2>1, <3>1 DEF Repaired, RequestsBack
    <3> QED
      BY <1>4, <3>1, <3>2 DEF AllBacked
  <2>3. CASE Poll(p)
    <3>1. PICK a \in Addresses :
            pc'[p] = "readNow" /\ address'[p] = a /\ tm'[p] = timestamp[a]
      BY <1>1, <2>3 DEF Poll, Goto, ThreadsTyped
    <3>2. timestamp'[address'[p]] \in Int /\ tm'[p] = timestamp'[address'[p]]
      BY <1>1, <1>3, <3>1 DEF HelpersTyped
    <3>3. QueryBacked(pc[p], address[p], tm[p], value[p])'
      BY <3>1, <3>2 DEF QueryBacked
    <3> QED
      BY <1>1, <1>7, <1>8, <2>1, <2>2, <3>3 DEF Repaired, QueriesBacked
  <2>4. CASE ReadNow(p)
    <3>1. /\ pc[p] = "readNow" /\ pc'[p] = "collectNow" /\ UNCHANGED <<address, tm>>
          /\ value'[p] = total[address[p]]
      BY <1>1, <2>4 DEF ReadNow, ReadValue, Goto, ThreadsTyped
    <3>2. PICK a \in Addresses, t \in 0 .. MaxTime, v \in Nat :
            a = address[p] /\ t = tm[p] /\ v = total[a]
      BY <1>1 DEF ThreadsTyped, HelpersTyped
    <3>3. QueryBacked("readNow", a, t, value[p])
      BY <3>1, <3>2 DEF Repaired, QueriesBacked
    <3>4. \/ Backed(a, v, t)
          \/ /\ t = timestamp[a] /\ t # 0
             /\ \A r \in Requesters : pc[r] \in Saved => address[r] # a
      <4>1. CASE t < timestamp[a]
        BY <3>2, <3>3, <4>1 DEF QueryBacked
      <4>2. CASE t = timestamp[a] /\ ~Backed(a, v, t)
        <5>1. PICK r \in Requesters : pc[r] \in Refreshing /\ address[r] = a
          BY <3>2, <4>2 DEF Repaired, TotalsBacked
        <5>2. \A s \in Requesters : pc[s] \notin Saved
          BY <5>1 DEF OneRequester, Refreshing, Saved
        <5>3. timestamp[a] # 0
          BY <5>1 DEF Repaired, RequestsBack
        <5> QED
          BY <4>2, <5>2, <5>3
      <4>3. t <= timestamp[a] /\ timestamp[a] \in Int
        BY <1>1, <3>3 DEF QueryBacked, HelpersTyped
      <4> QED
        BY <4>1, <4>2, <4>3
    <3>5. t < timestamp[a] /\ a \notin overtaken => AllBacked(a)'
      BY <2>1, <3>3 DEF QueryBacked
    <3>6. QueryBacked("collectNow", a, t, v)'
      BY <1>3, <1>4, <1>5, <3>3, <3>4, <3>5 DEF QueryBacked
    <3>7. QueryBacked(pc[p], address[p], tm[p], value[p])'
      <4>1. pc'[p] = "collectNow" /\ address'[p] = a /\ tm'[p] = t /\ value'[p] = v
        BY <3>1, <3>2
      <4> QED
        BY <3>6, <4>1 DEF QueryBacked
    <3> QED
      BY <1>1, <1>7, <1>8, <2>1, <2>2, <3>7 DEF Repaired, QueriesBacked
  <2>5. CASE CollectNow(p)
    <3>1. pc'[p] = "idle"
      BY <1>1, <2>5 DEF CollectNow, Leave, Goto, ThreadsTyped
    <3> QED
      BY <1>1, <1>7, <1>8, <2>1, <2>2, <3>1 DEF Repaired, QueriesBacked
  <2> QED
    BY <2>3, <2>4, <2>5 DEF Query
<1>10. CASE CollectNow(p)
  <2>1. pc[p] = "collectNow" /\ pc'[p] = "idle"
    BY <1>1, <1>10 DEF CollectNow, Leave, Goto, ThreadsTyped
  <2>2. PICK a \in Addresses, t \in 0 .. MaxTime, v \in Nat :
          a = address[p] /\ t = tm[p] /\ v = value[p]
    BY <1>1 DEF ThreadsTyped
  <2>3. local' = [local EXCEPT ![a] = Collect(@, [tm |-> t, value |-> v])]
    BY <1>10, <2>2 DEF CollectNow, CollectedPoint
  <2>4. QueryBacked("collectNow", a, t, v)
    BY <2>1, <2>2 DEF Repaired, QueriesBacked
  <2>5. timestamp[a] \in Int /\ t \in Int /\ t <= timestamp[a]
    BY <1>1, <2>4 DEF HelpersTyped, QueryBacked
  <2>6. a \notin overtaken =>
          \/ Backed(a, v, t)
          \/ /\ t = timestamp[a] /\ t # 0
             /\ \A r \in Requesters : pc[r] \in Saved => address[r] # a
    BY <2>4 DEF QueryBacked
  <2>7. a \notin overtaken' =>
          /\ t < timestamp[a] => Backed(a, v, t) /\ AllBacked(a)
          /\ Backed(a, v, t) \/ timestamp[a] # 0
    BY <1>3, <2>4, <2>5, <2>6 DEF QueryBacked
  <2>8. /\ OnlyLastUnbacked'
        /\ a \notin overtaken' /\ Backed(a, v, t) => AllBacked(a)'
        /\ \A b \in Addresses \ {a} : AllBacked(b) => AllBacked(b)'
    <3>1. OnlyLastUnbacked /\ overtaken' \subseteq overtaken \cup {a}
      BY <1>3 DEF Repaired
    <3> QED
      BY <1>3, <2>3, <2>5, <2>7, <3>1, FilingRepairs
  <2>9. QueriesBacked'
    BY <1>1, <2>1 DEF QueriesBacked
  <2>10. \A r \in Requesters :
           pc[r] \in Saved /\ address[r] \notin overtaken => AllBacked(address[r])'
    <3> SUFFICES ASSUME NEW r \in Requesters, pc[r] \in Saved, address[r] \notin overtaken
                 PROVE  AllBacked(address[r])'
      OBVIOUS
    <3>1. PICK b \in Addresses : b = address[r]
      BY <1>6
    <3>2. AllBacked(b) /\ b \notin overtaken
      BY <3>1 DEF Repaired, RequestsBack
    <3>3. b = a => Backed(a, v, t)
      BY <2>6, <3>1, <3>2
    <3>4. AllBacked(b)'
      BY <1>3, <2>8, <3>2, <3>3
    <3> QED
      BY <1>4, <3>1, <3>4 DEF AllBacked
  <2> QED
    BY <1>7, <1>8, <2>8, <2>9, <2>10 DEF Repaired
<1> QED
  BY <1>9, <1>10 DEF Query, Poll, ReadNow, lists

(* The steps of a request that only move it on. *)
LEMMA RepairedMoves ==
  ASSUME TypeOK, OneRequester, Repaired, NEW r \in Requesters, Request(r),
         UNCHANGED <<count, timestamp, total, local, overtaken>>, UNCHANGED address[r],
         pc[r] \in Refreshing => pc'[r] \in Refreshing,
         pc'[r] \in Saved => pc[r] \in Saved \/ timestamp[address[r]] = 0,
         \/ pc'[r] \notin Refreshing \cup Saved \cup {"readLocalValue", "collectLocal"}
         \/ RequestsBack'
  PROVE  Repaired'
<1>1. \A s \in Requesters : s = r
  BY DEF OneRequester
<1>2. \A b, v, s : Backed(b, v, s)' = Backed(b, v, s)
  BY DEF Backed
<1>3. OnlyLastUnbacked'
  BY RepairedStays
<1>4. TotalsBacked'
  BY <1>1, <1>2 DEF Repaired, TotalsBacked
<1>5. RequestsBack'
  BY <1>1 DEF RequestsBack, Refreshing
<1>6. \A b : AllBacked(b)' = AllBacked(b)
  BY <1>2 DEF AllBacked
<1>7. ASSUME NEW l, NEW a \in Addresses, NEW t \in 0 .. MaxTime, NEW v \in Nat,
             QueryBacked(l, a, t, v)
      PROVE  QueryBacked(l, a, t, v)'
  <2>1. ASSUME t = timestamp[a], t # 0, \A s \in Requesters : pc[s] \in Saved => address[s] # a
        PROVE  \A s \in Requesters : pc'[s] \in Saved => address'[s] # a
    BY <1>1, <2>1
  <2> QED
    BY <1>2, <1>6, <1>7, <2>1 DEF QueryBacked
<1>8. QueriesBacked'
  BY <1>7, PollersKeep, QueriesStay DEF Repaired
<1> QED
  BY <1>3, <1>4, <1>5, <1>8 DEF Repaired

(* A request that only looks for the point to file leaves all repaired that was. *)
LEMMA RepairedFinding ==
  ASSUME TypeOK, OneRequester, Repaired, NEW r \in Requesters, Request(r),
         \/ TestAge(r) \/ TestFirst(r) \/ ReadChainKey(r) \/ ReadChainValue(r) \/ CollectChain(r)
         \/ ReadLocalKey(r) \/ ReadLocalValue(r) \/ Submit(r) \/ ReadClock(r)
  PROVE  Repaired'
<1>1. HelpersTyped /\ ThreadsTyped /\ r \in Threads /\ \A s \in Requesters : s = r
  BY TypeParts DEF Threads, Callers, OneRequester
<1>2. PICK a \in Addresses : a = address[r]
  BY <1>1 DEF ThreadsTyped
<1>3. UNCHANGED <<now, count, timestamp, total, local, overtaken>> /\ UNCHANGED address[r]
  <2>1. CASE Submit(r)
    BY <1>1, <2>1, CollectorAssumption DEF Submit, helpers, lists, ThreadsTyped, Callers
  <2> QED
    BY <2>1 DEF TestAge, TestFirst, ReadChainKey, ReadChainValue, CollectChain, ReadLocalKey,
                ReadLocalValue, ReadClock, helpers, lists, locals
<1>4. now \in Nat \ {0} /\ timestamp[a] \in Int
  BY <1>1 DEF HelpersTyped, Seconds
<1>5. AllBacked(a) => AllBacked(a)'
  BY <1>3, RepairedStays
<1>6. CASE TestAge(r)
  <2>1. /\ pc[r] = "testAge" /\ pc'[r] \in {"testFirst", "readTotal"}
        /\ pc'[r] = "readTotal" => now - timestamp[a] < 1
    BY <1>1, <1>2, <1>6 DEF TestAge, Goto, ThreadsTyped
  <2>2. pc'[r] = "readTotal" => timestamp[a] # 0
    BY <1>4, <2>1
  <2>3. RequestsBack'
    BY <1>1, <1>2, <1>3, <2>1, <2>2 DEF RequestsBack, Refreshing, Saved
  <2> QED
    BY <1>3, <2>1, <2>3, RepairedMoves DEF Refreshing, Saved
<1>7. CASE TestFirst(r)
  <2>1. /\ pc[r] = "testFirst"
        /\ \/ pc'[r] = "readChainKey"
           \/ timestamp[a] = 0 /\ pc'[r] = "readClock"
    BY <1>1, <1>2, <1>7 DEF TestFirst, Goto, ThreadsTyped
  <2>2. timestamp[a] = 0 /\ a \notin overtaken => AllBacked(a)
    BY DEF Repaired, OnlyLastUnbacked, AllBacked
  <2>3. RequestsBack'
    <3>1. pc'[r] = "readClock" /\ a \notin overtaken => AllBacked(a)'
      BY <1>5, <2>1, <2>2
    <3>2. pc'[r] = "readClock" /\ a \notin overtaken => AllBacked(address[r])'
      BY <1>2, <1>3, <3>1 DEF AllBacked
    <3> QED
      BY <1>1, <1>2, <1>3, <2>1, <3>2 DEF RequestsBack, Refreshing, Saved
  <2> QED
    BY <1>2, <1>3, <2>1, <2>3, RepairedMoves DEF Refreshing, Saved
<1>8. CASE ReadChainKey(r) \/ ReadChainValue(r) \/ CollectChain(r)
  <2>1. /\ pc[r] \in {"readChainKey", "readChainValue", "collectChain"}
        /\ pc'[r] \in {"readChainValue", "collectChain", "readLocalKey"}
    BY <1>1, <1>8 DEF ReadChainKey, ReadChainValue, CollectChain, Goto, ThreadsTyped
  <2> QED
    BY <1>3, <2>1, RepairedMoves DEF Refreshing, Saved
<1>9. CASE ReadLocalKey(r) \/ ReadLocalValue(r)
  <2>1. CASE ReadLocalKey(r)
    <3>1. pc[r] = "readLocalKey" /\ pc'[r] = "readLocalValue" /\ tm'[r] = timestamp[a]
      BY <1>1, <1>2, <2>1 DEF ReadLocalKey, ReadTimestamp, Goto, ThreadsTyped
    <3>2. RequestsBack'
      BY <1>1, <1>2, <1>3, <3>1 DEF RequestsBack, Refreshing, Saved
    <3> QED
      BY <1>3, <3>1, <3>2, RepairedMoves DEF Refreshing, Saved
  <2>2. CASE ReadLocalValue(r)
    <3>1. /\ pc[r] = "readLocalValue" /\ pc'[r] = "collectLocal"
          /\ UNCHANGED tm /\ value'[r] = total[a]
      BY <1>1, <1>2, <2>2 DEF ReadLocalValue, ReadValue, Goto, ThreadsTyped
    <3>2. tm[r] = timestamp[a]
      BY <1>2, <3>1 DEF Repaired, RequestsBack
    <3>3. RequestsBack'
      BY <1>1, <1>2, <1>3, <3>1, <3>2 DEF RequestsBack, Refreshing, Saved
    <3> QED
      BY <1>3, <3>1, <3>3, RepairedMoves DEF Refreshing, Saved
  <2> QED
    BY <1>9, <2>1, <2>2
<1>10. CASE Submit(r) \/ ReadClock(r)
  <2>1. /\ pc[r] \in {"submit", "readClock"}
        /\ pc'[r] \in {"readClock", "setTimestamp"}
    <3>1. CASE Submit(r)
      <4>1. PICK u \in Uploaders : pc' = [pc EXCEPT ![r] = "readClock", ![u] = "readGate"]
        BY <3>1 DEF Submit
      <4>2. u # r
        BY CollectorAssumption DEF Callers
      <4> QED
        BY <1>1, <3>1, <4>1, <4>2 DEF Submit, ThreadsTyped
    <3> QED
      BY <1>1, <1>10, <3>1 DEF ReadClock, Goto, ThreadsTyped
  <2>2. a \notin overtaken => AllBacked(a)'
    BY <1>2, <1>5, <2>1 DEF Repaired, RequestsBack, Saved
  <2>3. RequestsBack'
    <3>1. a \notin overtaken => AllBacked(address[r])'
      BY <1>2, <1>3, <2>2 DEF AllBacked
    <3> QED
      BY <1>1, <1>2, <1>3, <2>1, <3>1 DEF RequestsBack, Refreshing
  <2> QED
    BY <1>3, <2>1, <2>3, RepairedMoves DEF Refreshing, Saved
<1> QED
  BY <1>6, <1>7, <1>8, <1>9, <1>10

(* Saving files the totals of the second in the list of the address: a point that a query
   had filed under that second, when its totals were those of the one before, is replaced;
   a query that has yet to file what it has read of this address is overtaken. *)
LEMMA RepairedCollect ==
  ASSUME TypeOK, OneRequester, Repaired, NEW r \in Requesters, CollectLocal(r)
  PROVE  Repaired'
<1>1. HelpersTyped /\ ThreadsTyped /\ r \in Threads /\ \A s \in Requesters : s = r
  BY TypeParts DEF Threads, Callers, OneRequester
<1>2. PICK a \in Addresses, t \in 0 .. MaxTime, v \in Nat :
        a = address[r] /\ t = tm[r] /\ v = value[r]
  BY <1>1 DEF ThreadsTyped
<1>3. pc[r] = "collectLocal" /\ pc'[r] = "submit" /\ t = timestamp[a] /\ v = total[a]
  BY <1>1, <1>2 DEF CollectLocal, Goto, ThreadsTyped, Repaired, RequestsBack
<1>4. UNCHANGED <<count, timestamp, total, address, tm, value>>
  BY DEF CollectLocal, helpers, locals
<1>5. /\ local' = [local EXCEPT ![a] = Collect(@, [tm |-> t, value |-> v])]
      /\ overtaken \subseteq overtaken' /\ overtaken' \subseteq overtaken \cup {a}
      /\ (\E p \in Pollers : pc[p] = "collectNow" /\ address[p] = a) => a \in overtaken'
  BY <1>2 DEF CollectLocal, CollectedPoint, Overtakes
<1>6. \A b \in Addresses : Backed(b, total[b], timestamp[b])
  BY <1>1, <1>3 DEF Repaired, TotalsBacked, Refreshing
<1>7. \A b, w, s : Backed(b, w, s)' = Backed(b, w, s)
  BY <1>4 DEF Backed
<1>8. timestamp[a] \in Int
  BY <1>1 DEF HelpersTyped
<1>9. /\ OnlyLastUnbacked'
      /\ a \notin overtaken' => AllBacked(a)'
      /\ \A b \in Addresses \ {a} : AllBacked(b) => AllBacked(b)'
  <2>1. t <= timestamp[a] /\ ~(t < timestamp[a]) /\ Backed(a, v, t)
    BY <1>3, <1>6, <1>8
  <2>2. OnlyLastUnbacked
    BY DEF Repaired
  <2> QED
    BY <1>4, <1>5, <2>1, <2>2, FilingRepairs
<1>10. RequestsBack'
  <2>1. address'[r] \notin overtaken' => AllBacked(address[r])'
    BY <1>2, <1>4, <1>9 DEF AllBacked
  <2> QED
    BY <1>1, <1>3, <2>1 DEF RequestsBack, Refreshing, Saved
<1>11. TotalsBacked'
  BY <1>4, <1>6 DEF TotalsBacked, Backed
<1>12. QueriesBacked'
  <2>1. \A p \in Pollers : UNCHANGED <<pc[p], address[p], tm[p], value[p]>>
    BY PollersKeep DEF Request, Save
  <2> SUFFICES ASSUME NEW p \in Pollers, pc[p] \in {"readNow", "collectNow"}
               PROVE  QueryBacked(pc[p], address[p], tm[p], value[p])'
    BY <2>1 DEF QueriesBacked
  <2>2. PICK l \in {"readNow", "collectNow"}, b \in Addresses, s \in 0 .. MaxTime, w \in Nat :
          l = pc[p] /\ b = address[p] /\ s = tm[p] /\ w = value[p]
    BY <1>1 DEF ThreadsTyped, Threads, Callers
  <2>3. QueryBacked(l, b, s, w)
    BY <2>2 DEF Repaired, QueriesBacked
  <2>4. s < timestamp[b] /\ b \notin overtaken' => AllBacked(b)'
    BY <1>5, <1>9, <2>3 DEF QueryBacked
  <2>5. l = "collectNow" /\ b \notin overtaken' =>
          \/ Backed(b, w, s)
          \/ /\ s = timestamp[b] /\ s # 0
             /\ \A q \in Requesters : pc'[q] \in Saved => address'[q] # b
    <3> SUFFICES ASSUME l = "collectNow", b \notin overtaken'
                 PROVE  \/ Backed(b, w, s)
                        \/ /\ s = timestamp[b] /\ s # 0
                           /\ \A q \in Requesters : pc'[q] \in Saved => address'[q] # b
      OBVIOUS
    <3>1. b # a
      BY <1>5, <2>2
    <3> QED
      BY <1>1, <1>2, <1>4, <1>5, <2>3, <3>1 DEF QueryBacked
  <2>6. QueryBacked(l, b, s, w)'
    BY <1>4, <1>7, <2>3, <2>4, <2>5 DEF QueryBacked
  <2> QED
    BY <2>1, <2>2, <2>6 DEF QueryBacked
<1> QED
  BY <1>9, <1>10, <1>11, <1>12 DEF Repaired

(* The timestamp is moved on when the totals of its second are filed: a query that has
   read the old one files totals that something backs. *)
LEMMA RepairedSetTimestamp ==
  ASSUME TypeOK, OneRequester, InOrder, Repaired, NEW r \in Requesters, SetTimestamp(r)
  PROVE  Repaired'
<1>1. HelpersTyped /\ ThreadsTyped /\ r \in Threads /\ \A s \in Requesters : s = r
  BY TypeParts DEF Threads, Callers, OneRequester
<1>2. PICK a \in Addresses : a = address[r]
  BY <1>1 DEF ThreadsTyped
<1>3. pc[r] = "setTimestamp" /\ pc'[r] = "readTotal"
  BY <1>1 DEF SetTimestamp, Goto, ThreadsTyped
<1>4. UNCHANGED <<now, count, total, local, overtaken, address, tm, value>>
  BY DEF SetTimestamp, lists, locals
<1>5. PICK n \in 0 .. MaxTime : n = tm[r]
  BY <1>1 DEF ThreadsTyped
<1>6. /\ timestamp'[a] = n
      /\ \A b \in Addresses \ {a} : timestamp'[b] = timestamp[b]
  BY <1>1, <1>2, <1>5 DEF SetTimestamp, HelpersTyped
<1>7. timestamp[a] < n /\ n \in Int /\ \A b \in Addresses : timestamp[b] \in Nat
  BY <1>1, <1>2, <1>3, <1>5 DEF InOrder, HelpersTyped
<1>8. a \notin overtaken => AllBacked(a)
  BY <1>2, <1>3 DEF Repaired, RequestsBack, Saved
<1>9. \A b \in Addresses : Backed(b, total[b], timestamp[b])
  BY <1>1, <1>3 DEF Repaired, TotalsBacked, Refreshing
<1>10. \A b, v, s : Backed(b, v, s)' = Backed(b, v, s)
  BY <1>4 DEF Backed
<1>11. OnlyLastUnbacked'
  <2> SUFFICES ASSUME NEW b \in Addresses \ overtaken, NEW i \in 1 .. Len(local[b])
               PROVE  /\ local[b][i].tm <= timestamp'[b]
                      /\ ~Backed(b, local[b][i].value, local[b][i].tm) =>
                           /\ i = Len(local[b]) /\ local[b][i].tm = timestamp'[b]
                           /\ timestamp'[b] # 0
    BY <1>4, <1>10 DEF OnlyLastUnbacked
  <2>1. CASE b = a
    <3>1. local[a][i].tm <= timestamp[a] /\ local[a][i].tm \in Int
      BY <2>1, ListFacts DEF Repaired, OnlyLastUnbacked
    <3> QED
      BY <1>6, <1>7, <1>8, <2>1, <3>1 DEF AllBacked
  <2>2. CASE b # a
    BY <1>6, <2>2 DEF Repaired, OnlyLastUnbacked
  <2> QED
    BY <2>1, <2>2
<1>12. RequestsBack'
  BY <1>1, <1>2, <1>3, <1>4, <1>6, <1>7 DEF RequestsBack, Refreshing, Saved
<1>13. TotalsBacked'
  <2> SUFFICES ASSUME NEW b \in Addresses, b # a
               PROVE  Backed(b, total[b], timestamp[b])'
    BY <1>2, <1>3, <1>4 DEF TotalsBacked, Refreshing
  <2> QED
    BY <1>4, <1>6, <1>9 DEF Backed
<1>14. \A p \in Pollers : UNCHANGED <<pc[p], address[p], tm[p], value[p]>>
  BY PollersKeep DEF Request, Refresh
<1>15. ASSUME NEW l, NEW b \in Addresses, NEW s \in 0 .. MaxTime, NEW v \in Nat,
              QueryBacked(l, b, s, v)
       PROVE  QueryBacked(l, b, s, v)'
  <2>1. s <= timestamp[b] /\ s \in Int
    BY <1>15 DEF QueryBacked
  <2>2. s <= timestamp'[b]
    BY <1>6, <1>7, <2>1
  <2>3. s < timestamp'[b] /\ b \notin overtaken => AllBacked(b)
    BY <1>6, <1>8, <1>15 DEF QueryBacked
  <2>4. l = "readNow" /\ s < timestamp'[b] => Backed(b, total[b], s)
    BY <1>6, <1>7, <1>9, <1>15, <2>1, BackedEarlier DEF QueryBacked
  <2>5. l = "collectNow" /\ b \notin overtaken =>
          \/ Backed(b, v, s)
          \/ /\ s = timestamp'[b] /\ s # 0
             /\ \A q \in Requesters : pc'[q] \in Saved => address'[q] # b
    <3>1. CASE b = a
      BY <1>2, <1>3, <1>15, <3>1 DEF QueryBacked, Saved
    <3>2. CASE b # a
      BY <1>1, <1>3, <1>6, <1>15, <3>2 DEF QueryBacked, Saved
    <3> QED
      BY <3>1, <3>2
  <2>6. AllBacked(b)' = AllBacked(b)
    BY <1>4, <1>10 DEF AllBacked
  <2> QED
    BY <1>4, <1>10, <2>2, <2>3, <2>4, <2>5, <2>6 DEF QueryBacked
<1>16. QueriesBacked'
  BY <1>14, <1>15, QueriesStay DEF Repaired
<1> QED
  BY <1>11, <1>12, <1>13, <1>16 DEF Repaired

(* The totals are refreshed from a count that the second has reached by then. *)
LEMMA RepairedRefresh ==
  ASSUME TypeOK, OneRequester, InOrder, Repaired, NEW r \in Requesters,
         ReadTotal(r) \/ SetTotal(r)
  PROVE  Repaired'
<1>1. HelpersTyped /\ ThreadsTyped /\ r \in Threads /\ \A s \in Requesters : s = r
  BY TypeParts DEF Threads, Callers, OneRequester
<1>2. PICK a \in Addresses : a = address[r]
  BY <1>1 DEF ThreadsTyped
<1>3. UNCHANGED <<now, count, timestamp, local, overtaken>>
  BY DEF ReadTotal, SetTotal, helpers, lists
<1>4. \A b, v, s : Backed(b, v, s)' = Backed(b, v, s)
  BY <1>3 DEF Backed
<1>5. \A b : AllBacked(b)' = AllBacked(b)
  BY <1>3, <1>4 DEF AllBacked
<1>6. OnlyLastUnbacked'
  BY <1>3, <1>4 DEF Repaired, OnlyLastUnbacked
<1>7. \A p \in Pollers : UNCHANGED <<pc[p], address[p], tm[p], value[p]>>
  BY PollersKeep DEF Request, Refresh
<1>8. pc'[r] \notin Saved
  BY <1>1 DEF ReadTotal, SetTotal, Leave, Goto, ThreadsTyped, Saved
<1>9. ASSUME \A b \in Addresses, s \in 0 .. MaxTime :
               s < timestamp[b] /\ Backed(b, total[b], s) => Backed(b, total[b], s)'
      PROVE  QueriesBacked'
  <2>1. ASSUME NEW l, NEW b \in Addresses, NEW s \in 0 .. MaxTime, NEW v \in Nat,
               QueryBacked(l, b, s, v)
        PROVE  QueryBacked(l, b, s, v)'
    BY <1>1, <1>3, <1>4, <1>5, <1>8, <1>9, <2>1 DEF QueryBacked
  <2> QED
    BY <1>7, <2>1, QueriesStay DEF Repaired
<1>10. CASE ReadTotal(r)
  <2>1. pc[r] = "readTotal" /\ pc'[r] = "setTotal"
    BY <1>1, <1>10 DEF ReadTotal, Goto, ThreadsTyped
  <2>2. UNCHANGED <<total, address, tm>> /\ value'[r] = count[a][now]
    BY <1>1, <1>2, <1>10 DEF ReadTotal, helpers, ThreadsTyped
  <2>3. count[a][now] \in Nat /\ now \in Seconds /\ now >= timestamp[a]
    BY <1>1 DEF HelpersTyped, InOrder, Seconds
  <2>4. Backed(a, value'[r], timestamp[a])
    BY <2>2, <2>3 DEF Backed
  <2>5. RequestsBack'
    <3>1. Backed(address[r], value[r], timestamp[address[r]])'
      BY <1>2, <1>3, <2>2, <2>4 DEF Backed
    <3> QED
      BY <1>1, <1>3, <2>1, <2>2, <3>1 DEF Repaired, RequestsBack, Refreshing, Saved
  <2>6. TotalsBacked'
    BY <1>1, <1>3, <1>4, <2>1, <2>2 DEF Repaired, TotalsBacked, Refreshing
  <2>7. QueriesBacked'
    BY <1>3, <1>9, <2>2 DEF Backed
  <2> QED
    BY <1>6, <2>5, <2>6, <2>7 DEF Repaired
<1>11. CASE SetTotal(r)
  <2>1. pc[r] = "setTotal" /\ pc'[r] = "idle"
    BY <1>1, <1>11 DEF SetTotal, Leave, Goto, ThreadsTyped
  <2>2. PICK v \in Nat : v = value[r]
    BY <1>1 DEF ThreadsTyped
  <2>3. total'[a] = v /\ \A b \in Addresses \ {a} : total'[b] = total[b]
    BY <1>1, <1>2, <1>11, <2>2 DEF SetTotal, HelpersTyped
  <2>4. Backed(a, v, timestamp[a])
    BY <1>2, <2>1, <2>2 DEF Repaired, RequestsBack
  <2>5. RequestsBack'
    BY <1>1, <2>1 DEF RequestsBack, Refreshing, Saved
  <2>6. \A b \in Addresses \ {a} : Backed(b, total[b], timestamp[b])
    BY <1>1, <1>2 DEF Repaired, TotalsBacked
  <2>7. TotalsBacked'
    <3> SUFFICES ASSUME NEW b \in Addresses PROVE Backed(b, total[b], timestamp[b])'
      BY DEF TotalsBacked
    <3> QED
      BY <1>3, <2>3, <2>4, <2>6 DEF Backed
  <2>8. QueriesBacked'
    <3> SUFFICES ASSUME NEW b \in Addresses, NEW s \in 0 .. MaxTime, s < timestamp[b],
                        Backed(b, total[b], s)
                 PROVE  Backed(b, total[b], s)'
      BY <1>9
    <3>1. CASE b = a
      <4>1. timestamp[a] \in Int /\ s \in Int /\ s <= timestamp[a]
        BY <1>1, <3>1 DEF HelpersTyped
      <4>2. Backed(a, v, s)
        BY <2>4, <4>1, BackedEarlier
      <4> QED
        BY <1>3, <2>3, <3>1, <4>2 DEF Backed
    <3>2. CASE b # a
      BY <1>3, <2>3, <3>2 DEF Backed
    <3> QED
      BY <3>1, <3>2
  <2> QED
    BY <1>6, <2>5, <2>7, <2>8 DEF Repaired
<1> QED
  BY <1>10, <1>11

(* A count that grows backs what it backed. *)
LEMMA RepairedRecord ==
  ASSUME TypeOK, OneRequester, Repaired, NEW r \in Requesters, Record(r)
  PROVE  Repaired'
<1>1. HelpersTyped /\ ThreadsTyped /\ r \in Threads /\ \A s \in Requesters : s = r
  BY TypeParts DEF Threads, Callers, OneRequester
<1>2. pc[r] = "idle" /\ pc'[r] = "testAge"
  BY <1>1 DEF Record, Goto, ThreadsTyped
<1>3. UNCHANGED <<timestamp, total, local, overtaken>>
  BY DEF Record, lists
<1>4. ASSUME NEW b \in Addresses, NEW v \in Nat, NEW s, Backed(b, v, s) PROVE Backed(b, v, s)'
  BY <1>4, BackedStays DEF Next, Request
<1>5. ASSUME NEW b \in Addresses, NEW i \in 1 .. Len(local[b]),
             Backed(b, local[b][i].value, local[b][i].tm)
      PROVE  Backed(b, local[b][i].value, local[b][i].tm)'
  <2>1. PICK v \in Nat, s \in Int : v = local[b][i].value /\ s = local[b][i].tm
    BY ListFacts
  <2>2. Backed(b, v, s)'
    BY <1>4, <1>5, <2>1
  <2> QED
    BY <1>3, <2>1, <2>2 DEF Backed
<1>6. ASSUME NEW b \in Addresses, NEW s, Backed(b, total[b], s)
      PROVE  Backed(b, total[b], s)'
  <2>1. PICK v \in Nat : v = total[b]
    BY ListFacts
  <2>2. Backed(b, v, s)'
    BY <1>4, <1>6, <2>1
  <2> QED
    BY <1>3, <2>1, <2>2 DEF Backed
<1>7. OnlyLastUnbacked'
  <2> SUFFICES ASSUME NEW b \in Addresses \ overtaken, NEW i \in 1 .. Len(local[b])
               PROVE  /\ local[b][i].tm <= timestamp[b]
                      /\ ~Backed(b, local[b][i].value, local[b][i].tm)' =>
                           /\ i = Len(local[b]) /\ local[b][i].tm = timestamp[b]
                           /\ timestamp[b] # 0
    BY <1>3 DEF OnlyLastUnbacked
  <2> QED
    BY <1>5 DEF Repaired, OnlyLastUnbacked
<1>8. RequestsBack'
  BY <1>1, <1>2 DEF RequestsBack, Refreshing, Saved
<1>9. TotalsBacked'
  <2> SUFFICES ASSUME NEW b \in Addresses PROVE Backed(b, total[b], timestamp[b])'
    BY DEF TotalsBacked
  <2>1. Backed(b, total[b], timestamp[b])
    BY <1>1, <1>2 DEF Repaired, TotalsBacked, Refreshing
  <2>2. PICK s : s = timestamp[b]
    OBVIOUS
  <2>3. Backed(b, total[b], s)'
    BY <1>6, <2>1, <2>2
  <2> QED
    BY <1>3, <2>2, <2>3 DEF Backed
<1>10. QueriesBacked'
  <2>1. \A p \in Pollers : UNCHANGED <<pc[p], address[p], tm[p], value[p]>>
    BY PollersKeep DEF Request
  <2>2. ASSUME NEW b \in Addresses, AllBacked(b) PROVE AllBacked(b)'
    <3> SUFFICES ASSUME NEW i \in 1 .. Len(local[b])
                 PROVE  Backed(b, local[b][i].value, local[b][i].tm)'
      BY <1>3 DEF AllBacked
    <3> QED
      BY <1>5, <2>2 DEF AllBacked
  <2>3. \A s \in Requesters : pc'[s] \notin Saved
    BY <1>1, <1>2 DEF Saved
  <2>4. ASSUME NEW l, NEW b \in Addresses, NEW s \in 0 .. MaxTime, NEW v \in Nat,
               QueryBacked(l, b, s, v)
        PROVE  QueryBacked(l, b, s, v)'
    <3>1. s <= timestamp'[b] /\ (s < timestamp'[b] /\ b \notin overtaken' => AllBacked(b)')
      BY <1>3, <2>2, <2>4 DEF QueryBacked
    <3>2. l = "readNow" /\ s < timestamp'[b] => Backed(b, total[b], s)'
      BY <1>3, <1>6, <2>4 DEF QueryBacked
    <3>3. Backed(b, v, s) => Backed(b, v, s)'
      BY <1>4
    <3> QED
      BY <1>3, <2>3, <2>4, <3>1, <3>2, <3>3 DEF QueryBacked
  <2> QED
    BY <2>1, <2>4, QueriesStay DEF Repaired
<1> QED
  BY <1>7, <1>8, <1>9, <1>10 DEF Repaired

(* What else goes on touches neither helpers, lists nor these threads. *)
LEMMA RepairedAside ==
  ASSUME TypeOK, OneRequester, Repaired,
         UNCHANGED vars \/ Tick \/ \E u \in Uploaders : Upload(u)
  PROVE  Repaired'
<1>1. UNCHANGED <<count, timestamp, total, local, overtaken>>
  <2>1. CASE UNCHANGED vars \/ Tick
    BY <2>1 DEF vars, Tick, helpers, lists
  <2>2. CASE \E u \in Uploaders : Upload(u)
    BY <2>2 DEF Upload, ReadGate, Gate, ReadMark, Mark, BeginCopy, EndCopy, helpers, lists
  <2> QED
    BY <2>1, <2>2
<1>2. \A r \in Requesters : UNCHANGED <<pc[r], address[r], tm[r], value[r]>>
  BY RequestersKeep DEF vars, Tick, locals
<1>3. \A p \in Pollers : UNCHANGED <<pc[p], address[p], tm[p], value[p]>>
  BY PollersKeep DEF vars, Tick, locals
<1>4. OnlyLastUnbacked'
  BY <1>1, RepairedStays
<1>5. RequestsBack'
  BY <1>1, <1>2 DEF Repaired, RequestsBack, Backed, AllBacked
<1>6. TotalsBacked'
  BY <1>1, <1>2 DEF Repaired, TotalsBacked, Backed
<1>7. \A l, a, t, v : QueryBacked(l, a, t, v) => QueryBacked(l, a, t, v)'
  BY <1>1, <1>2 DEF QueryBacked, Backed, AllBacked
<1>8. QueriesBacked'
  BY <1>3, <1>7, QueriesStay DEF Repaired
<1> QED
  BY <1>4, <1>5, <1>6, <1>8 DEF Repaired

(* A query may file the totals of the second before under a timestamp that was just set;
   the request that saves this second replaces the point, however long it takes, unless
   the query files it only then.  But for the addresses of which a query was overtaken in
   this way, a point before the timestamp shows the requests of its second or of a later
   one. *)
THEOREM SavingRepairs == OneRequester /\ OnePoller => (Spec => []SavingRepairsQueries)
<1> SUFFICES ASSUME OneRequester, OnePoller PROVE Spec => []SavingRepairsQueries
  OBVIOUS
<1>1. Init => Repaired
  <2> SUFFICES ASSUME Init PROVE Repaired
    OBVIOUS
  <2>1. \A t \in Callers : pc[t] = "idle"
    BY DEF Init, Threads
  <2>2. \A a \in Addresses :
          /\ timestamp[a] = 0 /\ local[a] = <<>> /\ Len(local[a]) = 0 /\ total[a] = 0
          /\ \A s \in Seconds : count[a][s] = 0
    BY DEF Init
  <2>3. OnlyLastUnbacked
    BY <2>2 DEF OnlyLastUnbacked
  <2>4. RequestsBack /\ QueriesBacked
    BY <2>1 DEF RequestsBack, QueriesBacked, Refreshing, Saved, Callers
  <2>5. TotalsBacked
    <3>1. 1 \in Seconds
      BY CollectorAssumption DEF Seconds
    <3>2. \A a \in Addresses : 1 >= timestamp[a] /\ total[a] <= count[a][1]
      BY <2>2, <3>1
    <3> QED
      BY <3>1, <3>2 DEF TotalsBacked, Backed
  <2> QED
    BY <2>3, <2>4, <2>5 DEF Repaired
<1>2. ASSUME TypeOK, InOrder, Repaired, [Next]_vars PROVE Repaired'
  <2>1. ASSUME NEW r \in Requesters, Request(r) PROVE Repaired'
    BY <1>2, <2>1, RepairedRecord, RepairedFinding, RepairedCollect, RepairedSetTimestamp,
       RepairedRefresh DEF Request, Save, Refresh
  <2>2. ASSUME NEW p \in Pollers, Query(p) PROVE Repaired'
    BY <1>2, <2>2, RepairedByQuery
  <2> QED
    BY <1>2, <2>1, <2>2, RepairedAside DEF Next
<1>3. TypeOK /\ Repaired => SavingRepairsQueries
  <2> SUFFICES ASSUME TypeOK, Repaired, NEW a \in Addresses \ overtaken,
                      NEW i \in 1 .. Len(local[a]),
                      local[a][i].tm < timestamp[a]
               PROVE  \E s \in Seconds : s >= local[a][i].tm /\ local[a][i].value <= count[a][s]
    BY DEF SavingRepairsQueries, Points
  <2>1. local[a][i].tm # timestamp[a]
    BY ListFacts
  <2>2. Backed(a, local[a][i].value, local[a][i].tm)
    BY <2>1 DEF Repaired, OnlyLastUnbacked
  <2> QED
    BY <2>2 DEF Backed
<1>4. TypeOK /\ InOrder /\ Repaired /\ [Next]_vars => Repaired'
  BY <1>2
<1> QED
  BY <1>1, <1>3, <1>4, OrderKept, PTL DEF Spec

================================================================================
