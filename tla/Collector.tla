------------------------------- MODULE Collector -------------------------------
(***************************************************************************)
(* From the counters to the ledger: what MonitorController does with a     *)
(* request's outcome.                                                      *)
(*                                                                         *)
(* A request thread records the outcome in the helper of its address and   *)
(* runs collectDataHighPerformance: when a second has passed, it files the *)
(* totals of the last second in the list of the chain and in the list of   *)
(* the address and submits an upload; in any case it refreshes the totals. *)
(* A Grafana query files the totals too (collectDataNow).  An upload sends *)
(* a copy of the chain's lists, once per second.                           *)
(*                                                                         *)
(* Time is in seconds.  One total stands for the seven that a helper keeps *)
(* and one list for the seven of a service, which the code treats alike;   *)
(* the counters are one exact count per second (LeapArray models them).    *)
(* A collectXxx call is one step, after one for each of its arguments.     *)
(***************************************************************************)
EXTENDS TimeSeries

CONSTANTS
  Addresses,   (* keys of QPSHelpers and monitorServices                   *)
  Requesters,  (* threads that serve /run                                  *)
  Pollers,     (* threads that serve Grafana's /query                      *)
  Uploaders,   (* bound: uploads in flight, one thread each; enough of     *)
               (* them in every run that an upload never waits for another *)
  MaxTime,     (* bound: the clock stays within 1..MaxTime                 *)
  MaxLag,      (* bound: seconds that pass while an outcome is collected   *)
  MaxOps       (* bound: requests and queries in one behaviour             *)

Callers == Requesters \cup Pollers
Threads == Callers \cup Uploaders

ASSUME CollectorAssumption ==
  /\ MaxTime \in Nat \ {0} /\ MaxLag \in Nat /\ MaxOps \in Nat
  /\ Requesters \cap Pollers = {} /\ Callers \cap Uploaders = {}
  /\ Addresses # {}

VARIABLES
  now,        (* the second TimeUtil's clock is in                         *)
  count,      (* requests recorded per address and second                  *)
  timestamp,  (* QpsHelper.timestamp                                       *)
  total,      (* QpsHelper.totalRequest, as of the last refresh            *)
  local,      (* MonitorService's list, per address                        *)
  chain,      (* BlockchainService's list, one for all addresses           *)
  lastUpdate, (* MonitorService.LAST_UPDATE                                *)
  pc,         (* where each thread is                                      *)
  address,    (* the address each thread works for                         *)
  since,      (* the second in which a thread recorded its outcome         *)
  tm,         (* timestamp or clock value a thread has read                *)
  value,      (* total a thread has read                                   *)
  torn,       (* uploads whose list was changed while they copied it       *)
  ops,        (* requests and queries so far, at most MaxOps               *)
  sent,       (* history: points sent under the key of each address        *)
  died,       (* history: the copy that ended last failed                  *)
  overtaken   (* history: addresses of which a second was saved between a  *)
              (* query's reading of its arguments and its call             *)

helpers == <<count, timestamp, total>>
lists   == <<local, chain, overtaken>>
locals  == <<address, since, tm, value>>
uploads == <<lastUpdate, torn, sent, died>>
vars    == <<now, helpers, lists, pc, locals, uploads, ops>>

--------------------------------------------------------------------------------
Seconds == 1 .. MaxTime
Point   == [tm : 0 .. MaxTime, value : Nat]

Labels == {"idle", "testAge", "testFirst",
           "readChainKey", "readChainValue", "collectChain",
           "readLocalKey", "readLocalValue", "collectLocal", "submit",
           "readClock", "setTimestamp", "readTotal", "setTotal",
           "readNow", "collectNow",
           "readGate", "gate", "readMark", "mark", "beginCopy", "endCopy"}

TypeOK ==
  /\ now \in Seconds
  /\ count \in [Addresses -> [Seconds -> Nat]]
  /\ timestamp \in [Addresses -> 0 .. MaxTime]
  /\ total \in [Addresses -> Nat]
  /\ local \in [Addresses -> Seq(Point)] /\ chain \in Seq(Point)
  /\ lastUpdate \in [Addresses -> 0 .. MaxTime]
  /\ pc \in [Threads -> Labels]
  /\ address \in [Threads -> Addresses]
  /\ since \in [Threads -> 0 .. MaxTime]
  /\ tm \in [Threads -> 0 .. MaxTime]
  /\ value \in [Threads -> Nat]
  /\ torn \subseteq Uploaders
  /\ ops \in 0 .. MaxOps
  /\ sent \in [Addresses -> SUBSET Point]
  /\ died \in BOOLEAN
  /\ overtaken \subseteq Addresses

Init ==
  /\ now = 1
  /\ count = [a \in Addresses |-> [s \in Seconds |-> 0]]
  /\ timestamp = [a \in Addresses |-> 0]
  /\ total = [a \in Addresses |-> 0]
  /\ local = [a \in Addresses |-> <<>>] /\ chain = <<>>
  /\ lastUpdate = [a \in Addresses |-> 0]
  /\ pc = [t \in Threads |-> "idle"]
  /\ address = [t \in Threads |-> CHOOSE a \in Addresses : TRUE]
  /\ since = [t \in Threads |-> 0]
  /\ tm = [t \in Threads |-> 0]
  /\ value = [t \in Threads |-> 0]
  /\ torn = {}
  /\ ops = 0
  /\ sent = [a \in Addresses |-> {}]
  /\ died = FALSE
  /\ overtaken = {}

Goto(t, from, to) ==
  /\ pc[t] = from
  /\ pc' = [pc EXCEPT ![t] = to]

(* The call returns and its locals go out of scope. *)
Leave(t, from) ==
  /\ Goto(t, from, "idle")
  /\ address' = [address EXCEPT ![t] = CHOOSE a \in Addresses : TRUE]
  /\ since' = [since EXCEPT ![t] = 0]
  /\ tm' = [tm EXCEPT ![t] = 0]
  /\ value' = [value EXCEPT ![t] = 0]

(* A second passes.  MaxLag limits how long an outcome is in the making. *)
Tick ==
  /\ now < MaxTime
  /\ \A r \in Requesters : pc[r] # "idle" => now + 1 - since[r] <= MaxLag
  /\ now' = now + 1
  /\ UNCHANGED <<helpers, lists, pc, locals, uploads, ops>>

--------------------------------------------------------------------------------
(* /run: the outcome is known, incrSuccess or incrException records it. *)
Record(r) ==
  \E a \in Addresses :
    /\ ops < MaxOps
    /\ Goto(r, "idle", "testAge")
    /\ ops' = ops + 1
    /\ count' = [count EXCEPT ![a][now] = @ + 1]
    /\ address' = [address EXCEPT ![r] = a]
    /\ since' = [since EXCEPT ![r] = now]
    /\ UNCHANGED <<now, timestamp, total, lists, tm, value, uploads>>

(* FAULT: more than an interval has to pass. *)
TestAgeLate(r) ==
  /\ \/ now - timestamp[address[r]] > 1 /\ Goto(r, "testAge", "testFirst")
     \/ now - timestamp[address[r]] <= 1 /\ Goto(r, "testAge", "readTotal")
  /\ UNCHANGED <<now, helpers, lists, locals, uploads, ops>>

(* collectDataHighPerformance: has a second passed since the timestamp? *)
TestAge(r) ==
  /\ \/ now - timestamp[address[r]] >= 1 /\ Goto(r, "testAge", "testFirst")
     \/ now - timestamp[address[r]] < 1 /\ Goto(r, "testAge", "readTotal")
  /\ UNCHANGED <<now, helpers, lists, locals, uploads, ops>>

(* Nothing is saved before the first timestamp is set. *)
TestFirst(r) ==
  /\ \/ timestamp[address[r]] # 0 /\ Goto(r, "testFirst", "readChainKey")
     \/ timestamp[address[r]] = 0 /\ Goto(r, "testFirst", "readClock")
  /\ UNCHANGED <<now, helpers, lists, locals, uploads, ops>>

(* The arguments of collectXxx, read one after the other before the call. *)
ReadTimestamp(t) == tm' = [tm EXCEPT ![t] = timestamp[address[t]]]

ReadValue(t) == value' = [value EXCEPT ![t] = total[address[t]]]

CollectedPoint(t) == [tm |-> tm[t], value |-> value[t]]

ReadChainKey(r) ==
  /\ Goto(r, "readChainKey", "readChainValue")
  /\ ReadTimestamp(r)
  /\ UNCHANGED <<now, helpers, lists, address, since, value, uploads, ops>>

ReadChainValue(r) ==
  /\ Goto(r, "readChainValue", "collectChain")
  /\ ReadValue(r)
  /\ UNCHANGED <<now, helpers, lists, address, since, tm, uploads, ops>>

(* Adding or removing an entry makes the iterators over a LinkedList fail;
   a new value in the last entry does not. *)
Copying == {u \in Uploaders : pc[u] = "endCopy"}

Structural(list, point) == Len(list) > MaxSize \/ ~EndsWith(list, point.tm)

CollectChain(r) ==
  /\ Goto(r, "collectChain", "readLocalKey")
  /\ chain' = Collect(chain, CollectedPoint(r))
  /\ torn' = IF Structural(chain, CollectedPoint(r)) THEN torn \cup Copying ELSE torn
  /\ UNCHANGED <<now, helpers, local, overtaken, locals, lastUpdate, sent, died, ops>>

ReadLocalKey(r) ==
  /\ Goto(r, "readLocalKey", "readLocalValue")
  /\ ReadTimestamp(r)
  /\ UNCHANGED <<now, helpers, lists, address, since, value, uploads, ops>>

ReadLocalValue(r) ==
  /\ Goto(r, "readLocalValue", "collectLocal")
  /\ ReadValue(r)
  /\ UNCHANGED <<now, helpers, lists, address, since, tm, uploads, ops>>

(* FAULT: the totals only go to the chain. *)
CollectNotLocal(r) ==
  /\ Goto(r, "collectLocal", "submit")
  /\ UNCHANGED <<now, helpers, lists, locals, uploads, ops>>

(* A query that has its arguments is about to call collectXxx. *)
Overtakes(r) == \E p \in Pollers : pc[p] = "collectNow" /\ address[p] = address[r]

CollectLocal(r) ==
  /\ Goto(r, "collectLocal", "submit")
  /\ local' = [local EXCEPT ![address[r]] = Collect(@, CollectedPoint(r))]
  /\ overtaken' = IF Overtakes(r) THEN overtaken \cup {address[r]} ELSE overtaken
  /\ UNCHANGED <<now, helpers, chain, locals, uploads, ops>>

(* MyExecutor.fun: the upload gets a thread of its own. *)
Submit(r) ==
  \E u \in Uploaders :
    /\ pc[r] = "submit" /\ pc[u] = "idle"
    /\ pc' = [pc EXCEPT ![r] = "readClock", ![u] = "readGate"]
    /\ address' = [address EXCEPT ![u] = address[r]]
    /\ UNCHANGED <<now, helpers, lists, since, tm, value, uploads, ops>>

(* FAULT: the end of the second is taken for its start. *)
ReadClockLate(r) ==
  /\ Goto(r, "readClock", "setTimestamp")
  /\ tm' = [tm EXCEPT ![r] = now + 1]
  /\ UNCHANGED <<now, helpers, lists, address, since, value, uploads, ops>>

(* setTimestamp(getTimeInMills()). *)
ReadClock(r) ==
  /\ Goto(r, "readClock", "setTimestamp")
  /\ tm' = [tm EXCEPT ![r] = now]
  /\ UNCHANGED <<now, helpers, lists, address, since, value, uploads, ops>>

(* FAULT: a timestamp that is set already is cleared. *)
ClearTimestamp(r) ==
  /\ Goto(r, "setTimestamp", "readTotal")
  /\ timestamp' = [timestamp EXCEPT ![address[r]] = IF @ = 0 THEN tm[r] ELSE 0]
  /\ UNCHANGED <<now, count, total, lists, locals, uploads, ops>>

SetTimestamp(r) ==
  /\ Goto(r, "setTimestamp", "readTotal")
  /\ timestamp' = [timestamp EXCEPT ![address[r]] = tm[r]]
  /\ UNCHANGED <<now, count, total, lists, locals, uploads, ops>>

(* setTotalRequest(totalRequestInSec()), the last thing the request does here. *)
ReadTotal(r) ==
  /\ Goto(r, "readTotal", "setTotal")
  /\ value' = [value EXCEPT ![r] = count[address[r]][now]]
  /\ UNCHANGED <<now, helpers, lists, address, since, tm, uploads, ops>>

SetTotal(r) ==
  /\ Leave(r, "setTotal")
  /\ total' = [total EXCEPT ![address[r]] = value[r]]
  /\ UNCHANGED <<now, count, timestamp, lists, uploads, ops>>

--------------------------------------------------------------------------------
(* /query: collectDataNow files the current totals under the current timestamp.
   (The clock is past the timestamp but in the very millisecond it names.) *)
Poll(p) ==
  \E a \in Addresses :
    /\ ops < MaxOps
    /\ Goto(p, "idle", "readNow")
    /\ ops' = ops + 1
    /\ address' = [address EXCEPT ![p] = a]
    /\ tm' = [tm EXCEPT ![p] = timestamp[a]]
    /\ UNCHANGED <<now, helpers, lists, since, value, uploads>>

ReadNow(p) ==
  /\ Goto(p, "readNow", "collectNow")
  /\ ReadValue(p)
  /\ UNCHANGED <<now, helpers, lists, address, since, tm, uploads, ops>>

CollectNow(p) ==
  /\ Leave(p, "collectNow")
  /\ local' = [local EXCEPT ![address[p]] = Collect(@, CollectedPoint(p))]
  /\ UNCHANGED <<now, helpers, chain, overtaken, uploads, ops>>

--------------------------------------------------------------------------------
(* The upload task: the gate reads the timestamp as it is when the task runs ... *)
ReadGate(u) ==
  /\ Goto(u, "readGate", "gate")
  /\ ReadTimestamp(u)
  /\ UNCHANGED <<now, helpers, lists, address, since, value, uploads, ops>>

(* FAULT: more than an interval has to pass. *)
GateLate(u) ==
  /\ \/ /\ tm[u] - lastUpdate[address[u]] > 1
        /\ Goto(u, "gate", "readMark") /\ UNCHANGED locals
     \/ /\ tm[u] - lastUpdate[address[u]] <= 1
        /\ Leave(u, "gate")
  /\ UNCHANGED <<now, helpers, lists, uploads, ops>>

(* ... and then LAST_UPDATE, which another upload may have marked in between. *)
Gate(u) ==
  /\ \/ /\ tm[u] - lastUpdate[address[u]] >= 1
        /\ Goto(u, "gate", "readMark") /\ UNCHANGED locals
     \/ /\ tm[u] - lastUpdate[address[u]] < 1
        /\ Leave(u, "gate")
  /\ UNCHANGED <<now, helpers, lists, uploads, ops>>

(* FAULT: the mark is the clock, as in collectDataBlockchain. *)
ReadMarkClock(u) ==
  /\ Goto(u, "readMark", "mark")
  /\ tm' = [tm EXCEPT ![u] = now]
  /\ UNCHANGED <<now, helpers, lists, address, since, value, uploads, ops>>

(* LAST_UPDATE takes the timestamp, which is read again. *)
ReadMark(u) ==
  /\ Goto(u, "readMark", "mark")
  /\ ReadTimestamp(u)
  /\ UNCHANGED <<now, helpers, lists, address, since, value, uploads, ops>>

Mark(u) ==
  /\ Goto(u, "mark", "beginCopy")
  /\ lastUpdate' = [lastUpdate EXCEPT ![address[u]] = tm[u]]
  /\ UNCHANGED <<now, helpers, lists, locals, torn, sent, died, ops>>

(* UpdateChainData iterates over the chain's list while others add to it. *)
BeginCopy(u) ==
  /\ Goto(u, "beginCopy", "endCopy")
  /\ UNCHANGED <<now, helpers, lists, locals, uploads, ops>>

(* Either the iterator failed, which ends the task, or the copy is sent. *)
EndCopy(u) ==
  /\ Leave(u, "endCopy")
  /\ torn' = torn \ {u}
  /\ \/ u \in torn /\ died' = TRUE /\ UNCHANGED sent
     \/ /\ u \notin torn /\ died' = FALSE
        /\ sent' = [sent EXCEPT ![address[u]] = @ \cup {chain[i] : i \in 1 .. Len(chain)}]
  /\ UNCHANGED <<now, helpers, lists, lastUpdate, ops>>

--------------------------------------------------------------------------------
Save(r) ==
  \/ ReadChainKey(r) \/ ReadChainValue(r) \/ CollectChain(r)
  \/ ReadLocalKey(r) \/ ReadLocalValue(r) \/ CollectLocal(r)
  \/ Submit(r)

Refresh(r) == ReadClock(r) \/ SetTimestamp(r) \/ ReadTotal(r) \/ SetTotal(r)

Request(r) == Record(r) \/ TestAge(r) \/ TestFirst(r) \/ Save(r) \/ Refresh(r)

Query(p) == Poll(p) \/ ReadNow(p) \/ CollectNow(p)

Upload(u) ==
  ReadGate(u) \/ Gate(u) \/ ReadMark(u) \/ Mark(u) \/ BeginCopy(u) \/ EndCopy(u)

Next ==
  \/ Tick
  \/ \E r \in Requesters : Request(r)
  \/ \E p \in Pollers : Query(p)
  \/ \E u \in Uploaders : Upload(u)

Spec == Init /\ [][Next]_vars

--------------------------------------------------------------------------------
Points(list) == {list[i] : i \in 1 .. Len(list)}

(* MonitorController.java:197: the last second is saved.  For each second before
   the current timestamp the list of the address has a point if anything was
   recorded in it (the oldest MAX_SIZE aside), and a point shows what was recorded. *)
SecondsAreSaved ==
  \A a \in Addresses :
    /\ \A p \in Points(local[a]) :
         p.tm \in Seconds /\ p.tm < timestamp[a] => p.value = count[a][p.tm]
    /\ \A s \in Seconds :
         s < timestamp[a] /\ count[a][s] > 0 =>
           (\E p \in Points(local[a]) : p.tm = s) \/ Len(local[a]) >= MaxSize

(* A Grafana query may file the totals of the second before under a timestamp that
   was just set, or those of a later second under one it read long ago.  The former
   is repaired when the second is saved, unless the query is overtaken by it: a point
   before the current timestamp shows the requests of its second or of a later one,
   never of an earlier one. *)
SavingRepairsQueries ==
  \A a \in Addresses \ overtaken : \A p \in Points(local[a]) :
    p.tm < timestamp[a] => \E s \in Seconds : s >= p.tm /\ p.value <= count[a][s]

(* At rest, every point of the chain's list but the newest has been sent, although
   an upload is skipped when its gate reads a timestamp that was uploaded already:
   the next one carries the point.  An upload whose copy failed leaves more behind,
   until the next copy that succeeds. *)
UploadsAreComplete ==
  (\A t \in Threads : pc[t] = "idle") /\ ~died =>
    \A i \in 1 .. Len(chain) - 1 :
      \A a \in Addresses : chain[i] \in sent[a]

(* MyExecutor.java:58-60: a mark may be put back by an upload that read an older
   timestamp, but it never runs ahead of the timestamp of its helper, so no upload
   is skipped for a second that is yet to come. *)
MarkNotAhead == \A a \in Addresses : lastUpdate[a] <= timestamp[a]

(* MonitorController.java:196, 225: although each request reads the clock and sets
   the timestamp in two steps, the timestamp of a helper does not go back, so no
   second is saved again after a later one. *)
NeverBack == [][\A a \in Addresses : timestamp'[a] >= timestamp[a]]_vars

================================================================================
