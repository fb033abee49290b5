------------------------------- MODULE LeapArray -------------------------------
(***************************************************************************)
(* The sliding window of qps/LeapArray.java with the buckets of            *)
(* BucketLeapArray and MetricBucket, as ArrayMetric drives it: threads that *)
(* record one event (addSuccess, addException, addRT) or read a total      *)
(* (success, exception, rt, getSum), while TimeUtil's tick thread moves the *)
(* cached clock.                                                           *)
(*                                                                         *)
(* One counter stands for each MetricEvent: add, reset and sum treat the   *)
(* events one by one and alike.  A slot's WindowWrap never changes once    *)
(* compareAndSet has stored it, so a slot is its start and its counter.    *)
(***************************************************************************)
EXTENDS Integers, Functions

CONSTANTS
  Threads,       (* request threads of the servlet container               *)
  NoThread,      (* updateLock has no owner                                *)
  SampleCount,   (* sampleCount: slots of the array                        *)
  WindowLength,  (* windowLengthInMs, in model ticks                       *)
  ClockSteps,    (* what one tick may add to the wall clock                *)
  MaxTime,       (* bound: the clock stays within 0..MaxTime               *)
  MaxLag,        (* bound: how far the clock may run ahead of an operation *)
  MaxOps         (* bound: operations started in one behaviour             *)

ASSUME LeapArrayAssumption ==
  /\ NoThread \notin Threads
  /\ SampleCount \in Nat \ {0}
  /\ WindowLength \in Nat \ {0}
  /\ ClockSteps \subseteq Int
  /\ MaxTime \in Nat /\ MaxLag \in Nat /\ MaxOps \in Nat

VARIABLES
  now,      (* TimeUtil.currentTimeMillis, the cached clock                *)
  start,    (* windowStart of each slot's wrap, or Null                    *)
  bucket,   (* the counter in the bucket of each slot                      *)
  lock,     (* owner of updateLock                                         *)
  pc,       (* where each thread is in currentWindow, add or values        *)
  op,       (* what the thread's operation is: "add" or "sum"              *)
  time,     (* timeMillis, the clock value the thread works with           *)
  next,     (* loop index of values()                                      *)
  picked,   (* the slots values() has put in its result list               *)
  total,    (* the sum ArrayMetric has accumulated                         *)
  started,  (* operations started so far, at most MaxOps                   *)
  done      (* history: events recorded so far, by requested window        *)

vars == <<now, start, bucket, lock, pc, op, time, next, picked, total, started, done>>

Null     == -1
Slots    == 0 .. SampleCount - 1
Times    == 0 .. MaxTime
Interval == SampleCount * WindowLength

(* calculateTimeIdx and calculateWindowStart. *)
TimeIdx(t)     == (t \div WindowLength) % SampleCount
WindowStart(t) == t - (t % WindowLength)

(* The windows the bounded clock can ask for. *)
Windows == {WindowStart(t) : t \in Times}

(* FAULT: the index comes from a second reading of the clock. *)
IdxOfSecondReading(t) == TimeIdx(now)

(* The slot and the window a thread is asking for. *)
Idx(t)    == TimeIdx(time[t])
Wanted(t) == WindowStart(time[t])

(* FAULT: no window is ever deprecated; a window is after one window length. *)
NeverDeprecated(validTime, i) == FALSE
DeprecatedAfterOne(validTime, i) == validTime - start[i] > WindowLength

(* isWindowDeprecated(validTime, wrap of slot i). *)
IsWindowDeprecated(validTime, i) == validTime - start[i] > Interval

--------------------------------------------------------------------------------
Labels == {"idle", "get", "cas", "newer", "tryLock", "resetStart", "resetValue",
           "unlock", "older", "gotSlot", "gotFresh", "scan", "total", "answer"}

TypeOK ==
  /\ now \in Times
  /\ start \in [Slots -> Windows \cup {Null}]
  /\ bucket \in [Slots -> Nat]
  /\ lock \in Threads \cup {NoThread}
  /\ pc \in [Threads -> Labels]
  /\ op \in [Threads -> {"add", "sum"}]
  /\ time \in [Threads -> Times]
  /\ next \in [Threads -> 0 .. SampleCount]
  /\ picked \in [Threads -> SUBSET Slots]
  /\ total \in [Threads -> Nat]
  /\ started \in 0 .. MaxOps
  /\ done \in [Windows -> Nat]

Init ==
  /\ now = 0
  /\ start = [i \in Slots |-> Null]
  /\ bucket = [i \in Slots |-> 0]
  /\ lock = NoThread
  /\ pc = [t \in Threads |-> "idle"]
  /\ op = [t \in Threads |-> "add"]
  /\ time = [t \in Threads |-> 0]
  /\ next = [t \in Threads |-> 0]
  /\ picked = [t \in Threads |-> {}]
  /\ total = [t \in Threads |-> 0]
  /\ started = 0
  /\ done = [w \in Windows |-> 0]

Goto(t, from, to) ==
  /\ pc[t] = from
  /\ pc' = [pc EXCEPT ![t] = to]

Locals == <<op, time, next, picked, total>>
Slot   == <<start, bucket>>

(* The method returns and its locals go out of scope. *)
Leave(t, from) ==
  /\ Goto(t, from, "idle")
  /\ op' = [op EXCEPT ![t] = "add"]
  /\ time' = [time EXCEPT ![t] = 0]
  /\ next' = [next EXCEPT ![t] = 0]
  /\ picked' = [picked EXCEPT ![t] = {}]
  /\ total' = [total EXCEPT ![t] = 0]

(***************************************************************************)
(* TimeUtil: the daemon thread copies System.currentTimeMillis into the    *)
(* cached clock.  MaxLag limits how long a thread may be delayed.          *)
(***************************************************************************)
Tick ==
  \E d \in ClockSteps :
    /\ now + d \in Times
    /\ \A t \in Threads : pc[t] # "idle" => now + d - time[t] <= MaxLag
    /\ now' = now + d
    /\ UNCHANGED <<start, bucket, lock, pc, Locals, started, done>>

(* ArrayMetric.addXxx or a getter calls currentWindow(), which reads the clock. *)
Begin(t) ==
  /\ started < MaxOps
  /\ Goto(t, "idle", "get")
  /\ op' \in {[op EXCEPT ![t] = o] : o \in {"add", "sum"}}
  /\ time' = [time EXCEPT ![t] = now]
  /\ started' = started + 1
  /\ UNCHANGED <<now, Slot, lock, next, picked, total, done>>

(* FAULT: a slot that is ahead of the caller is taken for the caller's. *)
GetSlotAhead(t) ==
  /\ \/ start[Idx(t)] = Null /\ Goto(t, "get", "cas")
     \/ start[Idx(t)] >= Wanted(t) /\ Goto(t, "get", "gotSlot")
     \/ start[Idx(t)] \in 0 .. Wanted(t) - 1 /\ Goto(t, "get", "newer")
  /\ UNCHANGED <<now, Slot, lock, Locals, started, done>>

(* array.get(idx), the null test and the first comparison of currentWindow. *)
GetSlot(t) ==
  /\ \/ start[Idx(t)] = Null /\ Goto(t, "get", "cas")
     \/ start[Idx(t)] = Wanted(t) /\ Goto(t, "get", "gotSlot")
     \/ start[Idx(t)] \notin {Null, Wanted(t)} /\ Goto(t, "get", "newer")
  /\ UNCHANGED <<now, Slot, lock, Locals, started, done>>

(* array.compareAndSet(idx, null, window); a failure yields and loops. *)
CompareAndSet(t) ==
  /\ \/ /\ start[Idx(t)] = Null
        /\ Goto(t, "cas", "gotSlot")
        /\ start' = [start EXCEPT ![Idx(t)] = Wanted(t)]
     \/ /\ start[Idx(t)] # Null
        /\ Goto(t, "cas", "get")
        /\ UNCHANGED start
  /\ UNCHANGED <<now, bucket, lock, Locals, started, done>>

(* windowStart > old.windowStart(): the slot is to be reused. *)
CompareNewer(t) ==
  /\ \/ Wanted(t) > start[Idx(t)] /\ Goto(t, "newer", "tryLock")
     \/ Wanted(t) <= start[Idx(t)] /\ Goto(t, "newer", "older")
  /\ UNCHANGED <<now, Slot, lock, Locals, started, done>>

(* FAULT: a caller that finds its slot ahead tries again. *)
RetryOlder(t) ==
  /\ Goto(t, "older", "get")
  /\ UNCHANGED <<now, Slot, lock, Locals, started, done>>

(* windowStart < old.windowStart(): a bucket outside the array is returned. *)
CompareOlder(t) ==
  /\ \/ Wanted(t) < start[Idx(t)] /\ Goto(t, "older", "gotFresh")
     \/ Wanted(t) >= start[Idx(t)] /\ Goto(t, "older", "get")
  /\ UNCHANGED <<now, Slot, lock, Locals, started, done>>

(* FAULT: the result of tryLock is ignored. *)
TryLockIgnored(t) ==
  /\ Goto(t, "tryLock", "resetStart")
  /\ lock' = t
  /\ UNCHANGED <<now, Slot, Locals, started, done>>

(* updateLock.tryLock(); a failure yields and loops. *)
TryLock(t) ==
  /\ \/ lock = NoThread /\ Goto(t, "tryLock", "resetStart") /\ lock' = t
     \/ lock # NoThread /\ Goto(t, "tryLock", "get") /\ UNCHANGED lock
  /\ UNCHANGED <<now, Slot, Locals, started, done>>

(* FAULT: the slot is given the end of the window as its start. *)
ResetStartToEnd(t) ==
  /\ Goto(t, "resetStart", "resetValue")
  /\ start' = [start EXCEPT ![Idx(t)] = Wanted(t) + WindowLength]
  /\ UNCHANGED <<now, bucket, lock, Locals, started, done>>

(* resetWindowTo, first line: w.resetTo(startTime). *)
ResetStart(t) ==
  /\ Goto(t, "resetStart", "resetValue")
  /\ start' = [start EXCEPT ![Idx(t)] = Wanted(t)]
  /\ UNCHANGED <<now, bucket, lock, Locals, started, done>>

(* FAULT: the counters are not reset. *)
ResetNoValue(t) ==
  /\ Goto(t, "resetValue", "unlock")
  /\ UNCHANGED <<now, Slot, lock, Locals, started, done>>

(* resetWindowTo, second line: w.value().reset(). *)
ResetValue(t) ==
  /\ Goto(t, "resetValue", "unlock")
  /\ bucket' = [bucket EXCEPT ![Idx(t)] = 0]
  /\ UNCHANGED <<now, start, lock, Locals, started, done>>

(* The finally block. *)
Unlock(t) ==
  /\ Goto(t, "unlock", "gotSlot")
  /\ lock' = NoThread
  /\ UNCHANGED <<now, Slot, Locals, started, done>>

(* FAULT: the event goes to the slot of the clock as it is now. *)
AddToSlotOfNow(t) ==
  /\ op[t] = "add"
  /\ Leave(t, "gotSlot")
  /\ bucket' = [bucket EXCEPT ![TimeIdx(now)] = @ + 1]
  /\ done' = [done EXCEPT ![Wanted(t)] = @ + 1]
  /\ UNCHANGED <<now, start, lock, started>>

(* wrap.value().addXxx: on the slot's bucket, or on the one outside. *)
AddToSlot(t) ==
  /\ op[t] = "add"
  /\ Leave(t, "gotSlot")
  /\ bucket' = [bucket EXCEPT ![Idx(t)] = @ + 1]
  /\ done' = [done EXCEPT ![Wanted(t)] = @ + 1]
  /\ UNCHANGED <<now, start, lock, started>>

AddToFresh(t) ==
  /\ op[t] = "add"
  /\ Leave(t, "gotFresh")
  /\ done' = [done EXCEPT ![Wanted(t)] = @ + 1]
  /\ UNCHANGED <<now, Slot, lock, started>>

(* A getter drops the wrap and calls values(), which reads the clock again. *)
BeginValues(t) ==
  /\ op[t] = "sum"
  /\ pc[t] \in {"gotSlot", "gotFresh"}
  /\ pc' = [pc EXCEPT ![t] = "scan"]
  /\ time' = [time EXCEPT ![t] = now]
  /\ next' = [next EXCEPT ![t] = 0]
  /\ picked' = [picked EXCEPT ![t] = {}]
  /\ total' = [total EXCEPT ![t] = 0]
  /\ UNCHANGED <<now, Slot, lock, op, started, done>>

(* One turn of the loop of values(timeMillis). *)
Scan(t) ==
  LET i == next[t] IN
  /\ i < SampleCount
  /\ Goto(t, "scan", "scan")
  /\ next' = [next EXCEPT ![t] = i + 1]
  /\ IF start[i] = Null \/ IsWindowDeprecated(time[t], i)
       THEN UNCHANGED picked
       ELSE picked' = [picked EXCEPT ![t] = @ \cup {i}]
  /\ UNCHANGED <<now, Slot, lock, op, time, total, started, done>>

EndScan(t) ==
  /\ next[t] = SampleCount
  /\ Goto(t, "scan", "total")
  /\ UNCHANGED <<now, Slot, lock, Locals, started, done>>

(* One turn of ArrayMetric's loop over the buckets of the list. *)
Accumulate(t) ==
  \E i \in picked[t] :
    /\ \A j \in picked[t] : i <= j
    /\ Goto(t, "total", "total")
    /\ picked' = [picked EXCEPT ![t] = @ \ {i}]
    /\ total' = [total EXCEPT ![t] = @ + bucket[i]]
    /\ UNCHANGED <<now, Slot, lock, op, time, next, started, done>>

EndTotal(t) ==
  /\ picked[t] = {}
  /\ Goto(t, "total", "answer")
  /\ UNCHANGED <<now, Slot, lock, Locals, started, done>>

Return(t) ==
  /\ Leave(t, "answer")
  /\ UNCHANGED <<now, Slot, lock, started, done>>

CurrentWindow(t) ==
  GetSlot(t) \/ CompareAndSet(t) \/ CompareNewer(t) \/ CompareOlder(t)
    \/ TryLock(t) \/ ResetStart(t) \/ ResetValue(t) \/ Unlock(t)

Step(t) ==
  CurrentWindow(t) \/ AddToSlot(t) \/ AddToFresh(t) \/ BeginValues(t)
    \/ Scan(t) \/ EndScan(t) \/ Accumulate(t) \/ EndTotal(t) \/ Return(t)

Next == Tick \/ \E t \in Threads : Begin(t) \/ Step(t)

Spec == Init /\ [][Next]_vars

(* The JVM schedules every runnable thread; nothing makes requests arrive.  *)
FairSpec == Spec /\ \A t \in Threads : WF_vars(Step(t))

--------------------------------------------------------------------------------
(* Each slot holds only windows that calculateTimeIdx maps to it, whatever
   races move its start back and forth: the scan of values() and the reuse of
   a slot rely on it. *)
Aligned ==
  \A i \in Slots : start[i] # Null =>
    /\ start[i] % WindowLength = 0
    /\ TimeIdx(start[i]) = i

(* Exactly the owner of updateLock is between tryLock and unlock, and until it
   unlocks nobody else moves the start it has written (LeapArray.java:133-139). *)
ResetExclusive ==
  \A t \in Threads :
    /\ pc[t] \in {"resetStart", "resetValue", "unlock"} <=> lock = t
    /\ pc[t] \in {"resetValue", "unlock"} => start[Idx(t)] = Wanted(t)

(* Events are never invented, and none reaches the slot of another window: a
   bucket counts at most the events recorded for the windows of its slot. *)
OwnCounts ==
  \A i \in Slots :
    bucket[i] <= SumFunctionOnSet(done, {w \in Windows : TimeIdx(w) = i})

(* currentWindow returns a wrap of the array only when, at that instant, the
   wrap starts at the window the caller's clock value lies in. *)
ObtainedIsWanted ==
  [][\A t \in Threads :
       pc[t] # "gotSlot" /\ pc'[t] = "gotSlot" => start'[Idx(t)] = Wanted(t)]_vars

(* currentWindow spins (failed CAS, failed tryLock, Thread.yield) but every
   call of an adder or a getter returns. *)
Terminates == \A t \in Threads : pc[t] # "idle" ~> pc[t] = "idle"

(* Somebody is emptying slot i after having moved its start. *)
Emptying(i) == \E t \in Threads : pc[t] = "resetValue" /\ Idx(t) = i

(* When no operation is delayed by more than Interval - WindowLength, a bucket
   counts at most the events of the window its start names, except while it is
   being emptied: what one window counts is never reported for another. *)
ExactAttribution ==
  \A i \in Slots : start[i] # Null /\ ~Emptying(i) => bucket[i] <= done[start[i]]

(* ... and then a slot is never handed back to an older window. *)
StartNeverGoesBack ==
  [][\A i \in Slots : start'[i] >= start[i]]_vars

(* ... and what values() has put in its list stays within the interval until it is
   summed, although slots are reused in between; so a total counts no window older
   than the interval.  (A bucket summed while it is being emptied is the exception.) *)
PickedStayRecent ==
  \A t \in Threads : \A i \in picked[t] : time[t] - start[i] <= Interval

(* The total that is being returned. *)
Answered ==
  IF \E t \in Threads : pc[t] = "answer"
    THEN total[CHOOSE t \in Threads : pc[t] = "answer"]
    ELSE -1

Counter == INSTANCE SlidingCount WITH clock <- now, recorded <- done, answer <- Answered

(* With one thread, and a clock that does not go back, LeapArray is an exact sliding
   counter: no event is lost when a slot is reused, and a total leaves out exactly what
   is out of the interval. *)
ImplementsSlidingCount == Counter!Spec

================================================================================
