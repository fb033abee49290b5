----------------------------- MODULE LeapArrayProofs -----------------------------
(***************************************************************************)
(* Proofs about LeapArray for any number of threads and slots, any window  *)
(* length, any clock and any delay: what holds in every case; what holds   *)
(* of prompt threads; how sums behave, and that no event is invented; and  *)
(* that one thread implements SlidingCount.                                *)
(***************************************************************************)
EXTENDS LeapArray, FiniteSetTheorems, TLAPS

(* Division with remainder, the facts calculateTimeIdx and calculateWindowStart
   rest on. *)
LEMMA Division ==
  ASSUME NEW m \in Nat, NEW k \in Nat \ {0}
  PROVE  /\ m \div k \in Nat
         /\ m % k \in 0 .. k - 1
         /\ m = k * (m \div k) + (m % k)
  BY Z3

(* A multiple of k has no remainder, and its quotient is the factor. *)
LEMMA DivisionOfMultiple ==
  ASSUME NEW q \in Nat, NEW k \in Nat \ {0}
  PROVE  /\ k * q \in Nat
         /\ (k * q) % k = 0
         /\ (k * q) \div k = q
  BY Z3

(* A clock value has a slot and a window; the window starts at most
   WindowLength before it, on a multiple of WindowLength, and lies in the same
   slot as the clock value. *)
LEMMA WindowFacts ==
  ASSUME NEW m \in Times
  PROVE  /\ TimeIdx(m) \in Slots
         /\ WindowStart(m) \in Windows
         /\ WindowStart(m) \in Nat
         /\ WindowStart(m) <= m
         /\ m < WindowStart(m) + WindowLength
         /\ WindowStart(m) % WindowLength = 0
         /\ TimeIdx(WindowStart(m)) = TimeIdx(m)
<1> DEFINE q == m \div WindowLength
<1>1. m \in Nat /\ WindowLength \in Nat \ {0} /\ SampleCount \in Nat \ {0}
  BY LeapArrayAssumption DEF Times
<1>2. q \in Nat /\ m % WindowLength \in 0 .. WindowLength - 1
      /\ m = WindowLength * q + (m % WindowLength)
  BY <1>1, Division
<1>3. WindowLength * q \in Nat /\ (WindowLength * q) % WindowLength = 0
      /\ (WindowLength * q) \div WindowLength = q
  BY <1>1, <1>2, DivisionOfMultiple
<1> HIDE DEF q
<1>4. WindowStart(m) = WindowLength * q
  <2> DEFINE p == WindowLength * q
             r == m % WindowLength
  <2>1. m \in Nat /\ p \in Nat /\ r \in Nat /\ m = p + r
    BY <1>1, <1>2, <1>3
  <2> HIDE DEF p, r
  <2>2. m - r = p
    BY <2>1
  <2> QED
    BY <2>2 DEF WindowStart, p, r
<1>5. TimeIdx(m) \in Slots
  BY <1>1, <1>2, Division DEF TimeIdx, Slots, q
<1>6. TimeIdx(WindowStart(m)) = TimeIdx(m)
  BY <1>3, <1>4 DEF TimeIdx, q
<1>7. WindowStart(m) <= m /\ m < WindowStart(m) + WindowLength
  BY <1>1, <1>2, <1>3, <1>4
<1>8. WindowStart(m) \in Windows
  BY DEF Windows
<1> QED
  BY <1>3, <1>4, <1>5, <1>6, <1>7, <1>8

(* Windows start at natural numbers. *)
LEMMA WindowsAreNat == Windows \subseteq Nat
  BY WindowFacts DEF Windows

--------------------------------------------------------------------------------
(* Leaving an operation keeps the locals of all threads well-typed. *)
LEMMA LeaveType ==
  ASSUME TypeOK, NEW t \in Threads, NEW from \in Labels, Leave(t, from)
  PROVE  /\ pc' \in [Threads -> Labels]
         /\ op' \in [Threads -> {"add", "sum"}]
         /\ time' \in [Threads -> Times]
         /\ next' \in [Threads -> 0 .. SampleCount]
         /\ picked' \in [Threads -> SUBSET Slots]
         /\ total' \in [Threads -> Nat]
<1>1. 0 \in Times /\ 0 \in 0 .. SampleCount
  BY LeapArrayAssumption DEF Times
<1> QED
  BY <1>1 DEF TypeOK, Leave, Goto, Labels

(* Every step, of the clock and of every thread, keeps the types. *)
LEMMA TypeStep == TypeOK /\ [Next]_vars => TypeOK'
<1> SUFFICES ASSUME TypeOK, [Next]_vars PROVE TypeOK'
  OBVIOUS
<1> USE DEF Locals, Slot
<1>0. \A t \in Threads : Idx(t) \in Slots /\ Wanted(t) \in Windows
  BY WindowFacts DEF TypeOK, Idx, Wanted
<1>1. CASE Tick
  BY <1>1 DEF Tick, TypeOK
<1>2. ASSUME NEW t \in Threads, Begin(t) PROVE TypeOK'
  BY <1>2, LeapArrayAssumption DEF Begin, TypeOK, Goto, Labels
<1>3. ASSUME NEW t \in Threads, GetSlot(t) PROVE TypeOK'
  BY <1>3 DEF GetSlot, TypeOK, Goto, Labels
<1>4. ASSUME NEW t \in Threads, CompareAndSet(t) PROVE TypeOK'
  BY <1>4, <1>0 DEF CompareAndSet, TypeOK, Goto, Labels
<1>5. ASSUME NEW t \in Threads, CompareNewer(t) PROVE TypeOK'
  BY <1>5 DEF CompareNewer, TypeOK, Goto, Labels
<1>6. ASSUME NEW t \in Threads, CompareOlder(t) PROVE TypeOK'
  BY <1>6 DEF CompareOlder, TypeOK, Goto, Labels
<1>7. ASSUME NEW t \in Threads, TryLock(t) PROVE TypeOK'
  BY <1>7 DEF TryLock, TypeOK, Goto, Labels
<1>8. ASSUME NEW t \in Threads, ResetStart(t) PROVE TypeOK'
  BY <1>8, <1>0 DEF ResetStart, TypeOK, Goto, Labels
<1>9. ASSUME NEW t \in Threads, ResetValue(t) PROVE TypeOK'
  BY <1>9, <1>0 DEF ResetValue, TypeOK, Goto, Labels
<1>10. ASSUME NEW t \in Threads, Unlock(t) PROVE TypeOK'
  BY <1>10 DEF Unlock, TypeOK, Goto, Labels
<1>11. ASSUME NEW t \in Threads, AddToSlot(t) PROVE TypeOK'
  <2>1. bucket' \in [Slots -> Nat] /\ done' \in [Windows -> Nat]
    BY <1>11, <1>0 DEF AddToSlot, TypeOK
  <2> QED
    BY <1>11, <2>1, LeaveType DEF AddToSlot, TypeOK, Labels
<1>12. ASSUME NEW t \in Threads, AddToFresh(t) PROVE TypeOK'
  <2>1. done' \in [Windows -> Nat]
    BY <1>12, <1>0 DEF AddToFresh, TypeOK
  <2> QED
    BY <1>12, <2>1, LeaveType DEF AddToFresh, TypeOK, Labels
<1>13. ASSUME NEW t \in Threads, BeginValues(t) PROVE TypeOK'
  BY <1>13, LeapArrayAssumption DEF BeginValues, TypeOK, Labels
<1>14. ASSUME NEW t \in Threads, Scan(t) PROVE TypeOK'
  <2>1. next[t] \in Slots
    BY <1>14, LeapArrayAssumption DEF Scan, TypeOK, Slots
  <2>2. picked' \in [Threads -> SUBSET Slots]
    BY <1>14, <2>1 DEF Scan, TypeOK
  <2>3. next' \in [Threads -> 0 .. SampleCount]
    BY <1>14, <2>1, LeapArrayAssumption DEF Scan, TypeOK, Slots
  <2> QED
    BY <1>14, <2>2, <2>3 DEF Scan, TypeOK, Goto, Labels
<1>15. ASSUME NEW t \in Threads, EndScan(t) PROVE TypeOK'
  BY <1>15 DEF EndScan, TypeOK, Goto, Labels
<1>16. ASSUME NEW t \in Threads, Accumulate(t) PROVE TypeOK'
  <2> PICK i \in picked[t] :
             /\ Goto(t, "total", "total")
             /\ picked' = [picked EXCEPT ![t] = @ \ {i}]
             /\ total' = [total EXCEPT ![t] = @ + bucket[i]]
             /\ UNCHANGED <<now, start, bucket, lock, op, time, next, started, done>>
    BY <1>16 DEF Accumulate
  <2>1. total' \in [Threads -> Nat]
    BY DEF TypeOK
  <2>2. picked' \in [Threads -> SUBSET Slots]
    BY DEF TypeOK
  <2> QED
    BY <2>1, <2>2 DEF TypeOK, Goto, Labels
<1>17. ASSUME NEW t \in Threads, EndTotal(t) PROVE TypeOK'
  BY <1>17 DEF EndTotal, TypeOK, Goto, Labels
<1>18. ASSUME NEW t \in Threads, Return(t) PROVE TypeOK'
  BY <1>18, LeaveType DEF Return, TypeOK, Labels
<1>19. CASE UNCHANGED vars
  BY <1>19 DEF vars, TypeOK
<1> QED
  BY <1>1, <1>2, <1>3, <1>4, <1>5, <1>6, <1>7, <1>8, <1>9, <1>10, <1>11, <1>12,
     <1>13, <1>14, <1>15, <1>16, <1>17, <1>18, <1>19 DEF Next, Step, CurrentWindow

(* The constructor leaves well-typed slots. *)
LEMMA TypeInit == Init => TypeOK
<1> SUFFICES ASSUME Init PROVE TypeOK
  OBVIOUS
<1>1. 0 \in Times /\ 0 \in 0 .. SampleCount /\ 0 \in 0 .. MaxOps
  BY LeapArrayAssumption DEF Times
<1> QED
  BY <1>1 DEF Init, TypeOK, Labels

(* Type correctness: slots start at windows of the clock, counters are natural
   numbers, and every thread is at a point of the code. *)
THEOREM TypeCorrect == Spec => []TypeOK
  BY TypeInit, TypeStep, PTL DEF Spec

--------------------------------------------------------------------------------
(* What is written to a slot is a window of that slot. *)
LEMMA AlignedStep == TypeOK /\ Aligned /\ [Next]_vars => Aligned'
<1> SUFFICES ASSUME TypeOK, Aligned, [Next]_vars PROVE Aligned'
  OBVIOUS
<1>1. ASSUME NEW t \in Threads, start' = [start EXCEPT ![Idx(t)] = Wanted(t)]
      PROVE  Aligned'
  <2>1. time[t] \in Times /\ start \in [Slots -> Windows \cup {Null}]
    BY DEF TypeOK
  <2>2. /\ Idx(t) \in Slots
        /\ Wanted(t) % WindowLength = 0
        /\ TimeIdx(Wanted(t)) = Idx(t)
    BY <2>1, WindowFacts DEF Idx, Wanted
  <2> HIDE DEF Idx, Wanted
  <2>3. \A i \in Slots : start'[i] = IF i = Idx(t) THEN Wanted(t) ELSE start[i]
    BY <1>1, <2>1, <2>2
  <2> QED
    BY <2>2, <2>3 DEF Aligned
<1>2. ASSUME UNCHANGED start PROVE Aligned'
  BY <1>2 DEF Aligned
<1>3. ASSUME NEW t \in Threads, Begin(t) \/ Step(t)
      PROVE UNCHANGED start \/ start' = [start EXCEPT ![Idx(t)] = Wanted(t)]
  BY <1>3 DEF Begin, Step, CurrentWindow, GetSlot, CompareAndSet, CompareNewer,
     CompareOlder, TryLock, ResetStart, ResetValue, Unlock, AddToSlot, AddToFresh,
     BeginValues, Scan, EndScan, Accumulate, EndTotal, Return, Slot
<1> QED
  BY <1>1, <1>2, <1>3 DEF Next, Tick, vars

(* A slot of the array only ever holds windows that map to it, whichever thread
   resets it and however late it does. *)
THEOREM Alignment == Spec => []Aligned
<1>1. Init => Aligned
  BY DEF Init, Aligned
<1> QED
  BY <1>1, AlignedStep, TypeCorrect, PTL DEF Spec

--------------------------------------------------------------------------------
(* updateLock and the code it guards change together; step <1>1 is the common
   case of a thread that moves outside that code. *)
LEMMA ResetExclusiveStep == TypeOK /\ ResetExclusive /\ [Next]_vars => ResetExclusive'
<1> SUFFICES ASSUME TypeOK, ResetExclusive, [Next]_vars PROVE ResetExclusive'
  OBVIOUS
<1> USE DEF Locals, Slot
<1> DEFINE Guarded == {"resetStart", "resetValue", "unlock"}
<1>0. /\ pc \in [Threads -> Labels]
      /\ time \in [Threads -> Times]
      /\ start \in [Slots -> Windows \cup {Null}]
      /\ lock \in Threads \cup {NoThread}
      /\ \A t \in Threads : Idx(t) \in Slots /\ Wanted(t) \in Windows /\ Wanted(t) # Null
  BY WindowFacts DEF TypeOK, Idx, Wanted, Null
<1>1. ASSUME NEW t \in Threads, UNCHANGED <<lock, start>>,
             NEW to \in Labels, pc' = [pc EXCEPT ![t] = to],
             pc[t] \notin Guarded, to \notin Guarded,
             \A u \in Threads : u # t => time'[u] = time[u]
      PROVE  ResetExclusive'
  BY <1>0, <1>1 DEF ResetExclusive, Idx, Wanted
<1>2. CASE Tick
  BY <1>2 DEF Tick, ResetExclusive, Idx, Wanted
<1>3. ASSUME NEW t \in Threads, Leave(t, "gotSlot") \/ Leave(t, "gotFresh") \/ Leave(t, "answer"),
             UNCHANGED <<lock, start>>
      PROVE  ResetExclusive'
  BY <1>3, <1>1, <1>0 DEF Leave, Goto, Labels
<1>4. ASSUME NEW t \in Threads, Begin(t) PROVE ResetExclusive'
  BY <1>4, <1>1, <1>0 DEF Begin, Goto, Labels
<1>5. ASSUME NEW t \in Threads,
             GetSlot(t) \/ CompareNewer(t) \/ CompareOlder(t) \/ BeginValues(t)
             \/ Scan(t) \/ EndScan(t) \/ Accumulate(t) \/ EndTotal(t)
      PROVE  ResetExclusive'
  BY <1>5, <1>1, <1>0 DEF GetSlot, CompareNewer, CompareOlder, BeginValues, Scan,
     EndScan, Accumulate, EndTotal, Goto, Labels
<1>6. ASSUME NEW t \in Threads, CompareAndSet(t) PROVE ResetExclusive'
  <2>1. CASE start[Idx(t)] # Null
    BY <1>6, <2>1, <1>1, <1>0 DEF CompareAndSet, Goto, Labels
  <2>2. CASE start[Idx(t)] = Null
    BY <1>6, <2>2, <1>0 DEF CompareAndSet, Goto, ResetExclusive, Idx, Wanted
  <2> QED
    BY <2>1, <2>2
<1>7. ASSUME NEW t \in Threads, TryLock(t) PROVE ResetExclusive'
  BY <1>7, <1>0, LeapArrayAssumption DEF TryLock, Goto, ResetExclusive, Idx, Wanted
<1>8. ASSUME NEW t \in Threads, ResetStart(t) PROVE ResetExclusive'
  BY <1>8, <1>0 DEF ResetStart, Goto, ResetExclusive, Idx, Wanted
<1>9. ASSUME NEW t \in Threads, ResetValue(t) PROVE ResetExclusive'
  BY <1>9, <1>0 DEF ResetValue, Goto, ResetExclusive, Idx, Wanted
<1>10. ASSUME NEW t \in Threads, Unlock(t) PROVE ResetExclusive'
  BY <1>10, <1>0, LeapArrayAssumption DEF Unlock, Goto, ResetExclusive, Idx, Wanted
<1>11. ASSUME NEW t \in Threads, AddToSlot(t) \/ AddToFresh(t) \/ Return(t)
       PROVE  ResetExclusive'
  BY <1>11, <1>3 DEF AddToSlot, AddToFresh, Return
<1>12. CASE UNCHANGED vars
  BY <1>12 DEF vars, ResetExclusive, Idx, Wanted
<1> QED
  BY <1>2, <1>4, <1>5, <1>6, <1>7, <1>8, <1>9, <1>10, <1>11, <1>12
     DEF Next, Step, CurrentWindow

(* updateLock works: one thread at a time is between tryLock and unlock, and the
   start it writes stays until it unlocks. *)
THEOREM Exclusion == Spec => []ResetExclusive
<1>1. Init => ResetExclusive
  BY LeapArrayAssumption DEF Init, ResetExclusive
<1> QED
  BY <1>1, ResetExclusiveStep, TypeCorrect, PTL DEF Spec

(* currentWindow hands out a wrap of the array only at a moment it starts at the
   caller's window, for the three ways of obtaining it. *)
THEOREM Obtained == Spec => ObtainedIsWanted
<1>1. TypeOK /\ ResetExclusive /\ [Next]_vars =>
        [\A t \in Threads :
           pc[t] # "gotSlot" /\ pc'[t] = "gotSlot" => start'[Idx(t)] = Wanted(t)]_vars
  <2> SUFFICES ASSUME TypeOK, ResetExclusive, Next, NEW t \in Threads,
                      pc[t] # "gotSlot", pc'[t] = "gotSlot"
               PROVE  start'[Idx(t)] = Wanted(t)
    OBVIOUS
  <2>0. /\ pc \in [Threads -> Labels]
        /\ start \in [Slots -> Windows \cup {Null}]
        /\ Idx(t) \in Slots
    BY WindowFacts DEF TypeOK, Idx
  <2>1. ASSUME NEW u \in Threads, Begin(u) \/ Step(u)
        PROVE  u = t /\ (GetSlot(t) \/ CompareAndSet(t) \/ Unlock(t))
    BY <2>0, <2>1 DEF Begin, Step, CurrentWindow, GetSlot, CompareAndSet,
       CompareNewer, CompareOlder, TryLock, ResetStart, ResetValue, Unlock, AddToSlot,
       AddToFresh, BeginValues, Scan, EndScan, Accumulate, EndTotal, Return, Goto, Leave
  <2>2. GetSlot(t) \/ CompareAndSet(t) \/ Unlock(t)
    BY <2>1 DEF Next, Tick
  <2>3. CASE GetSlot(t)
    BY <2>0, <2>3 DEF GetSlot, Goto, Slot
  <2>4. CASE CompareAndSet(t)
    BY <2>0, <2>4 DEF CompareAndSet, Goto
  <2>5. CASE Unlock(t)
    BY <2>0, <2>5 DEF Unlock, Goto, ResetExclusive, Slot
  <2> QED
    BY <2>2, <2>3, <2>4, <2>5
<1> QED
  BY <1>1, TypeCorrect, Exclusion, PTL DEF Spec, ObtainedIsWanted

--------------------------------------------------------------------------------
(***************************************************************************)
(* Prompt threads: the clock does not go back, and no operation lasts      *)
(* longer than the interval less one window.                               *)
(***************************************************************************)
Prompt == ClockSteps \subseteq Nat /\ MaxLag + WindowLength <= Interval

(* Two multiples that differ by less than n, and agree modulo n, are equal. *)
LEMMA SameResidue ==
  ASSUME NEW p \in Nat, NEW q \in Nat, NEW n \in Nat \ {0},
         p % n = q % n, p < q + n
  PROVE  p <= q
<1> DEFINE x == p \div n
           y == q \div n
           r == p % n
<1>1. x \in Nat /\ y \in Nat /\ r \in Nat /\ p = n * x + r /\ q = n * y + r
  <2>1. x \in Nat /\ p % n \in 0 .. n - 1 /\ p = n * x + (p % n)
    BY Division
  <2>2. y \in Nat /\ q % n \in 0 .. n - 1 /\ q = n * y + (q % n)
    BY Division
  <2> QED
    BY <2>1, <2>2
<1> HIDE DEF x, y, r
<1>2. n * x < n * y + n
  BY <1>1
<1>3. CASE x <= y
  <2>1. n * x <= n * y
    BY <1>1, <1>3, Z3
  <2> QED
    BY <1>1, <2>1
<1>4. CASE x >= y + 1
  <2>1. n * x >= n * (y + 1)
    BY <1>1, <1>4, Z3
  <2>2. n * (y + 1) = n * y + n
    BY <1>1, Z3
  <2> QED
    BY <1>1, <1>2, <2>1, <2>2
<1> QED
  BY <1>1, <1>3, <1>4

(* Two windows of one slot less than an interval apart do not overtake. *)
LEMMA SameSlot ==
  ASSUME NEW a \in Nat, NEW b \in Nat,
         a % WindowLength = 0, b % WindowLength = 0,
         TimeIdx(a) = TimeIdx(b), a < b + Interval
  PROVE  a <= b
<1> DEFINE p == a \div WindowLength
           q == b \div WindowLength
<1>1. WindowLength \in Nat \ {0} /\ SampleCount \in Nat \ {0}
  BY LeapArrayAssumption
<1>2. p \in Nat /\ q \in Nat /\ a = WindowLength * p /\ b = WindowLength * q
  <2>1. p \in Nat /\ a = WindowLength * p + (a % WindowLength)
    BY <1>1, Division
  <2>2. q \in Nat /\ b = WindowLength * q + (b % WindowLength)
    BY <1>1, Division
  <2>3. WindowLength * p \in Nat /\ WindowLength * q \in Nat
    BY <1>1, <2>1, <2>2, DivisionOfMultiple
  <2> HIDE DEF p, q
  <2> QED
    BY <2>1, <2>2, <2>3
<1>3. p % SampleCount = q % SampleCount
  BY DEF TimeIdx
<1> HIDE DEF p, q
<1>4. WindowLength * p < WindowLength * (q + SampleCount)
  <2>1. WindowLength * (q + SampleCount) = WindowLength * q + SampleCount * WindowLength
    BY <1>1, <1>2, Z3
  <2> QED
    BY <1>2, <2>1 DEF Interval
<1>5. p < q + SampleCount
  BY <1>1, <1>2, <1>4, Z3
<1>6. p <= q
  BY <1>1, <1>2, <1>3, <1>5, SameResidue
<1>7. WindowLength * p <= WindowLength * q
  BY <1>1, <1>2, <1>6, Z3
<1> QED
  BY <1>2, <1>7

(* No clock value in use is in the future or late, and no slot starts later. *)
Timely ==
  /\ \A t \in Threads : pc[t] # "idle" => time[t] <= now /\ now - time[t] <= MaxLag
  /\ \A i \in Slots : start[i] <= now

(* A thread that holds a wrap of the array still finds its window in it. *)
Holds ==
  \A t \in Threads : pc[t] = "gotSlot" => start[Idx(t)] = Wanted(t)

NullIsEmpty == \A i \in Slots : start[i] = Null => bucket[i] = 0

PromptInv ==
  TypeOK /\ Aligned /\ ResetExclusive /\ Timely /\ Holds /\ NullIsEmpty /\ ExactAttribution

(* A prompt thread never finds its slot ahead of the window it wants. *)
LEMMA NeverBehind ==
  ASSUME Prompt, TypeOK, Aligned, Timely, NEW t \in Threads, pc[t] # "idle"
  PROVE  start[Idx(t)] <= Wanted(t)
<1>1. /\ time[t] \in Times /\ Idx(t) \in Slots /\ Wanted(t) \in Nat
      /\ Wanted(t) <= time[t] /\ time[t] < Wanted(t) + WindowLength
      /\ Wanted(t) % WindowLength = 0 /\ TimeIdx(Wanted(t)) = Idx(t)
  BY WindowFacts DEF TypeOK, Idx, Wanted
<1>2. start[Idx(t)] \in Nat \cup {Null}
  BY <1>1, WindowsAreNat DEF TypeOK
<1>3. CASE start[Idx(t)] = Null
  BY <1>1, <1>3 DEF Null
<1>4. CASE start[Idx(t)] \in Nat /\ start[Idx(t)] # Null
  <2>1. start[Idx(t)] <= now /\ now - time[t] <= MaxLag
    BY <1>1 DEF Timely
  <2>2. now \in Nat /\ time[t] \in Nat /\ Interval \in Nat /\ MaxLag \in Nat
    BY <1>1, LeapArrayAssumption DEF TypeOK, Times, Interval
  <2>3. start[Idx(t)] < Wanted(t) + Interval
    BY <1>1, <1>4, <2>1, <2>2, LeapArrayAssumption DEF Prompt
  <2>4. start[Idx(t)] % WindowLength = 0 /\ TimeIdx(start[Idx(t)]) = TimeIdx(Wanted(t))
    BY <1>1, <1>4 DEF Aligned
  <2> HIDE DEF Idx, Wanted
  <2> QED
    BY <1>1, <1>4, <2>3, <2>4, SameSlot
<1> QED
  BY <1>2, <1>3, <1>4 DEF Null

(* Two prompt threads in one slot want the same window. *)
LEMMA SameWanted ==
  ASSUME Prompt, TypeOK, Timely, NEW t \in Threads, NEW u \in Threads,
         pc[t] # "idle", pc[u] # "idle", Idx(t) = Idx(u)
  PROVE  Wanted(t) = Wanted(u)
<1>1. ASSUME NEW v \in Threads
      PROVE  /\ time[v] \in Nat /\ Wanted(v) \in Nat
             /\ Wanted(v) <= time[v] /\ time[v] < Wanted(v) + WindowLength
             /\ Wanted(v) % WindowLength = 0 /\ TimeIdx(Wanted(v)) = Idx(v)
  BY WindowFacts DEF TypeOK, Idx, Wanted, Times
<1>2. now \in Nat /\ Interval \in Nat /\ MaxLag \in Nat /\ WindowLength \in Nat
  BY LeapArrayAssumption DEF TypeOK, Times, Interval
<1>3. /\ time[t] <= now /\ now - time[t] <= MaxLag
      /\ time[u] <= now /\ now - time[u] <= MaxLag
  BY DEF Timely
<1>4. MaxLag + WindowLength <= Interval
  BY DEF Prompt
<1> HIDE DEF Idx, Wanted
<1>5. Wanted(t) < Wanted(u) + Interval /\ Wanted(u) < Wanted(t) + Interval
  BY <1>1, <1>2, <1>3, <1>4
<1>6. Wanted(t) <= Wanted(u) /\ Wanted(u) <= Wanted(t)
  BY <1>1, <1>5, SameSlot
<1> QED
  BY <1>1, <1>6

(* What a thread's step may do to the clock values and the starts. *)
LEMMA TimelyStep ==
  ClockSteps \subseteq Nat /\ TypeOK /\ Timely /\ [Next]_vars => Timely'
<1> SUFFICES ASSUME ClockSteps \subseteq Nat, TypeOK, Timely, [Next]_vars PROVE Timely'
  OBVIOUS
<1> USE DEF Locals, Slot
<1>0. /\ pc \in [Threads -> Labels] /\ time \in [Threads -> Times] /\ now \in Nat
      /\ start \in [Slots -> Windows \cup {Null}]
      /\ \A i \in Slots : start[i] \in Int
      /\ \A t \in Threads : time[t] \in Nat /\ Wanted(t) \in Nat /\ Wanted(t) <= time[t]
  <2>1. \A t \in Threads : time[t] \in Times /\ Wanted(t) \in Nat /\ Wanted(t) <= time[t]
    BY WindowFacts DEF TypeOK, Wanted
  <2>2. \A i \in Slots : start[i] \in Nat \cup {Null}
    BY WindowsAreNat DEF TypeOK
  <2> QED
    BY <2>1, <2>2 DEF TypeOK, Times, Null
<1>1. MaxLag \in Nat
  BY LeapArrayAssumption
<1>2. CASE Tick
  <2> PICK d \in ClockSteps :
             /\ \A t \in Threads : pc[t] # "idle" => now + d - time[t] <= MaxLag
             /\ now' = now + d /\ UNCHANGED <<start, pc, time>>
    BY <1>2 DEF Tick
  <2>1. d \in Nat
    OBVIOUS
  <2> QED
    BY <2>1, <1>0 DEF Timely
<1>3. ASSUME NEW t \in Threads, Begin(t) \/ BeginValues(t) PROVE Timely'
  BY <1>3, <1>0, <1>1 DEF Begin, BeginValues, Goto, Timely
<1>4. ASSUME NEW t \in Threads, ResetStart(t) \/ CompareAndSet(t) PROVE Timely'
  <2>1. pc[t] # "idle" /\ Wanted(t) <= now
    BY <1>4, <1>0 DEF ResetStart, CompareAndSet, Goto, Timely
  <2>2. UNCHANGED start \/ start' = [start EXCEPT ![Idx(t)] = Wanted(t)]
    BY <1>4 DEF ResetStart, CompareAndSet
  <2>3. \A i \in Slots : start'[i] <= now
    BY <2>1, <2>2, <1>0 DEF Timely
  <2> QED
    BY <1>4, <1>0, <2>1, <2>3 DEF ResetStart, CompareAndSet, Goto, Timely
<1>5. ASSUME NEW t \in Threads,
             AddToSlot(t) \/ AddToFresh(t) \/ Return(t)
      PROVE  Timely'
  BY <1>5, <1>0 DEF AddToSlot, AddToFresh, Return, Leave, Goto, Timely
<1>6. ASSUME NEW t \in Threads,
             GetSlot(t) \/ CompareNewer(t) \/ CompareOlder(t) \/ TryLock(t)
             \/ ResetValue(t) \/ Unlock(t) \/ Scan(t) \/ EndScan(t)
             \/ Accumulate(t) \/ EndTotal(t)
      PROVE  Timely'
  <2>1. UNCHANGED <<now, start, time>> /\ pc[t] # "idle"
        /\ \A u \in Threads : u # t => pc'[u] = pc[u]
    BY <1>6, <1>0 DEF GetSlot, CompareNewer, CompareOlder, TryLock, ResetValue, Unlock,
       Scan, EndScan, Accumulate, EndTotal, Goto
  <2> QED
    BY <2>1 DEF Timely
<1>7. CASE UNCHANGED vars
  BY <1>7 DEF vars, Timely
<1> QED
  BY <1>2, <1>3, <1>4, <1>5, <1>6, <1>7 DEF Next, Step, CurrentWindow

(* A thread that holds a wrap is not overtaken by a reset of its slot. *)
LEMMA HoldsStep ==
  Prompt /\ TypeOK /\ Aligned /\ ResetExclusive /\ Timely /\ Holds /\ [Next]_vars => Holds'
<1> SUFFICES ASSUME Prompt, TypeOK, Aligned, ResetExclusive, Timely, Holds, [Next]_vars,
                    NEW t \in Threads, pc'[t] = "gotSlot"
             PROVE  start'[Idx(t)'] = Wanted(t)'
  BY DEF Holds
<1> USE DEF Locals, Slot
<1>0. /\ pc \in [Threads -> Labels] /\ time \in [Threads -> Times]
      /\ start \in [Slots -> Windows \cup {Null}]
      /\ \A u \in Threads : Idx(u) \in Slots /\ Wanted(u) \in Nat
  BY WindowFacts DEF TypeOK, Idx, Wanted
<1>1. CASE pc[t] # "gotSlot"
  <2>1. ASSUME NEW u \in Threads, Begin(u) \/ Step(u)
        PROVE  u = t /\ (GetSlot(t) \/ CompareAndSet(t) \/ Unlock(t))
    BY <1>0, <1>1, <2>1 DEF Begin, Step, CurrentWindow, GetSlot, CompareAndSet,
       CompareNewer, CompareOlder, TryLock, ResetStart, ResetValue, Unlock, AddToSlot,
       AddToFresh, BeginValues, Scan, EndScan, Accumulate, EndTotal, Return, Goto, Leave
  <2>2. GetSlot(t) \/ CompareAndSet(t) \/ Unlock(t)
    BY <1>1, <2>1 DEF Next, Tick, vars
  <2> QED
    BY <2>2, <1>0 DEF GetSlot, CompareAndSet, Unlock, Goto, ResetExclusive, Idx, Wanted
<1>2. CASE pc[t] = "gotSlot"
  <2>1. start[Idx(t)] = Wanted(t)
    BY <1>2 DEF Holds
  <2>2. time'[t] = time[t]
    BY <1>0, <1>2 DEF Next, Tick, vars, Begin, Step, CurrentWindow, GetSlot,
       CompareAndSet, CompareNewer, CompareOlder, TryLock, ResetStart, ResetValue, Unlock,
       AddToSlot, AddToFresh, BeginValues, Scan, EndScan, Accumulate, EndTotal, Return,
       Goto, Leave
  <2>3. start'[Idx(t)] = start[Idx(t)]
    <3>1. ASSUME NEW u \in Threads, ResetStart(u)
          PROVE  start'[Idx(t)] = start[Idx(t)]
      <4>1. pc[u] # "idle" /\ start' = [start EXCEPT ![Idx(u)] = Wanted(u)]
        BY <3>1 DEF ResetStart, Goto
      <4>2. CASE Idx(u) = Idx(t)
        BY <4>1, <4>2, <1>0, <1>2, <2>1, SameWanted
      <4>3. CASE Idx(u) # Idx(t)
        BY <4>1, <4>3, <1>0
      <4> QED
        BY <4>2, <4>3
    <3>2. ASSUME NEW u \in Threads, CompareAndSet(u)
          PROVE  start'[Idx(t)] = start[Idx(t)]
      BY <3>2, <1>0, <2>1 DEF CompareAndSet, Null
    <3> QED
      BY <3>1, <3>2 DEF Next, Tick, vars, Begin, Step, CurrentWindow, GetSlot,
         CompareNewer, CompareOlder, TryLock, ResetValue, Unlock, AddToSlot, AddToFresh,
         BeginValues, Scan, EndScan, Accumulate, EndTotal, Return
  <2> QED
    BY <2>1, <2>2, <2>3 DEF Idx, Wanted
<1> QED
  BY <1>1, <1>2

(* Nobody counts in a slot that has no wrap. *)
LEMMA NullIsEmptyStep ==
  TypeOK /\ Holds /\ NullIsEmpty /\ [Next]_vars => NullIsEmpty'
<1> SUFFICES ASSUME TypeOK, Holds, NullIsEmpty, [Next]_vars PROVE NullIsEmpty'
  OBVIOUS
<1> USE DEF Locals, Slot
<1>0. /\ start \in [Slots -> Windows \cup {Null}] /\ bucket \in [Slots -> Nat]
      /\ \A t \in Threads : Idx(t) \in Slots /\ Wanted(t) \in Nat
  BY WindowFacts DEF TypeOK, Idx, Wanted
<1>1. ASSUME NEW t \in Threads, ResetStart(t) \/ CompareAndSet(t) PROVE NullIsEmpty'
  BY <1>1, <1>0 DEF ResetStart, CompareAndSet, NullIsEmpty, Null
<1>2. ASSUME NEW t \in Threads, ResetValue(t) PROVE NullIsEmpty'
  BY <1>2, <1>0 DEF ResetValue, NullIsEmpty
<1>3. ASSUME NEW t \in Threads, AddToSlot(t) PROVE NullIsEmpty'
  <2>1. start[Idx(t)] # Null
    BY <1>3, <1>0 DEF AddToSlot, Leave, Goto, Holds, Null
  <2> QED
    BY <1>3, <2>1, <1>0 DEF AddToSlot, NullIsEmpty
<1>4. CASE UNCHANGED <<start, bucket>>
  BY <1>4 DEF NullIsEmpty
<1> QED
  BY <1>1, <1>2, <1>3, <1>4 DEF Next, Tick, vars, Begin, Step, CurrentWindow, GetSlot,
     CompareNewer, CompareOlder, TryLock, Unlock, AddToFresh, BeginValues, Scan, EndScan,
     Accumulate, EndTotal, Return

(* A slot that moves on to a later window is emptied before it counts for it. *)
LEMMA AttributionStep ==
  TypeOK /\ Holds /\ NullIsEmpty /\ ExactAttribution /\ [Next]_vars => ExactAttribution'
<1> SUFFICES ASSUME TypeOK, Holds, NullIsEmpty, ExactAttribution, [Next]_vars,
                    NEW i \in Slots, start'[i] # Null, ~Emptying(i)'
             PROVE  bucket'[i] <= done'[start'[i]]
  BY DEF ExactAttribution
<1> USE DEF Locals, Slot
<1>0. /\ pc \in [Threads -> Labels] /\ time \in [Threads -> Times]
      /\ start \in [Slots -> Windows \cup {Null}] /\ bucket \in [Slots -> Nat]
      /\ done \in [Windows -> Nat]
      /\ \A t \in Threads : Idx(t) \in Slots /\ Wanted(t) \in Windows /\ Wanted(t) # Null
  BY WindowFacts DEF TypeOK, Idx, Wanted, Null
<1>1. ASSUME UNCHANGED <<start, bucket, done>>, Emptying(i) => Emptying(i)'
      PROVE  bucket'[i] <= done'[start'[i]]
  BY <1>1 DEF ExactAttribution
<1>2. ASSUME NEW t \in Threads, ResetStart(t) PROVE bucket'[i] <= done'[start'[i]]
  <2>1. i = Idx(t) => Emptying(i)'
    BY <1>2, <1>0 DEF ResetStart, Goto, Emptying, Idx
  <2>2. i # Idx(t)
    BY <2>1
  <2>3. start'[i] = start[i] /\ UNCHANGED <<bucket, done>>
    BY <1>2, <2>2, <1>0 DEF ResetStart
  <2>4. Emptying(i) => Emptying(i)'
    BY <1>2, <1>0 DEF ResetStart, Goto, Emptying, Idx
  <2> QED
    BY <2>3, <2>4 DEF ExactAttribution
<1>3. ASSUME NEW t \in Threads, ResetValue(t) PROVE bucket'[i] <= done'[start'[i]]
  <2>1. CASE i = Idx(t)
    <3>1. bucket'[i] = 0 /\ start'[i] \in Windows /\ done' = done
      BY <1>3, <2>1, <1>0 DEF ResetValue
    <3> QED
      BY <3>1, <1>0
  <2>2. CASE i # Idx(t)
    <3>1. bucket'[i] = bucket[i] /\ UNCHANGED <<start, done>>
      BY <1>3, <2>2, <1>0 DEF ResetValue
    <3>2. Emptying(i) => Emptying(i)'
      BY <1>3, <2>2, <1>0 DEF ResetValue, Goto, Emptying, Idx
    <3> QED
      BY <3>1, <3>2 DEF ExactAttribution
  <2> QED
    BY <2>1, <2>2
<1>4. ASSUME NEW t \in Threads, CompareAndSet(t) PROVE bucket'[i] <= done'[start'[i]]
  <2>1. Emptying(i) => Emptying(i)'
    BY <1>4, <1>0 DEF CompareAndSet, Goto, Emptying, Idx
  <2>2. CASE start[Idx(t)] = Null /\ i = Idx(t)
    <3>1. bucket'[i] = 0 /\ start'[i] \in Windows /\ done' = done
      BY <1>4, <2>2, <1>0 DEF CompareAndSet, Goto, NullIsEmpty
    <3> QED
      BY <3>1, <1>0
  <2>3. CASE start[Idx(t)] # Null \/ i # Idx(t)
    <3>1. start'[i] = start[i] /\ UNCHANGED <<bucket, done>>
      BY <1>4, <2>3, <1>0 DEF CompareAndSet, Goto
    <3> QED
      BY <2>1, <3>1 DEF ExactAttribution
  <2> QED
    BY <2>2, <2>3
<1>5. ASSUME NEW t \in Threads, AddToSlot(t) PROVE bucket'[i] <= done'[start'[i]]
  <2>1. /\ start[Idx(t)] = Wanted(t) /\ start' = start
        /\ bucket' = [bucket EXCEPT ![Idx(t)] = @ + 1]
        /\ done' = [done EXCEPT ![Wanted(t)] = @ + 1]
    BY <1>5 DEF AddToSlot, Leave, Goto, Holds
  <2>2. Emptying(i) => Emptying(i)'
    BY <1>5, <1>0 DEF AddToSlot, Leave, Goto, Emptying, Idx
  <2>3. bucket[i] <= done[start[i]] /\ start[i] \in Windows
    BY <2>1, <2>2, <1>0 DEF ExactAttribution
  <2>4. CASE i = Idx(t)
    BY <2>1, <2>3, <2>4, <1>0
  <2>5. CASE i # Idx(t)
    <3>1. bucket'[i] = bucket[i] /\ done[start[i]] <= done'[start[i]]
      BY <2>1, <2>3, <2>5, <1>0
    <3> QED
      BY <2>1, <2>3, <3>1, <1>0
  <2> QED
    BY <2>4, <2>5
<1>6. ASSUME NEW t \in Threads, AddToFresh(t) PROVE bucket'[i] <= done'[start'[i]]
  <2>1. /\ UNCHANGED <<start, bucket>>
        /\ done' = [done EXCEPT ![Wanted(t)] = @ + 1]
    BY <1>6 DEF AddToFresh
  <2>2. Emptying(i) => Emptying(i)'
    BY <1>6, <1>0 DEF AddToFresh, Leave, Goto, Emptying, Idx
  <2>3. bucket[i] <= done[start[i]] /\ start[i] \in Windows
    BY <2>1, <2>2, <1>0 DEF ExactAttribution
  <2>4. done[start[i]] <= done'[start[i]] /\ done'[start[i]] \in Nat
    BY <2>1, <2>3, <1>0
  <2> QED
    BY <2>1, <2>3, <2>4, <1>0
<1>7. ASSUME NEW t \in Threads,
             Begin(t) \/ GetSlot(t) \/ CompareNewer(t) \/ CompareOlder(t) \/ TryLock(t)
             \/ Unlock(t) \/ BeginValues(t) \/ Scan(t) \/ EndScan(t) \/ Accumulate(t)
             \/ EndTotal(t) \/ Return(t)
      PROVE  bucket'[i] <= done'[start'[i]]
  <2>1. UNCHANGED <<start, bucket, done>>
    BY <1>7 DEF Begin, GetSlot, CompareNewer, CompareOlder, TryLock, Unlock, BeginValues,
       Scan, EndScan, Accumulate, EndTotal, Return
  <2>2. \A u \in Threads : pc[u] = "resetValue" => pc'[u] = pc[u] /\ time'[u] = time[u]
    BY <1>7, <1>0 DEF Begin, GetSlot, CompareNewer, CompareOlder, TryLock, Unlock,
       BeginValues, Scan, EndScan, Accumulate, EndTotal, Return, Goto, Leave
  <2>3. Emptying(i) => Emptying(i)'
    BY <2>2 DEF Emptying, Idx
  <2> QED
    BY <1>1, <2>1, <2>3
<1>8. CASE Tick \/ UNCHANGED vars
  BY <1>1, <1>8 DEF Tick, vars, Emptying, Idx
<1> QED
  BY <1>2, <1>3, <1>4, <1>5, <1>6, <1>7, <1>8 DEF Next, Step, CurrentWindow

(* The invariant behind the three theorems about prompt threads. *)
LEMMA PromptInvInvariant == Prompt => (Spec => []PromptInv)
<1> SUFFICES ASSUME Prompt PROVE Spec => []PromptInv
  OBVIOUS
<1>1. Init => PromptInv
  <2> SUFFICES ASSUME Init PROVE PromptInv
    OBVIOUS
  <2>1. TypeOK
    BY TypeInit
  <2> QED
    BY <2>1, LeapArrayAssumption DEF Init, PromptInv, Aligned, ResetExclusive, Timely,
       Holds, NullIsEmpty, ExactAttribution, Null
<1>2. PromptInv /\ [Next]_vars => PromptInv'
  BY TypeStep, AlignedStep, ResetExclusiveStep, TimelyStep, HoldsStep, NullIsEmptyStep,
     AttributionStep DEF Prompt, PromptInv
<1> QED
  BY <1>1, <1>2, PTL DEF Spec

(* With prompt threads, a slot that is not being emptied counts at most the
   events recorded for the very window its start names. *)
THEOREM Attribution == Prompt => (Spec => []ExactAttribution)
<1>1. PromptInv => ExactAttribution
  BY DEF PromptInv
<1> QED
  BY <1>1, PromptInvInvariant, PTL

(* A step of prompt threads moves no start back. *)
LEMMA StartsGrow ==
  ASSUME Prompt, PromptInv, [Next]_vars
  PROVE  \A i \in Slots : start[i] \in Int /\ start'[i] \in Int /\ start'[i] >= start[i]
<1>0. /\ start \in [Slots -> Windows \cup {Null}]
      /\ \A i \in Slots : start[i] \in Int
      /\ \A t \in Threads : Idx(t) \in Slots /\ Wanted(t) \in Nat
  <2>1. \A i \in Slots : start[i] \in Nat \cup {Null}
    BY WindowsAreNat DEF PromptInv, TypeOK
  <2>2. \A t \in Threads : Idx(t) \in Slots /\ Wanted(t) \in Nat
    BY WindowFacts DEF PromptInv, TypeOK, Idx, Wanted
  <2> QED
    BY <2>1, <2>2 DEF PromptInv, TypeOK, Null
<1>1. ASSUME NEW t \in Threads, ResetStart(t) \/ CompareAndSet(t)
      PROVE  \A i \in Slots : start[i] \in Int /\ start'[i] \in Int /\ start'[i] >= start[i]
  <2>1. start[Idx(t)] <= Wanted(t)
    BY <1>1, NeverBehind DEF ResetStart, CompareAndSet, Goto, PromptInv
  <2>2. start' = start \/ start' = [start EXCEPT ![Idx(t)] = Wanted(t)]
    BY <1>1 DEF ResetStart, CompareAndSet
  <2> QED
    BY <1>0, <2>1, <2>2
<1>2. CASE start' = start
  BY <1>0, <1>2
<1> QED
  BY <1>1, <1>2 DEF Next, Tick, Begin, Step, CurrentWindow, GetSlot, CompareNewer,
     CompareOlder, TryLock, ResetValue, Unlock, AddToSlot, AddToFresh, BeginValues, Scan,
     EndScan, Accumulate, EndTotal, Return, Slot, vars

(* With prompt threads, no reset takes a slot back to an older window, although
   resetWindowTo does not compare the starts again under the lock. *)
THEOREM NoGoingBack == Prompt => (Spec => StartNeverGoesBack)
<1> SUFFICES ASSUME Prompt PROVE Spec => StartNeverGoesBack
  OBVIOUS
<1>1. PromptInv /\ [Next]_vars => [\A i \in Slots : start'[i] >= start[i]]_vars
  BY StartsGrow
<1> QED
  BY <1>1, PromptInvInvariant, PTL DEF Spec, StartNeverGoesBack

--------------------------------------------------------------------------------
(* Slots are picked by values() only. *)
PickedInScan ==
  \A t \in Threads : pc[t] \notin {"scan", "total"} => picked[t] = {}

(* Only values() picks slots, and it returns with none. *)
LEMMA PickedStep ==
  TypeOK /\ PickedInScan /\ [Next]_vars => PickedInScan'
<1> SUFFICES ASSUME TypeOK, PickedInScan, [Next]_vars PROVE PickedInScan'
  OBVIOUS
<1> USE DEF PickedInScan, Locals
<1>0. pc \in [Threads -> Labels] /\ picked \in [Threads -> SUBSET Slots]
  BY DEF TypeOK
<1>1. CASE UNCHANGED vars
  BY <1>1 DEF vars
<1>2. CASE Tick
  BY <1>2 DEF Tick
<1>3. ASSUME NEW t \in Threads, Begin(t)
      PROVE  PickedInScan'
  BY <1>0, <1>3 DEF Begin, Goto
<1>4. ASSUME NEW t \in Threads, CurrentWindow(t)
      PROVE  PickedInScan'
  BY <1>0, <1>4 DEF CurrentWindow, GetSlot, CompareAndSet, CompareNewer, CompareOlder,
     TryLock, ResetStart, ResetValue, Unlock, Goto
<1>5. ASSUME NEW t \in Threads, AddToSlot(t) \/ AddToFresh(t) \/ Return(t)
      PROVE  PickedInScan'
  BY <1>0, <1>5 DEF AddToSlot, AddToFresh, Return, Leave, Goto
<1>6. ASSUME NEW t \in Threads, BeginValues(t)
      PROVE  PickedInScan'
  BY <1>0, <1>6 DEF BeginValues
<1>7. ASSUME NEW t \in Threads, Scan(t) \/ EndScan(t)
      PROVE  PickedInScan'
  BY <1>0, <1>7 DEF Scan, EndScan, Goto
<1>8. ASSUME NEW t \in Threads, Accumulate(t) \/ EndTotal(t)
      PROVE  PickedInScan'
  BY <1>0, <1>8 DEF Accumulate, EndTotal, Goto
<1> QED
  BY <1>1, <1>2, <1>3, <1>4, <1>5, <1>6, <1>7, <1>8 DEF Next, Step

(* A slot stays picked, with the same time, or it is picked because it is not
   deprecated. *)
LEMMA WhyPicked ==
  ASSUME TypeOK, PickedInScan, [Next]_vars, NEW t \in Threads, NEW i \in picked'[t]
  PROVE  /\ time'[t] = time[t]
         /\ i \in picked[t] \/ (start[i] = start'[i] /\ ~IsWindowDeprecated(time[t], i))
<1> USE DEF Locals, Slot
<1>0. /\ pc \in [Threads -> Labels] /\ picked \in [Threads -> SUBSET Slots]
      /\ time \in [Threads -> Times]
  BY DEF TypeOK
<1>1. CASE UNCHANGED vars
  BY <1>1 DEF vars
<1>2. CASE Tick
  BY <1>2 DEF Tick
<1>3. ASSUME NEW u \in Threads, Begin(u)
      PROVE  time'[t] = time[t] /\ i \in picked[t]
  BY <1>0, <1>3 DEF Begin, Goto, PickedInScan
<1>4. ASSUME NEW u \in Threads, CurrentWindow(u)
      PROVE  time'[t] = time[t] /\ i \in picked[t]
  BY <1>4 DEF CurrentWindow, GetSlot, CompareAndSet, CompareNewer, CompareOlder,
     TryLock, ResetStart, ResetValue, Unlock
<1>5. ASSUME NEW u \in Threads, AddToSlot(u) \/ AddToFresh(u) \/ Return(u)
      PROVE  time'[t] = time[t] /\ i \in picked[t]
  BY <1>0, <1>5 DEF AddToSlot, AddToFresh, Return, Leave
<1>6. ASSUME NEW u \in Threads, BeginValues(u)
      PROVE  time'[t] = time[t] /\ i \in picked[t]
  BY <1>0, <1>6 DEF BeginValues
<1>7. ASSUME NEW u \in Threads, Scan(u)
      PROVE  /\ time'[t] = time[t]
             /\ i \in picked[t] \/ (start[i] = start'[i] /\ ~IsWindowDeprecated(time[t], i))
  BY <1>0, <1>7 DEF Scan
<1>8. ASSUME NEW u \in Threads, EndScan(u) \/ EndTotal(u)
      PROVE  time'[t] = time[t] /\ i \in picked[t]
  BY <1>8 DEF EndScan, EndTotal
<1>9. ASSUME NEW u \in Threads, Accumulate(u)
      PROVE  time'[t] = time[t] /\ i \in picked[t]
  BY <1>0, <1>9 DEF Accumulate
<1> QED
  BY <1>1, <1>2, <1>3, <1>4, <1>5, <1>6, <1>7, <1>8, <1>9 DEF Next, Step

(* With prompt threads, the slots whose counters values() is about to add up are
   not deprecated, also if they are reused between the scan and the sum. *)
THEOREM RecentPicks == Prompt => (Spec => []PickedStayRecent)
<1> SUFFICES ASSUME Prompt PROVE Spec => []PickedStayRecent
  OBVIOUS
<1> DEFINE Inv == PickedInScan /\ PickedStayRecent
<1>1. Init => Inv
  BY DEF Init, PickedInScan, PickedStayRecent
<1>2. PromptInv /\ PromptInv' /\ Inv /\ [Next]_vars => Inv'
  <2> SUFFICES ASSUME PromptInv, PromptInv', Inv, [Next]_vars PROVE Inv'
    OBVIOUS
  <2>1. PickedInScan'
    BY PickedStep DEF PromptInv
  <2>2. ASSUME NEW t \in Threads, NEW i \in picked'[t]
        PROVE  time'[t] - start'[i] <= Interval
    <3>1. i \in Slots /\ time[t] \in Int /\ Interval \in Int
      BY <2>2, LeapArrayAssumption DEF PromptInv, TypeOK, Times, Interval
    <3>2. start[i] \in Int /\ start'[i] \in Int /\ start'[i] >= start[i]
      BY <3>1, StartsGrow
    <3>3. /\ time'[t] = time[t]
          /\ i \in picked[t] \/ (start[i] = start'[i] /\ ~IsWindowDeprecated(time[t], i))
      BY <2>2, WhyPicked DEF PromptInv
    <3>4. time[t] - start[i] <= Interval
      BY <3>1, <3>2, <3>3 DEF PickedStayRecent, IsWindowDeprecated
    <3> QED
      BY <3>1, <3>2, <3>3, <3>4
  <2> QED
    BY <2>1, <2>2 DEF PickedStayRecent
<1>3. Inv => PickedStayRecent
  OBVIOUS
<1> QED
  BY <1>1, <1>2, <1>3, PromptInvInvariant, PTL DEF Spec

--------------------------------------------------------------------------------
(***************************************************************************)
(* Sums.  SumFunctionOnSet recurs over the subsets of a finite set; what   *)
(* holds of it is shown by looking at a smallest subset for which it does  *)
(* not.                                                                    *)
(***************************************************************************)
(* Of the sets that have a property, subsets of a finite set, some are minimal. *)
LEMMA Smallest ==
  ASSUME NEW S, IsFiniteSet(S), NEW Bad, Bad \subseteq SUBSET S, Bad # {}
  PROVE  \E U \in Bad : \A V \in Bad : ~(V \subseteq U /\ V # U)
<1>1. IsWellFoundedOn(StrictSubsetOrdering(S), SUBSET S)
  BY FS_StrictSubsetOrderingWellFounded, FS_FiniteSubsetsOfFinite
<1>2. PICK U \in Bad : \A V \in Bad : ~(<<V, U>> \in StrictSubsetOrdering(S))
  BY <1>1, WFMin
<1>3. ASSUME NEW V \in Bad, V \subseteq U, V # U PROVE FALSE
  BY <1>2, <1>3 DEF StrictSubsetOrdering
<1> QED
  BY <1>3

(* SumFunctionOnSet adds up the subsets one element after the other: sums[s] is the sum
   over s. *)
Any(s) == CHOOSE x \in s : TRUE

Sums(f, S, sums) ==
  sums = [s \in SUBSET S |-> IF s = {} THEN 0 ELSE f[Any(s)] + sums[s \ {Any(s)}]]

(* The chosen element is one of the set's, and the set without it is smaller. *)
LEMMA AnyFacts ==
  ASSUME NEW s, s # {}
  PROVE  Any(s) \in s /\ s \ {Any(s)} \subseteq s /\ s \ {Any(s)} # s
  BY DEF Any

(* SumFunctionOnSet applies such a function to the whole set. *)
LEMMA SumIsChosen ==
  ASSUME NEW f, NEW S
  PROVE  SumFunctionOnSet(f, S) = (CHOOSE sums : Sums(f, S, sums))[S]
  BY DEF SumFunctionOnSet, FoldFunctionOnSet, MapThenFoldSet, Sums, Any

(* There is at most one such function, and the one for a subset is a part of it. *)
LEMMA SumsAgree ==
  ASSUME NEW f, NEW S, IsFiniteSet(S), NEW T, T \subseteq S,
         NEW g, Sums(f, S, g), NEW h, Sums(f, T, h)
  PROVE  \A s \in SUBSET T : g[s] = h[s]
<1> DEFINE Bad == {s \in SUBSET T : g[s] # h[s]}
<1> SUFFICES ASSUME Bad # {} PROVE FALSE
  OBVIOUS
<1>1. IsFiniteSet(T)
  BY FS_Subset
<1>2. PICK s \in Bad : \A v \in Bad : ~(v \subseteq s /\ v # s)
  <2>1. Bad \subseteq SUBSET T
    OBVIOUS
  <2> HIDE DEF Bad
  <2> QED
    BY <1>1, <2>1, Smallest
<1>3. s \in SUBSET T /\ s \in SUBSET S /\ g[s] # h[s]
  OBVIOUS
<1>4. CASE s = {}
  BY <1>3, <1>4 DEF Sums
<1>5. CASE s # {}
  <2>1. PICK rest : rest = s \ {Any(s)}
    OBVIOUS
  <2>2. rest \in SUBSET T /\ rest \subseteq s /\ rest # s
    BY <1>3, <1>5, <2>1, AnyFacts
  <2>3. g[rest] = h[rest]
    BY <1>2, <2>2
  <2>4. g[s] = f[Any(s)] + g[rest] /\ h[s] = f[Any(s)] + h[rest]
    BY <1>3, <1>5, <2>1 DEF Sums
  <2> QED
    BY <1>3, <2>3, <2>4
<1> QED
  BY <1>4, <1>5

(* There is one: a smallest set without one would get it from those of its subsets. *)
LEMMA SumsExist ==
  ASSUME NEW f, NEW S, IsFiniteSet(S)
  PROVE  \E g : Sums(f, S, g)
<1> DEFINE Bad == {U \in SUBSET S : ~ \E g : Sums(f, U, g)}
<1> SUFFICES ASSUME Bad # {} PROVE FALSE
  OBVIOUS
<1>1. PICK U \in Bad : \A V \in Bad : ~(V \subseteq U /\ V # U)
  <2>1. Bad \subseteq SUBSET S
    OBVIOUS
  <2> HIDE DEF Bad
  <2> QED
    BY <2>1, Smallest
<1>2. \A V \in SUBSET U : V # U => \E g : Sums(f, V, g)
  BY <1>1
<1>3. U \in SUBSET S /\ IsFiniteSet(U)
  BY <1>1, FS_Subset
<1> DEFINE part[V \in SUBSET U] == CHOOSE g : Sums(f, V, g)
           g == [s \in SUBSET U |-> IF s = {} THEN 0
                                    ELSE f[Any(s)] + part[s \ {Any(s)}][s \ {Any(s)}]]
<1>4. \A V \in SUBSET U : V # U => Sums(f, V, part[V])
  <2> SUFFICES ASSUME NEW V \in SUBSET U, V # U PROVE Sums(f, V, part[V])
    OBVIOUS
  <2>1. \E h : Sums(f, V, h)
    BY <1>2
  <2>2. Sums(f, V, CHOOSE h : Sums(f, V, h))
    BY <2>1
  <2>3. part[V] = CHOOSE h : Sums(f, V, h)
    BY DEF part
  <2> QED
    BY <2>2, <2>3
<1> HIDE DEF part
<1>5. ASSUME NEW V \in SUBSET U, V # U PROVE g[V] = part[V][V]
  <2>1. CASE V = {}
    BY <1>4, <1>5, <2>1 DEF Sums
  <2>2. CASE V # {}
    <3>1. PICK rest : rest = V \ {Any(V)}
      OBVIOUS
    <3>2. rest \in SUBSET V /\ rest \in SUBSET U /\ rest # U /\ IsFiniteSet(V)
      BY <1>3, <1>5, <2>2, <3>1, AnyFacts, FS_Subset
    <3>3. part[V][rest] = part[rest][rest]
      <4>1. PICK p, q : p = part[V] /\ q = part[rest]
        OBVIOUS
      <4>2. Sums(f, V, p) /\ Sums(f, rest, q)
        BY <1>4, <1>5, <3>2, <4>1
      <4>3. \A s \in SUBSET rest : p[s] = q[s]
        BY <3>2, <4>2, SumsAgree
      <4> QED
        BY <4>1, <4>3
    <3>4. part[V][V] = f[Any(V)] + part[V][rest]
      <4>1. Sums(f, V, part[V])
        BY <1>4, <1>5
      <4> QED
        BY <2>2, <3>1, <4>1 DEF Sums
    <3>5. g[V] = f[Any(V)] + part[rest][rest]
      BY <2>2, <3>1
    <3> QED
      BY <3>3, <3>4, <3>5
  <2> QED
    BY <2>1, <2>2
<1>6. Sums(f, U, g)
  <2>1. ASSUME NEW s \in SUBSET U, s # {}
        PROVE  part[s \ {Any(s)}][s \ {Any(s)}] = g[s \ {Any(s)}]
    <3>1. PICK rest : rest = s \ {Any(s)}
      OBVIOUS
    <3>2. rest \in SUBSET U /\ rest # U
      BY <2>1, <3>1, AnyFacts
    <3> HIDE DEF g
    <3> QED
      BY <1>5, <3>1, <3>2
  <2>2. g = [s \in SUBSET U |-> IF s = {} THEN 0 ELSE f[Any(s)] + g[s \ {Any(s)}]]
    BY <2>1
  <2> HIDE DEF g
  <2> QED
    BY <2>2 DEF Sums
<1> QED
  BY <1>1, <1>6

(* The sum over a set is that over the set without one element, and that element's value. *)
LEMMA SumEquation ==
  ASSUME NEW f, NEW S, IsFiniteSet(S)
  PROVE  SumFunctionOnSet(f, S) =
           IF S = {} THEN 0 ELSE f[Any(S)] + SumFunctionOnSet(f, S \ {Any(S)})
<1>1. PICK g : g = CHOOSE sums : Sums(f, S, sums)
  OBVIOUS
<1>2. Sums(f, S, g)
  BY <1>1, SumsExist
<1>3. SumFunctionOnSet(f, S) = g[S]
  BY <1>1, SumIsChosen
<1>4. CASE S = {}
  BY <1>2, <1>3, <1>4 DEF Sums
<1>5. CASE S # {}
  <2>1. PICK rest : rest = S \ {Any(S)}
    OBVIOUS
  <2>2. rest \subseteq S /\ IsFiniteSet(rest)
    BY <2>1, FS_Subset
  <2>3. PICK h : h = CHOOSE sums : Sums(f, rest, sums)
    OBVIOUS
  <2>4. Sums(f, rest, h)
    BY <2>2, <2>3, SumsExist
  <2>5. SumFunctionOnSet(f, rest) = h[rest]
    BY <2>3, SumIsChosen
  <2>6. g[rest] = h[rest]
    BY <1>2, <2>2, <2>4, SumsAgree
  <2>7. g[S] = f[Any(S)] + g[rest]
    BY <1>2, <1>5, <2>1 DEF Sums
  <2> QED
    BY <1>3, <1>5, <2>1, <2>5, <2>6, <2>7
<1> QED
  BY <1>4, <1>5

(* The sum of natural numbers is one; it is that of any other function that agrees with
   the first on the set, and it can be taken apart at any element. *)
LEMMA SumNat ==
  ASSUME NEW S, IsFiniteSet(S), NEW f, \A x \in S : f[x] \in Nat
  PROVE  SumFunctionOnSet(f, S) \in Nat
<1> DEFINE Bad == {U \in SUBSET S : SumFunctionOnSet(f, U) \notin Nat}
<1> SUFFICES ASSUME Bad # {} PROVE FALSE
  OBVIOUS
<1>1. PICK U \in Bad : \A V \in Bad : ~(V \subseteq U /\ V # U)
  <2>1. Bad \subseteq SUBSET S
    OBVIOUS
  <2> HIDE DEF Bad
  <2> QED
    BY <2>1, Smallest
<1>2. U \in SUBSET S /\ IsFiniteSet(U) /\ SumFunctionOnSet(f, U) \notin Nat
  BY FS_Subset
<1>3. U # {}
  <2>1. SumFunctionOnSet(f, U) = IF U = {} THEN 0 ELSE f[Any(U)] + SumFunctionOnSet(f, U \ {Any(U)})
    BY <1>2, SumEquation
  <2>2. U = {} => SumFunctionOnSet(f, U) = 0
    BY <2>1
  <2> QED
    BY <1>2, <2>2
<1>4. PICK rest : rest = U \ {Any(U)}
  OBVIOUS
<1>5. Any(U) \in S /\ rest \in SUBSET S /\ rest \subseteq U /\ rest # U
  BY <1>2, <1>3, <1>4, AnyFacts
<1>6. SumFunctionOnSet(f, rest) \in Nat
  BY <1>1, <1>5
<1>7. SumFunctionOnSet(f, U) = f[Any(U)] + SumFunctionOnSet(f, rest)
  BY <1>2, <1>3, <1>4, SumEquation
<1>8. f[Any(U)] \in Nat
  BY <1>5
<1> QED
  BY <1>2, <1>6, <1>7, <1>8

(* Functions that agree on a set have the same sum over it. *)
LEMMA SumSame ==
  ASSUME NEW S, IsFiniteSet(S), NEW f, NEW g, \A x \in S : f[x] = g[x]
  PROVE  SumFunctionOnSet(f, S) = SumFunctionOnSet(g, S)
<1> DEFINE Bad == {U \in SUBSET S : SumFunctionOnSet(f, U) # SumFunctionOnSet(g, U)}
<1> SUFFICES ASSUME Bad # {} PROVE FALSE
  OBVIOUS
<1>1. PICK U \in Bad : \A V \in Bad : ~(V \subseteq U /\ V # U)
  <2>1. Bad \subseteq SUBSET S
    OBVIOUS
  <2> HIDE DEF Bad
  <2> QED
    BY <2>1, Smallest
<1>2. /\ U \in SUBSET S /\ IsFiniteSet(U)
      /\ SumFunctionOnSet(f, U) # SumFunctionOnSet(g, U)
  BY FS_Subset
<1>3. U # {}
  BY <1>2, SumEquation
<1>4. PICK rest : rest = U \ {Any(U)}
  OBVIOUS
<1>5. Any(U) \in S /\ rest \in SUBSET S /\ rest \subseteq U /\ rest # U
  BY <1>2, <1>3, <1>4, AnyFacts
<1>6. SumFunctionOnSet(f, rest) = SumFunctionOnSet(g, rest)
  BY <1>1, <1>5
<1>7. /\ SumFunctionOnSet(f, U) = f[Any(U)] + SumFunctionOnSet(f, rest)
      /\ SumFunctionOnSet(g, U) = g[Any(U)] + SumFunctionOnSet(g, rest)
  BY <1>2, <1>3, <1>4, SumEquation
<1>8. f[Any(U)] = g[Any(U)]
  BY <1>5
<1> QED
  BY <1>2, <1>6, <1>7, <1>8

(* A sum can be taken apart at any element, not only the chosen one. *)
LEMMA SumApart ==
  ASSUME NEW S, IsFiniteSet(S), NEW f, \A x \in S : f[x] \in Nat, NEW x \in S
  PROVE  SumFunctionOnSet(f, S) = f[x] + SumFunctionOnSet(f, S \ {x})
<1> DEFINE Apart(U, y) == SumFunctionOnSet(f, U) = f[y] + SumFunctionOnSet(f, U \ {y})
           Bad == {U \in SUBSET S : \E y \in U : ~Apart(U, y)}
<1> SUFFICES ASSUME Bad # {} PROVE FALSE
  OBVIOUS
<1>1. PICK U \in Bad : \A V \in Bad : ~(V \subseteq U /\ V # U)
  <2>1. Bad \subseteq SUBSET S
    OBVIOUS
  <2> HIDE DEF Bad
  <2> QED
    BY <2>1, Smallest
<1>2. PICK y \in U : ~Apart(U, y)
  OBVIOUS
<1>3. U \in SUBSET S /\ IsFiniteSet(U)
  BY FS_Subset
<1>4. PICK c : c = Any(U) /\ c \in U
  BY <1>2, AnyFacts
<1>5. Apart(U, c)
  BY <1>3, <1>4, SumEquation
<1>6. y # c
  BY <1>2, <1>5
<1>7. PICK A, B, C : A = U \ {c} /\ B = U \ {y} /\ C = U \ {c, y}
  OBVIOUS
<1>8. /\ A \in SUBSET S /\ A \subseteq U /\ A # U /\ y \in A /\ A \ {y} = C
      /\ B \in SUBSET S /\ B \subseteq U /\ B # U /\ c \in B /\ B \ {c} = C
  BY <1>2, <1>3, <1>4, <1>6, <1>7
<1>9. Apart(A, y) /\ Apart(B, c)
  BY <1>1, <1>8
<1>10. SumFunctionOnSet(f, C) \in Nat
  <2>1. IsFiniteSet(C) /\ \A z \in C : f[z] \in Nat
    BY <1>3, <1>7, FS_Subset
  <2> QED
    BY <2>1, SumNat
<1>11. f[c] \in Nat /\ f[y] \in Nat
  BY <1>2, <1>3, <1>4
<1>12. /\ SumFunctionOnSet(f, U) = f[c] + SumFunctionOnSet(f, A)
       /\ SumFunctionOnSet(f, A) = f[y] + SumFunctionOnSet(f, C)
       /\ SumFunctionOnSet(f, B) = f[c] + SumFunctionOnSet(f, C)
  BY <1>5, <1>7, <1>8, <1>9
<1>13. SumFunctionOnSet(f, U) = f[y] + SumFunctionOnSet(f, B)
  BY <1>10, <1>11, <1>12
<1> QED
  BY <1>2, <1>7, <1>13

(* Counting one more in a place of the set adds one to the sum, elsewhere nothing. *)
LEMMA SumCounts ==
  ASSUME NEW S, IsFiniteSet(S), NEW D, S \subseteq D, NEW f \in [D -> Nat], NEW w \in D
  PROVE  SumFunctionOnSet([f EXCEPT ![w] = @ + 1], S) =
           SumFunctionOnSet(f, S) + (IF w \in S THEN 1 ELSE 0)
<1> DEFINE g == [f EXCEPT ![w] = @ + 1]
<1>1. g \in [D -> Nat] /\ g[w] = f[w] + 1 /\ \A x \in D \ {w} : g[x] = f[x]
  OBVIOUS
<1> HIDE DEF g
<1>2. (\A x \in S : f[x] \in Nat) /\ \A x \in S : g[x] \in Nat
  BY <1>1
<1>3. SumFunctionOnSet(f, S) \in Nat
  BY <1>2, SumNat
<1>4. CASE w \notin S
  <2>1. SumFunctionOnSet(g, S) = SumFunctionOnSet(f, S)
    BY <1>1, <1>4, SumSame
  <2> QED
    BY <1>3, <1>4, <2>1 DEF g
<1>5. CASE w \in S
  <2>1. PICK rest : rest = S \ {w}
    OBVIOUS
  <2>2. IsFiniteSet(rest) /\ \A x \in rest : g[x] = f[x] /\ f[x] \in Nat
    BY <1>1, <1>2, <2>1, FS_Subset
  <2>3. SumFunctionOnSet(f, S) = f[w] + SumFunctionOnSet(f, rest)
    BY <1>2, <1>5, <2>1, SumApart
  <2>4. SumFunctionOnSet(g, S) = g[w] + SumFunctionOnSet(g, rest)
    BY <1>2, <1>5, <2>1, SumApart
  <2>5. SumFunctionOnSet(g, rest) = SumFunctionOnSet(f, rest) /\ SumFunctionOnSet(f, rest) \in Nat
    BY <2>2, SumSame, SumNat
  <2>6. f[w] \in Nat
    OBVIOUS
  <2>7. SumFunctionOnSet(g, S) = SumFunctionOnSet(f, S) + 1
    BY <1>1, <2>3, <2>4, <2>5, <2>6
  <2> QED
    BY <1>5, <2>7 DEF g
<1> QED
  BY <1>4, <1>5

--------------------------------------------------------------------------------
(* What is counted for the windows of one slot. *)
OwnWindows(i) == {w \in Windows : TimeIdx(w) = i}

(* There are finitely many windows. *)
LEMMA WindowsFinite == IsFiniteSet(Windows)
<1>1. Windows \subseteq 0 .. MaxTime
  <2> SUFFICES ASSUME NEW m \in Times PROVE WindowStart(m) \in 0 .. MaxTime
    BY DEF Windows
  <2>1. WindowStart(m) \in Nat /\ WindowStart(m) <= m
    BY WindowFacts
  <2> QED
    BY <2>1, LeapArrayAssumption DEF Times
<1>2. IsFiniteSet(0 .. MaxTime)
  BY LeapArrayAssumption, FS_Interval
<1> QED
  BY <1>1, <1>2, FS_Subset

(* And a slot's are some of them. *)
LEMMA OwnWindowsFinite ==
  \A i : IsFiniteSet(OwnWindows(i)) /\ OwnWindows(i) \subseteq Windows
<1>1. \A i : OwnWindows(i) \subseteq Windows
  BY DEF OwnWindows
<1> QED
  BY <1>1, WindowsFinite, FS_Subset

(* An event that is recorded counts in the slot of its window, or in none. *)
LEMMA OwnCountsStep == TypeOK /\ OwnCounts /\ [Next]_vars => OwnCounts'
<1> SUFFICES ASSUME TypeOK, OwnCounts, [Next]_vars, NEW i \in Slots
             PROVE  bucket'[i] <= SumFunctionOnSet(done', OwnWindows(i))
  BY DEF OwnCounts, OwnWindows
<1>0. /\ bucket \in [Slots -> Nat] /\ done \in [Windows -> Nat]
      /\ \A t \in Threads : Idx(t) \in Slots /\ Wanted(t) \in Windows
      /\ \A t \in Threads : TimeIdx(Wanted(t)) = Idx(t)
  BY WindowFacts DEF TypeOK, Idx, Wanted
<1>1. PICK own, sum : own = OwnWindows(i) /\ sum = SumFunctionOnSet(done, own)
  OBVIOUS
<1>2. IsFiniteSet(own) /\ own \subseteq Windows
  BY <1>1, OwnWindowsFinite
<1>3. sum \in Nat /\ bucket[i] \in Nat /\ bucket[i] <= sum
  <2>1. sum \in Nat
    BY <1>0, <1>1, <1>2, SumNat
  <2> QED
    BY <1>0, <1>1, <2>1 DEF OwnCounts, OwnWindows
<1>4. ASSUME NEW t \in Threads, done' = [done EXCEPT ![Wanted(t)] = @ + 1]
      PROVE  SumFunctionOnSet(done', own) = sum + (IF Idx(t) = i THEN 1 ELSE 0)
  <2>1. PICK w \in Windows : w = Wanted(t) /\ TimeIdx(w) = Idx(t)
    BY <1>0
  <2>2. SumFunctionOnSet([done EXCEPT ![w] = @ + 1], own) = sum + (IF w \in own THEN 1 ELSE 0)
    <3>1. PICK f \in [Windows -> Nat] : f = done
      BY <1>0
    <3>2. SumFunctionOnSet([f EXCEPT ![w] = @ + 1], own) =
            SumFunctionOnSet(f, own) + (IF w \in own THEN 1 ELSE 0)
      BY <1>2, SumCounts
    <3> QED
      BY <1>1, <3>1, <3>2
  <2>3. w \in own <=> Idx(t) = i
    BY <1>1, <2>1 DEF OwnWindows
  <2> QED
    BY <1>4, <2>1, <2>2, <2>3
<1>5. ASSUME NEW t \in Threads, AddToSlot(t)
      PROVE  bucket'[i] <= SumFunctionOnSet(done', own)
  <2>1. bucket'[i] = bucket[i] + (IF Idx(t) = i THEN 1 ELSE 0)
    BY <1>0, <1>5 DEF AddToSlot
  <2>2. SumFunctionOnSet(done', own) = sum + (IF Idx(t) = i THEN 1 ELSE 0)
    BY <1>4, <1>5 DEF AddToSlot
  <2> QED
    BY <1>3, <2>1, <2>2
<1>6. ASSUME NEW t \in Threads, AddToFresh(t)
      PROVE  bucket'[i] <= SumFunctionOnSet(done', own)
  <2>1. SumFunctionOnSet(done', own) = sum + (IF Idx(t) = i THEN 1 ELSE 0)
    BY <1>4, <1>6 DEF AddToFresh
  <2>2. bucket' = bucket
    BY <1>6 DEF AddToFresh, Slot
  <2> QED
    BY <1>3, <2>1, <2>2
<1>7. ASSUME UNCHANGED done, bucket'[i] \in {bucket[i], 0}
      PROVE  bucket'[i] <= SumFunctionOnSet(done', own)
  BY <1>1, <1>3, <1>7
<1>8. ASSUME NEW t \in Threads, Begin(t) \/ Step(t), ~AddToSlot(t), ~AddToFresh(t)
      PROVE  UNCHANGED done /\ bucket'[i] \in {bucket[i], 0}
  <2>1. CASE ResetValue(t)
    BY <1>0, <2>1 DEF ResetValue
  <2> QED
    BY <1>8, <2>1 DEF Begin, Step, CurrentWindow, GetSlot, CompareAndSet, CompareNewer,
       CompareOlder, TryLock, ResetStart, Unlock, BeginValues, Scan, EndScan, Accumulate,
       EndTotal, Return, Slot
<1>9. CASE Tick \/ UNCHANGED vars
  <2>1. UNCHANGED <<bucket, done>>
    BY <1>9 DEF Tick, vars
  <2> QED
    BY <1>1, <1>7, <2>1
<1> QED
  BY <1>1, <1>5, <1>6, <1>7, <1>8, <1>9 DEF Next

(* Whatever races, no event is invented and none counts in the slot of another window. *)
THEOREM NothingInvented == Spec => []OwnCounts
<1>1. Init => OwnCounts
  <2> SUFFICES ASSUME Init, NEW i \in Slots
               PROVE  bucket[i] <= SumFunctionOnSet(done, OwnWindows(i))
    BY DEF OwnCounts, OwnWindows
  <2>1. bucket[i] = 0 /\ done \in [Windows -> Nat]
    BY DEF Init
  <2>2. PICK own : own = OwnWindows(i) /\ IsFiniteSet(own) /\ own \subseteq Windows
    BY OwnWindowsFinite
  <2>3. SumFunctionOnSet(done, own) \in Nat
    BY <2>1, <2>2, SumNat
  <2> QED
    BY <2>1, <2>2, <2>3
<1> QED
  BY <1>1, OwnCountsStep, TypeCorrect, PTL DEF Spec

--------------------------------------------------------------------------------
(***************************************************************************)
(* The exact counter.  One thread, and a clock that does not go back,      *)
(* implement SlidingCount.                                                 *)
(***************************************************************************)
Alone == (\A t, u \in Threads : t = u) /\ ClockSteps \subseteq Nat

(* What counts nothing can be left out of a sum. *)
LEMMA SumWithout ==
  ASSUME NEW S, IsFiniteSet(S), NEW f, \A x \in S : f[x] \in Nat,
         NEW T, T \subseteq S, \A x \in S \ T : f[x] = 0
  PROVE  SumFunctionOnSet(f, S) = SumFunctionOnSet(f, T)
<1> DEFINE Bad == {U \in SUBSET S : T \subseteq U
                                    /\ SumFunctionOnSet(f, U) # SumFunctionOnSet(f, T)}
<1> SUFFICES ASSUME Bad # {} PROVE FALSE
  OBVIOUS
<1>1. PICK U \in Bad : \A V \in Bad : ~(V \subseteq U /\ V # U)
  <2>1. Bad \subseteq SUBSET S
    OBVIOUS
  <2> HIDE DEF Bad
  <2> QED
    BY <2>1, Smallest
<1>2. /\ U \in SUBSET S /\ IsFiniteSet(U) /\ T \subseteq U
      /\ SumFunctionOnSet(f, U) # SumFunctionOnSet(f, T)
  BY FS_Subset
<1>3. PICK x \in U : x \notin T
  BY <1>2
<1>4. PICK rest : rest = U \ {x}
  OBVIOUS
<1>5. rest \in SUBSET S /\ T \subseteq rest /\ rest \subseteq U /\ rest # U
  BY <1>2, <1>3, <1>4
<1>6. SumFunctionOnSet(f, rest) = SumFunctionOnSet(f, T)
  BY <1>1, <1>5
<1>7. SumFunctionOnSet(f, U) = f[x] + SumFunctionOnSet(f, rest)
  BY <1>2, <1>3, <1>4, SumApart
<1>8. f[x] = 0 /\ SumFunctionOnSet(f, rest) \in Nat
  <2>1. IsFiniteSet(rest) /\ \A y \in rest : f[y] \in Nat
    BY <1>5, FS_Subset
  <2> QED
    BY <1>2, <1>3, <2>1, SumNat
<1> QED
  BY <1>2, <1>6, <1>7, <1>8

(* A sum over slots is one over the windows they hold, if they hold different ones. *)
LEMMA SumMoved ==
  ASSUME NEW S, IsFiniteSet(S), NEW f, \A x \in S : f[x] \in Nat,
         NEW at, NEW g, \A x \in S : g[at[x]] = f[x],
         \A x, y \in S : at[x] = at[y] => x = y,
         IsFiniteSet({at[x] : x \in S})
  PROVE  SumFunctionOnSet(f, S) = SumFunctionOnSet(g, {at[x] : x \in S})
<1> DEFINE Moved(U) == {at[x] : x \in U}
           Bad == {U \in SUBSET S : SumFunctionOnSet(f, U) # SumFunctionOnSet(g, Moved(U))}
<1> SUFFICES ASSUME Bad # {} PROVE FALSE
  OBVIOUS
<1>1. PICK U \in Bad : \A V \in Bad : ~(V \subseteq U /\ V # U)
  <2>1. Bad \subseteq SUBSET S
    OBVIOUS
  <2> HIDE DEF Bad
  <2> QED
    BY <2>1, Smallest
<1>2. /\ U \in SUBSET S /\ IsFiniteSet(U)
      /\ SumFunctionOnSet(f, U) # SumFunctionOnSet(g, Moved(U))
  BY FS_Subset
<1>3. PICK A : A = Moved(U)
  OBVIOUS
<1>4. IsFiniteSet(A) /\ \A y \in A : g[y] \in Nat
  <2>1. A \subseteq Moved(S)
    BY <1>2, <1>3
  <2>2. IsFiniteSet(A)
    BY <2>1, FS_Subset
  <2> QED
    BY <1>2, <1>3, <2>2
<1>5. CASE U = {}
  <2>1. A = {}
    BY <1>3, <1>5
  <2>2. SumFunctionOnSet(f, U) = 0
    BY <1>2, <1>5, SumEquation
  <2>3. SumFunctionOnSet(g, A) = 0
    BY <1>4, <2>1, SumEquation
  <2> QED
    BY <1>2, <1>3, <2>2, <2>3
<1>6. CASE U # {}
  <2>1. PICK x \in U : TRUE
    BY <1>6
  <2>2. PICK rest, y, B : rest = U \ {x} /\ y = at[x] /\ B = A \ {y}
    OBVIOUS
  <2>3. B = Moved(rest) /\ y \in A /\ g[y] = f[x]
    BY <1>2, <1>3, <2>1, <2>2
  <2>4. rest \in SUBSET S /\ rest \subseteq U /\ rest # U
    BY <1>2, <2>1, <2>2
  <2>5. SumFunctionOnSet(f, rest) = SumFunctionOnSet(g, B)
    BY <1>1, <2>3, <2>4
  <2>6. SumFunctionOnSet(f, U) = f[x] + SumFunctionOnSet(f, rest)
    BY <1>2, <2>1, <2>2, SumApart
  <2>7. SumFunctionOnSet(g, A) = g[y] + SumFunctionOnSet(g, B)
    BY <1>4, <2>2, <2>3, SumApart
  <2> QED
    BY <1>2, <1>3, <2>3, <2>5, <2>6, <2>7
<1> QED
  BY <1>5, <1>6

(* What the one operation under way works with is at least as recent as every slot. *)
Punctual ==
  \A t \in Threads : pc[t] # "idle" => \A i \in Slots : start[i] <= time[t]

(* A slot is behind the window a thread is about to reset it to, holds the one a thread
   has obtained, and nothing is recorded for a window before its slot starts there. *)
Ready ==
  \A t \in Threads :
    /\ pc[t] \notin {"older", "gotFresh"}
    /\ pc[t] \in {"newer", "tryLock", "resetStart"} =>
         start[Idx(t)] # Null /\ start[Idx(t)] < Wanted(t)
    /\ pc[t] \in {"resetValue", "unlock", "gotSlot"} => start[Idx(t)] = Wanted(t)
    /\ pc[t] = "resetValue" => done[Wanted(t)] = 0

LatestHeld == \A w \in Windows : done[w] > 0 => start[TimeIdx(w)] >= w

(* A slot counts all that was recorded for the window it starts at. *)
AllCounted ==
  \A i \in Slots : ~Emptying(i) =>
    bucket[i] = IF start[i] = Null THEN 0 ELSE done[start[i]]

(* The slots a total at the given time is taken over, and how far it has got. *)
Live(at) == {i \in Slots : start[i] # Null /\ at - start[i] <= Interval}

Summing ==
  \A t \in Threads :
    /\ pc[t] = "scan" =>
         picked[t] = {i \in Live(time[t]) : i < next[t]} /\ total[t] = 0
    /\ pc[t] = "total" =>
         /\ picked[t] \subseteq Live(time[t])
         /\ total[t] + SumFunctionOnSet(bucket, picked[t]) =
              SumFunctionOnSet(bucket, Live(time[t]))
    /\ pc[t] = "answer" => total[t] = SumFunctionOnSet(bucket, Live(time[t]))

(* What every lemma below needs to know of a thread's slot and window. *)
LEMMA Asked ==
  ASSUME TypeOK, NEW t \in Threads
  PROVE  /\ Idx(t) \in Slots /\ Wanted(t) \in Windows
         /\ Wanted(t) \in Nat /\ time[t] \in Nat /\ Wanted(t) <= time[t]
         /\ time[t] < Wanted(t) + WindowLength
         /\ Wanted(t) % WindowLength = 0 /\ TimeIdx(Wanted(t)) = Idx(t)
         /\ \A i \in Slots : start[i] \in Windows \cup {Null} /\ start[i] \in Int
<1>1. \A i \in Slots : start[i] \in Nat \cup {Null}
  BY WindowsAreNat DEF TypeOK
<1>2. time[t] \in Times
  BY DEF TypeOK
<1>3. \A i \in Slots : start[i] \in Windows \cup {Null} /\ start[i] \in Int
  BY <1>1 DEF TypeOK, Null
<1> QED
  BY <1>2, <1>3, WindowFacts DEF Idx, Wanted, Times

(* A punctual thread never finds its slot ahead of the window it wants, however late. *)
LEMMA NotAhead ==
  ASSUME TypeOK, Aligned, Punctual, NEW t \in Threads, pc[t] # "idle"
  PROVE  start[Idx(t)] <= Wanted(t)
<1>1. PICK s, w : s = start[Idx(t)] /\ w = Wanted(t)
  OBVIOUS
<1>2. /\ w \in Nat /\ time[t] \in Nat /\ time[t] < w + WindowLength
      /\ w % WindowLength = 0 /\ TimeIdx(w) = Idx(t) /\ Idx(t) \in Slots
      /\ s \in Windows \cup {Null}
  BY <1>1, Asked
<1>3. s <= time[t]
  BY <1>1, <1>2 DEF Punctual
<1>4. CASE s = Null
  BY <1>1, <1>2, <1>4 DEF Null
<1>5. CASE s # Null
  <2>1. s \in Nat /\ s % WindowLength = 0 /\ TimeIdx(s) = TimeIdx(w)
    BY <1>1, <1>2, <1>5, WindowsAreNat DEF Aligned
  <2>2. WindowLength <= Interval /\ WindowLength \in Nat /\ Interval \in Nat
    BY LeapArrayAssumption, Z3 DEF Interval
  <2>3. s < w + Interval
    BY <1>2, <1>3, <2>1, <2>2
  <2> QED
    BY <1>1, <1>2, <2>1, <2>3, SameSlot
<1> QED
  BY <1>4, <1>5

(* The one thread reads the clock after it has last moved a start. *)
LEMMA PunctualStep ==
  Alone /\ TypeOK /\ Timely /\ Punctual /\ [Next]_vars => Punctual'
<1> SUFFICES ASSUME Alone, TypeOK, Timely, Punctual, [Next]_vars,
                    NEW t \in Threads, pc'[t] # "idle", NEW i \in Slots
             PROVE  start'[i] <= time'[t]
  BY DEF Punctual
<1> USE DEF Locals, Slot
<1>0. /\ pc \in [Threads -> Labels] /\ time \in [Threads -> Times]
      /\ start \in [Slots -> Windows \cup {Null}]
      /\ \A u \in Threads : u = t
      /\ Idx(t) \in Slots /\ Wanted(t) <= time[t] /\ start[i] <= now
      /\ pc[t] # "idle" => start[i] <= time[t]
  BY Asked DEF TypeOK, Alone, Timely, Punctual
<1>1. CASE Tick \/ UNCHANGED vars
  BY <1>0, <1>1 DEF Tick, vars
<1>2. CASE Begin(t) \/ BeginValues(t)
  BY <1>0, <1>2 DEF Begin, BeginValues
<1>3. CASE ResetStart(t) \/ CompareAndSet(t)
  <2>1. pc[t] # "idle" /\ time' = time
    BY <1>3 DEF ResetStart, CompareAndSet, Goto
  <2>2. start' = start \/ start' = [start EXCEPT ![Idx(t)] = Wanted(t)]
    BY <1>3 DEF ResetStart, CompareAndSet
  <2> QED
    BY <1>0, <2>1, <2>2
<1>4. CASE AddToSlot(t) \/ AddToFresh(t) \/ Return(t)
  BY <1>0, <1>4 DEF AddToSlot, AddToFresh, Return, Leave, Goto
<1>5. CASE \/ GetSlot(t) \/ CompareNewer(t) \/ CompareOlder(t) \/ TryLock(t) \/ ResetValue(t)
           \/ Unlock(t) \/ Scan(t) \/ EndScan(t) \/ Accumulate(t) \/ EndTotal(t)
  BY <1>0, <1>5 DEF GetSlot, CompareNewer, CompareOlder, TryLock, ResetValue, Unlock,
     Scan, EndScan, Accumulate, EndTotal, Goto
<1> QED
  BY <1>0, <1>1, <1>2, <1>3, <1>4, <1>5 DEF Next, Step, CurrentWindow

(* Each window is a multiple of WindowLength and has a slot. *)
LEMMA EveryWindow ==
  ASSUME NEW w \in Windows
  PROVE  w \in Nat /\ w % WindowLength = 0 /\ TimeIdx(w) \in Slots
<1>1. PICK m \in Times : w = WindowStart(m)
  BY DEF Windows
<1>2. /\ TimeIdx(m) \in Slots /\ WindowStart(m) \in Nat
      /\ WindowStart(m) % WindowLength = 0 /\ TimeIdx(WindowStart(m)) = TimeIdx(m)
  BY WindowFacts
<1> QED
  BY <1>1, <1>2

(* A slot behind a window has not counted anything for it. *)
LEMMA NotYet ==
  ASSUME TypeOK, LatestHeld, NEW t \in Threads, start[Idx(t)] < Wanted(t)
  PROVE  done[Wanted(t)] = 0
<1>1. PICK w : w = Wanted(t)
  OBVIOUS
<1>2. /\ w \in Windows /\ w \in Nat /\ TimeIdx(w) = Idx(t)
      /\ start[Idx(t)] \in Int /\ done[w] \in Nat
  BY <1>1, Asked DEF TypeOK
<1> QED
  BY <1>1, <1>2 DEF LatestHeld

(* The one thread finds its slot at each point of the code as it has left it. *)
LEMMA ReadyStep ==
  Alone /\ TypeOK /\ Aligned /\ Punctual /\ LatestHeld /\ Ready /\ [Next]_vars => Ready'
<1> SUFFICES ASSUME Alone, TypeOK, Aligned, Punctual, LatestHeld, Ready, [Next]_vars,
                    NEW t \in Threads
             PROVE  /\ pc'[t] \notin {"older", "gotFresh"}
                    /\ pc'[t] \in {"newer", "tryLock", "resetStart"} =>
                         start'[Idx(t)'] # Null /\ start'[Idx(t)'] < Wanted(t)'
                    /\ pc'[t] \in {"resetValue", "unlock", "gotSlot"} =>
                         start'[Idx(t)'] = Wanted(t)'
                    /\ pc'[t] = "resetValue" => done'[Wanted(t)'] = 0
  BY DEF Ready
<1> USE DEF Locals, Slot
<1>0. /\ pc \in [Threads -> Labels] /\ start \in [Slots -> Windows \cup {Null}]
      /\ \A u \in Threads : u = t
      /\ Idx(t) \in Slots /\ Wanted(t) \in Nat /\ start[Idx(t)] \in Int
  BY Asked DEF TypeOK, Alone
<1>1. pc[t] # "idle" => start[Idx(t)] <= Wanted(t)
  BY NotAhead
<1>2. start[Idx(t)] < Wanted(t) => done[Wanted(t)] = 0
  BY NotYet
<1>3. /\ pc[t] \notin {"older", "gotFresh"}
      /\ pc[t] \in {"newer", "tryLock", "resetStart"} =>
           start[Idx(t)] # Null /\ start[Idx(t)] < Wanted(t)
      /\ pc[t] \in {"resetValue", "unlock", "gotSlot"} => start[Idx(t)] = Wanted(t)
      /\ pc[t] = "resetValue" => done[Wanted(t)] = 0
  BY DEF Ready
<1>4. CASE Tick \/ UNCHANGED vars
  BY <1>3, <1>4 DEF Tick, vars, Idx, Wanted
<1>5. CASE Begin(t) \/ BeginValues(t)
  BY <1>0, <1>5 DEF Begin, BeginValues, Goto
<1>6. CASE GetSlot(t) \/ CompareNewer(t) \/ CompareOlder(t)
  <2>1. UNCHANGED <<start, time, done>>
    BY <1>6 DEF GetSlot, CompareNewer, CompareOlder
  <2>2. Idx(t)' = Idx(t) /\ Wanted(t)' = Wanted(t)
    BY <2>1 DEF Idx, Wanted
  <2> HIDE DEF Idx, Wanted
  <2> QED
    BY <1>0, <1>1, <1>3, <1>6, <2>1, <2>2 DEF GetSlot, CompareNewer, CompareOlder, Goto
<1>7. CASE CompareAndSet(t) \/ ResetStart(t)
  <2>1. Idx(t)' = Idx(t) /\ Wanted(t)' = Wanted(t) /\ UNCHANGED done
    BY <1>7 DEF CompareAndSet, ResetStart, Idx, Wanted
  <2> HIDE DEF Idx, Wanted
  <2> QED
    BY <1>0, <1>2, <1>3, <1>7, <2>1 DEF CompareAndSet, ResetStart, Goto
<1>8. CASE TryLock(t) \/ ResetValue(t) \/ Unlock(t)
  <2>1. Idx(t)' = Idx(t) /\ Wanted(t)' = Wanted(t) /\ UNCHANGED <<start, done>>
    BY <1>8 DEF TryLock, ResetValue, Unlock, Idx, Wanted
  <2> HIDE DEF Idx, Wanted
  <2> QED
    BY <1>0, <1>3, <1>8, <2>1 DEF TryLock, ResetValue, Unlock, Goto
<1>9. CASE AddToSlot(t) \/ AddToFresh(t) \/ Return(t)
  BY <1>0, <1>9 DEF AddToSlot, AddToFresh, Return, Leave, Goto
<1>10. CASE Scan(t) \/ EndScan(t) \/ Accumulate(t) \/ EndTotal(t)
  BY <1>0, <1>10 DEF Scan, EndScan, Accumulate, EndTotal, Goto
<1> QED
  BY <1>0, <1>4, <1>5, <1>6, <1>7, <1>8, <1>9, <1>10 DEF Next, Step, CurrentWindow

(* A start only moves forward, to the window of an operation under way. *)
LEMMA LatestStep ==
  Alone /\ TypeOK /\ Aligned /\ Punctual /\ Ready /\ LatestHeld /\ [Next]_vars => LatestHeld'
<1> SUFFICES ASSUME Alone, TypeOK, Aligned, Punctual, Ready, LatestHeld, [Next]_vars,
                    NEW w \in Windows, done'[w] > 0
             PROVE  start'[TimeIdx(w)] >= w
  BY DEF LatestHeld
<1> USE DEF Locals, Slot
<1>0. /\ start \in [Slots -> Windows \cup {Null}] /\ done \in [Windows -> Nat]
      /\ w \in Nat /\ TimeIdx(w) \in Slots /\ start[TimeIdx(w)] \in Int
      /\ done[w] > 0 => start[TimeIdx(w)] >= w
  <2>1. w \in Nat /\ TimeIdx(w) \in Slots
    BY EveryWindow
  <2>2. start[TimeIdx(w)] \in Nat \cup {Null}
    BY <2>1, WindowsAreNat DEF TypeOK
  <2>3. start[TimeIdx(w)] \in Int
    BY <2>2 DEF Null
  <2>4. start \in [Slots -> Windows \cup {Null}] /\ done \in [Windows -> Nat]
    BY DEF TypeOK
  <2> QED
    BY <2>1, <2>3, <2>4 DEF LatestHeld
<1>1. CASE UNCHANGED <<start, done>>
  BY <1>0, <1>1
<1>2. ASSUME NEW t \in Threads, CompareAndSet(t) \/ ResetStart(t)
      PROVE  start'[TimeIdx(w)] >= w
  <2>1. done' = done /\ start[Idx(t)] <= Wanted(t)
    BY <1>2, NotAhead DEF CompareAndSet, ResetStart, Goto
  <2>2. start' = start \/ start' = [start EXCEPT ![Idx(t)] = Wanted(t)]
    BY <1>2 DEF CompareAndSet, ResetStart
  <2>3. Wanted(t) \in Nat /\ start[Idx(t)] \in Int /\ Idx(t) \in Slots
    BY Asked
  <2> HIDE DEF Idx, Wanted, TimeIdx
  <2> QED
    BY <1>0, <2>1, <2>2, <2>3
<1>3. ASSUME NEW t \in Threads, AddToSlot(t)
      PROVE  start'[TimeIdx(w)] >= w
  <2>1. /\ start' = start /\ done' = [done EXCEPT ![Wanted(t)] = @ + 1]
        /\ start[Idx(t)] = Wanted(t)
    BY <1>3 DEF AddToSlot, Leave, Goto, Ready
  <2>2. Wanted(t) \in Windows /\ TimeIdx(Wanted(t)) = Idx(t)
    BY Asked
  <2> HIDE DEF Idx, Wanted, TimeIdx
  <2> QED
    BY <1>0, <2>1, <2>2
<1>4. ASSUME NEW t \in Threads, AddToFresh(t)
      PROVE  FALSE
  BY <1>4 DEF AddToFresh, Leave, Goto, Ready
<1> QED
  BY <1>1, <1>2, <1>3, <1>4 DEF Next, Step, CurrentWindow, Tick, vars, Begin, GetSlot,
     CompareNewer, CompareOlder, TryLock, ResetValue, Unlock, BeginValues, Scan, EndScan,
     Accumulate, EndTotal, Return

(* An event counts in its slot at once; a slot is empty when it moves to a window. *)
LEMMA CountedStep ==
  /\ Alone /\ TypeOK /\ Aligned /\ LatestHeld /\ Ready /\ AllCounted
  /\ [Next]_vars
  => AllCounted'
<1> SUFFICES ASSUME Alone, TypeOK, Aligned, LatestHeld, Ready, AllCounted, [Next]_vars,
                    NEW i \in Slots, ~Emptying(i)'
             PROVE  bucket'[i] = IF start'[i] = Null THEN 0 ELSE done'[start'[i]]
  BY DEF AllCounted
<1> USE DEF Locals, Slot
<1>0. /\ pc \in [Threads -> Labels] /\ time \in [Threads -> Times]
      /\ start \in [Slots -> Windows \cup {Null}] /\ bucket \in [Slots -> Nat]
      /\ done \in [Windows -> Nat]
  BY DEF TypeOK
<1>1. ~Emptying(i) => bucket[i] = IF start[i] = Null THEN 0 ELSE done[start[i]]
  BY DEF AllCounted
<1>2. CASE UNCHANGED <<start, bucket, done>> /\ (Emptying(i) => Emptying(i)')
  BY <1>1, <1>2
<1>3. ASSUME NEW t \in Threads, Begin(t) \/ Step(t)
      PROVE  bucket'[i] = IF start'[i] = Null THEN 0 ELSE done'[start'[i]]
  <2>0. /\ \A u \in Threads : u = t
        /\ Idx(t) \in Slots /\ Wanted(t) \in Windows /\ Wanted(t) \in Nat
        /\ Wanted(t) # Null /\ TimeIdx(Wanted(t)) = Idx(t)
        /\ start[i] # Null => TimeIdx(start[i]) = i
    BY Asked DEF Alone, Null, Aligned
  <2>1. /\ pc[t] \notin {"older", "gotFresh"}
        /\ pc[t] \in {"resetValue", "gotSlot"} => start[Idx(t)] = Wanted(t)
        /\ pc[t] = "resetValue" => done[Wanted(t)] = 0
        /\ Emptying(i) <=> pc[t] = "resetValue" /\ Idx(t) = i
    BY <2>0 DEF Ready, Emptying
  <2>2. start[Idx(t)] = Null => done[Wanted(t)] = 0
    BY <2>0, NotYet DEF Null
  <2>3. CASE CompareAndSet(t)
    <3>1. ~Emptying(i) /\ bucket' = bucket /\ done' = done
      BY <2>1, <2>3 DEF CompareAndSet, Goto
    <3> HIDE DEF Idx, Wanted
    <3> QED
      BY <1>0, <1>1, <2>0, <2>2, <2>3, <3>1 DEF CompareAndSet
  <2>4. CASE ResetStart(t)
    <3>1. ~Emptying(i) /\ bucket' = bucket /\ done' = done
      BY <2>1, <2>4 DEF ResetStart, Goto
    <3>2. Idx(t) # i
      BY <1>0, <2>4 DEF ResetStart, Goto, Emptying, Idx
    <3>3. start'[i] = start[i]
      BY <1>0, <2>4, <3>2 DEF ResetStart
    <3> QED
      BY <1>1, <3>1, <3>3
  <2>5. CASE ResetValue(t)
    <3>1. /\ pc[t] = "resetValue" /\ start' = start /\ done' = done
          /\ bucket' = [bucket EXCEPT ![Idx(t)] = 0]
      BY <2>5 DEF ResetValue, Goto
    <3> HIDE DEF Idx, Wanted
    <3> QED
      BY <1>0, <1>1, <2>0, <2>1, <3>1
  <2>6. CASE AddToSlot(t)
    <3>1. /\ pc[t] = "gotSlot" /\ start' = start
          /\ bucket' = [bucket EXCEPT ![Idx(t)] = @ + 1]
          /\ done' = [done EXCEPT ![Wanted(t)] = @ + 1]
      BY <2>6 DEF AddToSlot, Leave, Goto
    <3> HIDE DEF Idx, Wanted
    <3>2. CASE Idx(t) = i
      BY <1>0, <1>1, <2>0, <2>1, <3>1, <3>2
    <3>3. CASE Idx(t) # i
      <4>1. start[i] # Wanted(t)
        BY <2>0, <3>3
      <4> QED
        BY <1>0, <1>1, <2>0, <2>1, <3>1, <3>3, <4>1
    <3> QED
      BY <3>2, <3>3
  <2>7. CASE AddToFresh(t)
    BY <2>1, <2>7 DEF AddToFresh, Leave, Goto
  <2>8. CASE \/ Begin(t) \/ GetSlot(t) \/ CompareNewer(t) \/ CompareOlder(t) \/ TryLock(t)
             \/ Unlock(t) \/ BeginValues(t) \/ Scan(t) \/ EndScan(t) \/ Accumulate(t)
             \/ EndTotal(t) \/ Return(t)
    <3>1. pc[t] # "resetValue" /\ UNCHANGED <<start, bucket, done>>
      BY <2>8 DEF Begin, GetSlot, CompareNewer, CompareOlder, TryLock, Unlock, BeginValues,
         Scan, EndScan, Accumulate, EndTotal, Return, Goto, Leave
    <3> QED
      BY <1>2, <2>1, <3>1
  <2> QED
    BY <1>3, <2>3, <2>4, <2>5, <2>6, <2>7, <2>8 DEF Step, CurrentWindow
<1>4. CASE Tick \/ UNCHANGED vars
  BY <1>2, <1>4 DEF Tick, vars, Emptying, Idx
<1> QED
  BY <1>3, <1>4 DEF Next

(* values() picks the live slots, and the sum of their counters is taken one by one. *)
LEMMA SummingStep ==
  Alone /\ TypeOK /\ Summing /\ [Next]_vars => Summing'
<1> SUFFICES ASSUME Alone, TypeOK, Summing, [Next]_vars, NEW t \in Threads
             PROVE  /\ pc'[t] = "scan" =>
                         picked'[t] = {i \in Live(time[t])' : i < next'[t]} /\ total'[t] = 0
                    /\ pc'[t] = "total" =>
                         /\ picked'[t] \subseteq Live(time[t])'
                         /\ total'[t] + SumFunctionOnSet(bucket', picked'[t]) =
                              SumFunctionOnSet(bucket', Live(time[t])')
                    /\ pc'[t] = "answer" =>
                         total'[t] = SumFunctionOnSet(bucket', Live(time[t])')
  BY DEF Summing
<1> USE DEF Locals, Slot
<1>0. /\ pc \in [Threads -> Labels] /\ next \in [Threads -> 0 .. SampleCount]
      /\ picked \in [Threads -> SUBSET Slots] /\ total \in [Threads -> Nat]
      /\ time \in [Threads -> Times] /\ SampleCount \in Nat
      /\ \A i \in Slots : bucket[i] \in Nat
      /\ \A u \in Threads : u = t
  BY LeapArrayAssumption DEF TypeOK, Alone
<1>1. PICK live : live = Live(time[t])
  OBVIOUS
<1>2. /\ pc[t] = "scan" => picked[t] = {i \in live : i < next[t]} /\ total[t] = 0
      /\ pc[t] = "total" =>
           /\ picked[t] \subseteq live
           /\ total[t] + SumFunctionOnSet(bucket, picked[t]) = SumFunctionOnSet(bucket, live)
      /\ pc[t] = "answer" => total[t] = SumFunctionOnSet(bucket, live)
  BY <1>1 DEF Summing
<1>3. live \subseteq Slots /\ IsFiniteSet(live) /\ SumFunctionOnSet(bucket, live) \in Nat
  <2>1. IsFiniteSet(Slots)
    BY <1>0, FS_Interval DEF Slots
  <2>2. live \subseteq Slots
    BY <1>1 DEF Live
  <2>3. IsFiniteSet(live) /\ \A i \in live : bucket[i] \in Nat
    BY <1>0, <2>1, <2>2, FS_Subset
  <2> QED
    BY <2>2, <2>3, SumNat
<1>4. ASSUME UNCHANGED <<start, time>> PROVE Live(time[t])' = live
  BY <1>1, <1>4 DEF Live
<1>5. CASE Tick \/ UNCHANGED vars
  <2>1. UNCHANGED <<start, time, bucket, pc, next, picked, total>>
    BY <1>5 DEF Tick, vars
  <2> QED
    BY <1>2, <1>4, <2>1
<1>6. CASE Begin(t) \/ CurrentWindow(t) \/ AddToSlot(t) \/ AddToFresh(t) \/ Return(t)
  <2>1. pc'[t] \notin {"scan", "total", "answer"}
    BY <1>0, <1>6 DEF Begin, CurrentWindow, GetSlot, CompareAndSet, CompareNewer,
       CompareOlder, TryLock, ResetStart, ResetValue, Unlock, AddToSlot, AddToFresh, Return,
       Goto, Leave
  <2> QED
    BY <2>1
<1>7. CASE BeginValues(t)
  <2>1. pc'[t] = "scan" /\ picked'[t] = {} /\ next'[t] = 0 /\ total'[t] = 0
    BY <1>0, <1>7 DEF BeginValues
  <2>2. \A i \in Live(time[t])' : ~(i < 0)
    BY DEF Live, Slots
  <2> QED
    BY <2>1, <2>2
<1>8. CASE Scan(t)
  <2>1. /\ pc[t] = "scan" /\ pc'[t] = "scan" /\ next[t] < SampleCount
        /\ next'[t] = next[t] + 1 /\ total' = total
        /\ UNCHANGED <<start, time>>
        /\ picked'[t] = picked[t] \cup (IF next[t] \in live THEN {next[t]} ELSE {})
    <3>1. next[t] \in Slots /\ time[t] \in Int
      BY <1>0, <1>8 DEF Scan, Slots, Times
    <3>2. next[t] \in live <=> ~(start[next[t]] = Null \/ IsWindowDeprecated(time[t], next[t]))
      <4>1. start[next[t]] \in Int /\ Interval \in Int
        BY <3>1, Asked, LeapArrayAssumption DEF Interval
      <4> QED
        BY <1>1, <3>1, <4>1 DEF Live, IsWindowDeprecated
    <3> QED
      BY <1>0, <1>8, <3>2 DEF Scan, Goto
  <2>2. picked'[t] = {i \in live : i < next[t] + 1}
    <3>1. next[t] \in Nat /\ \A i \in live : i \in Nat
      BY <1>0, <1>3 DEF Slots
    <3>2. \A i \in live : i < next[t] + 1 <=> i < next[t] \/ i = next[t]
      BY <3>1
    <3> QED
      BY <1>2, <2>1, <3>2
  <2> QED
    BY <1>2, <1>4, <2>1, <2>2
<1>9. CASE EndScan(t)
  <2>1. /\ pc[t] = "scan" /\ pc'[t] = "total" /\ next[t] = SampleCount
        /\ UNCHANGED <<start, time, bucket, picked, total>>
    BY <1>0, <1>9 DEF EndScan, Goto
  <2>2. \A i \in live : i < SampleCount
    BY <1>0, <1>3 DEF Slots
  <2>3. picked[t] = live /\ total[t] = 0
    BY <1>2, <2>1, <2>2
  <2> QED
    BY <1>3, <1>4, <2>1, <2>3
<1>10. CASE Accumulate(t)
  <2>1. PICK i \in picked[t] :
               /\ pc[t] = "total" /\ pc'[t] = "total"
               /\ picked'[t] = picked[t] \ {i} /\ total'[t] = total[t] + bucket[i]
               /\ UNCHANGED <<start, time, bucket>>
    BY <1>0, <1>10 DEF Accumulate, Goto
  <2>2. PICK left : left = picked[t]
    OBVIOUS
  <2>3. left \subseteq live /\ IsFiniteSet(left) /\ \A j \in left : bucket[j] \in Nat
    BY <1>0, <1>2, <1>3, <2>1, <2>2, FS_Subset
  <2>4. SumFunctionOnSet(bucket, left) = bucket[i] + SumFunctionOnSet(bucket, left \ {i})
    BY <2>1, <2>2, <2>3, SumApart
  <2>5. SumFunctionOnSet(bucket, left \ {i}) \in Nat
    <3>1. PICK rest : rest = left \ {i}
      OBVIOUS
    <3>2. IsFiniteSet(rest) /\ \A j \in rest : bucket[j] \in Nat
      BY <2>3, <3>1, FS_Subset
    <3> QED
      BY <3>1, <3>2, SumNat
  <2>6. total[t] \in Nat /\ bucket[i] \in Nat
    BY <1>0, <2>1
  <2>7. total'[t] + SumFunctionOnSet(bucket, left \ {i}) = SumFunctionOnSet(bucket, live)
    BY <1>2, <2>1, <2>2, <2>4, <2>5, <2>6
  <2> QED
    BY <1>4, <2>1, <2>2, <2>3, <2>7
<1>11. CASE EndTotal(t)
  <2>1. /\ pc[t] = "total" /\ pc'[t] = "answer" /\ picked[t] = {}
        /\ UNCHANGED <<start, time, bucket, total>>
    BY <1>0, <1>11 DEF EndTotal, Goto
  <2>2. SumFunctionOnSet(bucket, picked[t]) = 0
    BY <2>1, FS_EmptySet, SumEquation
  <2>3. total[t] = SumFunctionOnSet(bucket, live)
    BY <1>0, <1>2, <2>1, <2>2
  <2> QED
    BY <1>4, <2>1, <2>3
<1> QED
  BY <1>0, <1>5, <1>6, <1>7, <1>8, <1>9, <1>10, <1>11 DEF Next, Step

AloneInv ==
  TypeOK /\ Aligned /\ Timely /\ Punctual /\ Ready /\ LatestHeld /\ AllCounted /\ Summing

(* The invariant behind the exact counter, for any delay of its one thread. *)
LEMMA AloneInvInvariant == Alone => (Spec => []AloneInv)
<1> SUFFICES ASSUME Alone PROVE Spec => []AloneInv
  OBVIOUS
<1>1. Init => AloneInv
  <2> SUFFICES ASSUME Init PROVE AloneInv
    OBVIOUS
  <2>1. TypeOK
    BY TypeInit
  <2>2. Aligned /\ Timely /\ Punctual /\ Ready /\ AllCounted /\ Summing
    BY LeapArrayAssumption DEF Init, Aligned, Timely, Punctual, Ready, AllCounted, Summing,
       Null
  <2>3. LatestHeld
    BY DEF Init, LatestHeld
  <2> QED
    BY <2>1, <2>2, <2>3 DEF AloneInv
<1>2. AloneInv /\ [Next]_vars => AloneInv'
  <2> SUFFICES ASSUME AloneInv, [Next]_vars PROVE AloneInv'
    OBVIOUS
  <2>1. TypeOK' /\ Aligned' /\ Timely'
    BY TypeStep, AlignedStep, TimelyStep DEF AloneInv, Alone
  <2>2. Punctual' /\ Ready' /\ LatestHeld'
    BY PunctualStep, ReadyStep, LatestStep DEF AloneInv
  <2>3. AllCounted' /\ Summing'
    BY CountedStep, SummingStep DEF AloneInv
  <2> QED
    BY <2>1, <2>2, <2>3 DEF AloneInv
<1> QED
  BY <1>1, <1>2, PTL DEF Spec

(* Since adds up what was recorded for the windows from its argument on. *)
LEMMA SinceIsSum ==
  ASSUME NEW limit
  PROVE  Counter!Since(limit) = SumFunctionOnSet(done, {w \in Windows : w >= limit})
<1>1. ASSUME NEW f, NEW S
      PROVE  Counter!SumFunctionOnSet(f, S) = SumFunctionOnSet(f, S)
  BY DEF Counter!SumFunctionOnSet, Counter!FoldFunctionOnSet, Counter!MapThenFoldSet,
     SumFunctionOnSet, FoldFunctionOnSet, MapThenFoldSet
<1> QED
  BY <1>1 DEF Counter!Since

(* With nobody emptying a slot, the counters of the live slots add up to the events of the
   windows that start at most Interval ago, the one exactly Interval old counting if a slot
   still holds it. *)
LEMMA LiveSum ==
  ASSUME TypeOK, Aligned, LatestHeld, AllCounted, \A i \in Slots : ~Emptying(i),
         NEW at \in Nat, \A i \in Slots : start[i] <= at
  PROVE  SumFunctionOnSet(bucket, Live(at)) \in
           {Counter!Since(at - Interval), Counter!Since(at - Interval + 1)}
<1>1. PICK live, held, all, recent :
             /\ live = Live(at) /\ held = {start[i] : i \in live}
             /\ all = {w \in Windows : w >= at - Interval}
             /\ recent = {w \in Windows : w >= at - Interval + 1}
  OBVIOUS
<1>2. /\ Interval \in Nat /\ at \in Nat
      /\ \A i \in Slots : start[i] \in Windows \cup {Null}
      /\ done \in [Windows -> Nat]
  <2>1. Interval \in Nat
    BY LeapArrayAssumption, Z3 DEF Interval
  <2> QED
    BY <2>1 DEF TypeOK
<1>3. IsFiniteSet(live) /\ live \subseteq Slots
  <2>1. IsFiniteSet(Slots)
    BY LeapArrayAssumption, FS_Interval DEF Slots
  <2>2. live \subseteq Slots
    BY <1>1 DEF Live
  <2> QED
    BY <2>1, <2>2, FS_Subset
<1>4. /\ IsFiniteSet(all) /\ all \subseteq Windows
      /\ IsFiniteSet(recent) /\ recent \subseteq Windows
  <2>1. all \subseteq Windows /\ recent \subseteq Windows
    BY <1>1
  <2> QED
    BY <2>1, WindowsFinite, FS_Subset
<1>5. held \subseteq all /\ IsFiniteSet(held)
  <2>1. ASSUME NEW i \in live PROVE start[i] \in Windows /\ start[i] >= at - Interval
    <3>1. start[i] \in Windows /\ at - start[i] <= Interval
      BY <1>1, <1>2, <1>3 DEF Live
    <3>2. start[i] \in Nat
      BY <3>1, WindowsAreNat
    <3> QED
      BY <1>2, <3>1, <3>2
  <2>2. held \subseteq all
    BY <1>1, <2>1
  <2> QED
    BY <1>4, <2>2, FS_Subset
<1>6. SumFunctionOnSet(bucket, live) = SumFunctionOnSet(done, held)
  <2>1. \A i \in live : bucket[i] \in Nat /\ done[start[i]] = bucket[i]
    BY <1>1, <1>3 DEF AllCounted, TypeOK, Live
  <2>2. \A i, j \in live : start[i] = start[j] => i = j
    BY <1>1, <1>3 DEF Aligned, Live
  <2> QED
    BY <1>1, <1>3, <1>5, <2>1, <2>2, SumMoved
<1>7. ASSUME NEW w \in recent, w \notin held PROVE done[w] = 0
  <2> SUFFICES ASSUME done[w] > 0 PROVE FALSE
    <3>1. w \in Windows
      BY <1>1
    <3>2. done[w] \in Nat
      BY <1>2, <3>1
    <3> QED
      BY <3>2
  <2>1. w \in Windows /\ w >= at - Interval + 1
    BY <1>1
  <2>2. w \in Nat /\ w % WindowLength = 0 /\ TimeIdx(w) \in Slots
    BY <2>1, EveryWindow
  <2>3. PICK i, s : i = TimeIdx(w) /\ s = start[i]
    OBVIOUS
  <2>4. i \in Slots /\ s >= w /\ s <= at /\ s \in Windows \cup {Null}
    BY <1>2, <2>1, <2>2, <2>3 DEF LatestHeld
  <2>5. s # Null /\ s \in Nat
    <3>1. s # Null
      BY <2>2, <2>4 DEF Null
    <3> QED
      BY <2>4, <3>1, WindowsAreNat
  <2>6. s % WindowLength = 0 /\ TimeIdx(s) = TimeIdx(w)
    BY <2>3, <2>4, <2>5 DEF Aligned
  <2>7. s < w + Interval
    BY <1>2, <2>1, <2>2, <2>4, <2>5
  <2>8. s = w
    <3>1. s <= w
      BY <2>2, <2>5, <2>6, <2>7, SameSlot
    <3> QED
      BY <2>2, <2>4, <2>5, <3>1
  <2>9. i \in live
    <3>1. at - s <= Interval
      BY <1>2, <2>1, <2>2, <2>8
    <3> QED
      BY <1>1, <2>3, <2>4, <2>5, <3>1 DEF Live
  <2> QED
    BY <1>1, <1>7, <2>3, <2>8, <2>9
<1>8. CASE at - Interval \in held
  <2>1. ASSUME NEW w \in all \ held PROVE w \in recent
    <3>1. w \in Windows /\ w >= at - Interval /\ w # at - Interval
      BY <1>1, <1>8
    <3>2. w >= at - Interval + 1
      BY <1>2, <3>1, WindowsAreNat
    <3> QED
      BY <1>1, <3>1, <3>2
  <2>2. (\A w \in all : done[w] \in Nat) /\ \A w \in all \ held : done[w] = 0
    BY <1>2, <1>4, <1>7, <2>1
  <2>3. SumFunctionOnSet(done, all) = SumFunctionOnSet(done, held)
    BY <1>4, <1>5, <2>2, SumWithout
  <2> QED
    BY <1>1, <1>6, <2>3, SinceIsSum
<1>9. CASE at - Interval \notin held
  <2>1. held \subseteq recent
    <3> SUFFICES ASSUME NEW w \in held PROVE w \in recent
      OBVIOUS
    <3>1. w \in Windows /\ w >= at - Interval /\ w # at - Interval
      BY <1>1, <1>5, <1>9
    <3>2. w >= at - Interval + 1
      BY <1>2, <3>1, WindowsAreNat
    <3> QED
      BY <1>1, <3>1, <3>2
  <2>2. (\A w \in recent : done[w] \in Nat) /\ \A w \in recent \ held : done[w] = 0
    BY <1>2, <1>4, <1>7
  <2>3. SumFunctionOnSet(done, recent) = SumFunctionOnSet(done, held)
    BY <1>4, <2>1, <2>2, SumWithout
  <2> QED
    BY <1>1, <1>6, <2>3, SinceIsSum
<1> QED
  BY <1>8, <1>9

(* The total that is being returned is that of the one thread. *)
LEMMA TheAnswer ==
  ASSUME Alone, NEW t \in Threads, NEW at, NEW sum
  PROVE  (IF \E u \in Threads : at[u] = "answer"
            THEN sum[CHOOSE u \in Threads : at[u] = "answer"] ELSE -1) =
           IF at[t] = "answer" THEN sum[t] ELSE -1
<1>1. \A u \in Threads : u = t
  BY DEF Alone
<1>2. at[t] = "answer" => (CHOOSE u \in Threads : at[u] = "answer") = t
  BY <1>1
<1> QED
  BY <1>1, <1>2

(* Each step of LeapArray is one of SlidingCount, or one it does not see. *)
LEMMA CounterStep ==
  ASSUME Alone, AloneInv, [Next]_vars
  PROVE  [Counter!Next]_<<now, done, Answered>>
<1> USE DEF Locals, Slot
<1>0. /\ pc \in [Threads -> Labels] /\ total \in [Threads -> Nat]
      /\ time \in [Threads -> Times] /\ now \in Times
  BY DEF AloneInv, TypeOK
<1>1. CASE UNCHANGED vars
  BY <1>1 DEF vars, Answered
<1>2. CASE Tick
  <2>1. PICK d \in ClockSteps : now + d \in Times /\ now' = now + d
    BY <1>2 DEF Tick
  <2>2. d \in Nat /\ now \in Nat
    BY <1>0 DEF Alone, Times
  <2>3. done' = done /\ Answered' = Answered
    BY <1>2 DEF Tick, Answered
  <2>4. CASE d = 0
    BY <2>1, <2>2, <2>3, <2>4
  <2>5. CASE d > 0
    <3>1. now' \in Times /\ now' > now
      BY <2>1, <2>2, <2>5
    <3> QED
      BY <2>3, <3>1 DEF Counter!Next, Counter!Tick
  <2> QED
    BY <2>2, <2>4, <2>5
<1>3. ASSUME NEW t \in Threads, Begin(t) \/ Step(t)
      PROVE  [Counter!Next]_<<now, done, Answered>>
  <2>1. Answered = IF pc[t] = "answer" THEN total[t] ELSE -1
    BY TheAnswer DEF Answered
  <2>2. Answered' = IF pc'[t] = "answer" THEN total'[t] ELSE -1
    BY TheAnswer DEF Answered
  <2> HIDE DEF Answered
  <2>3. CASE EndTotal(t)
    <3>1. /\ pc[t] = "total" /\ pc'[t] = "answer" /\ picked[t] = {} /\ total' = total
          /\ UNCHANGED <<now, done>>
      BY <1>0, <2>3 DEF EndTotal, Goto
    <3>2. PICK asked \in Times : asked = time[t]
      BY <1>0
    <3>3. /\ asked \in Nat /\ asked <= now /\ now - asked <= MaxLag
          /\ \A i \in Slots : start[i] <= asked
      BY <1>0, <3>1, <3>2 DEF AloneInv, Timely, Punctual, Times
    <3>4. total[t] = SumFunctionOnSet(bucket, Live(asked))
      <4>1. total[t] + SumFunctionOnSet(bucket, picked[t]) = SumFunctionOnSet(bucket, Live(asked))
        BY <3>1, <3>2 DEF AloneInv, Summing
      <4>2. SumFunctionOnSet(bucket, picked[t]) = 0
        BY <3>1, FS_EmptySet, SumEquation
      <4> QED
        BY <1>0, <4>1, <4>2
    <3>5. \A i \in Slots : ~Emptying(i)
      BY <3>1 DEF Emptying, Alone
    <3>6. total[t] \in {Counter!Since(asked - Interval), Counter!Since(asked - Interval + 1)}
      BY <3>3, <3>4, <3>5, LiveSum DEF AloneInv
    <3>7. Answered = -1 /\ Answered' = total[t]
      BY <2>1, <2>2, <3>1
    <3>8. Counter!Answer
      BY <3>1, <3>3, <3>6, <3>7 DEF Counter!Answer, Counter!NoAnswer
    <3> QED
      BY <3>8 DEF Counter!Next
  <2>4. CASE Return(t)
    <3>1. pc[t] = "answer" /\ pc'[t] = "idle" /\ UNCHANGED <<now, done>>
      BY <1>0, <2>4 DEF Return, Leave, Goto
    <3>2. Answered \in Nat /\ Answered' = -1
      BY <1>0, <2>1, <2>2, <3>1
    <3> QED
      BY <3>1, <3>2 DEF Counter!Next, Counter!Return, Counter!NoAnswer
  <2>5. CASE AddToSlot(t) \/ AddToFresh(t)
    <3>1. /\ pc[t] \in {"gotSlot", "gotFresh"} /\ pc'[t] = "idle" /\ now' = now
          /\ done' = [done EXCEPT ![Wanted(t)] = @ + 1]
      BY <1>0, <2>5 DEF AddToSlot, AddToFresh, Leave, Goto
    <3>2. PICK w \in Windows : w = Wanted(t)
      BY Asked DEF AloneInv
    <3>3. w <= now
      <4>1. time[t] <= now
        BY <3>1 DEF AloneInv, Timely
      <4>2. w <= time[t] /\ w \in Nat /\ time[t] \in Nat /\ now \in Nat
        BY <1>0, <3>2, Asked DEF AloneInv, Times
      <4> QED
        BY <4>1, <4>2
    <3>4. Answered = -1 /\ Answered' = -1
      BY <2>1, <2>2, <3>1
    <3>5. Counter!Record
      BY <3>1, <3>2, <3>3, <3>4 DEF Counter!Record
    <3> QED
      BY <3>5 DEF Counter!Next
  <2>6. CASE Begin(t) \/ CurrentWindow(t) \/ BeginValues(t) \/ Scan(t) \/ EndScan(t)
             \/ Accumulate(t)
    <3>1. pc[t] # "answer" /\ pc'[t] # "answer" /\ UNCHANGED <<now, done>>
      BY <1>0, <2>6 DEF Begin, CurrentWindow, GetSlot, CompareAndSet, CompareNewer,
         CompareOlder, TryLock, ResetStart, ResetValue, Unlock, BeginValues, Scan, EndScan,
         Accumulate, Goto
    <3> QED
      BY <2>1, <2>2, <3>1
  <2> QED
    BY <1>3, <2>3, <2>4, <2>5, <2>6 DEF Step
<1> QED
  BY <1>1, <1>2, <1>3 DEF Next

(* One caller at a time and a clock that does not go back: whatever the delays, the ring of
   slots never loses an event that a total should count, and never counts one it should
   not. *)
THEOREM ExactCounter == Alone => (Spec => ImplementsSlidingCount)
<1> SUFFICES ASSUME Alone PROVE Spec => ImplementsSlidingCount
  OBVIOUS
<1>1. Init => Counter!Init
  BY DEF Init, Counter!Init, Counter!NoAnswer, Answered
<1>2. AloneInv /\ [Next]_vars => [Counter!Next]_<<now, done, Answered>>
  BY CounterStep
<1> QED
  BY <1>1, <1>2, AloneInvInvariant, PTL DEF Spec, ImplementsSlidingCount, Counter!Spec

================================================================================
