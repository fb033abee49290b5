---------------------------- MODULE TimeSeriesProofs ----------------------------
(***************************************************************************)
(* What collectXxx does to a list, for every MAX_SIZE and every kind of    *)
(* point: the lemmas that the proofs about the lists of the monitor share. *)
(***************************************************************************)
EXTENDS TimeSeries, TLAPS

(* Trimming drops nothing, or the first point of a list that has outgrown MAX_SIZE. *)
LEMMA TrimShape ==
  ASSUME NEW S, NEW list \in Seq(S)
  PROVE  \E d \in {0, 1} :
           /\ Trim(list) \in Seq(S)
           /\ Len(Trim(list)) = Len(list) - d
           /\ d = 1 <=> Len(list) > MaxSize
           /\ \A i \in 1 .. Len(list) - d : Trim(list)[i] = list[i + d]
<1>0. MaxSize \in Nat \ {0} /\ Len(list) \in Nat
  BY TimeSeriesAssumption
<1>1. CASE Len(list) > MaxSize
  <2>1. list # <<>>
    BY <1>0, <1>1
  <2>2. /\ Tail(list) \in Seq(S) /\ Len(Tail(list)) = Len(list) - 1
        /\ \A i \in 1 .. Len(list) - 1 : Tail(list)[i] = list[i + 1]
    BY <1>0, <2>1
  <2>3. Trim(list) = Tail(list)
    BY <1>1 DEF Trim
  <2> WITNESS 1 \in {0, 1}
  <2> QED
    BY <1>0, <1>1, <2>2, <2>3
<1>2. CASE ~(Len(list) > MaxSize)
  <2> WITNESS 0 \in {0, 1}
  <2> QED
    BY <1>0, <1>2 DEF Trim
<1> QED
  BY <1>1, <1>2

(* Merging makes the point the last one, the n-th, and changes no point before it. *)
MergedAs(list, point, n) ==
  /\ n \in {Len(list), Len(list) + 1} \ {0}
  /\ Len(Merge(list, point)) = n
  /\ Merge(list, point)[n] = point
  /\ \A i \in 1 .. n - 1 : Merge(list, point)[i] = list[i]
  /\ n = Len(list) => list[n].tm = point.tm
  /\ n = Len(list) + 1 /\ n > 1 => list[n - 1].tm # point.tm

(* Merge returns a list of that shape. *)
LEMMA MergeShape ==
  ASSUME NEW S, NEW list \in Seq(S), NEW point \in S
  PROVE  Merge(list, point) \in Seq(S) /\ \E n : MergedAs(list, point, n)
<1>0. Len(list) \in Nat
  OBVIOUS
<1>1. CASE list # <<>> /\ list[Len(list)].tm = point.tm
  <2>1. Merge(list, point) = [list EXCEPT ![Len(list)] = point] /\ Len(list) # 0
    BY <1>1 DEF Merge, EndsWith
  <2>2. MergedAs(list, point, Len(list))
    BY <1>0, <1>1, <2>1 DEF MergedAs
  <2> QED
    BY <1>0, <2>1, <2>2
<1>2. CASE ~(list # <<>> /\ list[Len(list)].tm = point.tm)
  <2>1. Merge(list, point) = Append(list, point)
    BY <1>2 DEF Merge, EndsWith
  <2>2. MergedAs(list, point, Len(list) + 1)
    BY <1>0, <1>2, <2>1 DEF MergedAs
  <2> QED
    BY <2>1, <2>2
<1> QED
  BY <1>1, <1>2

(* The list after collectXxx: its last point, the n-th, is the new one; the others are
   those of the old list, moved by d places when the oldest was dropped. *)
CollectedAs(list, point, d, n) ==
  /\ d \in {0, 1} /\ n \in Nat \ {0}
  /\ Len(Collect(list, point)) = n
  /\ n - 1 + d <= Len(list) /\ Len(list) <= n + d
  /\ Collect(list, point)[n] = point
  /\ \A i \in 1 .. n - 1 : Collect(list, point)[i] = list[i + d]
  /\ n + d = Len(list) => list[n + d].tm = point.tm
  /\ n - 1 + d = Len(list) /\ n > 1 => list[n - 1 + d].tm # point.tm
  /\ d = 1 <=> Len(list) > MaxSize

(* Collect returns a list of that shape. *)
LEMMA CollectShape ==
  ASSUME NEW S, NEW list \in Seq(S), NEW point \in S
  PROVE  Collect(list, point) \in Seq(S) /\ \E d, n : CollectedAs(list, point, d, n)
<1>0. MaxSize \in Nat \ {0} /\ Len(list) \in Nat
  BY TimeSeriesAssumption
<1> DEFINE trimmed == Trim(list)
<1>1. PICK d \in {0, 1} :
        /\ trimmed \in Seq(S)
        /\ Len(trimmed) = Len(list) - d
        /\ d = 1 <=> Len(list) > MaxSize
        /\ \A i \in 1 .. Len(list) - d : trimmed[i] = list[i + d]
  BY TrimShape
<1>2. Collect(list, point) = Merge(trimmed, point)
  BY DEF Collect
<1> HIDE DEF trimmed
<1>3. trimmed \in Seq(S)
  BY <1>1
<1>4. Merge(trimmed, point) \in Seq(S) /\ \E n : MergedAs(trimmed, point, n)
  BY <1>3, MergeShape
<1>5. PICK n : MergedAs(trimmed, point, n)
  BY <1>4
<1>6. n \in {Len(trimmed), Len(trimmed) + 1} \ {0} /\ n \in Nat \ {0}
  BY <1>0, <1>1, <1>5 DEF MergedAs
<1>7. \A i \in 1 .. n - 1 : Collect(list, point)[i] = list[i + d]
  <2> SUFFICES ASSUME NEW i \in 1 .. n - 1 PROVE Collect(list, point)[i] = list[i + d]
    OBVIOUS
  <2>1. i \in 1 .. Len(list) - d
    BY <1>0, <1>1, <1>6
  <2> QED
    BY <1>1, <1>2, <1>5, <2>1 DEF MergedAs
<1>8. n + d = Len(list) => list[n + d].tm = point.tm
  BY <1>0, <1>1, <1>5, <1>6 DEF MergedAs
<1>9. n - 1 + d = Len(list) /\ n > 1 => list[n - 1 + d].tm # point.tm
  <2> SUFFICES ASSUME n - 1 + d = Len(list), n > 1 PROVE list[n - 1 + d].tm # point.tm
    OBVIOUS
  <2>1. n = Len(trimmed) + 1 /\ n - 1 \in 1 .. Len(list) - d
    BY <1>0, <1>1, <1>6
  <2> QED
    BY <1>1, <1>5, <2>1 DEF MergedAs
<1>10. CollectedAs(list, point, d, n)
  BY <1>0, <1>1, <1>2, <1>5, <1>6, <1>7, <1>8, <1>9 DEF CollectedAs, MergedAs
<1> QED
  BY <1>2, <1>4, <1>10

================================================================================
