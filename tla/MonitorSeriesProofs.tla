-------------------------- MODULE MonitorSeriesProofs --------------------------
(* Proofs about the monitoring series, for every MAX_SIZE and every set of values. *)
EXTENDS MonitorSeries, TimeSeriesProofs, TLAPS

--------------------------------------------------------------------------------
(* The list is bounded, sorted, current and complete at once: what is dropped is the
   oldest only because the list is sorted, and it stays sorted because a point that is
   in it was collected no later than the next. *)
IInv == TypeOK /\ Bounded /\ Increasing /\ Current /\ Recent

(* The empty list is all of this, and collecting the next point keeps it. *)
LEMMA SeriesInit == Init => IInv
  BY TimeSeriesAssumption, MonitorSeriesAssumption DEF Init, IInv, TypeOK, Bounded, Increasing, Current, Recent

(* The step: a point no older than any collected before. *)
LEMMA SeriesStep == IInv /\ [Next]_vars => IInv'
<1> SUFFICES ASSUME IInv, Next PROVE IInv'
  BY DEF vars, IInv, TypeOK, Bounded, Increasing, Current, Recent
<1> PICK point \in Point :
           /\ \A tm \in 0 .. MaxTime : newest[tm] # Never => tm <= point.tm
           /\ series' = Collect(series, point)
           /\ newest' = [newest EXCEPT ![point.tm] = point.value]
  BY DEF Next
<1>0. /\ series \in Seq(Point) /\ Len(series) <= MaxSize + 1 /\ MaxSize \in Nat \ {0}
      /\ newest \in [0 .. MaxTime -> Values \cup {Never}] /\ Never \notin Values
      /\ point.tm \in 0 .. MaxTime /\ point.value \in Values
      /\ Len(series) \in Nat
  BY TimeSeriesAssumption, MonitorSeriesAssumption DEF IInv, TypeOK, Bounded, Point
<1>1. \A i \in 1 .. Len(series) :
        /\ series[i].tm \in 0 .. MaxTime /\ series[i].value \in Values
        /\ newest[series[i].tm] = series[i].value
        /\ series[i].tm <= point.tm
  <2> SUFFICES ASSUME NEW i \in 1 .. Len(series)
               PROVE  /\ series[i].tm \in 0 .. MaxTime /\ series[i].value \in Values
                      /\ newest[series[i].tm] = series[i].value
                      /\ series[i].tm <= point.tm
    OBVIOUS
  <2>1. series[i] \in Point
    BY <1>0
  <2>2. series[i].tm \in 0 .. MaxTime /\ series[i].value \in Values
    BY <2>1 DEF Point
  <2>3. newest[series[i].tm] = series[i].value
    BY DEF IInv, Current
  <2>4. newest[series[i].tm] # Never
    BY <1>0, <2>2, <2>3
  <2> QED
    BY <2>2, <2>3, <2>4
<1>2. PICK d \in {0, 1}, n \in Nat \ {0} :
        /\ series' \in Seq(Point)
        /\ Len(series') = n
        /\ n <= MaxSize + 1
        /\ n - 1 + d <= Len(series)
        /\ Len(series) <= n + d
        /\ series'[n] = point
        /\ \A i \in 1 .. n - 1 : series'[i] = series[i + d]
        /\ n + d = Len(series) => series[n + d].tm = point.tm
        /\ n - 1 + d = Len(series) /\ n > 1 => series[n - 1 + d].tm # point.tm
        /\ d = 1 => n >= MaxSize /\ Len(series) = MaxSize + 1
  <2>1. series' \in Seq(Point) /\ \E d, n : CollectedAs(series, point, d, n)
    BY <1>0, CollectShape
  <2>2. PICK d, n : CollectedAs(series, point, d, n)
    BY <2>1
  <2>3. /\ d \in {0, 1} /\ n \in Nat \ {0}
        /\ Len(series') = n
        /\ n - 1 + d <= Len(series) /\ Len(series) <= n + d
        /\ series'[n] = point
        /\ \A i \in 1 .. n - 1 : series'[i] = series[i + d]
        /\ n + d = Len(series) => series[n + d].tm = point.tm
        /\ n - 1 + d = Len(series) /\ n > 1 => series[n - 1 + d].tm # point.tm
        /\ d = 1 <=> Len(series) > MaxSize
    BY <2>2 DEF CollectedAs
  <2>4. n <= MaxSize + 1 /\ (d = 1 => n >= MaxSize /\ Len(series) = MaxSize + 1)
    BY <1>0, <2>3
  <2> QED
    BY <2>1, <2>3, <2>4
<1>3. \A i \in 1 .. n - 1 : series'[i] = series[i + d] /\ i + d \in 1 .. Len(series)
  BY <1>0, <1>2
<1>4. TypeOK'
  BY <1>0, <1>2 DEF TypeOK
<1>5. Bounded'
  BY <1>2 DEF Bounded
<1>6. \A i \in 1 .. n - 1 : series'[i].tm < point.tm
  <2> SUFFICES ASSUME NEW i \in 1 .. n - 1 PROVE series[i + d].tm < point.tm
    BY <1>3
  <2>1. i + d \in 1 .. Len(series) /\ i + d <= n - 1 + d
    BY <1>0, <1>2, <1>3
  <2>2. CASE n + d = Len(series)
    <3>1. n + d \in 1 .. Len(series) /\ i + d < n + d
      BY <1>2, <2>2
    <3>2. series[i + d].tm < series[n + d].tm
      BY <2>1, <3>1 DEF IInv, Increasing
    <3> QED
      BY <1>2, <2>2, <3>2
  <2>3. CASE n - 1 + d = Len(series)
    <3>1. series[n - 1 + d].tm # point.tm /\ n - 1 + d \in 1 .. Len(series)
      BY <1>2, <2>1, <2>3
    <3>2. series[n - 1 + d].tm < point.tm
      BY <1>0, <1>1, <3>1
    <3>3. CASE i = n - 1
      BY <3>2, <3>3
    <3>4. CASE i < n - 1
      <4>1. series[i + d].tm < series[n - 1 + d].tm
        BY <1>2, <2>1, <3>1, <3>4 DEF IInv, Increasing
      <4> QED
        BY <1>0, <1>1, <2>1, <3>1, <3>2, <4>1
    <3> QED
      BY <1>2, <3>3, <3>4
  <2> QED
    BY <1>0, <1>2, <2>2, <2>3
<1>7. Increasing'
  <2> SUFFICES ASSUME NEW i \in 1 .. n, NEW j \in 1 .. n, i < j
               PROVE  series'[i].tm < series'[j].tm
    BY <1>2 DEF Increasing
  <2>1. CASE j = n
    BY <1>2, <1>6, <2>1
  <2>2. CASE j # n
    <3>1. /\ series'[i] = series[i + d] /\ i + d \in 1 .. Len(series)
          /\ series'[j] = series[j + d] /\ j + d \in 1 .. Len(series)
      <4>1. i \in 1 .. n - 1 /\ j \in 1 .. n - 1
        BY <1>2, <2>2
      <4> QED
        BY <1>3, <4>1
    <3> QED
      BY <1>2, <3>1 DEF IInv, Increasing
  <2> QED
    BY <2>1, <2>2
<1>8. Current'
  <2> SUFFICES ASSUME NEW i \in 1 .. n
               PROVE  newest'[series'[i].tm] = series'[i].value
    BY <1>2 DEF Current
  <2>1. CASE i = n
    BY <1>0, <1>2, <2>1
  <2>2. CASE i # n
    <3>1. i \in 1 .. n - 1 /\ series'[i] = series[i + d] /\ i + d \in 1 .. Len(series)
      BY <1>2, <1>3, <2>2
    <3>2. series'[i].tm # point.tm
      BY <1>0, <1>1, <1>6, <3>1
    <3> QED
      BY <1>0, <1>1, <3>1, <3>2
  <2> QED
    BY <2>1, <2>2
<1>9. Recent'
  <2> SUFFICES ASSUME NEW tm \in 0 .. MaxTime, newest'[tm] # Never
               PROVE  \/ \E i \in 1 .. n : series'[i].tm = tm
                      \/ n >= MaxSize /\ tm < series'[1].tm
    BY <1>2 DEF Recent
  <2>1. CASE tm = point.tm
    BY <1>2, <2>1
  <2>2. CASE tm # point.tm
    <3>1. newest[tm] # Never
      BY <1>0, <2>2
    <3>2. CASE \E i \in 1 .. Len(series) : series[i].tm = tm
      <4> PICK i \in 1 .. Len(series) : series[i].tm = tm
        BY <3>2
      <4>1. CASE i - d \in 1 .. n - 1
        BY <1>2, <1>3, <4>1
      <4>2. CASE i = n + d
        BY <1>2, <2>2, <4>2
      <4>3. CASE d = 1 /\ i = 1
        <5>1. n >= MaxSize
          BY <1>2, <4>3
        <5>2. tm < series'[1].tm
          <6>1. CASE n = 1
            BY <1>0, <1>1, <1>2, <2>2, <6>1
          <6>2. CASE n > 1
            <7>1. series'[1] = series[2] /\ 2 \in 1 .. Len(series)
              BY <1>2, <1>3, <4>3, <6>2
            <7> QED
              BY <4>3, <7>1 DEF IInv, Increasing
          <6> QED
            BY <6>1, <6>2
        <5> QED
          BY <5>1, <5>2
      <4> QED
        BY <1>0, <1>2, <4>1, <4>2, <4>3
    <3>3. CASE Len(series) >= MaxSize /\ tm < series[1].tm
      <4>1. 1 \in 1 .. Len(series) /\ series[1].tm <= point.tm /\ series[1].tm \in Nat
        BY <1>0, <1>1, <3>3
      <4>2. n >= MaxSize
        BY <1>0, <1>2, <3>3
      <4>3. CASE n = 1
        BY <1>0, <1>2, <3>3, <4>1, <4>2, <4>3
      <4>4. CASE n > 1
        <5>1. series'[1] = series[1 + d] /\ 1 + d \in 1 .. Len(series)
          BY <1>3, <4>4
        <5>2. series[1].tm <= series[1 + d].tm
          BY <1>0, <1>1, <4>1, <5>1 DEF IInv, Increasing
        <5> QED
          BY <1>0, <1>1, <3>3, <4>1, <4>2, <5>1, <5>2
      <4> QED
        BY <4>3, <4>4
    <3> QED
      BY <3>1, <3>2, <3>3 DEF IInv, Recent
  <2> QED
    BY <2>1, <2>2
<1> QED
  BY <1>4, <1>5, <1>7, <1>8, <1>9 DEF IInv

(* The list of a metric, always. *)
LEMMA SeriesInvariant == Spec => []IInv
  BY SeriesInit, SeriesStep, PTL DEF Spec

(* The list of a metric never grows past MAX_SIZE + 1. *)
THEOREM SeriesBounded == Spec => []Bounded
<1>1. IInv => Bounded
  BY DEF IInv
<1> QED
  BY <1>1, SeriesInvariant, PTL

(* Grafana gets one point per second, in order. *)
THEOREM SeriesIncreases == Spec => []Increasing
<1>1. IInv => Increasing
  BY DEF IInv
<1> QED
  BY <1>1, SeriesInvariant, PTL

(* Every point of the list shows the value collected last for its second. *)
THEOREM SeriesCurrent == Spec => []Current
<1>1. IInv => Current
  BY DEF IInv
<1> QED
  BY <1>1, SeriesInvariant, PTL

(* Only the oldest points are missing from the list. *)
THEOREM SeriesRecent == Spec => []Recent
<1>1. IInv => Recent
  BY DEF IInv
<1> QED
  BY <1>1, SeriesInvariant, PTL

================================================================================
