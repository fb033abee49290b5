----------------------------- MODULE MonitorSeries -----------------------------
(***************************************************************************)
(* One list of MonitorService that is fed points in the order of time, as  *)
(* a caller does whose timestamps do not go back.                          *)
(***************************************************************************)
EXTENDS TimeSeries

CONSTANTS
  MaxTime,   (* bound: timestamps are in 0..MaxTime                        *)
  Values,    (* the values that are collected                              *)
  Never      (* stands for the value of a timestamp never collected        *)

ASSUME MonitorSeriesAssumption ==
  /\ MaxTime \in Nat
  /\ Never \notin Values

Point == [tm : 0 .. MaxTime, value : Values]

--------------------------------------------------------------------------------
VARIABLES
  series,    (* the list                                                   *)
  newest     (* history: the value last collected for each timestamp       *)

vars == <<series, newest>>

TypeOK ==
  /\ series \in Seq(Point)
  /\ newest \in [0 .. MaxTime -> Values \cup {Never}]

Init ==
  /\ series = <<>>
  /\ newest = [tm \in 0 .. MaxTime |-> Never]

Next ==
  \E point \in Point :
    /\ \A tm \in 0 .. MaxTime : newest[tm] # Never => tm <= point.tm
    /\ series' = Collect(series, point)
    /\ newest' = [newest EXCEPT ![point.tm] = point.value]

Spec == Init /\ [][Next]_vars

--------------------------------------------------------------------------------
(* The list never holds more than MAX_SIZE + 1 points (it is trimmed before the
   next point is added, not after). *)
Bounded == Len(series) <= MaxSize + 1

(* Timestamps strictly increase: Grafana gets one point per second, in order. *)
Increasing ==
  \A i, j \in 1 .. Len(series) : i < j => series[i].tm < series[j].tm

(* Every point shows the value collected last for its second. *)
Current ==
  \A i \in 1 .. Len(series) : newest[series[i].tm] = series[i].value

(* Only the oldest points are dropped: what was collected after the first point
   of the list is in the list, and nothing is dropped while MAX_SIZE fit. *)
Recent ==
  \A tm \in 0 .. MaxTime :
    newest[tm] # Never =>
      \/ \E i \in 1 .. Len(series) : series[i].tm = tm
      \/ Len(series) >= MaxSize /\ tm < series[1].tm

================================================================================
