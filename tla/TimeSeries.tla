------------------------------ MODULE TimeSeries -------------------------------
(***************************************************************************)
(* The lists of MonitorService and BlockchainService.  A list is a         *)
(* sequence of points, each a one-entry map from a timestamp to a value.   *)
(* The seven collectXxx methods of each class are copies of one another on *)
(* a list of their own; Collect is their common body.                      *)
(***************************************************************************)
EXTENDS Integers, Sequences

CONSTANT MaxSize  (* MAX_SIZE *)

ASSUME TimeSeriesAssumption == MaxSize \in Nat \ {0}

(* FAULT: the list may grow by one more; the newest point is removed. *)
TrimLate(list)   == IF Len(list) > MaxSize + 1 THEN Tail(list) ELSE list
TrimNewest(list) == IF Len(list) > MaxSize THEN SubSeq(list, 1, Len(list) - 1) ELSE list

(* remove(0) once the list has outgrown MAX_SIZE. *)
Trim(list) == IF Len(list) > MaxSize THEN Tail(list) ELSE list

(* The list ends with a point of this timestamp. *)
EndsWith(list, tm) == list # <<>> /\ list[Len(list)].tm = tm

(* FAULT: the timestamp is not compared; the first value is kept. *)
MergeAlways(list, point)  == Append(list, point)
MergeKeeps(list, point)   == IF EndsWith(list, point.tm) THEN list ELSE Append(list, point)

(* A point with the timestamp of the last one replaces it; else it is appended. *)
Merge(list, point) ==
  IF EndsWith(list, point.tm)
    THEN [list EXCEPT ![Len(list)] = point]
    ELSE Append(list, point)

Collect(list, point) == Merge(Trim(list), point)

================================================================================
