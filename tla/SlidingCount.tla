------------------------------ MODULE SlidingCount ------------------------------
(***************************************************************************)
(* What a sliding-window counter promises one caller: events are filed     *)
(* under the window of the clock value they were recorded with, and a      *)
(* total adds up the windows that start at most Interval before the clock  *)
(* value of the query, the one exactly Interval old being optional.        *)
(* LeapArray with a single thread implements it.                           *)
(***************************************************************************)
EXTENDS Integers, Functions

CONSTANTS
  Interval,  (* what the counter looks back over                           *)
  Windows,   (* the starts of the windows                                  *)
  Times,     (* the values of the clock                                    *)
  MaxLag     (* how far behind the clock an operation may be               *)

VARIABLES
  clock,     (* the wall clock                                             *)
  recorded,  (* events per window                                          *)
  answer     (* the total being returned, or NoAnswer                      *)

NoAnswer == -1

Init ==
  /\ clock = 0
  /\ recorded = [w \in Windows |-> 0]
  /\ answer = NoAnswer

Tick ==
  /\ clock' \in Times
  /\ clock' > clock
  /\ UNCHANGED <<recorded, answer>>

Record ==
  \E w \in Windows :
    /\ w <= clock
    /\ recorded' = [recorded EXCEPT ![w] = @ + 1]
    /\ UNCHANGED <<clock, answer>>

Since(limit) == SumFunctionOnSet(recorded, {w \in Windows : w >= limit})

Answer ==
  \E asked \in Times :
    /\ asked <= clock /\ clock - asked <= MaxLag
    /\ answer = NoAnswer
    /\ answer' \in {Since(asked - Interval), Since(asked - Interval + 1)}
    /\ UNCHANGED <<clock, recorded>>

Return ==
  /\ answer # NoAnswer
  /\ answer' = NoAnswer
  /\ UNCHANGED <<clock, recorded>>

Next == Tick \/ Record \/ Answer \/ Return

Spec == Init /\ [][Next]_<<clock, recorded, answer>>

================================================================================
