------------------------------ MODULE MCLeapArray ------------------------------
(* LeapArray for TLC: clocks and symmetry. *)
EXTENDS LeapArray, TLC

(* The clock as the JVM sees it, and with a wall clock that is set back. *)
Forward == {0, 1}
AnyClock == {-1, 0, 1}

ThreadSymmetry == Permutations(Threads)

================================================================================
