------------------------------ MODULE MCCollector ------------------------------
(* Collector for TLC: threads of a kind are interchangeable. *)
EXTENDS Collector, TLC

ThreadSymmetry == Permutations(Requesters) \cup Permutations(Uploaders)

================================================================================
