----------------------------- MODULE MCTaskListener -----------------------------
(* TaskListener for TLC: which keys contain which name. *)
EXTENDS TaskListener

CONSTANTS a, b, p1, p2, p3

(* Names that are apart. *)
ApartMentions == [t \in {a, b} |-> {t} \X {p1, p2, p3}]

================================================================================
