------------------------------ MODULE Subscriptions ------------------------------
(***************************************************************************)
(* What task-listener.js promises: a provider listens to a task from the   *)
(* moment it is added until it is removed, an operation concerns the task  *)
(* and the provider it names and no other, and a round of a task calls     *)
(* exactly those that listen to it.                                        *)
(***************************************************************************)
CONSTANTS
  TaskNames,  (* names of tasks                                            *)
  Providers   (* providers that may answer a round                         *)

VARIABLES
  subscribed,  (* the pairs of a task and a provider that listens to it    *)
  result       (* the last operation: on which task, and who was concerned *)

Init == subscribed = {} /\ result = [op |-> "none", who |-> {}]

Done(op, t, who) == result' = [op |-> op, task |-> t, who |-> who]

Add(t, p) ==
  /\ <<t, p>> \notin subscribed
  /\ subscribed' = subscribed \cup {<<t, p>>}
  /\ Done("add", t, {p})

Remove(t, p) ==
  /\ <<t, p>> \in subscribed
  /\ subscribed' = subscribed \ {<<t, p>>}
  /\ Done("remove", t, {p})

Emit(t) ==
  /\ Done("emit", t, {p \in Providers : <<t, p>> \in subscribed})
  /\ UNCHANGED subscribed

(* The gateway starts anew. *)
Clear == subscribed' = {} /\ result' = [op |-> "none", who |-> {}]

Next ==
  \/ \E t \in TaskNames, p \in Providers : Add(t, p) \/ Remove(t, p)
  \/ \E t \in TaskNames : Emit(t)
  \/ Clear

Spec == Init /\ [][Next]_<<subscribed, result>>

================================================================================
