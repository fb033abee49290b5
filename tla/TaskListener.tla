------------------------------ MODULE TaskListener ------------------------------
(***************************************************************************)
(* task-listener.js and strategy.js: who listens to the rounds of a task.  *)
(*                                                                         *)
(* An EventEmitter keeps a list of listeners per task, and knows them only *)
(* by their function; listenerMap keeps the position of a provider's       *)
(* listener in that list.  Its keys are texts, "task~provider", and a      *)
(* removal moves up the positions of all keys that contain the task's name *)
(* anywhere.  Every operation runs to its end without waiting.             *)
(***************************************************************************)
EXTENDS Naturals, Sequences

Lists == INSTANCE SequencesExt

CONSTANTS
  TaskNames,  (* names of tasks                                            *)
  Providers,  (* providers                                                 *)
  Mentions    (* [TaskNames -> set of keys whose text contains the name]   *)

Key == TaskNames \X Providers

ASSUME TaskListenerAssumption ==
  /\ Mentions \in [TaskNames -> SUBSET Key]
  /\ \A t \in TaskNames, p \in Providers : <<t, p>> \in Mentions[t]

VARIABLES
  responseStrategyMap,  (* providers that have a strategy file             *)
  listeners,            (* the emitter's list per task, by provider        *)
  listenerMap,          (* position of a key's listener, 0 if it has none  *)
  result                (* the last operation, and whom it concerned       *)

vars == <<responseStrategyMap, listeners, listenerMap, result>>

--------------------------------------------------------------------------------
TypeOK ==
  /\ responseStrategyMap \subseteq Providers
  /\ listeners \in [TaskNames -> Seq(Providers)]
  /\ listenerMap \in [Key -> Nat]
  /\ result.op \in {"none", "add", "remove", "emit"} /\ result.who \in Seq(Providers)

Init ==
  /\ responseStrategyMap = {}
  /\ listeners = [t \in TaskNames |-> <<>>]
  /\ listenerMap = [k \in Key |-> 0]
  /\ result = [op |-> "none", who |-> <<>>]

(* What the caller is told: "add response ...", "remove listener: provider ...". *)
Done(op, t, who) == result' = [op |-> op, task |-> t, who |-> who]

(* set: the file a provider names is read and parsed.  Nothing takes it back. *)
Set(p) ==
  /\ responseStrategyMap' = responseStrategyMap \cup {p}
  /\ UNCHANGED <<listeners, listenerMap, result>>

(* set_file: the map is set while the file is still being written. *)
SetFile(p) == Set(p)

(* FAULT: the map is not asked whether the provider listens already. *)
AddAgain(t, p) ==
  /\ p \in responseStrategyMap
  /\ listeners' = [listeners EXCEPT ![t] = Append(@, p)]
  /\ listenerMap' = [listenerMap EXCEPT ![<<t, p>>] = Len(listeners[t]) + 1]
  /\ Done("add", t, <<p>>)
  /\ UNCHANGED responseStrategyMap

(* FAULT: the position is the one before the listener was added. *)
AddBefore(t, p) ==
  /\ p \in responseStrategyMap /\ listenerMap[<<t, p>>] = 0
  /\ listeners' = [listeners EXCEPT ![t] = Append(@, p)]
  /\ listenerMap' = [listenerMap EXCEPT ![<<t, p>>] = Len(listeners[t])]
  /\ Done("add", t, <<p>>)
  /\ UNCHANGED responseStrategyMap

(* add: a provider that listens already, or has no strategy, is turned away. *)
Add(t, p) ==
  /\ p \in responseStrategyMap /\ listenerMap[<<t, p>>] = 0
  /\ listeners' = [listeners EXCEPT ![t] = Append(@, p)]
  /\ listenerMap' = [listenerMap EXCEPT ![<<t, p>>] = Len(listeners[t]) + 1]
  /\ Done("add", t, <<p>>)
  /\ UNCHANGED responseStrategyMap

(* FAULT: the positions behind a listener are left as they are. *)
NoShift(t, at) == listenerMap

(* After the removal of position "at" of task t: every key that mentions t moves up. *)
Shift(t, at) ==
  [k \in Key |->
     IF k \in Mentions[t] /\ listenerMap[k] > at THEN listenerMap[k] - 1
                                                 ELSE listenerMap[k]]

(* remove.  If the position is past the end of the list there is no such function,
   and removeListener throws before anything is changed. *)
Remove(t, p) ==
  LET at == listenerMap[<<t, p>>]
  IN  /\ at \in 1 .. Len(listeners[t])
      /\ listeners' = [listeners EXCEPT ![t] = Lists!RemoveAt(@, at)]
      /\ listenerMap' = [Shift(t, at) EXCEPT ![<<t, p>>] = 0]
      /\ Done("remove", t, <<p>>)
      /\ UNCHANGED responseStrategyMap

(* event.emit(taskName, ...) calls the listeners one after the other. *)
Emit(t) ==
  /\ Done("emit", t, listeners[t])
  /\ UNCHANGED <<responseStrategyMap, listeners, listenerMap>>

(* The gateway starts anew: all of it was in memory. *)
Restart ==
  /\ responseStrategyMap' = {}
  /\ listeners' = [t \in TaskNames |-> <<>>]
  /\ listenerMap' = [k \in Key |-> 0]
  /\ result' = [op |-> "none", who |-> <<>>]

Next ==
  \/ \E p \in Providers : Set(p) \/ SetFile(p)
  \/ \E t \in TaskNames, p \in Providers : Add(t, p) \/ Remove(t, p)
  \/ \E t \in TaskNames : Emit(t)
  \/ Restart

Spec == Init /\ [][Next]_vars

--------------------------------------------------------------------------------
Subscribed == {k \in Key : Lists!Contains(listeners[k[1]], k[2])}

(* No key mentions the name of a task that is not its own. *)
NamesApart == \A t \in TaskNames : Mentions[t] = {t} \X Providers

(* A round calls a provider once, however often it was added and removed. *)
HeardOnce ==
  \A i, j \in 1 .. Len(result.who) : result.who[i] = result.who[j] => i = j

(* task-listener.js:46: while names are apart, listenerMap has the position of every
   listener, through any sequence of additions and removals, and of nothing else. *)
PositionsAgree ==
  NamesApart =>
    \A t \in TaskNames :
      /\ \A i \in 1 .. Len(listeners[t]) : listenerMap[<<t, listeners[t][i]>>] = i
      /\ \A p \in Providers :
           listenerMap[<<t, p>>] # 0 => Lists!Contains(listeners[t], p)

(* While names are apart the two structures implement a set of subscriptions: an
   operation changes the subscription it names and no other, and a round calls those
   who listen. *)
Abstract ==
  INSTANCE Subscriptions WITH
    subscribed <- Subscribed,
    result <- [result EXCEPT !.who = Lists!ToSet(result.who)]

ImplementsSubscriptions == Abstract!Spec

================================================================================
