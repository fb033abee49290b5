--------------------------- MODULE TaskListenerProofs ---------------------------
(* Proofs about the task listeners, for all tasks, providers and lengths of lists. *)
EXTENDS TaskListener, SequenceTheorems, TLAPS

(* Taking a place out of a list: those behind it move up, the others stay. *)
LEMMA RemoveAtShape ==
  ASSUME NEW S, NEW s \in Seq(S), NEW at \in 1 .. Len(s)
  PROVE  /\ Lists!RemoveAt(s, at) \in Seq(S)
         /\ Len(Lists!RemoveAt(s, at)) = Len(s) - 1
         /\ \A i \in 1 .. Len(s) - 1 :
              Lists!RemoveAt(s, at)[i] = IF i < at THEN s[i] ELSE s[i + 1]
<1> DEFINE front == SubSeq(s, 1, at - 1)
           back  == SubSeq(s, at + 1, Len(s))
<1>1. Len(s) \in Nat /\ at \in Nat /\ at >= 1 /\ at <= Len(s)
  OBVIOUS
<1>2. /\ front \in Seq(S) /\ Len(front) = at - 1
      /\ \A i \in 1 .. at - 1 : front[i] = s[i]
  BY <1>1
<1>3. /\ back \in Seq(S) /\ Len(back) = Len(s) - at
      /\ \A i \in 1 .. Len(s) - at : back[i] = s[i + at]
  BY <1>1
<1>4. Lists!RemoveAt(s, at) = front \o back
  BY DEF Lists!RemoveAt
<1> HIDE DEF front, back
<1>5. /\ front \o back \in Seq(S) /\ Len(front \o back) = (at - 1) + (Len(s) - at)
      /\ \A i \in 1 .. (at - 1) + (Len(s) - at) :
           (front \o back)[i] = IF i <= at - 1 THEN front[i] ELSE back[i - (at - 1)]
  <2>1. /\ front \o back \in Seq(S) /\ Len(front \o back) = Len(front) + Len(back)
        /\ \A i \in 1 .. Len(front) + Len(back) :
             (front \o back)[i] = IF i <= Len(front) THEN front[i] ELSE back[i - Len(front)]
    BY <1>2, <1>3, ConcatProperties, Zenon
  <2> QED
    BY <1>2, <1>3, <2>1
<1>6. ASSUME NEW i \in 1 .. Len(s) - 1
      PROVE  (front \o back)[i] = IF i < at THEN s[i] ELSE s[i + 1]
  <2>1. i \in 1 .. (at - 1) + (Len(s) - at)
    BY <1>1
  <2>2. CASE i < at
    BY <1>1, <1>2, <1>5, <2>1, <2>2
  <2>3. CASE ~(i < at)
    <3>1. i - (at - 1) \in 1 .. Len(s) - at /\ (i - (at - 1)) + at = i + 1
      BY <1>1, <2>3
    <3> QED
      BY <1>1, <1>3, <1>5, <2>1, <2>3, <3>1
  <2> QED
    BY <2>2, <2>3
<1> QED
  BY <1>1, <1>4, <1>5, <1>6

(* Which keys a removal moves up: while names are apart, those of its own task. *)
LEMMA ShiftShape ==
  ASSUME TypeOK, NEW t \in TaskNames, NEW at \in Nat \ {0}
  PROVE  /\ Shift(t, at) \in [Key -> Nat]
         /\ NamesApart =>
              \A u \in TaskNames, p \in Providers :
                Shift(t, at)[<<u, p>>] =
                  IF u = t /\ listenerMap[<<u, p>>] > at THEN listenerMap[<<u, p>>] - 1
                                                          ELSE listenerMap[<<u, p>>]
<1>1. listenerMap \in [Key -> Nat]
  BY DEF TypeOK
<1>2. Shift(t, at) \in [Key -> Nat]
  BY <1>1 DEF Shift
<1>3. ASSUME NamesApart, NEW u \in TaskNames, NEW p \in Providers
      PROVE  <<u, p>> \in Key /\ (<<u, p>> \in Mentions[t] <=> u = t)
  BY <1>3 DEF NamesApart, Key
<1>4. ASSUME NEW k \in Key
      PROVE  Shift(t, at)[k] = IF k \in Mentions[t] /\ listenerMap[k] > at
                                 THEN listenerMap[k] - 1 ELSE listenerMap[k]
  BY DEF Shift
<1> QED
  BY <1>2, <1>3, <1>4

--------------------------------------------------------------------------------
(* At the start there are no listeners. *)
LEMMA TypeInit == Init => TypeOK
  BY DEF Init, TypeOK, Key

(* Every call keeps the types. *)
LEMMA TypeStep == TypeOK /\ [Next]_vars => TypeOK'
<1> SUFFICES ASSUME TypeOK, [Next]_vars PROVE TypeOK'
  OBVIOUS
<1>0. /\ responseStrategyMap \subseteq Providers
      /\ listeners \in [TaskNames -> Seq(Providers)]
      /\ listenerMap \in [Key -> Nat]
  BY DEF TypeOK
<1>1. ASSUME NEW p \in Providers, Set(p) \/ SetFile(p)
      PROVE  TypeOK'
  BY <1>1 DEF Set, SetFile, TypeOK
<1>2. ASSUME NEW t \in TaskNames, NEW p \in Providers, Add(t, p)
      PROVE  TypeOK'
  <2> DEFINE longer == Append(listeners[t], p)
             last   == Len(listeners[t]) + 1
  <2>1. longer \in Seq(Providers) /\ last \in Nat /\ <<p>> \in Seq(Providers)
    BY <1>0
  <2>2. /\ listeners' = [listeners EXCEPT ![t] = longer]
        /\ listenerMap' = [listenerMap EXCEPT ![<<t, p>>] = last]
        /\ result' = [op |-> "add", task |-> t, who |-> <<p>>]
        /\ UNCHANGED responseStrategyMap
    BY <1>2 DEF Add, Done
  <2> HIDE DEF longer, last
  <2>3. listeners' \in [TaskNames -> Seq(Providers)] /\ listenerMap' \in [Key -> Nat]
    BY <1>0, <2>1, <2>2
  <2> QED
    BY <1>0, <2>1, <2>2, <2>3 DEF TypeOK
<1>3. ASSUME NEW t \in TaskNames, NEW p \in Providers, Remove(t, p)
      PROVE  TypeOK'
  <2> DEFINE at == listenerMap[<<t, p>>]
  <2>1. at \in 1 .. Len(listeners[t]) /\ listeners[t] \in Seq(Providers)
    BY <1>0, <1>3 DEF Remove
  <2>2. Lists!RemoveAt(listeners[t], at) \in Seq(Providers) /\ <<p>> \in Seq(Providers)
    BY <2>1, RemoveAtShape
  <2>3. at \in Nat \ {0}
    BY <2>1
  <2>4. Shift(t, at) \in [Key -> Nat]
    BY <2>3, ShiftShape
  <2>5. /\ listeners' = [listeners EXCEPT ![t] = Lists!RemoveAt(listeners[t], at)]
        /\ listenerMap' = [Shift(t, at) EXCEPT ![<<t, p>>] = 0]
        /\ result' = [op |-> "remove", task |-> t, who |-> <<p>>]
        /\ UNCHANGED responseStrategyMap
    BY <1>3 DEF Remove, Done
  <2> QED
    BY <1>0, <2>2, <2>4, <2>5 DEF TypeOK
<1>4. ASSUME NEW t \in TaskNames, Emit(t)
      PROVE  TypeOK'
  BY <1>0, <1>4 DEF Emit, Done, TypeOK
<1>5. CASE Restart
  BY <1>5 DEF Restart, TypeOK
<1>6. CASE UNCHANGED vars
  BY <1>6 DEF vars, TypeOK
<1> QED
  BY <1>1, <1>2, <1>3, <1>4, <1>5, <1>6 DEF Next

(* The lists hold providers and the positions are numbers, whatever the names. *)
THEOREM TypeCorrect == Spec => []TypeOK
  BY TypeInit, TypeStep, PTL DEF Spec

--------------------------------------------------------------------------------
(* A provider that has a position is found there, and one that is in a list has it. *)
LEMMA Found ==
  ASSUME NamesApart, TypeOK, PositionsAgree, NEW t \in TaskNames, NEW p \in Providers
  PROVE  /\ listenerMap[<<t, p>>] # 0 <=> Lists!Contains(listeners[t], p)
         /\ listenerMap[<<t, p>>] # 0 =>
              /\ listenerMap[<<t, p>>] \in 1 .. Len(listeners[t])
              /\ listeners[t][listenerMap[<<t, p>>]] = p
<1>1. /\ \A i \in 1 .. Len(listeners[t]) : listenerMap[<<t, listeners[t][i]>>] = i
      /\ listenerMap[<<t, p>>] # 0 => Lists!Contains(listeners[t], p)
  BY DEF PositionsAgree
<1>2. ASSUME Lists!Contains(listeners[t], p)
      PROVE  /\ listenerMap[<<t, p>>] # 0
             /\ listenerMap[<<t, p>>] \in 1 .. Len(listeners[t])
             /\ listeners[t][listenerMap[<<t, p>>]] = p
  <2>1. PICK i \in 1 .. Len(listeners[t]) : listeners[t][i] = p
    BY <1>2 DEF Lists!Contains
  <2> QED
    BY <1>1, <2>1
<1> QED
  BY <1>1, <1>2

(* A list has no provider twice. *)
LEMMA NotTwice ==
  ASSUME NamesApart, PositionsAgree, NEW t \in TaskNames,
         NEW i \in 1 .. Len(listeners[t]), NEW j \in 1 .. Len(listeners[t]),
         listeners[t][i] = listeners[t][j]
  PROVE  i = j
<1>1. listenerMap[<<t, listeners[t][i]>>] = i /\ listenerMap[<<t, listeners[t][j]>>] = j
  BY DEF PositionsAgree
<1> QED
  BY <1>1

(* What an addition does to the positions: the provider gets the last one. *)
LEMMA AddShape ==
  ASSUME NamesApart, TypeOK, PositionsAgree,
         NEW t \in TaskNames, NEW p \in Providers, Add(t, p)
  PROVE  /\ Len(listeners'[t]) = Len(listeners[t]) + 1
         /\ \A i \in 1 .. Len(listeners[t]) : listeners'[t][i] = listeners[t][i]
         /\ listeners'[t][Len(listeners[t]) + 1] = p
         /\ ~Lists!Contains(listeners[t], p)
         /\ \A u \in TaskNames \ {t} : listeners'[u] = listeners[u]
         /\ \A u \in TaskNames, q \in Providers :
              listenerMap'[<<u, q>>] = IF u = t /\ q = p THEN Len(listeners[t]) + 1
                                                         ELSE listenerMap[<<u, q>>]
<1> DEFINE longer == Append(listeners[t], p)
           last   == Len(listeners[t]) + 1
<1>1. /\ listeners \in [TaskNames -> Seq(Providers)]
      /\ listenerMap \in [Key -> Nat]
      /\ \A u \in TaskNames, q \in Providers : <<u, q>> \in Key
  BY DEF TypeOK, Key
<1>2. /\ Len(longer) = last /\ longer[last] = p
      /\ \A i \in 1 .. Len(listeners[t]) : longer[i] = listeners[t][i]
  BY <1>1
<1>3. /\ listeners' = [listeners EXCEPT ![t] = longer]
      /\ listenerMap' = [listenerMap EXCEPT ![<<t, p>>] = last]
      /\ listenerMap[<<t, p>>] = 0
  BY DEF Add
<1>4. ~Lists!Contains(listeners[t], p)
  BY <1>3, Found
<1> HIDE DEF longer
<1>5. listeners'[t] = longer /\ \A u \in TaskNames \ {t} : listeners'[u] = listeners[u]
  BY <1>1, <1>3
<1>6. \A u \in TaskNames, q \in Providers :
        listenerMap'[<<u, q>>] = IF u = t /\ q = p THEN last ELSE listenerMap[<<u, q>>]
  BY <1>1, <1>3
<1> QED
  BY <1>2, <1>4, <1>5, <1>6

(* Provider p was taken from place "at" of task t: it has no position any more, and
   those behind it moved up. *)
TakenFrom(t, p, at) ==
  /\ listeners[t][at] = p /\ listenerMap[<<t, p>>] = at
  /\ Len(listeners'[t]) = Len(listeners[t]) - 1
  /\ \A i \in 1 .. Len(listeners[t]) - 1 :
       listeners'[t][i] = IF i < at THEN listeners[t][i] ELSE listeners[t][i + 1]
  /\ \A u \in TaskNames \ {t} : listeners'[u] = listeners[u]
  /\ \A u \in TaskNames, q \in Providers :
       listenerMap'[<<u, q>>] =
         IF u = t /\ q = p THEN 0
         ELSE IF u = t /\ listenerMap[<<u, q>>] > at THEN listenerMap[<<u, q>>] - 1
         ELSE listenerMap[<<u, q>>]

(* remove takes one listener out of the list, the one whose position the map names. *)
LEMMA RemoveShape ==
  ASSUME NamesApart, TypeOK, PositionsAgree,
         NEW t \in TaskNames, NEW p \in Providers, Remove(t, p)
  PROVE  \E at \in 1 .. Len(listeners[t]) : TakenFrom(t, p, at)
<1> DEFINE at      == listenerMap[<<t, p>>]
           shorter == Lists!RemoveAt(listeners[t], at)
           shifted == Shift(t, at)
<1>1. /\ listeners \in [TaskNames -> Seq(Providers)]
      /\ \A u \in TaskNames, q \in Providers : <<u, q>> \in Key
  BY DEF TypeOK, Key
<1>2. /\ at \in 1 .. Len(listeners[t])
      /\ listeners' = [listeners EXCEPT ![t] = shorter]
      /\ listenerMap' = [shifted EXCEPT ![<<t, p>>] = 0]
  BY DEF Remove
<1>3. listeners[t] \in Seq(Providers) /\ at \in Nat \ {0}
  BY <1>1, <1>2
<1>4. listeners[t][at] = p
  BY <1>3, Found
<1>5. /\ Len(shorter) = Len(listeners[t]) - 1
      /\ \A i \in 1 .. Len(listeners[t]) - 1 :
           shorter[i] = IF i < at THEN listeners[t][i] ELSE listeners[t][i + 1]
  BY <1>2, <1>3, RemoveAtShape
<1>6. /\ shifted \in [Key -> Nat]
      /\ \A u \in TaskNames, q \in Providers :
           shifted[<<u, q>>] =
             IF u = t /\ listenerMap[<<u, q>>] > at THEN listenerMap[<<u, q>>] - 1
                                                    ELSE listenerMap[<<u, q>>]
  BY <1>3, ShiftShape
<1> HIDE DEF shorter, shifted
<1>7. listeners'[t] = shorter /\ \A u \in TaskNames \ {t} : listeners'[u] = listeners[u]
  BY <1>1, <1>2
<1>8. \A u \in TaskNames, q \in Providers :
        listenerMap'[<<u, q>>] = IF u = t /\ q = p THEN 0 ELSE shifted[<<u, q>>]
  BY <1>1, <1>2, <1>6
<1>9. listenerMap[<<t, p>>] = at
  OBVIOUS
<1>10. at \in 1 .. Len(listeners[t])
  BY <1>2
<1> HIDE DEF at
<1> WITNESS at \in 1 .. Len(listeners[t])
<1> QED
  BY <1>4, <1>5, <1>6, <1>7, <1>8, <1>9 DEF TakenFrom

(* Every operation keeps the positions and the lists in agreement. *)
LEMMA PositionsStep ==
  ASSUME NamesApart, TypeOK, PositionsAgree, [Next]_vars
  PROVE  PositionsAgree'
<1> SUFFICES ASSUME NEW u \in TaskNames
             PROVE  /\ \A i \in 1 .. Len(listeners'[u]) :
                         listenerMap'[<<u, listeners'[u][i]>>] = i
                    /\ \A q \in Providers : listenerMap'[<<u, q>>] # 0 =>
                         Lists!Contains(listeners'[u], q)
  BY DEF PositionsAgree
<1>0. /\ listeners[u] \in Seq(Providers) /\ Len(listeners[u]) \in Nat
      /\ \A i \in 1 .. Len(listeners[u]) : listeners[u][i] \in Providers
      /\ \A q \in Providers : listenerMap[<<u, q>>] \in Nat
  BY DEF TypeOK, Key
<1>1. /\ \A i \in 1 .. Len(listeners[u]) : listenerMap[<<u, listeners[u][i]>>] = i
      /\ \A q \in Providers :
           listenerMap[<<u, q>>] # 0 => Lists!Contains(listeners[u], q)
  BY DEF PositionsAgree
<1>2. ASSUME listeners'[u] = listeners[u],
             \A q \in Providers : listenerMap'[<<u, q>>] = listenerMap[<<u, q>>]
      PROVE  /\ \A i \in 1 .. Len(listeners'[u]) :
                  listenerMap'[<<u, listeners'[u][i]>>] = i
             /\ \A q \in Providers : listenerMap'[<<u, q>>] # 0 =>
                  Lists!Contains(listeners'[u], q)
  BY <1>0, <1>1, <1>2 DEF Lists!Contains
<1>3. ASSUME NEW t \in TaskNames, NEW p \in Providers, Add(t, p), t = u
      PROVE  /\ \A i \in 1 .. Len(listeners'[u]) :
                  listenerMap'[<<u, listeners'[u][i]>>] = i
             /\ \A q \in Providers : listenerMap'[<<u, q>>] # 0 =>
                  Lists!Contains(listeners'[u], q)
  <2>1. /\ Len(listeners'[u]) = Len(listeners[u]) + 1
        /\ \A i \in 1 .. Len(listeners[u]) : listeners'[u][i] = listeners[u][i]
        /\ listeners'[u][Len(listeners[u]) + 1] = p
        /\ ~Lists!Contains(listeners[u], p)
        /\ \A q \in Providers :
             listenerMap'[<<u, q>>] = IF q = p THEN Len(listeners[u]) + 1
                                               ELSE listenerMap[<<u, q>>]
    BY <1>3, AddShape
  <2>2. \A i \in 1 .. Len(listeners[u]) : listeners[u][i] # p
    BY <2>1 DEF Lists!Contains
  <2>3. ASSUME NEW i \in 1 .. Len(listeners'[u])
        PROVE  listenerMap'[<<u, listeners'[u][i]>>] = i
    <3>1. i \in 1 .. Len(listeners[u]) \/ i = Len(listeners[u]) + 1
      BY <1>0, <2>1
    <3> QED
      BY <1>0, <1>1, <2>1, <2>2, <3>1
  <2>4. ASSUME NEW q \in Providers, listenerMap'[<<u, q>>] # 0
        PROVE  Lists!Contains(listeners'[u], q)
    <3>1. CASE q = p
      BY <1>0, <2>1, <3>1 DEF Lists!Contains
    <3>2. CASE q # p
      <4>1. PICK i \in 1 .. Len(listeners[u]) : listeners[u][i] = q
        BY <1>1, <2>1, <2>4, <3>2 DEF Lists!Contains
      <4>2. i \in 1 .. Len(listeners'[u]) /\ listeners'[u][i] = q
        BY <1>0, <2>1, <4>1
      <4> QED
        BY <4>2 DEF Lists!Contains
    <3> QED
      BY <3>1, <3>2
  <2> QED
    BY <2>3, <2>4
<1>4. ASSUME NEW t \in TaskNames, NEW p \in Providers, Remove(t, p), t = u
      PROVE  /\ \A i \in 1 .. Len(listeners'[u]) :
                  listenerMap'[<<u, listeners'[u][i]>>] = i
             /\ \A q \in Providers : listenerMap'[<<u, q>>] # 0 =>
                  Lists!Contains(listeners'[u], q)
  <2>0. PICK at \in 1 .. Len(listeners[u]) : TakenFrom(u, p, at)
    BY <1>4, RemoveShape
  <2>1. /\ listeners[u][at] = p /\ listenerMap[<<u, p>>] = at
        /\ Len(listeners'[u]) = Len(listeners[u]) - 1
        /\ \A i \in 1 .. Len(listeners[u]) - 1 :
             listeners'[u][i] = IF i < at THEN listeners[u][i] ELSE listeners[u][i + 1]
        /\ \A q \in Providers :
             listenerMap'[<<u, q>>] =
               IF q = p THEN 0
               ELSE IF listenerMap[<<u, q>>] > at THEN listenerMap[<<u, q>>] - 1
               ELSE listenerMap[<<u, q>>]
    BY <2>0 DEF TakenFrom
  <2>2. \A j \in 1 .. Len(listeners[u]) : j # at => listeners[u][j] # p
    BY <1>1, <2>1
  <2>3. ASSUME NEW i \in 1 .. Len(listeners'[u])
        PROVE  listenerMap'[<<u, listeners'[u][i]>>] = i
    <3>1. i \in 1 .. Len(listeners[u]) - 1
      BY <2>1
    <3>2. CASE i < at
      <4>1. i \in 1 .. Len(listeners[u]) /\ listeners'[u][i] = listeners[u][i]
        BY <1>0, <2>1, <3>1, <3>2
      <4> QED
        BY <1>0, <1>1, <2>1, <2>2, <3>2, <4>1
    <3>3. CASE ~(i < at)
      <4>1. /\ i + 1 \in 1 .. Len(listeners[u]) /\ i + 1 > at
            /\ listeners'[u][i] = listeners[u][i + 1]
        BY <1>0, <2>1, <3>1, <3>3
      <4> DEFINE q == listeners[u][i + 1]
      <4>2. q \in Providers /\ q # p /\ listenerMap[<<u, q>>] = i + 1
        BY <1>0, <1>1, <2>1, <2>2, <4>1
      <4>3. listenerMap'[<<u, q>>] = (i + 1) - 1
        BY <2>1, <4>1, <4>2
      <4> QED
        BY <4>1, <4>3
    <3> QED
      BY <3>2, <3>3
  <2>4. ASSUME NEW q \in Providers, listenerMap'[<<u, q>>] # 0
        PROVE  Lists!Contains(listeners'[u], q)
    <3>1. q # p /\ listenerMap[<<u, q>>] # 0
      BY <1>0, <2>1, <2>4
    <3>2. PICK j \in 1 .. Len(listeners[u]) : listeners[u][j] = q
      BY <1>1, <3>1 DEF Lists!Contains
    <3>3. CASE j < at
      <4>1. j \in 1 .. Len(listeners[u]) - 1 /\ listeners'[u][j] = q
        BY <1>0, <2>1, <3>2, <3>3
      <4> QED
        BY <2>1, <4>1 DEF Lists!Contains
    <3>4. CASE j > at
      <4>1. j - 1 \in 1 .. Len(listeners[u]) - 1 /\ ~(j - 1 < at) /\ (j - 1) + 1 = j
        BY <1>0, <2>1, <3>4
      <4>2. listeners'[u][j - 1] = q
        BY <2>1, <3>2, <4>1
      <4> QED
        BY <2>1, <4>1, <4>2 DEF Lists!Contains
    <3> QED
      BY <2>1, <3>1, <3>2, <3>3, <3>4
  <2> QED
    BY <2>3, <2>4
<1>5. ASSUME NEW t \in TaskNames, NEW p \in Providers, Add(t, p) \/ Remove(t, p), t # u
      PROVE  /\ listeners'[u] = listeners[u]
             /\ \A q \in Providers : listenerMap'[<<u, q>>] = listenerMap[<<u, q>>]
  <2>1. CASE Add(t, p)
    BY <1>5, <2>1, AddShape
  <2>2. CASE Remove(t, p)
    <3>1. PICK at \in 1 .. Len(listeners[t]) : TakenFrom(t, p, at)
      BY <2>2, RemoveShape
    <3> QED
      BY <1>5, <3>1 DEF TakenFrom
  <2> QED
    BY <1>5, <2>1, <2>2
<1>6. ASSUME NEW p \in Providers, Set(p) \/ SetFile(p)
      PROVE  UNCHANGED <<listeners, listenerMap>>
  BY <1>6 DEF Set, SetFile
<1>7. ASSUME NEW t \in TaskNames, Emit(t)
      PROVE  UNCHANGED <<listeners, listenerMap>>
  BY <1>7 DEF Emit
<1>8. CASE Restart
  BY <1>8 DEF Restart, Key
<1>9. CASE UNCHANGED vars
  BY <1>2, <1>9 DEF vars
<1> QED
  BY <1>2, <1>3, <1>4, <1>5, <1>6, <1>7, <1>8, <1>9 DEF Next

(* task-listener.js:46: whatever was added and removed, listenerMap has the position of
   every listener and of nothing else. *)
THEOREM PositionsKept == Spec => []PositionsAgree
<1>1. Init => PositionsAgree
  BY DEF Init, PositionsAgree, Key
<1>2. TypeOK /\ PositionsAgree /\ [Next]_vars => PositionsAgree'
  <2>1. CASE NamesApart
    BY <2>1, PositionsStep
  <2>2. CASE ~NamesApart
    BY <2>2 DEF PositionsAgree, NamesApart
  <2> QED
    BY <2>1, <2>2
<1> QED
  BY <1>1, <1>2, TypeCorrect, PTL DEF Spec

--------------------------------------------------------------------------------
(* A round calls nobody twice: a list that is called has no provider twice. *)
THEOREM RoundsCallOnce == NamesApart => (Spec => []HeardOnce)
<1> SUFFICES ASSUME NamesApart PROVE Spec => []HeardOnce
  OBVIOUS
<1>1. Init => HeardOnce
  BY DEF Init, HeardOnce
<1>2. TypeOK /\ PositionsAgree /\ HeardOnce /\ [Next]_vars => HeardOnce'
  <2> SUFFICES ASSUME TypeOK, PositionsAgree, HeardOnce, [Next]_vars PROVE HeardOnce'
    OBVIOUS
  <2>1. ASSUME NEW t \in TaskNames, NEW p \in Providers, Add(t, p) \/ Remove(t, p)
        PROVE  HeardOnce'
    <3>1. result'.who = <<p>>
      BY <2>1 DEF Add, Remove, Done
    <3> QED
      BY <3>1 DEF HeardOnce
  <2>2. ASSUME NEW t \in TaskNames, Emit(t)
        PROVE  HeardOnce'
    <3>1. result'.who = listeners[t]
      BY <2>2 DEF Emit, Done
    <3> QED
      BY <3>1, NotTwice DEF HeardOnce
  <2>3. CASE Restart
    <3>1. result'.who = <<>>
      BY <2>3 DEF Restart
    <3> QED
      BY <3>1 DEF HeardOnce
  <2>4. ASSUME UNCHANGED result
        PROVE  HeardOnce'
    BY <2>4 DEF HeardOnce
  <2>5. ASSUME NEW p \in Providers, Set(p) \/ SetFile(p)
        PROVE  UNCHANGED result
    BY <2>5 DEF Set, SetFile
  <2> QED
    BY <2>1, <2>2, <2>3, <2>4, <2>5 DEF Next, vars
<1> QED
  BY <1>1, <1>2, TypeCorrect, PositionsKept, PTL DEF Spec

--------------------------------------------------------------------------------
(* Whom an operation concerned, as Subscriptions sees it: a set, not a list. *)
SeenAs(r) == [r EXCEPT !.who = Lists!ToSet(r.who)]

Concerned == SeenAs(result)

(* Only the field that says whom it concerned changes. *)
LEMMA Seen ==
  /\ \A op, t, w : SeenAs([op |-> op, task |-> t, who |-> w]) =
                    [op |-> op, task |-> t, who |-> Lists!ToSet(w)]
  /\ \A op, w : SeenAs([op |-> op, who |-> w]) = [op |-> op, who |-> Lists!ToSet(w)]
  BY DEF SeenAs

(* The sets of an empty list and of a list of one. *)
LEMMA SmallSets == Lists!ToSet(<<>>) = {} /\ \A x : Lists!ToSet(<<x>>) = {x}
<1>1. DOMAIN <<>> = {} /\ \A x : DOMAIN <<x>> = {1} /\ <<x>>[1] = x
  OBVIOUS
<1> QED
  BY <1>1 DEF Lists!ToSet

(* An addition subscribes one pair that was not subscribed. *)
LEMMA AddSimulates ==
  ASSUME NamesApart, TypeOK, PositionsAgree,
         NEW t \in TaskNames, NEW p \in Providers, Add(t, p)
  PROVE  <<t, p>> \notin Subscribed /\ Subscribed' = Subscribed \cup {<<t, p>>}
<1>1. /\ Len(listeners'[t]) = Len(listeners[t]) + 1 /\ Len(listeners[t]) \in Nat
      /\ \A i \in 1 .. Len(listeners[t]) : listeners'[t][i] = listeners[t][i]
      /\ listeners'[t][Len(listeners[t]) + 1] = p
      /\ ~Lists!Contains(listeners[t], p)
      /\ \A u \in TaskNames \ {t} : listeners'[u] = listeners[u]
  BY AddShape DEF TypeOK
<1>2. ASSUME NEW q \in Providers
      PROVE  Lists!Contains(listeners'[t], q) <=> Lists!Contains(listeners[t], q) \/ q = p
  <2>1. ASSUME NEW i \in 1 .. Len(listeners'[t]), listeners'[t][i] = q
        PROVE  Lists!Contains(listeners[t], q) \/ q = p
    BY <1>1, <2>1 DEF Lists!Contains
  <2>2. ASSUME NEW i \in 1 .. Len(listeners[t]), listeners[t][i] = q
        PROVE  i \in 1 .. Len(listeners'[t]) /\ listeners'[t][i] = q
    BY <1>1, <2>2
  <2>3. Len(listeners[t]) + 1 \in 1 .. Len(listeners'[t])
    BY <1>1
  <2> QED
    BY <1>1, <2>1, <2>2, <2>3 DEF Lists!Contains
<1>3. ASSUME NEW u \in TaskNames, NEW q \in Providers
      PROVE  Lists!Contains(listeners'[u], q) <=>
               Lists!Contains(listeners[u], q) \/ <<u, q>> = <<t, p>>
  BY <1>1, <1>2 DEF Lists!Contains
<1> QED
  BY <1>1, <1>3 DEF Subscribed, Key

(* A removal ends the one subscription it names. *)
LEMMA RemoveSimulates ==
  ASSUME NamesApart, TypeOK, PositionsAgree,
         NEW t \in TaskNames, NEW p \in Providers, Remove(t, p)
  PROVE  <<t, p>> \in Subscribed /\ Subscribed' = Subscribed \ {<<t, p>>}
<1>0. Len(listeners[t]) \in Nat
  BY DEF TypeOK
<1>1. PICK at \in 1 .. Len(listeners[t]) : TakenFrom(t, p, at)
  BY RemoveShape
<1> USE DEF TakenFrom
<1>2. \A i \in 1 .. Len(listeners[t]) : i # at => listeners[t][i] # p
  BY <1>1, NotTwice
<1>3. ASSUME NEW q \in Providers
      PROVE  Lists!Contains(listeners'[t], q) <=> Lists!Contains(listeners[t], q) /\ q # p
  <2>1. ASSUME NEW i \in 1 .. Len(listeners'[t]), listeners'[t][i] = q
        PROVE  Lists!Contains(listeners[t], q) /\ q # p
    <3>1. CASE i < at
      <4>1. i \in 1 .. Len(listeners[t]) /\ i # at /\ listeners[t][i] = q
        BY <1>0, <1>1, <2>1, <3>1
      <4> QED
        BY <1>2, <4>1 DEF Lists!Contains
    <3>2. CASE ~(i < at)
      <4>1. i + 1 \in 1 .. Len(listeners[t]) /\ i + 1 # at /\ listeners[t][i + 1] = q
        BY <1>0, <1>1, <2>1, <3>2
      <4> QED
        BY <1>2, <4>1 DEF Lists!Contains
    <3> QED
      BY <3>1, <3>2
  <2>2. ASSUME NEW i \in 1 .. Len(listeners[t]), listeners[t][i] = q, q # p
        PROVE  Lists!Contains(listeners'[t], q)
    <3>1. CASE i < at
      <4>1. i \in 1 .. Len(listeners'[t]) /\ listeners'[t][i] = q
        BY <1>0, <1>1, <2>2, <3>1
      <4> QED
        BY <4>1 DEF Lists!Contains
    <3>2. CASE i > at
      <4>1. i - 1 \in 1 .. Len(listeners'[t]) /\ ~(i - 1 < at) /\ (i - 1) + 1 = i
        BY <1>0, <1>1, <3>2
      <4>2. listeners'[t][i - 1] = q
        BY <1>1, <2>2, <4>1
      <4> QED
        BY <4>1, <4>2 DEF Lists!Contains
    <3> QED
      BY <1>1, <2>2, <3>1, <3>2
  <2> QED
    BY <2>1, <2>2 DEF Lists!Contains
<1>4. ASSUME NEW u \in TaskNames, NEW q \in Providers
      PROVE  Lists!Contains(listeners'[u], q) <=>
               Lists!Contains(listeners[u], q) /\ <<u, q>> # <<t, p>>
  <2>1. CASE u = t
    BY <1>3, <2>1
  <2>2. CASE u # t
    BY <1>1, <2>2
  <2> QED
    BY <2>1, <2>2
<1>5. Lists!Contains(listeners[t], p)
  BY <1>1 DEF Lists!Contains
<1> QED
  BY <1>4, <1>5 DEF Subscribed, Key

(* Every step of the lists and positions is one of the set of subscriptions, or none. *)
LEMMA StepSimulates ==
  ASSUME NamesApart, TypeOK, PositionsAgree, [Next]_vars
  PROVE  [Abstract!Next]_<<Subscribed, Concerned>>
<1>1. ASSUME NEW t \in TaskNames, NEW p \in Providers, Add(t, p)
      PROVE  Abstract!Add(t, p)
  <2>1. Concerned' = [op |-> "add", task |-> t, who |-> {p}]
    <3>1. result' = [op |-> "add", task |-> t, who |-> <<p>>]
      BY <1>1 DEF Add, Done
    <3>2. Concerned' = SeenAs([op |-> "add", task |-> t, who |-> <<p>>])
      BY <3>1, Zenon DEF Concerned
    <3>3. Lists!ToSet(<<p>>) = {p}
      BY SmallSets, Zenon
    <3>4. Concerned' = [op |-> "add", task |-> t, who |-> Lists!ToSet(<<p>>)]
      BY <3>2, Seen, Zenon
    <3> QED
      BY <3>3, <3>4, Zenon
  <2> QED
    BY <1>1, <2>1, AddSimulates DEF Abstract!Add, Abstract!Done, Concerned, SeenAs
<1>2. ASSUME NEW t \in TaskNames, NEW p \in Providers, Remove(t, p)
      PROVE  Abstract!Remove(t, p)
  <2>1. Concerned' = [op |-> "remove", task |-> t, who |-> {p}]
    <3>1. result' = [op |-> "remove", task |-> t, who |-> <<p>>]
      BY <1>2 DEF Remove, Done
    <3>2. Concerned' = SeenAs([op |-> "remove", task |-> t, who |-> <<p>>])
      BY <3>1, Zenon DEF Concerned
    <3>3. Lists!ToSet(<<p>>) = {p}
      BY SmallSets, Zenon
    <3>4. Concerned' = [op |-> "remove", task |-> t, who |-> Lists!ToSet(<<p>>)]
      BY <3>2, Seen, Zenon
    <3> QED
      BY <3>3, <3>4, Zenon
  <2> QED
    BY <1>2, <2>1, RemoveSimulates DEF Abstract!Remove, Abstract!Done, Concerned, SeenAs
<1>3. ASSUME NEW t \in TaskNames, Emit(t)
      PROVE  Abstract!Emit(t)
  <2>1. Lists!ToSet(listeners[t]) = {p \in Providers : <<t, p>> \in Subscribed}
    <3>1. listeners[t] \in Seq(Providers) /\ DOMAIN listeners[t] = 1 .. Len(listeners[t])
      BY DEF TypeOK
    <3>2. \A i \in 1 .. Len(listeners[t]) : listeners[t][i] \in Providers
      BY <3>1
    <3> QED
      BY <3>1, <3>2 DEF Lists!ToSet, Subscribed, Key, Lists!Contains
  <2>2. Concerned' = [op |-> "emit", task |-> t, who |-> Lists!ToSet(listeners[t])]
    <3>1. Concerned' = SeenAs([op |-> "emit", task |-> t, who |-> listeners[t]])
      BY <1>3, Zenon DEF Emit, Done, Concerned
    <3> QED
      BY <3>1, Seen, Zenon
  <2>3. UNCHANGED Subscribed
    BY <1>3 DEF Emit, Subscribed
  <2> QED
    BY <2>1, <2>2, <2>3 DEF Abstract!Emit, Abstract!Done, Concerned, SeenAs
<1>4. ASSUME Restart
      PROVE  Abstract!Clear
  <2>1. Subscribed' = {}
    BY <1>4 DEF Restart, Subscribed, Key, Lists!Contains
  <2>2. Concerned' = [op |-> "none", who |-> {}]
    <3>1. Concerned' = SeenAs([op |-> "none", who |-> <<>>])
      BY <1>4, Zenon DEF Restart, Concerned
    <3> QED
      BY <3>1, Seen, SmallSets, Zenon
  <2> QED
    BY <2>1, <2>2 DEF Abstract!Clear, Concerned, SeenAs
<1>5. ASSUME UNCHANGED <<listeners, result>>
      PROVE  UNCHANGED <<Subscribed, Concerned>>
  BY <1>5 DEF Subscribed, Concerned
<1>6. ASSUME NEW p \in Providers, Set(p) \/ SetFile(p)
      PROVE  UNCHANGED <<listeners, result>>
  BY <1>6 DEF Set, SetFile
<1> QED
  BY <1>1, <1>2, <1>3, <1>4, <1>5, <1>6 DEF Next, vars, Abstract!Next

(* While names are apart, the emitter's lists and the map of positions implement a set
   of subscriptions. *)
THEOREM ListenersAreSubscriptions == NamesApart => (Spec => ImplementsSubscriptions)
<1> SUFFICES ASSUME NamesApart PROVE Spec => ImplementsSubscriptions
  OBVIOUS
<1>1. Init => Abstract!Init
  <2>1. Init => Subscribed = {}
    BY DEF Init, Subscribed, Key, Lists!Contains
  <2>2. Init => Concerned = [op |-> "none", who |-> {}]
    <3>1. Init => Concerned = SeenAs([op |-> "none", who |-> <<>>])
      BY Zenon DEF Init, Concerned
    <3> QED
      BY <3>1, Seen, SmallSets, Zenon
  <2> QED
    BY <2>1, <2>2 DEF Abstract!Init, Concerned, SeenAs
<1>2. TypeOK /\ PositionsAgree /\ [Next]_vars =>
        [Abstract!Next]_<<Subscribed, Concerned>>
  BY StepSimulates
<1> QED
  BY <1>1, <1>2, TypeCorrect, PositionsKept, PTL
     DEF Spec, ImplementsSubscriptions, Abstract!Spec, Concerned, SeenAs

================================================================================
