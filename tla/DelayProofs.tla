----------------------------- MODULE DelayProofs -----------------------------
(***************************************************************************)
(* Proofs about Delay, for all tasks, times and ranges of the tick count.  *)
(***************************************************************************)
EXTENDS Delay, WellFoundedInduction, TLAPS

-----------------------------------------------------------------------------
(* The operators.                                                           *)

\* A set of naturals has a least element, which is the one Least chooses.
LEMMA LeastIs ==
    ASSUME NEW S, S \subseteq Nat, S # {}
    PROVE  Least(S) \in S /\ \A m \in S : Least(S) <= m
<1> DEFINE R == OpToRel(<, Nat)
<1>1. IsWellFoundedOn(R, Nat)
  BY NatLessThanWellFounded
<1>2. \A m, n \in Nat : m < n => <<m, n>> \in R
  BY DEF OpToRel
<1> HIDE DEF R
<1>3. \E n \in S : \A m \in S : ~(<<m, n>> \in R)
  BY <1>1, WFMin
<1>4. \E n \in S : \A m \in S : n <= m
  <2>1. PICK n \in S : \A m \in S : ~(<<m, n>> \in R)
    BY <1>3
  <2>2. \A m \in S : ~(m < n)
    BY <2>1, <1>2
  <2>3. \A m \in S : n <= m
    BY <2>2
  <2> QED
    BY <2>3
<1> QED
  BY <1>4 DEF Least

\* xNextTaskUnblockTime, when it is computed, is a tick count and is not
\* later than the wake time of a task of the list.
LEMMA UnblockIs ==
    ASSUME NEW S, S \subseteq Tasks, NEW v \in [Tasks -> 0 .. MaxDelay]
    PROVE  Unblock(S, v) \in 0 .. MaxDelay /\ \A t \in S : Unblock(S, v) <= v[t]
<1>1. MaxDelay \in Nat
  BY DelayConstants DEF MaxDelay
<1>2. CASE S = {}
  BY <1>1, <1>2 DEF Unblock
<1>3. CASE S # {}
  <2> DEFINE V == {v[t] : t \in S}
  <2>1. V \subseteq 0 .. MaxDelay /\ V # {}
    BY <1>3
  <2>2. Least(V) \in V /\ \A m \in V : Least(V) <= m
    <3>1. V \subseteq Nat
      BY <2>1, <1>1
    <3> HIDE DEF V
    <3> QED
      BY <3>1, <2>1, LeastIs
  <2>3. Unblock(S, v) = Least(V)
    BY <1>3 DEF Unblock
  <2>4. \A t \in S : v[t] \in V
    OBVIOUS
  <2> HIDE DEF V
  <2> QED
    BY <2>1, <2>2, <2>3, <2>4
<1> QED
  BY <1>2, <1>3

\* Sums and differences of tick counts are tick counts.
LEMMA PlusIs ==
    ASSUME NEW a \in 0 .. MaxDelay, NEW b \in 0 .. MaxDelay
    PROVE  /\ Plus(a, b) \in 0 .. MaxDelay
           /\ Minus(a, b) \in 0 .. MaxDelay
           /\ a # b => Minus(a, b) # 0
           /\ Plus(a, b) = a + b \/ Plus(a, b) = a + b - TickRange
           /\ Plus(a, b) < a <=> a + b >= TickRange
  BY DelayConstants DEF Plus, Minus, MaxDelay

-----------------------------------------------------------------------------
(* What the tick and blocking do to the clock and the lists.                *)

ListsTrue == ClockOK /\ ListsOK /\ NoneOverslept /\ NextIsEarliest

\* After xTaskIncrementTick the lists are true of the new time.
LEMMA IncrementTickKeeps ==
    ASSUME ListsTrue, IncrementTick,
           time' \in Nat, pended' \in Nat, pendingReady' \subseteq Tasks
    PROVE  /\ ListsTrue'
           /\ Tick' = Tick + 1
           /\ \A t \in Tasks :
                (list[t] \in {"delayed", "overflow"} /\ list'[t] = "ready")
                    => Tick' = due[t]
<1> DEFINE n == Plus(count, 1)
           l == IF n = 0 THEN Switched(list) ELSE list
           L == {t \in Tasks : l[t] = "delayed"}
           from == IF n = 0 THEN Unblock(L, value) ELSE next
           woken == IF n >= from THEN Woken(l, n) ELSE {}
           rest == {t \in Tasks : list'[t] = "delayed"}
<1>0. TickRange \in Nat /\ TickRange > 1 /\ MaxDelay = TickRange - 1
  BY DelayConstants DEF MaxDelay
<1>1. /\ count' = n
      /\ turn' = IF n = 0 THEN turn + TickRange ELSE turn
      /\ overflows' = IF n = 0 THEN overflows + 1 ELSE overflows
      /\ list' = [t \in Tasks |-> IF t \in woken THEN "ready" ELSE l[t]]
      /\ waiting' = [t \in Tasks |-> waiting[t] /\ t \notin woken]
      /\ next' = IF n >= from THEN Unblock(rest, value) ELSE from
      /\ value' = value /\ due' = due
  BY DEF IncrementTick, Overflow
<1>2. /\ count \in 0 .. MaxDelay /\ next \in 0 .. MaxDelay
      /\ turn \in Nat /\ overflows \in Nat /\ turn = overflows * TickRange
  BY DEF ListsTrue, ClockOK
<1>3. /\ list \in [Tasks -> {"ready", "delayed", "overflow", "forever"}]
      /\ value \in [Tasks -> 0 .. MaxDelay]
      /\ waiting \in [Tasks -> BOOLEAN] /\ due \in [Tasks -> Nat]
  BY DEF ListsTrue, ListsOK
<1>4. n \in 0 .. MaxDelay /\ n = IF count = MaxDelay THEN 0 ELSE count + 1
  BY <1>0, <1>2 DEF Plus
<1>5. /\ \A t \in Tasks : list[t] = "delayed" => count < value[t]
                                             /\ due[t] = turn + value[t]
      /\ \A t \in Tasks : list[t] = "overflow" => due[t] = turn + TickRange + value[t]
      /\ \A t \in Tasks : list[t] = "delayed" => next <= value[t]
  BY <1>0, <1>2, <1>3 DEF ListsTrue, NoneOverslept, NextIsEarliest, On, Tick
<1>6. l \in [Tasks -> {"ready", "delayed", "overflow", "forever"}]
  BY <1>3 DEF Switched
<1>7. Tick' = Tick + 1
  BY <1>0, <1>1, <1>2, <1>4 DEF Tick
\* The lists after a possible switch, seen from the new time.
<1>8. \A t \in Tasks :
        /\ l[t] = "delayed" => n <= value[t] /\ due[t] = turn' + value[t]
        /\ l[t] = "overflow" => due[t] = turn' + TickRange + value[t]
  <2>1. CASE n = 0
    <3>1. count = MaxDelay /\ turn' = turn + TickRange
      BY <2>1, <1>0, <1>1, <1>2, <1>4
    <3>2. \A t \in Tasks : value[t] \in 0 .. MaxDelay
      BY <1>3
    <3>3. \A t \in Tasks : list[t] # "delayed"
      BY <3>1, <3>2, <1>5, <1>0
    <3>4. \A t \in Tasks : /\ l[t] = "delayed" => list[t] = "overflow"
                           /\ l[t] = "overflow" => list[t] = "delayed"
      BY <2>1, <1>3 DEF Switched
    <3> HIDE DEF l, n
    <3> QED
      BY <2>1, <3>1, <3>2, <3>3, <3>4, <1>5, <1>0, <1>2
  <2>2. CASE n # 0
    <3>1. l = list /\ turn' = turn /\ n = count + 1
      BY <2>2, <1>1, <1>4
    <3>2. \A t \in Tasks : value[t] \in 0 .. MaxDelay
      BY <1>3
    <3> HIDE DEF l, n
    <3> QED
      BY <3>1, <3>2, <1>5, <1>0, <1>2
  <2> QED
    BY <2>1, <2>2
<1>9. from \in 0 .. MaxDelay /\ \A t \in L : from <= value[t]
  <2>1. CASE n = 0
    <3>1. L \subseteq Tasks
      OBVIOUS
    <3> HIDE DEF L, n
    <3> QED
      BY <2>1, <3>1, <1>3, UnblockIs
  <2>2. CASE n # 0
    BY <2>2, <1>2, <1>5
  <2> QED
    BY <2>1, <2>2
<1>10. woken = IF n >= from THEN {t \in L : value[t] <= n} ELSE {}
  BY DEF Woken
<1>11. \A t \in Tasks : /\ t \in woken => value[t] = n /\ l[t] = "delayed"
                        /\ l[t] = "delayed" /\ t \notin woken => n < value[t]
  <2>1. \A t \in Tasks : value[t] \in 0 .. MaxDelay
    BY <1>3
  <2>2. \A t \in Tasks : t \in L <=> l[t] = "delayed"
    OBVIOUS
  <2> HIDE DEF n, l, L, from, woken
  <2> QED
    BY <2>1, <2>2, <1>0, <1>4, <1>8, <1>9, <1>10
<1> HIDE DEF n, l, L, from, woken
<1>12. \A t \in Tasks : list'[t] = IF t \in woken THEN "ready" ELSE l[t]
  BY <1>1
<1>13. rest \subseteq Tasks /\ \A t \in Tasks : t \in rest <=> list'[t] = "delayed"
  OBVIOUS
<1> HIDE DEF rest
<1>14. Unblock(rest, value) \in 0 .. MaxDelay
       /\ \A t \in rest : Unblock(rest, value) <= value[t]
  BY <1>3, <1>13, UnblockIs
<1>15. ClockOK'
  <2>1. next' \in 0 .. MaxDelay
    BY <1>1, <1>9, <1>14
  <2>2. turn' \in Nat /\ overflows' \in Nat /\ turn' = overflows' * TickRange
    BY <1>0, <1>1, <1>2
  <2>3. MaxDelay' = MaxDelay
    BY DEF MaxDelay
  <2> QED
    BY <2>1, <2>2, <2>3, <1>1, <1>4 DEF ClockOK
<1>16. ListsOK'
  <2>1. list' \in [Tasks -> {"ready", "delayed", "overflow", "forever"}]
    BY <1>1, <1>6
  <2>2. waiting' \in [Tasks -> BOOLEAN]
    BY <1>1, <1>3
  <2>3. MaxDelay' = MaxDelay /\ Tasks' = Tasks
    BY DEF MaxDelay, Tasks
  <2> QED
    BY <2>1, <2>2, <2>3, <1>1, <1>3 DEF ListsOK
<1>17. NoneOverslept'
  <2>1. \A t \in Tasks : list'[t] = "delayed" =>
                           due[t] = turn' + value[t] /\ turn' + n < due[t]
    <3>1. \A t \in Tasks : value[t] \in 0 .. MaxDelay
      BY <1>3
    <3>2. turn' \in Nat
      BY <1>15 DEF ClockOK
    <3> QED
      BY <3>1, <3>2, <1>0, <1>4, <1>8, <1>11, <1>12
  <2>2. \A t \in Tasks : list'[t] = "overflow" => due[t] = turn' + TickRange + value[t]
    BY <1>8, <1>12
  <2> QED
    BY <2>1, <2>2, <1>1 DEF NoneOverslept, Tick, Tasks
<1>18. NextIsEarliest'
  <2>1. \A t \in Tasks : list'[t] = "delayed" => next' <= value[t]
    <3>1. CASE n >= from
      BY <3>1, <1>1, <1>13, <1>14
    <3>2. CASE ~(n >= from)
      <4>1. \A t \in Tasks : list'[t] = "delayed" => t \in L
        BY <1>12 DEF L
      <4> QED
        BY <3>2, <4>1, <1>1, <1>9
    <3> QED
      BY <3>1, <3>2
  <2> QED
    BY <2>1, <1>1 DEF NextIsEarliest, On, Tasks
<1>19. ASSUME NEW t \in Tasks, list[t] \in {"delayed", "overflow"}, list'[t] = "ready"
       PROVE  Tick' = due[t]
  <2>1. l[t] \in {"delayed", "overflow"}
    BY <1>19, <1>3 DEF l, Switched
  <2>2. t \in woken
    BY <2>1, <1>19, <1>12
  <2>3. value[t] = n /\ due[t] = turn' + value[t]
    BY <2>2, <1>8, <1>11
  <2> QED
    BY <2>3, <1>1 DEF Tick
<1> QED
  BY <1>7, <1>15, <1>16, <1>17, <1>18, <1>19 DEF ListsTrue

\* After prvAddCurrentTaskToDelayedList they are true with the new task.
LEMMA AddKeeps ==
    ASSUME ListsTrue, NEW t \in Tasks, NEW n \in 1 .. MaxDelay,
           NEW b \in BOOLEAN, AddToDelayedList(t, n, b),
           waiting' \in [Tasks -> BOOLEAN],
           time' = time, pended' = pended, pendingReady' = pendingReady
    PROVE  ListsTrue' /\ Tick' = Tick
<1> DEFINE wake == Plus(count, n)
<1>0. TickRange \in Nat /\ TickRange > 1 /\ MaxDelay = TickRange - 1
  BY DelayConstants DEF MaxDelay
<1>1. /\ count \in 0 .. MaxDelay /\ next \in 0 .. MaxDelay
      /\ turn \in Nat /\ overflows \in Nat /\ turn = overflows * TickRange
      /\ time \in Nat /\ pended \in Nat
  BY DEF ListsTrue, ClockOK
<1>2. /\ list \in [Tasks -> {"ready", "delayed", "overflow", "forever"}]
      /\ value \in [Tasks -> 0 .. MaxDelay]
      /\ due \in [Tasks -> Nat] /\ pendingReady \subseteq Tasks
  BY DEF ListsTrue, ListsOK
<1>3. MaxDelay' = MaxDelay /\ Tasks' = Tasks
  BY DEF MaxDelay, Tasks
<1>4. /\ \A u \in Tasks : list[u] = "delayed" => /\ due[u] = turn + value[u]
                                                /\ turn + count < due[u]
      /\ \A u \in Tasks : list[u] = "overflow" => due[u] = turn + TickRange + value[u]
      /\ \A u \in Tasks : list[u] = "delayed" => next <= value[u]
  BY DEF ListsTrue, NoneOverslept, NextIsEarliest, On, Tick
<1>5. /\ wake \in 0 .. MaxDelay
      /\ wake < count => wake = count + n - TickRange
      /\ wake >= count => wake = count + n
  BY <1>0, <1>1 DEF Plus
<1>6. turn' = turn /\ count' = count /\ overflows' = overflows
  BY DEF AddToDelayedList, clock
<1>7. CASE n = MaxDelay /\ b
  <2>1. /\ list' = [list EXCEPT ![t] = "forever"]
        /\ next' = next /\ value' = value /\ due' = due
    BY <1>7 DEF AddToDelayedList, clock
  <2>2. ClockOK'
    BY <2>1, <1>1, <1>3, <1>6 DEF ClockOK
  <2>3. ListsOK'
    BY <2>1, <1>2, <1>3 DEF ListsOK
  <2>4. \A u \in Tasks : list'[u] # "forever" => list'[u] = list[u]
    BY <2>1, <1>2
  <2>5. NoneOverslept'
    BY <2>1, <2>4, <1>4, <1>3, <1>6 DEF NoneOverslept, Tick
  <2>6. NextIsEarliest'
    BY <2>1, <2>4, <1>4, <1>3 DEF NextIsEarliest, On
  <2> QED
    BY <2>2, <2>3, <2>5, <2>6, <1>6 DEF ListsTrue, Tick
<1>8. CASE ~(n = MaxDelay /\ b)
  <2>1. /\ list' = [list EXCEPT ![t] = IF wake < count THEN "overflow"
                                       ELSE "delayed"]
        /\ value' = [value EXCEPT ![t] = wake]
        /\ due' = [due EXCEPT ![t] = turn + count + n]
        /\ next' = IF wake >= count /\ wake < next THEN wake ELSE next
    BY <1>8 DEF AddToDelayedList, Tick
  <2> HIDE DEF wake
  <2>2. ClockOK'
    BY <2>1, <1>1, <1>3, <1>5, <1>6 DEF ClockOK
  <2>3. ListsOK'
    <3>1. list' \in [Tasks -> {"ready", "delayed", "overflow", "forever"}]
      BY <2>1, <1>2
    <3>2. value' \in [Tasks -> 0 .. MaxDelay]
      BY <2>1, <1>2, <1>5
    <3>3. due' \in [Tasks -> Nat]
      <4>1. turn + count + n \in Nat
        BY <1>0, <1>1
      <4> QED
        BY <4>1, <2>1, <1>2
    <3> QED
      BY <3>1, <3>2, <3>3, <1>2, <1>3 DEF ListsOK
  <2>4. \A u \in Tasks \ {t} : /\ list'[u] = list[u] /\ value'[u] = value[u]
                               /\ due'[u] = due[u]
    BY <2>1, <1>2
  <2>5. /\ list'[t] = IF wake < count THEN "overflow" ELSE "delayed"
        /\ value'[t] = wake /\ due'[t] = turn + count + n
    BY <2>1, <1>2
  <2>6. NoneOverslept'
    <3>1. \A u \in Tasks : list'[u] = "delayed" => /\ due'[u] = turn + value'[u]
                                                  /\ turn + count < due'[u]
      <4>1. ASSUME list'[t] = "delayed"
            PROVE  due'[t] = turn + value'[t] /\ turn + count < due'[t]
        <5>1. wake >= count
          BY <4>1, <2>5, <1>1, <1>5
        <5> QED
          BY <5>1, <2>5, <1>0, <1>1, <1>5
      <4> QED
        BY <4>1, <2>4, <1>4
    <3>2. \A u \in Tasks : list'[u] = "overflow" => due'[u] = turn + TickRange + value'[u]
      <4>1. ASSUME list'[t] = "overflow"
            PROVE  due'[t] = turn + TickRange + value'[t]
        <5>1. wake < count
          BY <4>1, <2>5
        <5> QED
          BY <5>1, <2>5, <1>0, <1>1, <1>5
      <4> QED
        BY <4>1, <2>4, <1>4
    <3> QED
      BY <3>1, <3>2, <1>3, <1>6 DEF NoneOverslept, Tick
  <2>7. NextIsEarliest'
    <3>1. next' <= next
      BY <2>1, <1>1, <1>5
    <3>2. list'[t] = "delayed" => next' <= value'[t]
      BY <2>1, <2>5, <1>1, <1>5
    <3>3. \A u \in Tasks \ {t} : list'[u] = "delayed" => next' <= value'[u]
      <4>1. \A u \in Tasks : value[u] \in 0 .. MaxDelay
        BY <1>2
      <4>2. next' \in Int
        BY <2>1, <1>1, <1>5
      <4> QED
        BY <3>1, <4>1, <4>2, <2>4, <1>1, <1>4
    <3> QED
      BY <3>2, <3>3, <1>3 DEF NextIsEarliest, On
  <2> QED
    BY <2>2, <2>3, <2>6, <2>7, <1>6 DEF ListsTrue, Tick
<1> QED
  BY <1>7, <1>8

\* They stay true when neither the clock nor the lists change.
LEMMA SameKeeps ==
    ASSUME ListsTrue, UNCHANGED <<clock, lists, pendingReady>>,
           time' \in Nat, pended' \in Nat
    PROVE  ListsTrue' /\ Tick' = Tick
<1>1. MaxDelay' = MaxDelay /\ Tasks' = Tasks
  BY DEF MaxDelay, Tasks
<1>2. ClockOK'
  BY <1>1 DEF ListsTrue, ClockOK, clock
<1>3. ListsOK'
  BY <1>1 DEF ListsTrue, ListsOK, lists
<1>4. NoneOverslept' /\ NextIsEarliest'
  BY <1>1 DEF ListsTrue, NoneOverslept, NextIsEarliest, On, Tick, clock, lists
<1> QED
  BY <1>2, <1>3, <1>4 DEF ListsTrue, Tick, clock

\* They stay true when tasks are made ready, if xNextTaskUnblockTime stays or
\* is computed anew.
LEMMA ReadyKeeps ==
    ASSUME ListsTrue, NEW S \in SUBSET Tasks,
           list' = [u \in Tasks |-> IF u \in S THEN "ready" ELSE list[u]],
           \/ next' = next
           \/ next' = Unblock({u \in Tasks : list'[u] = "delayed"}, value),
           waiting' \in [Tasks -> BOOLEAN], pendingReady' \subseteq Tasks,
           UNCHANGED <<time, turn, count, overflows, value, due, pended>>
    PROVE  ListsTrue' /\ Tick' = Tick
<1> DEFINE L == {u \in Tasks : list'[u] = "delayed"}
<1>1. MaxDelay' = MaxDelay /\ Tasks' = Tasks
  BY DEF MaxDelay, Tasks
<1>2. /\ list \in [Tasks -> {"ready", "delayed", "overflow", "forever"}]
      /\ value \in [Tasks -> 0 .. MaxDelay]
  BY DEF ListsTrue, ListsOK
<1>3. Unblock(L, value) \in 0 .. MaxDelay /\ \A u \in L : Unblock(L, value) <= value[u]
  <2>1. L \subseteq Tasks
    OBVIOUS
  <2> HIDE DEF L
  <2> QED
    BY <2>1, <1>2, UnblockIs
<1>4. \A u \in Tasks : list'[u] # "ready" => list'[u] = list[u]
  OBVIOUS
<1>5. next' = next \/ next' = Unblock(L, value)
  OBVIOUS
<1>6. \A u \in Tasks : u \in L <=> list'[u] = "delayed"
  OBVIOUS
<1> HIDE DEF L
<1>7. ClockOK'
  BY <1>1, <1>3, <1>5 DEF ListsTrue, ClockOK
<1>8. ListsOK'
  BY <1>1, <1>2 DEF ListsTrue, ListsOK
<1>9. NoneOverslept'
  BY <1>1, <1>4 DEF ListsTrue, NoneOverslept, Tick
<1>10. NextIsEarliest'
  <2>1. \A u \in Tasks : list[u] = "delayed" => next <= value[u]
    BY DEF ListsTrue, NextIsEarliest, On
  <2>2. \A u \in Tasks : list'[u] = "delayed" => next' <= value[u]
    BY <2>1, <1>3, <1>4, <1>5, <1>6
  <2> QED
    BY <2>2, <1>1 DEF NextIsEarliest, On
<1> QED
  BY <1>7, <1>8, <1>9, <1>10 DEF ListsTrue, Tick

-----------------------------------------------------------------------------
(* The invariant is inductive.                                              *)

LEMMA InitEstablishes == Init => IInv
<1> SUFFICES ASSUME Init
             PROVE  IInv
  OBVIOUS
<1>0. TickRange \in Nat /\ TickRange > 1 /\ MaxDelay = TickRange - 1
  BY DelayConstants DEF MaxDelay
<1>1. ClockOK
  BY <1>0 DEF Init, ClockOK
<1>2. ListsOK
  BY <1>0 DEF Init, ListsOK
<1>3. CallsOK
  <2>1. timeout \in [Tasks -> [at : 0 .. MaxDelay, overflows : Nat]]
    <3>1. [at |-> 0, overflows |-> 0] \in [at : 0 .. MaxDelay, overflows : Nat]
      BY <1>0
    <3> QED
      BY <3>1 DEF Init
  <2>2. /\ arg \in [Tasks -> 0 .. MaxDelay] /\ previous \in [Tasks -> 0 .. MaxDelay]
        /\ asked \in [Tasks -> Nat]
    BY <1>0 DEF Init
  <2>3. /\ pc \in [Tasks -> {"run", "delay", "until", "look", "check", "resume"}]
        /\ after \in [Tasks -> {"run", "look"}]
        /\ holder \in Tasks \cup {None} /\ catching \in BOOLEAN
    BY DEF Init
  <2> QED
    BY <2>1, <2>2, <2>3 DEF CallsOK
<1>4. NoTickLost
  BY DEF Init, NoTickLost, Tick
<1>5. NoneOverslept /\ NextIsEarliest
  BY DEF Init, NoneOverslept, NextIsEarliest, On
<1>6. CallsProper
  BY DEF Init, CallsProper
<1> QED
  BY <1>1, <1>2, <1>3, <1>4, <1>5, <1>6 DEF IInv, TypeOK

\* The part of the invariant that is about calls of the interface.
CallsTrue == CallsOK /\ CallsProper

LEMMA Parts == IInv <=> ListsTrue /\ CallsTrue /\ NoTickLost
  BY DEF IInv, TypeOK, ListsTrue, CallsTrue

\* A step of one task's call: it goes to p with n ticks left to ask for.
LEMMA CallKeeps ==
    ASSUME CallsTrue, NEW t \in Tasks, pended' = pended, catching' = catching,
           NEW p \in {"run", "delay", "until", "look", "check", "resume"},
           pc' = [pc EXCEPT ![t] = p],
           NEW n \in 0 .. MaxDelay, arg' = [arg EXCEPT ![t] = n],
           NEW q \in {"run", "look"}, after' = [after EXCEPT ![t] = q],
           p # "run" \/ q = "look" => n >= 1,
           holder' \in Tasks \cup {None},
           previous' \in [Tasks -> 0 .. MaxDelay],
           timeout' \in [Tasks -> [at : 0 .. MaxDelay, overflows : Nat]],
           asked' \in [Tasks -> Nat]
    PROVE  CallsTrue'
<1>1. MaxDelay' = MaxDelay /\ Tasks' = Tasks
  BY DEF MaxDelay, Tasks
<1>2. /\ pc \in [Tasks -> {"run", "delay", "until", "look", "check", "resume"}]
      /\ after \in [Tasks -> {"run", "look"}]
      /\ arg \in [Tasks -> 0 .. MaxDelay]
  BY DEF CallsTrue, CallsOK
<1>3. CallsOK'
  <2>1. pc' \in [Tasks -> {"run", "delay", "until", "look", "check", "resume"}]
    BY <1>2
  <2>2. after' \in [Tasks -> {"run", "look"}]
    BY <1>2
  <2>3. arg' \in [Tasks -> 0 .. MaxDelay]
    BY <1>2
  <2> QED
    BY <2>1, <2>2, <2>3, <1>1 DEF CallsTrue, CallsOK
<1>4. CallsProper'
  <2>1. pc'[t] = p /\ after'[t] = q /\ arg'[t] = n
    BY <1>2
  <2>2. \A u \in Tasks \ {t} : pc'[u] = pc[u] /\ after'[u] = after[u] /\ arg'[u] = arg[u]
    BY <1>2
  <2> QED
    BY <2>1, <2>2, <1>1 DEF CallsTrue, CallsProper
<1> QED
  BY <1>3, <1>4 DEF CallsTrue

\* Calls are not touched by the tick and by events.
LEMMA CallsSame ==
    ASSUME CallsTrue, UNCHANGED <<calls, holder, catching, pc, after>>,
           catching => pended' > 0
    PROVE  CallsTrue'
<1>1. MaxDelay' = MaxDelay /\ Tasks' = Tasks
  BY DEF MaxDelay, Tasks
<1> QED
  BY <1>1 DEF CallsTrue, CallsOK, CallsProper, calls

\* What a step has to show: the invariant and, for WokenOnTime, that a task a
\* tick wakes is due.
Good ==
    /\ IInv'
    /\ \A t \in Tasks :
         (/\ list[t] \in {"delayed", "overflow"} /\ list'[t] = "ready"
          /\ Tick' # Tick) => Tick' = due[t]

LEMMA TickIsGood ==
    ASSUME IInv, TickInterrupt
    PROVE  Good
<1>1. ListsTrue /\ CallsTrue /\ NoTickLost
  BY Parts
<1>2. time \in Nat /\ pended \in Nat /\ turn \in Nat /\ count \in Nat
  BY <1>1, DelayConstants DEF ListsTrue, ClockOK, MaxDelay
<1>3. time' = time + 1 /\ ~catching /\ pendingReady' = pendingReady
  BY DEF TickInterrupt
<1>4. CallsTrue'
  BY <1>1, <1>3, CallsSame DEF TickInterrupt
<1>5. CASE holder = None
  <2>1. IncrementTick /\ pended' = pended
    BY <1>5 DEF TickInterrupt
  <2>2. pendingReady' \subseteq Tasks
    BY <1>1, <1>3 DEF ListsTrue, ListsOK
  <2>3. /\ ListsTrue' /\ Tick' = Tick + 1
        /\ \A t \in Tasks :
             (list[t] \in {"delayed", "overflow"} /\ list'[t] = "ready")
                 => Tick' = due[t]
    BY <2>1, <2>2, <1>1, <1>2, <1>3, IncrementTickKeeps
  <2>4. NoTickLost'
    BY <2>1, <2>3, <1>1, <1>2, <1>3 DEF NoTickLost, Tick
  <2> QED
    BY <2>3, <2>4, <1>4, Parts DEF Good, IInv, TypeOK, ListsTrue, CallsTrue
<1>6. CASE holder # None
  <2>1. pended' = pended + 1 /\ UNCHANGED <<clock, lists, pendingReady>>
    BY <1>3, <1>6 DEF TickInterrupt
  <2>2. ListsTrue' /\ Tick' = Tick
    BY <2>1, <1>1, <1>2, <1>3, SameKeeps
  <2>3. NoTickLost'
    BY <2>1, <2>2, <1>1, <1>2, <1>3 DEF NoTickLost, Tick
  <2> QED
    BY <2>2, <2>3, <1>4 DEF Good, IInv, TypeOK, ListsTrue, CallsTrue
<1> QED
  BY <1>5, <1>6

LEMMA CatchUpIsGood ==
    ASSUME IInv, NEW t \in Tasks, CatchUp(t)
    PROVE  Good
<1>1. ListsTrue /\ CallsTrue /\ NoTickLost
  BY Parts
<1>2. time \in Nat /\ pended \in Nat /\ turn \in Nat /\ count \in Nat
  BY <1>1, DelayConstants DEF ListsTrue, ClockOK, MaxDelay
<1>3. /\ catching /\ pended > 0 /\ pended' = pended - 1 /\ time' = time
      /\ pendingReady' = pendingReady /\ IncrementTick
  BY <1>1 DEF CatchUp, CallsTrue, CallsProper
<1>4. pendingReady' \subseteq Tasks
  BY <1>1, <1>3 DEF ListsTrue, ListsOK
<1>5. /\ ListsTrue' /\ Tick' = Tick + 1
      /\ \A u \in Tasks :
           (list[u] \in {"delayed", "overflow"} /\ list'[u] = "ready")
               => Tick' = due[u]
  BY <1>1, <1>2, <1>3, <1>4, IncrementTickKeeps
<1>6. NoTickLost'
  BY <1>1, <1>2, <1>3, <1>5 DEF NoTickLost, Tick
<1>7. CallsTrue'
  <2>1. CASE pended = 1
    <3>1. /\ catching' = FALSE /\ holder' = None /\ pc' = [pc EXCEPT ![t] = after[t]]
          /\ after' = after /\ UNCHANGED calls
      BY <2>1 DEF CatchUp, Goto
    <3>2. MaxDelay' = MaxDelay /\ Tasks' = Tasks
      BY DEF MaxDelay, Tasks
    <3>3. CallsOK'
      BY <3>1, <3>2, <1>1 DEF CallsTrue, CallsOK, calls
    <3>4. \A u \in Tasks : pc'[u] = pc[u] \/ (u = t /\ pc'[u] = after[u])
      BY <3>1, <1>1 DEF CallsTrue, CallsOK
    <3>5. after \in [Tasks -> {"run", "look"}]
      BY <1>1 DEF CallsTrue, CallsOK
    <3>6. \A u \in Tasks : pc'[u] # "run" \/ after[u] = "look" =>
                             pc[u] # "run" \/ after[u] = "look"
      BY <3>4, <3>5
    <3>7. CallsProper'
      BY <3>1, <3>2, <3>6, <1>1 DEF CallsTrue, CallsProper, calls
    <3> QED
      BY <3>3, <3>7 DEF CallsTrue
  <2>2. CASE pended # 1
    <3>1. UNCHANGED <<calls, holder, catching, pc, after>>
      BY <2>2 DEF CatchUp
    <3>2. pended' > 0
      BY <2>2, <1>2, <1>3
    <3> QED
      BY <3>1, <3>2, <1>1, CallsSame
  <2> QED
    BY <2>1, <2>2
<1> QED
  BY <1>5, <1>6, <1>7 DEF Good, IInv, TypeOK, ListsTrue, CallsTrue

\* A step that is no tick is good if it keeps the parts of the invariant.
LEMMA QuietIsGood ==
    ASSUME IInv, ListsTrue', Tick' = Tick, CallsTrue', time' = time,
           pended' = pended
    PROVE  Good
<1>1. NoTickLost'
  BY DEF IInv, NoTickLost
<1> QED
  BY <1>1 DEF Good, IInv, TypeOK, ListsTrue, CallsTrue

LEMMA ResumeAllIsGood ==
    ASSUME IInv, NEW t \in Tasks, ResumeAll(t)
    PROVE  Good
<1>1. ListsTrue /\ CallsTrue
  BY Parts
<1>2. /\ UNCHANGED <<time, turn, count, overflows, value, waiting, due, calls,
                     pended, after>>
      /\ pendingReady' = {} /\ ~catching
      /\ list' = [u \in Tasks |-> IF u \in pendingReady THEN "ready" ELSE list[u]]
      /\ \/ next' = next
         \/ next' = Unblock({u \in Tasks : list'[u] = "delayed"}, value)
  BY DEF ResumeAll
<1>3. pendingReady \in SUBSET Tasks /\ waiting' \in [Tasks -> BOOLEAN]
  BY <1>1, <1>2 DEF ListsTrue, ListsOK
<1>4. ListsTrue' /\ Tick' = Tick
  BY <1>1, <1>2, <1>3, ReadyKeeps
<1>5. CallsTrue'
  <2>1. CASE pended > 0
    <3>1. catching' = TRUE /\ UNCHANGED <<holder, pc, after, calls, pended>>
      BY <2>1 DEF ResumeAll
    <3>2. MaxDelay' = MaxDelay /\ Tasks' = Tasks
      BY DEF MaxDelay, Tasks
    <3> QED
      BY <2>1, <3>1, <3>2, <1>1 DEF CallsTrue, CallsOK, CallsProper, calls
  <2>2. CASE ~(pended > 0)
    <3>1. /\ holder' = None /\ pc' = [pc EXCEPT ![t] = after[t]]
          /\ catching' = catching /\ UNCHANGED <<after, calls, pended>>
      BY <2>2 DEF ResumeAll, Goto
    <3>2. MaxDelay' = MaxDelay /\ Tasks' = Tasks
      BY DEF MaxDelay, Tasks
    <3>3. CallsOK'
      BY <3>1, <3>2, <1>1 DEF CallsTrue, CallsOK, calls
    <3>4. \A u \in Tasks : pc'[u] = pc[u] \/ (u = t /\ pc'[u] = after[u])
      BY <3>1, <1>1 DEF CallsTrue, CallsOK
    <3>5. after \in [Tasks -> {"run", "look"}]
      BY <1>1 DEF CallsTrue, CallsOK
    <3>6. \A u \in Tasks : pc'[u] # "run" \/ after[u] = "look" =>
                             pc[u] # "run" \/ after[u] = "look"
      BY <3>4, <3>5
    <3>7. CallsProper'
      BY <3>1, <3>2, <3>6, <1>1, <1>2 DEF CallsTrue, CallsProper, calls
    <3> QED
      BY <3>3, <3>7 DEF CallsTrue
  <2> QED
    BY <2>1, <2>2
<1> QED
  BY <1>2, <1>4, <1>5, QuietIsGood

LEMMA EventIsGood ==
    ASSUME IInv, NEW t \in Tasks, Event(t)
    PROVE  Good
<1>1. ListsTrue /\ CallsTrue
  BY Parts
<1>2. /\ UNCHANGED <<time, clock, value, due, calls, pended, holder, catching,
                     pc, after>>
      /\ waiting' = [waiting EXCEPT ![t] = FALSE] /\ ~catching
  BY DEF Event
<1>3. /\ list \in [Tasks -> {"ready", "delayed", "overflow", "forever"}]
      /\ waiting \in [Tasks -> BOOLEAN] /\ pendingReady \subseteq Tasks
  BY <1>1 DEF ListsTrue, ListsOK
<1>4. waiting' \in [Tasks -> BOOLEAN]
  BY <1>2, <1>3
<1>5. CallsTrue'
  BY <1>1, <1>2, CallsSame
<1>6. UNCHANGED <<time, turn, count, overflows, next, value, due, pended>>
  BY <1>2 DEF clock
<1>7. pendingReady' \subseteq Tasks
  BY <1>3 DEF Event
<1>8. \E S \in SUBSET Tasks :
        list' = [u \in Tasks |-> IF u \in S THEN "ready" ELSE list[u]]
  <2>1. CASE holder = None
    <3>1. list' = [u \in Tasks |-> IF u \in {t} THEN "ready" ELSE list[u]]
      BY <2>1, <1>3 DEF Event
    <3> QED
      BY <3>1
  <2>2. CASE holder # None
    <3>1. list' = list
      BY <2>2 DEF Event
    <3> DEFINE S == {}
    <3>2. list' = [u \in Tasks |-> IF u \in S THEN "ready" ELSE list[u]]
      BY <3>1, <1>3
    <3>3. S \in SUBSET Tasks
      OBVIOUS
    <3> HIDE DEF S
    <3> QED
      BY <3>2, <3>3
  <2> QED
    BY <2>1, <2>2
<1>9. ListsTrue' /\ Tick' = Tick
  <2>1. PICK S \in SUBSET Tasks :
               list' = [u \in Tasks |-> IF u \in S THEN "ready" ELSE list[u]]
    BY <1>8
  <2>2. next' = next
    BY <1>6
  <2> QED
    BY <2>1, <2>2, <1>1, <1>4, <1>6, <1>7, ReadyKeeps
<1> QED
  BY <1>2, <1>5, <1>9, QuietIsGood

LEMMA CallIsGood ==
    ASSUME IInv, NEW t \in Tasks, NEW n \in Times,
           NEW p \in {"delay", "until"}, Call(t, n, p)
    PROVE  Good
<1>1. ListsTrue /\ CallsTrue
  BY Parts
<1>2. /\ holder' = t /\ arg' = [arg EXCEPT ![t] = n] /\ pc' = [pc EXCEPT ![t] = p]
      /\ UNCHANGED <<time, clock, lists, previous, timeout, asked, pended,
                     catching, pendingReady, after>>
  BY DEF Call, SuspendAll, Goto
<1>3. time' \in Nat /\ pended' \in Nat
  BY <1>1, <1>2 DEF ListsTrue, ClockOK
<1>4. ListsTrue' /\ Tick' = Tick
  BY <1>1, <1>2, <1>3, SameKeeps
<1>5. n \in 0 .. MaxDelay /\ n >= 1
  BY DelayConstants DEF MaxDelay
<1>6. after[t] \in {"run", "look"} /\ after' = [after EXCEPT ![t] = after[t]]
  BY <1>1, <1>2 DEF CallsTrue, CallsOK
<1>7. /\ previous' \in [Tasks -> 0 .. MaxDelay]
      /\ timeout' \in [Tasks -> [at : 0 .. MaxDelay, overflows : Nat]]
      /\ asked' \in [Tasks -> Nat]
  BY <1>1, <1>2 DEF CallsTrue, CallsOK
<1>8. CallsTrue'
  BY <1>1, <1>2, <1>5, <1>6, <1>7, CallKeeps
<1> QED
  BY <1>2, <1>4, <1>8, QuietIsGood

LEMMA DelayBlockIsGood ==
    ASSUME IInv, NEW t \in Tasks, DelayBlock(t)
    PROVE  Good
<1>1. ListsTrue /\ CallsTrue
  BY Parts
<1>2. /\ pc[t] = "delay" /\ AddToDelayedList(t, arg[t], FALSE)
      /\ pc' = [pc EXCEPT ![t] = "resume"]
      /\ UNCHANGED <<time, waiting, calls, pended, holder, catching,
                     pendingReady, after>>
  BY DEF DelayBlock, Goto
<1>3. /\ arg \in [Tasks -> 0 .. MaxDelay] /\ arg[t] >= 1
      /\ after \in [Tasks -> {"run", "look"}]
  BY <1>1, <1>2 DEF CallsTrue, CallsOK, CallsProper
<1>4. arg[t] \in 1 .. MaxDelay
  BY <1>3, DelayConstants DEF MaxDelay
<1>5. waiting' \in [Tasks -> BOOLEAN]
  BY <1>1, <1>2 DEF ListsTrue, ListsOK
<1>6. ListsTrue' /\ Tick' = Tick
  BY <1>1, <1>2, <1>4, <1>5, AddKeeps
<1>7. arg' = [arg EXCEPT ![t] = arg[t]] /\ after' = [after EXCEPT ![t] = after[t]]
  BY <1>2, <1>3 DEF calls
<1>8. /\ previous' \in [Tasks -> 0 .. MaxDelay]
      /\ timeout' \in [Tasks -> [at : 0 .. MaxDelay, overflows : Nat]]
      /\ asked' \in [Tasks -> Nat] /\ holder' \in Tasks \cup {None}
  BY <1>1, <1>2 DEF CallsTrue, CallsOK, calls
<1>9. arg[t] \in 0 .. MaxDelay /\ after[t] \in {"run", "look"}
  BY <1>3
<1>10. CallsTrue'
  BY <1>1, <1>2, <1>3, <1>7, <1>8, <1>9, CallKeeps
<1> QED
  BY <1>2, <1>6, <1>10, QuietIsGood

LEMMA DelayUntilBlockIsGood ==
    ASSUME IInv, NEW t \in Tasks, DelayUntilBlock(t)
    PROVE  Good
<1> DEFINE before == previous[t]
           wake == Plus(before, arg[t])
<1>1. ListsTrue /\ CallsTrue
  BY Parts
<1>2. /\ pc[t] = "until" /\ pc' = [pc EXCEPT ![t] = "resume"]
      /\ previous' = [previous EXCEPT ![t] = wake]
      /\ asked' = [asked EXCEPT ![t] = @ + arg[t]]
      /\ UNCHANGED <<time, waiting, arg, timeout, pended, holder, catching,
                     pendingReady, after>>
  BY DEF DelayUntilBlock, Goto
<1>3. /\ arg \in [Tasks -> 0 .. MaxDelay] /\ arg[t] >= 1
      /\ previous \in [Tasks -> 0 .. MaxDelay] /\ asked \in [Tasks -> Nat]
      /\ after \in [Tasks -> {"run", "look"}] /\ holder \in Tasks \cup {None}
      /\ timeout \in [Tasks -> [at : 0 .. MaxDelay, overflows : Nat]]
  BY <1>1, <1>2 DEF CallsTrue, CallsOK, CallsProper
<1>4. /\ before \in 0 .. MaxDelay /\ arg[t] \in 0 .. MaxDelay
      /\ after[t] \in {"run", "look"} /\ asked[t] \in Nat
  BY <1>3
<1>5. wake \in 0 .. MaxDelay
  BY <1>4, PlusIs
<1>6. waiting' \in [Tasks -> BOOLEAN] /\ count \in 0 .. MaxDelay
      /\ time' \in Nat /\ pended' \in Nat
  BY <1>1, <1>2 DEF ListsTrue, ListsOK, ClockOK
<1>7. MaxDelay \in Nat
  BY DelayConstants DEF MaxDelay
<1>8. ListsTrue' /\ Tick' = Tick
  <2>1. CASE ShouldDelay(before, wake)
    <3>1. AddToDelayedList(t, Minus(wake, count), FALSE)
      BY <2>1 DEF DelayUntilBlock
    <3> HIDE DEF wake
    <3>2. wake # count
      BY <2>1, <1>4, <1>5, <1>6, <1>7 DEF ShouldDelay
    <3>3. Minus(wake, count) \in 0 .. MaxDelay /\ Minus(wake, count) # 0
      BY <3>2, <1>5, <1>6, PlusIs
    <3>4. Minus(wake, count) \in 1 .. MaxDelay
      BY <3>3, <1>7
    <3> QED
      BY <3>1, <3>4, <1>1, <1>2, <1>6, AddKeeps
  <2>2. CASE ~ShouldDelay(before, wake)
    <3>1. UNCHANGED <<clock, lists, pendingReady>>
      BY <2>2, <1>2 DEF DelayUntilBlock, lists
    <3> QED
      BY <3>1, <1>1, <1>6, SameKeeps
  <2> QED
    BY <2>1, <2>2
<1> HIDE DEF wake
<1>9. previous' \in [Tasks -> 0 .. MaxDelay] /\ asked' \in [Tasks -> Nat]
  <2>1. asked[t] + arg[t] \in Nat
    BY <1>4, <1>7
  <2> QED
    BY <2>1, <1>2, <1>3, <1>5
<1>10. /\ arg' = [arg EXCEPT ![t] = arg[t]] /\ after' = [after EXCEPT ![t] = after[t]]
       /\ holder' \in Tasks \cup {None}
       /\ timeout' \in [Tasks -> [at : 0 .. MaxDelay, overflows : Nat]]
  BY <1>2, <1>3
<1>11. CallsTrue'
  BY <1>1, <1>2, <1>3, <1>4, <1>9, <1>10, CallKeeps
<1> QED
  BY <1>2, <1>8, <1>11, QuietIsGood

LEMMA WaitIsGood ==
    ASSUME IInv, NEW t \in Tasks, Wait(t)
    PROVE  Good
<1>1. ListsTrue /\ CallsTrue
  BY Parts
<1>2. PICK n \in Times : /\ arg' = [arg EXCEPT ![t] = n]
                         /\ asked' = [asked EXCEPT ![t] = Tick + n]
  BY DEF Wait
<1>3. /\ timeout' = [timeout EXCEPT ![t] = TimeOutState]
      /\ pc' = [pc EXCEPT ![t] = "look"]
      /\ UNCHANGED <<time, clock, lists, previous, pended, holder, catching,
                     pendingReady, after>>
  BY DEF Wait, Goto
<1>4. /\ time' \in Nat /\ pended' \in Nat /\ turn \in Nat /\ overflows \in Nat
      /\ count \in 0 .. MaxDelay
  BY <1>1, <1>3 DEF ListsTrue, ClockOK
<1>5. ListsTrue' /\ Tick' = Tick
  BY <1>1, <1>3, <1>4, SameKeeps
<1>6. MaxDelay \in Nat /\ n \in 0 .. MaxDelay /\ n >= 1
  BY DelayConstants DEF MaxDelay
<1>7. /\ previous \in [Tasks -> 0 .. MaxDelay] /\ asked \in [Tasks -> Nat]
      /\ after \in [Tasks -> {"run", "look"}] /\ holder \in Tasks \cup {None}
      /\ timeout \in [Tasks -> [at : 0 .. MaxDelay, overflows : Nat]]
  BY <1>1 DEF CallsTrue, CallsOK
<1>8. asked' \in [Tasks -> Nat]
  <2>1. Tick + n \in Nat
    BY <1>4, <1>6 DEF Tick
  <2> QED
    BY <2>1, <1>2, <1>7
<1>9. timeout' \in [Tasks -> [at : 0 .. MaxDelay, overflows : Nat]]
  <2>1. TimeOutState \in [at : 0 .. MaxDelay, overflows : Nat]
    BY <1>4 DEF TimeOutState
  <2> QED
    BY <2>1, <1>3, <1>7
<1>10. after[t] \in {"run", "look"} /\ after' = [after EXCEPT ![t] = after[t]]
  BY <1>3, <1>7
<1>11. CallsTrue'
  BY <1>1, <1>2, <1>3, <1>6, <1>7, <1>8, <1>9, <1>10, CallKeeps
<1> QED
  BY <1>3, <1>5, <1>11, QuietIsGood

\* LookSucceeds, LookFails and CheckExpired only go on in the call.
LEMMA LookIsGood ==
    ASSUME IInv, NEW t \in Tasks,
           LookSucceeds(t) \/ LookFails(t) \/ CheckExpired(t)
    PROVE  Good
<1>1. ListsTrue /\ CallsTrue
  BY Parts
<1>2. UNCHANGED <<time, clock, lists, calls, pended, catching, pendingReady>>
  BY DEF LookSucceeds, LookFails, CheckExpired
<1>3. time' \in Nat /\ pended' \in Nat
  BY <1>1, <1>2 DEF ListsTrue, ClockOK
<1>4. ListsTrue' /\ Tick' = Tick
  BY <1>1, <1>2, <1>3, SameKeeps
<1>5. /\ arg \in [Tasks -> 0 .. MaxDelay] /\ after \in [Tasks -> {"run", "look"}]
      /\ pc[t] # "run" /\ arg[t] >= 1
  BY <1>1 DEF CallsTrue, CallsOK, CallsProper, LookSucceeds, LookFails, CheckExpired
<1>6. \E p \in {"run", "delay", "until", "look", "check", "resume"},
         q \in {"run", "look"} :
            pc' = [pc EXCEPT ![t] = p] /\ after' = [after EXCEPT ![t] = q]
  <2>1. CASE LookSucceeds(t) \/ LookFails(t)
    <3>1. after' = [after EXCEPT ![t] = after[t]] /\ after[t] \in {"run", "look"}
      BY <2>1, <1>5 DEF LookSucceeds, LookFails
    <3> QED
      BY <2>1, <3>1 DEF LookSucceeds, LookFails, Goto
  <2>2. CASE CheckExpired(t)
    BY <2>2 DEF CheckExpired, Goto
  <2> QED
    BY <2>1, <2>2
<1>7. /\ previous' \in [Tasks -> 0 .. MaxDelay]
      /\ timeout' \in [Tasks -> [at : 0 .. MaxDelay, overflows : Nat]]
      /\ asked' \in [Tasks -> Nat]
  BY <1>1, <1>2 DEF CallsTrue, CallsOK, calls
<1>8. holder' \in Tasks \cup {None}
  BY <1>1 DEF CallsTrue, CallsOK, LookSucceeds, LookFails, CheckExpired, SuspendAll
<1>9. arg[t] \in 0 .. MaxDelay /\ arg' = [arg EXCEPT ![t] = arg[t]]
  BY <1>2, <1>5 DEF calls
<1>10. CallsTrue'
  BY <1>1, <1>2, <1>5, <1>6, <1>7, <1>8, <1>9, CallKeeps
<1> QED
  BY <1>2, <1>4, <1>10, QuietIsGood

\* xTaskCheckForTimeOut, when the time has not expired: what remains is at
\* least one tick and the call is in order.
LEMMA AdjustKeeps ==
    ASSUME IInv, NEW t \in Tasks, Adjust(t),
           UNCHANGED <<holder, catching, pended>>
    PROVE  Remaining(t) \in 1 .. MaxDelay /\ CallsTrue'
<1> DEFINE n == Remaining(t)
<1>1. ListsTrue /\ CallsTrue
  BY Parts
<1>2. /\ pc[t] = "check" /\ ~TimedOut(t, Elapsed(t))
      /\ arg' = [arg EXCEPT ![t] = n]
      /\ timeout' = [timeout EXCEPT ![t] =
                       IF arg[t] = MaxDelay THEN timeout[t] ELSE TimeOutState]
      /\ pc' = [pc EXCEPT ![t] = "resume"]
      /\ after' = [after EXCEPT ![t] = "look"]
      /\ UNCHANGED <<previous, asked, pended, holder, catching>>
  BY DEF Adjust, Goto
<1>3. /\ previous \in [Tasks -> 0 .. MaxDelay] /\ asked \in [Tasks -> Nat]
      /\ holder \in Tasks \cup {None} /\ arg \in [Tasks -> 0 .. MaxDelay]
      /\ timeout \in [Tasks -> [at : 0 .. MaxDelay, overflows : Nat]]
      /\ arg[t] >= 1
  BY <1>1, <1>2 DEF CallsTrue, CallsOK, CallsProper
<1>4. count \in 0 .. MaxDelay /\ overflows \in Nat
  BY <1>1 DEF ListsTrue, ClockOK
<1>5. MaxDelay \in Nat
  BY DelayConstants DEF MaxDelay
<1>6. n \in 1 .. MaxDelay
  <2>1. timeout[t].at \in 0 .. MaxDelay /\ arg[t] \in 1 .. MaxDelay
    <3>1. timeout[t] \in [at : 0 .. MaxDelay, overflows : Nat]
      BY <1>3
    <3>2. arg[t] \in 0 .. MaxDelay
      BY <1>3
    <3> QED
      BY <3>1, <3>2, <1>3, <1>5
  <2>2. Elapsed(t) \in 0 .. MaxDelay
    BY <2>1, <1>4, PlusIs DEF Elapsed
  <2>3. arg[t] = MaxDelay \/ Elapsed(t) < arg[t]
    BY <2>1, <2>2, <1>2 DEF TimedOut
  <2> QED
    BY <2>1, <2>2, <2>3, <1>5 DEF Remaining
<1> HIDE DEF n
<1>7. timeout' \in [Tasks -> [at : 0 .. MaxDelay, overflows : Nat]]
  <2>1. TimeOutState \in [at : 0 .. MaxDelay, overflows : Nat]
    BY <1>4 DEF TimeOutState
  <2> QED
    BY <2>1, <1>2, <1>3
<1>8. n \in 0 .. MaxDelay /\ n >= 1
  BY <1>5, <1>6
<1>9. /\ previous' \in [Tasks -> 0 .. MaxDelay] /\ asked' \in [Tasks -> Nat]
      /\ holder' \in Tasks \cup {None}
  BY <1>2, <1>3
<1>10. CallsTrue'
  BY <1>1, <1>2, <1>7, <1>8, <1>9, CallKeeps
<1> QED
  BY <1>6, <1>10 DEF n

LEMMA CheckBlockIsGood ==
    ASSUME IInv, NEW t \in Tasks, CheckBlock(t)
    PROVE  Good
<1>1. ListsTrue
  BY Parts
<1>2. /\ Adjust(t) /\ AddToDelayedList(t, Remaining(t), TRUE)
      /\ waiting' = [waiting EXCEPT ![t] = TRUE]
      /\ UNCHANGED <<time, pended, holder, catching, pendingReady>>
  BY DEF CheckBlock
<1>3. Remaining(t) \in 1 .. MaxDelay /\ CallsTrue'
  BY <1>2, AdjustKeeps
<1>4. waiting' \in [Tasks -> BOOLEAN]
  BY <1>1, <1>2 DEF ListsTrue, ListsOK
<1>5. ListsTrue' /\ Tick' = Tick
  BY <1>1, <1>2, <1>3, <1>4, AddKeeps
<1> QED
  BY <1>2, <1>3, <1>5, QuietIsGood

LEMMA CheckFindsIsGood ==
    ASSUME IInv, NEW t \in Tasks, CheckFinds(t)
    PROVE  Good
<1>1. ListsTrue
  BY Parts
<1>2. /\ Adjust(t)
      /\ UNCHANGED <<time, clock, lists, pended, holder, catching, pendingReady>>
  BY DEF CheckFinds
<1>3. CallsTrue'
  BY <1>2, AdjustKeeps
<1>4. time' \in Nat /\ pended' \in Nat
  BY <1>1, <1>2 DEF ListsTrue, ClockOK
<1>5. ListsTrue' /\ Tick' = Tick
  BY <1>1, <1>2, <1>4, SameKeeps
<1> QED
  BY <1>2, <1>3, <1>5, QuietIsGood

LEMMA StepIsGood ==
    ASSUME IInv, [Next]_vars
    PROVE  Good
<1>1. CASE UNCHANGED vars
  <2>1. /\ UNCHANGED <<clock, lists, pendingReady>> /\ time' = time /\ pended' = pended
        /\ UNCHANGED <<calls, holder, catching, pc, after>>
    BY <1>1 DEF vars
  <2>2. ListsTrue /\ CallsTrue
    BY Parts
  <2>3. time' \in Nat /\ pended' \in Nat /\ (catching => pended' > 0)
    BY <2>1, <2>2 DEF ListsTrue, ClockOK, CallsTrue, CallsProper
  <2>4. ListsTrue' /\ Tick' = Tick
    BY <2>1, <2>2, <2>3, SameKeeps
  <2>5. CallsTrue'
    BY <2>1, <2>2, <2>3, CallsSame
  <2> QED
    BY <2>1, <2>4, <2>5, QuietIsGood
<1>2. CASE TickInterrupt
  BY <1>2, TickIsGood
<1>3. ASSUME NEW t \in Tasks, Event(t)
      PROVE  Good
  BY <1>3, EventIsGood
<1>4. ASSUME NEW t \in Tasks, Task(t)
      PROVE  Good
  <2>1. CASE Delay(t)
    <3>1. PICK n \in Times : Call(t, n, "delay")
      BY <2>1 DEF Delay
    <3> QED
      BY <3>1, CallIsGood
  <2>2. CASE DelayUntil(t)
    <3>1. PICK n \in Times : Call(t, n, "until")
      BY <2>2 DEF DelayUntil
    <3> QED
      BY <3>1, CallIsGood
  <2>3. CASE DelayBlock(t)
    BY <2>3, DelayBlockIsGood
  <2>4. CASE DelayUntilBlock(t)
    BY <2>4, DelayUntilBlockIsGood
  <2>5. CASE Wait(t)
    BY <2>5, WaitIsGood
  <2>6. CASE LookSucceeds(t) \/ LookFails(t) \/ CheckExpired(t)
    BY <2>6, LookIsGood
  <2>7. CASE CheckBlock(t)
    BY <2>7, CheckBlockIsGood
  <2>8. CASE ResumeAll(t)
    BY <2>8, ResumeAllIsGood
  <2>9. CASE CatchUp(t)
    BY <2>9, CatchUpIsGood
  <2>10. CASE CheckFinds(t)
    BY <2>10, CheckFindsIsGood
  <2> QED
    BY <1>4, <2>1, <2>2, <2>3, <2>4, <2>5, <2>6, <2>7, <2>8, <2>9, <2>10 DEF Task
<1>5. CASE Done
  BY <1>1, <1>5 DEF Done
<1> QED
  BY <1>1, <1>2, <1>3, <1>4, <1>5 DEF Next

-----------------------------------------------------------------------------
(* The theorems.                                                            *)

\* The invariant holds in every state, by induction over the steps.
THEOREM Invariance == Spec => []IInv
<1>1. IInv /\ [Next]_vars => IInv'
  BY StepIsGood DEF Good
<1> QED
  BY <1>1, InitEstablishes, PTL DEF Spec

\* Every variable of the delayed lists, the tick and the calls keeps its type:
\* no time to wait or to wake leaves the range of TickType_t.
THEOREM TypeCorrect == Spec => []TypeOK
<1>1. IInv => TypeOK
  BY DEF IInv
<1> QED
  BY <1>1, Invariance, PTL

\* No task sleeps past its time, although the tick count overflows, ticks are
\* pended while the scheduler is suspended, and most ticks do not look at the
\* list (tasks.c, xTaskIncrementTick, taskSWITCH_DELAYED_LISTS).
THEOREM OnTime == Spec => []NoneOverslept
<1>1. IInv => NoneOverslept
  BY DEF IInv
<1> QED
  BY <1>1, Invariance, PTL

\* xNextTaskUnblockTime is never later than the first wake time of the list
\* (prvResetNextTaskUnblockTime, prvAddCurrentTaskToDelayedList).
THEOREM NextUnblock == Spec => []NextIsEarliest
<1>1. IInv => NextIsEarliest
  BY DEF IInv
<1> QED
  BY <1>1, Invariance, PTL

\* xTaskResumeAll makes up for every tick that was pended.
THEOREM TicksKept == Spec => []NoTickLost
<1>1. IInv => NoTickLost
  BY DEF IInv
<1> QED
  BY <1>1, Invariance, PTL

\* A tick that wakes a task is the tick at which the task is due.
THEOREM Punctual == Spec => WokenOnTime
<1> DEFINE A == \A t \in Tasks :
                  (/\ list[t] \in {"delayed", "overflow"} /\ list'[t] = "ready"
                   /\ Tick' # Tick) => Tick' = due[t]
<1>1. IInv /\ [Next]_vars => [A]_vars
  BY StepIsGood DEF Good
<1>2. WokenOnTime <=> [][A]_vars
  BY PTL DEF WokenOnTime
<1> HIDE DEF A
<1> QED
  BY <1>1, <1>2, Invariance, PTL DEF Spec

-----------------------------------------------------------------------------
(* Periods and timeouts.  The code compares tick counts that wrapped; what   *)
(* makes the comparisons right is how the counts a call keeps relate to true *)
(* time, and that no tick passes between suspending the scheduler and the    *)
(* comparison.                                                               *)

\* A task in the middle of a call has suspended the scheduler, and so has the
\* one that makes up for pended ticks.
Inside ==
    /\ \A t \in Tasks : pc[t] \in {"delay", "until", "check", "resume"} => holder = t
    /\ catching => holder # None

\* Until it blocks, it is ready and no pended tick is made up for.
Steady ==
    \A t \in Tasks : pc[t] \in {"delay", "until", "check"} =>
        ~catching /\ list[t] = "ready"

\* Only tasks that wait for events are woken by them.
Roles ==
    \A t \in Tasks :
        /\ pc[t] = "until" => t \in Periodics
        /\ waiting[t] \/ t \in pendingReady => t \in Waiters
        /\ pc[t] \in {"look", "check"} \/ after[t] = "look" => t \in Waiters

\* *pxPreviousWakeTime is the last time the task was to wake, modulo the
\* range of the count; the task does not run before that time, and it makes
\* the next call within one turn of the count.
PreviousTrue ==
    \A t \in Periodics :
        /\ \E k \in Nat : asked[t] = k * TickRange + previous[t]
        /\ asked[t] <= IF list[t] \in {"delayed", "overflow"} THEN due[t] ELSE Tick
        /\ pc[t] = "until" => Tick < asked[t] + TickRange

\* The TimeOut_t of a waiter is a time that has passed, and what remains to
\* wait counts from it; when it is looked at, it is at most one turn old.
TimeoutTrue ==
    \A t \in Waiters :
        /\ asked[t] = timeout[t].overflows * TickRange + timeout[t].at + arg[t]
        /\ timeout[t].overflows <= overflows
        /\ timeout[t].overflows = overflows => timeout[t].at <= count
        /\ pc[t] = "check" => overflows <= timeout[t].overflows + 1

\* The inductive invariant of the calls.
CallInv == IInv /\ Inside /\ Steady /\ Roles /\ PreviousTrue /\ TimeoutTrue

\* What xTaskIncrementTick does to each task and to the clock.
LEMMA TickMoves ==
    ASSUME IInv, IncrementTick
    PROVE  /\ \A t \in Tasks :
                /\ list[t] \in {"delayed", "overflow"} =>
                     list'[t] \in {"delayed", "overflow", "ready"}
                /\ list[t] \notin {"delayed", "overflow"} => list'[t] = list[t]
                /\ waiting'[t] => waiting[t]
           /\ due' = due
           /\ \/ overflows' = overflows /\ count' = count + 1
              \/ overflows' = overflows + 1
<1> DEFINE n == Plus(count, 1)
           l == IF n = 0 THEN Switched(list) ELSE list
           from == IF n = 0 THEN Unblock({t \in Tasks : l[t] = "delayed"}, value)
                   ELSE next
           woken == IF n >= from THEN Woken(l, n) ELSE {}
<1>0. TickRange \in Nat /\ TickRange > 1 /\ MaxDelay = TickRange - 1
  BY DelayConstants DEF MaxDelay
<1>1. /\ count' = n
      /\ overflows' = IF n = 0 THEN overflows + 1 ELSE overflows
      /\ list' = [t \in Tasks |-> IF t \in woken THEN "ready" ELSE l[t]]
      /\ waiting' = [t \in Tasks |-> waiting[t] /\ t \notin woken]
      /\ due' = due
  BY DEF IncrementTick, Overflow
<1>2. /\ count \in 0 .. MaxDelay
      /\ list \in [Tasks -> {"ready", "delayed", "overflow", "forever"}]
  BY DEF IInv, TypeOK, ClockOK, ListsOK
<1>3. n # 0 => n = count + 1
  BY <1>0, <1>2 DEF Plus
<1>4. \A t \in Tasks :
        /\ l[t] \in {"delayed", "overflow"} <=> list[t] \in {"delayed", "overflow"}
        /\ list[t] \notin {"delayed", "overflow"} => l[t] = list[t]
  BY <1>2 DEF Switched
<1>5. \A t \in Tasks : t \in woken => l[t] = "delayed"
  BY DEF Woken
<1> HIDE DEF n, l, woken
<1> QED
  BY <1>1, <1>3, <1>4, <1>5

\* Types of what the calls keep.
LEMMA CallTypes ==
    ASSUME IInv
    PROVE  /\ holder \in Tasks \cup {None} /\ catching \in BOOLEAN
           /\ pc \in [Tasks -> {"run", "delay", "until", "look", "check", "resume"}]
           /\ after \in [Tasks -> {"run", "look"}]
           /\ arg \in [Tasks -> 0 .. MaxDelay]
           /\ previous \in [Tasks -> 0 .. MaxDelay]
           /\ timeout \in [Tasks -> [at : 0 .. MaxDelay, overflows : Nat]]
           /\ asked \in [Tasks -> Nat]
           /\ list \in [Tasks -> {"ready", "delayed", "overflow", "forever"}]
           /\ waiting \in [Tasks -> BOOLEAN] /\ due \in [Tasks -> Nat]
           /\ pendingReady \subseteq Tasks
           /\ count \in 0 .. MaxDelay /\ turn \in Nat /\ overflows \in Nat
           /\ Tick \in Nat /\ turn = overflows * TickRange
           /\ None \notin Tasks
           /\ TickRange \in Nat /\ TickRange > 1 /\ MaxDelay = TickRange - 1
           /\ Periodics \subseteq Tasks /\ Waiters \subseteq Tasks
           /\ Periodics \cap Waiters = {} /\ Delayers \cap Waiters = {}
<1>1. TickRange \in Nat /\ TickRange > 1 /\ MaxDelay = TickRange - 1
  BY DelayConstants DEF MaxDelay
<1>2. Tick \in Nat
  BY <1>1 DEF IInv, TypeOK, ClockOK, Tick
<1> QED
  BY <1>1, <1>2, DelayConstants DEF IInv, TypeOK, ClockOK, ListsOK, CallsOK, Tasks

\* Who is inside a call, and who may be woken by an event.
LEMMA PlacesStep ==
    ASSUME IInv, Inside, Steady, Roles, [Next]_vars
    PROVE  Inside' /\ Steady' /\ Roles'
<1> USE CallTypes DEF Inside, Steady, Roles
<1>1. CASE TickInterrupt
  <2>1. UNCHANGED <<holder, catching, pendingReady, pc, after>>
    BY <1>1 DEF TickInterrupt
  <2>2. CASE holder = None
    <3>1. IncrementTick
      BY <1>1, <2>2 DEF TickInterrupt
    <3>2. \A t \in Tasks : waiting'[t] => waiting[t]
      BY <3>1, TickMoves
    <3>3. \A t \in Tasks : pc[t] \notin {"delay", "until", "check", "resume"}
      BY <2>2
    <3> QED
      BY <2>1, <3>2, <3>3
  <2>3. CASE holder # None
    <3>1. UNCHANGED <<list, waiting>>
      BY <1>1, <2>3 DEF TickInterrupt, lists
    <3> QED
      BY <2>1, <3>1
  <2> QED
    BY <2>2, <2>3
<1>2. ASSUME NEW t \in Tasks, Event(t) PROVE Inside' /\ Steady' /\ Roles'
  BY <1>2 DEF Event
<1>3. ASSUME NEW t \in Tasks, Delay(t) \/ DelayUntil(t) PROVE Inside' /\ Steady' /\ Roles'
  <2>1. PICK n \in Times, q \in {"delay", "until"} :
           Call(t, n, q) /\ (q = "until" => t \in Periodics)
    BY <1>3 DEF Delay, DelayUntil
  <2>2. /\ holder = None /\ holder' = t /\ list[t] = "ready"
        /\ pc' = [pc EXCEPT ![t] = q] /\ pc[t] = "run"
        /\ UNCHANGED <<list, waiting, catching, pendingReady, after>>
    BY <2>1 DEF Call, SuspendAll, CanRun, Goto, lists
  <2>3. \A u \in Tasks : pc[u] \notin {"delay", "until", "check", "resume"}
    BY <2>2
  <2>4. ~catching
    BY <2>2
  <2> QED
    BY <2>1, <2>2, <2>3, <2>4
<1>4. ASSUME NEW t \in Tasks, DelayBlock(t) \/ DelayUntilBlock(t)
      PROVE  Inside' /\ Steady' /\ Roles'
  <2>1. /\ pc' = [pc EXCEPT ![t] = "resume"] /\ pc[t] \in {"delay", "until"}
        /\ UNCHANGED <<waiting, holder, catching, pendingReady, after>>
    BY <1>4 DEF DelayBlock, DelayUntilBlock, Goto
  <2>2. \A u \in Tasks \ {t} : pc[u] \notin {"delay", "until", "check", "resume"}
    BY <2>1
  <2> QED
    BY <2>1, <2>2
<1>5. ASSUME NEW t \in Tasks, Wait(t) \/ LookSucceeds(t)
      PROVE  Inside' /\ Steady' /\ Roles'
  <2>1. /\ pc' = [pc EXCEPT ![t] = "look"] \/ pc' = [pc EXCEPT ![t] = "run"]
        /\ t \in Waiters
        /\ UNCHANGED <<list, waiting, holder, catching, pendingReady, after>>
    BY <1>5 DEF Wait, LookSucceeds, Goto, lists
  <2> QED
    BY <2>1
<1>6. ASSUME NEW t \in Tasks, LookFails(t) PROVE Inside' /\ Steady' /\ Roles'
  <2>1. /\ holder = None /\ holder' = t /\ list[t] = "ready"
        /\ pc' = [pc EXCEPT ![t] = "check"] /\ t \in Waiters
        /\ UNCHANGED <<list, waiting, catching, pendingReady, after>>
    BY <1>6 DEF LookFails, SuspendAll, CanRun, Goto, lists
  <2>2. ~catching /\ \A u \in Tasks : pc[u] \notin {"delay", "until", "check", "resume"}
    BY <2>1
  <2> QED
    BY <2>1, <2>2
<1>7. ASSUME NEW t \in Tasks, CheckExpired(t) \/ CheckBlock(t) \/ CheckFinds(t)
      PROVE  Inside' /\ Steady' /\ Roles'
  <2>1. /\ pc[t] = "check" /\ pc' = [pc EXCEPT ![t] = "resume"] /\ t \in Waiters
        /\ UNCHANGED <<holder, catching, pendingReady>>
        /\ after' = [after EXCEPT ![t] = "run"] \/ after' = [after EXCEPT ![t] = "look"]
        /\ UNCHANGED waiting \/ waiting' = [waiting EXCEPT ![t] = TRUE]
    BY <1>7 DEF CheckExpired, CheckBlock, CheckFinds, Adjust, Goto, lists
  <2>2. \A u \in Tasks \ {t} : pc[u] \notin {"delay", "until", "check", "resume"}
    BY <2>1
  <2> QED
    BY <2>1, <2>2
<1>8. ASSUME NEW t \in Tasks, ResumeAll(t) PROVE Inside' /\ Steady' /\ Roles'
  <2>1. /\ pc[t] = "resume" /\ ~catching /\ pendingReady' = {}
        /\ UNCHANGED <<waiting, after>>
        /\ \/ catching' = TRUE /\ UNCHANGED <<holder, pc>>
           \/ holder' = None /\ pc' = [pc EXCEPT ![t] = after[t]] /\ UNCHANGED catching
    BY <1>8 DEF ResumeAll, Goto
  <2>2. holder = t /\ \A u \in Tasks \ {t} :
                        pc[u] \notin {"delay", "until", "check", "resume"}
    BY <2>1
  <2>3. after[t] \in {"run", "look"} /\ (after[t] = "look" => t \in Waiters)
    OBVIOUS
  <2> QED
    BY <2>1, <2>2, <2>3
<1>9. ASSUME NEW t \in Tasks, CatchUp(t) PROVE Inside' /\ Steady' /\ Roles'
  <2>1. /\ catching /\ holder = t /\ UNCHANGED <<pendingReady, after>>
        /\ \/ UNCHANGED <<catching, holder, pc>>
           \/ catching' = FALSE /\ holder' = None /\ pc' = [pc EXCEPT ![t] = after[t]]
    BY <1>9 DEF CatchUp, Goto
  <2>2. /\ \A u \in Tasks : pc[u] \notin {"delay", "until", "check"}
        /\ \A u \in Tasks \ {t} : pc[u] # "resume"
    BY <2>1
  <2>3. \A u \in Tasks : waiting'[u] => waiting[u]
    BY <1>9, TickMoves DEF CatchUp
  <2>4. after[t] \in {"run", "look"} /\ (after[t] = "look" => t \in Waiters)
    OBVIOUS
  <2> QED
    BY <2>1, <2>2, <2>3, <2>4
<1>10. CASE UNCHANGED vars
  BY <1>10 DEF vars, lists
<1> QED
  BY <1>1, <1>2, <1>3, <1>4, <1>5, <1>6, <1>7, <1>8, <1>9, <1>10 DEF Next, Task, Done

\* Two times less than a turn apart are in the same turn or in adjacent ones,
\* and their counts tell which.
LEMMA SameTurn ==
    ASSUME NEW k \in Nat, NEW m \in Nat, NEW q \in 0 .. MaxDelay, NEW c \in 0 .. MaxDelay,
           k * TickRange + q <= m * TickRange + c,
           m * TickRange + c < k * TickRange + q + TickRange
    PROVE  \/ c >= q /\ m * TickRange = k * TickRange
           \/ c < q /\ m * TickRange = k * TickRange + TickRange
<1>0. TickRange \in Nat /\ TickRange > 1 /\ MaxDelay = TickRange - 1
  BY DelayConstants DEF MaxDelay
<1>1. \A i, j \in Nat : i < j => i * TickRange + TickRange <= j * TickRange
  <2> SUFFICES ASSUME NEW i \in Nat, NEW j \in Nat, i < j
               PROVE  i * TickRange + TickRange <= j * TickRange
    OBVIOUS
  <2>1. PICK d \in Nat : j = i + 1 + d
    <3>1. j - i - 1 \in Nat /\ j = i + 1 + (j - i - 1)
      OBVIOUS
    <3> QED
      BY <3>1
  <2>2. j * TickRange = i * TickRange + TickRange + d * TickRange
    BY <2>1, <1>0
  <2>3. d * TickRange \in Nat /\ i * TickRange \in Nat
    BY <1>0
  <2> QED
    BY <2>2, <2>3, <1>0
<1>2. (k + 1) * TickRange = k * TickRange + TickRange
      /\ k * TickRange \in Nat /\ m * TickRange \in Nat
  BY <1>0
<1>3. ~(m < k)
  <2>1. m < k => m * TickRange + TickRange <= k * TickRange
    BY <1>1
  <2> QED
    BY <2>1, <1>0, <1>2
<1>4. ~(k + 1 < m)
  <2>1. k + 1 < m => (k + 1) * TickRange + TickRange <= m * TickRange
    BY <1>1
  <2> QED
    BY <2>1, <1>0, <1>2
<1>5. m = k \/ m = k + 1
  BY <1>3, <1>4
<1> QED
  BY <1>5, <1>0, <1>2

-----------------------------------------------------------------------------
(* Timeouts.                                                                *)

\* When a waiter looks at its TimeOut_t, the time passed since is what
\* xTaskCheckForTimeOut computes, or is at least a whole turn.
LEMMA ElapsedIs ==
    ASSUME CallInv, NEW t \in Waiters, pc[t] = "check"
    PROVE  LET passed == Tick + arg[t] - asked[t]
           IN  IF overflows # timeout[t].overflows /\ count >= timeout[t].at
                 THEN passed >= TickRange
                 ELSE passed = Elapsed(t)
<1> DEFINE o == timeout[t].overflows
           a == timeout[t].at
<1>1. /\ asked[t] = o * TickRange + a + arg[t]
      /\ o <= overflows /\ (o = overflows => a <= count)
      /\ overflows <= o + 1
  BY DEF CallInv, TimeoutTrue
<1>2. /\ o \in Nat /\ a \in 0 .. MaxDelay /\ arg[t] \in 0 .. MaxDelay
      /\ count \in 0 .. MaxDelay /\ overflows \in Nat
      /\ turn = overflows * TickRange
      /\ TickRange \in Nat /\ TickRange > 1 /\ MaxDelay = TickRange - 1
  BY CallTypes DEF CallInv
<1>3. Tick = overflows * TickRange + count
  BY <1>2 DEF Tick
<1>4. Elapsed(t) = IF count >= a THEN count - a ELSE count - a + TickRange
  BY DEF Elapsed, Minus
<1> HIDE DEF o, a
<1>5. overflows = o \/ overflows = o + 1
  BY <1>1, <1>2
<1>6. o * TickRange \in Nat /\ (o + 1) * TickRange = o * TickRange + TickRange
  BY <1>2
<1>7. CASE overflows = o
  <2>1. Tick + arg[t] - asked[t] = count - a /\ count >= a
    BY <1>1, <1>2, <1>3, <1>6, <1>7
  <2> QED
    BY <2>1, <1>4, <1>7 DEF o, a
<1>8. CASE overflows = o + 1
  <2>1. Tick + arg[t] - asked[t] = count - a + TickRange /\ overflows # o
    BY <1>1, <1>2, <1>3, <1>6, <1>8
  <2>2. CASE count >= a
    <3>1. Tick + arg[t] - asked[t] >= TickRange
      BY <2>1, <2>2, <1>2
    <3> QED
      BY <3>1, <2>1, <2>2 DEF o, a
  <2>3. CASE ~(count >= a)
    BY <2>1, <2>3, <1>4 DEF o, a
  <2> QED
    BY <2>2, <2>3
<1> QED
  BY <1>5, <1>7, <1>8

\* TimeoutTrue goes over to the next state if the call of no waiter changes.
LEMMA TimeoutKeeps ==
    ASSUME TimeoutTrue, IInv,
           \A t \in Waiters : /\ asked'[t] = asked[t] /\ arg'[t] = arg[t]
                              /\ timeout'[t] = timeout[t]
                              /\ pc'[t] = "check" => overflows' = overflows
                                   /\ (pc[t] = "check" \/ overflows <= timeout[t].overflows + 1),
           \/ UNCHANGED <<overflows, count>>
           \/ overflows' = overflows /\ count' = count + 1
           \/ overflows' = overflows + 1
    PROVE  TimeoutTrue'
<1> SUFFICES ASSUME NEW t \in Waiters
             PROVE  /\ asked'[t] = timeout'[t].overflows * TickRange + timeout'[t].at + arg'[t]
                    /\ timeout'[t].overflows <= overflows'
                    /\ timeout'[t].overflows = overflows' => timeout'[t].at <= count'
                    /\ pc'[t] = "check" => overflows' <= timeout'[t].overflows + 1
  BY DEF TimeoutTrue
<1>1. /\ timeout[t].overflows \in Nat /\ timeout[t].at \in Nat /\ overflows \in Nat
      /\ count \in Nat
  BY CallTypes
<1> QED
  BY <1>1 DEF TimeoutTrue

LEMMA TimeoutStep ==
    ASSUME CallInv, [Next]_vars
    PROVE  TimeoutTrue'
<1>0. IInv /\ Inside /\ Steady /\ Roles /\ TimeoutTrue
  BY DEF CallInv
<1>t. /\ pc \in [Tasks -> {"run", "delay", "until", "look", "check", "resume"}]
      /\ arg \in [Tasks -> 0 .. MaxDelay] /\ asked \in [Tasks -> Nat]
      /\ timeout \in [Tasks -> [at : 0 .. MaxDelay, overflows : Nat]]
      /\ after \in [Tasks -> {"run", "look"}]
      /\ Waiters \subseteq Tasks /\ None \notin Tasks
      /\ count \in 0 .. MaxDelay /\ overflows \in Nat /\ turn \in Nat
      /\ turn = overflows * TickRange
      /\ TickRange \in Nat /\ TickRange > 1 /\ MaxDelay = TickRange - 1
      /\ Periodics \cap Waiters = {} /\ Delayers \cap Waiters = {}
  BY <1>0, CallTypes
\* Steps that leave what the waiters keep alone.
<1>1. ASSUME UNCHANGED <<arg, asked, timeout>>,
             \A t \in Waiters : pc'[t] = "check" => pc[t] = "check",
             \/ UNCHANGED <<overflows, count>>
             \/ IncrementTick /\ \A t \in Waiters : pc[t] # "check"
      PROVE  TimeoutTrue'
  <2>1. \/ UNCHANGED <<overflows, count>>
        \/ overflows' = overflows /\ count' = count + 1
        \/ overflows' = overflows + 1
    BY <1>0, <1>1, TickMoves
  <2> QED
    BY <1>0, <1>1, <2>1, TimeoutKeeps
<1>2. CASE TickInterrupt
  <2>1. UNCHANGED <<arg, asked, timeout, pc>>
    BY <1>2 DEF TickInterrupt, calls
  <2>2. CASE holder = None
    <3>1. \A t \in Waiters : pc[t] # "check"
      BY <2>2, <1>0, <1>t DEF Inside
    <3> QED
      BY <2>1, <2>2, <3>1, <1>1, <1>2 DEF TickInterrupt
  <2>3. CASE holder # None
    BY <2>1, <2>3, <1>1, <1>2 DEF TickInterrupt, clock
  <2> QED
    BY <2>2, <2>3
<1>3. ASSUME NEW u \in Tasks, CatchUp(u) PROVE TimeoutTrue'
  <2>1. UNCHANGED <<arg, asked, timeout>> /\ IncrementTick /\ catching
        /\ (UNCHANGED pc \/ pc' = [pc EXCEPT ![u] = after[u]])
    BY <1>3 DEF CatchUp, calls, Goto
  <2>2. \A t \in Waiters : pc[t] # "check"
    BY <2>1, <1>0, <1>t DEF Steady
  <2>3. after[u] # "check"
    BY <1>t
  <2> QED
    BY <2>1, <2>2, <2>3, <1>1, <1>t
<1>4. ASSUME NEW u \in Tasks,
             Event(u) \/ DelayBlock(u) \/ LookSucceeds(u) \/ CheckExpired(u) \/ ResumeAll(u)
      PROVE  TimeoutTrue'
  <2>1. /\ UNCHANGED <<arg, asked, timeout, overflows, count>>
        /\ \E q \in {"run", "look", "resume"} : UNCHANGED pc \/ pc' = [pc EXCEPT ![u] = q]
    <3>1. after[u] \in {"run", "look"}
      BY <1>t
    <3> QED
      BY <3>1, <1>4 DEF Event, DelayBlock, LookSucceeds, CheckExpired, ResumeAll, calls,
         Goto, clock, AddToDelayedList
  <2>2. \A t \in Waiters : pc'[t] = "check" => pc[t] = "check"
    BY <2>1, <1>t
  <2> QED
    BY <2>1, <2>2, <1>1
<1>5. ASSUME NEW u \in Tasks, Delay(u) \/ DelayUntil(u) PROVE TimeoutTrue'
  <2>1. PICK n \in Times, q \in {"delay", "until"} : Call(u, n, q)
    BY <1>5 DEF Delay, DelayUntil
  <2>2. /\ u \notin Waiters /\ pc' = [pc EXCEPT ![u] = q]
        /\ arg' = [arg EXCEPT ![u] = n] /\ UNCHANGED <<asked, timeout, overflows, count>>
    BY <2>1, <1>5, <1>t DEF Delay, DelayUntil, Call, Goto, clock
  <2> QED
    BY <2>2, <1>0, <1>t, TimeoutKeeps
<1>6. ASSUME NEW u \in Tasks, DelayUntilBlock(u) PROVE TimeoutTrue'
  <2>1. /\ pc[u] = "until" /\ pc' = [pc EXCEPT ![u] = "resume"]
        /\ asked' = [asked EXCEPT ![u] = @ + arg[u]]
        /\ UNCHANGED <<arg, timeout, overflows, count>>
    BY <1>6 DEF DelayUntilBlock, Goto, clock, AddToDelayedList
  <2>2. u \notin Waiters
    BY <2>1, <1>0, <1>t DEF Roles
  <2> QED
    BY <2>1, <2>2, <1>0, <1>t, TimeoutKeeps
<1>7. ASSUME NEW u \in Tasks, LookFails(u) PROVE TimeoutTrue'
  <2>1. /\ overflows <= timeout[u].overflows + 1 /\ pc' = [pc EXCEPT ![u] = "check"]
        /\ UNCHANGED <<arg, asked, timeout, overflows, count>>
    BY <1>7 DEF LookFails, Goto, calls, clock
  <2> QED
    BY <2>1, <1>0, <1>t, TimeoutKeeps
\* A state that was set now.
<1>8. ASSUME NEW u \in Waiters, NEW n \in Nat,
             arg' = [arg EXCEPT ![u] = n], asked'[u] = Tick + n,
             timeout' = [timeout EXCEPT ![u] = TimeOutState],
             \A t \in Waiters \ {u} : asked'[t] = asked[t] /\ pc'[t] = pc[t],
             pc'[u] # "check", UNCHANGED <<overflows, count>>
      PROVE  TimeoutTrue'
  <2>1. /\ timeout'[u].overflows = overflows /\ timeout'[u].at = count
        /\ arg'[u] = n
    BY <1>8, <1>t DEF TimeOutState
  <2>2. asked'[u] = overflows * TickRange + count + n
    BY <1>8, <1>t DEF Tick
  <2>3. \A t \in Waiters \ {u} : timeout'[t] = timeout[t] /\ arg'[t] = arg[t]
    BY <1>8, <1>t
  <2> QED
    BY <2>1, <2>2, <2>3, <1>0, <1>8, <1>t DEF TimeoutTrue
<1>9. ASSUME NEW u \in Tasks, Wait(u) PROVE TimeoutTrue'
  <2>1. PICK n \in Times : arg' = [arg EXCEPT ![u] = n] /\ asked' = [asked EXCEPT ![u] = Tick + n]
    BY <1>9 DEF Wait
  <2>2. /\ u \in Waiters /\ timeout' = [timeout EXCEPT ![u] = TimeOutState]
        /\ pc' = [pc EXCEPT ![u] = "look"] /\ UNCHANGED <<overflows, count>>
    BY <1>9 DEF Wait, Goto, clock
  <2>3. n \in Nat
    BY DelayConstants, <1>t
  <2>4. /\ asked'[u] = Tick + n /\ pc'[u] # "check"
        /\ \A t \in Waiters \ {u} : asked'[t] = asked[t] /\ pc'[t] = pc[t]
    BY <2>1, <2>2, <1>t
  <2> QED
    BY <2>1, <2>2, <2>3, <2>4, <1>8
<1>10. ASSUME NEW u \in Tasks, CheckBlock(u) \/ CheckFinds(u) PROVE TimeoutTrue'
  <2>1. /\ pc[u] = "check" /\ ~TimedOut(u, Elapsed(u))
        /\ arg' = [arg EXCEPT ![u] = Remaining(u)]
        /\ timeout' = [timeout EXCEPT ![u] =
                         IF arg[u] = MaxDelay THEN timeout[u] ELSE TimeOutState]
        /\ pc' = [pc EXCEPT ![u] = "resume"]
        /\ UNCHANGED <<asked, overflows, count>>
    BY <1>10 DEF CheckBlock, CheckFinds, Adjust, Goto, clock, AddToDelayedList
  <2>2. u \in Waiters
    BY <2>1, <1>0 DEF Roles
  <2>3. CASE arg[u] = MaxDelay
    <3>1. arg' = arg /\ timeout' = timeout
      BY <2>1, <2>3, <1>t DEF Remaining
    <3> QED
      BY <2>1, <3>1, <1>1, <1>t
  <2>4. CASE arg[u] # MaxDelay
    <3>0. /\ arg[u] \in 0 .. MaxDelay /\ asked[u] \in Nat /\ timeout[u].at \in 0 .. MaxDelay
      BY <1>t
    <3>1. Elapsed(u) = Tick + arg[u] - asked[u] /\ Elapsed(u) < arg[u]
      <4>1. /\ ~(overflows # timeout[u].overflows /\ count >= timeout[u].at)
            /\ ~(Elapsed(u) >= arg[u])
        BY <2>1, <2>4 DEF TimedOut
      <4>2. Elapsed(u) \in 0 .. MaxDelay
        BY <3>0, <1>t, PlusIs DEF Elapsed
      <4> QED
        BY <4>1, <4>2, <3>0, <2>1, <2>2, <1>t, ElapsedIs
    <3>2. Elapsed(u) \in 0 .. MaxDelay /\ Tick \in Nat
      <4>1. Elapsed(u) \in 0 .. MaxDelay
        BY <3>0, <1>t, PlusIs DEF Elapsed
      <4> QED
        BY <4>1, <1>0, CallTypes
    <3>3. Remaining(u) \in Nat /\ asked[u] = Tick + Remaining(u)
      BY <2>4, <3>0, <3>1, <3>2, <1>t DEF Remaining
    <3>4. pc'[u] # "check" /\ \A t \in Waiters \ {u} : asked'[t] = asked[t] /\ pc'[t] = pc[t]
      BY <2>1, <1>t
    <3> QED
      BY <2>1, <2>2, <2>4, <3>3, <3>4, <1>8
  <2> QED
    BY <2>3, <2>4
<1>11. CASE UNCHANGED vars
  BY <1>1, <1>11 DEF vars, calls, clock
<1> QED
  BY <1>2, <1>3, <1>4, <1>5, <1>6, <1>7, <1>9, <1>10, <1>11 DEF Next, Task, Done

-----------------------------------------------------------------------------
(* Periods.                                                                 *)

\* When xTaskDelayUntil compares the counts, it compares the times: it delays
\* exactly if the next time to wake is to come, for exactly what remains.
LEMMA UntilIs ==
    ASSUME CallInv, NEW t \in Periodics, pc[t] = "until"
    PROVE  LET wake == Plus(previous[t], arg[t])
           IN  /\ \E k \in Nat : asked[t] + arg[t] = k * TickRange + wake
               /\ ShouldDelay(previous[t], wake) <=> asked[t] + arg[t] > Tick
               /\ ShouldDelay(previous[t], wake) =>
                    Tick + Minus(wake, count) = asked[t] + arg[t]
<1> DEFINE p == previous[t]
           a == arg[t]
           w == Plus(p, a)
           M == overflows * TickRange
<1>1. /\ p \in 0 .. MaxDelay /\ a \in 0 .. MaxDelay /\ asked[t] \in Nat
      /\ count \in 0 .. MaxDelay /\ overflows \in Nat
      /\ turn = overflows * TickRange
      /\ TickRange \in Nat /\ TickRange > 1 /\ MaxDelay = TickRange - 1
      /\ t \in Tasks
  BY CallTypes DEF CallInv
<1>2. list[t] = "ready"
  BY <1>1 DEF CallInv, Steady
<1>3. Tick = overflows * TickRange + count
  BY <1>1 DEF Tick
<1>4. asked[t] <= Tick /\ Tick < asked[t] + TickRange
  BY <1>2 DEF CallInv, PreviousTrue
<1>5. PICK k \in Nat : asked[t] = k * TickRange + p
  BY DEF CallInv, PreviousTrue
<1> DEFINE K == k * TickRange
<1>6. w = IF p + a < TickRange THEN p + a ELSE p + a - TickRange
  BY DEF Plus
<1>7. Minus(w, count) = IF w >= count THEN w - count ELSE w - count + TickRange
  BY DEF Minus
<1>8. ShouldDelay(p, w) <=> IF count < p THEN w < p /\ w > count
                            ELSE w < p \/ w > count
  BY DEF ShouldDelay
<1> HIDE DEF p, a, w
<1>9. K \in Nat /\ M \in Nat /\ (k + 1) * TickRange = K + TickRange
  BY <1>1
<1>10. \/ count >= p /\ M = K
       \/ count < p /\ M = K + TickRange
  BY <1>1, <1>3, <1>4, <1>5, SameTurn
<1>11. asked[t] = K + p /\ Tick = M + count
  BY <1>3, <1>5
<1>12. \E j \in Nat : asked[t] + a = j * TickRange + w
  <2>1. CASE p + a < TickRange
    BY <2>1, <1>1, <1>5, <1>6, <1>9
  <2>2. CASE ~(p + a < TickRange)
    <3>1. k + 1 \in Nat /\ asked[t] + a = (k + 1) * TickRange + w
      <4> HIDE DEF K
      <4> QED
        BY <2>2, <1>1, <1>11, <1>6, <1>9
    <3> QED
      BY <3>1
  <2> QED
    BY <2>1, <2>2
<1> HIDE DEF K, M
<1>13. ShouldDelay(p, w) <=> asked[t] + a > Tick
  BY <1>1, <1>6, <1>8, <1>9, <1>10, <1>11
<1>14. ShouldDelay(p, w) => Tick + Minus(w, count) = asked[t] + a
  BY <1>1, <1>6, <1>7, <1>8, <1>9, <1>10, <1>11
<1> QED
  BY <1>12, <1>13, <1>14 DEF p, a, w

\* The time before which a task does not run again.
NotBefore(t) == IF list[t] \in {"delayed", "overflow"} THEN due[t] ELSE Tick

\* PreviousTrue goes over to the next state if the call of no periodic task
\* changes and none will run earlier.
LEMMA PreviousKeeps ==
    ASSUME PreviousTrue, IInv, IInv',
           \A t \in Periodics :
              /\ asked'[t] = asked[t] /\ previous'[t] = previous[t]
              /\ NotBefore(t) <= NotBefore(t)'
              /\ pc'[t] = "until" => /\ Tick' = Tick
                                     /\ pc[t] = "until" \/ Tick < asked[t] + TickRange
    PROVE  PreviousTrue'
<1> SUFFICES ASSUME NEW t \in Periodics
             PROVE  /\ \E k \in Nat : asked'[t] = k * TickRange + previous'[t]
                    /\ asked'[t] <= NotBefore(t)'
                    /\ pc'[t] = "until" => Tick' < asked'[t] + TickRange
  BY DEF PreviousTrue, NotBefore
<1>1. /\ asked[t] \in Nat /\ due[t] \in Nat /\ Tick \in Nat
      /\ due'[t] \in Nat /\ Tick' \in Nat
  <2>1. asked \in [Tasks -> Nat] /\ due \in [Tasks -> Nat] /\ Tick \in Nat /\ t \in Tasks
    BY CallTypes
  <2>2. due' \in [Tasks -> Nat] /\ turn' \in Nat /\ count' \in 0 .. MaxDelay /\ MaxDelay \in Nat
    BY CallTypes DEF IInv, TypeOK, ClockOK, ListsOK, Tasks, MaxDelay
  <2> QED
    BY <2>1, <2>2 DEF Tick
<1>2. NotBefore(t) \in Nat /\ NotBefore(t)' \in Nat
  BY <1>1 DEF NotBefore
<1>3. asked[t] <= NotBefore(t) /\ \E k \in Nat : asked[t] = k * TickRange + previous[t]
  BY DEF PreviousTrue, NotBefore
<1>4. pc[t] = "until" => Tick < asked[t] + TickRange
  BY DEF PreviousTrue
<1> QED
  BY <1>1, <1>2, <1>3, <1>4

\* A tick makes no task run before its time.
LEMMA TickNotBefore ==
    ASSUME IInv, IInv', IncrementTick, Good, Tick' = Tick + 1, NEW t \in Tasks
    PROVE  NotBefore(t) <= NotBefore(t)'
<1>1. /\ list[t] \in {"delayed", "overflow"} =>
           list'[t] \in {"delayed", "overflow", "ready"}
      /\ list[t] \notin {"delayed", "overflow"} => list'[t] = list[t]
      /\ due'[t] = due[t]
  BY TickMoves
<1>2. Tick \in Nat /\ due[t] \in Nat
  BY CallTypes
<1>3. list[t] \in {"delayed", "overflow"} /\ list'[t] = "ready" => Tick' = due[t]
  BY <1>2 DEF Good
<1> QED
  BY <1>1, <1>2, <1>3 DEF NotBefore

\* prvAddCurrentTaskToDelayedList for a ready task.
LEMMA AddNotBefore ==
    ASSUME IInv, NEW u \in Tasks, NEW n \in Nat, list[u] = "ready",
           AddToDelayedList(u, n, FALSE)
    PROVE  /\ Tick' = Tick
           /\ list'[u] \in {"delayed", "overflow"} /\ due'[u] = Tick + n
           /\ \A t \in Tasks : NotBefore(t) <= NotBefore(t)'
<1>1. /\ Tick \in Nat /\ due \in [Tasks -> Nat]
      /\ list \in [Tasks -> {"ready", "delayed", "overflow", "forever"}]
  BY CallTypes
<1>2. /\ \/ list' = [list EXCEPT ![u] = "overflow"] \/ list' = [list EXCEPT ![u] = "delayed"]
      /\ due' = [due EXCEPT ![u] = Tick + n] /\ UNCHANGED <<turn, count>>
  BY DEF AddToDelayedList
<1>3. Tick' = Tick
  BY <1>2 DEF Tick
<1>4. list'[u] \in {"delayed", "overflow"} /\ due'[u] = Tick + n
  BY <1>1, <1>2
<1>5. \A t \in Tasks \ {u} : list'[t] = list[t] /\ due'[t] = due[t]
  BY <1>1, <1>2
<1>6. \A t \in Tasks \ {u} : NotBefore(t) <= NotBefore(t)'
  <2>1. \A t \in Tasks : due[t] \in Nat
    BY <1>1
  <2> QED
    BY <2>1, <1>1, <1>3, <1>5 DEF NotBefore
<1>7. NotBefore(u) <= NotBefore(u)'
  <2>1. NotBefore(u) = Tick
    BY DEF NotBefore
  <2>2. NotBefore(u)' = Tick + n
    BY <1>4 DEF NotBefore
  <2> QED
    BY <2>1, <2>2, <1>1
<1> QED
  BY <1>3, <1>4, <1>6, <1>7

LEMMA PreviousStep ==
    ASSUME CallInv, [Next]_vars
    PROVE  PreviousTrue'
<1>0. IInv /\ Inside /\ Steady /\ Roles /\ PreviousTrue /\ IInv' /\ Good
  BY StepIsGood DEF CallInv, Good
<1>t. /\ pc \in [Tasks -> {"run", "delay", "until", "look", "check", "resume"}]
      /\ arg \in [Tasks -> 0 .. MaxDelay] /\ asked \in [Tasks -> Nat]
      /\ previous \in [Tasks -> 0 .. MaxDelay]
      /\ after \in [Tasks -> {"run", "look"}]
      /\ list \in [Tasks -> {"ready", "delayed", "overflow", "forever"}]
      /\ due \in [Tasks -> Nat] /\ pendingReady \subseteq Tasks
      /\ Periodics \subseteq Tasks /\ None \notin Tasks
      /\ count \in 0 .. MaxDelay /\ turn \in Nat /\ Tick \in Nat
      /\ TickRange \in Nat /\ TickRange > 1 /\ MaxDelay = TickRange - 1
      /\ Periodics \cap Waiters = {}
  BY <1>0, CallTypes
<1>r. \A t \in Tasks : NotBefore(t) \in Nat
  <2>1. \A t \in Tasks : due[t] \in Nat
    BY <1>t
  <2> QED
    BY <2>1, <1>t DEF NotBefore
<1>s. \A t \in Tasks : NotBefore(t)' \in Nat
  <2>1. due' \in [Tasks -> Nat] /\ turn' \in Nat /\ count' \in 0 .. MaxDelay
    BY <1>0 DEF IInv, TypeOK, ClockOK, ListsOK, Tasks, MaxDelay
  <2>2. Tick' \in Nat
    <3>1. \A a \in Nat, b \in 0 .. MaxDelay : a + b \in Nat
      BY <1>t
    <3>2. Tick' = turn' + count'
      BY DEF Tick
    <3> QED
      BY ONLY <3>1, <3>2, <2>1
  <2>3. \A t \in Tasks : due'[t] \in Nat
    BY <2>1
  <2> QED
    BY <2>2, <2>3 DEF NotBefore
\* Steps that leave the clock and the periodic tasks alone.
<1>1. ASSUME UNCHANGED <<turn, count, asked, previous>>,
             \A t \in Periodics : list'[t] = list[t] /\ due'[t] = due[t],
             \A t \in Periodics : pc'[t] = "until" =>
                 pc[t] = "until" \/ Tick < asked[t] + TickRange
      PROVE  PreviousTrue'
  <2>1. Tick' = Tick
    BY <1>1 DEF Tick
  <2>2. \A t \in Periodics : NotBefore(t)' = NotBefore(t)
    BY <2>1, <1>1 DEF NotBefore
  <2>3. \A t \in Periodics : NotBefore(t) <= NotBefore(t)'
    BY <2>2, <1>r, <1>t
  <2> QED
    BY <2>1, <2>3, <1>0, <1>1, PreviousKeeps
\* The tick.
<1>2. ASSUME IncrementTick, Tick' = Tick + 1, UNCHANGED <<asked, previous>>,
             \A t \in Periodics : pc'[t] # "until"
      PROVE  PreviousTrue'
  <2>1. \A t \in Periodics : NotBefore(t) <= NotBefore(t)'
    BY <1>0, <1>2, <1>t, TickNotBefore
  <2> QED
    BY <2>1, <1>0, <1>2, PreviousKeeps
<1>2a. ASSUME IncrementTick, time' \in Nat, pended' \in Nat, pendingReady' = pendingReady
       PROVE  Tick' = Tick + 1
  <2>1. ListsTrue
    BY <1>0, Parts
  <2>2. pendingReady' \subseteq Tasks
    BY <1>2a, <1>t
  <2> QED
    BY <2>1, <2>2, <1>2a, IncrementTickKeeps
<1>n. time' \in Nat /\ pended' \in Nat
  BY <1>0 DEF IInv, TypeOK, ClockOK
<1>3. CASE TickInterrupt
  <2>1. UNCHANGED <<asked, previous, pc, pendingReady>>
    BY <1>3 DEF TickInterrupt, calls
  <2>2. CASE holder = None
    <3>1. IncrementTick
      BY <1>3, <2>2 DEF TickInterrupt
    <3>2. \A t \in Periodics : pc'[t] # "until"
      BY <2>1, <2>2, <1>0, <1>t DEF Inside
    <3> QED
      BY <2>1, <3>1, <3>2, <1>2, <1>2a, <1>n
  <2>3. CASE holder # None
    <3>1. UNCHANGED <<turn, count, list, due>>
      BY <1>3, <2>3 DEF TickInterrupt, clock, lists
    <3> QED
      BY <2>1, <3>1, <1>1
  <2> QED
    BY <2>2, <2>3
<1>4. ASSUME NEW u \in Tasks, CatchUp(u) PROVE PreviousTrue'
  <2>1. UNCHANGED <<asked, previous, pendingReady>> /\ IncrementTick /\ catching
        /\ (UNCHANGED pc \/ pc' = [pc EXCEPT ![u] = after[u]])
    BY <1>4 DEF CatchUp, calls, Goto
  <2>2. \A t \in Periodics : pc[t] # "until"
    BY <2>1, <1>0, <1>t DEF Steady
  <2>3. after[u] # "until"
    BY <1>t
  <2>4. \A t \in Periodics : pc'[t] # "until"
    BY <2>1, <2>2, <2>3, <1>t
  <2> QED
    BY <2>1, <2>4, <1>2, <1>2a, <1>n
<1>5. ASSUME NEW u \in Tasks, Event(u) \/ ResumeAll(u) PROVE PreviousTrue'
  <2>1. UNCHANGED <<turn, count, asked, previous, due>>
    BY <1>5 DEF Event, ResumeAll, clock, calls
  <2>2. \A t \in Periodics : list'[t] = list[t]
    <3>1. CASE Event(u)
      <4>1. u \notin Periodics /\ (list' = list \/ list' = [list EXCEPT ![u] = "ready"])
        BY <3>1, <1>0, <1>t DEF Event, Roles
      <4> QED
        BY <4>1, <1>t
    <3>2. CASE ResumeAll(u)
      <4>1. list' = [v \in Tasks |-> IF v \in pendingReady THEN "ready" ELSE list[v]]
        BY <3>2 DEF ResumeAll
      <4>2. \A t \in Periodics : t \notin pendingReady
        BY <1>0, <1>t DEF Roles
      <4> QED
        BY <4>1, <4>2, <1>t
    <3> QED
      BY <1>5, <3>1, <3>2
  <2>3. \A t \in Periodics : pc'[t] = "until" => pc[t] = "until"
    <3>1. UNCHANGED pc \/ pc' = [pc EXCEPT ![u] = after[u]]
      BY <1>5 DEF Event, ResumeAll, Goto
    <3> QED
      BY <3>1, <1>t
  <2> QED
    BY <2>1, <2>2, <2>3, <1>1
<1>6. ASSUME NEW u \in Tasks, Delay(u) \/ DelayUntil(u) PROVE PreviousTrue'
  <2>1. PICK n \in Times, q \in {"delay", "until"} :
           Call(u, n, q) /\ (q = "until" => Tick < asked[u] + TickRange)
    BY <1>6 DEF Delay, DelayUntil
  <2>2. /\ pc' = [pc EXCEPT ![u] = q]
        /\ UNCHANGED <<turn, count, asked, previous, list, due>>
    BY <2>1 DEF Call, Goto, clock, lists
  <2>3. \A t \in Periodics : pc'[t] = "until" =>
           pc[t] = "until" \/ Tick < asked[t] + TickRange
    BY <2>1, <2>2, <1>t
  <2> QED
    BY <2>2, <2>3, <1>1
<1>7. ASSUME NEW u \in Tasks, DelayBlock(u) PROVE PreviousTrue'
  <2>1. /\ pc[u] = "delay" /\ pc' = [pc EXCEPT ![u] = "resume"]
        /\ AddToDelayedList(u, arg[u], FALSE) /\ UNCHANGED <<asked, previous>>
    BY <1>7 DEF DelayBlock, Goto, calls
  <2>2. arg[u] \in Nat /\ list[u] = "ready"
    BY <2>1, <1>0, <1>t DEF Steady
  <2>3. Tick' = Tick /\ \A t \in Tasks : NotBefore(t) <= NotBefore(t)'
    BY <2>1, <2>2, <1>0, AddNotBefore
  <2>4. \A t \in Periodics : pc'[t] = "until" => pc[t] = "until"
    BY <2>1, <1>t
  <2> QED
    BY <2>1, <2>3, <2>4, <1>0, <1>t, PreviousKeeps
<1>8. ASSUME NEW u \in Tasks, DelayUntilBlock(u) PROVE PreviousTrue'
  <2> DEFINE wake == Plus(previous[u], arg[u])
  <2>1. /\ pc[u] = "until" /\ pc' = [pc EXCEPT ![u] = "resume"]
        /\ previous' = [previous EXCEPT ![u] = wake]
        /\ asked' = [asked EXCEPT ![u] = asked[u] + arg[u]]
    BY <1>8 DEF DelayUntilBlock, Goto
  <2>2. u \in Periodics /\ list[u] = "ready"
    BY <2>1, <1>0 DEF Roles, Steady
  <2>3. /\ \E k \in Nat : asked[u] + arg[u] = k * TickRange + wake
        /\ ShouldDelay(previous[u], wake) <=> asked[u] + arg[u] > Tick
        /\ ShouldDelay(previous[u], wake) => Tick + Minus(wake, count) = asked[u] + arg[u]
    BY <2>1, <2>2, UntilIs
  <2>4. wake \in 0 .. MaxDelay /\ previous[u] \in 0 .. MaxDelay
        /\ arg[u] \in 0 .. MaxDelay /\ asked[u] \in Nat
    <3>1. previous[u] \in 0 .. MaxDelay /\ arg[u] \in 0 .. MaxDelay
      BY <1>t
    <3> QED
      BY <3>1, <1>t, PlusIs
  <2>5. IF ShouldDelay(previous[u], wake) THEN AddToDelayedList(u, Minus(wake, count), FALSE)
        ELSE UNCHANGED <<clock, list, value, due>>
    BY <1>8 DEF DelayUntilBlock
  <2> HIDE DEF wake
  <2>6. \A t \in Tasks : NotBefore(t) <= NotBefore(t)'
    <3>1. CASE ShouldDelay(previous[u], wake)
      <4>1. Minus(wake, count) \in Nat
        BY <2>4, <1>t, PlusIs
      <4> QED
        BY <3>1, <4>1, <2>2, <2>5, <1>0, AddNotBefore
    <3>2. CASE ~ShouldDelay(previous[u], wake)
      <4>1. UNCHANGED <<turn, count, list, due>>
        BY <3>2, <2>5 DEF clock
      <4>2. \A t \in Tasks : NotBefore(t)' = NotBefore(t)
        BY <4>1 DEF NotBefore, Tick
      <4> QED
        BY <4>2, <1>r
    <3> QED
      BY <3>1, <3>2
  <2>7. asked[u] + arg[u] <= NotBefore(u)'
    <3>1. CASE ShouldDelay(previous[u], wake)
      <4>1. Minus(wake, count) \in Nat
        BY <2>4, <1>t, PlusIs
      <4>2. list'[u] \in {"delayed", "overflow"} /\ due'[u] = asked[u] + arg[u]
        BY <3>1, <4>1, <2>2, <2>3, <2>5, <1>0, AddNotBefore
      <4> QED
        BY <4>2, <2>4, <1>t DEF NotBefore
    <3>2. CASE ~ShouldDelay(previous[u], wake)
      <4>1. UNCHANGED <<turn, count, list, due>>
        BY <3>2, <2>5 DEF clock
      <4>2. NotBefore(u)' = Tick
        BY <4>1, <2>2 DEF NotBefore, Tick
      <4> QED
        BY <3>2, <4>2, <2>3, <2>4, <1>t
    <3> QED
      BY <3>1, <3>2
  <2>8. \A t \in Periodics \ {u} :
          /\ asked'[t] = asked[t] /\ previous'[t] = previous[t] /\ pc'[t] = pc[t]
          /\ pc[t] # "until"
    <3>1. \A t \in Tasks \ {u} : pc[t] # "until"
      BY <2>1, <1>0, <1>t DEF Inside
    <3> QED
      BY <3>1, <2>1, <1>t
  <2>9. /\ asked'[u] = asked[u] + arg[u] /\ previous'[u] = wake /\ pc'[u] = "resume"
    BY <2>1, <1>t
  <2>10. \A t \in Periodics :
           /\ \E k \in Nat : asked'[t] = k * TickRange + previous'[t]
           /\ asked'[t] <= NotBefore(t)'
           /\ pc'[t] # "until"
    <3>1. ASSUME NEW t \in Periodics \ {u}
          PROVE  /\ \E k \in Nat : asked'[t] = k * TickRange + previous'[t]
                 /\ asked'[t] <= NotBefore(t)'
      <4>1. asked[t] <= NotBefore(t) /\ \E k \in Nat : asked[t] = k * TickRange + previous[t]
        BY <1>0 DEF PreviousTrue, NotBefore
      <4>2. NotBefore(t) <= NotBefore(t)' /\ NotBefore(t) \in Nat /\ asked[t] \in Nat
        BY <2>6, <1>r, <1>t
      <4>3. NotBefore(t)' \in Nat
        BY <1>s, <1>t
      <4> QED
        BY <4>1, <4>2, <4>3, <2>8
    <3> QED
      BY <3>1, <2>3, <2>7, <2>8, <2>9
  <2> QED
    BY <2>10 DEF PreviousTrue, NotBefore
<1>9. ASSUME NEW u \in Tasks, \/ Wait(u) \/ LookSucceeds(u) \/ LookFails(u)
                              \/ CheckExpired(u) \/ CheckBlock(u) \/ CheckFinds(u)
      PROVE  PreviousTrue'
  <2>1. u \notin Periodics
    BY <1>9, <1>0, <1>t DEF Wait, LookSucceeds, LookFails, CheckExpired, CheckBlock,
       CheckFinds, Adjust, Roles
  <2>2. /\ UNCHANGED <<turn, count, previous>>
        /\ UNCHANGED asked \/ \E n \in Times : asked' = [asked EXCEPT ![u] = Tick + n]
    BY <1>9 DEF Wait, LookSucceeds, LookFails, CheckExpired, CheckBlock, CheckFinds,
       Adjust, clock, calls, AddToDelayedList
  <2>3. \E q \in {"run", "look", "check", "resume"} : pc' = [pc EXCEPT ![u] = q]
    BY <1>9 DEF Wait, LookSucceeds, LookFails, CheckExpired, CheckBlock, CheckFinds,
       Adjust, Goto
  <2>4. \A t \in Tasks \ {u} : list'[t] = list[t] /\ due'[t] = due[t]
    <3>1. CASE CheckBlock(u)
      <4>1. AddToDelayedList(u, Remaining(u), TRUE)
        BY <3>1 DEF CheckBlock
      <4> QED
        BY <4>1, <1>t DEF AddToDelayedList
    <3>2. CASE ~CheckBlock(u)
      BY <1>9, <3>2 DEF Wait, LookSucceeds, LookFails, CheckExpired, CheckFinds, lists
    <3> QED
      BY <3>1, <3>2
  <2>5. \A t \in Periodics : /\ list'[t] = list[t] /\ due'[t] = due[t]
                             /\ asked'[t] = asked[t] /\ pc'[t] = pc[t]
    BY <2>1, <2>2, <2>3, <2>4, <1>t
  <2>6. Tick' = Tick
    BY <2>2 DEF Tick
  <2>7. \A t \in Periodics : NotBefore(t)' = NotBefore(t)
    BY <2>5, <2>6 DEF NotBefore
  <2>8. \A t \in Periodics : NotBefore(t) <= NotBefore(t)'
    BY <2>7, <1>r, <1>t
  <2> QED
    BY <2>2, <2>5, <2>6, <2>8, <1>0, PreviousKeeps
<1>10. CASE UNCHANGED vars
  BY <1>1, <1>10 DEF vars, calls, clock, lists
<1> QED
  BY <1>3, <1>4, <1>5, <1>6, <1>7, <1>8, <1>9, <1>10 DEF Next, Task, Done

-----------------------------------------------------------------------------
(* The theorems about calls.                                                *)

\* The strengthened invariant holds in every state.
THEOREM CallsInvariant == Spec => []CallInv
<1>1. Init => CallInv
  <2> SUFFICES ASSUME Init
               PROVE  CallInv
    OBVIOUS
  <2>1. IInv
    BY InitEstablishes
  <2>2. Inside /\ Steady /\ Roles
    BY DEF Init, Inside, Steady, Roles
  <2>3. PreviousTrue
    <3>1. TickRange \in Nat /\ Periodics \subseteq Tasks
      BY <2>1, CallTypes
    <3>2. 0 \in Nat /\ 0 = 0 * TickRange + 0
      BY <3>1
    <3> QED
      BY <3>1, <3>2 DEF Init, PreviousTrue, Tick
  <2>4. TimeoutTrue
    <3>1. TickRange \in Nat /\ Waiters \subseteq Tasks
      BY <2>1, CallTypes
    <3> QED
      BY <3>1 DEF Init, TimeoutTrue
  <2> QED
    BY <2>1, <2>2, <2>3, <2>4 DEF CallInv
<1>2. CallInv /\ [Next]_vars => CallInv'
  <2> SUFFICES ASSUME CallInv, [Next]_vars
               PROVE  CallInv'
    OBVIOUS
  <2>1. IInv'
    BY StepIsGood DEF CallInv, Good
  <2>2. Inside' /\ Steady' /\ Roles'
    BY PlacesStep DEF CallInv
  <2> QED
    BY <2>1, <2>2, PreviousStep, TimeoutStep DEF CallInv
<1> QED
  BY <1>1, <1>2, PTL DEF Spec

\* Only xTaskDelayUntil itself takes a task out of "until".
LEMMA OnlyUntil ==
    ASSUME CallInv, Next, NEW t \in Periodics, pc[t] = "until", pc'[t] = "resume"
    PROVE  DelayUntilBlock(t)
<1>0. /\ pc \in [Tasks -> {"run", "delay", "until", "look", "check", "resume"}]
      /\ after \in [Tasks -> {"run", "look"}]
      /\ t \in Tasks /\ holder = t /\ ~catching /\ None \notin Tasks
  BY CallTypes DEF CallInv, Inside, Steady
<1>1. ~TickInterrupt /\ ~Done /\ \A u \in Tasks : ~Event(u)
  BY DEF TickInterrupt, Done, vars, Event
<1>2. PICK u \in Tasks : Task(u)
  BY <1>1 DEF Next
<1>3. u = t
  <2>1. pc'[t] # pc[t]
    OBVIOUS
  <2>2. \E q : UNCHANGED pc \/ pc' = [pc EXCEPT ![u] = q]
    BY <1>2 DEF Task, Delay, DelayUntil, Call, DelayBlock, DelayUntilBlock, Wait,
       LookSucceeds, LookFails, CheckExpired, CheckBlock, CheckFinds, Adjust,
       ResumeAll, CatchUp, Goto
  <2> QED
    BY <2>1, <2>2, <1>0
<1> QED
  BY <1>0, <1>2, <1>3 DEF Task, Delay, DelayUntil, Call, DelayBlock, Wait,
     LookSucceeds, LookFails, CheckExpired, CheckBlock, CheckFinds, Adjust, ResumeAll, CatchUp

\* xTaskDelayUntil keeps the period of every task that calls it at least once
\* per turn of the tick count, whenever the count overflows in between.
THEOREM PeriodsKept == Spec => PeriodKept
<1> DEFINE A == \A t \in Periodics :
                  (pc[t] = "until" /\ pc'[t] = "resume") =>
                      IF asked'[t] > Tick
                        THEN /\ list'[t] \in {"delayed", "overflow"}
                             /\ due'[t] = asked'[t]
                        ELSE list'[t] = "ready"
<1>1. CallInv /\ [Next]_vars => [A]_vars
  <2> SUFFICES ASSUME CallInv, Next, NEW t \in Periodics, pc[t] = "until", pc'[t] = "resume"
               PROVE  IF asked'[t] > Tick
                        THEN /\ list'[t] \in {"delayed", "overflow"}
                             /\ due'[t] = asked'[t]
                        ELSE list'[t] = "ready"
    OBVIOUS
  <2> DEFINE wake == Plus(previous[t], arg[t])
  <2>0. /\ IInv /\ t \in Tasks /\ list[t] = "ready" /\ asked \in [Tasks -> Nat]
        /\ previous[t] \in 0 .. MaxDelay /\ arg[t] \in 0 .. MaxDelay
        /\ count \in 0 .. MaxDelay /\ MaxDelay \in Nat
    BY CallTypes DEF CallInv, Steady
  <2>1. DelayUntilBlock(t)
    BY OnlyUntil
  <2>2. /\ asked' = [asked EXCEPT ![t] = asked[t] + arg[t]]
        /\ IF ShouldDelay(previous[t], wake)
             THEN AddToDelayedList(t, Minus(wake, count), FALSE)
             ELSE UNCHANGED <<clock, list, value, due>>
    BY <2>1 DEF DelayUntilBlock
  <2>3. asked'[t] = asked[t] + arg[t]
    BY <2>0, <2>2
  <2>4. /\ ShouldDelay(previous[t], wake) <=> asked[t] + arg[t] > Tick
        /\ ShouldDelay(previous[t], wake) => Tick + Minus(wake, count) = asked[t] + arg[t]
    BY UntilIs
  <2>5. Minus(wake, count) \in Nat
    <3>1. wake \in 0 .. MaxDelay
      BY <2>0, PlusIs
    <3> HIDE DEF wake
    <3>2. Minus(wake, count) \in 0 .. MaxDelay
      BY <3>1, <2>0, PlusIs
    <3> QED
      BY ONLY <3>2, <2>0
  <2> HIDE DEF wake
  <2>6. CASE ShouldDelay(previous[t], wake)
    BY <2>0, <2>2, <2>3, <2>4, <2>5, <2>6, AddNotBefore
  <2>7. CASE ~ShouldDelay(previous[t], wake)
    BY <2>0, <2>2, <2>3, <2>4, <2>7
  <2> QED
    BY <2>6, <2>7
<1>2. PeriodKept <=> [][A]_vars
  BY PTL DEF PeriodKept
<1> HIDE DEF A
<1> QED
  BY <1>1, <1>2, CallsInvariant, PTL DEF Spec

\* Only xTaskCheckForTimeOut takes a waiter out of "check".
LEMMA OnlyCheck ==
    ASSUME CallInv, Next, NEW t \in Waiters, pc[t] = "check", pc'[t] = "resume"
    PROVE  CheckExpired(t) \/ CheckBlock(t) \/ CheckFinds(t)
<1>0. /\ pc \in [Tasks -> {"run", "delay", "until", "look", "check", "resume"}]
      /\ after \in [Tasks -> {"run", "look"}]
      /\ t \in Tasks /\ holder = t /\ ~catching /\ None \notin Tasks
  BY CallTypes DEF CallInv, Inside, Steady
<1>1. ~TickInterrupt /\ ~Done /\ \A u \in Tasks : ~Event(u)
  BY DEF TickInterrupt, Done, vars, Event
<1>2. PICK u \in Tasks : Task(u)
  BY <1>1 DEF Next
<1>3. u = t
  <2>1. pc'[t] # pc[t]
    OBVIOUS
  <2>2. \E q : UNCHANGED pc \/ pc' = [pc EXCEPT ![u] = q]
    BY <1>2 DEF Task, Delay, DelayUntil, Call, DelayBlock, DelayUntilBlock, Wait,
       LookSucceeds, LookFails, CheckExpired, CheckBlock, CheckFinds, Adjust,
       ResumeAll, CatchUp, Goto
  <2> QED
    BY <2>1, <2>2, <1>0
<1> QED
  BY <1>0, <1>2, <1>3 DEF Task, Delay, DelayUntil, Call, DelayBlock, DelayUntilBlock,
     Wait, LookSucceeds, LookFails, ResumeAll, CatchUp

\* A wait with a timeout ends by timeout only when the time asked for first is
\* over, and blocks each time for exactly what is left of it, although it may
\* be resumed and begun again any number of times and the count overflows.
THEOREM WaitsRight == Spec => WaitsAsAsked
<1> DEFINE A == \A t \in Waiters :
                  (pc[t] = "check" /\ pc'[t] = "resume") =>
                      IF after'[t] = "run" THEN Tick >= asked[t]
                      ELSE list'[t] \in {"delayed", "overflow"} => due'[t] = asked[t]
<1>1. CallInv /\ [Next]_vars => [A]_vars
  <2> SUFFICES ASSUME CallInv, Next, NEW t \in Waiters, pc[t] = "check", pc'[t] = "resume"
               PROVE  IF after'[t] = "run" THEN Tick >= asked[t]
                      ELSE list'[t] \in {"delayed", "overflow"} => due'[t] = asked[t]
    OBVIOUS
  <2>0. /\ IInv /\ t \in Tasks /\ list[t] = "ready" /\ asked[t] \in Nat
        /\ timeout[t].at \in 0 .. MaxDelay /\ arg[t] \in 0 .. MaxDelay
        /\ count \in 0 .. MaxDelay /\ MaxDelay = TickRange - 1 /\ Tick \in Nat
        /\ TickRange \in Nat /\ due \in [Tasks -> Nat]
        /\ after \in [Tasks -> {"run", "look"}]
        /\ list \in [Tasks -> {"ready", "delayed", "overflow", "forever"}]
    BY CallTypes DEF CallInv, Steady
  <2>1. Elapsed(t) \in 0 .. MaxDelay
    BY <2>0, PlusIs DEF Elapsed
  <2>2. LET passed == Tick + arg[t] - asked[t]
        IN  IF overflows # timeout[t].overflows /\ count >= timeout[t].at
              THEN passed >= TickRange
              ELSE passed = Elapsed(t)
    BY ElapsedIs
  <2>3. CASE CheckExpired(t)
    <3>1. /\ after' = [after EXCEPT ![t] = "run"]
          /\ \/ overflows # timeout[t].overflows /\ count >= timeout[t].at
             \/ Elapsed(t) >= arg[t]
      BY <2>3 DEF CheckExpired, TimedOut
    <3>2. Tick >= asked[t]
      BY <3>1, <2>0, <2>1, <2>2
    <3>3. after'[t] = "run"
      BY <3>1, <2>0
    <3> QED
      BY <3>2, <3>3
  <2>4. CASE CheckFinds(t)
    <3>1. list'[t] = "ready" /\ after'[t] = "look"
      BY <2>0, <2>4 DEF CheckFinds, Adjust, lists
    <3> QED
      BY <3>1
  <2>5. CASE CheckBlock(t)
    <3>1. /\ ~TimedOut(t, Elapsed(t)) /\ after' = [after EXCEPT ![t] = "look"]
          /\ AddToDelayedList(t, Remaining(t), TRUE)
      BY <2>5 DEF CheckBlock, Adjust
    <3>2. after'[t] = "look"
      BY <3>1, <2>0
    <3>3. CASE Remaining(t) = MaxDelay
      <4>1. list'[t] = "forever"
        BY <3>1, <3>3, <2>0 DEF AddToDelayedList
      <4> QED
        BY <4>1, <3>2
    <3>4. CASE Remaining(t) # MaxDelay
      <4>1. arg[t] # MaxDelay /\ Remaining(t) = arg[t] - Elapsed(t)
        BY <3>4 DEF Remaining
      <4>2. ~(overflows # timeout[t].overflows /\ count >= timeout[t].at)
        BY <3>1, <4>1 DEF TimedOut
      <4>3. Tick + Remaining(t) = asked[t]
        BY <4>1, <4>2, <2>0, <2>1, <2>2
      <4>4. due'[t] = Tick + Remaining(t)
        BY <3>1, <3>4, <2>0 DEF AddToDelayedList
      <4> QED
        BY <4>3, <4>4, <3>2
    <3> QED
      BY <3>3, <3>4
  <2> QED
    BY <2>3, <2>4, <2>5, OnlyCheck
<1>2. WaitsAsAsked <=> [][A]_vars
  BY PTL DEF WaitsAsAsked
<1> HIDE DEF A
<1> QED
  BY <1>1, <1>2, CallsInvariant, PTL DEF Spec
=============================================================================
