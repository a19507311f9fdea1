---------------------------- MODULE MutexProofs -----------------------------
(***************************************************************************)
(* Theorems about Mutex, for any tasks and priorities, timeouts and nested *)
(* calls: what uxMutexesHeld and the other counts say of any number of     *)
(* mutexes, on either port; and that priority inheritance works for one.   *)
(***************************************************************************)
EXTENDS Mutex, FiniteSetTheorems, SequenceTheorems, WellFoundedInduction, TLAPS

-----------------------------------------------------------------------------
(* The inductive invariant of the simple case.                              *)

\* A yield happens at once or is held back by a critical section of the task
\* that runs, which is not blocked.
Running ==
    /\ pend => Deferred /\ cur \in crit
    /\ Deferred => crit \subseteq {cur}
    /\ cur = Nobody \/ cur \in Ready

\* Where it is held back, nobody holds the mutex but the task that runs, and
\* nobody waits for it.
Alone ==
    Deferred /\ crit # {} =>
        \A m \in Mutexes :
            waiters[m] = <<>> /\ (holder[m] = cur \/ holder[m] = Nobody)

\* The tasks on the event list were put there by Block, once each.
OnList ==
    \A m \in Mutexes :
        /\ \A i, j \in 1 .. Len(waiters[m]) :
             waiters[m][i] = waiters[m][j] => i = j
        /\ \A t \in Tasks : WaitsFor(t, m) =>
             /\ pc[t] = "try" /\ mutex[t] = m
             /\ wait[t] # "zero" /\ t \notin asleep

\* A task inside a call does not hold the mutex, and waits only if it may.
Calling ==
    \A t \in Tasks :
        /\ pc[t] # "run" => holder[mutex[t]] # t
        /\ pc[t] = "block" => wait[t] # "zero"

\* t is one of those that take the mutex, and inside its critical section.
User(t) == Uses[t] # {} /\ (t \in InCritical => t \in crit)

\* Only such a task is inside a call or holds the mutex; only a call expires.
Using ==
    /\ \A t \in Tasks :
         /\ pc[t] # "run" => User(t) /\ t \notin asleep
         /\ late[t] => pc[t] # "run"
         /\ late[t] \/ wait[t] = "some" => "some" \in Waits[t]
    /\ \A m \in Mutexes : holder[m] # Nobody =>
         User(holder[m]) /\ (Sleepers = {} => holder[m] \notin asleep)

\* Only the holder has more than its own priority.
Borrowed ==
    \A t \in Tasks :
        /\ prio[t] >= Prio[t]
        /\ (\A m \in Mutexes : holder[m] # t) => prio[t] = Prio[t]

\* A mutex that is free while tasks wait was given to one that was woken and
\* will take it; neither that task nor the one that runs is below those.
FreeForHighest ==
    \A m \in Mutexes : count[m] = 1 /\ waiters[m] # <<>> =>
        /\ \A u \in ToSet(waiters[m]) : prio[u] <= PrioOf(cur)
        /\ \E w \in Ready :
             /\ pc[w] = "try" /\ mutex[w] = m
             /\ \A u \in ToSet(waiters[m]) : prio[u] <= prio[w]

\* One of the ready tasks of highest priority runs, or its call has expired.
\* The latter never keeps up a task that takes the mutex in a critical section
\* that would hold back the switch.
TopRuns ==
    pend \/ \E t \in Highest :
              \/ t = cur
              \/ t # Nobody /\ late[t] /\ ~(Deferred /\ cur \in InCritical)

\* t has lent its priority for m, and will take it back unless m is given.
Lender(t, m) ==
    /\ mutex[t] = m
    /\ \/ WaitsFor(t, m)
       \/ /\ inherited[t] /\ late[t]
          /\ \/ pc[t] \in {"block", "expired", "disinherit"}
             \/ pc[t] = "try" /\ wait[t] # "zero"

\* What the holder has more than its own priority is lent, and a task that
\* waits knows that it has lent something.
Lent ==
    \A m \in Mutexes : holder[m] # Nobody =>
        /\ prio[holder[m]] > Prio[holder[m]] =>
             \E t \in Tasks : Lender(t, m) /\ prio[t] = prio[holder[m]]
        /\ \A t \in Tasks :
             WaitsFor(t, m) /\ prio[t] > Prio[holder[m]] => inherited[t]

SimpleInv ==
    /\ Running /\ Alone /\ OnList /\ Calling /\ Using /\ Borrowed
    /\ HolderCarriesWaiters /\ WokenByPriority
    /\ FreeForHighest /\ TopRuns /\ Lent

-----------------------------------------------------------------------------
(* Event lists.                                                             *)

\* A set of naturals has a least element.
LEMMA LeastExists ==
    ASSUME NEW S, S \subseteq Nat, S # {}
    PROVE  \E n \in S : \A k \in S : n <= k
<1> DEFINE R == OpToRel(<, Nat)
<1>1. IsWellFoundedOn(R, Nat)
  BY NatLessThanWellFounded
<1>2. \A k, n \in Nat : k < n => <<k, n>> \in R
  BY DEF OpToRel
<1> HIDE DEF R
<1>3. PICK n \in S : \A k \in S : ~(<<k, n>> \in R)
  BY <1>1, WFMin
<1>4. \A k \in S : ~(k < n)
  BY <1>2, <1>3
<1> QED
  BY <1>4

\* f numbers elements of K in their order.
Ascending(f, K) ==
    /\ f \in [1 .. Cardinality(K) -> K]
    /\ \A i, j \in 1 .. Cardinality(K) : i < j => f[i] < f[j]

\* Every set of positions can be numbered so.
LEMMA AscendingExists ==
    \A n \in Nat : \A K \in SUBSET (1 .. n) : \E f : Ascending(f, K)
<1> DEFINE Bad == {n \in Nat :
                     \E K \in SUBSET (1 .. n) : \A f : ~Ascending(f, K)}
<1> SUFFICES ASSUME Bad # {} PROVE FALSE
  OBVIOUS
<1>1. PICK n \in Bad : \A k \in Bad : n <= k
  BY LeastExists
<1>2. PICK K \in SUBSET (1 .. n) : \A f : ~Ascending(f, K)
  OBVIOUS
<1>3. n \in Nat
  OBVIOUS
<1>4. n # 0
  <2> SUFFICES ASSUME n = 0 PROVE FALSE
    OBVIOUS
  <2>1. K = {}
    BY <1>2
  <2>2. Cardinality(K) = 0
    BY <2>1, FS_EmptySet
  <2>3. Ascending([i \in 1 .. 0 |-> 0], K)
    BY <2>1, <2>2 DEF Ascending
  <2> QED
    BY <2>3, <1>2
<1> DEFINE L == K \ {n}
<1>5. L \in SUBSET (1 .. n - 1) /\ n - 1 \in Nat /\ IsFiniteSet(L)
  <2>1. L \in SUBSET (1 .. n - 1) /\ n - 1 \in Nat
    BY <1>3, <1>4
  <2>2. IsFiniteSet(1 .. n - 1)
    BY <2>1, FS_Interval
  <2> QED
    BY <2>1, <2>2, FS_Subset
<1>6. PICK f : Ascending(f, L)
  <2>1. n - 1 \notin Bad
    <3> HIDE DEF Bad
    <3> QED
      BY <1>1, <1>3, <1>5
  <2> QED
    BY <2>1, <1>5
<1>7. n \in K
  BY <1>2, <1>6
<1>8. Cardinality(K) = Cardinality(L) + 1 /\ Cardinality(L) \in Nat
  <2>1. K = L \cup {n} /\ n \notin L
    BY <1>7
  <2> HIDE DEF L
  <2> QED
    BY <2>1, <1>5, FS_AddElement, FS_CardinalityType
<1> DEFINE g == [i \in 1 .. Cardinality(K) |->
                   IF i = Cardinality(K) THEN n ELSE f[i]]
<1>9. Ascending(g, K)
  <2>1. \A i \in 1 .. Cardinality(L) : f[i] \in L /\ f[i] \in K /\ f[i] < n
    <3>1. \A i \in 1 .. Cardinality(L) : f[i] \in L
      BY <1>6 DEF Ascending
    <3>2. \A k \in L : k \in K /\ k < n
      BY <1>3, <1>5
    <3> HIDE DEF L
    <3> QED
      BY <3>1, <3>2
  <2>2. \A i \in 1 .. Cardinality(K) :
          i # Cardinality(K) => i \in 1 .. Cardinality(L)
    BY <1>8
  <2>3. g \in [1 .. Cardinality(K) -> K]
    BY <1>7, <2>1, <2>2
  <2>4. ASSUME NEW i \in 1 .. Cardinality(K), NEW j \in 1 .. Cardinality(K),
               i < j
        PROVE  g[i] < g[j]
    <3>1. i \in 1 .. Cardinality(L) /\ g[i] = f[i]
      BY <1>8, <2>4
    <3>2. CASE j = Cardinality(K)
      BY <3>1, <3>2, <2>1
    <3>3. CASE j # Cardinality(K)
      BY <3>1, <3>3, <2>2, <2>4, <1>6 DEF Ascending
    <3> QED
      BY <3>2, <3>3
  <2> HIDE DEF g
  <2> QED
    BY <2>3, <2>4 DEF Ascending
<1> QED
  BY <1>2, <1>9

\* Those that stay on an event list stay in their order.
LEMMA WithoutIs ==
    ASSUME NEW s \in Seq(Tasks), NEW gone
    PROVE  LET r == Without(s, gone)
           IN  /\ r \in Seq(Tasks)
               /\ \E f \in [1 .. Len(r) -> 1 .. Len(s)] :
                    /\ \A i \in 1 .. Len(r) :
                         r[i] = s[f[i]] /\ r[i] \notin gone
                    /\ \A i, j \in 1 .. Len(r) : i < j => f[i] < f[j]
               /\ \A j \in 1 .. Len(s) :
                    s[j] \notin gone => \E i \in 1 .. Len(r) : r[i] = s[j]
<1> DEFINE kept == {i \in DOMAIN s : s[i] \notin gone}
           n == Cardinality(kept)
           P(f) == \A i, j \in DOMAIN f : i < j => f[i] < f[j]
           nth == CHOOSE f \in [1 .. n -> kept] : P(f)
<1>1. DOMAIN s = 1 .. Len(s) /\ Len(s) \in Nat /\ kept \in SUBSET (1 .. Len(s))
  OBVIOUS
<1>2. n \in Nat
  <2>1. IsFiniteSet(1 .. Len(s))
    BY <1>1, FS_Interval
  <2> HIDE DEF kept
  <2> QED
    BY <1>1, <2>1, FS_Subset, FS_CardinalityType
<1>3. \E f \in [1 .. n -> kept] : P(f)
  <2> HIDE DEF kept
  <2>1. PICK f : Ascending(f, kept)
    BY <1>1, AscendingExists
  <2> QED
    BY <2>1 DEF Ascending
<1>4. nth \in [1 .. n -> kept] /\ P(nth)
  <2> HIDE DEF kept, n, P
  <2> QED
    BY <1>3
<1>5. Without(s, gone) = [k \in 1 .. n |-> s[nth[k]]]
  BY DEF Without
<1> HIDE DEF nth, n
<1>6. \A k \in 1 .. n : nth[k] \in 1 .. Len(s) /\ s[nth[k]] \in Tasks
                         /\ s[nth[k]] \notin gone
  BY <1>1, <1>4
<1>7. [k \in 1 .. n |-> s[nth[k]]] \in Seq(Tasks)
  BY <1>2, <1>6
<1>8. Len([k \in 1 .. n |-> s[nth[k]]]) = n
  BY <1>2, <1>7
<1>9. nth \in [1 .. n -> 1 .. Len(s)]
  BY <1>1, <1>4
<1>10. \A j \in kept : \E i \in 1 .. n : nth[i] = j
  <2>1. ASSUME NEW i \in 1 .. n, NEW j \in 1 .. n, nth[i] = nth[j]
        PROVE  i = j
    <3>1. ~(i < j) /\ ~(j < i)
      BY <1>2, <1>4, <1>9, <2>1
    <3> QED
      BY <3>1, <1>2
  <2>2. nth \in Injection(1 .. n, kept)
    BY <1>4, <2>1 DEF Injection, IsInjective
  <2>3. IsFiniteSet(kept) /\ Cardinality(1 .. n) = Cardinality(kept)
    <3>1. IsFiniteSet(1 .. Len(s)) /\ Cardinality(1 .. n) = n
      BY <1>1, <1>2, FS_Interval
    <3> HIDE DEF kept
    <3> QED
      BY <1>1, <3>1, FS_Subset DEF n
  <2>4. nth \in Surjection(1 .. n, kept)
    <3> HIDE DEF kept
    <3> QED
      BY <2>2, <2>3, FS_Injection
  <2> HIDE DEF kept
  <2> QED
    BY <2>4 DEF Surjection
<1>11. \A j \in 1 .. Len(s) : s[j] \notin gone => j \in kept
  BY <1>1
<1> HIDE DEF kept
<1>12. \A j \in 1 .. Len(s) : s[j] \notin gone =>
         \E i \in 1 .. n : [k \in 1 .. n |-> s[nth[k]]][i] = s[j]
  <2> SUFFICES ASSUME NEW j \in 1 .. Len(s), s[j] \notin gone
               PROVE  \E i \in 1 .. n : s[nth[i]] = s[j]
    OBVIOUS
  <2> QED
    BY <1>10, <1>11
<1> DEFINE r == [k \in 1 .. n |-> s[nth[k]]]
<1>13. \E f \in [1 .. n -> 1 .. Len(s)] :
         /\ \A i \in 1 .. n : r[i] = s[f[i]] /\ r[i] \notin gone
         /\ \A i, j \in 1 .. n : i < j => f[i] < f[j]
  BY <1>4, <1>6, <1>9
<1> HIDE DEF r
<1>14. /\ Without(s, gone) = r /\ r \in Seq(Tasks) /\ Len(r) = n
       /\ \A j \in 1 .. Len(s) :
            s[j] \notin gone => \E i \in 1 .. n : r[i] = s[j]
  BY <1>5, <1>7, <1>8, <1>12 DEF r
<1> QED
  BY <1>13, <1>14

\* vListInsert puts t behind all that are not below it.
LEMMA InsertIs ==
    ASSUME TypeOK, NEW s \in Seq(Tasks), NEW t \in Tasks
    PROVE  LET r == InsertByPriority(s, t)
           IN  /\ r \in Seq(Tasks) /\ Len(r) = Len(s) + 1
               /\ \E p \in 1 .. Len(s) + 1 :
                    /\ \A i \in 1 .. Len(s) + 1 :
                         r[i] = IF i < p THEN s[i]
                                ELSE IF i = p THEN t ELSE s[i - 1]
                    /\ \A i \in 1 .. p - 1 : prio[s[i]] >= prio[t]
                    /\ p <= Len(s) => prio[s[p]] < prio[t]
<1> DEFINE lower == {i \in 1 .. Len(s) : prio[s[i]] < prio[t]}
           First(i) == \A j \in lower : i <= j
           p == IF lower = {} THEN Len(s) + 1
                ELSE CHOOSE i \in lower : First(i)
<1>0. prio \in [Tasks -> Nat]
  BY DEF TypeOK
<1>1. /\ Len(s) \in Nat
      /\ \A i \in 1 .. Len(s) : s[i] \in Tasks /\ prio[s[i]] \in Nat
  BY <1>0
<1>2. lower # {} => p \in lower /\ First(p)
  <2> SUFFICES ASSUME lower # {} PROVE p \in lower /\ First(p)
    OBVIOUS
  <2>1. lower \subseteq Nat
    BY <1>1
  <2> HIDE DEF lower
  <2>2. \E i \in lower : First(i)
    BY <2>1, LeastExists
  <2> QED
    BY <2>2
<1>3. /\ p \in 1 .. Len(s) + 1
      /\ \A i \in 1 .. p - 1 : prio[s[i]] >= prio[t]
      /\ p <= Len(s) => prio[s[p]] < prio[t]
  <2>0. prio[t] \in Nat
    BY DEF TypeOK
  <2>1. CASE lower = {}
    BY <1>1, <2>0, <2>1
  <2>2. CASE lower # {}
    <3>1. p \in lower /\ First(p)
      BY <1>2, <2>2
    <3>2. p \in 1 .. Len(s) /\ prio[s[p]] < prio[t]
      BY <3>1
    <3> HIDE DEF p
    <3>3. \A i \in 1 .. p - 1 : i \notin lower /\ i \in 1 .. Len(s)
      BY <3>1, <3>2, <1>1
    <3> QED
      BY <3>2, <3>3, <1>1, <2>0
  <2> QED
    BY <2>1, <2>2
<1>4. InsertByPriority(s, t) =
        SubSeq(s, 1, p - 1) \o <<t>> \o SubSeq(s, p, Len(s))
  BY DEF InsertByPriority, InsertAt
<1> HIDE DEF p
<1> DEFINE a == SubSeq(s, 1, p - 1)
           b == SubSeq(s, p, Len(s))
           r == (a \o <<t>>) \o b
<1>5. /\ a \in Seq(Tasks) /\ Len(a) = p - 1
      /\ \A i \in 1 .. p - 1 : a[i] = s[i]
  BY <1>1, <1>3
<1>6. /\ b \in Seq(Tasks) /\ Len(b) = Len(s) - p + 1
      /\ \A i \in 1 .. Len(s) - p + 1 : b[i] = s[p + i - 1]
  BY <1>1, <1>3, SubSeqProperties
<1> HIDE DEF a, b
<1>7. /\ a \o <<t>> \in Seq(Tasks) /\ Len(a \o <<t>>) = p
      /\ \A i \in 1 .. p : (a \o <<t>>)[i] = IF i = p THEN t ELSE s[i]
  <2>1. <<t>> \in Seq(Tasks) /\ Len(<<t>>) = 1 /\ <<t>>[1] = t
    OBVIOUS
  <2> QED
    BY <1>3, <1>5, <2>1, ConcatProperties
<1> DEFINE c == a \o <<t>>
<1>8. /\ r \in Seq(Tasks) /\ Len(r) = Len(s) + 1
      /\ \A i \in 1 .. Len(s) + 1 :
           r[i] = IF i <= p THEN c[i] ELSE b[i - p]
  <2>1. c \in Seq(Tasks) /\ Len(c) = p
    BY <1>7
  <2> HIDE DEF c
  <2>2. /\ c \o b \in Seq(Tasks) /\ Len(c \o b) = Len(c) + Len(b)
        /\ \A i \in 1 .. Len(c) + Len(b) :
             (c \o b)[i] = IF i <= Len(c) THEN c[i] ELSE b[i - Len(c)]
    BY <2>1, <1>6, ConcatProperties
  <2>3. r = c \o b
    BY DEF c
  <2>4. Len(c) + Len(b) = Len(s) + 1
    BY <2>1, <1>1, <1>3, <1>6
  <2> HIDE DEF r
  <2> QED
    BY <2>1, <2>2, <2>3, <2>4
<1>9. \A i \in 1 .. Len(s) + 1 :
        r[i] = IF i < p THEN s[i] ELSE IF i = p THEN t ELSE s[i - 1]
  <2> SUFFICES ASSUME NEW i \in 1 .. Len(s) + 1
               PROVE  r[i] = IF i < p THEN s[i]
                             ELSE IF i = p THEN t ELSE s[i - 1]
    OBVIOUS
  <2>1. CASE i <= p
    BY <1>1, <1>3, <1>7, <1>8, <2>1
  <2>2. CASE i > p
    <3>1. i - p \in 1 .. Len(s) - p + 1 /\ p + (i - p) - 1 = i - 1
      BY <1>1, <1>3, <2>2
    <3> QED
      BY <1>3, <1>6, <1>8, <2>2, <3>1
  <2>3. i <= p \/ i > p
    BY <1>1, <1>3
  <2> QED
    BY <2>1, <2>2, <2>3
<1>10. InsertByPriority(s, t) = r
  BY <1>4 DEF a, b
<1> HIDE DEF r
<1> QED
  BY <1>3, <1>8, <1>9, <1>10

-----------------------------------------------------------------------------
(* Types and counts, for any number of mutexes on either port.              *)

Counted == TypeOK /\ CountsAgree

\* Whoever runs next is a task or the idle task.
LEMMA YieldTyped ==
    ASSUME TypeOK, Yield \/ UNCHANGED sched
    PROVE  cur' \in Tasks \cup {Nobody} /\ pend' \in BOOLEAN
<1>1. Highest' \subseteq Tasks \cup {Nobody}
  BY DEF Highest, Ready
<1>2. SwitchContext => cur' \in Tasks \cup {Nobody}
  BY <1>1 DEF SwitchContext
<1>3. pend' \in BOOLEAN
  BY DEF Yield, sched, TypeOK
<1> QED
  BY <1>2, <1>3 DEF Yield, sched, TypeOK

\* What leaves these alone leaves the counts right.
LEMMA CountsStay ==
    ASSUME CountsAgree, UNCHANGED <<count, holder, nest, held>>
    PROVE  CountsAgree'
BY DEF CountsAgree

\* A set of mutexes is finite.
LEMMA MutexesFinite ==
    ASSUME NEW S \in SUBSET Mutexes
    PROVE  IsFiniteSet(S) /\ Cardinality(S) \in Nat
BY MutexConstants, FS_Subset, FS_CardinalityType

\* A call that returns leaves its local variables in their types.
LEMMA ReturnTyped ==
    ASSUME TypeOK, NEW t \in Tasks, Return(t)
    PROVE  /\ pc' \in [Tasks ->
                         {"run", "try", "block", "expired", "disinherit"}]
           /\ mutex' \in [Tasks -> Mutexes]
           /\ wait' \in [Tasks -> {"zero", "some", "max"}]
           /\ late' \in [Tasks -> BOOLEAN] /\ inherited' \in [Tasks -> BOOLEAN]
<1>1. /\ pc' \in [Tasks -> {"run", "try", "block", "expired", "disinherit"}]
      /\ mutex' \in [Tasks -> Mutexes]
      /\ wait' \in [Tasks -> {"zero", "some", "max"}]
  BY DEF TypeOK, Return
<1>2. late' \in [Tasks -> BOOLEAN] /\ inherited' \in [Tasks -> BOOLEAN]
  BY Zenon DEF TypeOK, Return
<1> QED
  BY <1>1, <1>2

\* The tick changes no count.
LEMMA TickCounted == ASSUME Counted, Tick PROVE Counted'
<1> USE DEF Counted
<1>1. PICK woken \in SUBSET asleep, expired \in SUBSET Tasks :
        /\ asleep' = asleep \ woken
        /\ waiters' = [m \in Mutexes |-> Without(waiters[m], expired)]
        /\ late' = [t \in Tasks |-> late[t] \/ t \in expired]
        /\ UNCHANGED <<count, holder, nest, prio, held, crit, pc, mutex,
                       wait, inherited>>
        /\ Yield \/ UNCHANGED sched
  BY DEF Tick, YieldIf
<1>2. cur' \in Tasks \cup {Nobody} /\ pend' \in BOOLEAN
  BY <1>1, YieldTyped
<1>3. waiters' \in [Mutexes -> Seq(Tasks)]
  <2>1. \A m \in Mutexes : Without(waiters[m], expired) \in Seq(Tasks)
    BY WithoutIs DEF TypeOK
  <2> QED
    BY <1>1, <2>1
<1>4. late' \in [Tasks -> BOOLEAN]
  BY <1>1
<1>5. TypeOK'
  BY <1>1, <1>2, <1>3, <1>4 DEF TypeOK
<1> QED
  BY <1>1, <1>5, CountsStay

\* Steps that leave the counts alone.
LEMMA OtherCounted ==
    ASSUME Counted, NEW t \in Tasks,
           \/ Sleep(t) \/ Signal(t) \/ EnterCritical(t) \/ ExitCritical(t)
           \/ Refuse(t) \/ LookAgain(t) \/ Expire(t) \/ LastLook(t)
           \/ \E m \in Mutexes, w \in {"zero", "some", "max"} : Take(t, m, w)
    PROVE  Counted'
<1> USE DEF Counted, queue, tcb, sched, local
<1>1. CASE Sleep(t)
  <2>1. cur' \in Tasks \cup {Nobody} /\ pend' \in BOOLEAN
    BY <1>1, YieldTyped DEF Sleep
  <2>2. TypeOK'
    BY <1>1, <2>1 DEF Sleep, TypeOK
  <2> QED
    BY <1>1, <2>2, CountsStay DEF Sleep
<1>2. CASE Signal(t)
  <2>1. cur' \in Tasks \cup {Nobody} /\ pend' \in BOOLEAN
    BY <1>2, YieldTyped DEF Signal, YieldIf
  <2>2. TypeOK'
    BY <1>2, <2>1 DEF Signal, TypeOK
  <2> QED
    BY <1>2, <2>2, CountsStay DEF Signal
<1>3. CASE EnterCritical(t)
  <2>1. TypeOK'
    BY <1>3 DEF EnterCritical, TypeOK
  <2> QED
    BY <1>3, <2>1, CountsStay DEF EnterCritical
<1>4. CASE ExitCritical(t)
  <2>1. cur' \in Tasks \cup {Nobody}
    BY <1>4 DEF ExitCritical, SwitchContext, Highest, Ready, TypeOK
  <2>2. pend' \in BOOLEAN
    BY <1>4, Zenon DEF ExitCritical
  <2>3. TypeOK'
    BY <1>4, <2>1, <2>2 DEF ExitCritical, TypeOK
  <2> QED
    BY <1>4, <2>3, CountsStay DEF ExitCritical
<1>5. CASE Refuse(t)
  <2>1. CASE Return(t)
    <3>1. TypeOK'
      BY <1>5, <2>1, ReturnTyped DEF Refuse, TypeOK
    <3> QED
      BY <1>5, <3>1, CountsStay DEF Refuse
  <2>2. CASE ~Return(t)
    <3>1. TypeOK'
      BY <1>5, <2>2 DEF Refuse, Goto, TypeOK
    <3> QED
      BY <1>5, <3>1, CountsStay DEF Refuse
  <2> QED
    BY <2>1, <2>2
<1>6. CASE LookAgain(t)
  <2>1. TypeOK'
    BY <1>6 DEF LookAgain, Goto, TypeOK
  <2> QED
    BY <1>6, <2>1, CountsStay DEF LookAgain
<1>7. CASE Expire(t)
  <2>1. TypeOK'
    BY <1>7 DEF Expire, Goto, TypeOK
  <2> QED
    BY <1>7, <2>1, CountsStay DEF Expire
<1>8. CASE LastLook(t)
  <2>1. CASE Return(t)
    <3>1. TypeOK'
      BY <1>8, <2>1, ReturnTyped DEF LastLook, TypeOK
    <3> QED
      BY <1>8, <3>1, CountsStay DEF LastLook
  <2>2. CASE ~Return(t)
    <3>1. TypeOK'
      BY <1>8, <2>2 DEF LastLook, Goto, TypeOK
    <3> QED
      BY <1>8, <3>1, CountsStay DEF LastLook
  <2> QED
    BY <2>1, <2>2
<1>9. ASSUME NEW m \in Mutexes, NEW w \in {"zero", "some", "max"},
             Take(t, m, w)
      PROVE  Counted'
  <2>1. TypeOK'
    BY <1>9 DEF Take, Goto, TypeOK
  <2> QED
    BY <1>9, <2>1, CountsStay DEF Take
<1> QED
  BY <1>1, <1>2, <1>3, <1>4, <1>5, <1>6, <1>7, <1>8, <1>9

\* Taking a mutex again and giving it back once.
LEMMA NestCounted ==
    ASSUME Counted, NEW t \in Tasks, NEW m \in Mutexes,
           TakeAgain(t, m) \/ GiveOnce(t, m)
    PROVE  Counted'
<1> USE MutexConstants DEF Counted, tcb, sched, local
<1>1. holder[m] = t /\ holder[m] # Nobody /\ nest[m] \in 1 .. MaxNest
  BY DEF TakeAgain, GiveOnce, TypeOK, CountsAgree
<1>2. /\ nest' \in [Mutexes -> 0 .. MaxNest]
      /\ \A n \in Mutexes : (nest'[n] > 0) = (nest[n] > 0)
  <2>1. CASE TakeAgain(t, m)
    BY <1>1, <2>1 DEF TakeAgain, TypeOK
  <2>2. CASE GiveOnce(t, m)
    BY <1>1, <2>2 DEF GiveOnce, TypeOK
  <2> QED
    BY <2>1, <2>2
<1>3. UNCHANGED <<count, holder, waiters, tcb, sched, local>>
  BY DEF TakeAgain, GiveOnce
<1>4. TypeOK'
  BY <1>2, <1>3 DEF TypeOK
<1>5. CountsAgree'
  BY <1>2, <1>3 DEF CountsAgree
<1> QED
  BY <1>4, <1>5

\* Waiting, and giving up, change priorities and the list, but no count.
LEMMA BlockCounted ==
    ASSUME Counted, NEW t \in Tasks, Block(t) \/ DisinheritAfterTimeout(t)
    PROVE  Counted'
<1> USE MutexConstants DEF Counted, queue, tcb, sched, local
<1>1. CASE Block(t)
  <2>1. cur' \in Tasks \cup {Nobody} /\ pend' \in BOOLEAN
    BY <1>1, YieldTyped DEF Block
  <2>2. waiters' \in [Mutexes -> Seq(Tasks)]
    BY <1>1, InsertIs DEF Block, TypeOK
  <2>3. prio' \in [Tasks -> Nat]
    BY <1>1 DEF Block, Inherit, TypeOK
  <2>4. inherited' \in [Tasks -> BOOLEAN]
    <3>1. InheritanceOccurred(t, holder[mutex[t]]) \in BOOLEAN
      BY DEF InheritanceOccurred
    <3> QED
      BY <1>1, <3>1 DEF Block, TypeOK
  <2>5. pc' \in [Tasks -> {"run", "try", "block", "expired", "disinherit"}]
    BY <1>1 DEF Block, Goto, TypeOK
  <2>6. TypeOK'
    BY <1>1, <2>1, <2>2, <2>3, <2>4, <2>5 DEF Block, TypeOK
  <2> QED
    BY <1>1, <2>6, CountsStay DEF Block
<1>2. CASE DisinheritAfterTimeout(t)
  <2>1. prio' \in [Tasks -> Nat]
    <3> DEFINE m == mutex[t]
               h == holder[m]
    <3>1. /\ m \in Mutexes /\ h \in Tasks \cup {Nobody}
          /\ waiters[m] \in Seq(Tasks)
      BY DEF TypeOK
    <3>2. h # Nobody => DisinheritTo(h, m) \in Nat
      BY <3>1, HeadTailProperties DEF DisinheritTo, TypeOK
    <3> QED
      BY <1>2, <3>1, <3>2 DEF DisinheritAfterTimeout, TypeOK
  <2>2. TypeOK'
    BY <1>2, <2>1, ReturnTyped DEF DisinheritAfterTimeout, TypeOK
  <2> QED
    BY <1>2, <2>2, CountsStay DEF DisinheritAfterTimeout
<1> QED
  BY <1>1, <1>2

\* Taking the mutex: one more is held, by its new holder.
LEMMA ObtainCounted ==
    ASSUME Counted, NEW t \in Tasks, Obtain(t) PROVE Counted'
<1> USE MutexConstants DEF Counted
<1> DEFINE m == mutex[t]
<1>1. m \in Mutexes /\ count[m] = 1 /\ holder[m] = Nobody /\ nest[m] = 0
  <2>1. m \in Mutexes /\ count[m] \in {0, 1} /\ nest[m] \in 0 .. MaxNest
    BY DEF TypeOK
  <2>2. count[m] > 0
    BY DEF Obtain
  <2>3. count[m] = 1
    BY <2>1, <2>2
  <2>4. /\ (count[m] = 0) = (holder[m] # Nobody)
        /\ (count[m] = 0) = (nest[m] > 0)
    BY <2>1 DEF CountsAgree
  <2> QED
    BY <2>1, <2>3, <2>4
<1>2. TypeOK'
  <2>1. Return(t)
    BY DEF Obtain
  <2>2. count' \in [Mutexes -> {0, 1}]
    BY <1>1 DEF Obtain, TypeOK
  <2>3. nest' \in [Mutexes -> 0 .. MaxNest]
    BY <1>1 DEF Obtain, TypeOK
  <2>4. /\ held' \in [Tasks -> Nat]
        /\ holder' \in [Mutexes -> Tasks \cup {Nobody}]
    BY <1>1 DEF Obtain, TypeOK
  <2>5. /\ waiters' \in [Mutexes -> Seq(Tasks)] /\ prio' \in [Tasks -> Nat]
        /\ asleep' \subseteq Tasks /\ crit' \subseteq InCritical
        /\ cur' \in Tasks \cup {Nobody} /\ pend' \in BOOLEAN
    BY DEF Obtain, TypeOK, sched
  <2> QED
    BY <2>1, <2>2, <2>3, <2>4, <2>5, ReturnTyped DEF TypeOK
<1>3. \A n \in Mutexes :
        /\ (count'[n] = 0) = (holder'[n] # Nobody)
        /\ (count'[n] = 0) = (nest'[n] > 0)
  BY <1>1 DEF Obtain, TypeOK, CountsAgree
<1>4. ASSUME NEW u \in Tasks
      PROVE  held'[u] = Cardinality({n \in Mutexes : holder'[n] = u})
  <2> DEFINE S == {n \in Mutexes : holder[n] = u}
             T == {n \in Mutexes : holder'[n] = u}
  <2>0. S \in SUBSET Mutexes /\ held[u] = Cardinality(S)
    BY DEF CountsAgree
  <2>1. IsFiniteSet(S) /\ held[u] = Cardinality(S)
    <3> HIDE DEF S
    <3> QED
      BY <2>0, MutexesFinite
  <2>2. CASE u = t
    <3>1. T = S \cup {m} /\ m \notin S
      BY <1>1, <2>2 DEF Obtain, TypeOK
    <3>2. held'[u] = held[u] + 1
      BY <2>2 DEF Obtain, TypeOK
    <3> HIDE DEF S, T
    <3> QED
      BY <2>1, <3>1, <3>2, FS_AddElement DEF T
  <2>3. CASE u # t
    <3>1. T = S
      BY <1>1, <2>3 DEF Obtain, TypeOK
    <3>2. held'[u] = held[u]
      BY <2>3 DEF Obtain, TypeOK
    <3> HIDE DEF S, T
    <3> QED
      BY <2>1, <3>1, <3>2 DEF T
  <2> QED
    BY <2>2, <2>3
<1>5. CountsAgree'
  BY <1>3, <1>4 DEF CountsAgree
<1> QED
  BY <1>2, <1>5

\* Giving it back: one less is held.
LEMMA GiveCounted ==
    ASSUME Counted, NEW t \in Tasks, NEW m \in Mutexes, Give(t, m)
    PROVE  Counted'
<1> USE MutexConstants DEF Counted
<1>1. holder[m] = t /\ count[m] = 0
  BY DEF Give, CountsAgree
<1>2. \A n \in Mutexes :
        /\ (count'[n] = 0) = (holder'[n] # Nobody)
        /\ (count'[n] = 0) = (nest'[n] > 0)
  BY <1>1 DEF Give, TypeOK, CountsAgree
<1>3. ASSUME NEW u \in Tasks
      PROVE  /\ held'[u] = Cardinality({n \in Mutexes : holder'[n] = u})
             /\ held'[u] \in Nat
  <2> DEFINE S == {n \in Mutexes : holder[n] = u}
             T == {n \in Mutexes : holder'[n] = u}
  <2>0. /\ S \in SUBSET Mutexes /\ held[u] = Cardinality(S)
        /\ T \in SUBSET Mutexes
    BY DEF CountsAgree
  <2>1. IsFiniteSet(S) /\ held[u] = Cardinality(S) /\ Cardinality(T) \in Nat
    <3> HIDE DEF S, T
    <3> QED
      BY <2>0, MutexesFinite
  <2>2. CASE u = t
    <3>1. T = S \ {m} /\ m \in S
      BY <1>1, <2>2 DEF Give, TypeOK
    <3>2. held'[u] = held[u] - 1
      BY <2>2 DEF Give, TypeOK
    <3> HIDE DEF S, T
    <3> QED
      <4>1. Cardinality(T) = Cardinality(S) - 1
        BY <2>1, <3>1, FS_RemoveElement
      <4>2. held'[u] = Cardinality(T) /\ held'[u] \in Nat
        BY <2>1, <3>2, <4>1
      <4> QED
        BY <4>2 DEF T
  <2>3. CASE u # t
    <3>1. T = S
      BY <1>1, <2>3 DEF Give, TypeOK
    <3>2. held'[u] = held[u]
      BY <2>3 DEF Give, TypeOK
    <3> HIDE DEF S, T
    <3> QED
      BY <2>1, <3>1, <3>2 DEF T
  <2> QED
    BY <2>2, <2>3
<1>4. CountsAgree'
  BY <1>2, <1>3 DEF CountsAgree
<1>5. TypeOK'
  <2>1. cur' \in Tasks \cup {Nobody} /\ pend' \in BOOLEAN
    BY YieldTyped DEF Give, YieldIf
  <2>2. held' \in [Tasks -> Nat]
    BY <1>3 DEF Give, TypeOK
  <2>3. waiters' \in [Mutexes -> Seq(Tasks)]
    <3>1. waiters[m] # <<>> => Tail(waiters[m]) \in Seq(Tasks)
      BY DEF TypeOK
    <3>2. waiters' = waiters \/ (waiters[m] # <<>>
                /\ waiters' = [waiters EXCEPT ![m] = Tail(@)])
      BY DEF Give
    <3> QED
      BY <3>1, <3>2 DEF TypeOK
  <2>4. prio' \in [Tasks -> Nat]
    BY DEF Give, Disinherit, TypeOK
  <2>5. /\ count' \in [Mutexes -> {0, 1}] /\ nest' \in [Mutexes -> 0 .. MaxNest]
        /\ holder' \in [Mutexes -> Tasks \cup {Nobody}]
    BY <1>1 DEF Give, TypeOK
  <2> QED
    BY <2>1, <2>2, <2>3, <2>4, <2>5 DEF Give, TypeOK, local
<1> QED
  BY <1>4, <1>5

\* Every step keeps the types and the counts.
LEMMA CountedStep == ASSUME Counted, [Next]_vars PROVE Counted'
<1>1. CASE Next
  <2>1. ASSUME NEW t \in Tasks, Step(t) PROVE Counted'
    BY <2>1, OtherCounted, BlockCounted, ObtainCounted DEF Step
  <2>2. ASSUME NEW t \in Tasks, Release(t) PROVE Counted'
    BY <2>2, NestCounted, GiveCounted DEF Release
  <2>3. ASSUME NEW t \in Tasks,
               \/ Sleep(t) \/ Signal(t) \/ EnterCritical(t) \/ ExitCritical(t)
               \/ \E m \in Mutexes, w \in {"zero", "some", "max"} : Take(t, m, w)
        PROVE  Counted'
    BY <2>3, OtherCounted
  <2>4. ASSUME NEW t \in Tasks, NEW m \in Mutexes, TakeAgain(t, m) PROVE Counted'
    BY <2>4, NestCounted
  <2> QED
    BY <1>1, <2>1, <2>2, <2>3, <2>4, TickCounted DEF Next
<1>2. CASE UNCHANGED vars
  BY <1>2 DEF vars, queue, tcb, sched, local, Counted, TypeOK, CountsAgree
<1> QED
  BY <1>1, <1>2

\* The mutexes are free at the start.
LEMMA CountedInit == ASSUME Init PROVE Counted
<1> USE MutexConstants DEF Init
<1>1. AnyMutex \in Mutexes
  BY DEF AnyMutex
<1>2. TypeOK
  <2>1. /\ count \in [Mutexes -> {0, 1}] /\ nest \in [Mutexes -> 0 .. MaxNest]
        /\ holder \in [Mutexes -> Tasks \cup {Nobody}]
        /\ waiters \in [Mutexes -> Seq(Tasks)]
        /\ prio \in [Tasks -> Nat] /\ held \in [Tasks -> Nat]
        /\ asleep \subseteq Tasks /\ crit \subseteq InCritical
    OBVIOUS
  <2>2. /\ cur \in Tasks \cup {Nobody} /\ pend \in BOOLEAN
        /\ late \in [Tasks -> BOOLEAN] /\ inherited \in [Tasks -> BOOLEAN]
    BY Zenon
  <2>3. /\ pc \in [Tasks -> {"run", "try", "block", "expired", "disinherit"}]
        /\ mutex \in [Tasks -> Mutexes]
        /\ wait \in [Tasks -> {"zero", "some", "max"}]
    BY <1>1
  <2> QED
    BY <2>1, <2>2, <2>3 DEF TypeOK
<1>3. CountsAgree
  <2>1. ASSUME NEW t \in Tasks
        PROVE  held[t] = Cardinality({m \in Mutexes : holder[m] = t})
    <3>1. {m \in Mutexes : holder[m] = t} = {}
      OBVIOUS
    <3> QED
      BY <3>1, FS_EmptySet
  <2> QED
    BY <2>1 DEF CountsAgree
<1> QED
  BY <1>2, <1>3 DEF Counted

-----------------------------------------------------------------------------
(* One mutex.                                                               *)

\* What the simple case is.
LEMMA OneMutex ==
    ASSUME Simple PROVE \A m, n \in Mutexes : m = n
BY DEF Simple

\* WaitsFor in terms of positions on the list.
LEMMA OnListAt ==
    ASSUME NEW s \in Seq(Tasks)
    PROVE  ToSet(s) = {s[i] : i \in 1 .. Len(s)} /\ ToSet(s) \subseteq Tasks
BY DEF ToSet

\* After a yield one of the ready tasks of highest priority runs.
LEMMA YieldToHighest ==
    ASSUME Yield, ~(Deferred /\ cur \in crit)
    PROVE  /\ pend' = pend
           /\ \/ cur' = Nobody /\ Ready' = {}
              \/ cur' \in Ready' /\ \A u \in Ready' : prio'[u] <= prio'[cur']
<1>1. SwitchContext /\ pend' = pend
  BY DEF Yield
<1>2. cur' \in Highest'
  BY <1>1 DEF SwitchContext
<1>3. CASE Ready' = {}
  BY <1>1, <1>2, <1>3 DEF Highest
<1>4. CASE Ready' # {}
  BY <1>1, <1>2, <1>4 DEF Highest
<1> QED
  BY <1>3, <1>4

\* Where every task that was ready still is, and the priorities stay, whether
\* there is a switch or not, a task runs that is not below the old one.
LEMMA RunningStays ==
    ASSUME Running, Ready \subseteq Ready', UNCHANGED <<crit, prio>>, TypeOK,
           Yield \/ UNCHANGED sched
    PROVE  /\ Running'
           /\ \A w \in Ready, n \in Nat :
                n <= prio[w] /\ n <= PrioOf(cur) => n <= PrioOf(cur)'
<1>0. CASE Yield /\ Deferred /\ cur \in crit
  BY <1>0 DEF Running, Yield, PrioOf
<1>1. CASE UNCHANGED sched
  BY <1>1 DEF Running, sched, PrioOf
<1>2. CASE Yield /\ ~(Deferred /\ cur \in crit)
  <2>1. /\ pend' = pend
        /\ \/ cur' = Nobody /\ Ready' = {}
           \/ cur' \in Ready' /\ \A u \in Ready' : prio'[u] <= prio'[cur']
    BY <1>2, YieldToHighest
  <2>2. Running'
    BY <1>2, <2>1 DEF Running
  <2>3. ASSUME NEW w \in Ready, NEW n \in Nat, n <= prio[w]
        PROVE  n <= PrioOf(cur)'
    <3>1. w \in Ready' /\ cur' \in Ready' /\ prio[w] <= prio[cur']
      BY <2>1
    <3>2. w \in Tasks /\ cur' \in Tasks /\ cur' # Nobody
      BY <3>1, MutexConstants DEF Ready
    <3>3. prio[w] \in Nat /\ prio[cur'] \in Nat /\ PrioOf(cur)' = prio[cur']
      BY <3>2 DEF TypeOK, PrioOf
    <3> QED
      BY <3>1, <3>3, <2>3
  <2> QED
    BY <2>2, <2>3
<1> QED
  BY <1>0, <1>1, <1>2

\* A switch, at once or held back, is to the right task.
LEMMA YieldToTop == ASSUME Yield PROVE TopRuns'
<1>1. SwitchContext => cur' \in Highest'
  BY DEF SwitchContext
<1> QED
  BY <1>1 DEF Yield, TopRuns

\* So is no switch, where the ready tasks and their priorities stay.
LEMMA TopStays ==
    ASSUME TopRuns, UNCHANGED <<sched, prio>>, Ready' = Ready,
           \A u \in Tasks \ {cur} : late[u] => late'[u]
    PROVE  TopRuns'
<1>1. Highest' = Highest /\ cur' = cur /\ pend' = pend
  BY DEF Highest, sched
<1>2. Highest \subseteq Tasks \cup {Nobody}
  BY DEF Highest, Ready
<1> QED
  BY <1>1, <1>2 DEF TopRuns

\* So is no switch, where those that become ready are not above the running task.
LEMMA TopOfMore ==
    ASSUME Counted, TopRuns, Running, Borrowed, UNCHANGED <<sched, prio>>,
           Ready \subseteq Ready',
           \A u \in Ready' \ Ready : prio[u] <= PrioOf(cur),
           \A u \in Tasks \ {cur} : late[u] => late'[u]
    PROVE  TopRuns'
<1>1. prio \in [Tasks -> Nat] /\ Ready' \subseteq Tasks /\ Nobody \notin Tasks
  BY MutexConstants DEF Counted, TypeOK, Ready
<1>2. CASE cur = Nobody
  <2>1. \A u \in Tasks : prio[u] > 0
    BY <1>1, MutexConstants DEF Borrowed
  <2>2. Ready' = Ready
    BY <1>1, <1>2, <2>1 DEF PrioOf
  <2> QED
    BY <2>2, TopStays
<1>3. CASE cur # Nobody /\ ~pend
  <2>1. cur \in Ready /\ cur \in Tasks /\ PrioOf(cur) = prio[cur]
    BY <1>3 DEF Running, Ready, PrioOf
  <2>2. PICK t \in Highest :
          \/ t = cur
          \/ t # Nobody /\ late[t] /\ ~(Deferred /\ cur \in InCritical)
    BY <1>3 DEF TopRuns
  <2>3. t \in Ready /\ \A u \in Ready : prio[u] <= prio[t]
    BY <2>1, <2>2 DEF Highest
  <2>4. \A u \in Ready' : prio[u] <= prio[t]
    BY <1>1, <2>1, <2>3
  <2>5. t \in Highest' /\ t \in Tasks
    BY <2>3, <2>4, <1>1 DEF Highest
  <2> QED
    BY <2>2, <2>5 DEF TopRuns, sched
<1> QED
  BY <1>2, <1>3 DEF TopRuns, sched

\* A step inside a call of the running task, which stays as good a lender as it
\* was and is not the one that a free mutex was given to.
LEMMA InsideCall ==
    ASSUME SimpleInv, TypeOK, NEW t \in Tasks, cur = t,
           UNCHANGED <<queue, tcb, sched>>,
           \A u \in Tasks \ {t} :
               /\ pc'[u] = pc[u] /\ mutex'[u] = mutex[u]
               /\ wait'[u] = wait[u] /\ inherited'[u] = inherited[u]
               /\ late'[u] = late[u],
           pc'[t] # "run" => holder[mutex'[t]] # t /\ User(t),
           late'[t] => pc'[t] # "run",
           late'[t] \/ wait'[t] = "some" => "some" \in Waits[t],
           pc'[t] = "block" => wait'[t] # "zero",
           pc[t] # "try" \/ \A m \in Mutexes : count[m] = 0,
           \A m \in Mutexes : holder[m] # Nobody /\ Lender(t, m) => Lender(t, m)'
    PROVE  SimpleInv'
<1> USE DEF queue, tcb, sched
<1>1. \A u, m : WaitsFor(u, m)' = WaitsFor(u, m)
  BY DEF WaitsFor
<1>2. Ready' = Ready
  BY <1>1 DEF Ready
<1>3. t \in Ready /\ t \notin asleep /\ \A m \in Mutexes : ~WaitsFor(t, m)
  BY MutexConstants DEF SimpleInv, Running, Ready
<1>4. Running' /\ Alone'
  BY <1>2 DEF SimpleInv, Running, Alone
<1>5. OnList'
  <2> SUFFICES ASSUME NEW m \in Mutexes, NEW u \in Tasks, WaitsFor(u, m)
               PROVE  /\ pc'[u] = "try" /\ mutex'[u] = m
                      /\ wait'[u] # "zero" /\ u \notin asleep
    BY <1>1 DEF SimpleInv, OnList
  <2>1. u # t
    BY <1>3
  <2> QED
    BY <2>1 DEF SimpleInv, OnList
<1>6. Calling'
  <2> SUFFICES ASSUME NEW u \in Tasks
               PROVE  /\ pc'[u] # "run" => holder[mutex'[u]] # u
                      /\ pc'[u] = "block" => wait'[u] # "zero"
    BY DEF Calling
  <2> QED
    BY DEF SimpleInv, Calling
<1>7. Borrowed' /\ HolderCarriesWaiters' /\ WokenByPriority'
  BY <1>1 DEF SimpleInv, Borrowed, HolderCarriesWaiters, WokenByPriority
<1>10. Using'
  <2>1. \A u : User(u)' = User(u)
    BY DEF User
  <2>2. ASSUME NEW u \in Tasks
        PROVE  /\ pc'[u] # "run" => User(u) /\ u \notin asleep
               /\ late'[u] => pc'[u] # "run"
               /\ late'[u] \/ wait'[u] = "some" => "some" \in Waits[u]
    <3>1. CASE u = t
      BY <3>1, <1>3
    <3>2. CASE u # t
      BY <3>2 DEF SimpleInv, Using
    <3> QED
      BY <3>1, <3>2
  <2> QED
    BY <2>1, <2>2 DEF SimpleInv, Using
<1>11. TopRuns'
  BY <1>2, TopStays DEF SimpleInv
<1>8. FreeForHighest'
  <2> SUFFICES ASSUME NEW m \in Mutexes, count[m] = 1, waiters[m] # <<>>
               PROVE  /\ \A u \in ToSet(waiters[m]) : prio[u] <= PrioOf(cur)
                      /\ \E w \in Ready :
                           /\ pc'[w] = "try" /\ mutex'[w] = m
                           /\ \A u \in ToSet(waiters[m]) : prio[u] <= prio[w]
    BY <1>2 DEF FreeForHighest, PrioOf
  <2>1. PICK w \in Ready :
          /\ pc[w] = "try" /\ mutex[w] = m
          /\ \A u \in ToSet(waiters[m]) : prio[u] <= prio[w]
    BY DEF SimpleInv, FreeForHighest
  <2>2. w \in Tasks \ {t}
    BY <2>1 DEF Ready
  <2> QED
    BY <2>1, <2>2 DEF SimpleInv, FreeForHighest
<1>9. Lent'
  <2> SUFFICES ASSUME NEW m \in Mutexes, holder[m] # Nobody
               PROVE  /\ prio[holder[m]] > Prio[holder[m]] =>
                           \E u \in Tasks : /\ Lender(u, m)'
                                            /\ prio[u] = prio[holder[m]]
                      /\ \A u \in Tasks :
                           WaitsFor(u, m) /\ prio[u] > Prio[holder[m]] =>
                               inherited'[u]
    BY <1>1 DEF Lent
  <2>1. \A u \in Tasks : Lender(u, m) => Lender(u, m)'
    <3> SUFFICES ASSUME NEW u \in Tasks, Lender(u, m) PROVE Lender(u, m)'
      OBVIOUS
    <3>1. CASE u = t
      BY <3>1
    <3>2. CASE u # t
      BY <3>2, <1>1 DEF Lender
    <3> QED
      BY <3>1, <3>2
  <2>2. \A u \in Tasks : WaitsFor(u, m) => u # t
    BY <1>3
  <2> QED
    BY <2>1, <2>2 DEF SimpleInv, Lent
<1> QED
  BY <1>4, <1>5, <1>6, <1>7, <1>8, <1>9, <1>10, <1>11 DEF SimpleInv

\* The steps of a call that only move it on.
LEMMA CallSimple ==
    ASSUME Simple, Counted, SimpleInv, NEW t \in Tasks,
           \/ Refuse(t) \/ LookAgain(t) \/ Expire(t) \/ LastLook(t)
           \/ \E m \in Mutexes, w \in {"zero", "some", "max"} : Take(t, m, w)
    PROVE  SimpleInv'
<1> DEFINE m == mutex[t]
<1> USE DEF Counted
<1>1. m \in Mutexes /\ \A n \in Mutexes : n = m
  BY OneMutex DEF TypeOK
<1>2. count[m] \in {0, 1} /\ (count[m] = 0) = (holder[m] # Nobody)
  BY <1>1 DEF TypeOK, CountsAgree
<1>3. t \in DOMAIN pc /\ t \in DOMAIN wait /\ t \in DOMAIN mutex
      /\ t \in DOMAIN inherited /\ t \in DOMAIN late
  BY DEF TypeOK
<1>4. cur = t /\ UNCHANGED <<queue, tcb, sched>>
  BY DEF Refuse, LookAgain, Expire, LastLook, Take
<1>5. \A n \in Mutexes : ~WaitsFor(t, n)
  BY <1>4, MutexConstants DEF SimpleInv, Running, Ready
<1>6. \A u \in Tasks : mutex[u] = m
  BY <1>1 DEF TypeOK
<1>7. /\ pc[t] # "run" => holder[m] # t
      /\ pc[t] = "block" => wait[t] # "zero"
  BY <1>6 DEF SimpleInv, Calling
<1>8. \A u \in Tasks \ {t} :
         /\ pc'[u] = pc[u] /\ mutex'[u] = mutex[u]
         /\ wait'[u] = wait[u] /\ inherited'[u] = inherited[u]
         /\ late'[u] = late[u]
  BY DEF Refuse, LookAgain, Expire, LastLook, Take, Return, Goto, TypeOK
<1>9. \A n \in Mutexes : WaitsFor(t, n)' = WaitsFor(t, n)
  BY <1>4 DEF WaitsFor, queue
<1>16. /\ pc[t] # "run" => User(t)
       /\ late[t] => pc[t] # "run"
       /\ late[t] \/ wait[t] = "some" => "some" \in Waits[t]
  BY DEF SimpleInv, Using
<1> DEFINE Moved == /\ pc'[t] # "run" => holder[mutex'[t]] # t /\ User(t)
                    /\ late'[t] => pc'[t] # "run"
                    /\ late'[t] \/ wait'[t] = "some" => "some" \in Waits[t]
                    /\ pc'[t] = "block" => wait'[t] # "zero"
                    /\ pc[t] # "try" \/ \A n \in Mutexes : count[n] = 0
                    /\ \A n \in Mutexes :
                         holder[n] # Nobody /\ Lender(t, n) => Lender(t, n)'
<1>10. ASSUME NEW n \in Mutexes, NEW w, Take(t, n, w) PROVE Moved
  <2>1. /\ pc[t] = "run" /\ holder[n] # t /\ mutex'[t] = n /\ pc'[t] = "try"
        /\ wait'[t] \in Waits[t] /\ late' = late
    BY <1>3, <1>10 DEF Take, Goto
  <2>2. \A k \in Mutexes : ~Lender(t, k)
    BY <2>1, <1>5 DEF Lender
  <2>3. User(t)
    BY <1>10 DEF Take, User
  <2> QED
    BY <2>1, <2>2, <2>3, <1>16
<1>11. ASSUME Refuse(t) PROVE Moved
  <2>1. pc[t] = "try" /\ count[m] = 0
    BY <1>11 DEF Refuse
  <2>2. CASE wait[t] = "zero"
    <3>1. pc'[t] = "run" /\ wait'[t] = "zero" /\ ~late'[t]
      BY <1>3, <1>11, <2>2 DEF Refuse, Return
    <3>2. \A k \in Mutexes : ~Lender(t, k)
      BY <2>1, <2>2, <1>5 DEF Lender
    <3> QED
      BY <2>1, <3>1, <3>2, <1>1
  <2>3. CASE wait[t] # "zero"
    <3>1. pc'[t] = "block" /\ UNCHANGED <<mutex, wait, late, inherited>>
      BY <1>3, <1>11, <2>3 DEF Refuse, Goto
    <3>2. \A k \in Mutexes : Lender(t, k) => Lender(t, k)'
      BY <3>1, <1>9 DEF Lender
    <3> QED
      BY <2>1, <2>3, <3>1, <3>2, <1>1, <1>7, <1>16
  <2> QED
    BY <2>2, <2>3
<1>12. ASSUME LookAgain(t) PROVE Moved
  <2>1. pc[t] = "block" /\ count[m] = 1 /\ holder[m] = Nobody
    BY <1>2, <1>12 DEF LookAgain
  <2>2. pc'[t] = "try" /\ UNCHANGED <<mutex, wait, late>>
    BY <1>3, <1>12 DEF LookAgain, Goto
  <2> QED
    BY <2>1, <2>2, <1>1, <1>16, MutexConstants
<1>13. ASSUME Expire(t) PROVE Moved
  <2>1. /\ pc[t] = "block" /\ pc'[t] = "expired" /\ wait'[t] = "zero"
        /\ UNCHANGED <<mutex, late, inherited>>
    BY <1>3, <1>13 DEF Expire, Goto
  <2>2. \A k \in Mutexes : Lender(t, k) => Lender(t, k)'
    BY <2>1, <1>9 DEF Lender
  <2> QED
    BY <2>1, <2>2, <1>7, <1>16
<1>14. ASSUME LastLook(t) PROVE Moved
  <2>1. pc[t] = "expired"
    BY <1>14 DEF LastLook
  <2>2. CASE count[m] = 0 /\ ~inherited[t]
    <3>1. pc'[t] = "run" /\ wait'[t] = "zero" /\ ~late'[t]
      BY <1>3, <1>14, <2>2 DEF LastLook, Return
    <3>2. \A k \in Mutexes : ~Lender(t, k)
      BY <2>2, <1>5 DEF Lender
    <3> QED
      BY <2>1, <3>1, <3>2
  <2>3. CASE count[m] = 0 /\ inherited[t]
    <3>1. pc'[t] = "disinherit" /\ UNCHANGED <<mutex, wait, late, inherited>>
      BY <1>3, <1>14, <2>3 DEF LastLook, Goto
    <3>2. \A k \in Mutexes : Lender(t, k) => Lender(t, k)'
      BY <3>1, <1>9 DEF Lender
    <3> QED
      BY <2>1, <3>1, <3>2, <1>7, <1>16
  <2>4. CASE count[m] # 0
    <3>1. pc'[t] = "try" /\ UNCHANGED <<mutex, wait, late>>
      BY <1>3, <1>14, <2>4 DEF LastLook, Goto
    <3> QED
      BY <2>1, <2>4, <3>1, <1>1, <1>2, <1>7, <1>16
  <2> QED
    BY <2>2, <2>3, <2>4
<1>15. Moved
  BY <1>10, <1>11, <1>12, <1>13, <1>14
<1> QED
  BY <1>4, <1>8, <1>15, InsideCall

\* Nested calls change nothing but the recursion count.
LEMMA NestSimple ==
    ASSUME SimpleInv, UNCHANGED <<count, holder, waiters, tcb, sched, local>>
    PROVE  SimpleInv'
<1> USE DEF tcb, sched, local
<1>1. \A u, m : WaitsFor(u, m)' = WaitsFor(u, m)
  BY DEF WaitsFor
<1>2. Ready' = Ready
  BY <1>1 DEF Ready
<1>3. \A u, m : Lender(u, m)' = Lender(u, m)
  BY <1>1 DEF Lender
<1>4. Running' /\ Alone' /\ OnList' /\ Calling' /\ Borrowed'
  BY <1>1, <1>2 DEF SimpleInv, Running, Alone, OnList, Calling, Borrowed
<1>8. Using' /\ TopRuns'
  BY <1>2, TopStays DEF SimpleInv, Using, User
<1>5. HolderCarriesWaiters' /\ WokenByPriority'
  BY <1>1 DEF SimpleInv, HolderCarriesWaiters, WokenByPriority
<1>6. FreeForHighest'
  BY <1>2 DEF SimpleInv, FreeForHighest, PrioOf
<1>7. Lent'
  BY <1>1, <1>3 DEF SimpleInv, Lent
<1> QED
  BY <1>4, <1>5, <1>6, <1>7, <1>8 DEF SimpleInv

\* A free mutex is taken by the task that runs, which no waiting task is above.
LEMMA ObtainSimple ==
    ASSUME Simple, Counted, SimpleInv, NEW t \in Tasks, Obtain(t)
    PROVE  SimpleInv'
<1> DEFINE m == mutex[t]
<1> USE DEF Counted
<1>1. m \in Mutexes /\ \A n \in Mutexes : n = m
  BY OneMutex DEF TypeOK
<1>2. cur = t /\ pc[t] = "try" /\ count[m] = 1 /\ holder[m] = Nobody
  <2>1. count[m] \in {0, 1} /\ (count[m] = 0) = (holder[m] # Nobody)
    BY <1>1 DEF TypeOK, CountsAgree
  <2>2. count[m] > 0 /\ cur = t /\ pc[t] = "try"
    BY DEF Obtain
  <2> QED
    BY <2>1, <2>2
<1>3. /\ count'[m] = 0 /\ holder'[m] = t /\ pc'[t] = "run"
      /\ UNCHANGED <<waiters, prio, asleep, crit, sched, mutex>>
      /\ \A u \in Tasks \ {t} :
           /\ pc'[u] = pc[u] /\ wait'[u] = wait[u] /\ late'[u] = late[u]
           /\ inherited'[u] = inherited[u]
      /\ wait'[t] = "zero" /\ ~late'[t]
  BY <1>1, <1>2 DEF Obtain, Return, TypeOK
<1>4. \A u, n : WaitsFor(u, n)' = WaitsFor(u, n)
  BY <1>3 DEF WaitsFor
<1>5. Ready' = Ready
  BY <1>3, <1>4 DEF Ready
<1>6. \A n \in Mutexes : ~WaitsFor(t, n)
  BY <1>2, MutexConstants DEF SimpleInv, Running, Ready
<1>7. prio \in [Tasks -> Nat] /\ Prio \in [Tasks -> Nat] /\ t # Nobody
  BY MutexConstants DEF TypeOK
<1>8. \A u \in Tasks : WaitsFor(u, m) => prio[u] <= prio[t]
  <2> SUFFICES ASSUME NEW u \in Tasks, WaitsFor(u, m) PROVE prio[u] <= prio[t]
    OBVIOUS
  <2>1. waiters[m] # <<>>
    BY <1>1 DEF WaitsFor, ToSet, TypeOK
  <2> QED
    BY <1>1, <1>2, <1>7, <2>1 DEF SimpleInv, FreeForHighest, WaitsFor, PrioOf
<1>9. \A u \in Tasks : prio[u] = Prio[u]
  BY <1>1, <1>2, MutexConstants DEF SimpleInv, Borrowed
<1>10. Running' /\ Alone'
  BY <1>1, <1>2, <1>3, <1>5 DEF SimpleInv, Running, Alone, sched
<1>18. TopRuns'
  BY <1>2, <1>3, <1>5, TopStays DEF SimpleInv
<1>19. Using'
  <2>1. \A u : User(u)' = User(u)
    BY <1>3 DEF User
  <2>2. User(t) /\ t \notin asleep
    BY <1>2 DEF SimpleInv, Using
  <2>3. ASSUME NEW u \in Tasks
        PROVE  /\ pc'[u] # "run" => User(u) /\ u \notin asleep
               /\ late'[u] => pc'[u] # "run"
               /\ late'[u] \/ wait'[u] = "some" => "some" \in Waits[u]
    <3>1. CASE u = t
      BY <3>1, <1>3
    <3>2. CASE u # t
      BY <3>2, <1>3 DEF SimpleInv, Using
    <3> QED
      BY <3>1, <3>2
  <2> QED
    BY <2>1, <2>2, <2>3, <1>1, <1>3 DEF Using
<1>11. OnList'
  <2> SUFFICES ASSUME NEW n \in Mutexes, NEW u \in Tasks, WaitsFor(u, n)
               PROVE  /\ pc'[u] = "try" /\ mutex[u] = n
                      /\ wait'[u] # "zero" /\ u \notin asleep
    BY <1>3, <1>4 DEF SimpleInv, OnList
  <2>1. u # t
    BY <1>6
  <2> QED
    BY <1>3, <2>1 DEF SimpleInv, OnList
<1>12. Calling'
  <2> SUFFICES ASSUME NEW u \in Tasks
               PROVE  /\ pc'[u] # "run" => holder'[mutex[u]] # u
                      /\ pc'[u] = "block" => wait'[u] # "zero"
    BY <1>3 DEF Calling
  <2>1. mutex[u] = m
    BY <1>1 DEF TypeOK
  <2>2. CASE u = t
    BY <1>3, <2>2
  <2>3. CASE u # t
    BY <1>3, <2>1, <2>3 DEF SimpleInv, Calling
  <2> QED
    BY <2>2, <2>3
<1>13. Borrowed'
  BY <1>3, <1>7, <1>9 DEF Borrowed
<1>14. HolderCarriesWaiters'
  BY <1>1, <1>3, <1>4, <1>7, <1>8 DEF HolderCarriesWaiters
<1>15. WokenByPriority'
  BY <1>3 DEF SimpleInv, WokenByPriority
<1>16. FreeForHighest'
  BY <1>1, <1>3 DEF FreeForHighest
<1>17. Lent'
  <2> SUFFICES ASSUME NEW n \in Mutexes
               PROVE  /\ ~(prio[t] > Prio[t])
                      /\ \A u \in Tasks : ~(WaitsFor(u, n) /\ prio[u] > Prio[t])
    BY <1>1, <1>3, <1>4 DEF Lent
  <2> QED
    BY <1>1, <1>7, <1>8, <1>9
<1> QED
  BY <1>10, <1>11, <1>12, <1>13, <1>14, <1>15, <1>16, <1>17, <1>18, <1>19
     DEF SimpleInv

\* Steps that leave the mutex, the priorities and the calls alone: those who are
\* still ready, but perhaps one that was outside any call, run by priority.
LEMMA SchedulerSimple ==
    ASSUME Counted, SimpleInv, NEW t \in Tasks, Sleep(t) \/ Signal(t)
    PROVE  SimpleInv'
<1> USE DEF Counted
<1>1. /\ cur = t /\ pc[t] = "run" /\ asleep' \subseteq asleep \cup {t}
      /\ UNCHANGED <<queue, prio, held, crit, local>>
      /\ Yield \/ UNCHANGED sched
  BY DEF Sleep, Signal, YieldIf
<1> USE <1>1 DEF queue, local
<1>2. \A u, m : WaitsFor(u, m)' = WaitsFor(u, m)
  BY DEF WaitsFor
<1>3. Ready \ {t} \subseteq Ready'
  BY <1>2 DEF Ready
<1>4. \A u, m : Lender(u, m)' = Lender(u, m)
  BY <1>2 DEF Lender
<1>5. /\ Running'
      /\ \A w \in Ready \ {t}, n \in Nat :
           n <= prio[w] /\ n <= PrioOf(cur) => n <= PrioOf(cur)'
  <2>1. CASE Signal(t)
    <3>1. asleep' \subseteq asleep
      BY <2>1 DEF Signal
    <3>2. Ready \subseteq Ready'
      BY <1>2, <3>1 DEF Ready
    <3> QED
      BY <3>2, RunningStays DEF SimpleInv
  <2>2. CASE Sleep(t)
    <3>1. /\ pend' = pend /\ t \notin crit
          /\ \/ cur' = Nobody /\ Ready' = {}
             \/ cur' \in Ready' /\ \A u \in Ready' : prio'[u] <= prio'[cur']
      BY <2>2, YieldToHighest DEF Sleep
    <3>2. Running'
      BY <3>1 DEF SimpleInv, Running
    <3>3. ASSUME NEW w \in Ready \ {t}, NEW n \in Nat, n <= prio[w]
          PROVE  n <= PrioOf(cur)'
      <4>1. w \in Ready' /\ cur' \in Ready' /\ prio[w] <= prio[cur']
        BY <1>3, <3>1
      <4>2. w \in Tasks /\ cur' \in Tasks /\ cur' # Nobody
        BY <4>1, MutexConstants DEF Ready
      <4>3. /\ prio[w] \in Nat /\ prio[cur'] \in Nat
            /\ PrioOf(cur)' = prio[cur']
        BY <4>2 DEF TypeOK, PrioOf
      <4> QED
        BY <4>1, <4>3, <3>3
    <3> QED
      BY <3>2, <3>3
  <2> QED
    BY <2>1, <2>2
<1>11. Alone'
  <2> SUFFICES ASSUME Deferred, crit # {} PROVE cur' = cur
    BY DEF SimpleInv, Alone
  <2>1. cur \in crit
    BY DEF SimpleInv, Running
  <2> QED
    BY <2>1 DEF Yield, sched
<1>12. Using'
  <2>1. \A u : User(u)' = User(u)
    BY DEF User
  <2>2. ASSUME NEW m \in Mutexes, holder[m] # Nobody, Sleepers = {}
        PROVE  holder[m] \notin asleep'
    <3>1. holder[m] \notin asleep
      BY <2>2 DEF SimpleInv, Using
    <3>2. CASE Signal(t)
      BY <3>1, <3>2 DEF Signal
    <3>3. CASE Sleep(t)
      <4>1. held[t] = 0 /\ asleep' = asleep \cup {t}
        BY <3>3, <2>2 DEF Sleep
      <4>2. Cardinality({n \in Mutexes : holder[n] = t}) = 0
        BY <4>1 DEF CountsAgree
      <4>3. {n \in Mutexes : holder[n] = t} = {}
        BY <4>2, MutexesFinite, FS_EmptySet
      <4> QED
        BY <3>1, <4>1, <4>3
    <3> QED
      BY <3>2, <3>3
  <2> QED
    BY <2>1, <2>2 DEF SimpleInv, Using
<1>13. TopRuns'
  <2>1. CASE Yield
    BY <2>1, YieldToTop
  <2>2. CASE Signal(t) /\ UNCHANGED sched
    <3>1. CASE Yield
      BY <3>1, YieldToTop
    <3>2. CASE ~Yield
      <4>1. PICK u \in asleep : asleep' = asleep \ {u} /\ ~(prio[u] > prio[t])
        BY <2>2, <3>2 DEF Signal, YieldIf
      <4>2. Ready \subseteq Ready' /\ Ready' \ Ready \subseteq {u}
        BY <1>2, <4>1 DEF Ready
      <4>3. prio[u] <= PrioOf(cur)
        BY <4>1, MutexConstants DEF PrioOf, TypeOK
      <4> QED
        BY <2>2, <4>2, <4>3, TopOfMore DEF SimpleInv
    <3> QED
      BY <3>1, <3>2
  <2> QED
    BY <2>1, <2>2 DEF Sleep
<1>6. Calling' /\ Borrowed'
  BY DEF SimpleInv, Calling, Borrowed
<1>7. OnList'
  <2> SUFFICES ASSUME NEW m \in Mutexes, NEW u \in Tasks, WaitsFor(u, m)
               PROVE  u \notin asleep'
    BY <1>2 DEF SimpleInv, OnList
  <2>1. pc[u] = "try" /\ u \notin asleep
    BY DEF SimpleInv, OnList
  <2> QED
    BY <2>1
<1>8. HolderCarriesWaiters' /\ WokenByPriority'
  BY <1>2 DEF SimpleInv, HolderCarriesWaiters, WokenByPriority
<1>9. FreeForHighest'
  <2> SUFFICES ASSUME NEW m \in Mutexes, count[m] = 1, waiters[m] # <<>>
               PROVE  /\ \A u \in ToSet(waiters[m]) : prio[u] <= PrioOf(cur)'
                      /\ \E w \in Ready' :
                           /\ pc[w] = "try" /\ mutex[w] = m
                           /\ \A u \in ToSet(waiters[m]) : prio[u] <= prio[w]
    BY DEF FreeForHighest
  <2>1. PICK w \in Ready :
          /\ pc[w] = "try" /\ mutex[w] = m
          /\ \A u \in ToSet(waiters[m]) : prio[u] <= prio[w]
    BY DEF SimpleInv, FreeForHighest
  <2>2. w \in Ready \ {t}
    BY <2>1
  <2>3. \A u \in ToSet(waiters[m]) : prio[u] <= PrioOf(cur) /\ prio[u] \in Nat
    <3>1. ToSet(waiters[m]) \subseteq Tasks /\ prio \in [Tasks -> Nat]
      BY OnListAt DEF TypeOK
    <3> QED
      BY <3>1 DEF SimpleInv, FreeForHighest
  <2> QED
    BY <2>1, <2>2, <2>3, <1>3, <1>5
<1>10. Lent'
  BY <1>2, <1>4 DEF SimpleInv, Lent
<1> QED
  BY <1>5, <1>6, <1>7, <1>8, <1>9, <1>10, <1>11, <1>12, <1>13 DEF SimpleInv

\* Timeouts and the ends of delays.  A task whose time expires has lent its
\* priority, if it is above the holder's, and still has to take it back.
LEMMA TickSimple == ASSUME Counted, SimpleInv, Tick PROVE SimpleInv'
<1> USE DEF Counted
<1>1. PICK expired :
        /\ asleep' \subseteq asleep
        /\ waiters' = [m \in Mutexes |-> Without(waiters[m], expired)]
        /\ \A t \in Tasks : late'[t] <=> late[t] \/ t \in expired
        /\ \A t \in expired : /\ wait[t] = "some"
                              /\ \/ pc[t] = "block"
                                 \/ \E m \in Mutexes : WaitsFor(t, m)
        /\ UNCHANGED <<count, holder, nest, prio, held, crit, pc, mutex,
                       wait, inherited>>
        /\ \/ Yield
           \/ UNCHANGED sched /\ \A t \in Ready' \ Ready : ~(prio[t] > PrioOf(cur))
  BY DEF Tick, YieldIf
<1> USE <1>1
<1>2. ASSUME NEW m \in Mutexes
      PROVE  /\ waiters'[m] \in Seq(Tasks)
             /\ \E f \in [1 .. Len(waiters'[m]) -> 1 .. Len(waiters[m])] :
                  /\ \A i \in 1 .. Len(waiters'[m]) :
                       waiters'[m][i] = waiters[m][f[i]]
                  /\ \A i, j \in 1 .. Len(waiters'[m]) : i < j => f[i] < f[j]
             /\ \A j \in 1 .. Len(waiters[m]) : waiters[m][j] \notin expired =>
                  \E i \in 1 .. Len(waiters'[m]) :
                    waiters'[m][i] = waiters[m][j]
  <2>1. waiters[m] \in Seq(Tasks) /\ waiters'[m] = Without(waiters[m], expired)
    BY DEF TypeOK
  <2>2. LET r == Without(waiters[m], expired)
        IN  /\ r \in Seq(Tasks)
            /\ \E f \in [1 .. Len(r) -> 1 .. Len(waiters[m])] :
                 /\ \A i \in 1 .. Len(r) :
                      r[i] = waiters[m][f[i]] /\ r[i] \notin expired
                 /\ \A i, j \in 1 .. Len(r) : i < j => f[i] < f[j]
            /\ \A j \in 1 .. Len(waiters[m]) : waiters[m][j] \notin expired =>
                 \E i \in 1 .. Len(r) : r[i] = waiters[m][j]
    BY ONLY <2>1, WithoutIs
  <2> QED
    BY ONLY <2>1, <2>2
<1>3. ASSUME NEW m \in Mutexes
      PROVE  /\ ToSet(waiters'[m]) \subseteq ToSet(waiters[m])
             /\ ToSet(waiters[m]) \subseteq Tasks
             /\ \A u \in ToSet(waiters[m]) :
                  u \in expired \/ u \in ToSet(waiters'[m])
  <2>1. waiters[m] \in Seq(Tasks)
    BY DEF TypeOK
  <2>2. PICK f \in [1 .. Len(waiters'[m]) -> 1 .. Len(waiters[m])] :
          \A i \in 1 .. Len(waiters'[m]) : waiters'[m][i] = waiters[m][f[i]]
    BY <1>2
  <2>3. /\ ToSet(waiters'[m]) = {waiters'[m][i] : i \in 1 .. Len(waiters'[m])}
        /\ ToSet(waiters[m]) = {waiters[m][i] : i \in 1 .. Len(waiters[m])}
        /\ ToSet(waiters[m]) \subseteq Tasks
    BY ONLY <1>2, <2>1, OnListAt
  <2>4. \A u \in ToSet(waiters[m]) : u \in expired \/ u \in ToSet(waiters'[m])
    BY <1>2, <2>3
  <2> QED
    BY <2>2, <2>3, <2>4
<1>5. \A m \in Mutexes : \A u : WaitsFor(u, m)' => WaitsFor(u, m)
  BY <1>3 DEF WaitsFor
<1>6. Ready \subseteq Ready'
  BY <1>5 DEF Ready
<1>7. /\ Running'
      /\ \A w \in Ready, n \in Nat :
           n <= prio[w] /\ n <= PrioOf(cur) => n <= PrioOf(cur)'
  BY <1>6, RunningStays DEF SimpleInv
<1>14. Alone'
  BY DEF SimpleInv, Running, Alone, Tick, InterruptsEnabled
<1>15. Using'
  <2>1. \A u : User(u)' = User(u)
    BY DEF User
  <2>2. ASSUME NEW u \in Tasks
        PROVE  /\ late'[u] => pc[u] # "run"
               /\ late'[u] \/ wait[u] = "some" => "some" \in Waits[u]
    BY DEF SimpleInv, Using, OnList
  <2> QED
    BY <2>1, <2>2 DEF SimpleInv, Using
<1>16. TopRuns'
  <2>1. CASE Yield
    BY <2>1, YieldToTop
  <2>2. CASE UNCHANGED sched /\ \A t \in Ready' \ Ready : ~(prio[t] > PrioOf(cur))
    <3>1. \A t \in Ready' : prio[t] \in Nat
      BY DEF Ready, TypeOK
    <3>2. PrioOf(cur) \in Nat
      BY DEF PrioOf, TypeOK
    <3>3. \A t \in Ready' \ Ready : prio[t] <= PrioOf(cur)
      BY <2>2, <3>1, <3>2
    <3> QED
      BY <2>2, <3>3, <1>6, TopOfMore DEF SimpleInv
  <2> QED
    BY <2>1, <2>2
<1>8. OnList'
  <2> SUFFICES ASSUME NEW m \in Mutexes
               PROVE  /\ \A i, j \in 1 .. Len(waiters'[m]) :
                           waiters'[m][i] = waiters'[m][j] => i = j
                      /\ \A t \in Tasks : WaitsFor(t, m)' =>
                           /\ pc[t] = "try" /\ mutex[t] = m
                           /\ wait[t] # "zero" /\ t \notin asleep'
    BY DEF OnList
  <2>1. \A t \in Tasks : WaitsFor(t, m)' =>
          pc[t] = "try" /\ mutex[t] = m /\ wait[t] # "zero" /\ t \notin asleep'
    BY <1>5 DEF SimpleInv, OnList
  <2>2. PICK f \in [1 .. Len(waiters'[m]) -> 1 .. Len(waiters[m])] :
          /\ \A i \in 1 .. Len(waiters'[m]) : waiters'[m][i] = waiters[m][f[i]]
          /\ \A i, j \in 1 .. Len(waiters'[m]) : i < j => f[i] < f[j]
    BY <1>2
  <2>3. \A i, j \in 1 .. Len(waiters[m]) :
           waiters[m][i] = waiters[m][j] => i = j
    BY DEF SimpleInv, OnList
  <2>4. ASSUME NEW i \in 1 .. Len(waiters'[m]), NEW j \in 1 .. Len(waiters'[m]),
               waiters'[m][i] = waiters'[m][j]
        PROVE  i = j
    <3>1. f[i] = f[j] /\ f[i] \in Int
      BY <2>2, <2>3, <2>4
    <3>2. ~(i < j) /\ ~(j < i)
      BY <2>2, <3>1
    <3> QED
      BY <3>2
  <2> QED
    BY <2>1, <2>4
<1>9. Calling' /\ Borrowed'
  BY DEF SimpleInv, Calling, Borrowed
<1>10. HolderCarriesWaiters'
  BY <1>5 DEF SimpleInv, HolderCarriesWaiters
<1>11. WokenByPriority'
  <2> SUFFICES ASSUME NEW m \in Mutexes, NEW i \in 1 .. Len(waiters'[m]),
                      NEW j \in 1 .. Len(waiters'[m]), i < j
               PROVE  prio[waiters'[m][i]] >= prio[waiters'[m][j]]
    BY DEF WokenByPriority
  <2>1. PICK f \in [1 .. Len(waiters'[m]) -> 1 .. Len(waiters[m])] :
          /\ \A k \in 1 .. Len(waiters'[m]) : waiters'[m][k] = waiters[m][f[k]]
          /\ \A k, l \in 1 .. Len(waiters'[m]) : k < l => f[k] < f[l]
    BY <1>2
  <2>2. f[i] \in 1 .. Len(waiters[m]) /\ f[j] \in 1 .. Len(waiters[m])
        /\ f[i] < f[j]
    BY <2>1
  <2> QED
    BY <2>1, <2>2 DEF SimpleInv, WokenByPriority
<1>12. FreeForHighest'
  <2> SUFFICES ASSUME NEW m \in Mutexes, count[m] = 1, waiters'[m] # <<>>
               PROVE  /\ \A u \in ToSet(waiters'[m]) : prio[u] <= PrioOf(cur)'
                      /\ \E w \in Ready' :
                           /\ pc[w] = "try" /\ mutex[w] = m
                           /\ \A u \in ToSet(waiters'[m]) : prio[u] <= prio[w]
    BY DEF FreeForHighest
  <2>1. waiters[m] # <<>>
    <3>1. waiters'[m][1] \in ToSet(waiters'[m])
      BY <1>2 DEF ToSet
    <3>2. waiters'[m][1] \in ToSet(waiters[m])
      BY ONLY <1>3, <3>1
    <3> QED
      BY ONLY <3>2 DEF ToSet
  <2>2. PICK w \in Ready :
          /\ pc[w] = "try" /\ mutex[w] = m
          /\ \A u \in ToSet(waiters[m]) : prio[u] <= prio[w]
    BY <2>1 DEF SimpleInv, FreeForHighest
  <2>3. \A u \in ToSet(waiters[m]) : prio[u] <= PrioOf(cur) /\ prio[u] \in Nat
    <3>1. ToSet(waiters[m]) \subseteq Tasks /\ prio \in [Tasks -> Nat]
      BY <1>3 DEF TypeOK
    <3> QED
      BY <2>1, <3>1 DEF SimpleInv, FreeForHighest
  <2>4. \A u \in ToSet(waiters[m]) : prio[u] <= PrioOf(cur)'
    BY <1>7, <2>2, <2>3
  <2> QED
    BY <1>3, <1>6, <2>2, <2>4
<1>13. Lent'
  <2> SUFFICES ASSUME NEW m \in Mutexes, holder[m] # Nobody
               PROVE  /\ prio[holder[m]] > Prio[holder[m]] =>
                           \E u \in Tasks : /\ Lender(u, m)'
                                            /\ prio[u] = prio[holder[m]]
                      /\ \A u \in Tasks :
                           WaitsFor(u, m)' /\ prio[u] > Prio[holder[m]] =>
                               inherited[u]
    BY DEF Lent
  <2>1. \A u \in Tasks : WaitsFor(u, m) /\ prio[u] > Prio[holder[m]] =>
                           inherited[u]
    BY DEF SimpleInv, Lent
  <2>2. ASSUME NEW u \in Tasks, Lender(u, m), prio[u] > Prio[holder[m]]
        PROVE  Lender(u, m)'
    <3>1. CASE WaitsFor(u, m)
      <4>1. inherited[u] /\ pc[u] = "try" /\ wait[u] # "zero"
        BY <2>1, <2>2, <3>1 DEF SimpleInv, OnList
      <4>2. WaitsFor(u, m)' \/ late'[u]
        BY <3>1, <1>3 DEF WaitsFor
      <4> QED
        BY <4>1, <4>2, <2>2 DEF Lender
    <3>2. CASE ~WaitsFor(u, m)
      <4>1. late'[u]
        BY <2>2, <3>2 DEF Lender
      <4> QED
        BY <4>1, <2>2, <3>2 DEF Lender
    <3> QED
      BY <3>1, <3>2
  <2>3. ASSUME prio[holder[m]] > Prio[holder[m]]
        PROVE  \E u \in Tasks : Lender(u, m)' /\ prio[u] = prio[holder[m]]
    <3>1. PICK u \in Tasks : Lender(u, m) /\ prio[u] = prio[holder[m]]
      BY <2>3 DEF SimpleInv, Lent
    <3> QED
      BY <2>2, <2>3, <3>1
  <2> QED
    BY <1>5, <2>1, <2>3
<1> QED
  BY <1>7, <1>8, <1>9, <1>10, <1>11, <1>12, <1>13, <1>14, <1>15, <1>16
     DEF SimpleInv

\* A task that has to wait lends the holder its priority and is put on the list.
LEMMA BlockSimple ==
    ASSUME Simple, Counted, SimpleInv, NEW t \in Tasks, Block(t)
    PROVE  SimpleInv'
<1> DEFINE m == mutex[t]
           h == holder[m]
           s == waiters[m]
           r == waiters'[m]
<1> USE DEF Counted
<1>1. m \in Mutexes /\ \A n \in Mutexes : n = m
  BY OneMutex DEF TypeOK
<1>2. cur = t /\ pc[t] = "block" /\ count[m] = 0 /\ h \in Tasks /\ h # Nobody
  BY <1>1, MutexConstants DEF Block, TypeOK, CountsAgree
<1>3. /\ prio' = Inherit(t, h) /\ Yield
      /\ r = InsertByPriority(s, t)
      /\ inherited'[t] = InheritanceOccurred(t, h) /\ pc'[t] = "try"
      /\ \A u \in Tasks \ {t} :
           pc'[u] = pc[u] /\ inherited'[u] = inherited[u]
      /\ UNCHANGED <<count, holder, asleep, crit, mutex, wait, late>>
  BY <1>1 DEF Block, Goto, TypeOK
<1>4. prio \in [Tasks -> Nat] /\ Prio \in [Tasks -> Nat] /\ s \in Seq(Tasks)
  BY <1>1, MutexConstants DEF TypeOK
<1>5. h # t /\ wait[t] # "zero"
  BY <1>2 DEF SimpleInv, Calling
<1>6. t \notin asleep /\ \A n \in Mutexes : ~WaitsFor(t, n)
  BY <1>2, MutexConstants DEF SimpleInv, Running, Ready
<1>7. \A n \in Mutexes : ~WaitsFor(h, n)
  BY <1>1, <1>2, MutexConstants DEF SimpleInv, OnList, Calling
<1>8. /\ prio' \in [Tasks -> Nat]
      /\ prio'[h] = IF prio[h] < prio[t] THEN prio[t] ELSE prio[h]
      /\ \A u \in Tasks \ {h} : prio'[u] = prio[u]
  BY <1>2, <1>3, <1>4 DEF Inherit, PrioOf
<1>9. PICK p \in 1 .. Len(s) + 1 :
        /\ r \in Seq(Tasks) /\ Len(r) = Len(s) + 1
        /\ \A i \in 1 .. Len(s) + 1 :
             r[i] = IF i < p THEN s[i] ELSE IF i = p THEN t ELSE s[i - 1]
        /\ \A i \in 1 .. p - 1 : prio[s[i]] >= prio[t]
        /\ p <= Len(s) => prio[s[p]] < prio[t]
  <2>1. LET x == InsertByPriority(s, t)
        IN  /\ x \in Seq(Tasks) /\ Len(x) = Len(s) + 1
            /\ \E p \in 1 .. Len(s) + 1 :
                 /\ \A i \in 1 .. Len(s) + 1 :
                      x[i] = IF i < p THEN s[i]
                             ELSE IF i = p THEN t ELSE s[i - 1]
                 /\ \A i \in 1 .. p - 1 : prio[s[i]] >= prio[t]
                 /\ p <= Len(s) => prio[s[p]] < prio[t]
    <3> HIDE DEF s
    <3> QED
      BY <1>4, InsertIs
  <2> QED
    BY <1>3, <2>1
<1> HIDE DEF r, s
<1>10. /\ Len(s) \in Nat /\ p \in 1 .. Len(s) + 1
       /\ \A i \in 1 .. Len(s) : s[i] \in Tasks /\ s[i] # t /\ s[i] # h
       /\ \A i, j \in 1 .. Len(s) : s[i] = s[j] => i = j
       /\ \A i, j \in 1 .. Len(s) : i < j => prio[s[i]] >= prio[s[j]]
  <2>1. Len(s) \in Nat /\ \A i \in 1 .. Len(s) : s[i] \in Tasks
    BY <1>4
  <2>2. \A i \in 1 .. Len(s) : s[i] # t /\ s[i] # h
    <3>1. \A i \in 1 .. Len(s) : s[i] \in ToSet(s)
      BY <1>4, OnListAt
    <3>2. t \notin ToSet(s) /\ h \notin ToSet(s)
      BY <1>1, <1>6, <1>7 DEF WaitsFor, s
    <3> QED
      BY <3>1, <3>2
  <2>3. \A i, j \in 1 .. Len(s) : s[i] = s[j] => i = j
    BY <1>1 DEF SimpleInv, OnList, s
  <2>4. \A i, j \in 1 .. Len(s) : i < j => prio[s[i]] >= prio[s[j]]
    BY <1>1 DEF SimpleInv, WokenByPriority, s
  <2> QED
    BY <2>1, <2>2, <2>3, <2>4
<1>11. \A u : WaitsFor(u, m)' <=> u = t \/ WaitsFor(u, m)
  <2>1. ToSet(r) = {r[i] : i \in 1 .. Len(s) + 1}
    BY <1>9, OnListAt
  <2>2. ToSet(s) = {s[i] : i \in 1 .. Len(s)}
    BY <1>4, OnListAt
  <2>3. ASSUME NEW u, u \in ToSet(r) PROVE u = t \/ u \in ToSet(s)
    <3>1. PICK i \in 1 .. Len(s) + 1 : u = r[i]
      BY <2>1, <2>3
    <3>2. CASE i < p
      BY <3>1, <3>2, <2>2, <1>9, <1>10
    <3>3. CASE i = p
      BY <3>1, <3>3, <1>9
    <3>4. CASE i > p
      <4>1. i - 1 \in 1 .. Len(s) /\ u = s[i - 1]
        BY <3>1, <3>4, <1>9, <1>10
      <4> QED
        BY <4>1, <2>2
    <3> QED
      BY <3>2, <3>3, <3>4, <1>10
  <2>4. t \in ToSet(r)
    BY <2>1, <1>9
  <2>5. ASSUME NEW u, u \in ToSet(s) PROVE u \in ToSet(r)
    <3>1. PICK i \in 1 .. Len(s) : u = s[i]
      BY <2>2, <2>5
    <3>2. CASE i < p
      <4>1. i \in 1 .. Len(s) + 1 /\ r[i] = u
        BY <3>1, <3>2, <1>9, <1>10
      <4> QED
        BY <2>1, <4>1
    <3>3. CASE ~(i < p)
      <4>1. i + 1 \in 1 .. Len(s) + 1 /\ r[i + 1] = u
        BY <3>1, <3>3, <1>9, <1>10
      <4> QED
        BY <2>1, <4>1
    <3> QED
      BY <3>2, <3>3
  <2>6. \A u : u \in ToSet(r) <=> u = t \/ u \in ToSet(s)
    BY <2>3, <2>4, <2>5
  <2> QED
    BY <2>6, <1>3 DEF WaitsFor, r, s
<1>20. ~(Deferred /\ cur \in crit)
  BY <1>1, <1>2, <1>5 DEF SimpleInv, Alone
<1>12. Running' /\ Alone' /\ TopRuns'
  <2>1. Deferred => crit = {}
    BY <1>20 DEF SimpleInv, Running
  <2>2. Running'
    BY <1>3, <1>20, <2>1, YieldToHighest DEF SimpleInv, Running
  <2> QED
    BY <2>1, <2>2, <1>3, YieldToTop DEF Alone
<1>21. Using'
  <2>1. \A u : User(u)' = User(u)
    BY <1>3 DEF User
  <2>2. \A u \in Tasks : pc'[u] # "run" => pc[u] # "run"
    BY <1>2, <1>3
  <2>3. \A u \in Tasks : late[u] => pc'[u] # "run"
    <3> SUFFICES ASSUME NEW u \in Tasks, late[u] PROVE pc'[u] # "run"
      OBVIOUS
    <3>1. pc[u] # "run"
      BY DEF SimpleInv, Using
    <3> QED
      BY <3>1, <1>3
  <2> QED
    BY <2>1, <2>2, <2>3, <1>3 DEF SimpleInv, Using
<1>13. OnList'
  <2>1. ASSUME NEW i \in 1 .. Len(s) + 1, NEW j \in 1 .. Len(s) + 1, r[i] = r[j]
        PROVE  i = j
    <3> DEFINE at(k) == IF k < p THEN k ELSE k - 1
    <3>1. CASE i # p /\ j # p
      <4>1. /\ at(i) \in 1 .. Len(s) /\ at(j) \in 1 .. Len(s)
            /\ r[i] = s[at(i)] /\ r[j] = s[at(j)]
        BY <3>1, <1>9, <1>10
      <4>2. at(i) = at(j)
        BY <4>1, <2>1, <1>10
      <4> QED
        BY <4>2, <3>1, <1>10
    <3>2. ASSUME NEW k \in 1 .. Len(s) + 1, k # p PROVE r[k] # t
      <4>1. at(k) \in 1 .. Len(s) /\ r[k] = s[at(k)]
        BY <3>2, <1>9, <1>10
      <4> QED
        BY <4>1, <1>10
    <3>3. r[p] = t
      BY <1>9, <1>10
    <3> QED
      BY <3>1, <3>2, <3>3, <2>1
  <2>2. ASSUME NEW u \in Tasks, WaitsFor(u, m)'
        PROVE  /\ pc'[u] = "try" /\ mutex'[u] = m
               /\ wait'[u] # "zero" /\ u \notin asleep'
    <3>1. CASE u = t
      BY <3>1, <1>3, <1>5, <1>6
    <3>2. CASE u # t
      <4>1. WaitsFor(u, m)
        BY <2>2, <3>2, <1>11
      <4>2. pc[u] = "try" /\ mutex[u] = m /\ wait[u] # "zero" /\ u \notin asleep
        BY <4>1, <1>1 DEF SimpleInv, OnList
      <4> QED
        BY <4>2, <3>2, <1>3
    <3> QED
      BY <3>1, <3>2
  <2>3. \A i, j \in 1 .. Len(r) : r[i] = r[j] => i = j
    BY <2>1, <1>9
  <2> QED
    BY <2>2, <2>3, <1>1, <1>3 DEF OnList, r
<1>14. Calling'
  <2> SUFFICES ASSUME NEW u \in Tasks
               PROVE  /\ pc'[u] # "run" => holder[mutex[u]] # u
                      /\ pc'[u] = "block" => wait[u] # "zero"
    BY <1>3 DEF Calling
  <2> QED
    BY <1>2, <1>3, <1>5 DEF SimpleInv, Calling
<1>15. Borrowed'
  <2> SUFFICES ASSUME NEW u \in Tasks
               PROVE  /\ prio'[u] >= Prio[u]
                      /\ (\A n \in Mutexes : holder[n] # u) => prio'[u] = Prio[u]
    BY <1>3 DEF Borrowed
  <2>1. CASE u = h
    BY <2>1, <1>1, <1>4, <1>8 DEF SimpleInv, Borrowed
  <2>2. CASE u # h
    BY <2>2, <1>8 DEF SimpleInv, Borrowed
  <2> QED
    BY <2>1, <2>2
<1>16. HolderCarriesWaiters'
  <2> SUFFICES ASSUME NEW u \in Tasks, u = t \/ WaitsFor(u, m)
               PROVE  prio'[h] >= prio'[u]
    BY <1>1, <1>3, <1>11 DEF HolderCarriesWaiters
  <2>1. u # h /\ prio'[u] = prio[u]
    BY <1>1, <1>5, <1>7, <1>8
  <2>2. u # t => prio[h] >= prio[u]
    BY <1>1, <1>2 DEF SimpleInv, HolderCarriesWaiters
  <2> QED
    BY <2>1, <2>2, <1>2, <1>4, <1>8
<1>17. WokenByPriority'
  <2> SUFFICES ASSUME NEW i \in 1 .. Len(s) + 1, NEW j \in 1 .. Len(s) + 1, i < j
               PROVE  prio'[r[i]] >= prio'[r[j]]
    BY <1>1, <1>9 DEF WokenByPriority, r
  <2>1. \A k \in 1 .. Len(s) :
           prio'[s[k]] = prio[s[k]] /\ prio[s[k]] \in Nat
    BY <1>4, <1>8, <1>10
  <2>2. prio'[t] = prio[t] /\ prio[t] \in Nat
    BY <1>4, <1>5, <1>8
  <2>3. CASE j < p
    BY <2>1, <2>3, <1>9, <1>10
  <2>4. CASE j = p
    <3>1. i \in 1 .. p - 1 /\ i \in 1 .. Len(s) /\ r[i] = s[i] /\ r[j] = t
      BY <2>4, <1>9, <1>10
    <3> QED
      BY <3>1, <2>1, <2>2, <1>9
  <2>5. CASE j > p
    <3>1. j - 1 \in 1 .. Len(s) /\ r[j] = s[j - 1]
      BY <2>5, <1>9, <1>10
    <3>2. CASE i < p
      <4>1. i \in 1 .. Len(s) /\ i < j - 1 /\ r[i] = s[i]
        BY <2>5, <3>2, <1>9, <1>10
      <4> QED
        BY <4>1, <3>1, <2>1, <1>10
    <3>3. CASE i = p
      <4>1. r[i] = t /\ p \in 1 .. Len(s) /\ prio[s[p]] < prio[t]
        BY <3>3, <2>5, <1>9, <1>10
      <4>2. p = j - 1 \/ prio[s[p]] >= prio[s[j - 1]]
        BY <4>1, <3>1, <2>5, <1>10
      <4> QED
        BY <4>1, <4>2, <3>1, <2>1, <2>2
    <3>4. CASE i > p
      <4>1. i - 1 \in 1 .. Len(s) /\ i - 1 < j - 1 /\ r[i] = s[i - 1]
        BY <3>4, <1>9, <1>10
      <4> QED
        BY <4>1, <3>1, <2>1, <1>10
    <3> QED
      BY <3>2, <3>3, <3>4, <1>10
  <2> QED
    BY <2>3, <2>4, <2>5, <1>10
<1>18. FreeForHighest'
  BY <1>1, <1>2, <1>3 DEF FreeForHighest
<1>19. Lent'
  <2>1. ASSUME prio'[h] > Prio[h]
        PROVE  \E u \in Tasks : Lender(u, m)' /\ prio'[u] = prio'[h]
    <3>1. Lender(t, m)' /\ prio'[t] = prio[t]
      BY <1>3, <1>5, <1>8, <1>11 DEF Lender
    <3>2. CASE prio[h] < prio[t]
      BY <3>1, <3>2, <1>8
    <3>3. CASE ~(prio[h] < prio[t])
      <4>1. PICK u \in Tasks : Lender(u, m) /\ prio[u] = prio[h]
        BY <2>1, <3>3, <1>1, <1>2, <1>8 DEF SimpleInv, Lent
      <4>2. prio'[u] = prio'[h]
        BY <3>3, <4>1, <1>8
      <4>3. Lender(u, m)'
        <5>1. CASE u = t
          BY <5>1, <3>1
        <5>2. CASE u # t
          BY <5>2, <4>1, <1>1, <1>3, <1>11 DEF Lender
        <5> QED
          BY <5>1, <5>2
      <4> QED
        BY <4>2, <4>3
    <3> QED
      BY <3>2, <3>3
  <2>2. ASSUME NEW u \in Tasks, WaitsFor(u, m)', prio'[u] > Prio[h]
        PROVE  inherited'[u]
    <3>1. u # h /\ prio'[u] = prio[u]
      BY <2>2, <1>1, <1>5, <1>7, <1>8, <1>11
    <3>2. CASE u = t
      BY <3>1, <3>2, <2>2, <1>2, <1>3 DEF InheritanceOccurred
    <3>3. CASE u # t
      <4>1. WaitsFor(u, m)
        BY <2>2, <3>3, <1>11
      <4>2. inherited[u]
        BY <4>1, <3>1, <2>2, <1>1, <1>2 DEF SimpleInv, Lent
      <4> QED
        BY <4>2, <3>3, <1>3
    <3> QED
      BY <3>2, <3>3
  <2> QED
    BY <2>1, <2>2, <1>1, <1>3 DEF Lent
<1> QED
  BY <1>12, <1>13, <1>14, <1>15, <1>16, <1>17, <1>18, <1>19, <1>21
     DEF SimpleInv

\* A task that gives up takes back what it lent.  The holder keeps the priority of
\* the first task on the list, which by WokenByPriority is the highest of them.
LEMMA DisinheritSimple ==
    ASSUME Simple, Counted, SimpleInv, NEW t \in Tasks, DisinheritAfterTimeout(t)
    PROVE  SimpleInv'
<1> DEFINE m == mutex[t]
           h == holder[m]
           s == waiters[m]
<1> USE DEF Counted
<1>1. m \in Mutexes /\ \A n \in Mutexes : n = m
  BY OneMutex DEF TypeOK
<1>2. /\ cur = t /\ pc[t] = "disinherit" /\ pc'[t] = "run"
      /\ \A u \in Tasks \ {t} :
           /\ pc'[u] = pc[u] /\ inherited'[u] = inherited[u]
           /\ wait'[u] = wait[u] /\ late'[u] = late[u]
      /\ wait'[t] = "zero" /\ ~late'[t]
      /\ UNCHANGED <<queue, held, asleep, crit, sched, mutex>>
  BY DEF DisinheritAfterTimeout, Return, TypeOK
<1>3. /\ prio \in [Tasks -> Nat] /\ Prio \in [Tasks -> Nat] /\ s \in Seq(Tasks)
      /\ h \in Tasks \cup {Nobody} /\ Nobody \notin Tasks
      /\ (count[m] = 0) = (h # Nobody)
  BY <1>1, MutexConstants DEF TypeOK, CountsAgree
<1>4. h # Nobody => held[h] = 1
  <2> SUFFICES ASSUME h # Nobody PROVE held[h] = 1
    OBVIOUS
  <2>1. {n \in Mutexes : holder[n] = h} = {m}
    BY <1>1
  <2>2. held[h] = Cardinality({n \in Mutexes : holder[n] = h})
    BY <1>3 DEF CountsAgree
  <2> QED
    BY <2>1, <2>2, FS_Singleton
<1>5. /\ \A n : waiters'[n] = waiters[n]
      /\ \A u, n : WaitsFor(u, n)' = WaitsFor(u, n)
  BY <1>2 DEF WaitsFor, queue
<1>6. Ready' = Ready
  BY <1>2, <1>5 DEF Ready
<1>7. \A n \in Mutexes : ~WaitsFor(t, n) /\ (h # Nobody => ~WaitsFor(h, n))
  <2>1. \A u \in Tasks : WaitsFor(u, m) => pc[u] = "try" /\ mutex[u] = m
    BY <1>1 DEF SimpleInv, OnList
  <2>2. \A u \in Tasks : pc[u] = "try" => holder[mutex[u]] # u
    BY DEF SimpleInv, Calling
  <2>3. ~WaitsFor(t, m) /\ (h \in Tasks => ~WaitsFor(h, m))
    BY <2>1, <2>2, <1>2
  <2> QED
    BY <2>3, <1>1, <1>3
<1>8. h # Nobody => prio'[h] = DisinheritTo(h, m)
  BY <1>3, <1>4 DEF DisinheritAfterTimeout
<1>9. \A u \in Tasks : u # h => prio'[u] = prio[u]
  BY <1>3 DEF DisinheritAfterTimeout
<1>10. h = Nobody => prio' = prio
  BY DEF DisinheritAfterTimeout
<1>11. s # <<>> => Head(s) \in Tasks /\ WaitsFor(Head(s), m)
  BY <1>1, <1>3, HeadTailProperties DEF WaitsFor, ToSet
<1>12. ASSUME h # Nobody
       PROVE  /\ prio'[h] \in Nat /\ prio'[h] >= Prio[h]
              /\ s # <<>> => prio'[h] >= prio[Head(s)]
              /\ prio'[h] > Prio[h] => s # <<>> /\ prio'[h] = prio[Head(s)]
  BY <1>3, <1>8, <1>11, <1>12 DEF DisinheritTo
<1>13. ASSUME NEW u \in Tasks, WaitsFor(u, m)
       PROVE  s # <<>> /\ prio[Head(s)] >= prio[u]
  <2>1. PICK i \in 1 .. Len(s) : u = s[i]
    BY <1>3, <1>13, OnListAt DEF WaitsFor
  <2>2. s # <<>> /\ Head(s) = s[1] /\ 1 \in 1 .. Len(s)
    BY <1>3, <2>1
  <2>3. i = 1 \/ prio[s[1]] >= prio[s[i]]
    BY <1>1, <2>1, <2>2 DEF SimpleInv, WokenByPriority
  <2> QED
    BY <2>1, <2>2, <2>3, <1>3
<1>14. Running' /\ Alone'
  BY <1>2, <1>6 DEF SimpleInv, Running, Alone, sched, queue
<1>22. Using'
  <2>1. \A u : User(u)' = User(u)
    BY <1>2 DEF User
  <2>2. ASSUME NEW u \in Tasks
        PROVE  /\ pc'[u] # "run" => User(u) /\ u \notin asleep
               /\ late'[u] => pc'[u] # "run"
               /\ late'[u] \/ wait'[u] = "some" => "some" \in Waits[u]
    <3>1. CASE u = t
      BY <3>1, <1>2
    <3>2. CASE u # t
      BY <3>2, <1>2 DEF SimpleInv, Using
    <3> QED
      BY <3>1, <3>2
  <2> QED
    BY <2>1, <2>2, <1>2 DEF SimpleInv, Using, queue
<1>23. \A u \in Tasks : prio'[u] <= prio[u] /\ prio'[u] \in Nat
  <2> SUFFICES ASSUME NEW u \in Tasks
               PROVE  prio'[u] <= prio[u] /\ prio'[u] \in Nat
    OBVIOUS
  <2>1. CASE u # h
    BY <2>1, <1>3, <1>9
  <2>2. CASE u = h /\ s # <<>>
    <3>1. prio[h] >= prio[Head(s)] /\ prio[h] >= Prio[h]
      BY <2>2, <1>1, <1>3, <1>11
         DEF SimpleInv, HolderCarriesWaiters, Borrowed
    <3> QED
      BY <2>2, <3>1, <1>3, <1>8, <1>11 DEF DisinheritTo
  <2>3. CASE u = h /\ s = <<>>
    <3>1. prio[h] >= Prio[h]
      BY <2>3 DEF SimpleInv, Borrowed
    <3> QED
      BY <2>3, <3>1, <1>3, <1>8 DEF DisinheritTo
  <2> QED
    BY <2>1, <2>2, <2>3
<1>24. TopRuns'
  <2> SUFFICES ASSUME ~pend PROVE TopRuns'
    BY <1>2 DEF TopRuns, sched
  <2>1. PICK x \in Highest :
          \/ x = cur
          \/ x # Nobody /\ late[x] /\ ~(Deferred /\ cur \in InCritical)
    BY DEF SimpleInv, TopRuns
  <2>2. t \in Ready /\ Ready \subseteq Tasks
    BY <1>2, <1>3 DEF SimpleInv, Running, Ready
  <2>3. x \in Ready /\ \A u \in Ready : prio[u] <= prio[x]
    BY <2>2 DEF Highest
  <2>4. x # h
    <3>1. h \in Tasks => pc[h] = "run"
      BY <1>1 DEF SimpleInv, Calling, TypeOK
    <3> QED
      BY <3>1, <2>1, <2>2, <2>3, <1>2 DEF SimpleInv, Using
  <2>5. prio'[x] = prio[x] /\ prio[x] \in Nat
    BY <2>2, <2>3, <2>4, <1>3, <1>9
  <2>6. \A u \in Ready : prio'[u] <= prio'[x]
    BY <2>2, <2>3, <2>5, <1>3, <1>23
  <2>7. x \in Highest'
    BY <2>3, <2>6, <1>6 DEF Highest
  <2> QED
    BY <2>1, <2>2, <2>3, <2>7, <1>2 DEF TopRuns, sched
<1>15. OnList'
  <2> SUFFICES ASSUME NEW n \in Mutexes, NEW u \in Tasks, WaitsFor(u, n)
               PROVE  /\ pc'[u] = "try" /\ mutex[u] = n
                      /\ wait'[u] # "zero" /\ u \notin asleep
    BY <1>2, <1>5 DEF SimpleInv, OnList, queue
  <2>1. u # t
    BY <1>7
  <2> QED
    BY <1>2, <2>1 DEF SimpleInv, OnList
<1>16. Calling'
  <2> SUFFICES ASSUME NEW u \in Tasks
               PROVE  /\ pc'[u] # "run" => holder[mutex[u]] # u
                      /\ pc'[u] = "block" => wait'[u] # "zero"
    BY <1>2 DEF Calling, queue
  <2> QED
    BY <1>2 DEF SimpleInv, Calling
<1>17. Borrowed'
  <2> SUFFICES ASSUME NEW u \in Tasks
               PROVE  /\ prio'[u] >= Prio[u]
                      /\ (\A n \in Mutexes : holder[n] # u) => prio'[u] = Prio[u]
    BY <1>2 DEF Borrowed, queue
  <2>1. CASE u = h
    BY <2>1, <1>1, <1>3, <1>12
  <2>2. CASE u # h
    BY <2>2, <1>9 DEF SimpleInv, Borrowed
  <2> QED
    BY <2>1, <2>2
<1>18. HolderCarriesWaiters'
  <2> SUFFICES ASSUME NEW u \in Tasks, h # Nobody, WaitsFor(u, m)
               PROVE  prio'[h] >= prio'[u]
    BY <1>1, <1>2, <1>5 DEF HolderCarriesWaiters, queue
  <2>1. u # h /\ prio'[u] = prio[u]
    BY <1>1, <1>7, <1>9
  <2>2. s # <<>> /\ prio[Head(s)] >= prio[u] /\ Head(s) \in Tasks
    BY <1>11, <1>13
  <2>3. prio'[h] \in Nat /\ prio'[h] >= prio[Head(s)]
    BY <2>2, <1>12
  <2>4. prio[Head(s)] \in Nat /\ prio[u] \in Nat
    BY <2>2, <1>3
  <2> QED
    BY <2>1, <2>2, <2>3, <2>4
<1>19. WokenByPriority'
  <2> SUFFICES ASSUME NEW i \in 1 .. Len(s), NEW j \in 1 .. Len(s), i < j
               PROVE  prio'[s[i]] >= prio'[s[j]]
    BY <1>1, <1>5 DEF WokenByPriority
  <2>1. \A k \in 1 .. Len(s) : s[k] \in Tasks /\ WaitsFor(s[k], m)
    BY <1>3, OnListAt DEF WaitsFor
  <2>2. \A k \in 1 .. Len(s) : prio'[s[k]] = prio[s[k]]
    BY <2>1, <1>1, <1>3, <1>7, <1>9
  <2> QED
    BY <2>2, <1>1 DEF SimpleInv, WokenByPriority
<1>20. FreeForHighest'
  <2> SUFFICES ASSUME count[m] = 1, s # <<>>
               PROVE  /\ \A u \in ToSet(s) : prio'[u] <= PrioOf(cur)'
                      /\ \E w \in Ready' :
                           /\ pc'[w] = "try" /\ mutex'[w] = m
                           /\ \A u \in ToSet(s) : prio'[u] <= prio'[w]
    BY <1>1, <1>2, <1>5 DEF FreeForHighest, queue
  <2>1. prio' = prio /\ PrioOf(cur)' = PrioOf(cur)
    BY <1>2, <1>3, <1>10 DEF PrioOf, sched
  <2>2. PICK w \in Ready :
          /\ pc[w] = "try" /\ mutex[w] = m
          /\ \A u \in ToSet(s) : prio[u] <= prio[w]
    BY <1>1 DEF SimpleInv, FreeForHighest
  <2>3. w \in Tasks \ {t}
    BY <2>2, <1>2 DEF Ready
  <2>4. \A u \in ToSet(s) : prio[u] <= PrioOf(cur)
    BY <1>1 DEF SimpleInv, FreeForHighest
  <2> QED
    BY <2>1, <2>2, <2>3, <2>4, <1>2, <1>6
<1>21. Lent'
  <2>1. ASSUME h # Nobody, prio'[h] > Prio[h]
        PROVE  \E u \in Tasks : Lender(u, m)' /\ prio'[u] = prio'[h]
    <3>1. PICK u \in Tasks : WaitsFor(u, m) /\ prio'[h] = prio[u]
      BY <2>1, <1>11, <1>12
    <3>2. prio'[u] = prio[u]
      BY <2>1, <3>1, <1>1, <1>7, <1>9
    <3>3. Lender(u, m)'
      BY <3>1, <1>1, <1>2, <1>5 DEF SimpleInv, OnList, Lender
    <3> QED
      BY <3>1, <3>2, <3>3
  <2>2. ASSUME h # Nobody, NEW u \in Tasks, WaitsFor(u, m), prio'[u] > Prio[h]
        PROVE  inherited'[u]
    <3>1. u # t /\ u # h /\ prio'[u] = prio[u]
      BY <2>2, <1>1, <1>7, <1>9
    <3> QED
      BY <3>1, <2>2, <1>1, <1>2 DEF SimpleInv, Lent
  <2> QED
    BY <2>1, <2>2, <1>1, <1>2, <1>5 DEF Lent, queue
<1> QED
  BY <1>14, <1>15, <1>16, <1>17, <1>18, <1>19, <1>20, <1>21, <1>22, <1>24
     DEF SimpleInv

\* The mutex is given: the first task on the list is woken, and is at least as
\* high as those that go on waiting.
LEMMA GiveSimple ==
    ASSUME Simple, Counted, SimpleInv, NEW t \in Tasks, NEW m \in Mutexes,
           Give(t, m)
    PROVE  SimpleInv'
<1> DEFINE s == waiters[m]
           r == waiters'[m]
<1> USE DEF Counted
<1>1. \A n \in Mutexes : n = m
  BY OneMutex
<1>2. /\ cur = t /\ pc[t] = "run" /\ holder[m] = t
      /\ count'[m] = count[m] + 1 /\ holder'[m] = Nobody
      /\ prio' = Disinherit(t) /\ UNCHANGED <<asleep, crit, local>>
      /\ Yield \/ UNCHANGED sched
  BY DEF Give, TypeOK, YieldIf
<1>3. /\ prio \in [Tasks -> Nat] /\ Prio \in [Tasks -> Nat] /\ s \in Seq(Tasks)
      /\ Nobody \notin Tasks
  BY MutexConstants DEF TypeOK
<1>4. held[t] = 1
  <2>1. {n \in Mutexes : holder[n] = t} = {m}
    BY <1>1, <1>2
  <2>2. held[t] = Cardinality({n \in Mutexes : holder[n] = t})
    BY DEF CountsAgree
  <2> QED
    BY <2>1, <2>2, FS_Singleton
<1>5. \A u \in Tasks : prio'[u] = IF u = t THEN Prio[t] ELSE prio[u]
  BY <1>2, <1>3, <1>4 DEF Disinherit
<1>6. /\ s = <<>> => /\ r = s /\ waiters' = waiters
                     /\ Yield \/ (UNCHANGED sched /\ prio'[t] = prio[t])
      /\ s # <<>> => /\ r = Tail(s)
                     /\ \/ Yield
                        \/ UNCHANGED sched /\ ~(prio'[Head(s)] > prio'[t])
  <2>1. CASE s = <<>>
    <3>1. waiters' = waiters /\ YieldIf(prio'[t] # prio[t])
      BY <2>1 DEF Give
    <3>2. Yield \/ (UNCHANGED sched /\ prio'[t] = prio[t])
      BY <3>1 DEF YieldIf
    <3>3. r = s
      BY <3>1
    <3> QED
      BY <2>1, <3>1, <3>2, <3>3
  <2>2. CASE s # <<>>
    <3>1. r = Tail(s) /\ YieldIf(prio'[Head(s)] > prio'[t])
      BY <2>2 DEF Give, TypeOK
    <3> QED
      BY <2>2, <3>1 DEF YieldIf
  <2> QED
    BY <2>1, <2>2
<1>7. /\ Len(s) \in Nat /\ \A i \in 1 .. Len(s) : s[i] \in Tasks
      /\ ToSet(s) = {s[i] : i \in 1 .. Len(s)} /\ ToSet(s) \subseteq Tasks
  BY <1>3, OnListAt
<1>8. ASSUME s # <<>>
      PROVE  /\ r \in Seq(Tasks) /\ Len(r) = Len(s) - 1 /\ Len(s) > 0
             /\ \A i \in 1 .. Len(r) : i + 1 \in 1 .. Len(s) /\ r[i] = s[i + 1]
             /\ Head(s) = s[1]
  <2>1. r = Tail(s)
    BY <1>6, <1>8
  <2> HIDE DEF r, s
  <2>2. /\ Tail(s) \in Seq(Tasks) /\ Len(Tail(s)) = Len(s) - 1
        /\ \A i \in 1 .. Len(Tail(s)) : Tail(s)[i] = s[i + 1]
        /\ Head(s) = s[1] /\ Len(s) \in Nat /\ Len(s) > 0
    BY <1>3, <1>8, HeadTailProperties
  <2> QED
    BY <2>1, <2>2
<1>9. r \in Seq(Tasks) /\ ToSet(r) = {r[i] : i \in 1 .. Len(r)}
  <2>1. r \in Seq(Tasks)
    BY <1>3, <1>6, <1>8
  <2> HIDE DEF r
  <2> QED
    BY <2>1, OnListAt
<1>10. ToSet(r) \subseteq ToSet(s)
  <2>1. CASE s = <<>>
    BY <2>1, <1>6
  <2>2. CASE s # <<>>
    BY <2>2, <1>7, <1>8, <1>9
  <2> QED
    BY <2>1, <2>2
<1>11. \A n \in Mutexes : \A u : WaitsFor(u, n)' => WaitsFor(u, n)
  BY <1>1, <1>10 DEF WaitsFor
<1>12. Ready \subseteq Ready'
  BY <1>2, <1>11 DEF Ready
<1>13. /\ \A i, j \in 1 .. Len(s) : s[i] = s[j] => i = j
       /\ \A i, j \in 1 .. Len(s) : i < j => prio[s[i]] >= prio[s[j]]
       /\ \A u \in Tasks : WaitsFor(u, m) =>
            pc[u] = "try" /\ mutex[u] = m /\ wait[u] # "zero" /\ u \notin asleep
  BY DEF SimpleInv, OnList, WokenByPriority
<1>14. \A i \in 1 .. Len(s) : s[i] # t /\ prio'[s[i]] = prio[s[i]]
  <2>1. \A i \in 1 .. Len(s) : s[i] \in Tasks /\ WaitsFor(s[i], m)
    BY <1>7 DEF WaitsFor
  <2> QED
    BY <2>1, <1>2, <1>5, <1>13
<1> HIDE DEF r, s
<1>15. Running'
  <2>1. CASE UNCHANGED sched
    BY <2>1, <1>2, <1>12 DEF SimpleInv, Running, sched
  <2>2. CASE Yield /\ ~(Deferred /\ cur \in crit)
    BY <2>2, <1>2, YieldToHighest DEF SimpleInv, Running
  <2>3. CASE Yield /\ Deferred /\ cur \in crit
    BY <2>3, <1>2, <1>12 DEF SimpleInv, Running, Yield
  <2> QED
    BY <2>1, <2>2, <2>3, <1>2
<1>22. s # <<>> => ~(Deferred /\ cur \in crit)
  BY DEF SimpleInv, Alone, s
<1>23. Alone'
  <2> SUFFICES ASSUME Deferred, crit # {} PROVE r = <<>> /\ holder'[m] = Nobody
    BY <1>1, <1>2 DEF Alone, r
  <2>1. cur \in crit
    BY DEF SimpleInv, Running
  <2> QED
    BY <2>1, <1>2, <1>6, <1>22
<1>24. Using'
  <2>1. \A u : User(u)' = User(u)
    BY <1>2 DEF User
  <2> QED
    BY <2>1, <1>1, <1>2 DEF SimpleInv, Using, local
<1>25. ASSUME s # <<>>, UNCHANGED sched, ~(prio'[Head(s)] > prio'[t])
       PROVE  TopRuns'
  <2> DEFINE w == s[1]
  <2>1. w = Head(s) /\ 1 \in 1 .. Len(s) /\ w \in Tasks
    BY <1>7, <1>8, <1>25
  <2>2. prio[t] >= Prio[t] /\ prio[w] <= Prio[t]
    BY <2>1, <1>3, <1>5, <1>14, <1>25 DEF SimpleInv, Borrowed
  <2>3. ~(Deferred /\ cur \in crit) /\ ~pend
    BY <1>22, <1>25 DEF SimpleInv, Running
  <2>4. Ready' \subseteq Ready \cup {w}
    <3> SUFFICES ASSUME NEW u \in Ready', u \notin Ready PROVE u = w
      OBVIOUS
    <3>1. u \in Tasks /\ u \notin asleep /\ u \notin ToSet(r)
      BY <1>2 DEF Ready, WaitsFor, r
    <3>2. u \in ToSet(s)
      BY <3>1, <1>1 DEF Ready, WaitsFor, s
    <3>3. PICK i \in 1 .. Len(s) : u = s[i]
      BY <3>2, <1>7
    <3>4. CASE i # 1
      <4>1. i - 1 \in 1 .. Len(r) /\ r[i - 1] = s[(i - 1) + 1]
        BY <3>4, <1>7, <1>8, <1>25
      <4>2. (i - 1) + 1 = i
        BY <1>7
      <4> QED
        BY <4>1, <4>2, <3>1, <3>3, <1>9
    <3> QED
      BY <3>3, <3>4
  <2>5. t \in Ready /\ Ready \subseteq Tasks /\ Ready' \subseteq Tasks
    BY <1>2, <1>3 DEF SimpleInv, Running, Ready
  <2>6. PICK x \in Highest :
          \/ x = cur
          \/ x # Nobody /\ late[x] /\ ~(Deferred /\ cur \in InCritical)
    BY <2>3 DEF SimpleInv, TopRuns
  <2>7. x \in Ready /\ \A u \in Ready : prio[u] <= prio[x]
    BY <2>5 DEF Highest
  <2>8. ASSUME NEW y \in Ready, prio'[y] = prio[x] PROVE y \in Highest'
    <3>1. \A u \in Ready' : prio'[u] <= prio[x]
      <4> SUFFICES ASSUME NEW u \in Ready' PROVE prio'[u] <= prio[x]
        OBVIOUS
      <4>1. prio[x] \in Nat /\ prio[t] \in Nat /\ Prio[t] \in Nat
            /\ prio[t] <= prio[x]
        BY <2>5, <2>7, <1>3
      <4>2. CASE u = t
        BY <4>1, <4>2, <2>2, <1>5
      <4>3. CASE u = w
        <5>1. prio'[u] = prio[u] /\ prio[u] \in Nat
          BY <4>3, <2>1, <1>3, <1>14
        <5> QED
          BY <4>1, <4>3, <5>1, <2>2
      <4>4. CASE u # t /\ u # w
        BY <4>4, <2>4, <2>5, <2>7, <1>5
      <4> QED
        BY <4>2, <4>3, <4>4
    <3>2. y \in Ready'
      BY <1>12
    <3> QED
      BY <3>1, <3>2, <2>8 DEF Highest
  <2>9. CASE x # t
    <3>1. x \in Highest'
      BY <2>5, <2>7, <2>8, <2>9, <1>5
    <3> QED
      BY <3>1, <2>6, <2>9, <1>2, <1>25 DEF TopRuns, sched, local
  <2>10. CASE x = t /\ prio[t] = Prio[t]
    <3>1. t \in Highest'
      BY <2>5, <2>8, <2>10, <1>5
    <3> QED
      BY <3>1, <1>2, <1>25 DEF TopRuns, sched
  <2>11. CASE x = t /\ prio[t] > Prio[t]
    <3>1. PICK u \in Tasks : Lender(u, m) /\ prio[u] = prio[t]
      BY <2>11, <1>2, <1>3 DEF SimpleInv, Lent
    <3>2. ~WaitsFor(u, m)
      <4> SUFFICES ASSUME u \in ToSet(s) PROVE FALSE
        BY DEF WaitsFor, s
      <4>1. PICK i \in 1 .. Len(s) : u = s[i]
        BY <1>7
      <4>2. i = 1 \/ prio[w] >= prio[u]
        BY <4>1, <2>1, <1>7, <1>13
      <4> QED
        BY <4>1, <4>2, <3>1, <2>1, <2>2, <2>11, <1>3
    <3>3. late[u] /\ pc[u] # "run"
      BY <3>1, <3>2 DEF Lender
    <3>4. u \in Ready /\ u # t
      BY <3>2, <3>3, <1>1, <1>2 DEF SimpleInv, Using, Ready
    <3>5. u \in Highest' /\ u # Nobody
      BY <3>1, <3>4, <2>8, <2>11, <1>3, <1>5
    <3>6. ~(Deferred /\ cur \in InCritical)
      BY <2>3, <1>2, <1>3 DEF SimpleInv, Using, User
    <3> QED
      BY <3>3, <3>5, <3>6, <1>2, <1>25 DEF TopRuns, sched, local
  <2> QED
    BY <2>2, <2>9, <2>10, <2>11, <1>3
<1>26. TopRuns'
  <2>1. CASE Yield
    BY <2>1, YieldToTop
  <2>2. CASE s = <<>> /\ UNCHANGED sched /\ prio'[t] = prio[t]
    <3>1. prio' = prio
      BY <2>2, <1>2, <1>3, <1>5 DEF Disinherit
    <3>2. Ready' = Ready
      BY <2>2, <1>2, <1>6 DEF Ready, WaitsFor
    <3> QED
      BY <3>1, <3>2, <2>2, <1>2, TopStays DEF SimpleInv, local
  <2> QED
    BY <2>1, <2>2, <1>6, <1>25
<1>16. OnList'
  <2>1. \A i, j \in 1 .. Len(r) : r[i] = r[j] => i = j
    <3>1. CASE s = <<>>
      BY <3>1, <1>6, <1>13
    <3>2. CASE s # <<>>
      <4> SUFFICES ASSUME NEW i \in 1 .. Len(r), NEW j \in 1 .. Len(r), r[i] = r[j]
                   PROVE  i = j
        OBVIOUS
      <4>1. /\ i + 1 \in 1 .. Len(s) /\ r[i] = s[i + 1]
            /\ j + 1 \in 1 .. Len(s) /\ r[j] = s[j + 1]
        BY <3>2, <1>8
      <4>2. i + 1 = j + 1
        BY <4>1, <1>13
      <4> QED
        BY <4>2
    <3> QED
      BY <3>1, <3>2
  <2> QED
    BY <2>1, <1>1, <1>2, <1>11, <1>13 DEF OnList, local, r
<1>17. Calling'
  <2>1. \A u \in Tasks : mutex[u] = m
    BY <1>1 DEF TypeOK
  <2> QED
    BY <2>1, <1>2, <1>3 DEF SimpleInv, Calling, local
<1>18. Borrowed'
  <2> SUFFICES ASSUME NEW u \in Tasks PROVE prio'[u] = Prio[u]
    BY <1>3 DEF Borrowed
  <2>1. CASE u = t
    BY <2>1, <1>5
  <2>2. CASE u # t
    BY <2>2, <1>1, <1>2, <1>5 DEF SimpleInv, Borrowed
  <2> QED
    BY <2>1, <2>2
<1>19. HolderCarriesWaiters' /\ Lent'
  BY <1>1, <1>2 DEF HolderCarriesWaiters, Lent
<1>20. WokenByPriority'
  <2> SUFFICES ASSUME NEW i \in 1 .. Len(r), NEW j \in 1 .. Len(r), i < j
               PROVE  prio'[r[i]] >= prio'[r[j]]
    BY <1>1 DEF WokenByPriority, r
  <2>1. CASE s = <<>>
    BY <2>1, <1>6, <1>13, <1>14
  <2>2. CASE s # <<>>
    <3>1. /\ i + 1 \in 1 .. Len(s) /\ r[i] = s[i + 1]
          /\ j + 1 \in 1 .. Len(s) /\ r[j] = s[j + 1] /\ i + 1 < j + 1
      BY <2>2, <1>8
    <3> QED
      BY <3>1, <1>13, <1>14
  <2> QED
    BY <2>1, <2>2
<1>21. FreeForHighest'
  <2> SUFFICES ASSUME r # <<>>
               PROVE  /\ \A u \in ToSet(r) : prio'[u] <= PrioOf(cur)'
                      /\ \E w \in Ready' :
                           /\ pc'[w] = "try" /\ mutex'[w] = m
                           /\ \A u \in ToSet(r) : prio'[u] <= prio'[w]
    BY <1>1 DEF FreeForHighest, r
  <2> DEFINE w == s[1]
  <2>1. s # <<>>
    BY <1>6
  <2>2. w \in Tasks /\ 1 \in 1 .. Len(s) /\ WaitsFor(w, m) /\ w = Head(s)
    <3>1. 1 \in 1 .. Len(s)
      BY <2>1, <1>7, <1>8
    <3>2. s[1] \in ToSet(s) /\ s[1] \in Tasks
      BY <3>1, <1>7
    <3> QED
      BY <3>1, <3>2, <2>1, <1>8 DEF WaitsFor, s
  <2>3. ASSUME NEW u \in ToSet(r)
        PROVE  /\ u \in Tasks /\ u # w /\ prio'[u] <= prio'[w]
               /\ prio'[u] \in Nat /\ prio'[w] \in Nat
    <3>1. PICK i \in 1 .. Len(r) : u = r[i]
      BY <1>9
    <3>2. i + 1 \in 1 .. Len(s) /\ u = s[i + 1] /\ 1 < i + 1
      BY <3>1, <2>1, <1>8
    <3>3. u \in Tasks /\ u # w /\ prio[w] >= prio[u]
      BY <3>2, <2>2, <1>7, <1>13
    <3>4. prio'[u] = prio[u] /\ prio'[w] = prio[w]
      BY <3>2, <2>2, <1>14
    <3> QED
      BY <3>3, <3>4, <2>2, <1>3
  <2>4. w \in Ready'
    <3>1. w \notin ToSet(r)
      BY <2>3
    <3>2. \A n \in Mutexes : ~(w \in ToSet(waiters'[n]))
      BY <3>1, <1>1 DEF r
    <3>3. w \notin asleep'
      BY <2>2, <1>2, <1>13
    <3> HIDE DEF w
    <3> QED
      BY <2>2, <3>2, <3>3 DEF Ready, WaitsFor
  <2>5. pc'[w] = "try" /\ mutex'[w] = m
    BY <2>2, <1>2, <1>13 DEF local
  <2>6. prio'[w] <= PrioOf(cur)' /\ PrioOf(cur)' \in Nat
    <3>1. prio'[w] \in Nat /\ prio'[t] \in Nat
      BY <2>2, <1>3, <1>5
    <3>2. CASE Yield
      <4>1. cur' \in Ready' /\ prio'[w] <= prio'[cur']
        BY <3>2, <2>1, <2>4, <1>22, YieldToHighest
      <4>2. cur' \in Tasks /\ cur' # Nobody /\ prio'[cur'] \in Nat
        BY <4>1, <1>3, <1>5 DEF Ready
      <4> QED
        BY <4>1, <4>2 DEF PrioOf
    <3>3. CASE UNCHANGED sched /\ ~(prio'[Head(s)] > prio'[t])
      BY <3>1, <3>3, <2>2, <1>2, <1>3 DEF PrioOf, sched
    <3> QED
      BY <3>2, <3>3, <2>1, <1>6
  <2> QED
    BY <2>3, <2>4, <2>5, <2>6
<1> QED
  BY <1>15, <1>16, <1>17, <1>18, <1>19, <1>20, <1>21, <1>23, <1>24, <1>26
     DEF SimpleInv

\* Critical sections begin and end.  Where one holds back yields, the task that
\* begins it is below all that take the mutex, so none of them holds it or was
\* woken for it: they would be ready, and run.
LEMMA CriticalSimple ==
    ASSUME Simple, Counted, SimpleInv, NEW t \in Tasks,
           EnterCritical(t) \/ ExitCritical(t)
    PROVE  SimpleInv'
<1> USE DEF Counted
<1>1. /\ cur = t /\ pc[t] = "run" /\ held[t] = 0
      /\ UNCHANGED <<queue, prio, held, asleep, local>>
  BY DEF EnterCritical, ExitCritical
<1> USE <1>1 DEF queue, local
<1>2. \A u, m : WaitsFor(u, m)' = WaitsFor(u, m)
  BY DEF WaitsFor
<1>3. Ready' = Ready
  BY <1>2 DEF Ready
<1>4. \A u, m : Lender(u, m)' = Lender(u, m)
  BY <1>2 DEF Lender
<1>5. \A m \in Mutexes : holder[m] # t
  <2>1. Cardinality({n \in Mutexes : holder[n] = t}) = 0
    BY DEF CountsAgree
  <2>2. {n \in Mutexes : holder[n] = t} = {}
    BY <2>1, MutexesFinite, FS_EmptySet
  <2> QED
    BY <2>2
<1>6. t \in Ready /\ t # Nobody /\ prio \in [Tasks -> Nat]
  BY MutexConstants DEF SimpleInv, Running, TypeOK
<1>7. OnList' /\ Calling' /\ Borrowed' /\ HolderCarriesWaiters'
      /\ WokenByPriority'
  BY <1>2 DEF SimpleInv, OnList, Calling, Borrowed, HolderCarriesWaiters,
              WokenByPriority
<1>8. Lent'
  BY <1>2, <1>4 DEF SimpleInv, Lent
<1>9. Using'
  <2>1. crit \ {t} \subseteq crit'
    BY DEF EnterCritical, ExitCritical
  <2>2. \A u \in Tasks \ {t} : User(u) => User(u)'
    BY <2>1 DEF User
  <2>3. \A m \in Mutexes : holder[m] # Nobody => holder[m] \in Tasks \ {t}
    BY <1>5 DEF TypeOK
  <2>4. \A u \in Tasks : pc[u] # "run" => User(u)' /\ u \notin asleep
    BY <2>2 DEF SimpleInv, Using
  <2>5. \A m \in Mutexes : holder[m] # Nobody => User(holder[m])'
    BY <2>2, <2>3 DEF SimpleInv, Using
  <2> QED
    BY <2>4, <2>5 DEF SimpleInv, Using
<1>10. Running' /\ Alone' /\ TopRuns' /\ FreeForHighest'
  <2>1. CASE EnterCritical(t)
    <3>1. t \in InCritical \ crit /\ crit' = crit \cup {t} /\ UNCHANGED sched
      BY <2>1 DEF EnterCritical
    <3>2. Running'
      BY <3>1, <1>3 DEF SimpleInv, Running, sched
    <3>3. TopRuns'
      BY <3>1, <1>3, TopStays DEF SimpleInv
    <3>4. FreeForHighest'
      BY <3>1, <1>3 DEF SimpleInv, FreeForHighest, PrioOf, sched
    <3>5. ASSUME Deferred, NEW u \in Ready, Uses[u] # {}, u # t PROVE FALSE
      <4>1. ~pend
        BY <3>1 DEF SimpleInv, Running
      <4>2. t \in Highest
        BY <3>1, <3>5, <4>1 DEF SimpleInv, TopRuns
      <4>3. prio[u] <= prio[t]
        BY <4>2, <3>5 DEF Highest
      <4>4. Prio[t] < Prio[u] /\ u \in Tasks
        BY <3>1, <3>5 DEF Simple, Ready
      <4>5. prio[t] = Prio[t] /\ prio[u] >= Prio[u]
        BY <4>4, <1>5 DEF SimpleInv, Borrowed
      <4> QED
        BY <4>3, <4>4, <4>5, <1>6, MutexConstants
    <3>6. ASSUME Deferred, NEW m \in Mutexes PROVE holder[m] = Nobody
      <4> SUFFICES ASSUME holder[m] # Nobody PROVE FALSE
        OBVIOUS
      <4>1. holder[m] \in Tasks /\ holder[m] # t
        BY <1>5 DEF TypeOK
      <4>2. Sleepers = {}
        BY <3>1, <3>6 DEF Simple
      <4>3. holder[m] \notin asleep /\ Uses[holder[m]] # {}
        BY <4>2 DEF SimpleInv, Using, User
      <4>4. \A n \in Mutexes : ~WaitsFor(holder[m], n)
        <5>1. \A n \in Mutexes : n = m
          BY OneMutex
        <5> QED
          BY <5>1, <4>1 DEF SimpleInv, OnList, Calling
      <4> QED
        BY <4>1, <4>3, <4>4, <3>5, <3>6 DEF Ready
    <3>7. ASSUME Deferred, NEW m \in Mutexes PROVE waiters[m] = <<>>
      <4> SUFFICES ASSUME waiters[m] # <<>> PROVE FALSE
        OBVIOUS
      <4>1. count[m] = 1
        BY <3>6, <3>7 DEF CountsAgree, TypeOK
      <4>2. PICK w \in Ready : pc[w] = "try"
        BY <4>1 DEF SimpleInv, FreeForHighest
      <4>3. Uses[w] # {} /\ w # t
        BY <4>2 DEF SimpleInv, Using, User, Ready
      <4> QED
        BY <4>3, <3>5, <3>7
    <3>8. Alone'
      BY <3>6, <3>7 DEF Alone
    <3> QED
      BY <3>2, <3>3, <3>4, <3>8
  <2>2. CASE ExitCritical(t)
    <3>1. /\ t \in crit /\ crit' = crit \ {t} /\ pend' = FALSE
          /\ IF pend THEN SwitchContext ELSE UNCHANGED cur
      BY <2>2 DEF ExitCritical
    <3>2. Alone'
      BY <3>1 DEF SimpleInv, Running, Alone
    <3>3. CASE pend
      <4>1. cur' \in Highest'
        BY <3>1, <3>3 DEF SwitchContext
      <4>2. cur' = Nobody \/ cur' \in Ready'
        BY <4>1 DEF Highest
      <4>3. Running' /\ TopRuns'
        BY <3>1, <4>1, <4>2 DEF SimpleInv, Running, TopRuns
      <4>4. \A m \in Mutexes : waiters[m] = <<>>
        BY <3>1, <3>3 DEF SimpleInv, Running, Alone
      <4>5. FreeForHighest'
        BY <4>4 DEF FreeForHighest
      <4> QED
        BY <3>2, <4>3, <4>5
    <3>4. CASE ~pend
      <4>1. UNCHANGED sched
        BY <3>1, <3>4 DEF sched, TypeOK
      <4>2. Running'
        BY <3>1, <3>4, <1>3 DEF SimpleInv, Running
      <4>3. TopRuns'
        BY <4>1, <1>3, TopStays DEF SimpleInv
      <4>4. FreeForHighest'
        BY <4>1, <1>3 DEF SimpleInv, FreeForHighest, PrioOf, sched
      <4> QED
        BY <3>2, <4>2, <4>3, <4>4
    <3> QED
      BY <3>3, <3>4
  <2> QED
    BY <2>1, <2>2
<1> QED
  BY <1>7, <1>8, <1>9, <1>10 DEF SimpleInv

\* Nobody waits at the start.
LEMMA SimpleInit == ASSUME Init PROVE SimpleInv
<1> USE MutexConstants DEF Init
<1>1. \A m \in Mutexes : \A u : ~WaitsFor(u, m)
  BY DEF WaitsFor, ToSet
<1>2. Running /\ Calling /\ Borrowed
  BY DEF Running, Calling, Borrowed
<1>3. OnList /\ HolderCarriesWaiters
  BY <1>1 DEF OnList, HolderCarriesWaiters
<1>4. WokenByPriority /\ FreeForHighest /\ Lent
  BY DEF WokenByPriority, FreeForHighest, Lent
<1>5. Alone /\ Using /\ TopRuns
  BY DEF Alone, Using, TopRuns, Highest, Ready
<1> QED
  BY <1>2, <1>3, <1>4, <1>5 DEF SimpleInv

\* Every step keeps the invariant of the simple case.
LEMMA SimpleStep ==
    ASSUME Simple, Counted, SimpleInv, [Next]_vars PROVE SimpleInv'
<1>1. CASE Next
  <2>1. ASSUME NEW t \in Tasks, Step(t) PROVE SimpleInv'
    BY <2>1, CallSimple, ObtainSimple, BlockSimple, DisinheritSimple DEF Step
  <2>2. ASSUME NEW t \in Tasks, Release(t) PROVE SimpleInv'
    <3>1. PICK m \in Mutexes : GiveOnce(t, m) \/ Give(t, m)
      BY <2>2 DEF Release
    <3>2. CASE GiveOnce(t, m)
      BY <3>2, NestSimple DEF GiveOnce
    <3>3. CASE Give(t, m)
      BY <3>3, GiveSimple
    <3> QED
      BY <3>1, <3>2, <3>3
  <2>3. ASSUME NEW t \in Tasks, Sleep(t) \/ Signal(t) PROVE SimpleInv'
    BY <2>3, SchedulerSimple
  <2>4. ASSUME NEW t \in Tasks, EnterCritical(t) \/ ExitCritical(t)
        PROVE  SimpleInv'
    BY <2>4, CriticalSimple
  <2>5. ASSUME NEW t \in Tasks, NEW m \in Mutexes, TakeAgain(t, m)
        PROVE  SimpleInv'
    BY <2>5, NestSimple DEF TakeAgain
  <2>6. ASSUME NEW t \in Tasks, NEW m \in Mutexes,
               NEW w \in {"zero", "some", "max"}, Take(t, m, w)
        PROVE  SimpleInv'
    BY <2>6, CallSimple
  <2> QED
    BY <1>1, <2>1, <2>2, <2>3, <2>4, <2>5, <2>6, TickSimple DEF Next
<1>2. CASE UNCHANGED vars
  BY <1>2, NestSimple DEF vars, queue, tcb, sched, local
<1> QED
  BY <1>1, <1>2

\* The inductive invariant.
MutexInv == Counted /\ (Simple => SimpleInv)

\* It always holds.
LEMMA MutexInvariant == Spec => []MutexInv
<1>1. Init => MutexInv
  BY CountedInit, SimpleInit DEF MutexInv
<1>2. MutexInv /\ [Next]_vars => MutexInv'
  <2> SUFFICES ASSUME MutexInv, [Next]_vars PROVE MutexInv'
    OBVIOUS
  <2>1. Counted'
    BY CountedStep DEF MutexInv
  <2>2. Simple => SimpleInv'
    BY SimpleStep DEF MutexInv
  <2>3. Simple' = Simple
    BY DEF Simple
  <2> QED
    BY <2>1, <2>2, <2>3 DEF MutexInv
<1> QED
  BY <1>1, <1>2, PTL DEF Spec

-----------------------------------------------------------------------------
(* The theorems.                                                            *)

\* Whoever blocks, times out, gives or delays itself, on either port and with any
\* number of mutexes: a mutex has a holder exactly while its count is 0 and its
\* recursion count is not, and uxMutexesHeld is the number of mutexes that a task
\* holds, on which disinheritance relies.
THEOREM CountsAreRight == Spec => [](TypeOK /\ CountsAgree)
<1>1. Init => Counted
  BY CountedInit
<1>2. Counted /\ [Next]_vars => Counted'
  BY CountedStep
<1>3. Counted => TypeOK /\ CountsAgree
  BY DEF Counted
<1> QED
  BY <1>1, <1>2, <1>3, PTL DEF Spec

\* Priority inheritance works, for any tasks, priorities and timeouts: with one
\* mutex the holder always has the priority of every task that waits for it, a
\* higher priority than its own is one that a task has lent and will take back,
\* and the mutex is given to the highest of those that wait.
THEOREM InheritanceWorks == Spec => []PrioritiesAreRight
<1>1. MutexInv => PrioritiesAreRight
  <2> SUFFICES ASSUME Counted, Simple, SimpleInv PROVE BoostExplained
    BY DEF PrioritiesAreRight, MutexInv, Counted, SimpleInv
  <2> SUFFICES ASSUME NEW h \in Tasks, prio[h] > Prio[h]
               PROVE  \E m \in Mutexes, t \in Tasks :
                        /\ holder[m] = h /\ mutex[t] = m /\ prio[t] = prio[h]
                        /\ WaitsFor(t, m) \/ (inherited[t] /\ pc[t] # "run")
    BY DEF BoostExplained
  <2>1. prio[h] # Prio[h]
    BY MutexConstants DEF Counted, TypeOK
  <2>2. PICK m \in Mutexes : holder[m] = h
    BY <2>1 DEF SimpleInv, Borrowed
  <2>3. PICK t \in Tasks : Lender(t, m) /\ prio[t] = prio[h]
    BY <2>2, MutexConstants DEF SimpleInv, Lent
  <2>4. mutex[t] = m /\ (WaitsFor(t, m) \/ (inherited[t] /\ pc[t] # "run"))
    BY <2>3 DEF Lender
  <2> QED
    BY <2>2, <2>3, <2>4
<1> QED
  BY <1>1, MutexInvariant, PTL

\* The right task runs, for any tasks, priorities and timeouts: with one mutex,
\* which a task of low priority may take inside a critical section, no task runs
\* that is blocked; and a ready task of highest priority runs, unless a critical
\* section holds back the switch to it, or its own call has timed out while the
\* mutex was given to another.  Where nobody's call times out, only the former.
THEOREM RightTaskAlwaysRuns == Spec => []RightTaskRuns
<1>1. MutexInv => RightTaskRuns
  <2> SUFFICES ASSUME Counted, Simple, SimpleInv
               PROVE  /\ BlockedTaskDoesNotRun
                      /\ pend \/ \E t \in Highest :
                                   t = cur \/ (t # Nobody /\ late[t])
                      /\ (\A t \in Tasks : "some" \notin Waits[t]) => HighestRuns
    BY DEF RightTaskRuns, MutexInv
  <2>1. BlockedTaskDoesNotRun
    BY DEF SimpleInv, Running, BlockedTaskDoesNotRun
  <2>2. pend \/ \E t \in Highest : t = cur \/ (t # Nobody /\ late[t])
    BY DEF SimpleInv, TopRuns
  <2>3. ASSUME \A t \in Tasks : "some" \notin Waits[t] PROVE HighestRuns
    <3>1. \A t \in Tasks : ~late[t]
      BY <2>3 DEF SimpleInv, Using
    <3>2. Highest \subseteq Tasks \cup {Nobody}
      BY DEF Highest, Ready
    <3> QED
      BY <2>2, <3>1, <3>2 DEF HighestRuns
  <2> QED
    BY <2>1, <2>2, <2>3
<1> QED
  BY <1>1, MutexInvariant, PTL
=============================================================================
