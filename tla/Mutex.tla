------------------------------- MODULE Mutex --------------------------------
(***************************************************************************)
(* FreeRTOS mutexes with priority inheritance (queue.c, tasks.c), taken    *)
(* under the preemptive priority scheduler and, as NETIN takes the lwIP    *)
(* core lock (ethernetif.c), inside a critical section.                    *)
(*                                                                         *)
(* One action is one critical section, or one stretch of code that runs    *)
(* with the scheduler suspended: no other task runs inside either, and no  *)
(* interrupt handler uses a mutex, so the lock counters of the queue are   *)
(* left out.  Only the task cur takes steps; who runs next is decided      *)
(* where the code yields and in the tick.                                  *)
(***************************************************************************)
EXTENDS Integers, FiniteSets, Sequences, SequencesExt

CONSTANTS
    Tasks,
    Prio,       \* uxBasePriority
    Mutexes,
    Uses,       \* the mutexes each task takes
    Waits,      \* for each task its values of xTicksToWait, a subset of
                \* {"zero", "some", "max"}
    Sleepers,   \* tasks that may delay themselves while they hold a mutex
    InCritical, \* tasks that take the mutex inside a critical section
    Deferred,   \* a yield inside a critical section happens at its end
                \* (RISC-V port) or at once (PowerPC port)
    MaxNest,    \* bound on uxRecursiveCallCount, 1 if it is not recursive
    Nobody      \* the idle task; no holder

ASSUME MutexConstants ==
    /\ IsFiniteSet(Tasks) /\ Nobody \notin Tasks
    /\ IsFiniteSet(Mutexes) /\ Mutexes # {}
    /\ Prio \in [Tasks -> Nat \ {0}]
    /\ Uses \in [Tasks -> SUBSET Mutexes]
    /\ Waits \in [Tasks -> SUBSET {"zero", "some", "max"}]
    /\ Sleepers \subseteq Tasks /\ InCritical \subseteq Tasks
    /\ Deferred \in BOOLEAN
    /\ MaxNest \in Nat \ {0}

VARIABLES
    count,      \* uxMessagesWaiting of each mutex: 1 if it is free
    holder,     \* xMutexHolder
    nest,       \* uxRecursiveCallCount
    waiters,    \* xTasksWaitingToReceive, in its order
    prio,       \* uxPriority, and the value of the event list item
    held,       \* uxMutexesHeld
    asleep,     \* tasks blocked by something other than a mutex
    crit,       \* tasks inside a critical section of their own
    cur,        \* pxCurrentTCB
    pend,       \* a yield is held back by a critical section
    pc,         \* where each task stands in its call
    mutex,      \* the mutex of its call
    wait,       \* xTicksToWait
    late,       \* it has expired
    inherited   \* xInheritanceOccurred

queue == <<count, holder, nest, waiters>>
tcb == <<prio, held, asleep, crit>>
sched == <<cur, pend>>
local == <<pc, mutex, wait, late, inherited>>
vars == <<queue, tcb, sched, local>>

AnyMutex == CHOOSE m \in Mutexes : TRUE

\* xQueueCreateMutex, prvInitialiseMutex; the idle task runs.
Init ==
    /\ count = [m \in Mutexes |-> 1]
    /\ holder = [m \in Mutexes |-> Nobody]
    /\ nest = [m \in Mutexes |-> 0]
    /\ waiters = [m \in Mutexes |-> <<>>]
    /\ prio = Prio
    /\ held = [t \in Tasks |-> 0]
    /\ asleep = Tasks /\ crit = {}
    /\ cur = Nobody /\ pend = FALSE
    /\ pc = [t \in Tasks |-> "run"]
    /\ mutex = [t \in Tasks |-> AnyMutex]
    /\ wait = [t \in Tasks |-> "zero"]
    /\ late = [t \in Tasks |-> FALSE]
    /\ inherited = [t \in Tasks |-> FALSE]

-----------------------------------------------------------------------------
(* The scheduler.                                                           *)

WaitsFor(t, m) == t \in ToSet(waiters[m])
Ready == {t \in Tasks : t \notin asleep /\ \A m \in Mutexes : ~WaitsFor(t, m)}

\* The idle task has priority 0.
PrioOf(t) == IF t = Nobody THEN 0 ELSE prio[t]

\* The tasks of highest priority that are ready.
Highest ==
    IF Ready = {} THEN {Nobody}
    ELSE {t \in Ready : \A u \in Ready : prio[u] <= prio[t]}

\* taskSELECT_HIGHEST_PRIORITY_TASK: the tasks of one priority take turns.
SwitchContext ==
    cur' \in IF Highest' \subseteq {cur} THEN Highest' ELSE Highest' \ {cur}

\* portYIELD.
Yield ==
    IF Deferred /\ cur \in crit
      THEN pend' = TRUE /\ UNCHANGED cur
      ELSE SwitchContext /\ UNCHANGED pend

YieldIf(required) == IF required THEN Yield ELSE UNCHANGED sched

\* The PowerPC port keeps the nesting count in the TCB: another task runs with
\* interrupts enabled although this one is inside a critical section.
InterruptsEnabled == cur \notin crit

\* uxListRemove of the tasks in gone: the others stay in their order.
Without(list, gone) ==
    LET kept == {i \in DOMAIN list : list[i] \notin gone}
        nth == CHOOSE f \in [1 .. Cardinality(kept) -> kept] :
                 \A i, j \in DOMAIN f : i < j => f[i] < f[j]
    IN  [k \in 1 .. Cardinality(kept) |-> list[nth[k]]]

\* xTaskIncrementTick: delays and timeouts end.  There is a switch if one of
\* these tasks has a higher priority than the current one, or if another task
\* is ready at its priority.
Tick ==
    /\ InterruptsEnabled
    /\ \E woken \in SUBSET asleep,
          expired \in SUBSET {t \in Tasks :
              /\ wait[t] = "some"
              /\ pc[t] = "block" \/ \E m \in Mutexes : WaitsFor(t, m)} :
         /\ asleep' = asleep \ woken
         /\ waiters' = [m \in Mutexes |-> Without(waiters[m], expired)]
         /\ late' = [t \in Tasks |-> late[t] \/ t \in expired]
         /\ UNCHANGED <<count, holder, nest, prio, held, crit, pc, mutex,
                        wait, inherited>>
         /\ YieldIf(\/ \E t \in Ready' \ Ready : prio[t] > PrioOf(cur)
                    \/ \E t \in Ready' \ {cur} : prio[t] = PrioOf(cur))

\* Faulty Sleep: the core lock is kept while the task waits.
SleepHolding(t) ==
    /\ cur = t /\ pc[t] = "run" /\ t \notin crit
    /\ asleep' = asleep \cup {t}
    /\ UNCHANGED <<queue, prio, held, crit, local>>
    /\ Yield

\* vTaskDelay, or waiting for anything but a mutex.  lwIP gives up the core
\* lock before it waits.
Sleep(t) ==
    /\ cur = t /\ pc[t] = "run" /\ t \notin crit
    /\ held[t] = 0 \/ t \in Sleepers
    /\ asleep' = asleep \cup {t}
    /\ UNCHANGED <<queue, prio, held, crit, local>>
    /\ Yield

\* The task wakes another one, as lwIP does from ethernet_input with
\* sys_mbox_trypost and sys_sem_signal, with the core lock held.
Signal(t) ==
    /\ cur = t /\ pc[t] = "run"
    /\ \E u \in asleep :
         /\ asleep' = asleep \ {u}
         /\ UNCHANGED <<queue, prio, held, crit, local>>
         /\ YieldIf(prio[u] > prio[t])

\* taskENTER_CRITICAL and taskEXIT_CRITICAL around the call.
EnterCritical(t) ==
    /\ cur = t /\ pc[t] = "run" /\ t \in InCritical \ crit
    /\ held[t] = 0
    /\ crit' = crit \cup {t}
    /\ UNCHANGED <<queue, prio, held, asleep, sched, local>>

\* Faulty ExitCritical: the yield that was held back is lost.
ExitCriticalForgets(t) ==
    /\ cur = t /\ pc[t] = "run" /\ t \in crit /\ held[t] = 0
    /\ crit' = crit \ {t} /\ pend' = FALSE
    /\ UNCHANGED <<queue, prio, held, asleep, cur, local>>

\* The yield that was held back happens now.
ExitCritical(t) ==
    /\ cur = t /\ pc[t] = "run" /\ t \in crit
    /\ held[t] = 0
    /\ crit' = crit \ {t}
    /\ UNCHANGED <<queue, prio, held, asleep, local>>
    /\ pend' = FALSE
    /\ IF pend THEN SwitchContext ELSE UNCHANGED cur

-----------------------------------------------------------------------------
(* Taking a mutex.                                                          *)

Goto(t, where) == pc' = [pc EXCEPT ![t] = where]

\* The call returns; its local variables are gone.
Return(t) ==
    /\ pc' = [pc EXCEPT ![t] = "run"]
    /\ wait' = [wait EXCEPT ![t] = "zero"]
    /\ late' = [late EXCEPT ![t] = FALSE]
    /\ inherited' = [inherited EXCEPT ![t] = FALSE]
    /\ UNCHANGED mutex

\* xQueueTakeMutexRecursive of a mutex the task holds.
TakeAgain(t, m) ==
    /\ cur = t /\ pc[t] = "run"
    /\ holder[m] = t /\ nest[m] < MaxNest
    /\ nest' = [nest EXCEPT ![m] = @ + 1]
    /\ UNCHANGED <<count, holder, waiters, tcb, sched, local>>

\* xQueueTakeMutexRecursive of another one: xQueueSemaphoreTake is called.
Take(t, m, w) ==
    /\ cur = t /\ pc[t] = "run"
    /\ m \in Uses[t] /\ w \in Waits[t] /\ holder[m] # t
    /\ t \in InCritical => t \in crit
    /\ Goto(t, "try")
    /\ mutex' = [mutex EXCEPT ![t] = m]
    /\ wait' = [wait EXCEPT ![t] = w]
    /\ UNCHANGED <<queue, tcb, sched, late, inherited>>

\* Faulty Obtain: the count is not looked at.
ObtainUnchecked(t) ==
    LET m == mutex[t]
    IN  /\ cur = t /\ pc[t] = "try"
        /\ count' = [count EXCEPT ![m] = @ - 1]
        /\ holder' = [holder EXCEPT ![m] = t]
        /\ nest' = [nest EXCEPT ![m] = @ + 1]
        /\ held' = [held EXCEPT ![t] = @ + 1]
        /\ Return(t)
        /\ UNCHANGED <<waiters, prio, asleep, crit, sched>>

\* xQueueSemaphoreTake, the mutex is free: pvTaskIncrementMutexHeldCount.
Obtain(t) ==
    LET m == mutex[t]
    IN  /\ cur = t /\ pc[t] = "try" /\ count[m] > 0
        /\ count' = [count EXCEPT ![m] = @ - 1]
        /\ holder' = [holder EXCEPT ![m] = t]
        /\ nest' = [nest EXCEPT ![m] = @ + 1]
        /\ held' = [held EXCEPT ![t] = @ + 1]
        /\ Return(t)
        /\ UNCHANGED <<waiters, prio, asleep, crit, sched>>

\* It is not, and the task may not wait: errQUEUE_EMPTY.
Refuse(t) ==
    /\ cur = t /\ pc[t] = "try" /\ count[mutex[t]] = 0
    /\ IF wait[t] = "zero"
         THEN Return(t)
         ELSE Goto(t, "block") /\ UNCHANGED <<mutex, wait, late, inherited>>
    /\ UNCHANGED <<queue, tcb, sched>>

\* Faulty Inherit: the holder keeps its priority.
InheritNothing(t, h) == prio

\* xTaskPriorityInherit: the priorities when t has to wait for h.
Inherit(t, h) ==
    IF h # Nobody /\ PrioOf(h) < prio[t]
      THEN [prio EXCEPT ![h] = prio[t]] ELSE prio

\* Its result: the holder's priority is, or already was, inherited.
InheritanceOccurred(t, h) ==
    h # Nobody /\ (prio[h] < prio[t] \/ Prio[h] < prio[t])

\* Faulty InsertByPriority: the event list is first in, first out.
InsertLast(list, t) == Append(list, t)

\* vListInsert of the event list item of t: behind all of its priority.
InsertByPriority(list, t) ==
    LET lower == {i \in 1 .. Len(list) : prio[list[i]] < prio[t]}
        at == IF lower = {} THEN Len(list) + 1
              ELSE CHOOSE i \in lower : \A j \in lower : i <= j
    IN  InsertAt(list, at, t)

\* With the scheduler suspended, not expired and still not free: inherit,
\* vTaskPlaceOnEventList, and yield.  The loop then starts again: if the
\* yield is held back, the task goes on although it is blocked.
Block(t) ==
    LET m == mutex[t]
    IN  /\ cur = t /\ pc[t] = "block" /\ ~late[t] /\ count[m] = 0
        /\ prio' = Inherit(t, holder[m])
        /\ inherited' =
             [inherited EXCEPT ![t] = InheritanceOccurred(t, holder[m])]
        /\ waiters' = [waiters EXCEPT ![m] = InsertByPriority(@, t)]
        /\ Goto(t, "try")
        /\ UNCHANGED <<count, holder, nest, held, asleep, crit, mutex, wait,
                       late>>
        /\ Yield

\* Not expired, and free by now.
LookAgain(t) ==
    /\ cur = t /\ pc[t] = "block" /\ ~late[t] /\ count[mutex[t]] > 0
    /\ Goto(t, "try")
    /\ UNCHANGED <<queue, tcb, sched, mutex, wait, late, inherited>>

\* xTaskCheckForTimeOut finds the time expired and leaves none to wait.
Expire(t) ==
    /\ cur = t /\ pc[t] = "block" /\ late[t]
    /\ wait' = [wait EXCEPT ![t] = "zero"]
    /\ Goto(t, "expired")
    /\ UNCHANGED <<queue, tcb, sched, mutex, late, inherited>>

\* Faulty LastLook: the inherited priority is not taken back.
LastLookOnly(t) ==
    /\ cur = t /\ pc[t] = "expired"
    /\ IF count[mutex[t]] = 0
         THEN Return(t)
         ELSE Goto(t, "try") /\ UNCHANGED <<mutex, wait, late, inherited>>
    /\ UNCHANGED <<queue, tcb, sched>>

\* prvIsQueueEmpty: the mutex may be free after all, or what the holder
\* inherited has to be taken back.
LastLook(t) ==
    /\ cur = t /\ pc[t] = "expired"
    /\ IF count[mutex[t]] = 0 /\ ~inherited[t]
         THEN Return(t)
         ELSE /\ Goto(t, IF count[mutex[t]] = 0 THEN "disinherit" ELSE "try")
              /\ UNCHANGED <<mutex, wait, late, inherited>>
    /\ UNCHANGED <<queue, tcb, sched>>

\* Faulty DisinheritTo: the other waiting tasks are forgotten.
DisinheritToBase(h, m) == Prio[h]

\* prvGetDisinheritPriorityAfterTimeout and the choice that follows: the
\* first waiting task is taken for the one of highest priority.
DisinheritTo(h, m) ==
    IF waiters[m] # <<>> /\ Prio[h] < prio[Head(waiters[m])]
      THEN prio[Head(waiters[m])] ELSE Prio[h]

\* vTaskPriorityDisinheritAfterTimeout, whoever holds the mutex by now.
DisinheritAfterTimeout(t) ==
    LET m == mutex[t]
        h == holder[m]
    IN  /\ cur = t /\ pc[t] = "disinherit"
        /\ prio' = IF h # Nobody /\ held[h] = 1
                     THEN [prio EXCEPT ![h] = DisinheritTo(h, m)] ELSE prio
        /\ Return(t)
        /\ UNCHANGED <<queue, held, asleep, crit, sched>>

-----------------------------------------------------------------------------
(* Giving it back.                                                          *)

\* xQueueGiveMutexRecursive, not the last time.
GiveOnce(t, m) ==
    /\ cur = t /\ pc[t] = "run"
    /\ holder[m] = t /\ nest[m] > 1
    /\ nest' = [nest EXCEPT ![m] = @ - 1]
    /\ UNCHANGED <<count, holder, waiters, tcb, sched, local>>

\* Faulty Disinherit: another mutex still held is no reason not to.
DisinheritAlways(t) == [prio EXCEPT ![t] = Prio[t]]

\* xTaskPriorityDisinherit: the priorities once t gives a mutex.
Disinherit(t) == IF held[t] = 1 THEN [prio EXCEPT ![t] = Prio[t]] ELSE prio

\* Faulty Give: uxMutexesHeld goes down only with the priority.
GiveUncounted(t, m) ==
    /\ cur = t /\ pc[t] = "run"
    /\ holder[m] = t /\ nest[m] = 1
    /\ nest' = [nest EXCEPT ![m] = 0]
    /\ count' = [count EXCEPT ![m] = @ + 1]
    /\ holder' = [holder EXCEPT ![m] = Nobody]
    /\ held' = [held EXCEPT ![t] = IF prio[t] = Prio[t] THEN @ ELSE @ - 1]
    /\ prio' = Disinherit(t)
    /\ waiters' = [waiters EXCEPT ![m] = IF @ = <<>> THEN @ ELSE Tail(@)]
    /\ UNCHANGED <<asleep, crit, local>>
    /\ Yield

\* The last time: xQueueGenericSend, prvCopyDataToQueue.  The first waiting
\* task is woken.  There is a yield if its priority is higher, or if nobody
\* waited and the priority was disinherited.
Give(t, m) ==
    /\ cur = t /\ pc[t] = "run"
    /\ holder[m] = t /\ nest[m] = 1
    /\ nest' = [nest EXCEPT ![m] = 0]
    /\ count' = [count EXCEPT ![m] = @ + 1]
    /\ holder' = [holder EXCEPT ![m] = Nobody]
    /\ held' = [held EXCEPT ![t] = @ - 1]
    /\ prio' = Disinherit(t)
    /\ UNCHANGED <<asleep, crit, local>>
    /\ IF waiters[m] = <<>>
         THEN UNCHANGED waiters /\ YieldIf(prio'[t] # prio[t])
         ELSE /\ waiters' = [waiters EXCEPT ![m] = Tail(@)]
              /\ YieldIf(prio'[Head(waiters[m])] > prio'[t])

Step(t) ==
    \/ Obtain(t) \/ Refuse(t) \/ Block(t) \/ LookAgain(t) \/ Expire(t)
    \/ LastLook(t) \/ DisinheritAfterTimeout(t)

Release(t) == \E m \in Mutexes : GiveOnce(t, m) \/ Give(t, m)

Next ==
    \/ \E t \in Tasks :
         \/ Step(t) \/ Release(t)
         \/ Sleep(t) \/ Signal(t) \/ EnterCritical(t) \/ ExitCritical(t)
         \/ \E m \in Mutexes :
              \/ TakeAgain(t, m)
              \/ \E w \in {"zero", "some", "max"} : Take(t, m, w)
    \/ Tick

\* A task that runs goes on with its call, gives back what it took and leaves
\* its critical section.  Nothing obliges it to block or to let others run.
Fairness ==
    \A t \in Tasks :
        WF_vars(Step(t)) /\ WF_vars(Release(t)) /\ WF_vars(ExitCritical(t))

Spec == Init /\ [][Next]_vars /\ Fairness

-----------------------------------------------------------------------------
(* Properties.                                                              *)

\* Every variable has its type.
TypeOK ==
    /\ count \in [Mutexes -> {0, 1}]
    /\ holder \in [Mutexes -> Tasks \cup {Nobody}]
    /\ nest \in [Mutexes -> 0 .. MaxNest]
    /\ waiters \in [Mutexes -> Seq(Tasks)]
    /\ prio \in [Tasks -> Nat]
    /\ held \in [Tasks -> Nat]
    /\ asleep \subseteq Tasks /\ crit \subseteq InCritical
    /\ cur \in Tasks \cup {Nobody} /\ pend \in BOOLEAN
    /\ pc \in [Tasks -> {"run", "try", "block", "expired", "disinherit"}]
    /\ mutex \in [Tasks -> Mutexes]
    /\ wait \in [Tasks -> {"zero", "some", "max"}]
    /\ late \in [Tasks -> BOOLEAN] /\ inherited \in [Tasks -> BOOLEAN]

\* The count, the holder, the recursion count and uxMutexesHeld agree: a
\* mutex has a holder exactly while it is taken, and nobody's count of
\* mutexes drifts, whatever timed out or was given out of order.
CountsAgree ==
    /\ \A m \in Mutexes :
         /\ (count[m] = 0) = (holder[m] # Nobody)
         /\ (count[m] = 0) = (nest[m] > 0)
    /\ \A t \in Tasks :
         held[t] = Cardinality({m \in Mutexes : holder[m] = t})

\* No task of lower priority holds back one that waits for its mutex: the
\* holder has at least the priority of every task on the event list.
HolderCarriesWaiters ==
    \A m \in Mutexes, t \in Tasks :
        holder[m] # Nobody /\ WaitsFor(t, m) => prio[holder[m]] >= prio[t]

\* Inheritance is not passed on along a chain of waiting tasks, but where one
\* task takes two mutexes, in whatever order it gives them back and whatever
\* times out, a holder has at least the base priority of every waiting task.
HolderCarriesBase ==
    \A m \in Mutexes, t \in Tasks :
        holder[m] # Nobody /\ WaitsFor(t, m) => prio[holder[m]] >= Prio[t]

\* An inherited priority is taken back: a task is above its own priority
\* only while it holds a mutex that another task of that priority waits for,
\* or waited for and is about to disinherit.
BoostExplained ==
    \A h \in Tasks : prio[h] > Prio[h] =>
        \E m \in Mutexes, t \in Tasks :
            /\ holder[m] = h /\ mutex[t] = m /\ prio[t] = prio[h]
            /\ WaitsFor(t, m) \/ (inherited[t] /\ pc[t] # "run")

\* The running task is the one of highest priority, except that a critical
\* section may hold back the switch.
HighestRuns == pend \/ cur \in Highest

\* As vTaskPlaceOnEventList says, "the highest priority task is the first to
\* be woken by the event".
WokenByPriority ==
    \A m \in Mutexes : \A i, j \in 1 .. Len(waiters[m]) :
        i < j => prio[waiters[m][i]] >= prio[waiters[m][j]]

\* Tasks take one mutex.  Where a yield is held back by a critical section,
\* whoever takes it inside one has a lower priority than all the others, and
\* they give it up before they wait for anything else, as lwIP does.
Simple ==
    /\ \A m, n \in Mutexes : m = n
    /\ Deferred => \A c \in InCritical :
         /\ Sleepers = {}
         /\ \A t \in Tasks : t # c /\ Uses[t] # {} => Prio[c] < Prio[t]

\* Priority inheritance does what it is for, in the system of these tasks and
\* mutexes.  The count, holder, recursion count and uxMutexesHeld agree.
\* With a single mutex no task of lower priority holds back one that waits for
\* it, whoever timed out and whatever was given to whom; an inherited priority
\* is taken back; and "the highest priority task is the first to be woken".
PrioritiesAreRight ==
    (DOMAIN prio = Tasks /\ DOMAIN count = Mutexes) =>
        /\ TypeOK /\ CountsAgree
        /\ Simple => HolderCarriesWaiters /\ BoostExplained /\ WokenByPriority

\* The processor is never with a task that is blocked, as it would be if a
\* task had to wait for the core lock inside its critical section: the
\* RISC-V port would let it run on and put it on the event list twice.
BlockedTaskDoesNotRun == cur = Nobody \/ cur \in Ready

\* With a single mutex, whoever holds it and whatever times out, the processor
\* is with a task that is not blocked, and one of highest priority, though a
\* critical section may hold back the switch; only a task whose time to wait
\* has expired may have to wait for a lower one that has just given the mutex
\* to another task.
RightTaskRuns ==
    (DOMAIN prio = Tasks /\ DOMAIN count = Mutexes) /\ Simple =>
        /\ BlockedTaskDoesNotRun
        /\ pend \/ \E t \in Highest : t = cur \/ (t # Nobody /\ late[t])
        /\ (\A t \in Tasks : "some" \notin Waits[t]) => HighestRuns
=============================================================================
