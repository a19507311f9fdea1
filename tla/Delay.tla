-------------------------------- MODULE Delay --------------------------------
(***************************************************************************)
(* Blocking for a time in FreeRTOS (tasks.c): vTaskDelay, xTaskDelayUntil, *)
(* and waiting for an event with a timeout.  Blocked tasks are on two      *)
(* lists, for wake times before and after the next overflow of the tick    *)
(* count; ticks that interrupt a suspended scheduler are counted and made  *)
(* up for when it resumes.                                                 *)
(*                                                                         *)
(* Tick counts wrap at TickRange.  turn is the time at which xTickcount    *)
(* was last 0, so that turn + count is the time in ticks; the code does    *)
(* not know it.  Priorities are left out: any task that is ready may run,  *)
(* unless another has suspended the scheduler.                             *)
(***************************************************************************)
EXTENDS Integers

CONSTANTS
    Delayers,   \* tasks that call vTaskDelay
    Periodics,  \* tasks that call xTaskDelayUntil
    Waiters,    \* tasks that wait for events with a timeout
    Times,      \* the ticks they ask for
    TickRange,  \* portMAX_DELAY + 1
    MaxTick,    \* bound: ticks
    MaxPended,  \* bound: ticks while the scheduler is suspended
    None

Tasks == Delayers \cup Periodics \cup Waiters
MaxDelay == TickRange - 1

ASSUME DelayConstants ==
    /\ TickRange \in Nat /\ TickRange > 1
    /\ Times \subseteq 1 .. MaxDelay
    /\ MaxTick \in Nat /\ MaxPended \in Nat
    /\ None \notin Tasks
    \* No call of the kernel delays the task between two checks of a timeout.
    /\ (Delayers \cup Periodics) \cap Waiters = {}

VARIABLES
    time,       \* history: the tick interrupts there were
    turn,       \* history, see above
    count,      \* xTickcount
    overflows,  \* xNumOfOverflows
    pended,     \* xPendedTicks
    next,       \* xNextTaskUnblockTime
    holder,     \* the task that has suspended the scheduler, or None
    catching,   \* is xTaskResumeAll making up for pended ticks?
    list,       \* of each task: "ready", "delayed", "overflow", "forever"
    value,      \* xItemValue of its xStateListItem
    waiting,    \* is it on an event list?
    pendingReady, \* xPendingReadyList
    pc,         \* where each task is
    after,      \* where it goes on when the scheduler has resumed
    arg,        \* ticks to wait: xTicksToDelay, xTimeIncrement, xTicksToWait
    previous,   \* of Periodics: *pxPreviousWakeTime
    timeout,    \* of Waiters: the TimeOut_t
    due,        \* history: the time at which the task is to wake
    asked       \* history: the time until which a waiter asked to wait, the
                \* time a periodic task is to wake next

clock == <<turn, count, overflows, next>>
lists == <<list, value, waiting, due>>
calls == <<arg, previous, timeout, asked>>
vars == <<time, clock, lists, calls, pended, holder, catching, pendingReady,
          pc, after>>

Tick == turn + count

\* Sums and differences of two tick counts.
Plus(a, b) == IF a + b < TickRange THEN a + b ELSE a + b - TickRange
Minus(a, b) == IF a >= b THEN a - b ELSE a - b + TickRange

On(l) == {t \in Tasks : list[t] = l}

Least(S) == CHOOSE n \in S : \A m \in S : n <= m

\* xNextTaskUnblockTime for the tasks S of the delayed list.
Unblock(S, v) == IF S = {} THEN MaxDelay ELSE Least({v[t] : t \in S})

-----------------------------------------------------------------------------
(* The tick.                                                                *)

\* Faulty Overflow: it is not counted.
OverflowUncounted(n) == overflows

\* xNumOfOverflows when the count has become n.
Overflow(n) == IF n = 0 THEN overflows + 1 ELSE overflows

\* Faulty Woken: a task that is due at the next tick is woken with the others.
WokenEarly(l, n) == {t \in Tasks : l[t] = "delayed" /\ value[t] <= n + 1}

\* Faulty Woken: the wake time itself is one tick too early to wake.
WokenLate(l, n) == {t \in Tasks : l[t] = "delayed" /\ value[t] < n}

\* The tasks that are removed from the delayed list when the count is n.
Woken(l, n) == {t \in Tasks : l[t] = "delayed" /\ value[t] <= n}

\* taskSWITCH_DELAYED_LISTS.
Switched(l) ==
    [t \in Tasks |-> CASE l[t] = "delayed" -> "overflow"
                       [] l[t] = "overflow" -> "delayed"
                       [] OTHER -> l[t]]

\* xTaskIncrementTick, with the scheduler running.
IncrementTick ==
    LET n == Plus(count, 1)
        l == IF n = 0 THEN Switched(list) ELSE list
        from == IF n = 0 THEN Unblock({t \in Tasks : l[t] = "delayed"}, value)
                ELSE next
        woken == IF n >= from THEN Woken(l, n) ELSE {}
    IN  /\ count' = n
        /\ turn' = IF n = 0 THEN turn + TickRange ELSE turn
        /\ overflows' = Overflow(n)
        /\ list' = [t \in Tasks |-> IF t \in woken THEN "ready" ELSE l[t]]
        /\ waiting' = [t \in Tasks |-> waiting[t] /\ t \notin woken]
        /\ next' = IF n >= from
                     THEN Unblock({t \in Tasks : list'[t] = "delayed"}, value)
                     ELSE from
        /\ UNCHANGED <<value, due>>

TickInterrupt ==
    /\ time < MaxTick /\ ~catching
    /\ time' = time + 1
    /\ IF holder = None THEN IncrementTick /\ UNCHANGED pended
       ELSE /\ pended < MaxPended
            /\ pended' = pended + 1
            /\ UNCHANGED <<clock, lists>>
    /\ UNCHANGED <<calls, holder, catching, pendingReady, pc, after>>

-----------------------------------------------------------------------------
(* Suspending and resuming the scheduler.                                   *)

CanRun(t) == holder = None /\ list[t] = "ready"

Goto(t, p) == pc' = [pc EXCEPT ![t] = p]

\* vTaskSuspendAll.
SuspendAll(t) == CanRun(t) /\ holder' = t

\* xTaskResumeAll: tasks woken by handlers meanwhile are made ready ...
ResumeAll(t) ==
    /\ pc[t] = "resume" /\ ~catching
    /\ list' = [u \in Tasks |-> IF u \in pendingReady THEN "ready" ELSE list[u]]
    /\ next' = IF pendingReady = {} THEN next
               ELSE Unblock({u \in Tasks : list'[u] = "delayed"}, value)
    /\ pendingReady' = {}
    /\ IF pended > 0 THEN catching' = TRUE /\ UNCHANGED <<holder, pc>>
       ELSE holder' = None /\ Goto(t, after[t]) /\ UNCHANGED catching
    /\ UNCHANGED <<time, turn, count, overflows, value, waiting, due, calls,
                   pended, after>>

\* Faulty CatchUp: one tick is made up for, the others are dropped.
CatchUpOnce(t) ==
    /\ catching /\ holder = t
    /\ IncrementTick
    /\ pended' = 0 /\ catching' = FALSE /\ holder' = None
    /\ Goto(t, after[t])
    /\ UNCHANGED <<time, calls, pendingReady, after>>

\* ... and the pended ticks are made up for, with interrupts disabled.
CatchUp(t) ==
    /\ catching /\ holder = t
    /\ IncrementTick
    /\ pended' = pended - 1
    /\ IF pended = 1
         THEN catching' = FALSE /\ holder' = None /\ Goto(t, after[t])
         ELSE UNCHANGED <<catching, holder, pc>>
    /\ UNCHANGED <<time, calls, pendingReady, after>>

\* Faulty AddToDelayedList: xNextTaskUnblockTime is left alone.
AddToDelayedListOnly(t, n, indefinitely) ==
    /\ list' = [list EXCEPT ![t] =
                  IF n = MaxDelay /\ indefinitely THEN "forever"
                  ELSE IF count + n >= TickRange THEN "overflow" ELSE "delayed"]
    /\ value' = [value EXCEPT ![t] = Plus(count, n)]
    /\ due' = [due EXCEPT ![t] = Tick + n]
    /\ UNCHANGED clock

\* prvAddCurrentTaskToDelayedList.
AddToDelayedList(t, n, indefinitely) ==
    LET wake == Plus(count, n)
    IN  IF n = MaxDelay /\ indefinitely
          THEN /\ list' = [list EXCEPT ![t] = "forever"]
               /\ UNCHANGED <<clock, value, due>>
          ELSE /\ list' = [list EXCEPT ![t] = IF wake < count THEN "overflow"
                                              ELSE "delayed"]
               /\ value' = [value EXCEPT ![t] = wake]
               /\ due' = [due EXCEPT ![t] = Tick + n]
               /\ next' = IF wake >= count /\ wake < next THEN wake ELSE next
               /\ UNCHANGED <<turn, count, overflows>>

-----------------------------------------------------------------------------
(* vTaskDelay and xTaskDelayUntil.                                          *)

Call(t, n, p) ==
    /\ pc[t] = "run" /\ SuspendAll(t)
    /\ arg' = [arg EXCEPT ![t] = n]
    /\ Goto(t, p)
    /\ UNCHANGED <<time, clock, lists, previous, timeout, asked, pended,
                   catching, pendingReady, after>>

Delay(t) == t \in Delayers /\ \E n \in Times : Call(t, n, "delay")

DelayBlock(t) ==
    /\ pc[t] = "delay"
    /\ AddToDelayedList(t, arg[t], FALSE)
    /\ Goto(t, "resume")
    /\ UNCHANGED <<time, waiting, calls, pended, holder, catching,
                   pendingReady, after>>

\* The previous wake time is less than a whole turn of the count ago.
DelayUntil(t) ==
    /\ t \in Periodics /\ Tick < asked[t] + TickRange
    /\ \E n \in Times : Call(t, n, "until")

\* Faulty ShouldDelay: an overflow of the count is not thought of.
ShouldDelayPlain(before, wake) == wake > count

\* Is the time to wake still to come?  before and wake are tick counts.
ShouldDelay(before, wake) ==
    IF count < before THEN wake < before /\ wake > count
    ELSE wake < before \/ wake > count

DelayUntilBlock(t) ==
    LET before == previous[t]
        wake == Plus(before, arg[t])
    IN  /\ pc[t] = "until"
        /\ IF ShouldDelay(before, wake)
             THEN AddToDelayedList(t, Minus(wake, count), FALSE)
             ELSE UNCHANGED <<clock, list, value, due>>
        /\ previous' = [previous EXCEPT ![t] = wake]
        /\ asked' = [asked EXCEPT ![t] = @ + arg[t]]
        /\ Goto(t, "resume")
        /\ UNCHANGED <<time, waiting, arg, timeout, pended, holder, catching,
                       pendingReady, after>>

-----------------------------------------------------------------------------
(* Waiting for an event, as in queue.c.                                     *)

TimeOutState == [at |-> count, overflows |-> overflows]

\* The first look of the call fails: vTaskInternalSetTimeOutState.
Wait(t) ==
    /\ t \in Waiters /\ pc[t] = "run" /\ CanRun(t)
    /\ \E n \in Times : /\ arg' = [arg EXCEPT ![t] = n]
                        /\ asked' = [asked EXCEPT ![t] = Tick + n]
    /\ timeout' = [timeout EXCEPT ![t] = TimeOutState]
    /\ Goto(t, "look")
    /\ UNCHANGED <<time, clock, lists, previous, pended, holder, catching,
                   pendingReady, after>>

\* What it waits for is there when it looks again: the call returns.
LookSucceeds(t) ==
    /\ pc[t] = "look" /\ CanRun(t)
    /\ Goto(t, "run")
    /\ UNCHANGED <<time, clock, lists, calls, pended, holder, catching,
                   pendingReady, after>>

\* It is not there.  There was at most one overflow since the state was set.
LookFails(t) ==
    /\ pc[t] = "look" /\ overflows <= timeout[t].overflows + 1
    /\ SuspendAll(t)
    /\ Goto(t, "check")
    /\ UNCHANGED <<time, clock, lists, calls, pended, catching, pendingReady,
                   after>>

\* Faulty TimedOut: overflows are not counted.
TimedOutPlain(t, elapsed) == arg[t] # MaxDelay /\ elapsed >= arg[t]

\* xTaskCheckForTimeOut.
TimedOut(t, elapsed) ==
    /\ arg[t] # MaxDelay
    /\ \/ overflows # timeout[t].overflows
          /\ count >= timeout[t].at
       \/ elapsed >= arg[t]

Elapsed(t) == Minus(count, timeout[t].at)

CheckExpired(t) ==
    /\ pc[t] = "check" /\ TimedOut(t, Elapsed(t))
    /\ Goto(t, "resume")
    /\ after' = [after EXCEPT ![t] = "run"]
    /\ UNCHANGED <<time, clock, lists, calls, pended, holder, catching,
                   pendingReady>>

Remaining(t) == IF arg[t] = MaxDelay THEN MaxDelay ELSE arg[t] - Elapsed(t)

\* It has not expired: what remains is waited for from now on.
Adjust(t) ==
    /\ pc[t] = "check" /\ ~TimedOut(t, Elapsed(t))
    /\ arg' = [arg EXCEPT ![t] = Remaining(t)]
    /\ timeout' = [timeout EXCEPT ![t] =
                     IF arg[t] = MaxDelay THEN @ ELSE TimeOutState]
    /\ Goto(t, "resume")
    /\ after' = [after EXCEPT ![t] = "look"]
    /\ UNCHANGED <<previous, asked>>

\* vTaskPlaceOnEventList, for the time that remains.
CheckBlock(t) ==
    /\ Adjust(t)
    /\ waiting' = [waiting EXCEPT ![t] = TRUE]
    /\ AddToDelayedList(t, Remaining(t), TRUE)
    /\ UNCHANGED <<time, pended, holder, catching, pendingReady>>

\* What it waits for has come since the last look: it looks again at once.
CheckFinds(t) ==
    /\ Adjust(t)
    /\ UNCHANGED <<time, clock, lists, pended, holder, catching, pendingReady>>

\* xTaskRemoveFromEventList, by a handler or by the task that runs.
Event(t) ==
    /\ waiting[t] /\ ~catching
    /\ waiting' = [waiting EXCEPT ![t] = FALSE]
    /\ IF holder = None
         THEN list' = [list EXCEPT ![t] = "ready"] /\ UNCHANGED pendingReady
         ELSE pendingReady' = pendingReady \cup {t} /\ UNCHANGED list
    /\ UNCHANGED <<time, clock, value, due, calls, pended, holder, catching,
                   pc, after>>

-----------------------------------------------------------------------------
Init ==
    /\ time = 0 /\ turn = 0 /\ count = 0 /\ overflows = 0
    /\ pended = 0 /\ next = MaxDelay
    /\ holder = None /\ catching = FALSE
    /\ list = [t \in Tasks |-> "ready"]
    /\ value = [t \in Tasks |-> 0]
    /\ waiting = [t \in Tasks |-> FALSE]
    /\ pendingReady = {}
    /\ pc = [t \in Tasks |-> "run"]
    /\ after = [t \in Tasks |-> "run"]
    /\ arg = [t \in Tasks |-> 0]
    /\ previous = [t \in Tasks |-> 0]
    /\ timeout = [t \in Tasks |-> [at |-> 0, overflows |-> 0]]
    /\ due = [t \in Tasks |-> 0]
    /\ asked = [t \in Tasks |-> 0]

Task(t) ==
    \/ Delay(t) \/ DelayBlock(t) \/ DelayUntil(t) \/ DelayUntilBlock(t)
    \/ Wait(t) \/ LookSucceeds(t) \/ LookFails(t)
    \/ CheckExpired(t) \/ CheckBlock(t) \/ CheckFinds(t)
    \/ ResumeAll(t) \/ CatchUp(t)

Done == time = MaxTick /\ UNCHANGED vars

Next == TickInterrupt \/ (\E t \in Tasks : Task(t) \/ Event(t)) \/ Done

Spec == Init /\ [][Next]_vars

-----------------------------------------------------------------------------
(* Properties.                                                              *)

ClockOK ==
    /\ count \in 0 .. MaxDelay /\ next \in 0 .. MaxDelay
    /\ turn \in Nat /\ overflows \in Nat /\ turn = overflows * TickRange
    /\ time \in Nat /\ pended \in Nat

ListsOK ==
    /\ list \in [Tasks -> {"ready", "delayed", "overflow", "forever"}]
    /\ value \in [Tasks -> 0 .. MaxDelay]
    /\ waiting \in [Tasks -> BOOLEAN]
    /\ due \in [Tasks -> Nat]
    /\ pendingReady \subseteq Tasks

CallsOK ==
    /\ holder \in Tasks \cup {None} /\ catching \in BOOLEAN
    /\ pc \in [Tasks -> {"run", "delay", "until", "look", "check", "resume"}]
    /\ after \in [Tasks -> {"run", "look"}]
    /\ arg \in [Tasks -> 0 .. MaxDelay]
    /\ previous \in [Tasks -> 0 .. MaxDelay]
    /\ timeout \in [Tasks -> [at : 0 .. MaxDelay, overflows : Nat]]
    /\ asked \in [Tasks -> Nat]

\* Every variable has its type: times to wait and to wake are tick counts,
\* and the overflows counted are those there were.
TypeOK == ClockOK /\ ListsOK /\ CallsOK

\* No tick is lost while the scheduler is suspended.
NoTickLost == time = Tick + pended

\* The list a task is on and its tick count give the true time at which it is
\* to wake, and that time has not passed: no task sleeps beyond it, whatever
\* overflows and however many ticks were made up for.  In particular the
\* delayed list is empty when the lists are switched.
NoneOverslept ==
    \A t \in Tasks :
        /\ list[t] = "delayed" => due[t] = turn + value[t] /\ Tick < due[t]
        /\ list[t] = "overflow" => due[t] = turn + TickRange + value[t]

\* xNextTaskUnblockTime, by which most ticks skip the list, is never later
\* than the first task of the list.
NextIsEarliest == \A t \in On("delayed") : next <= value[t]

\* A call asks for at least one tick, also when it begins to look again, and
\* pended ticks are being made up for only if there are some.
CallsProper ==
    /\ \A t \in Tasks : pc[t] # "run" \/ after[t] = "look" => arg[t] >= 1
    /\ catching => pended > 0

\* The inductive invariant.
IInv == TypeOK /\ NoTickLost /\ NoneOverslept /\ NextIsEarliest /\ CallsProper

\* A tick wakes a task at the tick it is due, not before.
WokenOnTime ==
    [][\A t \in Tasks :
          (/\ list[t] \in {"delayed", "overflow"} /\ list'[t] = "ready"
           /\ Tick' # Tick) => Tick' = due[t]]_vars

\* xTaskDelayUntil lets the task run through only if its time has come, and
\* otherwise makes it wake one increment after the previous time.
PeriodKept ==
    [][\A t \in Periodics :
          (pc[t] = "until" /\ pc'[t] = "resume") =>
              IF asked'[t] > Tick
                THEN /\ list'[t] \in {"delayed", "overflow"}
                     /\ due'[t] = asked'[t]
                ELSE list'[t] = "ready"]_vars

\* A wait that is cut short by events and begun again neither ends before
\* the time asked for first nor is prolonged beyond it.
WaitsAsAsked ==
    [][\A t \in Waiters :
          (pc[t] = "check" /\ pc'[t] = "resume") =>
              IF after'[t] = "run" THEN Tick >= asked[t]
              ELSE list'[t] \in {"delayed", "overflow"} =>
                       due'[t] = asked[t]]_vars
=============================================================================
