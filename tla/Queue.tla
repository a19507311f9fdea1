------------------------------- MODULE Queue --------------------------------
(***************************************************************************)
(* A FreeRTOS queue (queue.c): tasks and interrupt handlers send to,       *)
(* receive from and peek at one queue of Length items.                     *)
(*                                                                         *)
(* A call that cannot proceed leaves its critical section, suspends the    *)
(* scheduler, locks the queue, looks again, puts itself on an event list,  *)
(* unlocks the queue and resumes the scheduler.  Handlers run between any  *)
(* two of these steps; while the queue is locked they may not touch the    *)
(* event lists and only count what they did in cTxLock and cRxLock, for    *)
(* prvUnlockQueue to make up for.                                          *)
(*                                                                         *)
(* One action is one critical section, or one call outside any.  Any task  *)
(* that is ready may run: the schedules of the priority scheduler are some *)
(* of these.                                                               *)
(***************************************************************************)
EXTENDS Integers, Sequences, FiniteSets

CONSTANTS
    Tasks,      \* the tasks that use the queue
    Prio,       \* their priorities
    Calls,      \* for each task the calls it makes: {"back", "front",
                \* "overwrite", "recv", "peek", "reset"}
    Waits,      \* values of xTicksToWait: subset of {"zero", "some", "max"}
    IsrCalls,   \* the calls of interrupt handlers, of the same kinds but "peek"
    Items,      \* what is sent
    Length,     \* uxLength
    Nobody      \* the scheduler is running

ASSUME QueueConstants ==
    /\ IsFiniteSet(Tasks) /\ Nobody \notin Tasks
    /\ Prio \in [Tasks -> Nat]
    /\ Calls \in [Tasks ->
          SUBSET {"back", "front", "overwrite", "recv", "peek", "reset"}]
    /\ Waits \subseteq {"zero", "some", "max"}
    /\ IsrCalls \subseteq {"back", "front", "overwrite", "recv"}
    /\ Items # {}
    /\ Length \in Nat \ {0}
    \* configASSERT: queueOVERWRITE needs a queue of one item.
    /\ Length > 1 => "overwrite" \notin IsrCalls \cup UNION {Calls[t] : t \in Tasks}

VARIABLES
    store,      \* the storage area, one slot per item
    writeTo,    \* slot of pcWriteTo
    readFrom,   \* slot of pcReadFrom, the last one read
    waiting,    \* uxMessagesWaiting
    cTxLock, cRxLock,
    toSend,     \* tasks on xTasksWaitingToSend
    toReceive,  \* tasks on xTasksWaitingToReceive
    susp,       \* the task that suspended the scheduler, or Nobody
    pc,         \* where each task stands in its call
    call,       \* its call: what it does, the item, xTicksToWait
    late,       \* its timeout expired while it was blocked
    got         \* what it received last

data == <<store, writeTo, readFrom, waiting>>
locks == <<cTxLock, cRxLock>>
lists == <<toSend, toReceive>>
vars == <<store, writeTo, readFrom, waiting, cTxLock, cRxLock, toSend,
          toReceive, susp, pc, call, late, got>>

Slots == 0 .. Length - 1
queueUNLOCKED == -1
queueLOCKED_UNMODIFIED == 0
Puts == {"back", "front", "overwrite"}

CallRecord == [do : {"back", "front", "overwrite", "recv", "peek", "reset"},
               item : Items, wait : {"zero", "some", "max"}]

AnyItem == CHOOSE x \in Items : TRUE
NoCall == [do |-> "recv", item |-> AnyItem, wait |-> "zero"]

\* xQueueGenericReset on a new queue.
Init ==
    /\ store = [s \in Slots |-> AnyItem]
    /\ writeTo = 0 /\ readFrom = Length - 1 /\ waiting = 0
    /\ cTxLock = queueUNLOCKED /\ cRxLock = queueUNLOCKED
    /\ toSend = {} /\ toReceive = {}
    /\ susp = Nobody
    /\ pc = [t \in Tasks |-> "idle"]
    /\ call = [t \in Tasks |-> NoCall]
    /\ late = [t \in Tasks |-> FALSE]
    /\ got = [t \in Tasks |-> AnyItem]

-----------------------------------------------------------------------------
(* The storage area.                                                        *)

Up(s) == IF s = Length - 1 THEN 0 ELSE s + 1

Down(s) == IF s = 0 THEN Length - 1 ELSE s - 1

\* prvCopyDataToQueue.
CopyIn(x, position) ==
    \/ /\ position = "back"
       /\ store' = [store EXCEPT ![writeTo] = x]
       /\ writeTo' = Up(writeTo)
       /\ waiting' = waiting + 1
       /\ UNCHANGED readFrom
    \/ /\ position # "back"
       /\ store' = [store EXCEPT ![readFrom] = x]
       /\ readFrom' = Down(readFrom)
       /\ waiting' = IF position = "overwrite" /\ waiting > 0
                       THEN waiting ELSE waiting + 1
       /\ UNCHANGED writeTo

\* prvCopyDataFromQueue and the decrement that follows it.
CopyOut ==
    /\ readFrom' = Up(readFrom)
    /\ waiting' = waiting - 1
    /\ UNCHANGED <<store, writeTo>>

\* The item prvCopyDataFromQueue copies.
Oldest == store[Up(readFrom)]

\* Faulty HasRoom: one item too many.
HasRoomForOneMore(position) == waiting <= Length

\* The test of xQueueGenericSend and xQueueGenericSendFromISR.
HasRoom(position) == waiting < Length \/ position = "overwrite"

-----------------------------------------------------------------------------
(* The event lists, ordered by priority.                                    *)

\* The sets of n tasks that xTaskRemoveFromEventList, called n times on an
\* event list, may take from it: the highest priorities first.
Woken(list, n) ==
    {w \in SUBSET list :
        /\ Cardinality(w) = IF n < Cardinality(list)
                              THEN n ELSE Cardinality(list)
        /\ \A t \in w, u \in list \ w : Prio[u] <= Prio[t]}

WakeReceivers(n) == \E w \in Woken(toReceive, n) : toReceive' = toReceive \ w
WakeSenders(n) == \E w \in Woken(toSend, n) : toSend' = toSend \ w

-----------------------------------------------------------------------------
(* A call by task t.                                                        *)

\* t has the processor: it suspended the scheduler, or it is ready and
\* nobody did.
Runs(t) == susp = t \/ (susp = Nobody /\ t \notin toSend \cup toReceive)

At(t, where) == Runs(t) /\ pc[t] = where
Goto(t, where) == pc' = [pc EXCEPT ![t] = where] /\ UNCHANGED <<call, late>>

\* The call returns and its arguments and TimeOut_t are gone.
Return(t) ==
    /\ pc' = [pc EXCEPT ![t] = "idle"]
    /\ call' = [call EXCEPT ![t] = NoCall]
    /\ late' = [late EXCEPT ![t] = FALSE]

GotoOrReturn(t, return, where) == IF return THEN Return(t) ELSE Goto(t, where)

Begin(t) ==
    /\ At(t, "idle")
    /\ \E d \in Calls[t], x \in Items, w \in Waits :
         /\ d \notin Puts => x = AnyItem
         /\ call' = [call EXCEPT ![t] = [do |-> d, item |-> x, wait |-> w]]
    /\ pc' = [pc EXCEPT ![t] = "try"]
    /\ UNCHANGED <<data, locks, lists, susp, late, got>>

\* xQueueGenericSend, first critical section, with room: copy and wake.
TrySend(t) ==
    /\ At(t, "try") /\ call[t].do \in Puts /\ HasRoom(call[t].do)
    /\ CopyIn(call[t].item, call[t].do)
    /\ WakeReceivers(1)
    /\ Return(t)
    /\ UNCHANGED <<locks, toSend, susp, got>>

\* xQueueReceive, first critical section, with an item: copy and wake.
TryReceive(t) ==
    /\ At(t, "try") /\ call[t].do = "recv" /\ waiting > 0
    /\ got' = [got EXCEPT ![t] = Oldest]
    /\ CopyOut
    /\ WakeSenders(1)
    /\ Return(t)
    /\ UNCHANGED <<locks, toReceive, susp>>

\* xQueuePeek, first critical section, with an item: pcReadFrom is put back
\* and another task waiting for the data is woken.
TryPeek(t) ==
    /\ At(t, "try") /\ call[t].do = "peek" /\ waiting > 0
    /\ got' = [got EXCEPT ![t] = Oldest]
    /\ WakeReceivers(1)
    /\ Return(t)
    /\ UNCHANGED <<data, locks, toSend, susp>>

\* Faulty TryReset: nobody is woken.
TryResetQuietly(t) ==
    /\ At(t, "try") /\ call[t].do = "reset"
    /\ waiting' = 0 /\ writeTo' = 0 /\ readFrom' = Length - 1
    /\ cTxLock' = queueUNLOCKED /\ cRxLock' = queueUNLOCKED
    /\ Return(t)
    /\ UNCHANGED <<store, toSend, toReceive, susp, got>>

\* Faulty TryReset: the place to read from is left as it is.
TryResetHalf(t) ==
    /\ At(t, "try") /\ call[t].do = "reset"
    /\ waiting' = 0 /\ writeTo' = 0 /\ UNCHANGED readFrom
    /\ cTxLock' = queueUNLOCKED /\ cRxLock' = queueUNLOCKED
    /\ WakeSenders(1)
    /\ Return(t)
    /\ UNCHANGED <<store, toReceive, susp, got>>

\* xQueueGenericReset of a queue in use: the items are gone, and one of the
\* tasks that wait to send is woken.
TryReset(t) ==
    /\ At(t, "try") /\ call[t].do = "reset"
    /\ waiting' = 0 /\ writeTo' = 0 /\ readFrom' = Length - 1
    /\ cTxLock' = queueUNLOCKED /\ cRxLock' = queueUNLOCKED
    /\ WakeSenders(1)
    /\ Return(t)
    /\ UNCHANGED <<store, toReceive, susp, got>>

\* prvIsQueueFull, prvIsQueueEmpty: the call cannot proceed.
CannotProceed(t) ==
    IF call[t].do \in Puts THEN waiting = Length ELSE waiting = 0

\* The first critical section when the call cannot proceed: errQUEUE_FULL or
\* errQUEUE_EMPTY if it may not wait.
TryFails(t) ==
    /\ At(t, "try") /\ call[t].do # "reset"
    /\ IF call[t].do \in Puts THEN ~HasRoom(call[t].do) ELSE waiting = 0
    /\ GotoOrReturn(t, call[t].wait = "zero", "suspend")
    /\ UNCHANGED <<data, locks, lists, susp, got>>

\* vTaskSuspendAll.
SuspendAll(t) ==
    /\ At(t, "suspend")
    /\ susp' = t
    /\ Goto(t, "lock")
    /\ UNCHANGED <<data, locks, lists, got>>

\* prvLockQueue.
LockQueue(t) ==
    /\ At(t, "lock")
    /\ cRxLock' = IF cRxLock = queueUNLOCKED
                    THEN queueLOCKED_UNMODIFIED ELSE cRxLock
    /\ cTxLock' = IF cTxLock = queueUNLOCKED
                    THEN queueLOCKED_UNMODIFIED ELSE cTxLock
    /\ Goto(t, "check")
    /\ UNCHANGED <<data, lists, susp, got>>

\* xTaskCheckForTimeOut says no.  Time is not modelled: a finite timeout may
\* expire at any moment, and has expired once the tick woke the task.
NotExpired(t) ==
    /\ At(t, "check")
    /\ ~late[t]
    /\ Goto(t, "test")
    /\ UNCHANGED <<data, locks, lists, susp, got>>

\* xTaskCheckForTimeOut says yes, and leaves no ticks to wait.
Expired(t) ==
    /\ At(t, "check")
    /\ call[t].wait = "some"
    /\ call' = [call EXCEPT ![t].wait = "zero"]
    /\ late' = [late EXCEPT ![t] = TRUE]
    /\ pc' = [pc EXCEPT ![t] = "unlockTx"]
    /\ UNCHANGED <<data, locks, lists, susp, got>>

\* Faulty Test: the task blocks without looking again.
TestNothing(t) ==
    /\ At(t, "test") /\ Goto(t, "place")
    /\ UNCHANGED <<data, locks, lists, susp, got>>

\* The second look: block if the call still cannot proceed.
Test(t) ==
    /\ At(t, "test")
    /\ Goto(t, IF CannotProceed(t) THEN "place" ELSE "unlockTx")
    /\ UNCHANGED <<data, locks, lists, susp, got>>

\* vTaskPlaceOnEventList.
Place(t) ==
    /\ At(t, "place")
    /\ IF call[t].do \in Puts
         THEN toSend' = toSend \cup {t} /\ UNCHANGED toReceive
         ELSE toReceive' = toReceive \cup {t} /\ UNCHANGED toSend
    /\ Goto(t, "unlockTx")
    /\ UNCHANGED <<data, locks, susp, got>>

\* Faulty UnlockTx: what was counted while locked is forgotten.
UnlockTxForgets(t) ==
    /\ At(t, "unlockTx")
    /\ cTxLock' = queueUNLOCKED /\ Goto(t, "unlockRx")
    /\ UNCHANGED <<data, cRxLock, lists, susp, got>>

\* prvUnlockQueue, first half: a receiver is woken for each item sent while
\* the queue was locked.
UnlockTx(t) ==
    /\ At(t, "unlockTx")
    /\ IF cTxLock > queueLOCKED_UNMODIFIED
         THEN WakeReceivers(cTxLock) ELSE UNCHANGED toReceive
    /\ cTxLock' = queueUNLOCKED
    /\ Goto(t, "unlockRx")
    /\ UNCHANGED <<data, cRxLock, toSend, susp, got>>

\* Faulty UnlockRx: the counter is left as it is.
UnlockRxLeaves(t) ==
    /\ At(t, "unlockRx") /\ Goto(t, "resume")
    /\ UNCHANGED <<data, locks, lists, susp, got>>

\* Faulty UnlockRx: one sender, however many items were received.
UnlockRxOnce(t) ==
    /\ At(t, "unlockRx")
    /\ IF cRxLock > queueLOCKED_UNMODIFIED
         THEN WakeSenders(1) ELSE UNCHANGED toSend
    /\ cRxLock' = queueUNLOCKED
    /\ Goto(t, "resume")
    /\ UNCHANGED <<data, cTxLock, toReceive, susp, got>>

\* prvUnlockQueue, second half: a sender for each item received.
UnlockRx(t) ==
    /\ At(t, "unlockRx")
    /\ IF cRxLock > queueLOCKED_UNMODIFIED
         THEN WakeSenders(cRxLock) ELSE UNCHANGED toSend
    /\ cRxLock' = queueUNLOCKED
    /\ Goto(t, "resume")
    /\ UNCHANGED <<data, cTxLock, toReceive, susp, got>>

\* xTaskResumeAll: woken tasks become ready, and t yields if it is blocked.
\* An expired send returns errQUEUE_FULL, an expired receive looks again.
ResumeAll(t) ==
    /\ At(t, "resume")
    /\ susp' = Nobody
    /\ GotoOrReturn(t, late[t] /\ call[t].do \in Puts,
                    IF late[t] THEN "lastLook" ELSE "try")
    /\ UNCHANGED <<data, locks, lists, got>>

\* prvIsQueueEmpty after the timeout of a receive.
LastLook(t) ==
    /\ At(t, "lastLook")
    /\ GotoOrReturn(t, waiting = 0, "try")
    /\ UNCHANGED <<data, locks, lists, susp, got>>

Step(t) ==
    \/ TrySend(t) \/ TryReceive(t) \/ TryPeek(t) \/ TryReset(t)
    \/ TryFails(t)
    \/ SuspendAll(t) \/ LockQueue(t) \/ NotExpired(t) \/ Expired(t)
    \/ Test(t) \/ Place(t) \/ UnlockTx(t) \/ UnlockRx(t)
    \/ ResumeAll(t) \/ LastLook(t)

-----------------------------------------------------------------------------
(* Interrupts.                                                              *)

\* Faulty Tick: the wait starts afresh whenever it ends.
TickRestarts(t) ==
    /\ susp = Nobody
    /\ t \in toSend \cup toReceive /\ call[t].wait = "some"
    /\ toSend' = toSend \ {t} /\ toReceive' = toReceive \ {t}
    /\ UNCHANGED <<data, locks, susp, pc, call, late, got>>

\* xTaskIncrementTick: the timeout of a blocked task expires.  Ticks are
\* held back while the scheduler is suspended.
Tick(t) ==
    /\ susp = Nobody
    /\ t \in toSend \cup toReceive /\ call[t].wait = "some"
    /\ toSend' = toSend \ {t} /\ toReceive' = toReceive \ {t}
    /\ late' = [late EXCEPT ![t] = TRUE]
    /\ UNCHANGED <<data, locks, susp, pc, call, got>>

\* prvIncrementQueueTxLock, prvIncrementQueueRxLock: never beyond the number
\* of tasks, since no more can be waiting.
Increment(lock) == IF lock < Cardinality(Tasks) THEN lock + 1 ELSE lock

\* xQueueGenericSendFromISR.
SendFromISR(x, position) ==
    /\ position \in IsrCalls /\ HasRoom(position)
    /\ CopyIn(x, position)
    /\ IF cTxLock = queueUNLOCKED
         THEN WakeReceivers(1) /\ UNCHANGED cTxLock
         ELSE cTxLock' = Increment(cTxLock) /\ UNCHANGED toReceive
    /\ UNCHANGED <<cRxLock, toSend, susp, pc, call, late, got>>

\* Faulty ReceiveFromISR: nothing is counted while the queue is locked.
ReceiveUncounted ==
    /\ "recv" \in IsrCalls /\ waiting > 0
    /\ CopyOut
    /\ IF cRxLock = queueUNLOCKED THEN WakeSenders(1) ELSE UNCHANGED toSend
    /\ UNCHANGED <<locks, toReceive, susp, pc, call, late, got>>

\* xQueueReceiveFromISR.
ReceiveFromISR ==
    /\ "recv" \in IsrCalls /\ waiting > 0
    /\ CopyOut
    /\ IF cRxLock = queueUNLOCKED
         THEN WakeSenders(1) /\ UNCHANGED cRxLock
         ELSE cRxLock' = Increment(cRxLock) /\ UNCHANGED toSend
    /\ UNCHANGED <<cTxLock, toReceive, susp, pc, call, late, got>>

Next ==
    \/ \E t \in Tasks : Begin(t) \/ Step(t) \/ Tick(t)
    \/ \E x \in Items, position \in Puts : SendFromISR(x, position)
    \/ ReceiveFromISR

\* Every task that is ready again and again is run, and a finite timeout
\* expires, in the end, however often the wait is restarted.
Fairness ==
    \A t \in Tasks :
        SF_vars(Step(t)) /\ SF_vars(Expired(t) \/ Tick(t))

Spec == Init /\ [][Next]_vars /\ Fairness

-----------------------------------------------------------------------------
(* Properties.                                                              *)

\* Every variable has its type.
TypeOK ==
    /\ store \in [Slots -> Items]
    /\ writeTo \in Slots /\ readFrom \in Slots
    /\ waiting \in 0 .. Length
    /\ cTxLock \in -1 .. Cardinality(Tasks)
    /\ cRxLock \in -1 .. Cardinality(Tasks)
    /\ toSend \subseteq Tasks /\ toReceive \subseteq Tasks
    /\ susp \in Tasks \cup {Nobody}
    /\ pc \in [Tasks -> {"idle", "try", "suspend", "lock", "check", "test",
                         "place", "unlockTx", "unlockRx", "resume",
                         "lastLook"}]
    /\ call \in [Tasks -> CallRecord]
    /\ late \in [Tasks -> BOOLEAN]
    /\ got \in [Tasks -> Items]

\* The items of the queue, oldest first, as the storage area holds them.
Contents == [k \in 1 .. waiting |-> store[(readFrom + k) % Length]]

\* A task that waits to receive while there is an item was not forgotten:
\* another receiver has been woken and is about to take the item.
NoForgottenReceiver ==
    (susp = Nobody /\ waiting > 0 /\ toReceive # {}) =>
        \E t \in Tasks \ toReceive :
            pc[t] = "try" /\ call[t].do \in {"recv", "peek"}

\* Nor was a task that waits to send while there is room.
NoForgottenSender ==
    (susp = Nobody /\ waiting < Length /\ toSend # {}) =>
        \E t \in Tasks \ toSend : pc[t] = "try" /\ call[t].do \in Puts

\* A reset wakes one sender although it empties every slot.  That is enough
\* to keep the queue moving: it is never empty while all that wait to send
\* were forgotten, and the next receive wakes the next of them.
EmptyQueueWakesSender ==
    (susp = Nobody /\ waiting = 0 /\ toSend # {}) =>
        \E t \in Tasks \ toSend : pc[t] = "try" /\ call[t].do \in Puts

\* The queue is locked only while the scheduler is suspended, so that no
\* task ever finds it locked, and a lock left behind is impossible.
LockedOnlyWhileSuspended ==
    (cTxLock # queueUNLOCKED \/ cRxLock # queueUNLOCKED) => susp # Nobody

\* No task is forgotten on an event list, whatever interrupt handlers did while
\* the queue was locked, and no call leaves it locked.
NobodyForgotten ==
    NoForgottenReceiver /\ EmptyQueueWakesSender /\ LockedOnlyWhileSuspended

\* No task resets the queue, or there is one slot to reset.
NoReset == Length = 1 \/ \A t \in Tasks : "reset" \notin Calls[t]

\* Where no reset empties more slots than it wakes senders, a task that waits
\* to send while there is room was not forgotten, whatever interrupt handlers
\* did while the queue was locked: another sender was woken and is about to
\* try again.
NoSenderForgotten == NoReset => NoForgottenSender

\* A call with a finite xTicksToWait returns.
FiniteWaitReturns ==
    \A t \in Tasks :
        (pc[t] # "idle" /\ call[t].wait = "some") ~> pc[t] = "idle"

\* A receiver is not left on the event list while items are there.
WaitingReceiverServed ==
    (waiting > 0 /\ toReceive # {}) ~> (waiting = 0 \/ toReceive = {})
=============================================================================
