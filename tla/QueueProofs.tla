---------------------------- MODULE QueueProofs -----------------------------
(***************************************************************************)
(* Theorems about Queue, for every set of tasks, every assignment of calls *)
(* to tasks and handlers, and every length.  The inductive invariant says  *)
(* who will act on an item or a free slot without being woken: the tasks   *)
(* that will try again, and those that prvUnlockQueue is going to wake for *)
(* what was counted while the queue was locked.                            *)
(***************************************************************************)
EXTENDS Queue, FiniteSetTheorems, SequenceTheorems, TLAPS

(* The inductive invariant.                                                 *)

\* Between suspending and resuming the scheduler.
Suspended == {"lock", "check", "test", "place", "unlockTx", "unlockRx", "resume"}

\* The task that has suspended the scheduler is in the middle of a call that
\* could not proceed.
Places ==
    /\ \A t \in Tasks : pc[t] \in Suspended <=> susp = t
    /\ \A t \in Tasks : pc[t] # "idle" => call[t].do \in Calls[t]
    /\ \A t \in Tasks : pc[t] \in Suspended \cup {"suspend", "lastLook"} =>
                          call[t].do # "reset"
    /\ \A t \in Tasks : pc[t] \in {"test", "place"} => ~late[t]

\* Each half of the queue is locked from prvLockQueue to its prvUnlockQueue.
Locks ==
    /\ cTxLock # queueUNLOCKED <=>
         \E t \in Tasks : pc[t] \in {"check", "test", "place", "unlockTx"}
    /\ cRxLock # queueUNLOCKED <=>
         \E t \in Tasks : pc[t] \in {"check", "test", "place", "unlockTx", "unlockRx"}

Receives(t) == call[t].do \in {"recv", "peek"}
Sends(t) == call[t].do \in Puts

\* Once it runs, the task tries again.
Retries(t) ==
    pc[t] = "try" \/ (pc[t] \in {"unlockTx", "unlockRx", "resume"} /\ ~late[t])

\* A task on an event list tries again when it is woken.
OnLists ==
    /\ \A t \in toReceive : Receives(t) /\ Retries(t) /\ ~late[t]
    /\ \A t \in toSend : Sends(t) /\ Retries(t) /\ ~late[t]

\* The tasks that will try to receive, or to send, without being woken.
Receivers == {t \in Tasks \ toReceive : Receives(t) /\ Retries(t)}
Senders == {t \in Tasks \ toSend : Sends(t) /\ Retries(t)}

\* The tasks of a set, with those to be woken for a lock count, are as many
\* as n; or the count is so high that all will be woken.
Enough(n, set, lock) ==
    \/ n <= Cardinality(set) + (IF lock > 0 THEN lock ELSE 0)
    \/ lock >= Cardinality(Tasks)

\* Somebody waits to receive, or is about to.
WaitToReceive == toReceive # {} \/ \E t \in Tasks : pc[t] = "place" /\ Receives(t)
WaitToSend == toSend # {} \/ \E t \in Tasks : pc[t] = "place" /\ Sends(t)

\* While anybody waits to receive, each item has a task that will take it or
\* will pass the wake-up on.
ItemsHaveTakers == WaitToReceive => Enough(waiting, Receivers, cTxLock)

\* While anybody waits to send, an empty queue has a task that will fill it.
EmptyHasSender == WaitToSend /\ waiting = 0 => Senders # {} \/ cRxLock > 0

QInv == TypeOK /\ Places /\ Locks /\ OnLists /\ ItemsHaveTakers /\ EmptyHasSender

\* Where no reset empties more slots than it wakes senders, each free slot has
\* a task that will fill it.
RoomHasSenders ==
    NoReset /\ WaitToSend => Enough(Length - waiting, Senders, cRxLock)

\* The slots between the two places hold the items.
RingOK == writeTo = Up((readFrom + waiting) % Length)

-----------------------------------------------------------------------------
(* Counting tasks.                                                          *)

\* The tasks are finitely many, and so are those of any set of them.
LEMMA TasksFinite ==
    /\ Cardinality(Tasks) \in Nat
    /\ \A s \in SUBSET Tasks :
         /\ IsFiniteSet(s) /\ Cardinality(s) \in Nat
         /\ Cardinality(s) <= Cardinality(Tasks)
         /\ s # {} => Cardinality(s) > 0
         /\ s # Tasks => Cardinality(s) < Cardinality(Tasks)
<1>1. IsFiniteSet(Tasks) /\ Cardinality(Tasks) \in Nat
  BY FS_CardinalityType, QueueConstants
<1>2. ASSUME NEW s \in SUBSET Tasks
      PROVE /\ IsFiniteSet(s) /\ Cardinality(s) \in Nat
            /\ Cardinality(s) <= Cardinality(Tasks)
            /\ s # {} => Cardinality(s) > 0
            /\ s # Tasks => Cardinality(s) < Cardinality(Tasks)
  <2>1. IsFiniteSet(s) /\ Cardinality(s) <= Cardinality(Tasks)
        /\ (Cardinality(s) = Cardinality(Tasks) => s = Tasks)
    BY <1>1, FS_Subset
  <2>2. Cardinality(s) \in Nat BY <2>1, FS_CardinalityType
  <2>3. s # {} => Cardinality(s) # 0 BY <2>1, FS_EmptySet
  <2> QED BY <1>1, <2>1, <2>2, <2>3
<1> QED BY <1>1, <1>2

\* n calls of xTaskRemoveFromEventList take n tasks from an event list, or
\* leave it empty.
LEMMA WokenIs ==
    ASSUME NEW list \in SUBSET Tasks, NEW n \in Nat, NEW w \in Woken(list, n)
    PROVE  /\ w \in SUBSET list /\ w \in SUBSET Tasks
           /\ list \ w # {} => Cardinality(w) = n
<1>1. w \in SUBSET list /\ w \in SUBSET Tasks BY DEF Woken
<1>2. ASSUME list \ w # {} PROVE Cardinality(w) = n
  <2>1. IsFiniteSet(list) BY TasksFinite
  <2>2. Cardinality(w) = Cardinality(list) => w = list
    BY <1>1, <2>1, FS_Subset
  <2> QED BY <1>2, <2>2 DEF Woken
<1> QED BY <1>1, <1>2

\* More tasks, or a higher count, are enough for no more items.
LEMMA EnoughGrows ==
    ASSUME NEW n \in Int, NEW m \in Int, m <= n,
           NEW A \in SUBSET Tasks, NEW B \in SUBSET Tasks, A \subseteq B,
           NEW j \in Int, NEW k \in Int, j <= k,
           Enough(n, A, j)
    PROVE  Enough(m, B, k)
<1>1. Cardinality(A) <= Cardinality(B)
  BY TasksFinite, FS_Subset
<1> QED BY <1>1, TasksFinite DEF Enough

\* A task that goes when an item goes leaves enough.
LEMMA EnoughLess ==
    ASSUME NEW n \in Int, NEW A \in SUBSET Tasks, NEW t \in Tasks,
           NEW j \in Int, Enough(n, A, j)
    PROVE  Enough(n - 1, A \ {t}, j)
<1>1. CASE t \in A
  <2>1. Cardinality(A \ {t}) = Cardinality(A) - 1
    BY <1>1, TasksFinite, FS_RemoveElement
  <2> QED BY <2>1, TasksFinite DEF Enough
<1>2. CASE t \notin A
  <2>1. Cardinality(A \ {t}) = Cardinality(A) /\ Cardinality(A) \in Nat
    <3>1. A \ {t} = A BY <1>2
    <3> QED BY <3>1, TasksFinite
  <2> QED BY <2>1, TasksFinite DEF Enough
<1> QED BY <1>1, <1>2

\* prvIncrementQueueTxLock counts one more, or so many that all are woken.
LEMMA EnoughCounts ==
    ASSUME NEW n \in Int, NEW A \in SUBSET Tasks,
           NEW j \in 0 .. Cardinality(Tasks), Enough(n, A, j)
    PROVE  Enough(n + 1, A, Increment(j))
BY TasksFinite DEF Enough, Increment

\* Waking as many as were counted, or one, leaves enough if some still wait.
LEMMA EnoughWakes ==
    ASSUME NEW n \in Int, NEW A \in SUBSET Tasks, NEW list \in SUBSET Tasks,
           A \cap list = {}, NEW j \in -1 .. Cardinality(Tasks),
           NEW k \in Nat, NEW w \in Woken(list, k), list \ w # {},
           NEW B \in SUBSET Tasks, A \cup w \subseteq B,
           Enough(n, A, j), j <= k
    PROVE  Enough(n + k - (IF j > 0 THEN j ELSE 0), B, queueUNLOCKED)
<1>1. w \in SUBSET list /\ Cardinality(w) = k BY WokenIs
<1>2. /\ IsFiniteSet(A) /\ IsFiniteSet(w) /\ IsFiniteSet(B)
      /\ Cardinality(A) \in Nat /\ Cardinality(B) \in Nat
      /\ k < Cardinality(Tasks) /\ Cardinality(Tasks) \in Nat
  BY <1>1, TasksFinite
<1>3. A \cap w = {} BY <1>1
<1>4. Cardinality(A \cup w) = Cardinality(A) + k
  <2>1. Cardinality(A \cup w)
          = Cardinality(A) + Cardinality(w) - Cardinality(A \cap w)
    BY <1>2, FS_Union
  <2>2. Cardinality(A \cap w) = 0 BY <1>3, FS_EmptySet
  <2> QED BY <1>1, <1>2, <2>1, <2>2
<1>5. Cardinality(A \cup w) <= Cardinality(B)
  BY <1>2, FS_Subset
<1> QED BY <1>2, <1>4, <1>5 DEF Enough, queueUNLOCKED

-----------------------------------------------------------------------------
(* Every variable has its type.                                             *)

\* The slots of a storage area: Up and Down stay inside it.
LEMMA SlotsNext ==
    ASSUME NEW s \in Slots
    PROVE  Up(s) \in Slots /\ Down(s) \in Slots
BY QueueConstants DEF Slots, Up, Down

\* CopyIn with room, and CopyOut of a queue that is not empty.
LEMMA CopyTypes ==
    ASSUME TypeOK
    PROVE  /\ \A x \in Items, p \in Puts : HasRoom(p) /\ CopyIn(x, p)
                /\ (p = "overwrite" => Length = 1) =>
                /\ store' \in [Slots -> Items]
                /\ writeTo' \in Slots /\ readFrom' \in Slots
                /\ waiting' \in 1 .. Length
                /\ waiting' = waiting + 1
                   \/ (Length = 1 /\ waiting = 1 /\ waiting' = 1 /\ p = "overwrite")
           /\ CopyOut /\ waiting > 0 =>
                /\ store' \in [Slots -> Items]
                /\ writeTo' \in Slots /\ readFrom' \in Slots
                /\ waiting' \in 0 .. Length /\ waiting' = waiting - 1
<1> USE QueueConstants
<1>1. ASSUME NEW x \in Items, NEW p \in Puts, HasRoom(p), CopyIn(x, p),
             p = "overwrite" => Length = 1
      PROVE  /\ store' \in [Slots -> Items]
             /\ writeTo' \in Slots /\ readFrom' \in Slots
             /\ waiting' \in 1 .. Length
             /\ waiting' = waiting + 1
                \/ (Length = 1 /\ waiting = 1 /\ waiting' = 1 /\ p = "overwrite")
  <2>1. Up(writeTo) \in Slots /\ Down(readFrom) \in Slots
    BY SlotsNext DEF TypeOK
  <2>2. CASE p = "back"
    BY <1>1, <2>1, <2>2 DEF TypeOK, CopyIn, HasRoom
  <2>3. CASE p # "back"
    BY <1>1, <2>1, <2>3 DEF TypeOK, CopyIn, HasRoom
  <2> QED BY <2>2, <2>3
<1>2. ASSUME CopyOut, waiting > 0
      PROVE  /\ store' \in [Slots -> Items]
             /\ writeTo' \in Slots /\ readFrom' \in Slots
             /\ waiting' \in 0 .. Length /\ waiting' = waiting - 1
  <2>1. Up(readFrom) \in Slots BY SlotsNext DEF TypeOK
  <2> QED BY <1>2, <2>1 DEF TypeOK, CopyOut
<1> QED BY <1>1, <1>2

\* What a task does next, and the call that is over.
LEMMA CallTypes ==
    ASSUME TypeOK, NEW t \in Tasks
    PROVE  /\ NoCall \in CallRecord /\ call[t] \in CallRecord
           /\ Return(t) => /\ pc' \in [Tasks -> {"idle", "try", "suspend",
                                "lock", "check", "test", "place", "unlockTx",
                                "unlockRx", "resume", "lastLook"}]
                           /\ call' \in [Tasks -> CallRecord]
                           /\ late' \in [Tasks -> BOOLEAN]
           /\ \A p \in {"try", "suspend", "lock", "check", "test", "place",
                        "unlockTx", "unlockRx", "resume", "lastLook"} :
                Goto(t, p) => /\ pc' \in [Tasks -> {"idle", "try", "suspend",
                                "lock", "check", "test", "place", "unlockTx",
                                "unlockRx", "resume", "lastLook"}]
                              /\ call' \in [Tasks -> CallRecord]
                              /\ late' \in [Tasks -> BOOLEAN]
<1>1. AnyItem \in Items BY QueueConstants DEF AnyItem
<1>2. NoCall \in CallRecord BY <1>1 DEF NoCall, CallRecord
<1> QED BY <1>2 DEF TypeOK, Return, Goto

\* The calls of a task and of a handler, and what the woken sets are.
LEMMA Premises ==
    ASSUME TypeOK, Places
    PROVE  /\ \A t \in Tasks : pc[t] # "idle" /\ call[t].do = "overwrite" => Length = 1
           /\ "overwrite" \in IsrCalls => Length = 1
           /\ \A n \in Nat : WakeReceivers(n) =>
                toReceive' \in SUBSET toReceive /\ toReceive' \in SUBSET Tasks
           /\ \A n \in Nat : WakeSenders(n) =>
                toSend' \in SUBSET toSend /\ toSend' \in SUBSET Tasks
<1>1. ASSUME NEW t \in Tasks, pc[t] # "idle", call[t].do = "overwrite"
      PROVE  Length = 1
  <2>1. call[t].do \in UNION {Calls[u] : u \in Tasks} BY <1>1 DEF Places
  <2> QED BY <1>1, <2>1, QueueConstants
<1>2. "overwrite" \in IsrCalls => Length = 1 BY QueueConstants
<1> QED BY <1>1, <1>2 DEF WakeReceivers, WakeSenders, TypeOK

\* Every step keeps the types.
LEMMA TypeStep == TypeOK /\ Places /\ [Next]_vars => TypeOK'
<1> SUFFICES ASSUME TypeOK, Places, [Next]_vars PROVE TypeOK' OBVIOUS
<1> USE QueueConstants, TasksFinite, Premises DEF data, locks, lists
<1>1. CASE UNCHANGED vars BY <1>1 DEF vars, TypeOK
<1>2. ASSUME NEW t \in Tasks, Begin(t) PROVE TypeOK'
  <2>1. PICK d \in Calls[t], x \in Items, w \in Waits :
          call' = [call EXCEPT ![t] = [do |-> d, item |-> x, wait |-> w]]
    BY <1>2 DEF Begin
  <2>2. [do |-> d, item |-> x, wait |-> w] \in CallRecord
    BY DEF CallRecord
  <2> QED BY <1>2, <2>1, <2>2 DEF Begin, TypeOK
<1>3. ASSUME NEW t \in Tasks, TrySend(t) PROVE TypeOK'
  <2>1. call[t].item \in Items BY DEF TypeOK, CallRecord
  <2> QED BY <1>3, <2>1, CopyTypes, CallTypes, SMTT(30) DEF TrySend, At, TypeOK
<1>4. ASSUME NEW t \in Tasks, TryReceive(t) PROVE TypeOK'
  <2>1. Oldest \in Items BY SlotsNext DEF Oldest, TypeOK
  <2> QED BY <1>4, <2>1, CopyTypes, CallTypes, SMTT(30) DEF TryReceive, At, TypeOK
<1>5. ASSUME NEW t \in Tasks, TryPeek(t) PROVE TypeOK'
  <2>1. Oldest \in Items BY SlotsNext DEF Oldest, TypeOK
  <2> QED BY <1>5, <2>1, CallTypes, SMTT(30) DEF TryPeek, At, TypeOK
<1>6. ASSUME NEW t \in Tasks, TryReset(t) PROVE TypeOK'
  BY <1>6, CallTypes, SMTT(30) DEF TryReset, At, TypeOK, Slots, queueUNLOCKED
<1>7. ASSUME NEW t \in Tasks, TryFails(t) PROVE TypeOK'
  BY <1>7, CallTypes DEF TryFails, At, TypeOK, GotoOrReturn
<1>8. ASSUME NEW t \in Tasks, SuspendAll(t) PROVE TypeOK'
  BY <1>8, CallTypes DEF SuspendAll, At, TypeOK
<1>9. ASSUME NEW t \in Tasks, LockQueue(t) PROVE TypeOK'
  BY <1>9, CallTypes DEF LockQueue, At, TypeOK, queueUNLOCKED,
        queueLOCKED_UNMODIFIED
<1>10. ASSUME NEW t \in Tasks, NotExpired(t) PROVE TypeOK'
  BY <1>10, CallTypes DEF NotExpired, At, TypeOK
<1>11. ASSUME NEW t \in Tasks, Expired(t) PROVE TypeOK'
  <2>1. [call[t] EXCEPT !.wait = "zero"] \in CallRecord
    BY DEF TypeOK, CallRecord
  <2>2. call' \in [Tasks -> CallRecord] BY <1>11, <2>1 DEF Expired, TypeOK
  <2> QED BY <1>11, <2>2 DEF Expired, At, TypeOK
<1>12. ASSUME NEW t \in Tasks, Test(t) PROVE TypeOK'
  BY <1>12, CallTypes DEF Test, At, TypeOK
<1>13. ASSUME NEW t \in Tasks, Place(t) PROVE TypeOK'
  BY <1>13, CallTypes DEF Place, At, TypeOK
<1>14. ASSUME NEW t \in Tasks, UnlockTx(t) PROVE TypeOK'
  BY <1>14, CallTypes DEF UnlockTx, At, TypeOK, queueUNLOCKED,
        queueLOCKED_UNMODIFIED
<1>15. ASSUME NEW t \in Tasks, UnlockRx(t) PROVE TypeOK'
  BY <1>15, CallTypes DEF UnlockRx, At, TypeOK, queueUNLOCKED,
        queueLOCKED_UNMODIFIED
<1>16. ASSUME NEW t \in Tasks, ResumeAll(t) PROVE TypeOK'
  BY <1>16, CallTypes DEF ResumeAll, At, TypeOK, GotoOrReturn
<1>17. ASSUME NEW t \in Tasks, LastLook(t) PROVE TypeOK'
  BY <1>17, CallTypes DEF LastLook, At, TypeOK, GotoOrReturn
<1>18. ASSUME NEW t \in Tasks, Tick(t) PROVE TypeOK'
  BY <1>18 DEF Tick, TypeOK
<1>19. ASSUME NEW x \in Items, NEW p \in Puts, SendFromISR(x, p) PROVE TypeOK'
  BY <1>19, CopyTypes, SMTT(30) DEF SendFromISR, TypeOK, Increment, queueUNLOCKED
<1>20. ASSUME ReceiveFromISR PROVE TypeOK'
  BY <1>20, CopyTypes, SMTT(30) DEF ReceiveFromISR, TypeOK, Increment, queueUNLOCKED
<1> QED BY <1>1, <1>2, <1>3, <1>4, <1>5, <1>6, <1>7, <1>8, <1>9, <1>10, <1>11,
      <1>12,
           <1>13, <1>14, <1>15, <1>16, <1>17, <1>18, <1>19, <1>20 DEF Next, Step

-----------------------------------------------------------------------------
(* Where the tasks are, and who holds what.                                 *)

\* A task that runs outside the suspended part of a call is ready and has the
\* scheduler running; one inside it is the only one there.
LEMMA Standing ==
    ASSUME TypeOK, Places, NEW t \in Tasks
    PROVE  /\ susp \notin Tasks <=> susp = Nobody
           /\ Runs(t) /\ pc[t] \notin Suspended =>
                /\ susp = Nobody /\ t \notin toSend /\ t \notin toReceive
                /\ \A u \in Tasks : pc[u] \notin Suspended
           /\ Runs(t) /\ pc[t] \in Suspended =>
                /\ susp = t
                /\ \A u \in Tasks \ {t} : pc[u] \notin Suspended
           /\ susp = Nobody => \A u \in Tasks : pc[u] \notin Suspended
BY QueueConstants DEF TypeOK, Places, Runs

\* Every step keeps the places of the tasks.
LEMMA PlacesStep == TypeOK /\ Places /\ [Next]_vars => Places'
<1> SUFFICES ASSUME TypeOK, Places, [Next]_vars PROVE Places' OBVIOUS
<1> USE QueueConstants, Standing DEF data, locks, lists, At, Runs, Goto, Return,
      GotoOrReturn, TypeOK, Places, Suspended
<1>1. CASE UNCHANGED vars BY <1>1 DEF vars
<1>2. ASSUME NEW t \in Tasks, Begin(t) PROVE Places'
  <2>1. PICK d \in Calls[t], x \in Items, w \in Waits :
          call' = [call EXCEPT ![t] = [do |-> d, item |-> x, wait |-> w]]
    BY <1>2 DEF Begin
  <2> QED BY <1>2, <2>1 DEF Begin
<1>3. ASSUME NEW t \in Tasks, TrySend(t) PROVE Places'
  BY <1>3 DEF TrySend
<1>4. ASSUME NEW t \in Tasks, TryReceive(t) PROVE Places'
  BY <1>4 DEF TryReceive
<1>5. ASSUME NEW t \in Tasks, TryPeek(t) PROVE Places'
  BY <1>5 DEF TryPeek
<1>6. ASSUME NEW t \in Tasks, TryReset(t) PROVE Places'
  BY <1>6 DEF TryReset
<1>7. ASSUME NEW t \in Tasks, TryFails(t) PROVE Places'
  BY <1>7 DEF TryFails
<1>8. ASSUME NEW t \in Tasks, SuspendAll(t) PROVE Places'
  BY <1>8 DEF SuspendAll
<1>9. ASSUME NEW t \in Tasks, LockQueue(t) PROVE Places'
  BY <1>9 DEF LockQueue
<1>10. ASSUME NEW t \in Tasks, NotExpired(t) PROVE Places'
  BY <1>10 DEF NotExpired
<1>11. ASSUME NEW t \in Tasks, Expired(t) PROVE Places'
  BY <1>11 DEF Expired
<1>12. ASSUME NEW t \in Tasks, Test(t) PROVE Places'
  BY <1>12 DEF Test
<1>13. ASSUME NEW t \in Tasks, Place(t) PROVE Places'
  BY <1>13 DEF Place
<1>14. ASSUME NEW t \in Tasks, UnlockTx(t) PROVE Places'
  BY <1>14 DEF UnlockTx
<1>15. ASSUME NEW t \in Tasks, UnlockRx(t) PROVE Places'
  BY <1>15 DEF UnlockRx
<1>16. ASSUME NEW t \in Tasks, ResumeAll(t) PROVE Places'
  BY <1>16 DEF ResumeAll
<1>17. ASSUME NEW t \in Tasks, LastLook(t) PROVE Places'
  BY <1>17 DEF LastLook
<1>18. ASSUME NEW t \in Tasks, Tick(t) PROVE Places'
  BY <1>18 DEF Tick
<1>19. ASSUME NEW x \in Items, NEW p \in Puts, SendFromISR(x, p) PROVE Places'
  BY <1>19 DEF SendFromISR
<1>20. ASSUME ReceiveFromISR PROVE Places'
  BY <1>20 DEF ReceiveFromISR
<1> QED BY <1>1, <1>2, <1>3, <1>4, <1>5, <1>6, <1>7, <1>8, <1>9, <1>10, <1>11,
      <1>12,
           <1>13, <1>14, <1>15, <1>16, <1>17, <1>18, <1>19, <1>20 DEF Next, Step

\* Every step keeps the locks where prvLockQueue and prvUnlockQueue put them.
LEMMA LocksStep == TypeOK /\ Places /\ Locks /\ [Next]_vars => Locks'
<1> SUFFICES ASSUME TypeOK, Places, Locks, [Next]_vars PROVE Locks' OBVIOUS
<1> USE QueueConstants, Standing DEF data, locks, lists, At, Runs, Goto, Return,
      GotoOrReturn, TypeOK, Locks, Suspended, queueUNLOCKED,
      queueLOCKED_UNMODIFIED
<1>1. CASE UNCHANGED vars BY <1>1 DEF vars
<1>2. ASSUME NEW t \in Tasks, Begin(t) PROVE Locks'
  BY <1>2 DEF Begin
<1>3. ASSUME NEW t \in Tasks, TrySend(t) PROVE Locks'
  BY <1>3 DEF TrySend
<1>4. ASSUME NEW t \in Tasks, TryReceive(t) PROVE Locks'
  BY <1>4 DEF TryReceive
<1>5. ASSUME NEW t \in Tasks, TryPeek(t) PROVE Locks'
  BY <1>5 DEF TryPeek
<1>6. ASSUME NEW t \in Tasks, TryReset(t) PROVE Locks'
  BY <1>6 DEF TryReset
<1>7. ASSUME NEW t \in Tasks, TryFails(t) PROVE Locks'
  BY <1>7 DEF TryFails
<1>8. ASSUME NEW t \in Tasks, SuspendAll(t) PROVE Locks'
  BY <1>8 DEF SuspendAll
<1>9. ASSUME NEW t \in Tasks, LockQueue(t) PROVE Locks'
  BY <1>9 DEF LockQueue
<1>10. ASSUME NEW t \in Tasks, NotExpired(t) PROVE Locks'
  BY <1>10 DEF NotExpired
<1>11. ASSUME NEW t \in Tasks, Expired(t) PROVE Locks'
  BY <1>11 DEF Expired
<1>12. ASSUME NEW t \in Tasks, Test(t) PROVE Locks'
  BY <1>12 DEF Test
<1>13. ASSUME NEW t \in Tasks, Place(t) PROVE Locks'
  BY <1>13 DEF Place
<1>14. ASSUME NEW t \in Tasks, UnlockTx(t) PROVE Locks'
  BY <1>14 DEF UnlockTx
<1>15. ASSUME NEW t \in Tasks, UnlockRx(t) PROVE Locks'
  BY <1>15 DEF UnlockRx
<1>16. ASSUME NEW t \in Tasks, ResumeAll(t) PROVE Locks'
  BY <1>16 DEF ResumeAll
<1>17. ASSUME NEW t \in Tasks, LastLook(t) PROVE Locks'
  BY <1>17 DEF LastLook
<1>18. ASSUME NEW t \in Tasks, Tick(t) PROVE Locks'
  BY <1>18 DEF Tick
<1>19. ASSUME NEW x \in Items, NEW p \in Puts, SendFromISR(x, p) PROVE Locks'
  BY <1>19, TasksFinite DEF SendFromISR, Increment
<1>20. ASSUME ReceiveFromISR PROVE Locks'
  BY <1>20, TasksFinite DEF ReceiveFromISR, Increment
<1> QED BY <1>1, <1>2, <1>3, <1>4, <1>5, <1>6, <1>7, <1>8, <1>9, <1>10, <1>11,
      <1>12,
           <1>13, <1>14, <1>15, <1>16, <1>17, <1>18, <1>19, <1>20 DEF Next, Step

\* Every step leaves on the event lists only tasks that will try again.
LEMMA OnListsStep == TypeOK /\ Places /\ OnLists /\ [Next]_vars => OnLists'
<1> SUFFICES ASSUME TypeOK, Places, OnLists, [Next]_vars PROVE OnLists' OBVIOUS
<1> USE QueueConstants, Standing, Premises DEF data, locks, lists, At, Runs, Goto,
      Return, GotoOrReturn, TypeOK, OnLists, Suspended, Receives, Sends, Retries
<1>1. CASE UNCHANGED vars BY <1>1 DEF vars
<1>2. ASSUME NEW t \in Tasks, Begin(t) PROVE OnLists'
  <2>1. PICK d \in Calls[t], x \in Items, w \in Waits :
          call' = [call EXCEPT ![t] = [do |-> d, item |-> x, wait |-> w]]
    BY ONLY <1>2 DEF Begin
  <2> QED BY <1>2, <2>1 DEF Begin
<1>3. ASSUME NEW t \in Tasks, TrySend(t) PROVE OnLists'
  BY <1>3 DEF TrySend
<1>4. ASSUME NEW t \in Tasks, TryReceive(t) PROVE OnLists'
  BY <1>4 DEF TryReceive
<1>5. ASSUME NEW t \in Tasks, TryPeek(t) PROVE OnLists'
  BY <1>5 DEF TryPeek
<1>6. ASSUME NEW t \in Tasks, TryReset(t) PROVE OnLists'
  BY <1>6 DEF TryReset
<1>7. ASSUME NEW t \in Tasks, TryFails(t) PROVE OnLists'
  BY <1>7 DEF TryFails
<1>8. ASSUME NEW t \in Tasks, SuspendAll(t) PROVE OnLists'
  BY <1>8 DEF SuspendAll
<1>9. ASSUME NEW t \in Tasks, LockQueue(t) PROVE OnLists'
  BY <1>9 DEF LockQueue
<1>10. ASSUME NEW t \in Tasks, NotExpired(t) PROVE OnLists'
  BY <1>10 DEF NotExpired
<1>11. ASSUME NEW t \in Tasks, Expired(t) PROVE OnLists'
  BY <1>11 DEF Expired
<1>12. ASSUME NEW t \in Tasks, Test(t) PROVE OnLists'
  BY <1>12 DEF Test
<1>13. ASSUME NEW t \in Tasks, Place(t) PROVE OnLists'
  BY <1>13 DEF Place, Places, Puts
<1>14. ASSUME NEW t \in Tasks, UnlockTx(t) PROVE OnLists'
  BY <1>14 DEF UnlockTx, queueLOCKED_UNMODIFIED
<1>15. ASSUME NEW t \in Tasks, UnlockRx(t) PROVE OnLists'
  BY <1>15 DEF UnlockRx, queueLOCKED_UNMODIFIED
<1>16. ASSUME NEW t \in Tasks, ResumeAll(t) PROVE OnLists'
  BY <1>16 DEF ResumeAll
<1>17. ASSUME NEW t \in Tasks, LastLook(t) PROVE OnLists'
  BY <1>17 DEF LastLook
<1>18. ASSUME NEW t \in Tasks, Tick(t) PROVE OnLists'
  BY <1>18 DEF Tick
<1>19. ASSUME NEW x \in Items, NEW p \in Puts, SendFromISR(x, p) PROVE OnLists'
  BY <1>19 DEF SendFromISR
<1>20. ASSUME ReceiveFromISR PROVE OnLists'
  BY <1>20 DEF ReceiveFromISR
<1> QED BY <1>1, <1>2, <1>3, <1>4, <1>5, <1>6, <1>7, <1>8, <1>9, <1>10, <1>11,
      <1>12,
           <1>13, <1>14, <1>15, <1>16, <1>17, <1>18, <1>19, <1>20 DEF Next, Step

-----------------------------------------------------------------------------
(* Items have takers, and free slots have senders.                          *)

\* A step that takes away no taker, and adds no item.
KeepsTakers ==
    /\ waiting' # 0 => Receivers \subseteq Receivers'
    /\ waiting' <= waiting
    /\ waiting' # 0 => cTxLock <= cTxLock'
    /\ WaitToReceive' /\ waiting' # 0 => WaitToReceive

\* A step that takes away no sender, and frees no slot.
KeepsSenders ==
    /\ waiting' # Length => Senders \subseteq Senders'
    /\ waiting' >= waiting
    /\ cRxLock <= cRxLock'
    /\ WaitToSend' /\ waiting' # Length => WaitToSend

\* Such a step keeps the takers enough.
LEMMA TakersKept ==
    TypeOK /\ TypeOK' /\ ItemsHaveTakers /\ KeepsTakers => ItemsHaveTakers'
<1> SUFFICES ASSUME TypeOK, TypeOK', ItemsHaveTakers, KeepsTakers, WaitToReceive'
             PROVE  Enough(waiting', Receivers', cTxLock')
  BY DEF ItemsHaveTakers
<1>0. Receivers \in SUBSET Tasks /\ Receivers' \in SUBSET Tasks
  BY DEF Receivers
<1>1. CASE waiting' = 0 BY <1>0, <1>1, TasksFinite DEF Enough, TypeOK
<1>2. CASE waiting' # 0
  <2>1. Enough(waiting, Receivers, cTxLock) BY <1>2 DEF ItemsHaveTakers, KeepsTakers
  <2>2. /\ waiting \in Int /\ waiting' \in Int /\ cTxLock \in Int /\ cTxLock' \in Int
        /\ waiting' <= waiting /\ cTxLock <= cTxLock' /\ Receivers \subseteq Receivers'
    BY <1>2, TasksFinite DEF KeepsTakers, TypeOK
  <2> QED BY <1>0, <2>1, <2>2, EnoughGrows
<1> QED BY <1>1, <1>2

\* Such a step keeps the senders enough.
LEMMA SendersKept ==
    ASSUME TypeOK, TypeOK', KeepsSenders
    PROVE  /\ EmptyHasSender => EmptyHasSender'
           /\ RoomHasSenders => RoomHasSenders'
<1>0. Senders \in SUBSET Tasks /\ Senders' \in SUBSET Tasks
  BY DEF Senders
<1>1. ASSUME EmptyHasSender PROVE EmptyHasSender'
  <2>1. waiting' = 0 => waiting = 0 /\ waiting' # Length
    BY QueueConstants DEF KeepsSenders, TypeOK
  <2>2. cRxLock > 0 => cRxLock' > 0
    BY TasksFinite DEF KeepsSenders, TypeOK
  <2> QED BY <1>1, <2>1, <2>2 DEF EmptyHasSender, KeepsSenders
<1>2. ASSUME RoomHasSenders, NoReset, WaitToSend'
      PROVE  Enough(Length - waiting', Senders', cRxLock')
  <2>1. CASE waiting' = Length
    BY <1>0, <2>1, TasksFinite, QueueConstants DEF Enough, TypeOK
  <2>2. CASE waiting' # Length
    <3>1. Enough(Length - waiting, Senders, cRxLock)
      BY <1>2, <2>2 DEF RoomHasSenders, KeepsSenders
    <3>2. /\ Length - waiting \in Int /\ Length - waiting' \in Int
          /\ cRxLock \in Int /\ cRxLock' \in Int
          /\ Length - waiting' <= Length - waiting
          /\ cRxLock <= cRxLock' /\ Senders \subseteq Senders'
      BY <2>2, TasksFinite, QueueConstants DEF KeepsSenders, TypeOK
    <3> QED BY <1>0, <3>1, <3>2, EnoughGrows
  <2> QED BY <2>1, <2>2
<1> QED BY <1>1, <1>2 DEF RoomHasSenders, NoReset

\* Only sends, receives and peeks disturb the takers, and the wake-ups that
\* prvUnlockQueue makes up for.
LEMMA QuietForTakers ==
    ASSUME TypeOK, TypeOK', Places, Locks, OnLists
    PROVE  /\ \A t \in Tasks :
                (\/ Begin(t) \/ TryReset(t) \/ TryFails(t) \/ SuspendAll(t)
                 \/ LockQueue(t) \/ NotExpired(t) \/ Expired(t) \/ Test(t)
                 \/ Place(t) \/ UnlockRx(t) \/ ResumeAll(t) \/ LastLook(t)
                 \/ Tick(t)) =>
                  KeepsTakers
           /\ ReceiveFromISR => KeepsTakers
<1> USE QueueConstants, Standing, TasksFinite DEF KeepsTakers, WaitToReceive,
      Receivers, Receives, Sends, Retries, OnLists,
      Suspended, TypeOK, data, locks, lists, At, Goto, Return, GotoOrReturn
<1>1. ASSUME NEW t \in Tasks, Begin(t) PROVE KeepsTakers
  <2>1. PICK d \in Calls[t], x \in Items, w \in Waits :
          call' = [call EXCEPT ![t] = [do |-> d, item |-> x, wait |-> w]]
    BY ONLY <1>1 DEF Begin
  <2> QED BY <1>1, <2>1, SMTT(30) DEF Begin
<1>2. ASSUME NEW t \in Tasks, TryReset(t) PROVE KeepsTakers
  BY <1>2, SMTT(30) DEF TryReset, queueUNLOCKED, Puts
<1>3. ASSUME NEW t \in Tasks, TryFails(t) PROVE KeepsTakers
  BY <1>3, SMTT(30) DEF TryFails, Puts, HasRoom
<1>4. ASSUME NEW t \in Tasks, SuspendAll(t) PROVE KeepsTakers
  BY <1>4, SMTT(30) DEF SuspendAll
<1>5. ASSUME NEW t \in Tasks, LockQueue(t) PROVE KeepsTakers
  BY <1>5, SMTT(30) DEF LockQueue, queueUNLOCKED, queueLOCKED_UNMODIFIED
<1>6. ASSUME NEW t \in Tasks, NotExpired(t) PROVE KeepsTakers
  BY <1>6, SMTT(30) DEF NotExpired
<1>7. ASSUME NEW t \in Tasks, Expired(t) PROVE KeepsTakers
  BY <1>7, SMTT(30) DEF Expired
<1>8. ASSUME NEW t \in Tasks, Test(t) PROVE KeepsTakers
  BY <1>8, SMTT(30) DEF Test, CannotProceed, Puts, Places
<1>9. ASSUME NEW t \in Tasks, Place(t) PROVE KeepsTakers
  BY <1>9, SMTT(30) DEF Place, Puts, Places
<1>10. ASSUME NEW t \in Tasks, UnlockRx(t) PROVE KeepsTakers
  BY <1>10, SMTT(30) DEF UnlockRx, queueUNLOCKED, queueLOCKED_UNMODIFIED
<1>11. ASSUME NEW t \in Tasks, ResumeAll(t) PROVE KeepsTakers
  BY <1>11, SMTT(30) DEF ResumeAll
<1>12. ASSUME NEW t \in Tasks, LastLook(t) PROVE KeepsTakers
  BY <1>12, SMTT(30) DEF LastLook
<1>13. ASSUME NEW t \in Tasks, Tick(t) PROVE KeepsTakers
  BY <1>13, SMTT(30) DEF Tick
<1>14. ASSUME ReceiveFromISR PROVE KeepsTakers
  BY <1>14 DEF ReceiveFromISR, CopyOut
<1> QED BY ONLY <1>1, <1>2, <1>3, <1>4, <1>5, <1>6, <1>7, <1>8, <1>9, <1>10,
      <1>11, <1>12, <1>13, <1>14

\* Only sends, receives and resets disturb the senders, and the wake-ups that
\* prvUnlockQueue makes up for.
LEMMA QuietForSenders ==
    ASSUME TypeOK, TypeOK', Places, Locks, OnLists
    PROVE  /\ \A t \in Tasks :
                (\/ Begin(t) \/ TryPeek(t) \/ TryFails(t) \/ SuspendAll(t)
                 \/ LockQueue(t) \/ NotExpired(t) \/ Expired(t) \/ Test(t)
                 \/ Place(t) \/ UnlockTx(t) \/ ResumeAll(t) \/ LastLook(t)
                 \/ Tick(t)) =>
                  KeepsSenders
           /\ \A x \in Items, p \in Puts : SendFromISR(x, p) => KeepsSenders
<1> USE QueueConstants, Standing, TasksFinite DEF KeepsSenders, WaitToSend,
      Senders, Receives, Sends, Retries, OnLists,
      Suspended, TypeOK, data, locks, lists, At, Goto, Return, GotoOrReturn
<1>1. ASSUME NEW t \in Tasks, Begin(t) PROVE KeepsSenders
  <2>1. PICK d \in Calls[t], x \in Items, w \in Waits :
          call' = [call EXCEPT ![t] = [do |-> d, item |-> x, wait |-> w]]
    BY ONLY <1>1 DEF Begin
  <2> QED BY <1>1, <2>1, SMTT(30) DEF Begin
<1>2. ASSUME NEW t \in Tasks, TryPeek(t) PROVE KeepsSenders
  BY <1>2, SMTT(30) DEF TryPeek, Puts
<1>3. ASSUME NEW t \in Tasks, TryFails(t) PROVE KeepsSenders
  BY <1>3, SMTT(30) DEF TryFails, Puts, HasRoom
<1>4. ASSUME NEW t \in Tasks, SuspendAll(t) PROVE KeepsSenders
  BY <1>4, SMTT(30) DEF SuspendAll
<1>5. ASSUME NEW t \in Tasks, LockQueue(t) PROVE KeepsSenders
  BY <1>5, SMTT(30) DEF LockQueue, queueUNLOCKED, queueLOCKED_UNMODIFIED
<1>6. ASSUME NEW t \in Tasks, NotExpired(t) PROVE KeepsSenders
  BY <1>6, SMTT(30) DEF NotExpired
<1>7. ASSUME NEW t \in Tasks, Expired(t) PROVE KeepsSenders
  BY <1>7, SMTT(30) DEF Expired
<1>8. ASSUME NEW t \in Tasks, Test(t) PROVE KeepsSenders
  BY <1>8, SMTT(30) DEF Test, CannotProceed, Puts, Places
<1>9. ASSUME NEW t \in Tasks, Place(t) PROVE KeepsSenders
  BY <1>9, SMTT(30) DEF Place, Puts, Places
<1>10. ASSUME NEW t \in Tasks, UnlockTx(t) PROVE KeepsSenders
  BY <1>10, SMTT(30) DEF UnlockTx, queueUNLOCKED, queueLOCKED_UNMODIFIED
<1>11. ASSUME NEW t \in Tasks, ResumeAll(t) PROVE KeepsSenders
  BY <1>11, SMTT(30) DEF ResumeAll
<1>12. ASSUME NEW t \in Tasks, LastLook(t) PROVE KeepsSenders
  BY <1>12, SMTT(30) DEF LastLook
<1>13. ASSUME NEW t \in Tasks, Tick(t) PROVE KeepsSenders
  BY <1>13, SMTT(30) DEF Tick
<1>14. ASSUME NEW x \in Items, NEW p \in Puts, SendFromISR(x, p) PROVE KeepsSenders
  BY <1>14 DEF SendFromISR, CopyIn
<1> QED BY ONLY <1>1, <1>2, <1>3, <1>4, <1>5, <1>6, <1>7, <1>8, <1>9, <1>10,
      <1>11, <1>12, <1>13, <1>14

\* While the queue is unlocked nobody is between looking again and blocking.
LEMMA Unlocked ==
    ASSUME TypeOK, Places, Locks
    PROVE  /\ cTxLock = queueUNLOCKED \/ cRxLock = queueUNLOCKED =>
                \A u \in Tasks : pc[u] # "place"
           /\ \A t \in Tasks : Runs(t) /\ pc[t] \notin Suspended =>
                cTxLock = queueUNLOCKED /\ cRxLock = queueUNLOCKED
           /\ \A t \in Tasks : pc[t] = "unlockTx" => cTxLock # queueUNLOCKED
           /\ \A t \in Tasks : pc[t] = "unlockRx" => cRxLock # queueUNLOCKED
<1>1. \A t \in Tasks : Runs(t) /\ pc[t] \notin Suspended =>
         \A u \in Tasks : pc[u] \notin Suspended
  BY Standing
<1> QED BY <1>1 DEF Locks, Suspended

\* Waking receivers: enough for k items more than before, less what was counted.
LEMMA TakersWoken ==
    ASSUME TypeOK, TypeOK',
           NEW k \in Nat, WakeReceivers(k), cTxLock <= k,
           NEW A \in SUBSET Receivers, NEW n \in Int, Enough(n, A, cTxLock),
           A \subseteq Receivers',
           \A u \in toReceive \ toReceive' : (Receives(u) /\ Retries(u))',
           toReceive' # {}, cTxLock' = queueUNLOCKED,
           waiting' <= n + k - (IF cTxLock > 0 THEN cTxLock ELSE 0)
    PROVE  Enough(waiting', Receivers', cTxLock')
<1>1. PICK w \in Woken(toReceive, k) : toReceive' = toReceive \ w
  BY DEF WakeReceivers
<1>2. w \subseteq toReceive /\ toReceive \in SUBSET Tasks
  BY <1>1, WokenIs DEF TypeOK
<1>3. A \cup w \subseteq Receivers' BY <1>1, <1>2 DEF Receivers
<1>4. Receivers' \in SUBSET Tasks /\ A \in SUBSET Tasks /\ A \cap toReceive = {}
  BY DEF Receivers
<1>5. cTxLock \in -1 .. Cardinality(Tasks) BY DEF TypeOK
<1>6. Enough(n + k - (IF cTxLock > 0 THEN cTxLock ELSE 0), Receivers', queueUNLOCKED)
  BY <1>1, <1>2, <1>3, <1>4, <1>5, EnoughWakes
<1>7. /\ waiting' \in Int /\ n + k - (IF cTxLock > 0 THEN cTxLock ELSE 0) \in Int
      /\ queueUNLOCKED \in Int
  BY <1>5, TasksFinite DEF TypeOK, queueUNLOCKED
<1> QED BY <1>4, <1>6, <1>7, EnoughGrows

\* The same for senders.
LEMMA SendersWoken ==
    ASSUME TypeOK, TypeOK',
           NEW k \in Nat, WakeSenders(k), cRxLock <= k,
           Senders \subseteq Senders',
           \A u \in toSend \ toSend' : (Sends(u) /\ Retries(u))',
           toSend' # {}, cRxLock' = queueUNLOCKED
    PROVE  /\ k > 0 => Senders' # {}
           /\ \A n \in Int :
                /\ Enough(n, Senders, cRxLock)
                /\ Length - waiting' <= n + k - (IF cRxLock > 0 THEN cRxLock ELSE 0)
                => Enough(Length - waiting', Senders', cRxLock')
<1>1. PICK w \in Woken(toSend, k) : toSend' = toSend \ w
  BY DEF WakeSenders
<1>2. w \subseteq toSend /\ toSend \in SUBSET Tasks /\ Cardinality(w) = k
  BY <1>1, WokenIs DEF TypeOK
<1>3. Senders \cup w \subseteq Senders' BY <1>1, <1>2 DEF Senders
<1>4. Senders' \in SUBSET Tasks /\ Senders \in SUBSET Tasks /\ Senders \cap toSend = {}
  BY DEF Senders
<1>5. ASSUME k > 0 PROVE Senders' # {}
  <2>1. w # {} BY <1>2, <1>5, FS_EmptySet
  <2> QED BY <1>3, <2>1
<1>6. cRxLock \in -1 .. Cardinality(Tasks) BY DEF TypeOK
<1>7. ASSUME NEW n \in Int, Enough(n, Senders, cRxLock),
             Length - waiting' <= n + k - (IF cRxLock > 0 THEN cRxLock ELSE 0)
      PROVE  Enough(Length - waiting', Senders', cRxLock')
  <2>1. Enough(n + k - (IF cRxLock > 0 THEN cRxLock ELSE 0), Senders', queueUNLOCKED)
    BY <1>1, <1>2, <1>3, <1>4, <1>6, <1>7, EnoughWakes
  <2>2. /\ Length - waiting' \in Int
        /\ n + k - (IF cRxLock > 0 THEN cRxLock ELSE 0) \in Int
        /\ queueUNLOCKED \in Int
    BY <1>6, TasksFinite, QueueConstants DEF TypeOK, queueUNLOCKED
  <2> QED BY <1>4, <1>7, <2>1, <2>2, EnoughGrows
<1> QED BY <1>5, <1>7

\* Every step keeps the takers enough: by a wake-up, by a count, or because the
\* item goes with its taker.
LEMMA TakersStep ==
    TypeOK /\ TypeOK' /\ Places /\ Locks /\ OnLists /\ ItemsHaveTakers /\ [Next]_vars
    => ItemsHaveTakers'
<1> SUFFICES ASSUME TypeOK, TypeOK', Places, Locks, OnLists, ItemsHaveTakers, [Next]_vars
             PROVE  ItemsHaveTakers'
  OBVIOUS
<1>1. CASE UNCHANGED vars
  BY <1>1 DEF vars, ItemsHaveTakers, WaitToReceive, Enough, Receivers, Receives,
        Retries
<1>2. CASE KeepsTakers BY <1>2, TakersKept
<1>3. ASSUME NEW t \in Tasks, TrySend(t) PROVE ItemsHaveTakers'
  <2> SUFFICES ASSUME WaitToReceive' PROVE Enough(waiting', Receivers', cTxLock')
    BY DEF ItemsHaveTakers
  <2>1. /\ cTxLock = queueUNLOCKED /\ cTxLock' = queueUNLOCKED
        /\ \A u \in Tasks : pc[u] \notin Suspended
    BY <1>3, Standing, Unlocked DEF TrySend, At, Suspended, locks
  <2>2. toReceive' # {} /\ toReceive' \subseteq toReceive
    <3>1. \A u \in Tasks : pc'[u] # "place"
      BY <1>3, <2>1 DEF TrySend, Return, Suspended, TypeOK
    <3> QED BY <1>3, <3>1, Premises DEF TrySend, WaitToReceive
  <2>3. Receivers \subseteq Receivers'
    BY <1>3, <2>2 DEF TrySend, Return, Receivers, Receives, Retries, Puts, TypeOK
  <2>4. \A u \in toReceive \ toReceive' : (Receives(u) /\ Retries(u))'
    BY <1>3, Standing DEF TrySend, At, Return, OnLists, Receives, Retries,
          Suspended, TypeOK
  <2>5. Enough(waiting, Receivers, cTxLock)
    BY <2>2 DEF ItemsHaveTakers, WaitToReceive
  <2>6. waiting' <= waiting + 1 /\ waiting \in Int
    BY <1>3 DEF TrySend, CopyIn, TypeOK
  <2>7. WakeReceivers(1) BY <1>3 DEF TrySend
  <2> QED BY <2>1, <2>2, <2>3, <2>4, <2>5, <2>6, <2>7, TakersWoken DEF queueUNLOCKED
<1>4. ASSUME NEW t \in Tasks, TryReceive(t) PROVE ItemsHaveTakers'
  <2> SUFFICES ASSUME WaitToReceive' PROVE Enough(waiting', Receivers', cTxLock')
    BY DEF ItemsHaveTakers
  <2>1. WaitToReceive
    BY <1>4 DEF TryReceive, Return, WaitToReceive, Receives, TypeOK
  <2>2. Receivers' = Receivers \ {t}
    BY <1>4 DEF TryReceive, Return, Receivers, Receives, Retries, TypeOK
  <2>3. waiting' = waiting - 1 /\ cTxLock' = cTxLock
    BY <1>4 DEF TryReceive, CopyOut, locks
  <2>4. Receivers \in SUBSET Tasks /\ waiting \in Int /\ cTxLock \in Int
    BY TasksFinite DEF Receivers, TypeOK
  <2>5. Enough(waiting - 1, Receivers \ {t}, cTxLock)
    BY <2>1, <2>4, EnoughLess DEF ItemsHaveTakers
  <2> QED BY <2>2, <2>3, <2>5
<1>5. ASSUME NEW t \in Tasks, TryPeek(t) PROVE ItemsHaveTakers'
  <2> SUFFICES ASSUME WaitToReceive' PROVE Enough(waiting', Receivers', cTxLock')
    BY DEF ItemsHaveTakers
  <2>1. /\ cTxLock = queueUNLOCKED /\ cTxLock' = queueUNLOCKED
        /\ \A u \in Tasks : pc[u] \notin Suspended
    BY <1>5, Standing, Unlocked DEF TryPeek, At, Suspended, locks
  <2>2. toReceive' # {} /\ toReceive' \subseteq toReceive
    <3>1. \A u \in Tasks : pc'[u] # "place"
      BY <1>5, <2>1 DEF TryPeek, Return, Suspended, TypeOK
    <3> QED BY <1>5, <3>1, Premises DEF TryPeek, WaitToReceive
  <2>3. Receivers \ {t} \subseteq Receivers'
    BY <1>5, <2>2 DEF TryPeek, Return, Receivers, Receives, Retries, TypeOK
  <2>4. \A u \in toReceive \ toReceive' : (Receives(u) /\ Retries(u))'
    BY <1>5, Standing DEF TryPeek, At, Return, OnLists, Receives, Retries,
          Suspended, TypeOK
  <2>5. Receivers \in SUBSET Tasks /\ waiting \in Int /\ cTxLock \in Int
    BY TasksFinite DEF Receivers, TypeOK
  <2>6. Enough(waiting - 1, Receivers \ {t}, cTxLock)
    BY <2>2, <2>5, EnoughLess DEF ItemsHaveTakers, WaitToReceive
  <2>7. WakeReceivers(1) /\ waiting' = waiting /\ Receivers \ {t} \in SUBSET Receivers
    BY <1>5 DEF TryPeek, data
  <2> QED BY <2>1, <2>2, <2>3, <2>4, <2>5, <2>6, <2>7, TakersWoken DEF queueUNLOCKED
<1>6. ASSUME NEW t \in Tasks, UnlockTx(t) PROVE ItemsHaveTakers'
  <2> SUFFICES ASSUME WaitToReceive' PROVE Enough(waiting', Receivers', cTxLock')
    BY DEF ItemsHaveTakers
  <2>1. /\ cTxLock \in Nat /\ cTxLock' = queueUNLOCKED /\ waiting' = waiting /\ waiting \in Int
        /\ \A u \in Tasks \ {t} : pc[u] \notin Suspended
    BY <1>6, Standing, Unlocked, TasksFinite
       DEF UnlockTx, At, Suspended, TypeOK, data, queueUNLOCKED
  <2>2. toReceive' # {} /\ toReceive' \subseteq toReceive
    <3>1. \A u \in Tasks : pc'[u] # "place"
      BY <1>6, <2>1 DEF UnlockTx, Goto, Suspended, TypeOK
    <3> QED BY <1>6, <2>1, <3>1, Premises DEF UnlockTx, WaitToReceive
  <2>3. Receivers \subseteq Receivers'
    BY <1>6, <2>2 DEF UnlockTx, At, Goto, Receivers, Receives, Retries, TypeOK
  <2>4. \A u \in toReceive : (Receives(u) /\ Retries(u))'
    BY <1>6, <2>1 DEF UnlockTx, At, Goto, OnLists, Receives, Retries, Suspended,
          TypeOK
  <2>5. Enough(waiting, Receivers, cTxLock)
    BY <2>2 DEF ItemsHaveTakers, WaitToReceive
  <2>6. CASE cTxLock > 0
    <3>1. WakeReceivers(cTxLock) BY <1>6, <2>6 DEF UnlockTx, queueLOCKED_UNMODIFIED
    <3> QED BY <2>1, <2>2, <2>3, <2>4, <2>5, <2>6, <3>1, TakersWoken
  <2>7. CASE cTxLock = 0
    <3>1. Receivers \in SUBSET Tasks /\ Receivers' \in SUBSET Tasks BY DEF Receivers
    <3>2. Tasks # {} /\ Cardinality(Tasks) > 0 BY TasksFinite
    <3>3. Cardinality(Receivers) <= Cardinality(Receivers')
      BY <2>3, <3>1, TasksFinite, FS_Subset
    <3> QED BY <2>1, <2>5, <2>7, <3>1, <3>2, <3>3, TasksFinite DEF Enough,
          queueUNLOCKED
  <2> QED BY <2>1, <2>6, <2>7
<1>7. ASSUME NEW x \in Items, NEW p \in Puts, SendFromISR(x, p) PROVE ItemsHaveTakers'
  <2> SUFFICES ASSUME WaitToReceive' PROVE Enough(waiting', Receivers', cTxLock')
    BY DEF ItemsHaveTakers
  <2>1. waiting' <= waiting + 1 /\ waiting \in Int /\ waiting' \in Int
    BY <1>7 DEF SendFromISR, CopyIn, TypeOK
  <2>2. WaitToReceive
    BY <1>7, Premises DEF SendFromISR, WaitToReceive, Receives
  <2>3. Enough(waiting, Receivers, cTxLock) BY <2>2 DEF ItemsHaveTakers
  <2>4. CASE cTxLock = queueUNLOCKED
    <3>1. cTxLock' = queueUNLOCKED /\ WakeReceivers(1)
      BY <1>7, <2>4 DEF SendFromISR
    <3>2. toReceive' # {} /\ toReceive' \subseteq toReceive
      BY <1>7, <2>4, <3>1, Unlocked, Premises DEF SendFromISR, WaitToReceive
    <3>3. Receivers \subseteq Receivers'
      BY <1>7, <3>2 DEF SendFromISR, Receivers, Receives, Retries, TypeOK
    <3>4. \A u \in toReceive : (Receives(u) /\ Retries(u))'
      BY <1>7 DEF SendFromISR, OnLists, Receives, Retries
    <3> QED BY <2>1, <2>3, <2>4, <3>1, <3>2, <3>3, <3>4, TakersWoken DEF
          queueUNLOCKED
  <2>5. CASE cTxLock # queueUNLOCKED
    <3>1. cTxLock' = Increment(cTxLock) /\ cTxLock \in 0 .. Cardinality(Tasks)
      BY <1>7, <2>5, TasksFinite DEF SendFromISR, TypeOK, queueUNLOCKED
    <3>2. Receivers' = Receivers /\ Receivers \in SUBSET Tasks
      BY <1>7, <2>5 DEF SendFromISR, Receivers, Receives, Retries
    <3>3. Enough(waiting + 1, Receivers, cTxLock')
      BY <2>1, <2>3, <3>1, <3>2, EnoughCounts
    <3>4. cTxLock' \in Int BY TasksFinite DEF TypeOK
    <3> QED BY <2>1, <3>2, <3>3, <3>4, EnoughGrows
  <2> QED BY <2>4, <2>5
<1> QED BY <1>1, <1>2, <1>3, <1>4, <1>5, <1>6, <1>7, QuietForTakers DEF Next, Step

\* Every step keeps the senders enough.
LEMMA SendersStep ==
    /\ TypeOK /\ TypeOK' /\ Places /\ Locks /\ OnLists
    /\ EmptyHasSender /\ RoomHasSenders /\ [Next]_vars
    => EmptyHasSender' /\ RoomHasSenders'
<1> SUFFICES ASSUME TypeOK, TypeOK', Places, Locks, OnLists,
                    EmptyHasSender, RoomHasSenders, [Next]_vars
             PROVE  EmptyHasSender' /\ RoomHasSenders'
  OBVIOUS
<1>1. CASE UNCHANGED vars
  BY <1>1 DEF vars, EmptyHasSender, RoomHasSenders, NoReset, WaitToSend, Enough,
              Senders, Sends, Retries
<1>2. CASE KeepsSenders BY <1>2, SendersKept
<1>3. ASSUME NEW t \in Tasks, TrySend(t) PROVE EmptyHasSender' /\ RoomHasSenders'
  <2>0. /\ waiting' \in 1 .. Length
        /\ waiting' = waiting + 1 \/ (Length = 1 /\ waiting' = 1)
    <3>1. call[t].item \in Items BY DEF TypeOK, CallRecord
    <3> QED BY <1>3, <3>1, CopyTypes, Premises DEF TrySend, At
  <2>1. EmptyHasSender' BY <2>0, QueueConstants DEF EmptyHasSender
  <2>2. ASSUME NoReset, WaitToSend' PROVE Enough(Length - waiting', Senders', cRxLock')
    <3>1. WaitToSend
      BY <1>3, <2>2 DEF TrySend, Return, WaitToSend, Sends, TypeOK
    <3>2. Senders' = Senders \ {t}
      BY <1>3 DEF TrySend, Return, Senders, Sends, Retries, TypeOK
    <3>3. Senders \in SUBSET Tasks /\ waiting \in Int /\ cRxLock \in Int
          /\ cRxLock' = cRxLock /\ Length - waiting \in Int
      BY <1>3, TasksFinite, QueueConstants DEF TrySend, Senders, TypeOK, locks
    <3>4. Enough(Length - waiting - 1, Senders \ {t}, cRxLock)
      BY <2>2, <3>1, <3>3, EnoughLess DEF RoomHasSenders
    <3>5. CASE waiting' = waiting + 1
      <4>1. Length - waiting' = Length - waiting - 1
        BY <3>3, <3>5, QueueConstants
      <4> QED BY <3>2, <3>3, <3>4, <4>1
    <3>6. CASE Length = 1 /\ waiting' = 1
      <4>1. Senders' \in SUBSET Tasks BY <3>2, <3>3
      <4> QED BY <3>3, <3>6, <4>1, TasksFinite DEF Enough
    <3> QED BY <2>0, <3>5, <3>6
  <2> QED BY <2>1, <2>2 DEF RoomHasSenders, NoReset
<1>4. ASSUME NEW t \in Tasks, TryReceive(t) \/ TryReset(t)
      PROVE  EmptyHasSender' /\ RoomHasSenders'
  <2>1. /\ cRxLock = queueUNLOCKED /\ cRxLock' = queueUNLOCKED
        /\ \A u \in Tasks : pc[u] \notin Suspended
    BY <1>4, Standing, Unlocked DEF TryReceive, TryReset, At, Suspended, locks
  <2>2. WakeSenders(1) /\ Return(t) BY <1>4 DEF TryReceive, TryReset
  <2>3. toSend' \subseteq toSend BY <2>2, Premises
  <2>4. WaitToSend' => toSend' # {}
    BY <2>1, <2>2 DEF Return, Suspended, TypeOK, WaitToSend
  <2>5. Senders \subseteq Senders'
    BY <1>4, <2>2, <2>3
       DEF TryReceive, TryReset, Return, Senders, Sends, Retries, Puts, TypeOK
  <2>6. \A u \in toSend \ toSend' : (Sends(u) /\ Retries(u))'
    BY <1>4, <2>2, Standing
       DEF TryReceive, TryReset, At, Return, OnLists, Sends, Retries, Suspended, TypeOK
  <2>7. WaitToSend' => Senders' # {}
    BY <2>1, <2>2, <2>4, <2>5, <2>6, SendersWoken DEF queueUNLOCKED
  <2>8. ASSUME NoReset, WaitToSend' PROVE Enough(Length - waiting', Senders', cRxLock')
    <3>1. Enough(Length - waiting, Senders, cRxLock)
      BY <2>3, <2>4, <2>8 DEF RoomHasSenders, WaitToSend
    <3>2. Length - waiting' <= (Length - waiting) + 1 /\ Length - waiting \in Int
      <4>1. TryReset(t) => Length = 1
        <5>1. TryReset(t) => "reset" \in Calls[t]
          BY DEF TryReset, At, Places
        <5> QED BY <2>8, <5>1 DEF NoReset
      <4>2. waiting \in Nat /\ Length \in Nat /\ Length - waiting \in Nat
        BY QueueConstants DEF TypeOK
      <4>3. CASE waiting' = waiting - 1 BY <4>2, <4>3
      <4>4. CASE waiting' = 0 /\ Length = 1 BY <4>2, <4>4
      <4> QED BY <1>4, <4>1, <4>3, <4>4 DEF TryReceive, TryReset, CopyOut
    <3> QED BY <2>1, <2>2, <2>4, <2>5, <2>6, <2>8, <3>1, <3>2, SendersWoken DEF
          queueUNLOCKED
  <2> QED BY <2>7, <2>8 DEF EmptyHasSender, RoomHasSenders, NoReset
<1>5. ASSUME NEW t \in Tasks, UnlockRx(t) PROVE EmptyHasSender' /\ RoomHasSenders'
  <2>1. /\ cRxLock \in Nat /\ cRxLock' = queueUNLOCKED /\ waiting' = waiting
        /\ \A u \in Tasks \ {t} : pc[u] \notin Suspended
    BY <1>5, Standing, Unlocked, TasksFinite
       DEF UnlockRx, At, Suspended, TypeOK, data, queueUNLOCKED
  <2>2. toSend' \subseteq toSend
    BY <1>5, <2>1, Premises DEF UnlockRx
  <2>3. WaitToSend' => toSend' # {}
    BY <1>5, <2>1 DEF UnlockRx, Goto, Suspended, TypeOK, WaitToSend
  <2>4. Senders \subseteq Senders'
    BY <1>5, <2>2 DEF UnlockRx, At, Goto, Senders, Sends, Retries, TypeOK
  <2>5. \A u \in toSend : (Sends(u) /\ Retries(u))'
    BY <1>5, <2>1 DEF UnlockRx, At, Goto, OnLists, Sends, Retries, Suspended, TypeOK
  <2>6. CASE cRxLock > 0
    <3>1. WakeSenders(cRxLock) BY <1>5, <2>6 DEF UnlockRx, queueLOCKED_UNMODIFIED
    <3>2. WaitToSend' => Senders' # {}
      BY <2>1, <2>3, <2>4, <2>5, <2>6, <3>1, SendersWoken
    <3>3. ASSUME NoReset, WaitToSend' PROVE Enough(Length - waiting', Senders', cRxLock')
      <4>1. Enough(Length - waiting, Senders, cRxLock)
        BY <2>2, <2>3, <3>3 DEF RoomHasSenders, WaitToSend
      <4>2. /\ Length - waiting \in Int
            /\ Length - waiting' <= (Length - waiting) + cRxLock
                                    - (IF cRxLock > 0 THEN cRxLock ELSE 0)
        BY <2>1, <2>6, QueueConstants DEF TypeOK
      <4> QED BY <2>1, <2>3, <2>4, <2>5, <3>1, <3>3, <4>1, <4>2, SendersWoken
    <3> QED BY <3>2, <3>3 DEF EmptyHasSender, RoomHasSenders, NoReset
  <2>7. CASE cRxLock = 0
    <3>1. Senders \in SUBSET Tasks /\ Senders' \in SUBSET Tasks BY DEF Senders
    <3>2. WaitToSend' => WaitToSend BY <2>2, <2>3 DEF WaitToSend
    <3>3. Tasks # {} /\ Cardinality(Tasks) > 0 BY TasksFinite
    <3>4. Cardinality(Senders) <= Cardinality(Senders')
      BY <2>4, <3>1, TasksFinite, FS_Subset
    <3>5. Enough(Length - waiting, Senders, cRxLock)
          => Enough(Length - waiting', Senders', cRxLock')
      BY <2>1, <2>7, <3>1, <3>3, <3>4, TasksFinite, QueueConstants
         DEF Enough, queueUNLOCKED, TypeOK
    <3> QED BY <2>1, <2>4, <2>7, <3>2, <3>5 DEF EmptyHasSender, RoomHasSenders,
          NoReset
  <2> QED BY <2>1, <2>6, <2>7
<1>6. ASSUME ReceiveFromISR PROVE EmptyHasSender' /\ RoomHasSenders'
  <2>1. waiting' = waiting - 1 /\ Length - waiting \in Int /\ waiting \in Int
    BY <1>6, QueueConstants DEF ReceiveFromISR, CopyOut, TypeOK
  <2>2. toSend' \subseteq toSend
    BY <1>6, Premises DEF ReceiveFromISR
  <2>3. WaitToSend' => WaitToSend
    BY <1>6, <2>2 DEF ReceiveFromISR, WaitToSend, Sends
  <2>4. CASE cRxLock = queueUNLOCKED
    <3>1. cRxLock' = queueUNLOCKED /\ WakeSenders(1)
      BY <1>6, <2>4 DEF ReceiveFromISR
    <3>2. WaitToSend' => toSend' # {}
      BY <1>6, <2>4, Unlocked DEF ReceiveFromISR, WaitToSend
    <3>3. Senders \subseteq Senders'
      BY <1>6, <2>2 DEF ReceiveFromISR, Senders, Sends, Retries, TypeOK
    <3>4. \A u \in toSend : (Sends(u) /\ Retries(u))'
      BY <1>6 DEF ReceiveFromISR, OnLists, Sends, Retries
    <3>5. WaitToSend' => Senders' # {}
      BY <2>4, <3>1, <3>2, <3>3, <3>4, SendersWoken DEF queueUNLOCKED
    <3>6. ASSUME NoReset, WaitToSend' PROVE Enough(Length - waiting', Senders', cRxLock')
      <4>1. Enough(Length - waiting, Senders, cRxLock)
        BY <2>3, <3>6 DEF RoomHasSenders
      <4>2. Length - waiting' <= (Length - waiting) + 1
        BY <2>1, QueueConstants
      <4> QED BY <2>1, <2>4, <3>1, <3>2, <3>3, <3>4, <3>6, <4>1, <4>2, SendersWoken
              DEF queueUNLOCKED
    <3> QED BY <3>5, <3>6 DEF EmptyHasSender, RoomHasSenders, NoReset
  <2>5. CASE cRxLock # queueUNLOCKED
    <3>1. cRxLock' = Increment(cRxLock) /\ cRxLock \in 0 .. Cardinality(Tasks)
      BY <1>6, <2>5, TasksFinite DEF ReceiveFromISR, TypeOK, queueUNLOCKED
    <3>2. Tasks # {} BY <2>5 DEF Locks
    <3>3. cRxLock' > 0
      BY <3>1, <3>2, TasksFinite DEF Increment
    <3>4. Senders' = Senders /\ Senders \in SUBSET Tasks
      BY <1>6, <2>5 DEF ReceiveFromISR, Senders, Sends, Retries
    <3>5. Enough(Length - waiting, Senders, cRxLock)
          => Enough(Length - waiting', Senders', cRxLock')
      <4>1. Length - waiting' = (Length - waiting) + 1 BY <2>1, QueueConstants
      <4> QED BY <2>1, <3>1, <3>4, <4>1, EnoughCounts
    <3> QED BY <2>3, <3>3, <3>5 DEF EmptyHasSender, RoomHasSenders, NoReset
  <2> QED BY <2>4, <2>5
<1> QED BY <1>1, <1>2, <1>3, <1>4, <1>5, <1>6, QuietForSenders DEF Next, Step

-----------------------------------------------------------------------------
(* The theorems.                                                            *)

\* A new queue satisfies the invariant.
LEMMA InvInit == Init => QInv /\ RoomHasSenders
<1> SUFFICES ASSUME Init PROVE QInv /\ RoomHasSenders OBVIOUS
<1>1. TypeOK
  <2>1. AnyItem \in Items BY QueueConstants DEF AnyItem
  <2>2. NoCall \in CallRecord BY <2>1 DEF NoCall, CallRecord
  <2> QED BY <2>1, <2>2, TasksFinite, QueueConstants DEF Init, TypeOK, Slots,
        queueUNLOCKED
<1>2. Places /\ Locks /\ OnLists
  BY QueueConstants DEF Init, Places, Suspended, Locks, OnLists
<1>3. ~WaitToReceive /\ ~WaitToSend
  BY DEF Init, WaitToReceive, WaitToSend
<1> QED BY <1>1, <1>2, <1>3
        DEF QInv, ItemsHaveTakers, EmptyHasSender, RoomHasSenders

\* Every step keeps the invariant.
LEMMA InvStep == QInv /\ RoomHasSenders /\ [Next]_vars => (QInv /\ RoomHasSenders)'
<1> SUFFICES ASSUME QInv, RoomHasSenders, [Next]_vars
             PROVE  QInv' /\ RoomHasSenders'
  OBVIOUS
<1>1. TypeOK' BY TypeStep DEF QInv
<1>2. Places' /\ Locks' /\ OnLists'
  BY PlacesStep, LocksStep, OnListsStep DEF QInv
<1>3. ItemsHaveTakers' BY <1>1, TakersStep DEF QInv
<1>4. EmptyHasSender' /\ RoomHasSenders' BY <1>1, SendersStep DEF QInv
<1> QED BY <1>1, <1>2, <1>3, <1>4 DEF QInv

\* For every set of tasks, calls and handlers: the tasks that will take an item
\* or fill a slot are as many as the items and slots that others wait for, those
\* counted in cTxLock and cRxLock included.
THEOREM TakersEnough == Spec => [](QInv /\ RoomHasSenders)
BY InvInit, InvStep, PTL DEF Spec

\* The state is well typed: the pointers stay inside the storage area, no send
\* or handler exceeds uxLength, and the lock counts stay below the number of
\* tasks.
THEOREM TypeCorrect == Spec => []TypeOK
<1>1. QInv => TypeOK BY DEF QInv
<1> QED BY <1>1, TakersEnough, PTL

\* When the scheduler is running, a task that will try again is about to.
LEMMA TriesNow ==
    ASSUME QInv, susp = Nobody
    PROVE  /\ cTxLock = queueUNLOCKED /\ cRxLock = queueUNLOCKED
           /\ \A t \in Tasks : Retries(t) => pc[t] = "try"
<1>1. \A t \in Tasks : pc[t] \notin Suspended
  BY Standing DEF QInv
<1> QED BY <1>1 DEF QInv, Locks, Retries, Suspended

\* A positive number is enough only if there is somebody.
LEMMA EnoughIsSome ==
    ASSUME NEW n \in Nat \ {0}, NEW A \in SUBSET Tasks, Tasks # {},
           Enough(n, A, queueUNLOCKED)
    PROVE  A # {}
BY TasksFinite, FS_EmptySet DEF Enough, queueUNLOCKED

\* Nobody is left on an event list while the queue has an item for a receiver,
\* or is empty although somebody waits to send, unless another task is already
\* about to act on it; and no call leaves the queue locked.
THEOREM NoneForgotten == Spec => []NobodyForgotten
<1>1. QInv => NobodyForgotten
  <2> SUFFICES ASSUME QInv PROVE NobodyForgotten OBVIOUS
  <2>1. ASSUME susp = Nobody, waiting > 0, toReceive # {}
        PROVE  \E t \in Tasks \ toReceive :
                   pc[t] = "try" /\ call[t].do \in {"recv", "peek"}
    <3>1. Enough(waiting, Receivers, queueUNLOCKED)
      BY <2>1, TriesNow DEF QInv, ItemsHaveTakers, WaitToReceive
    <3>2. /\ waiting \in Nat \ {0} /\ Tasks # {} /\ Receivers \in SUBSET Tasks
      BY <2>1 DEF QInv, TypeOK, Receivers
    <3>3. PICK t \in Receivers : TRUE BY <3>1, <3>2, EnoughIsSome
    <3> QED BY <2>1, <3>3, TriesNow DEF Receivers, Receives
  <2>2. ASSUME susp = Nobody, waiting = 0, toSend # {}
        PROVE  \E t \in Tasks \ toSend : pc[t] = "try" /\ call[t].do \in Puts
    <3>1. PICK t \in Senders : TRUE
      BY <2>2, TriesNow DEF QInv, EmptyHasSender, WaitToSend, queueUNLOCKED
    <3> QED BY <2>2, <3>1, TriesNow DEF Senders, Sends
  <2>3. LockedOnlyWhileSuspended BY TriesNow DEF LockedOnlyWhileSuspended
  <2> QED BY <2>1, <2>2, <2>3
          DEF NobodyForgotten, NoForgottenReceiver, EmptyQueueWakesSender
<1> QED BY <1>1, TakersEnough, PTL

\* A task that waits to send while there is room was not forgotten either, if the
\* queue holds one item or nobody resets it: a reset frees every slot and wakes
\* one sender.
THEOREM SendersRemembered == Spec => []NoSenderForgotten
<1>1. QInv /\ RoomHasSenders => NoSenderForgotten
  <2> SUFFICES ASSUME QInv, RoomHasSenders, NoReset, susp = Nobody,
                      waiting < Length, toSend # {}
               PROVE  \E t \in Tasks \ toSend : pc[t] = "try" /\ call[t].do \in Puts
    BY DEF NoSenderForgotten, NoForgottenSender
  <2>1. Enough(Length - waiting, Senders, queueUNLOCKED)
    BY TriesNow DEF RoomHasSenders, WaitToSend
  <2>2. /\ Length - waiting \in Nat \ {0} /\ Tasks # {} /\ Senders \in SUBSET Tasks
    BY QueueConstants DEF QInv, TypeOK, Senders
  <2>3. PICK t \in Senders : TRUE BY <2>1, <2>2, EnoughIsSome
  <2> QED BY <2>3, TriesNow DEF Senders, Sends
<1> QED BY <1>1, TakersEnough, PTL

-----------------------------------------------------------------------------
(* The queue is a bounded FIFO.                                             *)

\* The slot k places after s.
Slot(s, k) == IF s + k < Length THEN s + k ELSE s + k - Length

\* Slots are counted modulo the length.
LEMMA Around ==
    ASSUME NEW s \in Slots, NEW k \in 0 .. Length
    PROVE  (s + k) % Length = Slot(s, k) /\ Slot(s, k) \in Slots
BY QueueConstants DEF Slots, Slot

\* The n items behind slot r of a storage area.
LEMMA LineIs ==
    ASSUME NEW r \in Slots, NEW n \in 0 .. Length, NEW st \in [Slots -> Items]
    PROVE  /\ [k \in 1 .. n |-> st[(r + k) % Length]] \in Seq(Items)
           /\ Len([k \in 1 .. n |-> st[(r + k) % Length]]) = n
           /\ \A k \in 1 .. n :
                [j \in 1 .. n |-> st[(r + j) % Length]][k] = st[Slot(r, k)]
           /\ (r + n) % Length = Slot(r, n)
<1>1. \A k \in 1 .. n : (r + k) % Length = Slot(r, k) /\ Slot(r, k) \in Slots
  BY Around, QueueConstants
<1>2. (r + n) % Length = Slot(r, n) BY Around
<1> QED BY <1>1, <1>2

\* Contents and RingOK without the remainder.
LEMMA ContentsAre ==
    ASSUME TypeOK
    PROVE  /\ Contents \in Seq(Items) /\ Len(Contents) = waiting
           /\ \A k \in 1 .. waiting : Contents[k] = store[Slot(readFrom, k)]
           /\ RingOK <=> writeTo = Up(Slot(readFrom, waiting))
BY LineIs DEF Contents, TypeOK, RingOK

\* The same for the next state.
LEMMA ContentsNext ==
    ASSUME TypeOK'
    PROVE  /\ Contents' \in Seq(Items) /\ Len(Contents') = waiting'
           /\ \A k \in 1 .. waiting' : Contents'[k] = store'[Slot(readFrom', k)]
           /\ RingOK' <=> writeTo' = Up(Slot(readFrom', waiting'))
BY LineIs DEF Contents, TypeOK, RingOK

\* Sending to the back.
LEMMA CopyBack ==
    ASSUME TypeOK, TypeOK', RingOK, NEW x \in Items, waiting < Length, CopyIn(x, "back")
    PROVE  Contents' = Append(Contents, x) /\ RingOK'
<1>1. /\ store' = [store EXCEPT ![writeTo] = x] /\ writeTo' = Up(writeTo)
      /\ waiting' = waiting + 1 /\ readFrom' = readFrom
  BY DEF CopyIn
<1>2. /\ Slot(readFrom, waiting + 1) = writeTo
      /\ \A k \in 1 .. waiting : Slot(readFrom, k) \in Slots \ {writeTo}
  <2>1. writeTo = Up(Slot(readFrom, waiting)) BY ContentsAre
  <2>2. readFrom \in Slots /\ waiting \in 0 .. Length /\ Length \in Nat
    BY QueueConstants DEF TypeOK
  <2> QED BY ONLY <2>1, <2>2, waiting < Length DEF Slots, Slot, Up
<1>3. RingOK' BY <1>1, <1>2, ContentsNext
<1>4. /\ \A k \in 1 .. waiting : Contents'[k] = Contents[k]
      /\ Contents'[waiting + 1] = x
  BY <1>1, <1>2, ContentsAre, ContentsNext DEF TypeOK
<1>5. Contents' = Append(Contents, x)
  <2>1. /\ Append(Contents, x) \in Seq(Items) /\ Len(Append(Contents, x)) = waiting + 1
        /\ \A k \in 1 .. waiting : Append(Contents, x)[k] = Contents[k]
        /\ Append(Contents, x)[waiting + 1] = x
    BY ContentsAre, AppendProperties
  <2>2. Contents' \in Seq(Items) /\ Len(Contents') = waiting + 1
    BY <1>1, ContentsNext
  <2>3. \A k \in 1 .. waiting + 1 : Contents'[k] = Append(Contents, x)[k]
    <3> HIDE DEF Contents
    <3> QED BY <1>4, <2>1 DEF TypeOK
  <2> QED BY <2>1, <2>2, <2>3, SeqEqual
<1> QED BY <1>3, <1>5

\* Sending to the front.
LEMMA CopyFront ==
    ASSUME TypeOK, TypeOK', RingOK, NEW x \in Items, NEW p \in {"front", "overwrite"},
           waiting < Length, CopyIn(x, p), p = "overwrite" => Length = 1
    PROVE  Contents' = <<x>> \o Contents /\ RingOK'
<1>1. /\ store' = [store EXCEPT ![readFrom] = x] /\ writeTo' = writeTo
      /\ waiting' = waiting + 1 /\ readFrom' = Down(readFrom)
  BY DEF CopyIn, TypeOK
<1>2. /\ Slot(readFrom', 1) = readFrom
      /\ Slot(readFrom', waiting + 1) = Slot(readFrom, waiting)
      /\ \A k \in 1 .. waiting :
           /\ Slot(readFrom', k + 1) = Slot(readFrom, k)
           /\ Slot(readFrom, k) \in Slots \ {readFrom}
  <2>2. readFrom \in Slots /\ waiting \in 0 .. Length /\ Length \in Nat
    BY QueueConstants DEF TypeOK
  <2> QED BY ONLY <1>1, <2>2, waiting < Length DEF Slots, Slot, Down
<1>3. RingOK' BY <1>1, <1>2, ContentsAre, ContentsNext
<1>4. /\ \A k \in 1 .. waiting : Contents'[k + 1] = Contents[k]
      /\ Contents'[1] = x
  BY <1>1, <1>2, ContentsAre, ContentsNext DEF TypeOK
<1>5. Contents' = <<x>> \o Contents
  <2>1. <<x>> \in Seq(Items) /\ Len(<<x>>) = 1 /\ <<x>>[1] = x OBVIOUS
  <2>2. /\ <<x>> \o Contents \in Seq(Items) /\ Len(<<x>> \o Contents) = 1 + waiting
        /\ \A i \in 1 .. 1 + waiting :
             (<<x>> \o Contents)[i] = IF i <= 1 THEN <<x>>[i] ELSE Contents[i - 1]
    BY <2>1, ContentsAre, ConcatProperties
  <2>3. Contents' \in Seq(Items) /\ Len(Contents') = 1 + waiting
    BY <1>1, ContentsNext DEF TypeOK
  <2>4. ASSUME NEW i \in 1 .. 1 + waiting PROVE Contents'[i] = (<<x>> \o Contents)[i]
    <3>1. CASE i = 1 BY <1>4, <2>1, <2>2, <3>1
    <3>2. CASE i # 1
      <4>1. i - 1 \in 1 .. waiting /\ (i - 1) + 1 = i BY <3>2 DEF TypeOK
      <4>2. Contents'[i] = Contents[i - 1] BY <1>4, <4>1
      <4>3. (<<x>> \o Contents)[i] = Contents[i - 1] BY <2>2, <4>1
      <4> QED BY <4>2, <4>3
    <3> QED BY <3>1, <3>2
  <2> QED BY <2>2, <2>3, <2>4, SeqEqual
<1> QED BY <1>3, <1>5

\* Reading the oldest item, and removing it.
LEMMA CopyOutIs ==
    ASSUME TypeOK, TypeOK', RingOK, waiting > 0
    PROVE  /\ Contents # <<>> /\ Oldest = Head(Contents)
           /\ CopyOut => Contents' = Tail(Contents) /\ RingOK'
<1>0. readFrom \in Slots /\ waiting \in 1 .. Length /\ Length \in Nat
  BY QueueConstants DEF TypeOK
<1>1. Slot(readFrom, 1) = Up(readFrom)
  BY ONLY <1>0 DEF Slots, Slot, Up
<1>2. Contents # <<>> /\ Oldest = Head(Contents)
  <2>1. Contents \in Seq(Items) /\ Len(Contents) = waiting /\ Contents[1] = Oldest
    BY <1>0, <1>1, ContentsAre DEF Oldest
  <2> QED BY <1>0, <2>1
<1>3. ASSUME CopyOut PROVE Contents' = Tail(Contents) /\ RingOK'
  <2>1. /\ store' = store /\ writeTo' = writeTo
        /\ waiting' = waiting - 1 /\ readFrom' = Up(readFrom)
    BY <1>3 DEF CopyOut
  <2>2. /\ Slot(readFrom', waiting - 1) = Slot(readFrom, waiting)
        /\ \A k \in 1 .. waiting - 1 : Slot(readFrom', k) = Slot(readFrom, k + 1)
    BY ONLY <1>0, <2>1 DEF Slots, Slot, Up
  <2>3. RingOK' BY <2>1, <2>2, ContentsAre, ContentsNext
  <2>4. /\ Contents' \in Seq(Items) /\ Len(Contents') = waiting - 1
        /\ \A k \in 1 .. waiting - 1 : Contents'[k] = store[Slot(readFrom', k)]
    BY <2>1, ContentsNext
  <2>5. /\ Tail(Contents) \in Seq(Items) /\ Len(Tail(Contents)) = waiting - 1
        /\ \A k \in 1 .. waiting - 1 : Tail(Contents)[k] = Contents[k + 1]
    BY <1>2, ContentsAre, HeadTailProperties
  <2>6. ASSUME NEW k \in 1 .. waiting - 1 PROVE Contents'[k] = Tail(Contents)[k]
    <3>1. k + 1 \in 1 .. waiting BY <1>0
    <3>2. Contents[k + 1] = store[Slot(readFrom, k + 1)] BY <3>1, ContentsAre
    <3> QED BY <2>2, <2>4, <2>5, <3>2
  <2> QED BY <2>3, <2>4, <2>5, <2>6, SeqEqual
<1> QED BY <1>2, <1>3

\* queueOVERWRITE of the item of a mailbox.
LEMMA CopyOver ==
    ASSUME TypeOK, TypeOK', Length = 1, waiting = 1, NEW x \in Items,
           CopyIn(x, "overwrite")
    PROVE  Contents' = <<x>> /\ RingOK'
<1>1. /\ store' = [store EXCEPT ![0] = x] /\ waiting' = 1 /\ readFrom' = 0 /\ writeTo' = 0
  BY DEF CopyIn, TypeOK, Slots, Down
<1>2. Slot(0, 1) = 0 /\ Up(0) = 0 BY DEF Slot, Up
<1>3. RingOK' BY <1>1, <1>2, ContentsNext
<1>4. Contents' \in Seq(Items) /\ Len(Contents') = 1 /\ Contents'[1] = x
  BY <1>1, <1>2, ContentsNext DEF TypeOK, Slots
<1> QED BY <1>3, <1>4, SeqEqual

\* What a queue promises, for the items of this one.
Fifo == INSTANCE BoundedFifo WITH q <- Contents, Users <- Tasks

\* Every send, by a task or a handler.
LEMMA PutIs ==
    ASSUME TypeOK, TypeOK', RingOK, NEW x \in Items, NEW p \in Puts, HasRoom(p),
           CopyIn(x, p), p = "overwrite" => Length = 1, got' = got
    PROVE  Fifo!FifoNext /\ RingOK'
<1>1. Len(Contents) = waiting BY ContentsAre
<1>2. CASE p = "back"
  <2>1. waiting < Length BY <1>2 DEF HasRoom
  <2>2. Contents' = Append(Contents, x) /\ RingOK' BY <1>2, <2>1, CopyBack
  <2> QED BY <1>1, <2>1, <2>2 DEF Fifo!FifoNext, Fifo!PutBack
<1>3. CASE p # "back" /\ waiting < Length
  <2>1. p \in {"front", "overwrite"} BY <1>3 DEF Puts
  <2>2. Contents' = <<x>> \o Contents /\ RingOK' BY <1>3, <2>1, CopyFront
  <2> QED BY <1>1, <1>3, <2>2 DEF Fifo!FifoNext, Fifo!PutFront
<1>4. CASE p # "back" /\ ~(waiting < Length)
  <2>1. p = "overwrite" /\ Length = 1 /\ waiting = 1
    BY <1>4 DEF HasRoom, TypeOK
  <2>2. Contents' = <<x>> /\ RingOK' BY <2>1, CopyOver
  <2> QED BY <2>1, <2>2 DEF Fifo!FifoNext, Fifo!Overwrite
<1> QED BY <1>2, <1>3, <1>4

\* Every step is one of the FIFO, or changes nothing there; the ring is kept.
LEMMA FifoStep ==
    TypeOK /\ TypeOK' /\ Places /\ RingOK /\ [Next]_vars
    => [Fifo!FifoNext]_<<Contents, got>> /\ RingOK'
<1> SUFFICES ASSUME TypeOK, TypeOK', Places, RingOK, [Next]_vars
             PROVE  [Fifo!FifoNext]_<<Contents, got>> /\ RingOK'
  OBVIOUS
<1>1. CASE UNCHANGED <<data, got>>
  BY <1>1 DEF data, Contents, RingOK
<1>2. ASSUME NEW t \in Tasks, TrySend(t) PROVE Fifo!FifoNext /\ RingOK'
  <2>1. call[t].item \in Items BY DEF TypeOK, CallRecord
  <2>2. call[t].do = "overwrite" => Length = 1 BY <1>2, Premises DEF TrySend, At
  <2> QED BY <1>2, <2>1, <2>2, PutIs DEF TrySend
<1>3. ASSUME NEW t \in Tasks, TryReceive(t) PROVE Fifo!FifoNext /\ RingOK'
  <2>1. /\ Contents # <<>> /\ Contents' = Tail(Contents) /\ RingOK'
        /\ got' = [got EXCEPT ![t] = Head(Contents)]
    BY <1>3, CopyOutIs DEF TryReceive
  <2> QED BY <2>1 DEF Fifo!FifoNext, Fifo!Take
<1>4. ASSUME NEW t \in Tasks, TryPeek(t) PROVE Fifo!FifoNext /\ RingOK'
  <2>1. /\ Contents # <<>> /\ Contents' = Contents /\ RingOK'
        /\ got' = [got EXCEPT ![t] = Head(Contents)]
    BY <1>4, CopyOutIs DEF TryPeek, data, Contents, RingOK
  <2> QED BY <2>1 DEF Fifo!FifoNext, Fifo!Look
<1>5. ASSUME NEW t \in Tasks, TryReset(t) PROVE Fifo!FifoNext /\ RingOK'
  <2>1. waiting' = 0 /\ writeTo' = 0 /\ readFrom' = Length - 1 /\ got' = got
    BY <1>5 DEF TryReset
  <2>2. Up(Slot(Length - 1, 0)) = 0 BY QueueConstants DEF Slot, Up
  <2>3. RingOK' BY <2>1, <2>2, ContentsNext
  <2>4. Contents' = <<>> BY <2>1, ContentsNext
  <2> QED BY <2>1, <2>3, <2>4 DEF Fifo!FifoNext, Fifo!Clear
<1>6. ASSUME NEW x \in Items, NEW p \in Puts, SendFromISR(x, p)
      PROVE  Fifo!FifoNext /\ RingOK'
  BY <1>6, PutIs, Premises DEF SendFromISR
<1>7. ASSUME ReceiveFromISR PROVE Fifo!FifoNext /\ RingOK'
  <2>1. Contents # <<>> /\ Contents' = Tail(Contents) /\ RingOK' /\ got' = got
    BY <1>7, CopyOutIs DEF ReceiveFromISR
  <2> QED BY <2>1 DEF Fifo!FifoNext, Fifo!Discard
<1>8. CASE UNCHANGED vars BY <1>1, <1>8 DEF vars, data
<1>9. ASSUME NEW t \in Tasks,
             \/ Begin(t) \/ TryFails(t) \/ SuspendAll(t) \/ LockQueue(t)
             \/ NotExpired(t) \/ Expired(t) \/ Test(t) \/ Place(t)
             \/ UnlockTx(t) \/ UnlockRx(t) \/ ResumeAll(t) \/ LastLook(t) \/ Tick(t)
      PROVE  UNCHANGED <<data, got>>
  BY <1>9 DEF Begin, TryFails, SuspendAll, LockQueue, NotExpired, Expired, Test,
        Place,
              UnlockTx, UnlockRx, ResumeAll, LastLook, Tick
<1> QED BY <1>1, <1>2, <1>3, <1>4, <1>5, <1>6, <1>7, <1>8, <1>9 DEF Next, Step

\* Whatever blocks, wakes, times out and retries, from tasks and from handlers,
\* the sends, receives, peeks, overwrites and resets of a queue of any length
\* are those of a bounded FIFO: no item is lost, duplicated or reordered.
THEOREM FifoImplemented == Spec => Fifo!Fifo
<1>1. Init => Fifo!FifoInit /\ RingOK
  <2> SUFFICES ASSUME Init PROVE Fifo!FifoInit /\ RingOK OBVIOUS
  <2>1. TypeOK BY InvInit DEF QInv
  <2>2. Contents = <<>> BY <2>1, ContentsAre DEF Init
  <2>3. Up(Slot(Length - 1, 0)) = 0 BY QueueConstants DEF Slot, Up
  <2>4. RingOK BY <2>1, <2>3, ContentsAre DEF Init
  <2> QED BY <2>1, <2>2, <2>4 DEF Fifo!FifoInit, TypeOK
<1>2. QInv /\ QInv' /\ RingOK /\ [Next]_vars
        => [Fifo!FifoNext]_<<Contents, got>> /\ RingOK'
  BY FifoStep DEF QInv
<1>3. Spec => []RingOK BY <1>1, <1>2, TakersEnough, PTL DEF Spec
<1> QED BY <1>1, <1>2, <1>3, TakersEnough, PTL DEF Spec, Fifo!Fifo, Fifo!fifoVars
=============================================================================
