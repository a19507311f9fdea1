------------------------------ MODULE MCQueue -------------------------------
(* Four small instances of Queue, of which each behaviour is one.  The       *)
(* constants in the configuration are those of "wakeup": two senders, two    *)
(* receivers and interrupt handlers on both sides of a queue of two items.   *)
(* All their waits are finite: one that never expires behaves like one       *)
(* without a limit.                                                          *)
EXTENDS Queue

CONSTANTS s1, s2, r1, r2

MCPrio == [t \in Tasks |-> IF t \in {s1, r1} THEN 1 ELSE 2]

CallsOf(send, receive) ==
    [t \in Tasks |-> IF t \in {s1, s2} THEN send ELSE receive]

\* Two of the tasks do nothing.
One(calls) == [t \in Tasks |-> IF t \in {s1, r1} THEN calls[t] ELSE {}]

CrowdCalls == CallsOf({"back"}, {"recv"})

VARIABLE instance   \* "wakeup", "ends", "mailbox" or "reset"

\* Both ends of the queue; its receiver also peeks and resets.
Ends == INSTANCE Queue WITH
    Items <- {"a", "b"},
    Calls <- One(CallsOf({"back", "front"}, {"recv", "peek", "reset"})),
    Waits <- {"zero", "some"}, IsrCalls <- {"back", "front", "recv"}

\* A mailbox of one item.
Mailbox == INSTANCE Queue WITH
    Items <- {"a", "b"}, Length <- 1,
    Calls <- One(CallsOf({"overwrite", "back"}, {"recv", "peek"})),
    Waits <- {"zero", "some"}, IsrCalls <- {"back", "overwrite", "recv"}

\* Two senders, a receiver, and a task that resets the queue.
Resetting == INSTANCE Queue WITH
    Calls <- [CrowdCalls EXCEPT ![r2] = {"reset"}],
    IsrCalls <- {}

MCInit ==
    \/ instance = "wakeup" /\ Init
    \/ instance = "ends" /\ Ends!Init
    \/ instance = "mailbox" /\ Mailbox!Init
    \/ instance = "reset" /\ Resetting!Init

MCNext ==
    \/ instance = "wakeup" /\ Next /\ UNCHANGED instance
    \/ instance = "ends" /\ Ends!Next /\ UNCHANGED instance
    \/ instance = "mailbox" /\ Mailbox!Next /\ UNCHANGED instance
    \/ instance = "reset" /\ Resetting!Next /\ UNCHANGED instance

MCSpec == MCInit /\ [][MCNext]_<<vars, instance>>

-----------------------------------------------------------------------------
(* Properties.  A refinement of one instance is a stutter in the others.     *)

\* Every variable has its type, in every instance.
TypesOK ==
    CASE instance = "wakeup" -> TypeOK
      [] instance = "ends" -> Ends!TypeOK
      [] instance = "mailbox" -> Mailbox!TypeOK
      [] instance = "reset" -> Resetting!TypeOK

NoneGot == [t \in Tasks |-> AnyItem]

EndsFifo == INSTANCE BoundedFifo WITH
    q <- IF instance = "ends" THEN Ends!Contents ELSE <<>>,
    got <- IF instance = "ends" THEN got ELSE NoneGot, Users <- Tasks,
    Items <- {"a", "b"}

MailboxFifo == INSTANCE BoundedFifo WITH
    q <- IF instance = "mailbox" THEN Mailbox!Contents ELSE <<>>,
    got <- IF instance = "mailbox" THEN got ELSE NoneGot, Users <- Tasks,
    Items <- {"a", "b"}, Length <- 1

\* Whatever blocks, wakes and retries, the sends, receives, peeks and resets
\* of a queue used at both ends, and those of a mailbox that is overwritten,
\* are those of a bounded FIFO: no item is lost, duplicated or reordered; and
\* the pointers and counts of every instance stay in their ranges.
ImplementsFifo == EndsFifo!Fifo /\ MailboxFifo!Fifo /\ []TypesOK

\* A task that waits to send while there is room, if only for one of two
\* items, was not forgotten, whatever interrupt handlers did while the queue
\* was locked: another sender was woken and is about to try again.  Not so
\* where the queue is reset, since a reset of two items wakes one sender.
SendersGetTheRoom ==
    /\ instance = "wakeup" => NoForgottenSender
    /\ instance = "mailbox" => Mailbox!NoForgottenSender
=============================================================================
