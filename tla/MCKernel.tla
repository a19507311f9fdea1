------------------------------ MODULE MCKernel ------------------------------
(* Small instances of the kernel's services that keep time and memory:       *)
(* Delay, Timers and Heap.  They share no state, and each behaviour is one   *)
(* of one of them, while the variables of the others stand still.  The       *)
(* constants in the configuration are those of Delay and of Heap, with       *)
(* requests up to where the additions in pvPortMalloc overflow.              *)
EXTENDS Delay, Heap

VARIABLES
    part,       \* "period" or "timeout" (Delay), "timers", "heap"
    \* The variables of Timers.
    tick, queue, sent, state, lastTime, daemon, message, expire, wake, lag

Timer == INSTANCE Timers WITH
    Timers <- {"auto", "once"}, AutoReload <- {"auto"},
    Periods <- [t \in {"auto", "once"} |-> IF t = "auto" THEN {2} ELSE {1, 4}],
    Commands <- {"start", "stop", "period"}, TickRange <- 6,
    QueueLength <- 2, Lag <- 1, Age <- 2, MaxTick <- 12, MaxCommands <- 3,
    pc <- daemon, next <- expire

ASSUME Instances == Timer!TimerConstants

timers == <<tick, queue, sent, state, lastTime, daemon, message, expire,
            wake, lag>>

MCInit ==
    /\ Init /\ Timer!Init /\ HeapUninitialised
    /\ part \in {"period", "timeout", "timers", "heap"}
    /\ part = "timers" \/ state.period["once"] = 1

\* A step of Delay in which the tasks of the set make no call.
Without(tasks) == Next /\ \A t \in tasks : pc'[t] = "run"

MCNext ==
    \/ part = "period" /\ Without(Waiters) /\ UNCHANGED <<part, timers, heap>>
    \/ part = "timeout" /\ Without(Periodics) /\ UNCHANGED <<part, timers, heap>>
    \/ part = "timers" /\ Timer!Next /\ UNCHANGED <<part, vars, heap>>
    \/ part = "heap" /\ HeapNext /\ UNCHANGED <<part, vars, timers>>

MCSpec == MCInit /\ [][MCNext]_<<part, vars, timers, heap>>

-----------------------------------------------------------------------------
(* Properties of Timers; those of Delay and Heap are their own.              *)

\* No callback of a timer is early, or made though it was not ordered; the
\* timer task never sleeps beyond the time of one; the list a timer is on and
\* its tick count give its true due time, across overflows; and what
\* xTimerIsTimerActive says is true.
TimersAreOnTime ==
    part = "timers" => /\ Timer!TypeOK /\ Timer!ListsTellDueTimes
                       /\ Timer!NeverEarly /\ Timer!NeverOverslept
                       /\ Timer!ActiveIsListed
=============================================================================
