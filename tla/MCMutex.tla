------------------------------ MODULE MCMutex -------------------------------
(* Small instances of Mutex, and one of Queue for its liveness; each         *)
(* behaviour is one of one of them.  The constants in the configuration are  *)
(* those of "timeout": one recursive mutex, four tasks of rising priority,   *)
(* every timeout, and a task that takes the mutex inside a critical section. *)
EXTENDS Mutex

VARIABLES
    instance,   \* "timeout", "sleep", "two", "riscv", "ppc", "busy" or "queue"
    \* The variables of Queue, constant in the instances of Mutex.
    store, writeTo, readFrom, waiting, cTxLock, cRxLock, toSend, toReceive,
    susp, qpc, call, qlate, got

MCPrio == [t \in Tasks |-> CASE t = "lower" -> 1 [] t = "low" -> 2
                             [] t = "mid" -> 3 [] OTHER -> 4]
MCUses == [t \in Tasks |-> Mutexes]
MCWaits == [t \in Tasks |-> {"zero", "some", "max"}]

\* Holders that go to sleep.
Three == {"low", "mid", "high"}
Sleeping == INSTANCE Mutex WITH
    Tasks <- Three, Prio <- [t \in Three |-> MCPrio[t]],
    Uses <- [t \in Three |-> Mutexes], Waits <- [t \in Three |-> MCWaits[t]],
    Sleepers <- Three, InCritical <- {}

\* One task takes two mutexes that the others take one of.
Two == INSTANCE Mutex WITH
    Tasks <- Three, Prio <- [t \in Three |-> MCPrio[t]],
    Mutexes <- {"m", "n"}, MaxNest <- 1,
    Uses <- [t \in Three |-> CASE t = "low" -> {"m", "n"}
                               [] t = "mid" -> {"m"} [] OTHER -> {"n"}],
    Waits <- [t \in Three |-> MCWaits[t]], Sleepers <- Three, InCritical <- {}

\* The lwIP core lock with the tasks of lwipopts.h: NETIN has priority 3,
\* iperf 4 and the tcpip thread 5.  The shell takes no mutex: it only keeps
\* the processor.  NETIN takes the lock in a critical section.
NetTasks == {"shell", "NETIN", "iperf", "tcpip"}
NetPrio == [t \in NetTasks |-> CASE t = "shell" -> 1 [] t = "NETIN" -> 3
                                 [] t = "iperf" -> 4 [] OTHER -> 5]
NetUses == [t \in NetTasks |-> IF t = "shell" THEN {} ELSE {"core"}]
Forever(tasks) == [t \in tasks |-> {"max"}]

RiscV == INSTANCE Mutex WITH
    Tasks <- NetTasks, Prio <- NetPrio, Mutexes <- {"core"}, Uses <- NetUses,
    Waits <- Forever(NetTasks), Sleepers <- {}, InCritical <- {"NETIN"}

PowerPC == INSTANCE Mutex WITH
    Tasks <- NetTasks, Prio <- NetPrio, Mutexes <- {"core"}, Uses <- NetUses,
    Waits <- Forever(NetTasks), Sleepers <- {}, InCritical <- {"NETIN"},
    Deferred <- FALSE

\* Two tasks of low priority, and one in the middle that takes no mutex.
BusyTasks == {"low1", "low2", "mid", "high"}
Busy == INSTANCE Mutex WITH
    Tasks <- BusyTasks, Waits <- Forever(BusyTasks), InCritical <- {},
    Prio <- [t \in BusyTasks |-> CASE t \in {"low1", "low2"} -> 1
                                   [] t = "mid" -> 2 [] OTHER -> 3],
    Uses <- [t \in BusyTasks |-> IF t = "mid" THEN {} ELSE Mutexes],
    Sleepers <- {}, MaxNest <- 1

\* A queue of one item with a sender, two receivers and an interrupt handler.
Users == {"s", "r1", "r2"}
Waiting == INSTANCE Queue WITH
    Tasks <- Users, Prio <- [t \in Users |-> IF t = "r2" THEN 2 ELSE 1],
    Calls <- [t \in Users |-> IF t = "s" THEN {"back"} ELSE {"recv"}],
    Waits <- {"some", "max"}, IsrCalls <- {"recv"}, Items <- {"a"},
    Length <- 1, pc <- qpc, late <- qlate

qvars == <<store, writeTo, readFrom, waiting, cTxLock, cRxLock, toSend,
           toReceive, susp, qpc, call, qlate, got>>

MCInit ==
    /\ Waiting!Init
    /\ \/ instance \in {"timeout", "queue"} /\ Init
       \/ instance = "sleep" /\ Sleeping!Init
       \/ instance = "two" /\ Two!Init
       \/ instance = "riscv" /\ RiscV!Init
       \/ instance = "ppc" /\ PowerPC!Init
       \/ instance = "busy" /\ Busy!Init

MCNext ==
    \/ instance = "timeout" /\ Next /\ UNCHANGED <<instance, qvars>>
    \/ instance = "sleep" /\ Sleeping!Next /\ UNCHANGED <<instance, qvars>>
    \/ instance = "two" /\ Two!Next /\ UNCHANGED <<instance, qvars>>
    \/ instance = "riscv" /\ RiscV!Next /\ UNCHANGED <<instance, qvars>>
    \/ instance = "ppc" /\ PowerPC!Next /\ UNCHANGED <<instance, qvars>>
    \/ instance = "busy" /\ Busy!Next /\ UNCHANGED <<instance, qvars>>
    \/ instance = "queue" /\ Waiting!Next /\ UNCHANGED <<instance, vars>>

\* Fairness is stated where a liveness property needs it.
BusyFair(t) ==
    /\ WF_vars(instance = "busy" /\ Busy!Step(t))
    /\ WF_vars(instance = "busy" /\ Busy!Release(t))
    /\ WF_vars(instance = "busy" /\ Busy!ExitCritical(t))

WaitingFair(t) ==
    /\ SF_qvars(instance = "queue" /\ Waiting!Step(t))
    /\ SF_qvars(instance = "queue" /\ (Waiting!Expired(t) \/ Waiting!Tick(t)))

MCSpec ==
    /\ MCInit /\ [][MCNext]_<<vars, instance, qvars>>
    /\ \A t \in BusyTasks : BusyFair(t)
    /\ \A t \in Users : WaitingFair(t)

-----------------------------------------------------------------------------
(* Properties.                                                              *)

\* The lwIP core lock, with the priorities of the repository, works on both
\* ports: the right task runs, though a switch may be held back until the
\* critical section ends in which NETIN uses the lock, and NETIN never has to
\* wait for the lock there, where the RISC-V port would let it run on, blocked;
\* nobody of lower priority holds the lock back from a task that waits for it.
\* So does a mutex whose holder goes to sleep and, by base priorities, each of
\* two mutexes, whichever is given first.
MutexesWork ==
    /\ instance = "riscv" =>
         RiscV!Simple /\ RiscV!PrioritiesAreRight /\ RiscV!RightTaskRuns
    /\ instance = "ppc" =>
         PowerPC!Simple /\ PowerPC!PrioritiesAreRight /\ PowerPC!RightTaskRuns
    /\ instance = "sleep" =>
         Sleeping!PrioritiesAreRight /\ Sleeping!RightTaskRuns
    /\ instance = "two" => Two!CountsAgree /\ Two!HolderCarriesBase

\* The task of highest priority gets the mutex, however long tasks of middling
\* priority keep the processor.  A queue call with a finite xTicksToWait
\* returns, though others take the item for which it was woken; and a receiver
\* is not left on the event list while items are there.
WaitsEnd ==
    /\ (instance = "busy" /\ pc["high"] = "try")
         ~> (instance = "busy" /\ pc["high"] = "run")
    /\ \A t \in Users :
         (instance = "queue" /\ qpc[t] # "idle" /\ call[t].wait = "some")
             ~> (qpc[t] = "idle")
    /\ (instance = "queue" /\ waiting > 0 /\ toReceive # {})
         ~> (waiting = 0 \/ toReceive = {})
=============================================================================
