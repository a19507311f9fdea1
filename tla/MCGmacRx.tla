------------------------------ MODULE MCGmacRx ------------------------------
(* Two small instances of GmacRx, of which each behaviour is one: the        *)
(* polling build, with frames over several descriptors and calls that fail,  *)
(* and the build with receive interrupts, with frames of one descriptor and  *)
(* no failing call (run rx_stranded shows what failing calls do to it).      *)
EXTENDS GmacRx

VARIABLE build      \* "poll" or "irq"

Interrupts == INSTANCE GmacRx WITH
    SemMax <- 2, MaxFrames <- 6, MaxFrags <- 1, Interrupt <- TRUE,
    Failures <- {}

MCInit == Init /\ build \in {"poll", "irq"}

\* With interrupts everything may come to rest: the peer has sent its last
\* frame and NETIN sleeps.  The polling build never does.
AtRest ==
    /\ build = "irq" /\ Interrupts!Asleep /\ dma.frame = 6
    /\ UNCHANGED vars

MCNext ==
    /\ UNCHANGED build
    /\ \/ build = "poll" /\ Next
       \/ build = "irq" /\ Interrupts!Next
       \/ AtRest

\* The fairness of GmacRx for the build with interrupts, of which alone
\* progress is claimed.
MCSpec ==
    /\ MCInit /\ [][MCNext]_<<vars, build>>
    /\ WF_vars(build = "irq" /\ dma.part > 0 /\ Interrupts!Dma)
    /\ WF_vars(build = "irq" /\ Interrupts!Isr)
    /\ WF_vars(build = "irq" /\ Interrupts!Netin)

\* Every variable has the type of its build.  With the bound of the ring and
\* the limit TCPIP_MBOX_SIZE of g_eth_semaphore this is more than a formality:
\* xSemaphoreGiveFromISR is called for every interrupt.
TypesOK ==
    /\ build = "poll" => TypeOK
    /\ build = "irq" => Interrupts!TypeOK

\* With interrupts coalesced, and counts of g_eth_semaphore dropped both at
\* its limit and once for each frame, NETIN never sleeps on a frame that is
\* complete in the ring.
FrameWakesNetin == build = "irq" => Interrupts!NoFrameStranded

\* With interrupts every frame completed in the ring is in the end consumed
\* by NETIN.
FramesConsumed == build = "irq" => Interrupts!EveryFrameConsumed
=============================================================================
