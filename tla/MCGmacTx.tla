------------------------------ MODULE MCGmacTx ------------------------------
(* Three small instances of GmacTx, of which each behaviour is one: the      *)
(* polling build, the build with receive interrupts, and that build with a   *)
(* MAC that does not store and forward, whose frames may underflow.          *)
EXTENDS GmacTx

VARIABLE build      \* "poll", "irq" or "underflow"

Polling == INSTANCE GmacTx WITH Interrupt <- FALSE, MaxUnderflows <- 0
Interrupts == INSTANCE GmacTx WITH MaxUnderflows <- 0

MCInit == Init /\ build \in {"poll", "irq", "underflow"}

MCNext ==
    /\ UNCHANGED build
    /\ \/ build = "poll" /\ Polling!Next
       \/ build = "irq" /\ Interrupts!Next
       \/ build = "underflow" /\ Next

\* The fairness of GmacTx, which the three instances share: an underflow is
\* possible only where sending is.
MCSpec == MCInit /\ [][MCNext]_<<vars, build>> /\ Fairness

\* "@return ERR_OK if the packet could be sent": in the polling build every
\* frame that was accepted leaves, without the help of a later call.  Where
\* receive interrupts may acknowledge TU unseen, whatever was accepted leaves
\* once low_level_output is called again, though the engine was suspended.
AcceptedLeaves ==
    \A n \in 1 .. MaxPackets :
        /\ (build = "poll" /\ Len(accepted) >= n) ~> (Len(wire) >= n)
        /\ (/\ build # "underflow" /\ Len(accepted) >= n
            /\ \E t \in Senders : pc[t] = "tps") ~> (Len(wire) >= n)
=============================================================================
