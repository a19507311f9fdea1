----------------------------- MODULE TxService ------------------------------
(***************************************************************************)
(* What netif->linkoutput promises to lwIP, with no descriptors and no     *)
(* DMA: a frame for which ERR_OK is returned joins a bounded queue, frames *)
(* leave the queue on the wire in the order they joined it, and every      *)
(* frame that joined leaves.  A refused frame (ERR_USE) leaves no trace.   *)
(***************************************************************************)
EXTENDS Naturals, Sequences

CONSTANTS
    Packets,    \* frames lwIP may send
    Capacity,   \* most frames accepted and not yet sent
    MayAbort    \* the wire may abort a frame (transmit underflow)

VARIABLES
    accepted,   \* frames for which ERR_OK is due, in order
    wire        \* frames that left, with FALSE for an aborted one

serviceVars == <<accepted, wire>>

ServiceInit == accepted = <<>> /\ wire = <<>>

\* A frame is accepted while there is room.
Accept(f) ==
    /\ Len(accepted) - Len(wire) < Capacity
    /\ accepted' = Append(accepted, f)
    /\ UNCHANGED wire

\* The oldest frame leaves.
Leave(ok) ==
    /\ ok \/ MayAbort
    /\ Len(wire) < Len(accepted)
    /\ wire' = Append(wire, [pkt |-> accepted[Len(wire) + 1], ok |-> ok])
    /\ UNCHANGED accepted

ServiceNext == (\E f \in Packets : Accept(f)) \/ (\E ok \in BOOLEAN : Leave(ok))

SafeService == ServiceInit /\ [][ServiceNext]_serviceVars
Service == SafeService /\ WF_serviceVars(\E ok \in BOOLEAN : Leave(ok))
=============================================================================
