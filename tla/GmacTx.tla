------------------------------- MODULE GmacTx -------------------------------
(***************************************************************************)
(* The transmit path of the GMAC network interface: low_level_output with  *)
(* HW_GMAC_GetSendPacket and HW_GMAC_StartSendPacket, run by any task that *)
(* holds the lwIP core lock, against the transmit side of the DMA engine   *)
(* (external) and GMAC_IRQHandler, which acknowledges every bit of the     *)
(* status register although only receive interrupts are enabled.           *)
(***************************************************************************)
EXTENDS Naturals, Sequences, FiniteSets

CONSTANTS
    DescNum,        \* GMAC_DESCRIPTOR_NUM, the length of the ring
    Senders,        \* tasks that send through lwIP
    MaskedSenders,  \* of these, the ones that send in a critical section
    MaxPackets,     \* bound: frames accepted
    MaxUnderflows,  \* bound: transmit underflows; 0 for store-and-forward
    Interrupt,      \* LWIP_FREERTOS_WITH_INTERRUPT is defined
    Nobody          \* the core lock is free

ASSUME TxConstants ==
    /\ DescNum \in Nat /\ DescNum >= 2
    /\ MaskedSenders \subseteq Senders
    /\ MaxPackets \in Nat /\ MaxUnderflows \in Nat
    /\ Interrupt \in BOOLEAN
    /\ Nobody \notin Senders

VARIABLES
    own,        \* owner bit of each transmit descriptor
    buf,        \* the frame each transmit buffer holds, 0 for none
    last,       \* _s_last_tx_descriptor
    dma,        \* DMA engine: next descriptor and whether it is suspended
    tu,         \* Register5 bit 2, transmit buffer unavailable
    unf,        \* Register5 bit 5, transmit underflow
    lock,       \* holder of the lwIP core lock
    ousem,      \* low_level_output's semaphore: "null" until created
    pc,         \* where each sender stands
    packet,     \* the buffer HW_GMAC_GetSendPacket gave each sender
    frame,      \* the frame each sender was asked to send
    underflows, \* underflows so far
    accepted,   \* history: frames for which ERR_OK is due, in order
    wire        \* history: frames that left the ring

task == <<lock, ousem, pc, packet, frame>>
ring == <<own, buf, last>>
engine == <<dma, underflows, wire>>
vars == <<own, buf, last, dma, tu, unf, lock, ousem, pc, packet, frame,
          underflows, accepted, wire>>

Ring == 0 .. DescNum - 1

\* Faulty NextDesc: the chain closes one descriptor too late.
NextDescTooLate(i) == IF i = DescNum THEN 0 ELSE i + 1

\* current_descriptor.next: the chain set up by HW_GMAC_InitTxDescriptor.
NextDesc(i) == IF i = DescNum - 1 THEN 0 ELSE i + 1

Init ==
    /\ own = [i \in Ring |-> FALSE] /\ buf = [i \in Ring |-> 0]
    /\ last = 0
    /\ dma = [pos |-> 0, susp |-> FALSE]
    /\ tu = FALSE /\ unf = FALSE
    /\ lock = Nobody /\ ousem = "null"
    /\ pc = [t \in Senders |-> "idle"]
    /\ packet = [t \in Senders |-> 0] /\ frame = [t \in Senders |-> 0]
    /\ underflows = 0 /\ accepted = <<>> /\ wire = <<>>

\* A write to Register1: a suspended engine reads its descriptor again.
Poll == dma' = [dma EXCEPT !.susp = FALSE]

Goto(t, where) == pc' = [pc EXCEPT ![t] = where]

-----------------------------------------------------------------------------
(* low_level_output, called by task t with the core lock held.              *)

\* Faulty Call: the caller does not hold the core lock.
CallUnlocked(t) ==
    /\ pc[t] = "idle" /\ Len(accepted) < MaxPackets
    /\ lock' = t /\ frame' = [frame EXCEPT ![t] = Len(accepted) + 1]
    /\ ousem' = IF ousem = "null" THEN "free" ELSE ousem
    /\ Goto(t, "tps")
    /\ UNCHANGED <<ring, engine, tu, unf, packet, accepted>>

\* Faulty Call: ousem is created but not signalled.
CallUnsignalled(t) ==
    /\ pc[t] = "idle" /\ lock = Nobody /\ Len(accepted) < MaxPackets
    /\ lock' = t /\ frame' = [frame EXCEPT ![t] = Len(accepted) + 1]
    /\ ousem' = IF ousem = "null" THEN "taken" ELSE ousem
    /\ Goto(t, "tps")
    /\ UNCHANGED <<ring, engine, tu, unf, packet, accepted>>

\* LOCK_TCPIP_CORE and the call of netif->linkoutput; the first call of all
\* creates ousem and signals it once.
Call(t) ==
    /\ pc[t] = "idle" /\ lock = Nobody
    /\ Len(accepted) < MaxPackets
    /\ lock' = t
    /\ frame' = [frame EXCEPT ![t] = Len(accepted) + 1]
    /\ ousem' = IF ousem = "null" THEN "free" ELSE ousem
    /\ Goto(t, "tps")
    /\ UNCHANGED <<ring, engine, tu, unf, packet, accepted>>

\* Faulty CheckSuspended: no poll demand.
CheckNothing(t) ==
    /\ pc[t] = "tps" /\ Goto(t, "get")
    /\ UNCHANGED <<ring, engine, tu, unf, lock, ousem, packet, frame, accepted>>

\* Transmit process state 6 (suspended): a poll demand before anything else.
CheckSuspended(t) ==
    /\ pc[t] = "tps"
    /\ IF dma.susp THEN Poll ELSE UNCHANGED dma
    /\ Goto(t, "get")
    /\ UNCHANGED <<ring, tu, unf, lock, ousem, packet, frame, underflows,
                   accepted, wire>>

\* Faulty GetSendPacket: the owner bit is not looked at.
GetOwned(t) ==
    /\ pc[t] = "get"
    /\ packet' = [packet EXCEPT ![t] = last] /\ Goto(t, "wait")
    /\ UNCHANGED <<ring, engine, tu, unf, lock, ousem, frame, accepted>>

\* HW_GMAC_GetSendPacket: -1, hence ERR_USE, while the engine owns the
\* descriptor; otherwise the address of its buffer.
GetSendPacket(t) ==
    /\ pc[t] = "get"
    /\ packet' = [packet EXCEPT ![t] = IF own[last] THEN @ ELSE last]
    /\ Goto(t, IF own[last] THEN "end" ELSE "wait")
    /\ UNCHANGED <<ring, engine, tu, unf, lock, ousem, frame, accepted>>

\* sys_sem_wait(&ousem), for ever.
SemWait(t) ==
    /\ pc[t] = "wait" /\ ousem = "free"
    /\ ousem' = "taken"
    /\ Goto(t, "copy")
    /\ UNCHANGED <<ring, engine, tu, unf, lock, packet, frame, accepted>>

\* The memcpy loop over the pbuf chain.
Copy(t) ==
    /\ pc[t] = "copy"
    /\ buf' = [buf EXCEPT ![packet[t]] = frame[t]]
    /\ Goto(t, "own")
    /\ UNCHANGED <<own, last, engine, tu, unf, lock, ousem, packet, frame,
                   accepted>>

\* HW_GMAC_StartSendPacket up to the hand-over of the descriptor.
GiveDescriptor(t) ==
    /\ pc[t] = "own"
    /\ own' = [own EXCEPT ![last] = TRUE]
    /\ last' = NextDesc(last)
    /\ accepted' = Append(accepted, frame[t])
    /\ Goto(t, "tu")
    /\ UNCHANGED <<buf, engine, tu, unf, lock, ousem, packet, frame>>

\* Faulty CheckUnavailable: TU is cleared with no poll demand.
ClearUnavailable(t) ==
    /\ pc[t] = "tu" /\ tu' = FALSE /\ Goto(t, "end")
    /\ UNCHANGED <<ring, engine, unf, lock, ousem, packet, frame, accepted>>

\* HW_GMAC_StartSendPacket's test of TU: clear it and demand a poll.
CheckUnavailable(t) ==
    /\ pc[t] = "tu"
    /\ IF tu THEN tu' = FALSE /\ Poll ELSE UNCHANGED <<tu, dma>>
    /\ Goto(t, "end")
    /\ UNCHANGED <<ring, unf, lock, ousem, packet, frame, underflows,
                   accepted, wire>>

\* __low_level_output_error: the test of bit 5, then sys_sem_signal, which
\* leaves a full binary semaphore full; return and UNLOCK_TCPIP_CORE.
Finish(t) ==
    /\ pc[t] = "end"
    /\ IF unf THEN unf' = FALSE /\ Poll ELSE UNCHANGED <<unf, dma>>
    /\ ousem' = "free"
    /\ lock' = Nobody
    /\ Goto(t, "idle")
    /\ UNCHANGED <<ring, tu, packet, frame, underflows, accepted, wire>>

Output(t) ==
    \/ CheckSuspended(t) \/ GetSendPacket(t) \/ SemWait(t) \/ Copy(t)
    \/ GiveDescriptor(t) \/ CheckUnavailable(t) \/ Finish(t)

-----------------------------------------------------------------------------
(* The DMA engine and the interrupt handler.                                *)

\* The engine sends the frame of a descriptor it owns and gives it back.
DmaSend ==
    /\ ~dma.susp /\ own[dma.pos]
    /\ wire' = Append(wire, [pkt |-> buf[dma.pos], ok |-> TRUE])
    /\ own' = [own EXCEPT ![dma.pos] = FALSE]
    /\ dma' = [dma EXCEPT !.pos = NextDesc(@)]
    /\ UNCHANGED <<buf, last, tu, unf, task, underflows, accepted>>

\* The CPU owns the next descriptor: TU is set and the engine suspends.
DmaSuspend ==
    /\ ~dma.susp /\ ~own[dma.pos]
    /\ tu' = TRUE
    /\ dma' = [dma EXCEPT !.susp = TRUE]
    /\ UNCHANGED <<ring, unf, task, underflows, accepted, wire>>

\* Underflow: the frame is aborted, bit 5 is set and the engine suspends.
DmaUnderflow ==
    /\ ~dma.susp /\ own[dma.pos] /\ underflows < MaxUnderflows
    /\ underflows' = underflows + 1
    /\ wire' = Append(wire, [pkt |-> buf[dma.pos], ok |-> FALSE])
    /\ own' = [own EXCEPT ![dma.pos] = FALSE]
    /\ dma' = [pos |-> NextDesc(dma.pos), susp |-> TRUE]
    /\ unf' = TRUE
    /\ UNCHANGED <<buf, last, tu, task, accepted>>

\* GMAC_IRQHandler on a received frame: Register5 = 0xffffffff clears TU and
\* bit 5 too.  A sender in a critical section holds it off.
RxInterrupt ==
    /\ Interrupt
    /\ lock \notin MaskedSenders
    /\ tu \/ unf
    /\ tu' = FALSE /\ unf' = FALSE
    /\ UNCHANGED <<ring, engine, task, accepted>>

Dma == DmaSend \/ DmaSuspend \/ DmaUnderflow

Next == (\E t \in Senders : Call(t) \/ Output(t)) \/ Dma \/ RxInterrupt

\* lwIP need not send and the peer need not either; a call that was begun
\* goes on, and the engine works through its ring.
Fairness == WF_vars(Dma) /\ \A t \in Senders : WF_vars(Output(t))

Spec == Init /\ [][Next]_vars /\ Fairness

-----------------------------------------------------------------------------
(* Properties.                                                              *)

\* Every variable has its type.
TypeOK ==
    /\ own \in [Ring -> BOOLEAN] /\ buf \in [Ring -> 0 .. MaxPackets]
    /\ last \in Ring
    /\ dma \in [pos : Ring, susp : BOOLEAN]
    /\ tu \in BOOLEAN /\ unf \in BOOLEAN
    /\ lock \in Senders \cup {Nobody}
    /\ ousem \in {"null", "free", "taken"}
    /\ pc \in [Senders -> {"idle", "tps", "get", "wait", "copy", "own",
                           "tu", "end"}]
    /\ packet \in [Senders -> Ring]
    /\ frame \in [Senders -> 0 .. MaxPackets]
    /\ underflows \in 0 .. MaxUnderflows
    /\ accepted \in Seq(1 .. MaxPackets)
    /\ wire \in Seq([pkt : 0 .. MaxPackets, ok : BOOLEAN])

\* A buffer address obtained before sys_sem_wait is still the buffer of the
\* descriptor that HW_GMAC_StartSendPacket hands over, and the engine owns
\* neither while it is filled.
FillsItsOwnBuffer ==
    \A t \in Senders : pc[t] \in {"wait", "copy", "own"} =>
        packet[t] = last /\ ~own[last]

\* The descriptors the engine owns are the ones from its position up to
\* _s_last_tx_descriptor, and hold the accepted frames still to be sent.
RingHoldsBacklog ==
    \A i \in Ring : own[i] =>
        LET k == IF i >= dma.pos THEN i - dma.pos ELSE i - dma.pos + DescNum
        IN buf[i] = accepted[Len(wire) + k + 1]

\* The ring is sound: both of these, with the types of all variables.
RingIsSound == TypeOK /\ FillsItsOwnBuffer /\ RingHoldsBacklog

\* The service lwIP sees.
Service == INSTANCE TxService WITH
    Packets <- 1 .. MaxPackets, Capacity <- DescNum,
    MayAbort <- MaxUnderflows > 0

\* Safety of the service: order, no loss, no invention, bounded backlog.
ImplementsSafeService == Service!SafeService

\* "@return ERR_OK if the packet could be sent": the service with its
\* liveness, so that every accepted frame leaves.
ImplementsService == Service!Service

\* low_level_output returns, although ousem is waited for with no timeout.
OutputReturns == \A t \in Senders : pc[t] # "idle" ~> pc[t] = "idle"
=============================================================================
