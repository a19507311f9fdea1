------------------------------- MODULE GmacRx -------------------------------
(***************************************************************************)
(* The receive path of the GMAC network interface.                         *)
(*                                                                         *)
(* Three actors share the ring of receive descriptors and the DMA status   *)
(* register Register5:                                                     *)
(*   - the GMAC DMA engine (external), which fills the descriptors it owns *)
(*     and raises RI (bit 6) when a frame is complete;                     *)
(*   - GMAC_IRQHandler, which acknowledges every status bit at once and    *)
(*     gives the counting semaphore g_eth_semaphore;                       *)
(*   - the NETIN task, ethernetif_input, which drains the ring with        *)
(*     low_level_input and hands each frame to lwIP.                       *)
(* There is one core: the handler runs to completion as far as NETIN is    *)
(* concerned, and is held off while NETIN is in a critical section.  The   *)
(* DMA engine interleaves with both at every step.                         *)
(***************************************************************************)
EXTENDS Naturals, Sequences, FiniteSets

CONSTANTS
    DescNum,    \* GMAC_DESCRIPTOR_NUM, the length of the ring
    SemMax,     \* TCPIP_MBOX_SIZE, the limit of g_eth_semaphore
    MaxFrames,  \* bound: frames the peer sends
    MaxFrags,   \* most descriptors one frame can fill
    Interrupt,  \* LWIP_FREERTOS_WITH_INTERRUPT is defined
    Failures    \* subset of {"alloc", "input"}: calls that may fail

ASSUME RxConstants ==
    /\ DescNum \in Nat /\ DescNum >= 2
    /\ SemMax \in Nat \ {0}
    /\ MaxFrames \in Nat
    /\ MaxFrags \in Nat \ {0}
    /\ Interrupt \in BOOLEAN
    /\ Failures \subseteq {"alloc", "input"}

VARIABLES
    desc,     \* the ring: owner bit, first/last segment bits
    buf,      \* what the DMA engine last wrote in each buffer
    dma,      \* DMA engine: next descriptor, frame number, parts written
    ri,       \* Register5 bit 6, receive interrupt
    ru,       \* Register5 bit 7, receive buffer unavailable
    isr,      \* where GMAC_IRQHandler stands
    sem,      \* count of g_eth_semaphore
    pc,       \* where NETIN stands
    last,     \* _s_last_rx_descriptor
    start,    \* config->rx_desc_start
    list,     \* config->rx_buffer_list, rx_buffer_count long
    stop,     \* HW_GMAC_StopRecvPacket's next_descriptor and i
    p,        \* the pbuf in hand, <<>> for NULL
    up,       \* history: pbufs accepted by netif->input, in order
    whole,    \* history: frames the DMA engine completed
    lost      \* history: frames NETIN took and discarded

netin == <<pc, last, start, list, stop, p, up, lost>>
engine == <<dma, whole>>
vars == <<desc, buf, dma, ri, ru, isr, sem, pc, last, start, list, stop, p,
          up, whole, lost>>

Ring == 0 .. DescNum - 1

\* current_descriptor.next: the chain set up by HW_GMAC_InitRxDescriptor.
NextDesc(i) == IF i = DescNum - 1 THEN 0 ELSE i + 1

\* A descriptor handed to the DMA engine: owner = 1, status = 0x00400300.
Handed == [own |-> TRUE, fs |-> TRUE, ls |-> TRUE]

Fragment == [frame : 0 .. MaxFrames, part : 0 .. MaxFrags]

\* Program counters of NETIN inside taskENTER_CRITICAL .. taskEXIT_CRITICAL.
Masked == pc \in {"get", "alloc", "copy", "stop", "exit"}

Init ==
    /\ desc = [i \in Ring |-> Handed]
    /\ buf = [i \in Ring |-> [frame |-> 0, part |-> 0]]
    /\ dma = [pos |-> 0, frame |-> 0, part |-> 0]
    /\ ri = FALSE /\ ru = FALSE /\ isr = "idle" /\ sem = 0
    /\ pc = "wait" /\ last = 0 /\ start = 0 /\ list = <<>>
    /\ stop = [at |-> 0, i |-> 0] /\ p = <<>>
    /\ up = <<>> /\ whole = {} /\ lost = {}

-----------------------------------------------------------------------------
(* The DMA engine.  dma.part = 0 means that no frame is in progress.        *)

\* One descriptor of a frame is filled and closed.  The engine decides at the
\* last part, or closes the frame early (truncated) when it does not own the
\* next descriptor.  RI is raised on the closing one, unless DIC was set.
DmaFill(closing) ==
    LET f == IF dma.part = 0 THEN dma.frame + 1 ELSE dma.frame
    IN /\ desc[dma.pos].own
       /\ f <= MaxFrames
       /\ \/ closing
          \/ ~closing /\ dma.part + 1 < MaxFrags /\ desc[NextDesc(dma.pos)].own
       /\ desc' = [desc EXCEPT ![dma.pos] =
                     [own |-> FALSE, fs |-> dma.part = 0, ls |-> closing]]
       /\ buf' = [buf EXCEPT ![dma.pos] =
                     [frame |-> f, part |-> dma.part + 1]]
       /\ dma' = [pos |-> NextDesc(dma.pos), frame |-> f,
                  part |-> IF closing THEN 0 ELSE dma.part + 1]
       /\ ri' = (ri \/ (closing /\ Interrupt))
       /\ whole' = IF closing THEN whole \cup {f} ELSE whole
       /\ UNCHANGED <<ru, isr, sem, netin>>

\* A frame arrives while the CPU owns the next descriptor: it is dropped and
\* RU is set.  Reception resumes with the next frame or a poll demand.
DmaUnavailable ==
    /\ ~desc[dma.pos].own
    /\ dma.part = 0 /\ dma.frame < MaxFrames
    /\ ru' = TRUE
    /\ dma' = [dma EXCEPT !.frame = @ + 1]
    /\ UNCHANGED <<desc, buf, ri, isr, sem, netin, whole>>

-----------------------------------------------------------------------------
(* GMAC_IRQHandler: RI is the only interrupt enabled in Register7.          *)

\* status = gdma->Register5.
IsrRead ==
    /\ ri /\ isr = "idle" /\ ~Masked
    /\ isr' = "ack"
    /\ UNCHANGED <<desc, buf, engine, ri, ru, sem, netin>>

\* Faulty IsrAckAndGive: the give ignores the limit of the semaphore.
GiveBeyondLimit ==
    /\ isr = "ack" /\ isr' = "idle"
    /\ ri' = FALSE /\ ru' = FALSE /\ sem' = sem + 1
    /\ UNCHANGED <<desc, buf, engine, netin>>

\* gdma->Register5 = 0xffffffff, then xSemaphoreGiveFromISR, which leaves a
\* semaphore at its limit as it is.
IsrAckAndGive ==
    /\ isr = "ack"
    /\ ri' = FALSE /\ ru' = FALSE
    /\ sem' = IF sem < SemMax THEN sem + 1 ELSE sem
    /\ isr' = "idle"
    /\ UNCHANGED <<desc, buf, engine, netin>>

-----------------------------------------------------------------------------
(* The NETIN task.                                                          *)

\* xSemaphoreTake(g_eth_semaphore, portMAX_DELAY), or the end of
\* vTaskDelay(1) in the polling build; then taskENTER_CRITICAL.
Wake ==
    /\ pc = "wait"
    /\ IF Interrupt THEN sem > 0 /\ sem' = sem - 1 ELSE sem' = sem
    /\ pc' = "get"
    /\ UNCHANGED <<last, start, list, stop, p, up, lost, desc, ru>>

\* HW_GMAC_GetRecvPacket: the descriptor still belongs to the DMA engine.
GetNothing ==
    /\ pc = "get" /\ desc[last].own
    /\ p' = <<>> /\ pc' = "exit"
    /\ UNCHANGED <<last, start, list, stop, up, lost, desc, ru, sem>>

\* Faulty GetSegment: the owner bit is not looked at.
GetUnowned ==
    /\ pc = "get"
    /\ start' = last /\ list' = <<last>> /\ last' = NextDesc(last)
    /\ p' = <<>> /\ pc' = "alloc"
    /\ UNCHANGED <<stop, up, lost, desc, ru, sem>>

\* Faulty GetSegment: rx_buffer_count is not reset on the first segment.
GetWithoutReset ==
    /\ pc = "get" /\ ~desc[last].own
    /\ start' = (IF desc[last].fs THEN last ELSE start)
    /\ list' = Append(list, last) /\ last' = NextDesc(last)
    /\ p' = <<>> /\ pc' = IF desc[last].ls THEN "alloc" ELSE "exit"
    /\ UNCHANGED <<stop, up, lost, desc, ru, sem>>

\* HW_GMAC_GetRecvPacket: a filled descriptor is collected.  Only the last
\* segment gives a length; for any other low_level_input returns NULL.
GetSegment ==
    /\ pc = "get" /\ ~desc[last].own
    /\ IF desc[last].fs
         THEN start' = last /\ list' = <<last>>
         ELSE start' = start /\ list' = Append(list, last)
    /\ last' = NextDesc(last)
    /\ p' = <<>>
    /\ pc' = IF desc[last].ls THEN "alloc" ELSE "exit"
    /\ UNCHANGED <<stop, up, lost, desc, ru, sem>>

\* pbuf_alloc(PBUF_RAW, len, PBUF_POOL): on failure the copy is skipped and
\* the frame is given back unread.
Alloc(ok) ==
    /\ pc = "alloc"
    /\ ok \/ "alloc" \in Failures
    /\ pc' = IF ok THEN "copy" ELSE "stop"
    /\ stop' = [at |-> start, i |-> 0]
    /\ lost' = IF ok THEN lost ELSE lost \cup {buf[start].frame}
    /\ UNCHANGED <<last, start, list, p, up, desc, ru, sem>>

\* One turn of the memcpy loop over rx_buffer_list.
CopySegment ==
    /\ pc = "copy"
    /\ p' = Append(p, buf[list[Len(p) + 1]])
    /\ pc' = IF Len(p) + 1 = Len(list) THEN "stop" ELSE "copy"
    /\ UNCHANGED <<last, start, list, stop, up, lost, desc, ru, sem>>

\* Faulty StopSegment: the loop runs once too often.
StopOneMore ==
    /\ pc = "stop" /\ stop.i <= Len(list)
    /\ desc' = [desc EXCEPT ![stop.at] = Handed]
    /\ stop' = [at |-> NextDesc(stop.at), i |-> stop.i + 1]
    /\ UNCHANGED <<pc, last, start, list, p, up, lost, ru, sem>>

\* One turn of the loop of HW_GMAC_StopRecvPacket.
StopSegment ==
    /\ pc = "stop" /\ stop.i < Len(list)
    /\ desc' = [desc EXCEPT ![stop.at] = Handed]
    /\ stop' = [at |-> NextDesc(stop.at), i |-> stop.i + 1]
    /\ UNCHANGED <<pc, last, start, list, p, up, lost, ru, sem>>

\* The end of low_level_input: RBUS is cleared and a poll demand issued.
StopDone ==
    /\ pc = "stop" /\ stop.i >= Len(list)
    /\ ru' = FALSE
    /\ pc' = "exit"
    /\ UNCHANGED <<last, start, list, stop, p, up, lost, desc, sem>>

\* taskEXIT_CRITICAL: interrupts are open until the frame is handed up.
ExitCritical ==
    /\ pc = "exit"
    /\ pc' = IF p = <<>> THEN "wait" ELSE "handoff"
    /\ UNCHANGED <<last, start, list, stop, p, up, lost, desc, ru, sem>>

\* Faulty InputOk: one frame per wake-up, no return to TRY_GET_NEXT_FRAGMENT.
InputOkThenWait ==
    /\ pc = "handoff"
    /\ up' = Append(up, p) /\ p' = <<>> /\ pc' = "wait"
    /\ UNCHANGED <<last, start, list, stop, lost, desc, ru, sem>>

\* netif->input returns ERR_OK: one count is dropped without waiting, and
\* the next frame is tried in the same critical section.
InputOk ==
    /\ pc = "handoff"
    /\ up' = Append(up, p) /\ p' = <<>>
    /\ sem' = IF Interrupt /\ sem > 0 THEN sem - 1 ELSE sem
    /\ pc' = "get"
    /\ UNCHANGED <<last, start, list, stop, lost, desc, ru>>

\* netif->input fails: pbuf_free(p), and the drain loop ends.
InputError ==
    /\ pc = "handoff" /\ "input" \in Failures
    /\ lost' = lost \cup {p[1].frame} /\ p' = <<>>
    /\ pc' = "wait"
    /\ UNCHANGED <<last, start, list, stop, up, desc, ru, sem>>

Netin ==
    /\ isr = "idle"
    /\ \/ Wake \/ GetNothing \/ GetSegment
       \/ \E ok \in BOOLEAN : Alloc(ok)
       \/ CopySegment \/ StopSegment \/ StopDone
       \/ ExitCritical \/ InputOk \/ InputError
    /\ UNCHANGED <<buf, engine, ri, isr>>

Dma == DmaUnavailable \/ \E closing \in BOOLEAN : DmaFill(closing)
Isr == IsrRead \/ IsrAckAndGive

Next == Dma \/ Isr \/ Netin

\* The peer may stop sending, but the engine finishes a frame it has begun;
\* a pending interrupt is taken once unmasked; NETIN is scheduled, since the
\* tasks above it (iperf, tcpip_thread, timers) all block.
Fairness ==
    /\ WF_vars(dma.part > 0 /\ Dma)
    /\ WF_vars(Isr)
    /\ WF_vars(Netin)

Spec == Init /\ [][Next]_vars /\ Fairness

-----------------------------------------------------------------------------
(* Properties.                                                              *)

\* Every variable has its type.
TypeOK ==
    /\ desc \in [Ring -> [own : BOOLEAN, fs : BOOLEAN, ls : BOOLEAN]]
    /\ buf \in [Ring -> Fragment]
    /\ dma \in [pos : Ring, frame : 0 .. MaxFrames, part : 0 .. MaxFrags]
    /\ ri \in BOOLEAN /\ ru \in BOOLEAN
    /\ isr \in {"idle", "ack"}
    /\ sem \in 0 .. SemMax
    /\ pc \in {"wait", "get", "alloc", "copy", "stop", "exit", "handoff"}
    /\ last \in Ring /\ start \in Ring
    /\ list \in Seq(Ring)
    /\ stop \in [at : Ring, i : Nat]
    /\ p \in Seq(Fragment)
    /\ up \in Seq(Seq(Fragment))
    /\ whole \subseteq 1 .. MaxFrames /\ lost \subseteq 0 .. MaxFrames

\* rx_buffer_list has room for every segment HW_GMAC_GetRecvPacket appends.
ListFits == Len(list) <= DescNum

\* While low_level_input reads the buffers it collected, and until
\* HW_GMAC_StopRecvPacket reaches each of them, the DMA engine owns none.
HeldBuffersAreOurs ==
    /\ pc \in {"alloc", "copy"} =>
         \A k \in DOMAIN list : ~desc[list[k]].own
    /\ pc = "stop" =>
         \A k \in DOMAIN list : k > stop.i => ~desc[list[k]].own

\* The segments NETIN collected: both of these.
SegmentsAreOurs == ListFits /\ HeldBuffersAreOurs

\* A pbuf holds parts 1, 2, ... of a single frame, in their order.
Intact(b) ==
    \A k \in DOMAIN b : b[k] = [frame |-> b[1].frame, part |-> k]

\* lwIP is given frames in the order of the wire, none twice, and each is
\* made of its own first parts, without a gap and with none of another frame,
\* although a descriptor may be refilled at any time (a frame the engine
\* truncated is short: how many parts it should have had is not asked).
FramesIntactInOrder ==
    /\ \A k \in DOMAIN up : up[k] # <<>> /\ Intact(up[k])
    /\ \A j, k \in DOMAIN up : j < k => up[j][1].frame < up[k][1].frame

\* The frame f has left the ring: lwIP has it, or NETIN discarded it.
Consumed(f) == f \in lost \/ \E k \in DOMAIN up : up[k][1].frame = f

\* No completed frame vanishes: it was consumed, is in NETIN's hand, or its
\* closing descriptor still waits in the ring.
EveryFrameAccountedFor ==
    \A f \in whole :
        \/ Consumed(f)
        \/ p # <<>> /\ p[1].frame = f
        \/ \E i \in Ring : ~desc[i].own /\ desc[i].ls /\ buf[i].frame = f

\* NETIN blocks on g_eth_semaphore and nothing is on its way to wake it.
Asleep == Interrupt /\ pc = "wait" /\ sem = 0 /\ ~ri /\ isr = "idle"

\* "This function should be called when a packet is ready to be read": while
\* NETIN sleeps, no descriptor of the ring holds the end of a frame.
NoFrameStranded ==
    Asleep => \A i \in Ring : desc[i].own \/ ~desc[i].ls

\* Every frame completed in the ring is in the end consumed by NETIN.
EveryFrameConsumed ==
    \A f \in 1 .. MaxFrames : f \in whole ~> Consumed(f)
=============================================================================
