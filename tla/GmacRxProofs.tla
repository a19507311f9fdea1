---------------------------- MODULE GmacRxProofs ----------------------------
(***************************************************************************)
(* Theorems about the receive path, for every length of the ring, limit of *)
(* the semaphore and number of frames.                                     *)
(***************************************************************************)
EXTENDS GmacRx, TLAPS

-----------------------------------------------------------------------------
(* Type correctness.  TypeOK is not inductive: that CopySegment stays in    *)
(* rx_buffer_list, that a frame handed up is not empty and that the part    *)
(* number stays in range depend on how far each actor has come.             *)

\* What makes the indices of NETIN and of the engine valid.
InBounds ==
    /\ dma.part < MaxFrags
    /\ dma.part > 0 => dma.frame > 0
    /\ pc = "alloc" => list # <<>> /\ p = <<>>
    /\ pc = "copy" => Len(p) < Len(list)
    /\ pc = "handoff" => p # <<>>

TypeInv == TypeOK /\ InBounds

\* The ring is closed under the next pointers of its descriptors.
LEMMA NextDescInRing == \A i \in Ring : NextDesc(i) \in Ring
  BY RxConstants DEF Ring, NextDesc

LEMMA TypeInit == Init => TypeInv
<1> SUFFICES ASSUME Init PROVE TypeInv
  OBVIOUS
<1> USE RxConstants DEF Init
<1>1. 0 \in Ring
  BY DEF Ring
<1>2. TypeOK
  <2>1. Handed \in [own : BOOLEAN, fs : BOOLEAN, ls : BOOLEAN]
    BY DEF Handed
  <2>2. [frame |-> 0, part |-> 0] \in Fragment
    BY DEF Fragment
  <2>3. desc \in [Ring -> [own : BOOLEAN, fs : BOOLEAN, ls : BOOLEAN]]
    BY <2>1
  <2>4. buf \in [Ring -> Fragment]
    BY <2>2
  <2>5. dma \in [pos : Ring, frame : 0 .. MaxFrames, part : 0 .. MaxFrags]
    BY <1>1
  <2>6. stop \in [at : Ring, i : Nat]
    BY <1>1
  <2>7. /\ ri \in BOOLEAN /\ ru \in BOOLEAN /\ isr \in {"idle", "ack"}
        /\ sem \in 0 .. SemMax
        /\ pc \in {"wait", "get", "alloc", "copy", "stop", "exit", "handoff"}
        /\ last \in Ring /\ start \in Ring
    BY <1>1
  <2>8. list \in Seq(Ring) /\ p \in Seq(Fragment) /\ up \in Seq(Seq(Fragment))
    OBVIOUS
  <2>9. whole \subseteq 1 .. MaxFrames /\ lost \subseteq 0 .. MaxFrames
    OBVIOUS
  <2> HIDE DEF Init
  <2> QED
    BY <2>3, <2>4, <2>5, <2>6, <2>7, <2>8, <2>9 DEF TypeOK
<1>3. InBounds
  BY DEF InBounds
<1> QED
  BY <1>2, <1>3 DEF TypeInv

\* Steps of the DMA engine and of the handler.
LEMMA TypeHardware == TypeInv /\ (Dma \/ Isr) => TypeInv'
<1> SUFFICES ASSUME TypeInv, Dma \/ Isr PROVE TypeInv'
  OBVIOUS
<1> USE RxConstants, NextDescInRing DEF TypeInv, TypeOK, InBounds, netin, engine
<1>1. ASSUME NEW closing \in BOOLEAN, DmaFill(closing) PROVE TypeInv'
  <2> DEFINE f == IF dma.part = 0 THEN dma.frame + 1 ELSE dma.frame
  <2>1. f \in 1 .. MaxFrames /\ dma.part + 1 \in 1 .. MaxFrags
    BY <1>1 DEF DmaFill
  <2>2. desc' \in [Ring -> [own : BOOLEAN, fs : BOOLEAN, ls : BOOLEAN]]
    <3> DEFINE d == [own |-> FALSE, fs |-> dma.part = 0, ls |-> closing]
    <3>1. d \in [own : BOOLEAN, fs : BOOLEAN, ls : BOOLEAN]
      OBVIOUS
    <3>2. desc' = [desc EXCEPT ![dma.pos] = d]
      BY <1>1 DEF DmaFill
    <3> HIDE DEF d
    <3> QED
      BY <3>1, <3>2
  <2>5. buf' \in [Ring -> Fragment]
    <3> DEFINE g == dma.part + 1
    <3>2. buf' = [buf EXCEPT ![dma.pos] = [frame |-> f, part |-> g]]
      BY <1>1 DEF DmaFill
    <3>0. f \in 0 .. MaxFrames /\ g \in 0 .. MaxFrags
      BY <2>1
    <3> HIDE DEF f, g
    <3>1. [frame |-> f, part |-> g] \in Fragment
      BY <3>0 DEF Fragment
    <3> QED
      BY <3>1, <3>2
  <2>3. /\ dma' \in [pos : Ring, frame : 0 .. MaxFrames, part : 0 .. MaxFrags]
        /\ dma'.part < MaxFrags
        /\ dma'.part > 0 => dma'.frame > 0
    BY <1>1, <2>1 DEF DmaFill
  <2>4. ri' \in BOOLEAN /\ whole' \subseteq 1 .. MaxFrames
    BY <1>1, <2>1 DEF DmaFill
  <2> QED
    BY <1>1, <2>2, <2>3, <2>4, <2>5 DEF DmaFill
<1>2. CASE DmaUnavailable
  <2>1. dma.frame + 1 \in 0 .. MaxFrames /\ dma.part = 0
    BY <1>2 DEF DmaUnavailable
  <2>2. dma' = [dma EXCEPT !.frame = @ + 1]
    BY <1>2 DEF DmaUnavailable
  <2>3. /\ dma' \in [pos : Ring, frame : 0 .. MaxFrames, part : 0 .. MaxFrags]
        /\ dma'.part = 0
    BY <2>1, <2>2
  <2> QED
    BY <1>2, <2>3 DEF DmaUnavailable
<1>3. CASE IsrRead
  BY <1>3 DEF IsrRead
<1>4. CASE IsrAckAndGive
  <2>1. sem' \in 0 .. SemMax
    BY <1>4 DEF IsrAckAndGive
  <2> QED
    BY <1>4, <2>1 DEF IsrAckAndGive
<1> QED
  BY <1>1, <1>2, <1>3, <1>4 DEF Dma, Isr

\* Steps of NETIN.
LEMMA TypeNetin == TypeInv /\ Netin => TypeInv'
<1> SUFFICES ASSUME TypeInv, Netin PROVE TypeInv'
  OBVIOUS
<1>0. UNCHANGED <<buf, dma, whole, ri, isr>>
  BY DEF Netin, engine
<1> USE RxConstants, NextDescInRing, <1>0 DEF TypeInv, TypeOK, InBounds
<1>1. CASE Wake
  BY <1>1 DEF Wake
<1>2. CASE GetNothing
  BY <1>2 DEF GetNothing
<1>3. CASE GetSegment
  <2>1. start' \in Ring /\ last' \in Ring
    BY <1>3 DEF GetSegment
  <2>2. list' \in Seq(Ring) /\ list' # <<>>
    <3>1. CASE desc[last].fs
      <4>1. list' = <<last>>
        BY <1>3, <3>1 DEF GetSegment
      <4> QED
        BY <4>1
    <3>2. CASE ~desc[last].fs
      <4>1. list' = Append(list, last)
        BY <1>3, <3>2 DEF GetSegment
      <4> QED
        BY <4>1
    <3> QED
      BY <3>1, <3>2
  <2>3. pc' \in {"alloc", "exit"} /\ p' = <<>>
    BY <1>3 DEF GetSegment
  <2>4. UNCHANGED <<stop, up, lost, desc, ru, sem>>
    BY <1>3 DEF GetSegment
  <2> QED
    BY <2>1, <2>2, <2>3, <2>4
<1>4. ASSUME NEW ok \in BOOLEAN, Alloc(ok) PROVE TypeInv'
  <2>1. stop' \in [at : Ring, i : Nat]
    BY <1>4 DEF Alloc
  <2>2. lost' \subseteq 0 .. MaxFrames
    BY <1>4 DEF Alloc, Fragment
  <2>3. pc' \in {"copy", "stop"} /\ Len(p) < Len(list)
    BY <1>4 DEF Alloc
  <2> QED
    BY <1>4, <2>1, <2>2, <2>3 DEF Alloc
<1>5. CASE CopySegment
  BY <1>5 DEF CopySegment
<1>6. CASE StopSegment
  BY <1>6 DEF StopSegment, Handed
<1>7. CASE StopDone
  BY <1>7 DEF StopDone
<1>8. CASE ExitCritical
  BY <1>8 DEF ExitCritical
<1>9. CASE InputOk
  BY <1>9 DEF InputOk
<1>10. CASE InputError
  <2>1. p[1] \in Fragment
    BY <1>10 DEF InputError
  <2>2. lost' \subseteq 0 .. MaxFrames
    BY <1>10, <2>1 DEF InputError, Fragment
  <2> QED
    BY <1>10, <2>2 DEF InputError
<1> QED
  BY <1>1, <1>2, <1>3, <1>4, <1>5, <1>6, <1>7, <1>8, <1>9, <1>10 DEF Netin

LEMMA TypeStep == TypeInv /\ [Next]_vars => TypeInv'
<1>1. TypeInv /\ UNCHANGED vars => TypeInv'
  BY DEF TypeInv, TypeOK, InBounds, vars
<1> QED
  BY <1>1, TypeHardware, TypeNetin DEF Next

\* Every variable keeps its type: the count of g_eth_semaphore stays within
\* its limit, and every index NETIN and the engine use is one of the ring.
THEOREM TypeCorrect == Spec => []TypeOK
<1>1. TypeInv => TypeOK
  BY DEF TypeInv
<1> QED
  BY <1>1, TypeInit, TypeStep, PTL DEF Spec

-----------------------------------------------------------------------------
(* No frame is stranded, when each frame fits one descriptor and no call    *)
(* fails.  NoFrameStranded speaks of every descriptor, the drain loop only  *)
(* of the next one.  The bridge is the shape of the ring: the filled        *)
(* descriptors form one arc that ends where the engine stands and begins    *)
(* where NETIN reads next, or at the descriptor NETIN is copying from.      *)

OneSegment == MaxFrags = 1 /\ Failures = {}

\* NETIN holds a descriptor that it has read and not yet given back.
Holding == pc \in {"alloc", "copy"} \/ (pc = "stop" /\ stop.i = 0)

\* The oldest descriptor the engine has filled, if there is one.
Base == IF Holding THEN start ELSE last

\* Descriptor i lies on the arc from b up to where the engine stands.
OnArc(b, i) ==
    IF b <= dma.pos THEN b <= i /\ i < dma.pos ELSE b <= i \/ i < dma.pos

\* The filled descriptors are those of the arc; an arc that meets its own
\* beginning is empty or the whole ring.
RingShape ==
    /\ dma.part = 0
    /\ \A i \in Ring : desc[i].fs /\ desc[i].ls
    /\ IF Base = dma.pos
         THEN (\A i \in Ring : desc[i].own) \/ (\A i \in Ring : ~desc[i].own)
         ELSE \A i \in Ring : desc[i].own <=> ~OnArc(Base, i)

\* What NETIN holds is the one descriptor just before last.
HoldsOne ==
    /\ Holding => ~desc[start].own /\ last = NextDesc(start)
    /\ pc \in {"alloc", "copy", "stop"} => Len(list) = 1
    /\ pc \in {"alloc", "copy"} => p = <<>>
    /\ pc = "stop" => p # <<>> /\ stop.i \in {0, 1}
    /\ pc = "copy" => stop = [at |-> start, i |-> 0]
    /\ (pc = "stop" /\ stop.i = 0) => stop.at = start

\* If the next descriptor is filled, NETIN is about to look at it or will be
\* woken to do so.
WakeupPending ==
    (Interrupt /\ ~desc[last].own) =>
        \/ ri \/ isr = "ack" \/ sem > 0
        \/ pc \in {"get", "alloc", "copy", "stop", "handoff"}
        \/ pc = "exit" /\ p # <<>>

RxInv == TypeInv /\ RingShape /\ HoldsOne /\ WakeupPending

LEMMA RxInit == Init => RxInv
<1> SUFFICES ASSUME Init PROVE RxInv
  OBVIOUS
<1>1. TypeInv
  BY TypeInit
<1>2. RingShape
  BY RxConstants DEF Init, RingShape, Base, Holding, Handed
<1>3. HoldsOne
  BY DEF Init, HoldsOne, Holding
<1>4. WakeupPending
  BY RxConstants DEF Init, WakeupPending, Ring, Handed
<1> QED
  BY <1>1, <1>2, <1>3, <1>4 DEF RxInv

\* The engine fills a descriptor: the arc grows at its end, and RI is raised.
LEMMA RxDmaFill ==
    ASSUME OneSegment, RxInv, NEW closing \in BOOLEAN, DmaFill(closing)
    PROVE  RingShape' /\ HoldsOne' /\ WakeupPending'
<1>1. closing /\ dma.part = 0
  BY RxConstants DEF OneSegment, RxInv, RingShape, DmaFill
<1>2. /\ desc[dma.pos].own
      /\ desc' = [desc EXCEPT ![dma.pos] =
                    [own |-> FALSE, fs |-> TRUE, ls |-> TRUE]]
      /\ dma'.pos = NextDesc(dma.pos) /\ dma'.part = 0
      /\ Interrupt => ri'
  BY <1>1 DEF DmaFill
<1>3. UNCHANGED <<isr, sem, pc, last, start, list, stop, p>>
  BY DEF DmaFill, netin
<1>4. /\ desc \in [Ring -> [own : BOOLEAN, fs : BOOLEAN, ls : BOOLEAN]]
      /\ dma.pos \in Ring /\ Base \in Ring
  BY DEF RxInv, TypeInv, TypeOK, Base
<1>5. /\ Base' = Base /\ (Holding' <=> Holding)
  BY <1>3 DEF Base, Holding
<1>6. /\ ~desc'[dma.pos].own /\ desc'[dma.pos].fs /\ desc'[dma.pos].ls
      /\ \A i \in Ring : i # dma.pos => desc'[i] = desc[i]
  BY <1>2, <1>4
<1>7. RingShape'
  <2>1. \A i \in Ring : desc'[i].fs /\ desc'[i].ls
    BY <1>6 DEF RxInv, RingShape
  <2>2. CASE Base = dma.pos
    <3>1. \A i \in Ring : desc[i].own
      BY <2>2, <1>2, <1>4 DEF RxInv, RingShape
    <3>2. Base # dma'.pos
      BY <2>2, <1>2, <1>4, RxConstants DEF NextDesc, Ring
    <3>3. \A i \in Ring : OnArc(Base, i)' <=> i = dma.pos
      BY <2>2, <1>2, <1>4, <1>5, RxConstants DEF NextDesc, Ring, OnArc
    <3> QED
      BY <1>2, <1>5, <1>6, <2>1, <3>1, <3>2, <3>3 DEF RingShape
  <2>3. CASE Base # dma.pos /\ NextDesc(dma.pos) = Base
    <3>1. \A i \in Ring : OnArc(Base, i) \/ i = dma.pos
      BY <2>3, <1>4, RxConstants DEF NextDesc, Ring, OnArc
    <3>2. \A i \in Ring : ~desc'[i].own
      BY <2>3, <3>1, <1>4, <1>6 DEF RxInv, RingShape
    <3> QED
      BY <1>2, <1>5, <2>1, <2>3, <3>2 DEF RingShape
  <2>4. CASE Base # dma.pos /\ NextDesc(dma.pos) # Base
    <3>1. \A i \in Ring :
            OnArc(Base, i)' <=> (OnArc(Base, i) \/ i = dma.pos)
      BY <2>4, <1>2, <1>4, <1>5, RxConstants DEF NextDesc, Ring, OnArc
    <3>2. \A i \in Ring : desc[i].own <=> ~OnArc(Base, i)
      BY <2>4 DEF RxInv, RingShape
    <3>3. \A i \in Ring : desc'[i].own <=> ~OnArc(Base, i)'
      BY <3>1, <3>2, <1>6
    <3> QED
      BY <1>2, <1>5, <2>1, <2>4, <3>3 DEF RingShape
  <2> QED
    BY <2>2, <2>3, <2>4
<1>8. HoldsOne'
  <2>1. Holding => ~desc'[start].own
    BY <1>4, <1>6 DEF RxInv, HoldsOne, TypeInv, TypeOK
  <2> QED
    BY <1>3, <1>5, <2>1 DEF RxInv, HoldsOne
<1>9. WakeupPending'
  BY <1>2 DEF WakeupPending
<1> QED
  BY <1>7, <1>8, <1>9

\* Nothing but the engine and HW_GMAC_StopRecvPacket changes the ring.
LEMMA SameRing ==
    ASSUME RxInv, UNCHANGED <<desc, dma>>, Base' = Base
    PROVE  RingShape'
  BY DEF RxInv, RingShape, OnArc

\* HW_GMAC_StopRecvPacket returns the descriptor NETIN holds: the arc loses
\* its first descriptor.
LEMMA RxStopSegment ==
    ASSUME RxInv, StopSegment, UNCHANGED dma
    PROVE  RingShape' /\ HoldsOne'
<1>1. /\ Holding /\ Base = start /\ stop.at = start /\ last = NextDesc(start)
      /\ ~desc[start].own /\ Len(list) = 1 /\ p # <<>> /\ stop.i = 0
  <2>1. /\ pc = "stop" /\ stop.i < Len(list)
        /\ Len(list) = 1 /\ p # <<>> /\ stop.i \in {0, 1}
    BY DEF RxInv, HoldsOne, StopSegment
  <2>2. Holding /\ stop.i = 0
    BY <2>1 DEF Holding
  <2> QED
    BY <2>1, <2>2 DEF RxInv, HoldsOne, Base
<1>2. /\ desc' = [desc EXCEPT ![start] = Handed]
      /\ stop' = [at |-> NextDesc(start), i |-> 1]
      /\ pc = "stop" /\ UNCHANGED <<pc, last, start, list, p>>
  BY <1>1 DEF StopSegment
<1>3. /\ desc \in [Ring -> [own : BOOLEAN, fs : BOOLEAN, ls : BOOLEAN]]
      /\ dma.pos \in Ring /\ start \in Ring
  BY DEF RxInv, TypeInv, TypeOK
<1>4. ~Holding' /\ Base' = NextDesc(start)
  BY <1>1, <1>2 DEF Holding, Base
<1>5. /\ desc'[start].own /\ desc'[start].fs /\ desc'[start].ls
      /\ \A i \in Ring : i # start => desc'[i] = desc[i]
  BY <1>2, <1>3 DEF Handed
<1>6. RingShape'
  <2>1. \A i \in Ring : desc'[i].fs /\ desc'[i].ls
    BY <1>5 DEF RxInv, RingShape
  <2>2. CASE start = dma.pos
    <3>1. \A i \in Ring : ~desc[i].own
      BY <2>2, <1>1, <1>3 DEF RxInv, RingShape
    <3>2. NextDesc(start) # dma.pos
      BY <2>2, <1>3, RxConstants DEF NextDesc, Ring
    <3>3. \A i \in Ring : OnArc(Base, i)' <=> i # start
      BY <2>2, <1>3, <1>4, RxConstants DEF NextDesc, Ring, OnArc
    <3> QED
      BY <1>4, <1>5, <2>1, <3>1, <3>2, <3>3 DEF RxInv, RingShape
  <2>3. CASE start # dma.pos /\ NextDesc(start) = dma.pos
    <3>1. \A i \in Ring : OnArc(start, i) <=> i = start
      BY <2>3, <1>3, RxConstants DEF NextDesc, Ring, OnArc
    <3>2. \A i \in Ring : desc'[i].own
      BY <2>3, <3>1, <1>1, <1>5 DEF RxInv, RingShape
    <3> QED
      BY <1>4, <2>1, <2>3, <3>2 DEF RxInv, RingShape
  <2>4. CASE start # dma.pos /\ NextDesc(start) # dma.pos
    <3>1. \A i \in Ring :
            OnArc(Base, i)' <=> (OnArc(start, i) /\ i # start)
      BY <2>4, <1>3, <1>4, RxConstants DEF NextDesc, Ring, OnArc
    <3>2. \A i \in Ring : desc[i].own <=> ~OnArc(start, i)
      BY <2>4, <1>1 DEF RxInv, RingShape
    <3>3. \A i \in Ring : desc'[i].own <=> ~OnArc(Base, i)'
      BY <3>1, <3>2, <1>5
    <3> QED
      BY <1>4, <2>1, <2>4, <3>3 DEF RxInv, RingShape
  <2> QED
    BY <2>2, <2>3, <2>4
<1>7. HoldsOne'
  BY <1>1, <1>2, <1>4 DEF HoldsOne
<1> QED
  BY <1>6, <1>7

\* Every step of NETIN.
LEMMA RxNetin ==
    ASSUME OneSegment, RxInv, Netin
    PROVE  RingShape' /\ HoldsOne' /\ WakeupPending'
<1>0. UNCHANGED <<dma, ri, isr>>
  BY DEF Netin, engine
<1>t. /\ last \in Ring /\ start \in Ring /\ list \in Seq(Ring)
      /\ p \in Seq(Fragment) /\ sem \in Nat
  BY RxConstants DEF RxInv, TypeInv, TypeOK
<1>1. CASE Wake
  <2>1. UNCHANGED <<desc, last, start, list, stop, p>> /\ pc = "wait" /\ pc' = "get"
    BY <1>1 DEF Wake
  <2>2. Base' = Base /\ ~Holding'
    BY <2>1 DEF Base, Holding
  <2>3. HoldsOne' /\ WakeupPending'
    BY <2>1, <2>2 DEF HoldsOne, WakeupPending
  <2> QED
    BY <1>0, <2>1, <2>2, <2>3, SameRing
<1>2. CASE GetNothing
  <2>1. /\ UNCHANGED <<desc, last, start>> /\ pc = "get" /\ pc' = "exit"
        /\ desc[last].own
    BY <1>2 DEF GetNothing
  <2>2. Base' = Base /\ ~Holding'
    BY <2>1 DEF Base, Holding
  <2>3. HoldsOne' /\ WakeupPending'
    BY <2>1, <2>2 DEF HoldsOne, WakeupPending
  <2> QED
    BY <1>0, <2>1, <2>2, <2>3, SameRing
<1>3. CASE GetSegment
  <2>1. /\ UNCHANGED desc /\ pc = "get" /\ ~desc[last].own
        /\ p' = <<>> /\ last' = NextDesc(last)
    BY <1>3 DEF GetSegment
  <2>2. start' = last /\ list' = <<last>> /\ pc' = "alloc"
    BY <1>3, <1>t DEF GetSegment, RxInv, RingShape
  <2>3. Base' = Base /\ Holding'
    BY <2>1, <2>2 DEF Base, Holding
  <2>4. HoldsOne'
    BY <2>1, <2>2, <2>3 DEF HoldsOne
  <2>5. WakeupPending'
    BY <2>2 DEF WakeupPending
  <2> QED
    BY <1>0, <2>1, <2>3, <2>4, <2>5, SameRing
<1>4. ASSUME NEW ok \in BOOLEAN, Alloc(ok) PROVE RingShape' /\ HoldsOne' /\ WakeupPending'
  <2>1. /\ UNCHANGED <<desc, last, start, list, p>>
        /\ pc = "alloc" /\ pc' = "copy" /\ stop' = [at |-> start, i |-> 0]
    BY <1>4 DEF Alloc, OneSegment
  <2>2. Base' = Base /\ Holding /\ Holding'
    BY <2>1 DEF Base, Holding
  <2>3. HoldsOne' /\ WakeupPending'
    BY <2>1, <2>2 DEF HoldsOne, WakeupPending, RxInv
  <2> QED
    BY <1>0, <2>1, <2>2, <2>3, SameRing
<1>5. CASE CopySegment
  <2>1. /\ UNCHANGED <<desc, last, start, list, stop>>
        /\ pc = "copy" /\ pc' = "stop" /\ p' = Append(p, buf[list[Len(p) + 1]])
        /\ stop = [at |-> start, i |-> 0] /\ Len(list) = 1
    BY <1>5, <1>t DEF CopySegment, RxInv, HoldsOne
  <2>2. Base' = Base /\ Holding /\ Holding'
    BY <2>1 DEF Base, Holding
  <2>3. p' # <<>>
    BY <2>1, <1>t DEF RxInv, TypeInv, TypeOK, InBounds
  <2>4. HoldsOne' /\ WakeupPending'
    BY <2>1, <2>2, <2>3 DEF HoldsOne, WakeupPending, RxInv
  <2> QED
    BY <1>0, <2>1, <2>2, <2>4, SameRing
<1>6. CASE StopSegment
  <2>1. pc' = "stop"
    BY <1>6 DEF StopSegment
  <2> QED
    BY <1>0, <1>6, <2>1, RxStopSegment DEF WakeupPending
<1>7. CASE StopDone
  <2>1. /\ UNCHANGED <<desc, last, start, p>>
        /\ pc = "stop" /\ pc' = "exit" /\ stop.i # 0 /\ p # <<>>
    BY <1>7 DEF StopDone, RxInv, HoldsOne
  <2>2. Base' = Base /\ ~Holding'
    BY <2>1 DEF Base, Holding
  <2>3. HoldsOne' /\ WakeupPending'
    BY <2>1, <2>2 DEF HoldsOne, WakeupPending
  <2> QED
    BY <1>0, <2>1, <2>2, <2>3, SameRing
<1>8. CASE ExitCritical
  <2>1. /\ UNCHANGED <<desc, last, start, p, sem>>
        /\ pc = "exit" /\ pc' = IF p = <<>> THEN "wait" ELSE "handoff"
    BY <1>8 DEF ExitCritical
  <2>2. Base' = Base /\ ~Holding'
    BY <2>1 DEF Base, Holding
  <2>3. HoldsOne'
    BY <2>1, <2>2 DEF HoldsOne
  <2>4. WakeupPending'
    BY <1>0, <2>1 DEF WakeupPending, RxInv
  <2> QED
    BY <1>0, <2>1, <2>2, <2>3, <2>4, SameRing
<1>9. CASE InputOk
  <2>1. UNCHANGED <<desc, last, start>> /\ pc = "handoff" /\ pc' = "get"
    BY <1>9 DEF InputOk
  <2>2. Base' = Base /\ ~Holding'
    BY <2>1 DEF Base, Holding
  <2>3. HoldsOne' /\ WakeupPending'
    BY <2>1, <2>2 DEF HoldsOne, WakeupPending
  <2> QED
    BY <1>0, <2>1, <2>2, <2>3, SameRing
<1>10. ~InputError
  BY DEF InputError, OneSegment
<1> QED
  BY <1>1, <1>2, <1>3, <1>4, <1>5, <1>6, <1>7, <1>8, <1>9, <1>10 DEF Netin

LEMMA RxStep ==
    ASSUME OneSegment PROVE RxInv /\ [Next]_vars => RxInv'
<1> SUFFICES ASSUME RxInv, [Next]_vars PROVE RxInv'
  OBVIOUS
<1>1. TypeInv'
  BY TypeStep DEF RxInv
<1>2. ASSUME UNCHANGED <<desc, pc, last, start, list, stop, p>>, dma'.pos = dma.pos,
             dma'.part = dma.part
      PROVE  RingShape' /\ HoldsOne'
  BY <1>2 DEF RxInv, RingShape, OnArc, HoldsOne, Base, Holding
<1>3. CASE DmaUnavailable
  <2>1. /\ UNCHANGED <<desc, ri, isr, sem, pc, last, start, list, stop, p>>
        /\ dma' = [dma EXCEPT !.frame = @ + 1]
    BY <1>3 DEF DmaUnavailable, netin
  <2>2. dma'.pos = dma.pos /\ dma'.part = dma.part
    BY <2>1 DEF RxInv, TypeInv, TypeOK
  <2>3. WakeupPending'
    BY <2>1 DEF RxInv, WakeupPending
  <2> QED
    BY <1>1, <1>2, <2>1, <2>2, <2>3 DEF RxInv
<1>4. CASE IsrRead
  <2>1. /\ UNCHANGED <<desc, dma, pc, last, start, list, stop, p>>
        /\ isr' = "ack"
    BY <1>4 DEF IsrRead, netin, engine
  <2>2. WakeupPending'
    BY <2>1 DEF WakeupPending
  <2> QED
    BY <1>1, <1>2, <2>1, <2>2 DEF RxInv
<1>5. CASE IsrAckAndGive
  <2>1. /\ UNCHANGED <<desc, dma, pc, last, start, list, stop, p>>
        /\ sem' = IF sem < SemMax THEN sem + 1 ELSE sem
    BY <1>5 DEF IsrAckAndGive, netin, engine
  <2>2. sem' > 0
    BY <2>1, RxConstants DEF RxInv, TypeInv, TypeOK
  <2>3. WakeupPending'
    BY <2>2 DEF WakeupPending
  <2> QED
    BY <1>1, <1>2, <2>1, <2>3 DEF RxInv
<1>6. CASE UNCHANGED vars
  BY <1>1, <1>2, <1>6 DEF RxInv, WakeupPending, vars
<1> QED
  BY <1>1, <1>3, <1>4, <1>5, <1>6, RxDmaFill, RxNetin DEF Next, Dma, Isr, RxInv

\* While NETIN sleeps, no filled descriptor is left in the ring: coalesced
\* interrupts and a semaphore at its limit lose no frame, because the drain
\* loop of ethernetif_input runs until the next descriptor is not filled.
THEOREM NoneStranded ==
    ASSUME OneSegment PROVE Spec => []NoFrameStranded
<1>1. RxInv => NoFrameStranded
  <2> SUFFICES ASSUME RxInv, Asleep, NEW i \in Ring PROVE desc[i].own
    BY DEF NoFrameStranded
  <2>1. desc[last].own /\ Base = last
    BY DEF RxInv, WakeupPending, Asleep, Base, Holding
  <2>2. last \in Ring /\ dma.pos \in Ring
    BY DEF RxInv, TypeInv, TypeOK
  <2>3. Base = dma.pos
    <3>1. Base # dma.pos => OnArc(Base, last)
      BY <2>1, <2>2 DEF OnArc, Ring
    <3> QED
      BY <2>1, <2>2, <3>1 DEF RxInv, RingShape
  <2> QED
    BY <2>1, <2>2, <2>3 DEF RxInv, RingShape
<1> QED
  BY <1>1, RxInit, RxStep, PTL DEF Spec

-----------------------------------------------------------------------------
(* What NETIN collects, copies and hands up, for frames of any number of    *)
(* segments and for calls that fail.  Again the filled descriptors form an  *)
(* arc; NETIN's list is the beginning of it, and NETIN reads next where the *)
(* list ends.  b is the first descriptor of the arc, h the number of them   *)
(* that NETIN holds, n the number of them in all.                           *)

\* How many descriptors of the ring i lies ahead of q, and the one n ahead.
Gap(q, i) == IF i >= q THEN i - q ELSE i - q + DescNum
At(q, n) == IF q + n < DescNum THEN q + n ELSE q + n - DescNum

\* The descriptors the engine has filled are the n from b on.
Arc(b, h, n) ==
    /\ b \in Ring /\ n \in 0 .. DescNum /\ h \in 0 .. n
    /\ last = At(b, h) /\ dma.pos = At(b, n)
    /\ \A i \in Ring : desc[i].own <=> Gap(b, i) >= n

\* The arc is a sequence of frames, each a sequence of parts, and the engine
\* is at the part after the last one.
WireOrder(b, n) ==
    /\ dma.part > 0 => n > 0 /\ n < DescNum
    /\ \A i \in Ring : Gap(b, i) < n =>
         /\ buf[i].part > 0 /\ (desc[i].fs <=> buf[i].part = 1)
         /\ buf[i].frame <= dma.frame
         /\ desc[i].ls /\ dma.part > 0 => buf[i].frame < dma.frame
         /\ Gap(b, i) = n - 1 =>
              IF desc[i].ls THEN dma.part = 0
              ELSE dma.part = buf[i].part /\ dma.frame = buf[i].frame
    /\ \A i, j \in Ring : Gap(b, i) < Gap(b, j) /\ Gap(b, j) < n =>
         /\ buf[i].frame <= buf[j].frame
         /\ desc[i].ls => buf[i].frame < buf[j].frame
    /\ \A i, j \in Ring : Gap(b, j) = Gap(b, i) + 1 /\ Gap(b, j) < n =>
         IF desc[i].ls THEN buf[j].part = 1
         ELSE buf[j] = [frame |-> buf[i].frame, part |-> buf[i].part + 1]

\* NETIN has the end of a frame and works on that frame.
Working == pc \in {"alloc", "copy", "stop"}

\* What NETIN holds is the end of its list: all of the list unless
\* HW_GMAC_StopRecvPacket has given back some of it, and nothing of it once
\* the frame is done with.
Held(b, h, n) ==
    /\ h > 0 =>
         /\ h <= Len(list)
         /\ ~Working => h = Len(list) /\ start = b
         /\ \A i \in Ring : Gap(b, i) < h =>
              LET k == Len(list) - h + Gap(b, i) + 1
              IN /\ list[k] = i
                 /\ buf[i] = [frame |-> buf[b].frame, part |-> k]
                 /\ desc[i].ls <=> (Working /\ Gap(b, i) = h - 1)
    /\ h = 0 /\ n > 0 => buf[b].part = 1
    /\ pc \in {"alloc", "copy"} => h = Len(list) /\ start = b
    /\ pc = "copy" => stop = [at |-> start, i |-> 0]
    /\ pc = "stop" => h = Len(list) - stop.i /\ stop.at = b

\* What NETIN has copied is of the frame it holds, or it holds none; lwIP has
\* only older frames, and the rest of the arc only newer ones.
Copied(b, h, n) ==
    /\ Len(list) <= DescNum
    /\ pc \in {"wait", "get", "alloc"} => p = <<>>
    /\ Intact(p)
    /\ pc = "copy" /\ p # <<>> => p[1].frame = buf[b].frame
    /\ pc = "stop" /\ h > 0 =>
         IF p = <<>> THEN buf[b].frame \in lost ELSE p[1].frame = buf[b].frame
    /\ ~Working /\ p # <<>> => h = 0
    /\ p # <<>> =>
         /\ p[1].frame <= dma.frame
         /\ \A i \in Ring : h <= Gap(b, i) /\ Gap(b, i) < n =>
              p[1].frame < buf[i].frame
    /\ \A k \in DOMAIN up :
         /\ up[k][1].frame <= dma.frame
         /\ p # <<>> => up[k][1].frame < p[1].frame
         /\ \A i \in Ring : Gap(b, i) < n => up[k][1].frame < buf[i].frame

Segments(b, h, n) ==
    Arc(b, h, n) /\ WireOrder(b, n) /\ Held(b, h, n) /\ Copied(b, h, n)

\* The inductive invariant of the data path.
FrameInv ==
    /\ TypeInv /\ FramesIntactInOrder /\ EveryFrameAccountedFor
    /\ \E b \in Ring, h, n \in 0 .. DescNum : Segments(b, h, n)

LEMMA GapRange ==
    \A q, i \in Ring : Gap(q, i) \in 0 .. DescNum - 1 /\ (Gap(q, i) = 0 <=> i = q)
  BY RxConstants DEF Ring, Gap

\* Gap and At are inverse to each other.
LEMMA GapAt ==
    \A q \in Ring :
        /\ \A n \in 0 .. DescNum - 1 : At(q, n) \in Ring /\ Gap(q, At(q, n)) = n
        /\ \A i \in Ring : At(q, Gap(q, i)) = i
        /\ At(q, DescNum) = q
  BY RxConstants DEF Ring, Gap, At

\* When the end of an arc, or its beginning, moves on.
LEMMA AtNext ==
    \A q \in Ring :
        /\ \A n \in 0 .. DescNum - 1 : NextDesc(At(q, n)) = At(q, n + 1)
        /\ \A n \in 1 .. DescNum : At(NextDesc(q), n - 1) = At(q, n)
  BY RxConstants DEF Ring, NextDesc, At

LEMMA GapNext ==
    \A q, i \in Ring :
        Gap(NextDesc(q), i) = IF i = q THEN DescNum - 1 ELSE Gap(q, i) - 1
  BY RxConstants DEF Ring, NextDesc, Gap

\* The types in the form the steps below need them.
LEMMA Typed ==
    ASSUME TypeInv
    PROVE  /\ last \in Ring /\ start \in Ring /\ dma.pos \in Ring
           /\ dma.frame \in Nat /\ dma.part \in Nat
           /\ \A i \in Ring : /\ buf[i].frame \in Nat /\ buf[i].part \in Nat
                              /\ desc[i].own \in BOOLEAN
           /\ list \in Seq(Ring) /\ Len(list) \in Nat
           /\ p \in Seq(Fragment) /\ Len(p) \in Nat
           /\ up \in Seq(Seq(Fragment)) /\ Len(up) \in Nat
           /\ stop.i \in Nat
  BY RxConstants DEF TypeInv, TypeOK, Fragment

LEMMA HeadTyped ==
    ASSUME NEW s \in Seq(Fragment), s # <<>>
    PROVE  1 \in DOMAIN s /\ s[1] \in Fragment /\ s[1].frame \in Nat
<1>1. Len(s) \in Nat /\ Len(s) > 0 /\ DOMAIN s = 1 .. Len(s)
  OBVIOUS
<1>2. s[1] \in Fragment
  BY <1>1
<1> QED
  BY <1>1, <1>2, RxConstants DEF Fragment

LEMMA FrameInit == Init => FrameInv
<1> SUFFICES ASSUME Init PROVE FrameInv
  OBVIOUS
<1>1. TypeInv
  BY TypeInit
<1>2. 0 \in Ring /\ 0 \in 0 .. DescNum /\ At(0, 0) = 0
  BY RxConstants DEF Ring, At
<1>3. \A i \in Ring : Gap(0, i) \in Nat
  BY <1>2, GapRange
<1>4. Arc(0, 0, 0)
  BY <1>2, <1>3 DEF Init, Arc, Handed
<1>5. WireOrder(0, 0)
  BY <1>3 DEF Init, WireOrder
<1>6. Held(0, 0, 0)
  BY <1>3 DEF Init, Held
<1>7. Copied(0, 0, 0)
  BY <1>3, RxConstants DEF Init, Copied, Intact, Working
<1>8. FramesIntactInOrder /\ EveryFrameAccountedFor
  BY DEF Init, FramesIntactInOrder, EveryFrameAccountedFor
<1> QED
  BY <1>1, <1>2, <1>4, <1>5, <1>6, <1>7, <1>8 DEF FrameInv, Segments

\* The engine fills one more descriptor.
LEMMA FrameDmaFill ==
    ASSUME FrameInv, NEW closing \in BOOLEAN, DmaFill(closing), TypeInv'
    PROVE  FrameInv'
<1> DEFINE f == IF dma.part = 0 THEN dma.frame + 1 ELSE dma.frame
           d == [own |-> FALSE, fs |-> dma.part = 0, ls |-> closing]
           g == [frame |-> f, part |-> dma.part + 1]
           q == dma.pos
<1>1. PICK b \in Ring, h \in 0 .. DescNum, n \in 0 .. DescNum : Segments(b, h, n)
  BY DEF FrameInv
<1>2. /\ desc[q].own
      /\ closing \/ (~closing /\ desc[NextDesc(q)].own)
      /\ desc' = [desc EXCEPT ![q] = d]
      /\ buf' = [buf EXCEPT ![q] = g]
      /\ dma' = [pos |-> NextDesc(q), frame |-> f,
                 part |-> IF closing THEN 0 ELSE dma.part + 1]
      /\ whole' = IF closing THEN whole \cup {f} ELSE whole
      /\ UNCHANGED <<pc, last, start, list, stop, p, up, lost>>
  BY DEF DmaFill, netin
<1>t. /\ q \in Ring /\ dma.frame \in Nat /\ dma.part \in Nat
      /\ \A i \in Ring : buf[i].frame \in Nat /\ buf[i].part \in Nat
      /\ Len(list) \in Nat
      /\ desc \in [Ring -> [own : BOOLEAN, fs : BOOLEAN, ls : BOOLEAN]]
      /\ buf \in [Ring -> Fragment] /\ TypeInv
  BY Typed DEF FrameInv, TypeInv, TypeOK
<1>3. /\ f \in Nat /\ dma.frame <= f /\ (dma.part = 0 => f = dma.frame + 1)
      /\ (dma.part > 0 => f = dma.frame)
      /\ dma'.pos = NextDesc(q) /\ dma'.frame = f
      /\ dma'.part = IF closing THEN 0 ELSE dma.part + 1
  BY ONLY <1>2, <1>t
<1>4. /\ desc'[q] = d /\ buf'[q] = g
      /\ ~desc'[q].own /\ desc'[q].ls = closing /\ (desc'[q].fs <=> dma.part = 0)
      /\ buf'[q].frame = f /\ buf'[q].part = dma.part + 1
      /\ \A i \in Ring : i # q => desc'[i] = desc[i] /\ buf'[i] = buf[i]
  <2>1. /\ desc'[q] = d /\ buf'[q] = g
        /\ \A i \in Ring : i # q => desc'[i] = desc[i] /\ buf'[i] = buf[i]
    BY ONLY <1>2, <1>t
  <2>2. ~d.own /\ d.ls = closing /\ (d.fs <=> dma.part = 0)
        /\ g.frame = f /\ g.part = dma.part + 1
    OBVIOUS
  <2> HIDE DEF d, g, f
  <2> QED
    BY <2>1, <2>2
<1> HIDE DEF d, g, f, q
<1>5. /\ n < DescNum /\ q = At(b, n) /\ Gap(b, q) = n /\ h <= n
      /\ \A i \in Ring : Gap(b, i) \in 0 .. DescNum - 1
      /\ \A i \in Ring : Gap(b, i) < n + 1 <=> (Gap(b, i) < n \/ i = q)
      /\ \A i \in Ring : Gap(b, i) < n => i # q
      /\ NextDesc(q) = At(b, n + 1)
  <2>1. /\ q = At(b, n) /\ desc[q].own /\ h \in 0 .. n
        /\ \A i \in Ring : desc[i].own <=> Gap(b, i) >= n
    BY ONLY <1>1, <1>2 DEF Segments, Arc, q
  <2>2. \A i \in Ring : Gap(b, i) \in 0 .. DescNum - 1
    BY ONLY <1>1, GapRange
  <2>3. n < DescNum
    BY ONLY <2>1, <2>2, <1>t, <1>1, RxConstants
  <2>4. Gap(b, q) = n /\ NextDesc(q) = At(b, n + 1)
    BY ONLY <2>1, <2>3, <1>1, GapAt, AtNext, RxConstants
  <2>5. \A i \in Ring : Gap(b, i) = n => i = q
    BY ONLY <2>1, <1>1, GapAt
  <2> QED
    BY ONLY <2>1, <2>2, <2>3, <2>4, <2>5, <1>1
<1>6. Arc(b, h, n + 1)'
  <2>1. \A i \in Ring : desc'[i].own <=> Gap(b, i) >= n + 1
    BY ONLY <1>1, <1>4, <1>5, <1>t, RxConstants DEF Segments, Arc
  <2> QED
    BY ONLY <2>1, <1>1, <1>2, <1>3, <1>5, RxConstants DEF Segments, Arc, q
<1> DEFINE Old(i) == Gap(b, i) < n
<1>7. /\ dma.part > 0 => n > 0
      /\ \A i \in Ring : Old(i) =>
           /\ buf[i].part > 0 /\ (desc[i].fs <=> buf[i].part = 1)
           /\ buf[i].frame <= dma.frame
           /\ desc[i].ls /\ dma.part > 0 => buf[i].frame < dma.frame
           /\ Gap(b, i) = n - 1 =>
                IF desc[i].ls THEN dma.part = 0
                ELSE dma.part = buf[i].part /\ dma.frame = buf[i].frame
      /\ \A i, j \in Ring : Gap(b, i) < Gap(b, j) /\ Old(j) =>
           /\ buf[i].frame <= buf[j].frame
           /\ desc[i].ls => buf[i].frame < buf[j].frame
      /\ \A i, j \in Ring : Gap(b, j) = Gap(b, i) + 1 /\ Old(j) =>
           IF desc[i].ls THEN buf[j].part = 1
           ELSE buf[j] = [frame |-> buf[i].frame, part |-> buf[i].part + 1]
  BY ONLY <1>1 DEF Segments, WireOrder
<1>8. WireOrder(b, n + 1)'
  <2>1. dma'.part > 0 => n + 1 > 0 /\ n + 1 < DescNum
    <3> SUFFICES ASSUME dma'.part > 0, n + 1 >= DescNum PROVE FALSE
      BY <1>1, RxConstants
    <3>1. n + 1 = DescNum /\ n > 0 /\ desc[NextDesc(q)].own
      BY ONLY <1>1, <1>2, <1>3, <1>5, dma'.part > 0, n + 1 >= DescNum, RxConstants
    <3>2. NextDesc(q) = b /\ Gap(b, b) = 0
      BY ONLY <3>1, <1>1, <1>5, GapAt, GapRange
    <3> QED
      BY ONLY <3>1, <3>2, <1>1 DEF Segments, Arc
  <2>2. ASSUME NEW i \in Ring, Gap(b, i) < n + 1
        PROVE  /\ buf'[i].part > 0 /\ (desc'[i].fs <=> buf'[i].part = 1)
               /\ buf'[i].frame <= f
               /\ desc'[i].ls /\ dma'.part > 0 => buf'[i].frame < f
               /\ Gap(b, i) = n =>
                    IF desc'[i].ls THEN dma'.part = 0
                    ELSE dma'.part = buf'[i].part /\ f = buf'[i].frame
    <3>1. CASE i = q
      BY ONLY <3>1, <1>3, <1>4, <1>t
    <3>2. CASE Old(i)
      <4>1. desc'[i] = desc[i] /\ buf'[i] = buf[i] /\ Gap(b, i) # n
        BY ONLY <3>2, <2>2, <1>4, <1>5, <1>1
      <4> QED
        BY ONLY <4>1, <3>2, <1>7, <1>3, <1>t, <1>1, <2>2
    <3> QED
      BY ONLY <3>1, <3>2, <2>2, <1>5
  <2>3. ASSUME NEW i \in Ring, NEW j \in Ring, Gap(b, i) < Gap(b, j), Gap(b, j) < n + 1
        PROVE  /\ buf'[i].frame <= buf'[j].frame
               /\ desc'[i].ls => buf'[i].frame < buf'[j].frame
    <3>1. Old(i) /\ desc'[i] = desc[i] /\ buf'[i] = buf[i]
      BY ONLY <2>3, <1>4, <1>5, <1>1, RxConstants
    <3>2. CASE j = q
      BY ONLY <3>1, <3>2, <1>3, <1>4, <1>7, <1>t
    <3>3. CASE Old(j)
      BY ONLY <3>1, <3>3, <2>3, <1>4, <1>5, <1>7
    <3> QED
      BY ONLY <3>2, <3>3, <2>3, <1>5
  <2>4. ASSUME NEW i \in Ring, NEW j \in Ring, Gap(b, j) = Gap(b, i) + 1, Gap(b, j) < n + 1
        PROVE  IF desc'[i].ls THEN buf'[j].part = 1
               ELSE buf'[j] = [frame |-> buf'[i].frame, part |-> buf'[i].part + 1]
    <3>1. Old(i) /\ desc'[i] = desc[i] /\ buf'[i] = buf[i]
      BY ONLY <2>4, <1>4, <1>5, <1>1, RxConstants
    <3>2. CASE j = q
      <4>1. Gap(b, i) = n - 1
        BY ONLY <3>2, <2>4, <1>5, <1>1, RxConstants
      <4>2. desc[i].ls => dma.part = 0
        BY ONLY <4>1, <3>1, <1>7
      <4>3. ~desc[i].ls => dma.part = buf[i].part /\ f = buf[i].frame
        BY ONLY <4>1, <3>1, <1>7, <1>3, <1>t
      <4> QED
        BY ONLY <4>2, <4>3, <3>1, <3>2, <1>4, <1>t DEF g
    <3>3. CASE Old(j)
      BY ONLY <3>1, <3>3, <2>4, <1>4, <1>5, <1>7
    <3> QED
      BY ONLY <3>2, <3>3, <2>4, <1>5
  <2>5. n + 1 - 1 = n
    BY ONLY <1>1, RxConstants
  <2> QED
    BY ONLY <2>1, <2>2, <2>3, <2>4, <2>5, <1>3 DEF WireOrder
<1>9. /\ h > 0 => buf'[b] = buf[b] /\ Old(b)
      /\ \A i \in Ring : Gap(b, i) < h => desc'[i] = desc[i] /\ buf'[i] = buf[i]
  <2>1. Gap(b, b) = 0
    BY ONLY <1>1, GapRange
  <2> QED
    BY ONLY <2>1, <1>1, <1>4, <1>5, RxConstants
<1>10. Held(b, h, n + 1)'
  <2>1. Held(b, h, n)
    BY <1>1 DEF Segments
  <2>2. Working' = Working
    BY ONLY <1>2 DEF Working
  <2>3. h = 0 => buf'[b].part = 1
    <3>0. Gap(b, b) = 0
      BY ONLY <1>1, GapRange
    <3>1. CASE n = 0
      <4>1. b = q
        BY ONLY <3>0, <3>1, <1>1, <1>5
      <4> QED
        BY ONLY <4>1, <3>1, <1>4, <1>7, <1>t
    <3>2. CASE n > 0
      <4>1. buf'[b] = buf[b]
        BY ONLY <3>0, <3>2, <1>1, <1>4, <1>5
      <4> QED
        BY ONLY <4>1, <3>2, <2>1 DEF Held
    <3> QED
      BY ONLY <3>1, <3>2, <1>1
  <2> QED
    BY ONLY <2>1, <2>2, <2>3, <1>2, <1>9 DEF Held
<1>11. Copied(b, h, n) /\ Held(b, h, n)
  BY <1>1 DEF Segments
\* The newest part already in the ring, when a frame is in progress.
<1>12. ASSUME dma.part > 0
       PROVE  \E j \in Ring : Old(j) /\ buf[j].frame = f /\ (p # <<>> => h <= Gap(b, j))
  <2> DEFINE j == At(b, n - 1)
  <2>1. n - 1 \in 0 .. DescNum - 1 /\ n \in 1 .. DescNum
    BY ONLY <1>12, <1>7, <1>5, <1>1, RxConstants
  <2>2. j \in Ring /\ Gap(b, j) = n - 1
    BY ONLY <2>1, <1>1, GapAt
  <2> HIDE DEF j
  <2>3. Old(j)
    BY ONLY <2>1, <2>2
  <2>4. ~desc[j].ls /\ buf[j].frame = f
    BY ONLY <2>2, <2>3, <1>3, <1>7, <1>12
  <2>5. ASSUME p # <<>>, h > n - 1 PROVE FALSE
    <3>1. h = n /\ h > 0
      BY ONLY <2>1, <2>5, <1>5, <1>1
    <3>2. ~Working
      BY ONLY <3>1, <2>1, <2>2, <2>3, <2>4, <1>11 DEF Held
    <3> QED
      BY ONLY <3>1, <3>2, <2>5, <1>11 DEF Copied
  <2> QED
    BY ONLY <2>1, <2>2, <2>3, <2>4, <2>5, <1>1
<1>13. Copied(b, h, n + 1)'
  <2>1. Working' = Working
    BY ONLY <1>2 DEF Working
  <2>2. Intact(p)'
    BY ONLY <1>2, <1>11 DEF Copied, Intact
  <2>3. ASSUME p # <<>>
        PROVE  /\ p[1].frame <= f
               /\ \A i \in Ring : h <= Gap(b, i) /\ Gap(b, i) < n + 1 =>
                    p[1].frame < buf'[i].frame
    <3>0. p[1].frame \in Nat
      <4>1. p \in Seq(Fragment) /\ p # <<>>
        BY ONLY <1>t, <2>3, Typed
      <4> QED
        BY ONLY <4>1, HeadTyped
    <3>1. /\ p[1].frame <= dma.frame
          /\ \A i \in Ring : h <= Gap(b, i) /\ Gap(b, i) < n => p[1].frame < buf[i].frame
      BY ONLY <2>3, <1>11 DEF Copied
    <3>2. p[1].frame < f
      <4>1. CASE dma.part = 0
        BY ONLY <4>1, <3>0, <3>1, <1>3, <1>t
      <4>2. CASE dma.part > 0
        BY ONLY <4>2, <3>1, <2>3, <1>12
      <4> QED
        BY ONLY <4>1, <4>2, <1>t
    <3>3. ASSUME NEW i \in Ring, h <= Gap(b, i), Gap(b, i) < n + 1
          PROVE  p[1].frame < buf'[i].frame
      BY ONLY <3>1, <3>2, <3>3, <1>4, <1>5
    <3> QED
      BY ONLY <3>0, <3>2, <3>3, <1>3
  <2>4. ASSUME NEW k \in DOMAIN up
        PROVE  /\ up[k][1].frame <= f
               /\ \A i \in Ring : Gap(b, i) < n + 1 => up[k][1].frame < buf'[i].frame
    <3>0. up[k][1].frame \in Nat
      <4>1. up[k] \in Seq(Fragment) /\ up[k] # <<>>
        BY <1>t, Typed DEF FrameInv, FramesIntactInOrder
      <4> QED
        BY ONLY <4>1, HeadTyped
    <3>1. /\ up[k][1].frame <= dma.frame
          /\ \A i \in Ring : Gap(b, i) < n => up[k][1].frame < buf[i].frame
      BY ONLY <2>4, <1>11 DEF Copied
    <3>2. up[k][1].frame < f
      <4>1. CASE dma.part = 0
        BY ONLY <4>1, <3>0, <3>1, <1>3, <1>t
      <4>2. CASE dma.part > 0
        BY ONLY <4>2, <3>1, <1>12
      <4> QED
        BY ONLY <4>1, <4>2, <1>t
    <3>3. ASSUME NEW i \in Ring, Gap(b, i) < n + 1
          PROVE  up[k][1].frame < buf'[i].frame
      BY ONLY <3>1, <3>2, <3>3, <1>4, <1>5
    <3> QED
      BY ONLY <3>0, <3>2, <3>3, <1>3
  <2>5. pc = "copy" /\ p # <<>> => h > 0
    BY ONLY <1>11, <1>t DEF Held, TypeInv, InBounds
  <2>6. /\ (pc = "copy" /\ p # <<>> => p[1].frame = buf'[b].frame)
        /\ (pc = "stop" /\ h > 0 =>
             IF p = <<>> THEN buf'[b].frame \in lost ELSE p[1].frame = buf'[b].frame)
    BY ONLY <2>5, <1>9, <1>11 DEF Copied
  <2> QED
    BY ONLY <2>1, <2>2, <2>3, <2>4, <2>6, <1>2, <1>3, <1>11 DEF Copied
<1>14. FramesIntactInOrder'
  BY ONLY FrameInv, <1>2 DEF FrameInv, FramesIntactInOrder, Intact
<1>15. EveryFrameAccountedFor'
  <2> SUFFICES ASSUME NEW e \in whole'
               PROVE  \/ Consumed(e)
                      \/ p # <<>> /\ p[1].frame = e
                      \/ \E i \in Ring : ~desc'[i].own /\ desc'[i].ls /\ buf'[i].frame = e
    BY <1>2 DEF EveryFrameAccountedFor, Consumed
  <2>1. CASE e \in whole
    <3>1. \A i \in Ring : ~desc[i].own => desc'[i] = desc[i] /\ buf'[i] = buf[i]
      BY ONLY <1>2, <1>4
    <3> QED
      BY ONLY <2>1, <3>1, FrameInv DEF FrameInv, EveryFrameAccountedFor
  <2>2. CASE closing /\ e = f
    BY ONLY <2>2, <1>4, <1>t
  <2> QED
    BY ONLY <2>1, <2>2, <1>2
<1>16. n + 1 \in 0 .. DescNum
  BY ONLY <1>1, <1>5, RxConstants
<1> QED
  BY <1>6, <1>8, <1>10, <1>13, <1>14, <1>15, <1>16 DEF FrameInv, Segments

\* A step that changes neither the ring nor NETIN, though the engine may
\* count a frame it had to drop.
LEMMA FrameQuiet ==
    ASSUME FrameInv, TypeInv', UNCHANGED <<desc, buf, whole, netin>>,
           \/ UNCHANGED dma
           \/ dma.part = 0 /\ dma' = [dma EXCEPT !.frame = @ + 1]
    PROVE  FrameInv'
<1>1. PICK b \in Ring, h \in 0 .. DescNum, n \in 0 .. DescNum : Segments(b, h, n)
  BY DEF FrameInv
<1>2. UNCHANGED <<desc, buf, whole, pc, last, start, list, stop, p, up, lost>>
  BY DEF netin
<1>3. /\ dma'.pos = dma.pos /\ dma'.part = dma.part
      /\ dma.frame \in Nat /\ dma.part \in Nat
      /\ dma'.frame = dma.frame \/ (dma.part = 0 /\ dma'.frame = dma.frame + 1)
  BY Typed DEF FrameInv, TypeInv, TypeOK
<1>4. Arc(b, h, n)' /\ Held(b, h, n)'
  BY ONLY <1>1, <1>2, <1>3 DEF Segments, Arc, Held, Working
<1>5. WireOrder(b, n)'
  <2>1. \A i \in Ring : buf[i].frame \in Nat
    BY Typed DEF FrameInv
  <2>2. CASE dma'.frame = dma.frame
    BY ONLY <2>2, <1>1, <1>2, <1>3 DEF Segments, WireOrder
  <2>3. CASE dma.part = 0 /\ dma'.frame = dma.frame + 1
    <3>1. WireOrder(b, n)
      BY <1>1 DEF Segments
    <3>2. ASSUME NEW i \in Ring, Gap(b, i) < n
          PROVE  /\ buf[i].frame <= dma.frame + 1
                 /\ Gap(b, i) = n - 1 => desc[i].ls
      BY ONLY <3>1, <3>2, <2>1, <2>3, <1>3 DEF WireOrder
    <3> QED
      BY ONLY <3>1, <3>2, <2>3, <1>2, <1>3 DEF WireOrder
  <2> QED
    BY <2>2, <2>3, <1>3
<1>6. Copied(b, h, n)'
  <2>1. Copied(b, h, n)
    BY <1>1 DEF Segments
  <2>2. p # <<>> => p[1].frame \in Nat
    BY Typed, HeadTyped DEF FrameInv
  <2>3. \A k \in DOMAIN up : up[k][1].frame \in Nat
    <3> SUFFICES ASSUME NEW k \in DOMAIN up PROVE up[k][1].frame \in Nat
      OBVIOUS
    <3>1. up[k] \in Seq(Fragment) /\ up[k] # <<>>
      BY Typed DEF FrameInv, FramesIntactInOrder
    <3> QED
      BY ONLY <3>1, HeadTyped
  <2>4. p # <<>> => p[1].frame <= dma'.frame
    BY ONLY <2>1, <2>2, <1>3 DEF Copied
  <2>5. \A k \in DOMAIN up : up[k][1].frame <= dma'.frame
    BY ONLY <2>1, <2>3, <1>3 DEF Copied
  <2> QED
    BY ONLY <2>1, <2>4, <2>5, <1>2 DEF Copied, Intact, Working
<1>7. FramesIntactInOrder' /\ EveryFrameAccountedFor'
  BY ONLY FrameInv, <1>2
     DEF FrameInv, FramesIntactInOrder, Intact, EveryFrameAccountedFor, Consumed
<1> QED
  BY <1>4, <1>5, <1>6, <1>7 DEF FrameInv, Segments

\* Nothing of the arc changes while the ring and last stay as they are.
LEMMA SameArc ==
    ASSUME NEW b, NEW h, NEW n, Segments(b, h, n), UNCHANGED <<desc, buf, dma, last>>
    PROVE  Arc(b, h, n)' /\ WireOrder(b, n)'
  BY DEF Segments, Arc, WireOrder

\* Wake, GetNothing, StopDone and ExitCritical: NETIN moves on with what it
\* has, or with nothing.
LEMMA FrameMove ==
    ASSUME FrameInv, TypeInv', UNCHANGED <<desc, buf, dma, whole>>,
           UNCHANGED <<last, start, list, stop, p, up, lost>>,
           ~Working', Working => pc = "stop" /\ stop.i >= Len(list),
           pc' \in {"wait", "get"} => p = <<>>
    PROVE  FrameInv'
<1>1. PICK b \in Ring, h \in 0 .. DescNum, n \in 0 .. DescNum : Segments(b, h, n)
  BY DEF FrameInv
<1>2. Working => h = 0
  <2>1. stop.i \in Nat /\ Len(list) \in Nat
    BY Typed DEF FrameInv
  <2> QED
    BY <2>1, <1>1 DEF Segments, Held
<1>3. Arc(b, h, n)' /\ WireOrder(b, n)'
  BY <1>1, SameArc
<1>4. Held(b, h, n)'
  BY <1>1, <1>2 DEF Segments, Held, Working
<1>5. Copied(b, h, n)'
  BY <1>1, <1>2 DEF Segments, Copied, Intact, Working
<1>6. FramesIntactInOrder' /\ EveryFrameAccountedFor'
  BY DEF FrameInv, FramesIntactInOrder, Intact, EveryFrameAccountedFor, Consumed
<1> QED
  BY <1>3, <1>4, <1>5, <1>6 DEF FrameInv, Segments

\* HW_GMAC_GetRecvPacket collects a segment: it continues the list, or begins
\* one when the list is done with.
LEMMA FrameGetSegment ==
    ASSUME FrameInv, TypeInv', GetSegment, UNCHANGED <<buf, dma, whole>>
    PROVE  FrameInv'
<1>1. PICK b \in Ring, h \in 0 .. DescNum, n \in 0 .. DescNum : Segments(b, h, n)
  BY DEF FrameInv
<1>2. /\ pc = "get" /\ ~desc[last].own
      /\ last' = NextDesc(last) /\ p' = <<>>
      /\ pc' = IF desc[last].ls THEN "alloc" ELSE "exit"
      /\ UNCHANGED <<stop, up, lost, desc>>
      /\ desc[last].fs => start' = last /\ list' = <<last>>
      /\ ~desc[last].fs => start' = start /\ list' = Append(list, last)
  BY DEF GetSegment
<1>t. /\ last \in Ring /\ list \in Seq(Ring) /\ Len(list) \in Nat
      /\ \A i \in Ring : buf[i].part \in Nat /\ buf[i].frame \in Nat
      /\ \A i \in Ring : buf[i] = [frame |-> buf[i].frame, part |-> buf[i].part]
      /\ dma.part \in Nat
  <2>1. \A i \in Ring : buf[i] \in Fragment
    BY DEF FrameInv, TypeInv, TypeOK
  <2>2. \A r \in Fragment : r = [frame |-> r.frame, part |-> r.part]
    BY DEF Fragment
  <2> QED
    BY <2>1, <2>2, Typed DEF FrameInv
<1>3. /\ p = <<>> /\ ~Working
  BY <1>1, <1>2 DEF Segments, Copied, Working
<1>4. /\ \A i \in Ring : Gap(b, i) \in 0 .. DescNum - 1
      /\ Gap(b, b) = 0
      /\ Gap(b, last) = h /\ h < n /\ last = At(b, h)
      /\ \A i \in Ring : Gap(b, i) < h + 1 <=> (Gap(b, i) < h \/ i = last)
      /\ \A i \in Ring : Gap(b, i) < h => i # last
      /\ NextDesc(last) = At(b, h + 1)
  <2>1. /\ last = At(b, h) /\ h \in 0 .. n
        /\ \A i \in Ring : desc[i].own <=> Gap(b, i) >= n
    BY ONLY <1>1 DEF Segments, Arc
  <2>2. (\A i \in Ring : Gap(b, i) \in 0 .. DescNum - 1) /\ Gap(b, b) = 0
    BY ONLY <1>1, GapRange
  <2>3. Gap(b, last) < n
    BY ONLY <2>1, <2>2, <1>1, <1>2, <1>t, RxConstants
  <2>4. h < DescNum
    <3> SUFFICES ASSUME h = DescNum PROVE FALSE
      BY <1>1, RxConstants
    <3>1. n = DescNum
      BY <2>1, <1>1, RxConstants
    <3>2. last = b /\ h > 0 /\ h = n
      BY <2>1, <3>1, <1>1, GapAt, RxConstants
    <3>3. WireOrder(b, n) /\ Held(b, h, n)
      BY <1>1 DEF Segments
    <3> DEFINE k == DescNum - 1
               j == At(b, k)
    <3>4. k \in 0 .. DescNum - 1
      BY RxConstants
    <3>5. j \in Ring /\ Gap(b, j) = k
      BY <3>4, <1>1, GapAt
    <3> HIDE DEF j
    <3>6. Gap(b, j) < h /\ Gap(b, j) < n /\ Gap(b, j) = n - 1
      BY ONLY <3>1, <3>2, <3>4, <3>5, RxConstants
    <3>7. ~desc[j].ls
      BY ONLY <3>2, <3>3, <3>5, <3>6, <1>3 DEF Held
    <3>10. dma.part > 0
      BY ONLY <3>3, <3>5, <3>6, <3>7 DEF WireOrder
    <3> QED
      BY ONLY <3>1, <3>3, <3>10, RxConstants DEF WireOrder
  <2>5. Gap(b, last) = h
    BY ONLY <2>1, <2>4, <1>1, GapAt, RxConstants
  <2>6. \A i \in Ring : Gap(b, i) = h => i = last
    BY ONLY <2>1, <1>1, GapAt
  <2>7. NextDesc(last) = At(b, h + 1)
    BY ONLY <2>1, <2>4, <1>1, AtNext, RxConstants
  <2> QED
    BY ONLY <2>1, <2>2, <2>3, <2>5, <2>6, <2>7, <1>1, RxConstants
<1>5. WireOrder(b, n) /\ Held(b, h, n) /\ Copied(b, h, n)
  BY <1>1 DEF Segments
<1>6. desc[last].fs <=> buf[last].part = 1
  BY ONLY <1>4, <1>5, <1>t DEF WireOrder
<1>7. h = 0 => desc[last].fs /\ last = b
  BY ONLY <1>1, <1>4, <1>5, <1>6, <1>t DEF Held
\* A segment in the middle of a frame follows the list NETIN holds.
<1>8. h > 0 => /\ ~desc[last].fs /\ h = Len(list) /\ start = b
               /\ buf[last].part = h + 1 /\ buf[last].frame = buf[b].frame
  <2> SUFFICES ASSUME h > 0
               PROVE  /\ ~desc[last].fs /\ h = Len(list) /\ start = b
                      /\ buf[last].part = h + 1 /\ buf[last].frame = buf[b].frame
    OBVIOUS
  <2> DEFINE k == h - 1
             j == At(b, k)
  <2>1. k \in 0 .. DescNum - 1 /\ k < h /\ k + 1 = h
    BY <1>1, RxConstants
  <2>2. j \in Ring /\ Gap(b, j) = k
    BY <2>1, <1>1, GapAt
  <2>3. h = Len(list) /\ start = b
    BY <1>3, <1>5 DEF Held
  <2> HIDE DEF j
  <2>4. /\ ~desc[j].ls
        /\ buf[j] = [frame |-> buf[b].frame, part |-> Len(list) - h + Gap(b, j) + 1]
    BY ONLY <2>1, <2>2, <1>3, <1>5, h > 0 DEF Held
  <2> HIDE DEF k
  <2>5. buf[j].frame = buf[b].frame /\ buf[j].part = h
    BY ONLY <2>1, <2>2, <2>3, <2>4, <1>1, <1>t, RxConstants
  <2>6. Gap(b, last) = Gap(b, j) + 1 /\ Gap(b, last) < n
    BY ONLY <2>1, <2>2, <1>4
  <2>7. buf[last] = [frame |-> buf[j].frame, part |-> buf[j].part + 1]
    BY ONLY <2>2, <2>4, <2>6, <1>5, <1>t DEF WireOrder
  <2> QED
    BY ONLY <2>3, <2>5, <2>7, <1>6, <1>1, h > 0, RxConstants
<1>9. /\ list' \in Seq(Ring) /\ Len(list') = h + 1 /\ start' = b
      /\ list'[h + 1] = last
      /\ \A i \in Ring : Gap(b, i) < h => list'[Gap(b, i) + 1] = i
  <2>1. CASE h = 0
    <3>1. list' = <<last>> /\ start' = b
      BY ONLY <2>1, <1>2, <1>7
    <3> QED
      BY ONLY <3>1, <2>1, <1>t, <1>4
  <2>2. CASE h > 0
    <3>1. list' = Append(list, last) /\ start' = b /\ h = Len(list)
      BY ONLY <2>2, <1>2, <1>8
    <3>2. ASSUME NEW i \in Ring, Gap(b, i) < h PROVE list[Gap(b, i) + 1] = i
      <4>1. list[Len(list) - h + Gap(b, i) + 1] = i
        BY ONLY <3>2, <2>2, <1>5 DEF Held
      <4>2. Len(list) - h + Gap(b, i) + 1 = Gap(b, i) + 1
        BY ONLY <3>1, <1>4, <1>1, RxConstants
      <4> QED
        BY ONLY <4>1, <4>2
    <3>3. ASSUME NEW i \in Ring, Gap(b, i) < h PROVE list'[Gap(b, i) + 1] = i
      <4>1. Gap(b, i) + 1 \in 1 .. Len(list)
        BY ONLY <3>1, <3>3, <1>4, <1>t
      <4> QED
        BY ONLY <4>1, <3>1, <3>2, <3>3, <1>t
    <3>4. /\ list' \in Seq(Ring) /\ Len(list') = Len(list) + 1
          /\ list'[Len(list) + 1] = last
      BY ONLY <3>1, <1>t
    <3> QED
      BY ONLY <3>1, <3>3, <3>4
  <2> QED
    BY ONLY <2>1, <2>2, <1>1, RxConstants
<1>10. buf[last] = [frame |-> buf[b].frame, part |-> h + 1]
  <2>1. buf[last].frame = buf[b].frame /\ buf[last].part = h + 1
    BY ONLY <1>7, <1>8, <1>6, <1>1, RxConstants
  <2> QED
    BY ONLY <2>1, <1>t
<1>11. Arc(b, h + 1, n)' /\ WireOrder(b, n)'
  <2>1. WireOrder(b, n)'
    BY ONLY <1>5, <1>2, UNCHANGED <<buf, dma>> DEF WireOrder
  <2> QED
    BY <2>1, <1>1, <1>2, <1>4, RxConstants DEF Segments, Arc
<1>12. Working' <=> desc[last].ls
  BY ONLY <1>2 DEF Working
<1>13. Held(b, h + 1, n)'
  <2>1. ASSUME NEW i \in Ring, Gap(b, i) < h + 1
        PROVE  /\ list'[Gap(b, i) + 1] = i
               /\ buf[i] = [frame |-> buf[b].frame, part |-> Gap(b, i) + 1]
               /\ desc[i].ls <=> (Working' /\ Gap(b, i) = h)
    <3>1. CASE i = last
      BY ONLY <3>1, <1>4, <1>9, <1>10, <1>12
    <3>2. CASE Gap(b, i) < h
      <4>1. h > 0 /\ h = Len(list)
        BY ONLY <3>2, <1>4, <1>8, <1>1, RxConstants
      <4>2. Len(list) - h + Gap(b, i) + 1 = Gap(b, i) + 1
        BY ONLY <4>1, <1>4, <1>1, RxConstants
      <4>3. /\ buf[i] = [frame |-> buf[b].frame, part |-> Gap(b, i) + 1]
            /\ ~desc[i].ls
        BY ONLY <4>1, <4>2, <3>2, <1>3, <1>5 DEF Held
      <4> QED
        BY ONLY <4>3, <3>2, <1>4, <1>9, <1>1
    <3> QED
      BY ONLY <3>1, <3>2, <2>1, <1>4
  <2>2. \A i \in Ring : Len(list') - (h + 1) + Gap(b, i) + 1 = Gap(b, i) + 1
    BY ONLY <1>1, <1>4, <1>9, RxConstants
  <2>3. h + 1 > 0 /\ h + 1 - 1 = h /\ h + 1 # 0
    BY ONLY <1>1, RxConstants
  <2>4. pc' # "copy" /\ pc' # "stop"
    BY ONLY <1>2
  <2> QED
    BY <2>1, <2>2, <2>3, <2>4, <1>2, <1>9 DEF Held
<1>14. Copied(b, h + 1, n)'
  <2>1. pc' # "copy" /\ pc' # "stop" /\ Intact(p)'
    BY ONLY <1>2 DEF Intact
  <2>2. h + 1 <= DescNum
    BY ONLY <1>1, <1>4, RxConstants
  <2> QED
    BY <2>1, <2>2, <1>2, <1>5, <1>9 DEF Copied
<1>15. FramesIntactInOrder' /\ EveryFrameAccountedFor'
  BY <1>2, <1>3
     DEF FrameInv, FramesIntactInOrder, Intact, EveryFrameAccountedFor, Consumed
<1>16. h + 1 \in 0 .. DescNum
  BY <1>1, <1>4, RxConstants
<1> QED
  BY <1>11, <1>13, <1>14, <1>15, <1>16 DEF FrameInv, Segments

\* pbuf_alloc: NETIN holds the whole list; a frame it cannot copy is lost.
LEMMA FrameAlloc ==
    ASSUME FrameInv, TypeInv', NEW ok \in BOOLEAN, Alloc(ok),
           UNCHANGED <<buf, dma, whole>>
    PROVE  FrameInv'
<1>1. PICK b \in Ring, h \in 0 .. DescNum, n \in 0 .. DescNum : Segments(b, h, n)
  BY DEF FrameInv
<1>2. /\ pc = "alloc" /\ pc' \in {"copy", "stop"}
      /\ stop' = [at |-> start, i |-> 0]
      /\ pc' = "stop" => lost' = lost \cup {buf[start].frame}
      /\ lost \subseteq lost'
      /\ UNCHANGED <<last, start, list, p, up, desc>>
  BY DEF Alloc
<1>3. Held(b, h, n) /\ Copied(b, h, n)
  BY <1>1 DEF Segments
<1>4. /\ h = Len(list) /\ start = b /\ p = <<>> /\ Working /\ Working'
      /\ Len(list) \in Nat
  BY <1>2, <1>3, Typed DEF Held, Copied, Working, FrameInv
<1>5. Arc(b, h, n)' /\ WireOrder(b, n)'
  BY <1>1, <1>2, SameArc
<1>6. Held(b, h, n)'
  <2>1. stop'.at = b /\ stop'.i = 0 /\ h = Len(list) - 0
    BY ONLY <1>2, <1>4
  <2> QED
    BY <2>1, <1>2, <1>3, <1>4 DEF Held
<1>7. Copied(b, h, n)'
  BY <1>2, <1>3, <1>4 DEF Copied, Intact
<1>8. FramesIntactInOrder' /\ EveryFrameAccountedFor'
  BY <1>2
     DEF FrameInv, FramesIntactInOrder, Intact, EveryFrameAccountedFor, Consumed
<1> QED
  BY <1>5, <1>6, <1>7, <1>8 DEF FrameInv, Segments

\* One turn of the memcpy loop: the next part of the frame that NETIN holds.
LEMMA FrameCopySegment ==
    ASSUME FrameInv, TypeInv', CopySegment, UNCHANGED <<buf, dma, whole>>
    PROVE  FrameInv'
<1>1. PICK b \in Ring, h \in 0 .. DescNum, n \in 0 .. DescNum : Segments(b, h, n)
  BY DEF FrameInv
<1>2. /\ pc = "copy" /\ pc' \in {"copy", "stop"}
      /\ p' = Append(p, buf[list[Len(p) + 1]])
      /\ UNCHANGED <<last, start, list, stop, up, lost, desc>>
  BY DEF CopySegment
<1>3. Held(b, h, n) /\ Copied(b, h, n) /\ WireOrder(b, n) /\ h <= n
  BY <1>1 DEF Segments, Arc
<1>t. /\ p \in Seq(Fragment) /\ Len(p) \in Nat /\ Len(p) < Len(list)
      /\ Len(list) \in Nat
      /\ \A i \in Ring : buf[i].frame \in Nat
  BY <1>2, Typed DEF FrameInv, TypeInv, InBounds
<1>4. /\ h = Len(list) /\ start = b /\ h > 0
      /\ stop = [at |-> start, i |-> 0] /\ Working /\ Working'
  BY <1>2, <1>3, <1>t DEF Held, Working
<1>5. \A i \in Ring : Gap(b, i) \in 0 .. DescNum - 1
  BY <1>1, GapRange
<1>6. \A i \in Ring : Gap(b, i) < h =>
        /\ list[Gap(b, i) + 1] = i
        /\ buf[i] = [frame |-> buf[b].frame, part |-> Gap(b, i) + 1]
  <2> SUFFICES ASSUME NEW i \in Ring, Gap(b, i) < h
               PROVE  /\ list[Gap(b, i) + 1] = i
                      /\ buf[i] = [frame |-> buf[b].frame, part |-> Gap(b, i) + 1]
    OBVIOUS
  <2>1. Len(list) - h + Gap(b, i) + 1 = Gap(b, i) + 1
    BY <1>4, <1>5, <1>t
  <2> QED
    BY <2>1, <1>3, <1>4 DEF Held
<1>7. buf[list[Len(p) + 1]] = [frame |-> buf[b].frame, part |-> Len(p) + 1]
  <2> DEFINE j == At(b, Len(p))
  <2>1. Len(p) \in 0 .. DescNum - 1 /\ Len(p) < h
    BY <1>t, <1>4, <1>1, RxConstants
  <2>2. j \in Ring /\ Gap(b, j) = Len(p)
    BY <2>1, <1>1, GapAt
  <2> QED
    BY <2>1, <2>2, <1>6
<1>8. /\ Len(p') = Len(p) + 1 /\ p' # <<>> /\ DOMAIN p' = 1 .. Len(p) + 1
      /\ p'[Len(p) + 1] = [frame |-> buf[b].frame, part |-> Len(p) + 1]
      /\ \A k \in DOMAIN p : p'[k] = p[k]
  <2>1. \A e : /\ Len(Append(p, e)) = Len(p) + 1 /\ Append(p, e) # <<>>
               /\ DOMAIN Append(p, e) = 1 .. Len(p) + 1
               /\ Append(p, e)[Len(p) + 1] = e
               /\ \A k \in DOMAIN p : Append(p, e)[k] = p[k]
    BY ONLY <1>t
  <2> QED
    BY <2>1, <1>2, <1>7
<1>9. p'[1].frame = buf[b].frame
  <2>1. CASE p = <<>>
    BY <2>1, <1>8
  <2>2. CASE p # <<>>
    <3>1. 1 \in DOMAIN p /\ p[1].frame = buf[b].frame
      BY <2>2, <1>2, <1>3, <1>t, HeadTyped DEF Copied
    <3> QED
      BY <3>1, <1>8
  <2> QED
    BY <2>1, <2>2
<1>10. Intact(p)'
  <2> SUFFICES ASSUME NEW k \in DOMAIN p'
               PROVE  p'[k] = [frame |-> buf[b].frame, part |-> k]
    BY <1>9 DEF Intact
  <2>1. CASE k = Len(p) + 1
    BY <2>1, <1>8
  <2>2. CASE k \in DOMAIN p
    <3>1. p # <<>> /\ p[1].frame = buf[b].frame
      BY <2>2, <1>2, <1>3 DEF Copied
    <3>2. p[k] = [frame |-> p[1].frame, part |-> k]
      BY <2>2, <1>3 DEF Copied, Intact
    <3> QED
      BY <2>2, <3>1, <3>2, <1>8
  <2> QED
    BY <2>1, <2>2, <1>8, <1>t
<1>11. Arc(b, h, n)' /\ WireOrder(b, n)'
  BY <1>1, <1>2, SameArc
<1>12. Held(b, h, n)'
  <2>1. h = Len(list) - stop.i /\ stop.at = b
    BY <1>4, <1>t
  <2> QED
    BY <2>1, <1>2, <1>3, <1>4 DEF Held
<1>13. Gap(b, b) = 0 /\ 0 < n
  BY <1>1, <1>3, <1>4, GapRange, RxConstants
<1>14. Copied(b, h, n)'
  <2>1. p'[1].frame <= dma.frame
    BY <1>3, <1>9, <1>13 DEF WireOrder
  <2>2. ASSUME NEW i \in Ring, h <= Gap(b, i), Gap(b, i) < n
        PROVE  buf[b].frame < buf[i].frame
    <3> DEFINE k == h - 1
               j == At(b, k)
    <3>1. k \in 0 .. DescNum - 1 /\ k < h
      BY <1>1, <1>4, RxConstants
    <3>2. j \in Ring /\ Gap(b, j) = k
      BY <3>1, <1>1, GapAt
    <3> HIDE DEF j
    <3>3. desc[j].ls /\ buf[j].frame = buf[b].frame
      <4>1. desc[j].ls
        BY ONLY <3>1, <3>2, <1>3, <1>4 DEF Held
      <4>2. Gap(b, j) < h
        BY ONLY <3>1, <3>2
      <4>3. buf[j] = [frame |-> buf[b].frame, part |-> Gap(b, j) + 1]
        BY ONLY <4>2, <3>2, <1>6
      <4> QED
        BY ONLY <4>1, <4>3
    <3>4. Gap(b, j) < Gap(b, i)
      BY ONLY <3>1, <3>2, <2>2, <1>1, <1>5, RxConstants
    <3> QED
      BY ONLY <3>2, <3>3, <3>4, <2>2, <1>3 DEF WireOrder
  <2>3. \A k \in DOMAIN up : up[k][1].frame < buf[b].frame
    BY <1>3, <1>13 DEF Copied
  <2>4. pc' = "stop" => p' # <<>>
    BY <1>8
  <2> QED
    BY ONLY <2>1, <2>2, <2>3, <2>4, <1>2, <1>3, <1>4, <1>8, <1>9, <1>10, UNCHANGED <<buf, dma>>
       DEF Copied
<1>15. FramesIntactInOrder'
  BY <1>2 DEF FrameInv, FramesIntactInOrder, Intact
<1>16. EveryFrameAccountedFor'
  <2>1. p # <<>> => p'[1].frame = p[1].frame
    BY <1>2, <1>3, <1>9 DEF Copied
  <2> QED
    BY <2>1, <1>2, <1>8 DEF FrameInv, EveryFrameAccountedFor, Consumed
<1> QED
  BY <1>11, <1>12, <1>14, <1>15, <1>16 DEF FrameInv, Segments

\* One turn of HW_GMAC_StopRecvPacket: the arc loses its first descriptor.
LEMMA FrameStopSegment ==
    ASSUME FrameInv, TypeInv', StopSegment, UNCHANGED <<buf, dma, whole>>
    PROVE  FrameInv'
<1>1. PICK b \in Ring, h \in 0 .. DescNum, n \in 0 .. DescNum : Segments(b, h, n)
  BY DEF FrameInv
<1> DEFINE c == NextDesc(b)
<1>2. /\ pc = "stop" /\ stop.i < Len(list)
      /\ desc' = [desc EXCEPT ![stop.at] = Handed]
      /\ stop' = [at |-> NextDesc(stop.at), i |-> stop.i + 1]
      /\ UNCHANGED <<pc, last, start, list, p, up, lost>>
  BY DEF StopSegment
<1>3. Arc(b, h, n) /\ Held(b, h, n) /\ Copied(b, h, n) /\ WireOrder(b, n)
  BY <1>1 DEF Segments
<1>t. /\ Len(list) \in Nat /\ stop.i \in Nat /\ dma.part \in Nat
      /\ \A i \in Ring : buf[i].frame \in Nat
  BY Typed DEF FrameInv
<1>4. /\ stop.at = b /\ h = Len(list) - stop.i /\ h > 0 /\ h <= n /\ n > 0
      /\ Working /\ Working'
  BY <1>1, <1>2, <1>3, <1>t, RxConstants DEF Held, Arc, Working
<1>5. /\ desc'[b].own
      /\ \A i \in Ring : i # b => desc'[i] = desc[i]
  BY <1>1, <1>2, <1>4 DEF FrameInv, TypeInv, TypeOK, Handed
<1>6. /\ c \in Ring /\ Gap(b, b) = 0
      /\ \A i \in Ring : Gap(b, i) \in 0 .. DescNum - 1
      /\ \A i \in Ring : i # b => Gap(b, i) > 0
      /\ \A i \in Ring : Gap(c, i) = IF i = b THEN DescNum - 1 ELSE Gap(b, i) - 1
  BY <1>1, GapRange, GapNext, NextDescInRing, RxConstants
<1>7. /\ h - 1 \in 0 .. DescNum /\ n - 1 \in 0 .. DescNum /\ h - 1 \in 0 .. n - 1
      /\ At(c, h - 1) = At(b, h) /\ At(c, n - 1) = At(b, n)
  BY <1>1, <1>4, AtNext, RxConstants
<1> HIDE DEF c
<1>8. \A i \in Ring : Gap(c, i) < n - 1 =>
         i # b /\ Gap(b, i) = Gap(c, i) + 1 /\ Gap(b, i) < n
  BY <1>1, <1>6, RxConstants
<1>9. Arc(c, h - 1, n - 1)'
  <2>1. \A i \in Ring : desc'[i].own <=> Gap(c, i) >= n - 1
    BY <1>1, <1>3, <1>5, <1>6, RxConstants DEF Arc
  <2> QED
    BY <2>1, <1>2, <1>3, <1>6, <1>7 DEF Arc
\* The first descriptor closes the frame exactly if it is all NETIN holds.
<1>10. desc[b].ls <=> h = 1
  <2>1. desc[b].ls <=> Gap(b, b) = h - 1
    BY ONLY <1>1, <1>3, <1>4, <1>6 DEF Held
  <2> QED
    BY ONLY <2>1, <1>1, <1>6, RxConstants
<1>11. WireOrder(c, n - 1)'
  <2>1. dma.part > 0 => n - 1 > 0 /\ n - 1 < DescNum
    <3> SUFFICES ASSUME dma.part > 0, n = 1 PROVE FALSE
      BY <1>1, <1>3, <1>4, RxConstants DEF WireOrder
    <3>1. h = 1
      BY <1>1, <1>4, RxConstants
    <3> QED
      BY <3>1, <1>1, <1>3, <1>6, <1>10 DEF WireOrder
  <2>2. ASSUME NEW i \in Ring, Gap(c, i) < n - 1
        PROVE  /\ buf[i].part > 0 /\ (desc'[i].fs <=> buf[i].part = 1)
               /\ buf[i].frame <= dma.frame
               /\ desc'[i].ls /\ dma.part > 0 => buf[i].frame < dma.frame
               /\ Gap(c, i) = n - 1 - 1 =>
                    IF desc'[i].ls THEN dma.part = 0
                    ELSE dma.part = buf[i].part /\ dma.frame = buf[i].frame
    <3>1. desc'[i] = desc[i] /\ Gap(b, i) = Gap(c, i) + 1 /\ Gap(b, i) < n
      BY <2>2, <1>5, <1>8
    <3>2. Gap(c, i) = n - 1 - 1 => Gap(b, i) = n - 1
      BY <3>1, <1>1, RxConstants
    <3> QED
      BY ONLY <3>1, <3>2, <1>3 DEF WireOrder
  <2>3. ASSUME NEW i \in Ring, NEW j \in Ring, Gap(c, i) < Gap(c, j), Gap(c, j) < n - 1
        PROVE  /\ buf[i].frame <= buf[j].frame
               /\ desc'[i].ls => buf[i].frame < buf[j].frame
    <3>1. /\ desc'[i] = desc[i] /\ Gap(b, i) < Gap(b, j) /\ Gap(b, j) < n
      <4>1. Gap(c, i) < n - 1
        BY <2>3, <1>1, <1>6, RxConstants
      <4>2. Gap(b, i) = Gap(c, i) + 1 /\ Gap(b, j) = Gap(c, j) + 1
        BY <4>1, <2>3, <1>8
      <4>3. i # b /\ Gap(b, j) < n
        BY <4>1, <2>3, <1>8
      <4> QED
        BY <4>2, <4>3, <2>3, <1>5, <1>6, RxConstants
    <3> QED
      BY ONLY <3>1, <1>3 DEF WireOrder
  <2>4. ASSUME NEW i \in Ring, NEW j \in Ring, Gap(c, j) = Gap(c, i) + 1, Gap(c, j) < n - 1
        PROVE  IF desc'[i].ls THEN buf[j].part = 1
               ELSE buf[j] = [frame |-> buf[i].frame, part |-> buf[i].part + 1]
    <3>1. /\ desc'[i] = desc[i] /\ Gap(b, j) = Gap(b, i) + 1 /\ Gap(b, j) < n
      <4>1. Gap(c, i) < n - 1
        BY <2>4, <1>1, <1>6, RxConstants
      <4>2. Gap(b, i) = Gap(c, i) + 1 /\ Gap(b, j) = Gap(c, j) + 1
        BY <4>1, <2>4, <1>8
      <4>3. i # b /\ Gap(b, j) < n
        BY <4>1, <2>4, <1>8
      <4> QED
        BY <4>2, <4>3, <2>4, <1>5
    <3> QED
      BY ONLY <3>1, <1>3 DEF WireOrder
  <2> QED
    BY ONLY <2>1, <2>2, <2>3, <2>4, UNCHANGED <<buf, dma>> DEF WireOrder
\* If NETIN holds more, the next descriptor is of the same frame.
<1>12. h - 1 > 0 => c # b /\ Gap(b, c) = 1 /\ buf[c].frame = buf[b].frame
  <2> SUFFICES ASSUME h > 1 PROVE c # b /\ Gap(b, c) = 1 /\ buf[c].frame = buf[b].frame
    BY <1>1, RxConstants
  <2>1. c # b /\ Gap(b, c) = 1
    BY <1>1, <1>6, GapRange, RxConstants
  <2>2. Gap(b, c) < h
    BY ONLY <2>1, <1>1, h > 1, RxConstants
  <2>3. buf[c] = [frame |-> buf[b].frame, part |-> Len(list) - h + Gap(b, c) + 1]
    BY ONLY <2>2, <1>3, <1>4, <1>6 DEF Held
  <2> QED
    BY ONLY <2>1, <2>3
<1>13. Held(c, h - 1, n - 1)'
  <2>1. ASSUME h - 1 > 0, NEW i \in Ring, Gap(c, i) < h - 1
        PROVE  LET k == Len(list) - (h - 1) + Gap(c, i) + 1
               IN /\ list[k] = i
                  /\ buf[i] = [frame |-> buf[c].frame, part |-> k]
                  /\ desc'[i].ls <=> Gap(c, i) = h - 1 - 1
    <3>1. /\ i # b /\ Gap(b, i) = Gap(c, i) + 1 /\ Gap(b, i) < h
      BY <2>1, <1>1, <1>4, <1>6, RxConstants
    <3>2. /\ Len(list) - (h - 1) + Gap(c, i) + 1 = Len(list) - h + Gap(b, i) + 1
          /\ (Gap(c, i) = h - 1 - 1 <=> Gap(b, i) = h - 1)
      BY <3>1, <1>1, <1>6, <1>t, RxConstants
    <3>3. LET k == Len(list) - h + Gap(b, i) + 1
          IN /\ list[k] = i
             /\ buf[i] = [frame |-> buf[b].frame, part |-> k]
             /\ desc[i].ls <=> (Working /\ Gap(b, i) = h - 1)
      BY <3>1, <1>3, <1>4 DEF Held
    <3>4. desc'[i] = desc[i] /\ buf[c].frame = buf[b].frame
      BY <2>1, <3>1, <1>5, <1>12
    <3> QED
      BY ONLY <3>2, <3>3, <3>4, <1>4
  <2>2. h - 1 = 0 /\ n - 1 > 0 => buf[c].part = 1
    <3> SUFFICES ASSUME h = 1, n > 1 PROVE buf[c].part = 1
      BY <1>1, RxConstants
    <3>1. c # b
      BY <1>1, <1>6, RxConstants
    <3>2. Gap(b, c) = Gap(b, b) + 1 /\ Gap(b, c) < n
      BY <3>1, <1>1, <1>6, GapRange, RxConstants
    <3> QED
      BY <3>2, <1>1, <1>3, <1>6, <1>10 DEF WireOrder
  <2>3. stop'.at = c /\ stop'.i = stop.i + 1 /\ h - 1 = Len(list) - (stop.i + 1)
    BY <1>2, <1>4, <1>t DEF c
  <2>4. h - 1 <= Len(list)
    BY <1>4, <1>t
  <2> QED
    BY ONLY <2>1, <2>2, <2>3, <2>4, <1>2, <1>4, UNCHANGED buf DEF Held
<1>14. Copied(c, h - 1, n - 1)'
  <2>1. h - 1 > 0 =>
          IF p = <<>> THEN buf[c].frame \in lost ELSE p[1].frame = buf[c].frame
    BY <1>2, <1>3, <1>4, <1>12 DEF Copied
  <2>2. ASSUME NEW i \in Ring, Gap(c, i) < n - 1
        PROVE  Gap(b, i) < n /\ (h - 1 <= Gap(c, i) => h <= Gap(b, i))
    BY <2>2, <1>1, <1>6, <1>8, RxConstants
  <2>3. p # <<>> => \A i \in Ring : h - 1 <= Gap(c, i) /\ Gap(c, i) < n - 1 =>
                      p[1].frame < buf[i].frame
    BY ONLY <2>2, <1>3 DEF Copied
  <2>4. \A k \in DOMAIN up : \A i \in Ring : Gap(c, i) < n - 1 =>
          up[k][1].frame < buf[i].frame
    BY ONLY <2>2, <1>3 DEF Copied
  <2> QED
    BY ONLY <2>1, <2>3, <2>4, <1>2, <1>3, <1>4, UNCHANGED <<buf, dma>> DEF Copied, Intact
<1>15. FramesIntactInOrder'
  BY <1>2 DEF FrameInv, FramesIntactInOrder, Intact
<1>16. EveryFrameAccountedFor'
  <2> SUFFICES ASSUME NEW e \in whole
               PROVE  \/ Consumed(e)
                      \/ p # <<>> /\ p[1].frame = e
                      \/ \E i \in Ring : ~desc'[i].own /\ desc'[i].ls /\ buf[i].frame = e
    BY <1>2 DEF EveryFrameAccountedFor, Consumed
  <2>1. ASSUME NEW i \in Ring, ~desc[i].own, desc[i].ls, buf[i].frame = e, i # b
        PROVE  ~desc'[i].own /\ desc'[i].ls /\ buf[i].frame = e
    BY <2>1, <1>5
  <2>2. CASE buf[b].frame = e
    BY <2>2, <1>2, <1>3, <1>4 DEF Copied, Consumed
  <2> QED
    BY <2>1, <2>2 DEF FrameInv, EveryFrameAccountedFor
<1> QED
  BY <1>6, <1>7, <1>9, <1>11, <1>13, <1>14, <1>15, <1>16 DEF FrameInv, Segments

\* netif->input: lwIP takes the frame, the newest it has seen, or refuses it.
LEMMA FrameInput ==
    ASSUME FrameInv, TypeInv', InputOk \/ InputError, UNCHANGED <<buf, dma, whole>>
    PROVE  FrameInv'
<1>1. PICK b \in Ring, h \in 0 .. DescNum, n \in 0 .. DescNum : Segments(b, h, n)
  BY DEF FrameInv
<1>2. /\ pc = "handoff" /\ pc' \in {"get", "wait"} /\ p' = <<>>
      /\ UNCHANGED <<last, start, list, stop, desc>>
      /\ \/ up' = Append(up, p) /\ lost' = lost
         \/ up' = up /\ lost' = lost \cup {p[1].frame}
  BY DEF InputOk, InputError
<1>3. Held(b, h, n) /\ Copied(b, h, n)
  BY <1>1 DEF Segments
<1>t. /\ up \in Seq(Seq(Fragment)) /\ Len(up) \in Nat
      /\ p \in Seq(Fragment) /\ p # <<>>
  BY <1>2, Typed DEF FrameInv, TypeInv, InBounds
<1>4. h = 0 /\ ~Working /\ ~Working'
  BY <1>2, <1>3, <1>t DEF Copied, Working
<1>5. Arc(b, h, n)' /\ WireOrder(b, n)'
  BY <1>1, <1>2, SameArc
<1>6. Held(b, h, n)'
  BY <1>2, <1>3, <1>4 DEF Held
<1>7. /\ DOMAIN up = 1 .. Len(up)
      /\ up' # up => /\ DOMAIN up' = 1 .. Len(up) + 1
                     /\ up'[Len(up) + 1] = p
                     /\ \A k \in DOMAIN up : up'[k] = up[k]
      /\ up' = up => lost' = lost \cup {p[1].frame}
  <2>1. DOMAIN up = 1 .. Len(up)
    BY ONLY <1>t
  <2>2. /\ DOMAIN Append(up, p) = 1 .. Len(up) + 1
        /\ Append(up, p)[Len(up) + 1] = p /\ Append(up, p) # up
        /\ \A k \in 1 .. Len(up) : Append(up, p)[k] = up[k]
    BY ONLY <1>t
  <2> QED
    BY ONLY <2>1, <2>2, <1>2
<1>8. \A k \in DOMAIN up' : up'[k] = p \/ (k \in DOMAIN up /\ up'[k] = up[k])
  BY ONLY <1>7, <1>t
<1>9. Gap(b, b) = 0 /\ \A i \in Ring : Gap(b, i) \in 0 .. DescNum - 1
  BY <1>1, GapRange
<1>10. Copied(b, h, n)'
  <2>1. ASSUME NEW k \in DOMAIN up'
        PROVE  /\ up'[k][1].frame <= dma.frame
               /\ \A i \in Ring : Gap(b, i) < n => up'[k][1].frame < buf[i].frame
    <3>1. CASE up'[k] = p
      <4>1. \A i \in Ring : h <= Gap(b, i)
        BY ONLY <1>4, <1>9
      <4> QED
        BY ONLY <3>1, <4>1, <1>t, <1>3 DEF Copied
    <3>2. CASE k \in DOMAIN up /\ up'[k] = up[k]
      BY ONLY <3>2, <1>3 DEF Copied
    <3> QED
      BY ONLY <3>1, <3>2, <2>1, <1>8
  <2>2. Intact(p)'
    BY <1>2 DEF Intact
  <2> QED
    BY ONLY <2>1, <2>2, <1>2, <1>3, <1>4, UNCHANGED <<buf, dma>> DEF Copied
<1>11. FramesIntactInOrder'
  <2>1. \A k \in DOMAIN up' : up'[k] # <<>> /\ Intact(up'[k])
    <3>1. Intact(p)
      BY <1>3 DEF Copied
    <3>2. \A k \in DOMAIN up : up[k] # <<>> /\ Intact(up[k])
      BY DEF FrameInv, FramesIntactInOrder
    <3> QED
      BY ONLY <3>1, <3>2, <1>8, <1>t
  <2>2. ASSUME NEW j \in DOMAIN up', NEW k \in DOMAIN up', j < k
        PROVE  up'[j][1].frame < up'[k][1].frame
    <3>1. \A i \in DOMAIN up : up[i][1].frame < p[1].frame
      BY ONLY <1>3, <1>t DEF Copied
    <3>2. \A i, l \in DOMAIN up : i < l => up[i][1].frame < up[l][1].frame
      BY DEF FrameInv, FramesIntactInOrder
    <3>3. CASE up' = up
      BY ONLY <3>2, <3>3, <2>2
    <3>4. CASE up' # up
      <4>1. j \in DOMAIN up /\ (k \in DOMAIN up \/ k = Len(up) + 1)
        BY ONLY <3>4, <2>2, <1>7, <1>t
      <4> QED
        BY ONLY <3>1, <3>2, <3>4, <4>1, <2>2, <1>7
    <3> QED
      BY ONLY <3>3, <3>4
  <2> QED
    BY ONLY <2>1, <2>2 DEF FramesIntactInOrder, Intact
<1>12. EveryFrameAccountedFor'
  <2> DEFINE Done(e) == e \in lost' \/ \E k \in DOMAIN up' : up'[k][1].frame = e
  <2>1. ASSUME NEW e, Consumed(e) PROVE Done(e)
    <3>1. lost \subseteq lost' /\ \A k \in DOMAIN up : k \in DOMAIN up' /\ up'[k] = up[k]
      BY ONLY <1>2, <1>7, <1>t
    <3> QED
      BY ONLY <2>1, <3>1 DEF Consumed
  <2>2. Done(p[1].frame)
    <3>1. CASE up' = up
      BY ONLY <3>1, <1>7
    <3>2. CASE up' # up
      <4>1. Len(up) + 1 \in DOMAIN up' /\ up'[Len(up) + 1] = p
        BY ONLY <3>2, <1>7, <1>t
      <4> QED
        BY ONLY <4>1
    <3> QED
      BY ONLY <3>1, <3>2
  <2>3. ASSUME NEW e \in whole'
        PROVE  \/ Done(e)
               \/ \E i \in Ring : ~desc'[i].own /\ desc'[i].ls /\ buf'[i].frame = e
    <3>1. \/ Consumed(e)
          \/ p[1].frame = e
          \/ \E i \in Ring : ~desc[i].own /\ desc[i].ls /\ buf[i].frame = e
      BY <2>3 DEF FrameInv, EveryFrameAccountedFor
    <3>2. CASE Consumed(e) \/ p[1].frame = e
      BY ONLY <3>2, <2>1, <2>2
    <3>3. CASE \E i \in Ring : ~desc[i].own /\ desc[i].ls /\ buf[i].frame = e
      BY <3>3, <1>2
    <3> QED
      BY ONLY <3>1, <3>2, <3>3
  <2> QED
    BY ONLY <2>3 DEF EveryFrameAccountedFor, Consumed
<1> QED
  BY <1>5, <1>6, <1>10, <1>11, <1>12 DEF FrameInv, Segments

LEMMA FrameStep == FrameInv /\ [Next]_vars => FrameInv'
<1> SUFFICES ASSUME FrameInv, [Next]_vars PROVE FrameInv'
  OBVIOUS
<1>0. TypeInv'
  BY TypeStep DEF FrameInv
<1>1. CASE UNCHANGED vars
  BY <1>0, <1>1, FrameQuiet DEF vars, netin
<1>2. CASE Dma
  <2>1. CASE DmaUnavailable
    BY <1>0, <2>1, FrameQuiet DEF DmaUnavailable
  <2> QED
    BY <1>0, <1>2, <2>1, FrameDmaFill DEF Dma
<1>3. CASE Isr
  BY <1>0, <1>3, FrameQuiet DEF Isr, IsrRead, IsrAckAndGive, engine
<1>4. CASE Netin
  <2>0. UNCHANGED <<buf, dma, whole>>
    BY <1>4 DEF Netin, engine
  <2>1. CASE Wake
    <3>1. p = <<>>
      BY <2>1 DEF Wake, FrameInv, Segments, Copied
    <3> QED
      BY <1>0, <2>0, <2>1, <3>1, FrameMove DEF Wake, Working
  <2>2. CASE GetNothing
    <3>1. p = <<>>
      BY <2>2 DEF GetNothing, FrameInv, Segments, Copied
    <3> QED
      BY <1>0, <2>0, <2>2, <3>1, FrameMove DEF GetNothing, Working
  <2>3. CASE StopDone
    BY <1>0, <2>0, <2>3, FrameMove DEF StopDone, Working
  <2>4. CASE ExitCritical
    BY <1>0, <2>0, <2>4, FrameMove DEF ExitCritical, Working
  <2> QED
    BY <1>0, <1>4, <2>0, <2>1, <2>2, <2>3, <2>4, FrameGetSegment, FrameAlloc,
       FrameCopySegment, FrameStopSegment, FrameInput DEF Netin
<1> QED
  BY <1>1, <1>2, <1>3, <1>4 DEF Next

LEMMA FrameAlways == Spec => []FrameInv
  BY FrameInit, FrameStep, PTL DEF Spec

\* rx_buffer_list never holds more segments than the ring has descriptors,
\* and the engine owns none that NETIN reads or has yet to give back.
THEOREM SegmentsOurs == Spec => []SegmentsAreOurs
<1>1. FrameInv => SegmentsAreOurs
  <2> SUFFICES ASSUME FrameInv PROVE SegmentsAreOurs
    OBVIOUS
  <2>1. PICK b \in Ring, h \in 0 .. DescNum, n \in 0 .. DescNum : Segments(b, h, n)
    BY DEF FrameInv
  <2>2. Arc(b, h, n) /\ Held(b, h, n) /\ h <= n
    BY <2>1 DEF Segments, Arc
  <2>t. Len(list) \in Nat /\ DOMAIN list = 1 .. Len(list) /\ stop.i \in Nat
    BY Typed DEF FrameInv
  <2>3. ListFits
    BY <2>1 DEF Segments, Copied, ListFits
  <2>4. ASSUME NEW k \in DOMAIN list, k > Len(list) - h PROVE ~desc[list[k]].own
    <3> DEFINE m == k - 1 - (Len(list) - h)
               i == At(b, m)
    <3>1. m \in 0 .. DescNum - 1 /\ m < h /\ Len(list) - h + m + 1 = k /\ h > 0
      BY <2>1, <2>4, <2>t, RxConstants
    <3> HIDE DEF m
    <3>2. i \in Ring /\ Gap(b, i) = m
      BY <3>1, <2>1, GapAt
    <3> HIDE DEF i
    <3>3. list[k] = i
      BY ONLY <3>1, <3>2, <2>2 DEF Held
    <3>4. m < n
      BY ONLY <3>1, <2>1, <2>2, RxConstants
    <3> QED
      BY ONLY <3>1, <3>2, <3>3, <3>4, <2>1, <2>2, RxConstants DEF Arc
  <2>5. pc \in {"alloc", "copy"} => \A k \in DOMAIN list : ~desc[list[k]].own
    <3>1. pc \in {"alloc", "copy"} => h = Len(list)
      BY ONLY <2>2 DEF Held
    <3>2. \A k \in DOMAIN list : k > Len(list) - Len(list)
      BY ONLY <2>t
    <3> QED
      BY ONLY <3>1, <3>2, <2>4
  <2>6. pc = "stop" => \A k \in DOMAIN list : k > stop.i => ~desc[list[k]].own
    <3>1. pc = "stop" => Len(list) - h = stop.i
      <4>1. pc = "stop" => h = Len(list) - stop.i
        BY ONLY <2>2 DEF Held
      <4> QED
        BY ONLY <4>1, <2>t
    <3> QED
      BY ONLY <3>1, <2>4
  <2> QED
    BY ONLY <2>3, <2>5, <2>6 DEF SegmentsAreOurs, HeldBuffersAreOurs
<1> QED
  BY <1>1, FrameAlways, PTL

\* Whatever the engine refills meanwhile, however many segments a frame has
\* and whichever calls fail, lwIP is given frames made of their own parts, in
\* the order of the wire and none twice.
THEOREM FramesIntact == Spec => []FramesIntactInOrder
<1>1. FrameInv => FramesIntactInOrder
  BY DEF FrameInv
<1> QED
  BY <1>1, FrameAlways, PTL

\* No frame the engine completed vanishes: lwIP has it, NETIN discarded it or
\* holds it, or its closing descriptor waits in the ring.
THEOREM FramesAccountedFor == Spec => []EveryFrameAccountedFor
<1>1. FrameInv => EveryFrameAccountedFor
  BY DEF FrameInv
<1> QED
  BY <1>1, FrameAlways, PTL
=============================================================================
