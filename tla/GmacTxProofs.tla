---------------------------- MODULE GmacTxProofs ----------------------------
(***************************************************************************)
(* Theorems about the transmit path, for every length of the ring, set of  *)
(* sending tasks, number of frames and build: the ring is sound, and the   *)
(* driver implements the safety part of the service lwIP sees.             *)
(***************************************************************************)
EXTENDS GmacTx, TLAPS

-----------------------------------------------------------------------------
(* The inductive invariant.                                                 *)

\* Frames accepted and not yet sent.
Backlog == Len(accepted) - Len(wire)

\* How many descriptors of the ring i lies ahead of p, and the one n ahead.
Gap(p, i) == IF i >= p THEN i - p ELSE i - p + DescNum
At(p, n) == IF p + n < DescNum THEN p + n ELSE p + n - DescNum

\* How far i lies ahead of the engine.
Ahead(i) == Gap(dma.pos, i)

\* Only the holder of the core lock is inside low_level_output.
LockHeld == \A t \in Senders : pc[t] # "idle" => lock = t

\* Until its frame is accepted a sender holds the number of the next one.
NextInLine ==
    \A t \in Senders : pc[t] \in {"tps", "get", "wait", "copy", "own"} =>
        frame[t] = Len(accepted) + 1 /\ Len(accepted) < MaxPackets

\* What is about to be handed over is the frame the sender was given.
BufferFilled == \A t \in Senders : pc[t] = "own" => buf[last] = frame[t]

\* The descriptors of the engine are the arc of the ring that begins at its
\* position, is as long as the backlog and ends at _s_last_tx_descriptor.
ArcOfBacklog ==
    /\ Backlog \in 0 .. DescNum
    /\ last = At(dma.pos, Backlog)
    /\ \A i \in Ring : own[i] <=> Ahead(i) < Backlog

\* The inductive invariant: the ring is sound because of these.
TxInv ==
    /\ TypeOK /\ FillsItsOwnBuffer /\ RingHoldsBacklog
    /\ LockHeld /\ NextInLine /\ BufferFilled /\ ArcOfBacklog

-----------------------------------------------------------------------------
(* Lemmas about the ring.                                                   *)

\* The ring is closed under the next pointers of its descriptors.
LEMMA NextDescInRing == \A i \in Ring : NextDesc(i) \in Ring
  BY TxConstants DEF Ring, NextDesc

LEMMA GapRange ==
  \A q, i \in Ring : Gap(q, i) \in 0 .. DescNum - 1 /\ (Gap(q, i) = 0 <=> i = q)
  BY TxConstants DEF Ring, Gap

\* Gap and At are inverse to each other.
LEMMA GapAt ==
  \A q \in Ring :
    /\ \A n \in 0 .. DescNum - 1 : At(q, n) \in Ring /\ Gap(q, At(q, n)) = n
    /\ \A i \in Ring : At(q, Gap(q, i)) = i
    /\ At(q, DescNum) = q
  BY TxConstants DEF Ring, Gap, At

\* When the end of an arc, or its beginning, moves on.
LEMMA AtNext ==
  \A q \in Ring :
    /\ \A n \in 0 .. DescNum - 1 : NextDesc(At(q, n)) = At(q, n + 1)
    /\ \A n \in 1 .. DescNum : At(NextDesc(q), n - 1) = At(q, n)
  BY TxConstants DEF Ring, NextDesc, At

LEMMA GapNext ==
  \A q, i \in Ring :
    Gap(NextDesc(q), i) = IF i = q THEN DescNum - 1 ELSE Gap(q, i) - 1
  BY TxConstants DEF Ring, NextDesc, Gap

\* The CPU's next descriptor is free exactly while there is room.
LEMMA FreeMeansRoom ==
  ASSUME TypeOK, ArcOfBacklog
  PROVE  /\ own[last] <=> Backlog = DescNum
         /\ own[dma.pos] <=> Backlog > 0
         /\ Backlog < DescNum => Ahead(last) = Backlog
         /\ Ahead(dma.pos) = 0
<1>1. /\ dma.pos \in Ring /\ last \in Ring /\ Backlog \in 0 .. DescNum
      /\ own[last] <=> Ahead(last) < Backlog
      /\ own[dma.pos] <=> Ahead(dma.pos) < Backlog
      /\ last = At(dma.pos, Backlog)
  BY DEF TypeOK, ArcOfBacklog
<1> HIDE DEF Backlog
<1>2. Ahead(dma.pos) = 0
  BY <1>1, GapRange DEF Ahead
<1>3. CASE Backlog = DescNum
  BY <1>1, <1>2, <1>3, GapAt, TxConstants
<1>4. CASE Backlog < DescNum
  <2>1. Ahead(last) = Backlog
    BY <1>1, <1>4, GapAt, TxConstants DEF Ahead
  <2> QED
    BY <1>1, <1>2, <1>4, <2>1, TxConstants
<1> QED
  BY <1>1, <1>3, <1>4, TxConstants

-----------------------------------------------------------------------------
(* Init and the steps that leave the ring alone.                            *)

LEMMA InvInit == Init => TxInv
<1> SUFFICES ASSUME Init PROVE TxInv
  OBVIOUS
<1> USE TxConstants DEF Init
<1>1. 0 \in Ring /\ Len(accepted) = 0 /\ Len(wire) = 0
  BY DEF Ring
<1>2. TypeOK
  BY <1>1 DEF TypeOK
<1>3. FillsItsOwnBuffer /\ LockHeld /\ NextInLine /\ BufferFilled
  BY DEF FillsItsOwnBuffer, LockHeld, NextInLine, BufferFilled
<1>4. RingHoldsBacklog
  BY DEF RingHoldsBacklog
<1>5. ArcOfBacklog
  <2>1. Backlog = 0
    BY <1>1 DEF Backlog
  <2>2. \A i \in Ring : Ahead(i) \in Nat
    BY <1>1, GapRange DEF Ahead
  <2>3. At(dma.pos, 0) = last
    BY DEF At
  <2> QED
    BY <2>1, <2>2, <2>3 DEF ArcOfBacklog
<1> QED
  BY <1>2, <1>3, <1>4, <1>5 DEF TxInv

\* What only depends on the ring and on the histories.
LEMMA ArcFrame ==
  ASSUME UNCHANGED <<own, buf, last, accepted, wire>>, dma'.pos = dma.pos,
         ArcOfBacklog, RingHoldsBacklog
  PROVE  ArcOfBacklog' /\ RingHoldsBacklog'
  BY DEF ArcOfBacklog, RingHoldsBacklog, Backlog, Ahead

\* A poll demand moves nothing.
LEMMA PollMovesNothing ==
  ASSUME TypeOK, Poll
  PROVE  dma' \in [pos : Ring, susp : BOOLEAN] /\ dma'.pos = dma.pos
  BY DEF TypeOK, Poll

LEMMA InvCall == ASSUME TxInv, NEW t \in Senders, Call(t) PROVE TxInv'
<1> USE TxConstants DEF TxInv, Call, Goto, ring, engine
<1>0. accepted \in Seq(1 .. MaxPackets) /\ Len(accepted) \in Nat
  BY DEF TypeOK
<1>1. TypeOK'
  BY <1>0 DEF TypeOK
<1>2. \A s \in Senders : pc[s] = "idle"
  BY DEF LockHeld
<1>3. LockHeld' /\ FillsItsOwnBuffer' /\ BufferFilled' /\ NextInLine'
  BY <1>0, <1>2 DEF TypeOK, LockHeld, FillsItsOwnBuffer, BufferFilled, NextInLine
<1>4. ArcOfBacklog' /\ RingHoldsBacklog'
  BY ArcFrame
<1> QED
  BY <1>1, <1>3, <1>4

LEMMA InvCheckSuspended ==
  ASSUME TxInv, NEW t \in Senders, CheckSuspended(t) PROVE TxInv'
<1> USE TxConstants DEF TxInv, CheckSuspended, Goto, ring
<1>1. dma' \in [pos : Ring, susp : BOOLEAN] /\ dma'.pos = dma.pos
  BY PollMovesNothing DEF TypeOK
<1>2. TypeOK'
  BY <1>1 DEF TypeOK
<1>3. LockHeld' /\ FillsItsOwnBuffer' /\ BufferFilled' /\ NextInLine'
  BY DEF TypeOK, LockHeld, FillsItsOwnBuffer, BufferFilled, NextInLine
<1>4. ArcOfBacklog' /\ RingHoldsBacklog'
  BY <1>1, ArcFrame
<1> QED
  BY <1>2, <1>3, <1>4

LEMMA InvGetSendPacket ==
  ASSUME TxInv, NEW t \in Senders, GetSendPacket(t) PROVE TxInv'
<1> USE TxConstants DEF TxInv, GetSendPacket, Goto, ring, engine
<1>2. TypeOK'
  BY DEF TypeOK
<1>3. LockHeld' /\ BufferFilled' /\ NextInLine'
  BY DEF TypeOK, LockHeld, BufferFilled, NextInLine
<1>4. FillsItsOwnBuffer'
  BY DEF TypeOK, LockHeld, FillsItsOwnBuffer
<1>5. ArcOfBacklog' /\ RingHoldsBacklog'
  BY ArcFrame
<1> QED
  BY <1>2, <1>3, <1>4, <1>5

LEMMA InvSemWait == ASSUME TxInv, NEW t \in Senders, SemWait(t) PROVE TxInv'
<1> USE TxConstants DEF TxInv, SemWait, Goto, ring, engine
<1>2. TypeOK'
  BY DEF TypeOK
<1>3. LockHeld' /\ FillsItsOwnBuffer' /\ BufferFilled' /\ NextInLine'
  BY DEF TypeOK, LockHeld, FillsItsOwnBuffer, BufferFilled, NextInLine
<1>5. ArcOfBacklog' /\ RingHoldsBacklog'
  BY ArcFrame
<1> QED
  BY <1>2, <1>3, <1>5

LEMMA InvCheckUnavailable ==
  ASSUME TxInv, NEW t \in Senders, CheckUnavailable(t) PROVE TxInv'
<1> USE TxConstants DEF TxInv, CheckUnavailable, Goto, ring
<1>1. dma' \in [pos : Ring, susp : BOOLEAN] /\ dma'.pos = dma.pos
  BY PollMovesNothing DEF TypeOK
<1>2. TypeOK'
  BY <1>1 DEF TypeOK
<1>3. LockHeld' /\ FillsItsOwnBuffer' /\ BufferFilled' /\ NextInLine'
  BY DEF TypeOK, LockHeld, FillsItsOwnBuffer, BufferFilled, NextInLine
<1>4. ArcOfBacklog' /\ RingHoldsBacklog'
  BY <1>1, ArcFrame
<1> QED
  BY <1>2, <1>3, <1>4

LEMMA InvFinish == ASSUME TxInv, NEW t \in Senders, Finish(t) PROVE TxInv'
<1> USE TxConstants DEF TxInv, Finish, Goto, ring
<1>1. dma' \in [pos : Ring, susp : BOOLEAN] /\ dma'.pos = dma.pos
  BY PollMovesNothing DEF TypeOK
<1>2. TypeOK'
  BY <1>1 DEF TypeOK
<1>3. LockHeld' /\ FillsItsOwnBuffer' /\ BufferFilled' /\ NextInLine'
  BY DEF TypeOK, LockHeld, FillsItsOwnBuffer, BufferFilled, NextInLine
<1>4. ArcOfBacklog' /\ RingHoldsBacklog'
  BY <1>1, ArcFrame
<1> QED
  BY <1>2, <1>3, <1>4

LEMMA InvUnseen == ASSUME TxInv, DmaSuspend \/ RxInterrupt PROVE TxInv'
<1> USE TxConstants DEF TxInv, DmaSuspend, RxInterrupt, ring, task, engine
<1>1. dma' \in [pos : Ring, susp : BOOLEAN] /\ dma'.pos = dma.pos
  BY DEF TypeOK
<1>2. TypeOK'
  BY <1>1 DEF TypeOK
<1>3. LockHeld' /\ FillsItsOwnBuffer' /\ BufferFilled' /\ NextInLine'
  BY DEF LockHeld, FillsItsOwnBuffer, BufferFilled, NextInLine
<1>4. ArcOfBacklog' /\ RingHoldsBacklog'
  BY <1>1, ArcFrame
<1> QED
  BY <1>2, <1>3, <1>4

-----------------------------------------------------------------------------
(* The steps that move the ring.                                            *)

LEMMA InvCopy == ASSUME TxInv, NEW t \in Senders, Copy(t) PROVE TxInv'
<1> USE TxConstants DEF TxInv, Copy, Goto, engine
<1>1. packet[t] = last /\ ~own[last]
  BY DEF FillsItsOwnBuffer
<1>2. TypeOK'
  BY DEF TypeOK
<1>3. LockHeld' /\ FillsItsOwnBuffer' /\ NextInLine'
  BY DEF TypeOK, LockHeld, FillsItsOwnBuffer, NextInLine
<1>4. BufferFilled'
  BY <1>1 DEF TypeOK, LockHeld, BufferFilled
<1>5. ArcOfBacklog'
  BY DEF ArcOfBacklog, Backlog, Ahead
<1>6. \A i \in Ring : own[i] => buf'[i] = buf[i]
  BY <1>1 DEF TypeOK
<1>7. RingHoldsBacklog'
  BY <1>6 DEF RingHoldsBacklog
<1> QED
  BY <1>2, <1>3, <1>4, <1>5, <1>7

LEMMA InvGiveDescriptor ==
  ASSUME TxInv, NEW t \in Senders, GiveDescriptor(t) PROVE TxInv'
<1> USE TxConstants DEF TxInv, GiveDescriptor, Goto, engine
<1>0. /\ accepted \in Seq(1 .. MaxPackets) /\ Len(accepted) \in Nat
      /\ wire \in Seq([pkt : 0 .. MaxPackets, ok : BOOLEAN]) /\ Len(wire) \in Nat
      /\ last \in Ring /\ dma.pos \in Ring
  BY DEF TypeOK
<1>1. ~own[last] /\ frame[t] = Len(accepted) + 1 /\ Len(accepted) < MaxPackets
  BY DEF FillsItsOwnBuffer, NextInLine
<1>2. buf[last] = frame[t]
  BY DEF BufferFilled
<1>3. frame[t] \in 1 .. MaxPackets
  BY <1>0, <1>1
<1>4. /\ accepted' \in Seq(1 .. MaxPackets) /\ Len(accepted') = Len(accepted) + 1
      /\ \A j \in 1 .. Len(accepted) : accepted'[j] = accepted[j]
      /\ accepted'[Len(accepted) + 1] = frame[t]
  BY <1>0, <1>3
<1>5. TypeOK'
  <2>1. last' \in Ring
    BY <1>0, NextDescInRing
  <2> QED
    BY <1>4, <2>1 DEF TypeOK
<1>6. LockHeld' /\ FillsItsOwnBuffer' /\ BufferFilled' /\ NextInLine'
  BY DEF TypeOK, LockHeld, FillsItsOwnBuffer, BufferFilled, NextInLine
<1>7. Backlog \in 0 .. DescNum /\ Backlog < DescNum /\ Ahead(last) = Backlog
  BY <1>1, FreeMeansRoom DEF ArcOfBacklog
<1>8. Backlog' = Backlog + 1 /\ dma' = dma
  BY <1>0, <1>4 DEF Backlog
<1>9. \A i \in Ring : Ahead(i)' = Ahead(i) /\ Ahead(i) \in 0 .. DescNum - 1
  BY ONLY <1>0, <1>8, GapRange DEF Ahead
<1>10. \A i \in Ring : i # last => Ahead(i) # Backlog
  BY ONLY <1>0, <1>7, GapAt DEF Ahead
<1>11. \A i \in Ring : own'[i] <=> Ahead(i)' < Backlog'
  <2> SUFFICES ASSUME NEW i \in Ring PROVE own'[i] <=> Ahead(i) < Backlog + 1
    BY <1>8, <1>9
  <2>1. own[i] <=> Ahead(i) < Backlog
    BY DEF ArcOfBacklog
  <2>2. own'[i] <=> (own[i] \/ i = last)
    BY DEF TypeOK
  <2> QED
    BY <2>1, <2>2, <1>7, <1>9, <1>10
<1>12. last' = At(dma'.pos, Backlog')
  <2>1. last = At(dma.pos, Backlog) /\ last' = NextDesc(last)
    BY DEF ArcOfBacklog
  <2> QED
    BY ONLY <2>1, <1>0, <1>7, <1>8, AtNext, TxConstants
<1>13. ArcOfBacklog'
  BY <1>7, <1>8, <1>11, <1>12 DEF ArcOfBacklog
<1>14. RingHoldsBacklog'
  <2> SUFFICES ASSUME NEW i \in Ring, own'[i]
               PROVE  buf[i] = accepted'[Len(wire) + Ahead(i) + 1]
    BY <1>8, <1>9 DEF RingHoldsBacklog, Ahead, Gap
  <2>1. CASE i = last
    <3>1. Len(wire) + Ahead(i) + 1 = Len(accepted) + 1
      BY <2>1, <1>0, <1>7 DEF Backlog
    <3> QED
      BY <2>1, <3>1, <1>2, <1>4
  <2>2. CASE i # last
    <3>1. own[i]
      BY <2>2 DEF TypeOK
    <3>2. buf[i] = accepted[Len(wire) + Ahead(i) + 1]
      BY <3>1 DEF RingHoldsBacklog, Ahead, Gap
    <3>3. Ahead(i) < Backlog
      BY <3>1 DEF ArcOfBacklog
    <3>4. Len(wire) + Ahead(i) + 1 \in 1 .. Len(accepted)
      BY <3>3, <1>0, <1>9 DEF Backlog
    <3> QED
      BY <3>2, <3>4, <1>4
  <2> QED
    BY <2>1, <2>2
<1> QED
  BY <1>5, <1>6, <1>13, <1>14

\* A frame that leaves is the oldest one accepted, sent or aborted.
LEMMA OldestLeaves ==
  ASSUME TxInv, DmaSend \/ DmaUnderflow
  PROVE  /\ Len(wire) < Len(accepted)
         /\ buf[dma.pos] = accepted[Len(wire) + 1]
<1> USE TxConstants DEF TxInv
<1>1. own[dma.pos]
  BY DEF DmaSend, DmaUnderflow
<1>2. Backlog > 0 /\ Ahead(dma.pos) = 0 /\ dma.pos \in Ring
  BY <1>1, FreeMeansRoom DEF TypeOK
<1>3. Len(accepted) \in Nat /\ Len(wire) \in Nat
  BY DEF TypeOK
<1>4. buf[dma.pos] = accepted[Len(wire) + Ahead(dma.pos) + 1]
  BY <1>1, <1>2 DEF RingHoldsBacklog, Ahead, Gap
<1> QED
  BY <1>2, <1>3, <1>4 DEF Backlog

LEMMA InvLeave == ASSUME TxInv, DmaSend \/ DmaUnderflow PROVE TxInv'
<1> USE TxConstants DEF TxInv
<1>0. /\ accepted \in Seq(1 .. MaxPackets) /\ Len(accepted) \in Nat
      /\ wire \in Seq([pkt : 0 .. MaxPackets, ok : BOOLEAN]) /\ Len(wire) \in Nat
      /\ last \in Ring /\ dma.pos \in Ring /\ NextDesc(dma.pos) \in Ring
      /\ buf[dma.pos] \in 0 .. MaxPackets
  BY NextDescInRing DEF TypeOK
<1>1. /\ own[dma.pos]
      /\ own' = [own EXCEPT ![dma.pos] = FALSE]
      /\ dma'.pos = NextDesc(dma.pos)
      /\ dma' \in [pos : Ring, susp : BOOLEAN]
      /\ UNCHANGED <<buf, last, tu, task, accepted>>
  <2>1. dma \in [pos : Ring, susp : BOOLEAN]
    BY DEF TypeOK
  <2>2. CASE DmaSend
    BY ONLY <2>1, <2>2, <1>0 DEF DmaSend
  <2>3. CASE DmaUnderflow
    BY ONLY <2>1, <2>3, <1>0 DEF DmaUnderflow
  <2> QED
    BY <2>2, <2>3
<1>2. PICK ok \in BOOLEAN : wire' = Append(wire, [pkt |-> buf[dma.pos], ok |-> ok])
  BY DEF DmaSend, DmaUnderflow
<1>3. /\ wire' \in Seq([pkt : 0 .. MaxPackets, ok : BOOLEAN])
      /\ Len(wire') = Len(wire) + 1
  <2>1. [pkt |-> buf[dma.pos], ok |-> ok] \in [pkt : 0 .. MaxPackets, ok : BOOLEAN]
    BY <1>0
  <2> QED
    BY <1>0, <1>2, <2>1
<1>4. unf' \in BOOLEAN /\ underflows' \in 0 .. MaxUnderflows
  <2>1. unf \in BOOLEAN /\ underflows \in 0 .. MaxUnderflows
    BY DEF TypeOK
  <2>2. CASE DmaSend
    BY ONLY <2>1, <2>2 DEF DmaSend
  <2>3. CASE DmaUnderflow
    BY ONLY <2>1, <2>3, TxConstants DEF DmaUnderflow
  <2> QED
    BY <2>2, <2>3
<1>5. TypeOK'
  BY <1>1, <1>3, <1>4 DEF TypeOK, task
<1>6. \A i \in Ring : own'[i] <=> (own[i] /\ i # dma.pos)
  BY <1>0, <1>1 DEF TypeOK
<1>7. LockHeld' /\ FillsItsOwnBuffer' /\ BufferFilled' /\ NextInLine'
  BY <1>0, <1>1, <1>6
     DEF task, LockHeld, FillsItsOwnBuffer, BufferFilled, NextInLine
<1>8. Backlog \in 1 .. DescNum
  BY <1>1, FreeMeansRoom DEF ArcOfBacklog
<1>9. Backlog' = Backlog - 1
  BY <1>0, <1>1, <1>3 DEF Backlog
<1>10. \A i \in Ring :
         Ahead(i)' = IF i = dma.pos THEN DescNum - 1 ELSE Ahead(i) - 1
  BY ONLY <1>0, <1>1, GapNext DEF Ahead
<1>11. \A i \in Ring : Ahead(i) \in Nat
  BY ONLY <1>0, GapRange DEF Ahead
<1>12. \A i \in Ring : own'[i] <=> Ahead(i)' < Backlog'
  <2> SUFFICES ASSUME NEW i \in Ring PROVE own'[i] <=> Ahead(i)' < Backlog'
    OBVIOUS
  <2>1. CASE i = dma.pos
    BY <2>1, <1>6, <1>8, <1>9, <1>10
  <2>2. CASE i # dma.pos
    <3>1. own[i] <=> Ahead(i) < Backlog
      BY DEF ArcOfBacklog
    <3> QED
      BY <2>2, <3>1, <1>6, <1>8, <1>9, <1>10, <1>11
  <2> QED
    BY <2>1, <2>2
<1>13. last' = At(dma'.pos, Backlog')
  <2>1. last = At(dma.pos, Backlog)
    BY DEF ArcOfBacklog
  <2> QED
    BY ONLY <2>1, <1>0, <1>1, <1>8, <1>9, AtNext
<1>14. ArcOfBacklog'
  BY <1>8, <1>9, <1>12, <1>13 DEF ArcOfBacklog
<1>15. RingHoldsBacklog'
  <2> SUFFICES ASSUME NEW i \in Ring, own'[i]
               PROVE  buf'[i] = accepted'[Len(wire') + Ahead(i)' + 1]
    BY DEF RingHoldsBacklog, Ahead, Gap
  <2>1. own[i] /\ i # dma.pos
    BY <1>6
  <2>2. buf[i] = accepted[Len(wire) + Ahead(i) + 1]
    BY <2>1 DEF RingHoldsBacklog, Ahead, Gap
  <2>4. Len(wire') + Ahead(i)' + 1 = Len(wire) + Ahead(i) + 1
    <3>1. Ahead(i)' = Ahead(i) - 1 /\ Ahead(i) \in Nat
      BY <1>10, <1>11, <2>1
    <3>2. Len(wire) \in Nat /\ Len(wire') = Len(wire) + 1
      BY <1>0, <1>3
    <3> QED
      BY ONLY <3>1, <3>2
  <2> QED
    BY <1>1, <2>2, <2>4
<1> QED
  BY <1>5, <1>7, <1>14, <1>15

LEMMA InvNext == TxInv /\ [Next]_vars => TxInv'
<1> SUFFICES ASSUME TxInv, [Next]_vars PROVE TxInv'
  OBVIOUS
<1>1. CASE UNCHANGED vars
  BY <1>1 DEF vars, TxInv, TypeOK, FillsItsOwnBuffer, RingHoldsBacklog,
     LockHeld, NextInLine, BufferFilled, ArcOfBacklog, Backlog, Ahead
<1>2. ASSUME NEW t \in Senders, Call(t) \/ Output(t) PROVE TxInv'
  BY <1>2, InvCall, InvCheckSuspended, InvGetSendPacket, InvSemWait, InvCopy,
     InvGiveDescriptor, InvCheckUnavailable, InvFinish DEF Output
<1>3. CASE Dma \/ RxInterrupt
  BY <1>3, InvUnseen, InvLeave DEF Dma
<1> QED
  BY <1>1, <1>2, <1>3 DEF Next

LEMMA InvAlways == Spec => []TxInv
  BY InvInit, InvNext, PTL DEF Spec

-----------------------------------------------------------------------------
(* The theorems.                                                            *)

\* The ring is sound: every variable has its type, a sender fills the buffer
\* of the descriptor it hands over while the engine owns neither, and the
\* descriptors of the engine hold the accepted frames still to be sent.
THEOREM RingSound == Spec => []RingIsSound
<1>1. TxInv => RingIsSound
  BY DEF TxInv, RingIsSound
<1> QED
  BY <1>1, InvAlways, PTL

\* The driver is a bounded first-in first-out queue: each step of it is a
\* step of the service or none that the service can see.
LEMMA StepImplements ==
  TxInv /\ [Next]_vars => [Service!ServiceNext]_(Service!serviceVars)
<1> SUFFICES ASSUME TxInv, [Next]_vars
             PROVE  Service!ServiceNext \/ UNCHANGED <<accepted, wire>>
  BY DEF Service!serviceVars
<1>1. CASE UNCHANGED vars
  BY <1>1 DEF vars
<1>2. ASSUME NEW t \in Senders, GiveDescriptor(t) PROVE Service!ServiceNext
  <2>1. /\ accepted' = Append(accepted, frame[t]) /\ UNCHANGED wire
    BY <1>2 DEF GiveDescriptor, engine
  <2>2. /\ ~own[last] /\ frame[t] = Len(accepted) + 1
        /\ Len(accepted) < MaxPackets /\ Len(accepted) \in Nat
    BY <1>2 DEF TxInv, TypeOK, FillsItsOwnBuffer, NextInLine, GiveDescriptor
  <2>3. Backlog < DescNum
    BY <2>2, FreeMeansRoom, TxConstants DEF TxInv, ArcOfBacklog
  <2>4. frame[t] \in 1 .. MaxPackets
    BY <2>2, TxConstants
  <2>5. Service!Accept(frame[t])
    BY <2>1, <2>3 DEF Service!Accept, Backlog
  <2> QED
    BY <2>4, <2>5 DEF Service!ServiceNext
<1>3. CASE DmaSend
  <2>1. Service!Leave(TRUE)
    BY <1>3, OldestLeaves DEF DmaSend, Service!Leave
  <2> QED
    BY <2>1 DEF Service!ServiceNext
<1>4. CASE DmaUnderflow
  <2>1. MaxUnderflows > 0
    BY <1>4, TxConstants DEF DmaUnderflow, TxInv, TypeOK
  <2>2. Service!Leave(FALSE)
    BY <1>4, <2>1, OldestLeaves DEF DmaUnderflow, Service!Leave
  <2> QED
    BY <2>2 DEF Service!ServiceNext
<1>5. ASSUME NEW t \in Senders,
             \/ Call(t) \/ CheckSuspended(t) \/ GetSendPacket(t) \/ SemWait(t)
             \/ Copy(t) \/ CheckUnavailable(t) \/ Finish(t)
      PROVE  UNCHANGED <<accepted, wire>>
  BY <1>5 DEF Call, CheckSuspended, GetSendPacket, SemWait, Copy,
     CheckUnavailable, Finish, engine
<1>6. CASE DmaSuspend \/ RxInterrupt
  BY <1>6 DEF DmaSuspend, RxInterrupt, engine
<1> QED
  BY <1>1, <1>2, <1>3, <1>4, <1>5, <1>6 DEF Next, Output, Dma

\* low_level_output with the ring and the engine implements the safety part
\* of the service: frames leave in the order of acceptance, none is lost or
\* invented, one is accepted only while fewer than the length of the ring are
\* pending, and none is aborted by a MAC that stores and forwards.
THEOREM SafeServiceImplemented == Spec => ImplementsSafeService
<1>1. Init => Service!ServiceInit
  BY DEF Init, Service!ServiceInit
<1> QED
  BY <1>1, StepImplements, InvAlways, PTL
     DEF Spec, ImplementsSafeService, Service!SafeService
=============================================================================
