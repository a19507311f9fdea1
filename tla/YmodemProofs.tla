---------------------------- MODULE YmodemProofs ----------------------------
(***************************************************************************)
(* Theorems about Ymodem, for files of any number of packets, packets of   *)
(* any two sizes, every range of the packet index and any number of        *)
(* faults: on any line the receiver stays within its buffer, and the file  *)
(* is what f_write was given, as far as its calls succeeded; on a line     *)
(* that loses nothing but acknowledgements that is what was sent.          *)
(***************************************************************************)
EXTENDS Ymodem, FiniteSetTheorems, SequenceTheorems, TLAPS

USE DEF disk

-----------------------------------------------------------------------------
(* The inductive invariants.                                                *)

Size(n) == IF n > 0 /\ Blocks[n] = "large" THEN LargeSize ELSE SmallSize

CodeOf(n) == IF n > 0 /\ Blocks[n] = "large" THEN STX ELSE SOH

\* Bytes are numbers, and a sender that waits for an answer has sent a packet
\* of the file.
Types ==
    /\ line \in Seq(Int) /\ back \in Seq(Int) /\ buf \in Seq(Int)
    /\ length \in {0, SmallSize, LargeSize} /\ ack \in Int
    /\ sent \in Nat /\ faults \in Nat
    /\ sender = "ack" => sent <= LastPacket
    /\ transfer \in Transfers

\* A packet that is being received has not all of its bytes yet.
Partial ==
    pc = "recv" /\ buf # <<>> =>
        length \in {SmallSize, LargeSize} /\ Len(buf) <= HEADER + length + 1

\* One that was received has all of them.
Complete ==
    pc = "packet" /\ length > 0 => Len(buf) = HEADER + length + TRAILER

FitInv == Types /\ Partial /\ Complete /\ PacketFits

\* The file is what f_write was given, and a call that failed shows in it; but
\* if f_close fails nothing is lost of a file without packets.
DiskInv ==
    /\ given \in Seq(Seq(Int)) /\ file \in Seq(Seq(Int)) /\ failed \in Nat
    /\ StoresWhatItIsGiven
    /\ \A i \in 1 .. Len(given) : Len(given[i]) > 0
    /\ failed > 0 => file # given \/ (pc = "done" /\ given = <<>>)
    /\ ~header => ~opened /\ failed = 0

\* What f_write was given begins with packet 1 and goes up to packet n, without
\* repetitions unless acknowledgements were lost.
FirstPackets(n) == [i \in 1 .. n |-> Payload(i)]

UpTo(f, n) ==
    /\ f \in Seq(Seq(Int)) /\ InOrder(f)
    /\ n = IF f = <<>> THEN 0 ELSE f[Len(f)][1] - 100

FileUpTo(n) == UpTo(given, n) /\ (faults = 0 => given = FirstPackets(n))

NoFile == ~header /\ ~opened /\ given = <<>>

Has(n) == header /\ opened /\ FileUpTo(n)

\* What the receiver has when packet n is under way to it.
Expects(n) ==
    \/ n = 0 /\ NoFile
    \/ n > 0 /\ Has(n - 1)
    \/ faults > 0 /\ Has(n)

\* The bytes of packet p that were received, and those that were not.
Parts(b, l, p) ==
    /\ Len(b) + Len(l) = Len(p)
    /\ \A i \in 1 .. Len(b) : b[i] = p[i]
    /\ \A i \in 1 .. Len(l) : l[i] = p[Len(b) + i]

UnderWay(n) ==
    /\ Parts(buf, line, Packet(n))
    /\ buf # <<>> => length = Size(n) /\ code = CodeOf(n)

\* The phases of a transfer whose sender has sent packet n.
Starting(n) ==
    /\ sender = "C" /\ n = 0 /\ NoFile
    /\ line = <<>> /\ buf = <<>> /\ ack = CRC
    /\ \/ pc = "send" /\ back = <<>>
       \/ pc = "recv" /\ back = <<CRC>>

Sending(n) ==
    /\ sender = "ack" /\ pc = "recv" /\ back = <<>> /\ line # <<>>
    /\ UnderWay(n) /\ Expects(n)

Received(n) ==
    /\ sender = "ack" /\ pc = "packet" /\ back = <<>> /\ line = <<>>
    /\ UnderWay(n) /\ Expects(n)

Answering(n) ==
    /\ sender = "ack" /\ pc = "send" /\ back = <<>> /\ line = <<>>
    /\ ack = ACK /\ Has(n)

Answered(n) ==
    /\ sender = "ack" /\ pc = "recv" /\ line = <<>> /\ buf = <<>>
    /\ back = <<ACK>> \/ (back = <<>> /\ faults > 0)
    /\ ack = ACK /\ Has(n)

Ending(n) ==
    /\ sender = "can" /\ back = <<>> /\ n = LastPacket + 1 /\ Has(n - 1)
    /\ \/ pc = "recv" /\ line = <<EOT>> /\ buf = <<>>
       \/ pc = "packet" /\ line = <<>> /\ code = EOT

Ended(n) ==
    /\ sender \in {"can", "done"} /\ pc \in {"drain", "closed", "done"}
    /\ n = LastPacket + 1 /\ FileUpTo(n - 1)

\* The file could not be opened.
Refused ==
    /\ sender = "ack" /\ pc \in {"closed", "done"}
    /\ line = <<>> /\ back = <<>> /\ ~opened /\ given = <<>>

PhaseOf(n) ==
    \/ Starting(n) \/ Sending(n) \/ Received(n) \/ Answering(n)
    \/ Answered(n) \/ Ending(n) \/ Ended(n) \/ Refused

Phase == \E n \in Nat : sent = n /\ PhaseOf(n)

\* Nothing but acknowledgements is lost.
FileInv ==
    Faults \subseteq {"dropAck", "write"} =>
        Phase /\ ("dropAck" \notin Faults => faults = 0)

-----------------------------------------------------------------------------
(* The packets.                                                             *)

\* A bit of x is the opposite of that of m - 1 - x, if m is a larger power.
Opposite(m, x, w) ==
    ~((x \div w) % 2 = 1 /\ ((m - 1 - x) \div w) % 2 = 1)

\* That holds of every bit of a byte.
LEMMA BitsAreOpposite ==
    ASSUME NEW m \in Nat, NEW x \in Nat, x < m, NEW w \in BitValues,
           NEW e \in Nat, m <= w \/ m = 2 * w * e
    PROVE  Opposite(m, x, w)
<1> USE DEF Opposite
<1>1. CASE w = 1
  BY <1>1
<1>2. CASE w = 2
  BY <1>2
<1>3. CASE w = 4
  BY <1>3
<1>4. CASE w = 8
  BY <1>4
<1>5. CASE w = 16
  BY <1>5
<1>6. CASE w = 32
  BY <1>6
<1>7. CASE w = 64
  BY <1>7
<1>8. CASE w = 128
  BY <1>8
<1> HIDE DEF Opposite
<1> QED
  BY <1>1, <1>2, <1>3, <1>4, <1>5, <1>6, <1>7, <1>8 DEF BitValues

\* An index and its complement have no bit in common, whatever the number of
\* bits of the index.
LEMMA ComplementIsDisjoint ==
    ASSUME NEW a \in 0 .. IndexMod - 1
    PROVE  ~HaveCommonBit(a, IndexMod - 1 - a)
<1> SUFFICES ASSUME NEW v \in BitValues
             PROVE  Opposite(IndexMod, a, v)
  BY DEF HaveCommonBit, Opposite
<1>1. IndexMod \in {2, 4, 8, 16, 32, 64, 128, 256}
  BY YmodemConstants DEF BitValues
<1>2. a \in Nat /\ a < IndexMod
  BY <1>1
<1>4. \E e \in Nat : IndexMod <= v \/ IndexMod = 2 * v * e
  <2>1. CASE IndexMod <= v
    BY <2>1
  <2>2. CASE ~(IndexMod <= v)
    <3>1. \E e \in {1, 2, 4, 8, 16, 32, 64, 128} : IndexMod = 2 * v * e
      BY <1>1, <2>2 DEF BitValues
    <3> QED
      BY <3>1
  <2> QED
    BY <2>1, <2>2
<1>5. PICK e \in Nat : IndexMod <= v \/ IndexMod = 2 * v * e
  BY <1>4
<1>6. IndexMod \in Nat
  BY <1>1
<1> QED
  BY <1>2, <1>5, <1>6, BitsAreOpposite

\* The file and the sizes of its packets.
LEMMA TransferIs ==
    ASSUME transfer \in Transfers
    PROVE  /\ Blocks \in Seq({"small", "large"}) /\ LastPacket \in Nat
           /\ SmallSize \in Nat /\ SmallSize > 0 /\ SmallSize < LargeSize
           /\ LargeSize \in Nat /\ IndexMod \in Nat /\ IndexMod > 0
           /\ Faults \subseteq {"damage", "drop", "dropAck", "write"}
<1>1. transfer \in [blocks : Seq({"small", "large"}),
                    faults : SUBSET {"damage", "drop", "dropAck", "write"}, most : Nat]
  BY YmodemConstants
<1>2. Blocks \in Seq({"small", "large"}) /\ LastPacket \in Nat
  BY <1>1 DEF Blocks, LastPacket
<1>3. IndexMod \in {2, 4, 8, 16, 32, 64, 128, 256}
  BY YmodemConstants DEF BitValues
<1>4. Faults \subseteq {"damage", "drop", "dropAck", "write"}
  BY <1>1 DEF Faults
<1> QED
  BY <1>2, <1>3, <1>4, YmodemConstants

\* The elements of one sequence after another.
LEMMA ConcatIs ==
    ASSUME NEW s \in Seq(Int), NEW t \in Seq(Int)
    PROVE  /\ s \o t \in Seq(Int) /\ Len(s \o t) = Len(s) + Len(t)
           /\ \A i \in 1 .. Len(s) : (s \o t)[i] = s[i]
           /\ \A i \in 1 .. Len(t) : (s \o t)[Len(s) + i] = t[i]
<1>1. s \o t \in Seq(Int) /\ Len(s \o t) = Len(s) + Len(t)
  BY ConcatProperties
<1>2. Len(s) \in Nat /\ Len(t) \in Nat
  BY LenProperties
<1>3. \A i \in 1 .. Len(s) + Len(t) :
        (s \o t)[i] = IF i <= Len(s) THEN s[i] ELSE t[i - Len(s)]
  BY ConcatProperties
<1>4. ASSUME NEW i \in 1 .. Len(t) PROVE (s \o t)[Len(s) + i] = t[i]
  <2>1. Len(s) + i \in 1 .. Len(s) + Len(t) /\ ~(Len(s) + i <= Len(s))
        /\ (Len(s) + i) - Len(s) = i
    BY <1>2
  <2> QED
    BY <2>1, <1>3
<1>5. ASSUME NEW i \in 1 .. Len(s) PROVE (s \o t)[i] = s[i]
  <2>1. i \in 1 .. Len(s) + Len(t) /\ i <= Len(s)
    BY <1>2
  <2> QED
    BY <2>1, <1>3
<1> QED
  BY <1>1, <1>4, <1>5

\* The bytes of packet n.
LEMMA PacketIs ==
    ASSUME transfer \in Transfers, NEW n \in Nat
    PROVE  /\ Packet(n) \in Seq(Int)
           /\ Len(Packet(n)) = Size(n) + 5
           /\ Size(n) \in {SmallSize, LargeSize}
           /\ Size(n) \in Nat /\ Size(n) > 0
           /\ Packet(n)[1] = CodeOf(n)
           /\ Packet(n)[2] = n % IndexMod
           /\ Packet(n)[3] = IndexMod - 1 - (n % IndexMod)
           /\ \A i \in 1 .. Size(n) : Packet(n)[3 + i] = 100 + n
           /\ Payload(n) = [i \in 1 .. Size(n) |-> 100 + n]
           /\ Payload(n) \in Seq(Int) /\ Len(Payload(n)) = Size(n)
           /\ Payload(n)[1] = 100 + n
           /\ n % IndexMod \in 0 .. IndexMod - 1
<1> DEFINE h == <<CodeOf(n), n % IndexMod, IndexMod - 1 - (n % IndexMod)>>
           t == <<200, 201>>
<1>1. SmallSize \in Nat /\ SmallSize > 0 /\ LargeSize \in Nat /\ LargeSize > 0
      /\ IndexMod \in Nat /\ IndexMod > 0
  BY TransferIs
<1>2. Size(n) \in {SmallSize, LargeSize} /\ Size(n) \in Nat /\ Size(n) > 0
  BY <1>1 DEF Size
<1>3. Payload(n) = [i \in 1 .. Size(n) |-> 100 + n]
  BY DEF Payload, Size
<1>4. Payload(n) \in Seq(Int) /\ Len(Payload(n)) = Size(n)
      /\ \A i \in 1 .. Size(n) : Payload(n)[i] = 100 + n
  <2> HIDE DEF h, t
  <2>1. \A i \in 1 .. Size(n) : 100 + n \in Int
    OBVIOUS
  <2> QED
    BY <2>1, <1>2, <1>3
<1>5. n % IndexMod \in 0 .. IndexMod - 1
  BY <1>1
<1>6. h \in Seq(Int) /\ Len(h) = 3 /\ h[1] = CodeOf(n)
      /\ h[2] = n % IndexMod /\ h[3] = IndexMod - 1 - (n % IndexMod)
  BY <1>1, <1>5 DEF CodeOf, SOH, STX
<1>7. t \in Seq(Int) /\ Len(t) = 2
  OBVIOUS
<1>8. Packet(n) = (h \o Payload(n)) \o t
  BY DEF Packet, CodeOf
<1> HIDE DEF h, t
<1>9. /\ h \o Payload(n) \in Seq(Int) /\ Len(h \o Payload(n)) = Size(n) + 3
      /\ \A i \in 1 .. 3 : (h \o Payload(n))[i] = h[i]
      /\ \A i \in 1 .. Size(n) : (h \o Payload(n))[3 + i] = 100 + n
  <2> DEFINE p == Payload(n)
  <2>1. p \in Seq(Int) /\ Len(p) = Size(n)
        /\ \A i \in 1 .. Size(n) : p[i] = 100 + n
    BY <1>4
  <2> HIDE DEF p
  <2>2. /\ h \o p \in Seq(Int) /\ Len(h \o p) = Len(h) + Len(p)
        /\ \A i \in 1 .. Len(h) : (h \o p)[i] = h[i]
        /\ \A i \in 1 .. Len(p) : (h \o p)[Len(h) + i] = p[i]
    BY <1>6, <2>1, ConcatIs
  <2> DEFINE g == h \o p
  <2>3. g \in Seq(Int) /\ Len(g) = Len(h) + Len(p)
        /\ (\A i \in 1 .. Len(h) : g[i] = h[i])
        /\ (\A i \in 1 .. Len(p) : g[Len(h) + i] = p[i])
    BY <2>2
  <2> HIDE DEF g
  <2>4. g \in Seq(Int) /\ Len(g) = Size(n) + 3
        /\ (\A i \in 1 .. 3 : g[i] = h[i])
        /\ (\A i \in 1 .. Size(n) : g[3 + i] = 100 + n)
    BY <2>1, <2>3, <1>2, <1>6
  <2> QED
    BY <2>4 DEF g, p
<1> DEFINE hp == h \o Payload(n)
<1> HIDE DEF hp
<1>10. /\ hp \in Seq(Int) /\ Len(hp) = Size(n) + 3
       /\ \A i \in 1 .. 3 : hp[i] = h[i]
       /\ \A i \in 1 .. Size(n) : hp[3 + i] = 100 + n
  BY <1>9 DEF hp
<1>11. /\ hp \o t \in Seq(Int) /\ Len(hp \o t) = Size(n) + 5
       /\ \A i \in 1 .. 3 : (hp \o t)[i] = h[i]
       /\ \A i \in 1 .. Size(n) : (hp \o t)[3 + i] = 100 + n
  <2>1. /\ hp \o t \in Seq(Int) /\ Len(hp \o t) = Len(hp) + Len(t)
        /\ \A i \in 1 .. Len(hp) : (hp \o t)[i] = hp[i]
    BY <1>7, <1>10, ConcatIs
  <2>2. /\ \A i \in 1 .. 3 : i \in 1 .. Len(hp)
        /\ \A i \in 1 .. Size(n) : 3 + i \in 1 .. Len(hp)
        /\ Len(hp) + Len(t) = Size(n) + 5
    BY <1>2, <1>7, <1>10
  <2> QED
    BY <2>1, <2>2, <1>10
<1>12. Packet(n) = hp \o t
  BY <1>8 DEF hp
<1>13. Payload(n)[1] = 100 + n
  BY <1>2, <1>4
<1>14. Packet(n)[1] = CodeOf(n) /\ Packet(n)[2] = n % IndexMod
       /\ Packet(n)[3] = IndexMod - 1 - (n % IndexMod)
  <2>1. 1 \in 1 .. 3 /\ 2 \in 1 .. 3 /\ 3 \in 1 .. 3
    OBVIOUS
  <2> QED
    BY <2>1, <1>6, <1>11, <1>12
<1>15. Packet(n) \in Seq(Int) /\ Len(Packet(n)) = Size(n) + 5
       /\ \A i \in 1 .. Size(n) : Packet(n)[3 + i] = 100 + n
  <2> DEFINE q == hp \o t
  <2>1. q \in Seq(Int) /\ Len(q) = Size(n) + 5
        /\ \A i \in 1 .. Size(n) : q[3 + i] = 100 + n
    BY <1>11
  <2>2. Packet(n) = q
    BY <1>12
  <2> HIDE DEF q
  <2> QED
    BY ONLY <2>1, <2>2
<1> QED
  BY ONLY <1>2, <1>3, <1>4, <1>5, <1>13, <1>14, <1>15

-----------------------------------------------------------------------------
(* No packet is longer than the buffer, on any line.                        *)

\* What follows a packet is bytes.
LEMMA AfterIs ==
    ASSUME transfer \in Transfers, NEW n \in Nat
    PROVE  After(n) \in Seq(Int)
<1>1. n + 1 \in Nat /\ EOT \in Int
  BY DEF EOT
<1>2. Packet(n + 1) \in Seq(Int)
  BY <1>1, PacketIs
<1>3. <<EOT>> \in Seq(Int)
  BY <1>1
<1> QED
  BY <1>2, <1>3 DEF After

\* Taking the first byte off, or adding bytes.
LEMMA TailIs ==
    ASSUME NEW s \in Seq(Int), s # <<>>
    PROVE  /\ Head(s) \in Int /\ Tail(s) \in Seq(Int)
           /\ Len(s) \in Nat /\ Len(s) > 0 /\ Len(Tail(s)) = Len(s) - 1
           /\ Head(s) = s[1]
           /\ \A i \in 1 .. Len(s) - 1 : Tail(s)[i] = s[i + 1]
  OBVIOUS

\* The types hold in every step.
LEMMA TypesStep ==
    ASSUME Types, [YmodemNext]_ymodem
    PROVE  Types'
<1> USE DEF Types
<1> DEFINE Rest == /\ length' \in {0, SmallSize, LargeSize} /\ ack' \in Int
                   /\ sent' \in Nat /\ faults' \in Nat
                   /\ sender' = "ack" => sent' <= LastPacket
           Bytes == /\ line' \in Seq(Int) /\ back' \in Seq(Int)
                    /\ buf' \in Seq(Int)
<1>0. transfer' = transfer /\ LastPacket' = LastPacket
  BY DEF YmodemNext, Receiver, Sender, Line, Idle, ymodem, LastPacket, Blocks
<1>1. /\ LastPacket \in Nat /\ 0 \in Nat
      /\ \A n \in Nat : After(n) \in Seq(Int) /\ Packet(n) \in Seq(Int)
  BY TransferIs, AfterIs, PacketIs
<1> SUFFICES Rest /\ Bytes
  BY <1>0
<1> HIDE DEF Types
<1>2. ASSUME UNCHANGED ymodem PROVE Rest /\ Bytes
  BY <1>2 DEF Types, ymodem, rx, tx
<1>3. ASSUME SenderStarts PROVE Rest /\ Bytes
  BY <1>1, <1>3, TailIs, ConcatIs DEF Types, SenderStarts, rx
<1>4. ASSUME SenderGoesOn PROVE Rest /\ Bytes
  BY <1>1, <1>4, TailIs, ConcatIs DEF Types, SenderGoesOn, rx
<1>5. ASSUME SenderCancelled PROVE Rest /\ Bytes
  <2>1. [i \in 1 .. Drain |-> CAN] \in Seq(Int)
    BY YmodemConstants DEF CAN
  <2> QED
    BY <2>1, <1>5, TailIs, ConcatIs DEF Types, SenderCancelled, rx
<1>6. ASSUME SenderIgnores PROVE Rest /\ Bytes
  BY <1>6, TailIs DEF Types, SenderIgnores, rx, tx
<1>7. ASSUME SenderRepeats PROVE Rest /\ Bytes
  <2>1. <<EOT>> \in Seq(Int)
    BY DEF EOT
  <2> QED
    BY <2>1, <1>1, <1>7 DEF Types, SenderRepeats, rx, tx
<1>8. ASSUME Damage PROVE Rest /\ Bytes
  <2>1. PICK i \in 1 .. Len(line), b \in {0, EOT, 102} :
          line' = [line EXCEPT ![i] = b]
    BY <1>8 DEF Damage
  <2>2. line' \in Seq(Int)
    BY <2>1 DEF Types, EOT
  <2> QED
    BY <2>2, <1>8 DEF Types, Damage, rx, tx
<1>9. ASSUME Drop PROVE Rest /\ Bytes
  <2>1. PICK i \in 1 .. Len(line) : line' = RemoveAt(line, i)
    BY <1>9 DEF Drop
  <2>2. line \in Seq(Int)
    BY DEF Types
  <2>3. SubSeq(line, 1, i - 1) \in Seq(Int)
        /\ SubSeq(line, i + 1, Len(line)) \in Seq(Int)
    BY <2>2
  <2>4. line' \in Seq(Int)
    BY <2>1, <2>3, ConcatIs DEF RemoveAt
  <2> QED
    BY <2>4, <1>9 DEF Types, Drop, rx, tx
<1>10. ASSUME DropAck PROVE Rest /\ Bytes
  BY <1>10, TailIs DEF Types, DropAck, rx, tx
<1>11. ASSUME SendNext PROVE Rest /\ Bytes
  BY <1>11 DEF Types, SendNext, tx
<1>12. ASSUME FirstByte PROVE Rest /\ Bytes
  BY <1>12, TailIs DEF Types, FirstByte, Receiving, Arrived, tx
<1>13. ASSUME LaterByte PROVE Rest /\ Bytes
  <2>1. /\ line # <<>> /\ line' = Tail(line) /\ buf' = Append(buf, Arrived)
        /\ length' \in {0, length} /\ UNCHANGED <<back, ack, tx, faults>>
    BY <1>13 DEF LaterByte, Receiving
  <2>2. Arrived \in Int /\ line' \in Seq(Int)
    BY <2>1, TailIs DEF Types, Arrived
  <2> QED
    BY <2>1, <2>2 DEF Types, tx
<1>14. ASSUME Open PROVE Rest /\ Bytes
  BY <1>14 DEF Types, Open, tx, ACK
<1>15. ASSUME Store PROVE Rest /\ Bytes
  BY <1>15 DEF Types, Store, tx, ACK
<1>16. ASSUME EndOfTransmission PROVE Rest /\ Bytes
  <2>1. [i \in 1 .. Cancels |-> CAN] \in Seq(Int)
    BY YmodemConstants DEF CAN
  <2> QED
    BY <2>1, <1>16, ConcatIs DEF Types, EndOfTransmission, tx
<1>17. ASSUME DrainByte PROVE Rest /\ Bytes
  BY <1>17, TailIs DEF Types, DrainByte, tx
<1>18. ASSUME OtherCode PROVE Rest /\ Bytes
  BY <1>18 DEF Types, OtherCode, tx
<1>19. ASSUME Close PROVE Rest /\ Bytes
  BY <1>19 DEF Types, Close, tx
<1> QED
  BY <1>2, <1>3, <1>4, <1>5, <1>6, <1>7, <1>8, <1>9, <1>10, <1>11, <1>12,
     <1>13, <1>14, <1>15, <1>16, <1>17, <1>18, <1>19
  DEF YmodemNext, Receiver, Sender, Line, Idle

\* A packet is at its end before it is longer than the buffer.
LEMMA FitStep ==
    ASSUME FitInv, [YmodemNext]_ymodem
    PROVE  FitInv'
<1>1. Types /\ Partial /\ Complete /\ PacketFits
  BY DEF FitInv
<1>2. Types'
  BY <1>1, TypesStep
<1>3. /\ SmallSize \in Nat /\ LargeSize \in Nat /\ SmallSize < LargeSize
      /\ SmallSize > 0 /\ Len(buf) \in Nat /\ buf \in Seq(Int)
  BY <1>1, TransferIs DEF Types
<1> USE DEF HEADER, TRAILER
<1> DEFINE Kept == Partial' /\ Complete' /\ PacketFits'
<1>4. ASSUME UNCHANGED <<buf, length, pc>> PROVE Kept
  BY <1>1, <1>4 DEF Partial, Complete, PacketFits
<1>5. ASSUME UNCHANGED buf, pc' \notin {"recv", "packet"}
      PROVE  Kept
  BY <1>1, <1>5 DEF Partial, Complete, PacketFits
<1>6. ASSUME SendNext PROVE Kept
  BY <1>3, <1>6 DEF SendNext, Partial, Complete, PacketFits
<1>7. ASSUME FirstByte PROVE Kept
  <2>1. Len(buf') = 1
    BY <1>7 DEF FirstByte
  <2>2. /\ pc' = "recv" => length' \in {SmallSize, LargeSize}
        /\ pc' = "packet" => length' = 0
    BY <1>7 DEF FirstByte, SOH, STX
  <2> QED
    BY <2>1, <2>2, <1>3 DEF Partial, Complete, PacketFits
<1>8. ASSUME LaterByte PROVE Kept
  <2>1. /\ pc = "recv" /\ buf # <<>> /\ line # <<>>
        /\ buf' = Append(buf, Arrived)
        /\ \/ pc' = "packet" /\ length' = 0
           \/ pc' = "packet" /\ length' = length /\ LastByte
           \/ pc' = pc /\ length' = length /\ ~LastByte
    BY <1>8 DEF LaterByte, Receiving
  <2>2. Len(buf') = Len(buf) + 1
    <3>1. Arrived \in Int
      BY <1>1, <2>1, TailIs DEF Types, Arrived
    <3> QED
      BY <2>1, <3>1, <1>3
  <2>3. length \in {SmallSize, LargeSize} /\ Len(buf) <= HEADER + length + 1
    BY <1>1, <2>1 DEF Partial
  <2>4. PacketFits'
    BY <2>2, <2>3, <1>3 DEF PacketFits
  <2>5. ASSUME pc' = "recv"
        PROVE  length' = length /\ Len(buf) # HEADER + length + 1
    BY <2>1, <2>5 DEF LastByte
  <2>6. Partial'
    BY <2>2, <2>3, <2>5, <1>3 DEF Partial
  <2>7. Complete'
    BY <2>1, <2>2, <2>3, <1>3 DEF Complete, LastByte
  <2> QED
    BY <2>4, <2>6, <2>7
<1>9. Kept
  <2>1. ASSUME Sender PROVE Kept
    BY <1>4, <2>1 DEF Sender, SenderStarts, SenderGoesOn, SenderCancelled,
       SenderIgnores, SenderRepeats, rx
  <2>2. ASSUME Line PROVE Kept
    BY <1>4, <2>2 DEF Line, Damage, Drop, DropAck, rx
  <2>3. ASSUME UNCHANGED ymodem PROVE Kept
    BY <1>4, <2>3 DEF ymodem, rx
  <2>4. ASSUME Receiver PROVE Kept
    BY <1>5, <1>6, <1>7, <1>8, <2>4 DEF Receiver, Open, Store,
       EndOfTransmission, DrainByte, OtherCode, Close
  <2> QED
    BY <2>1, <2>2, <2>3, <2>4 DEF YmodemNext, Idle
<1> QED
  BY <1>2, <1>9 DEF FitInv

\* The types hold at the start, and nothing was received.
LEMMA FitInit == YmodemInit => FitInv
<1> SUFFICES ASSUME YmodemInit PROVE FitInv
  OBVIOUS
<1>1. Types
  BY DEF YmodemInit, Types, CRC
<1>2. SmallSize \in Nat /\ LargeSize \in Nat
  BY <1>1, TransferIs DEF Types
<1> QED
  BY <1>1, <1>2 DEF YmodemInit, FitInv, Partial, Complete, PacketFits, HEADER,
     TRAILER

\* Whatever bytes arrive, damaged, lost or repeated, YmodemRecvPacket stays
\* within aui8Data.
THEOREM PacketAlwaysFits == YmodemSpec => []PacketFits
<1>1. FitInv /\ [YmodemNext]_ymodem => FitInv'
  BY FitStep
<1>2. FitInv => PacketFits
  BY DEF FitInv
<1> QED
  BY <1>1, <1>2, FitInit, PTL DEF YmodemSpec

-----------------------------------------------------------------------------
(* What the file holds.                                                     *)

\* A packet that is the last one once more, or the next one.
LEMMA UpToNext ==
    ASSUME NEW f, NEW k \in Nat, UpTo(f, k), NEW n \in {k, k + 1},
           NEW d \in Seq(Int), d[1] = 100 + n
    PROVE  UpTo(Append(f, d), n)
<1> DEFINE g == Append(f, d)
           num(h, i) == IF i = 0 THEN 0 ELSE h[i][1] - 100
<1>1. f \in Seq(Seq(Int)) /\ Len(f) \in Nat
      /\ (\A i \in 1 .. Len(f) :
            num(f, i) \in {num(f, i - 1), num(f, i - 1) + 1})
      /\ k = num(f, Len(f))
  BY DEF UpTo, InOrder
<1>2. g \in Seq(Seq(Int)) /\ Len(g) = Len(f) + 1 /\ g[Len(g)] = d
      /\ \A i \in 1 .. Len(f) : g[i] = f[i]
  BY <1>1
<1> HIDE DEF g
<1>3. ASSUME NEW i \in 0 .. Len(f) PROVE num(g, i) = num(f, i)
  <2>1. i = 0 \/ i \in 1 .. Len(f)
    BY <1>1
  <2> QED
    BY <2>1, <1>2
<1>4. num(g, Len(g)) = n
  BY <1>1, <1>2
<1> HIDE DEF num
<1>5. ASSUME NEW i \in 1 .. Len(g)
      PROVE  num(g, i) \in {num(g, i - 1), num(g, i - 1) + 1}
  <2>1. CASE i = Len(g)
    <3>1. i - 1 \in 0 .. Len(f) /\ i - 1 = Len(f)
      BY <2>1, <1>1, <1>2
    <3>2. num(g, i - 1) = k
      BY <3>1, <1>1, <1>3
    <3> QED
      BY <3>2, <2>1, <1>4
  <2>2. CASE i # Len(g)
    <3>1. i \in 1 .. Len(f) /\ i \in 0 .. Len(f) /\ i - 1 \in 0 .. Len(f)
      BY <2>2, <1>1, <1>2
    <3> QED
      BY <3>1, <1>1, <1>3
  <2> QED
    BY <2>1, <2>2
<1>6. InOrder(g)
  BY <1>5 DEF InOrder, num
<1>7. g # <<>>
  BY <1>1, <1>2
<1>8. n = IF g = <<>> THEN 0 ELSE g[Len(g)][1] - 100
  BY <1>7, <1>2
<1>9. UpTo(g, n)
  BY <1>2, <1>6, <1>8 DEF UpTo
<1> QED
  BY <1>9 DEF g

\* A step that leaves the file alone.
LEMMA FileKept ==
    ASSUME NEW k, FileUpTo(k), given' = given, transfer' = transfer,
           faults' = 0 => faults = 0
    PROVE  FileUpTo(k)'
<1>1. FirstPackets(k)' = FirstPackets(k)
  BY DEF FirstPackets, Payload, Blocks
<1> QED
  BY <1>1 DEF FileUpTo

\* A step that stores the packet under way.
LEMMA FileGrows ==
    ASSUME Types, NEW k \in Nat, FileUpTo(k), NEW n \in {k, k + 1},
           n = k => faults > 0,
           given' = Append(given, Payload(n)), transfer' = transfer,
           faults' = faults
    PROVE  FileUpTo(n)'
<1>1. n \in Nat /\ transfer \in Transfers /\ faults \in Nat
  BY DEF Types
<1>2. Payload(n) \in Seq(Int) /\ Payload(n)[1] = 100 + n
  BY <1>1, PacketIs
<1>3. UpTo(given', n)
  BY <1>2, UpToNext DEF FileUpTo
<1>4. FirstPackets(n)' = FirstPackets(n)
  BY DEF FirstPackets, Payload, Blocks
<1>5. ASSUME faults = 0 PROVE given' = FirstPackets(n)
  <2>1. n = k + 1 /\ given = FirstPackets(k)
    BY <1>5, <1>1 DEF FileUpTo
  <2>2. given = [i \in 1 .. k |-> Payload(i)]
    BY <2>1 DEF FirstPackets
  <2>3. given \in Seq(Seq(Int))
    BY DEF FileUpTo, UpTo
  <2>4. Len(given) = k
    BY <2>2
  <2>5. Append(given, Payload(n)) = [i \in 1 .. n |-> Payload(i)]
    BY <2>1, <2>2, <2>3, <2>4, <1>2
  <2> QED
    BY <2>5 DEF FirstPackets
<1> QED
  BY <1>3, <1>4, <1>5 DEF FileUpTo

\* An empty file.
LEMMA FileEmpty ==
    ASSUME given' = <<>>
    PROVE  FileUpTo(0)'
<1>1. UpTo(<<>>, 0)
  BY DEF UpTo, InOrder
<1>2. FirstPackets(0)' = <<>>
  BY DEF FirstPackets
<1> QED
  BY <1>1, <1>2 DEF FileUpTo

\* The packets of a transfer never change.
LEMMA PacketKept ==
    ASSUME transfer' = transfer, NEW n
    PROVE  /\ Packet(n)' = Packet(n) /\ Size(n)' = Size(n)
           /\ CodeOf(n)' = CodeOf(n) /\ LastPacket' = LastPacket
           /\ Faults' = Faults
<1>1. Blocks' = Blocks
  BY DEF Blocks
<1>2. LastPacket' = LastPacket /\ Faults' = Faults
  BY <1>1 DEF LastPacket, Faults
<1>3. Size(n)' = Size(n) /\ CodeOf(n)' = CodeOf(n)
  BY <1>1 DEF Size, CodeOf
<1>4. Payload(n)' = Payload(n)
  BY <1>1 DEF Payload
<1>5. Packet(n)' = Packet(n)
  BY <1>1, <1>4 DEF Packet
<1> QED
  BY <1>2, <1>3, <1>5

\* A step that leaves the file and what is known of it alone.
LEMMA HasKept ==
    ASSUME NEW k, Has(k), UNCHANGED <<header, opened, given, transfer>>,
           faults' = 0 => faults = 0
    PROVE  Has(k)'
<1>1. FileUpTo(k)'
  BY FileKept DEF Has
<1> QED
  BY <1>1 DEF Has

\* The same, for the packet under way.
LEMMA ExpectsKept ==
    ASSUME NEW n, Expects(n),
           UNCHANGED <<header, opened, given, transfer, faults>>
    PROVE  Expects(n)'
<1>1. CASE n = 0 /\ NoFile
  BY <1>1 DEF Expects, NoFile
<1>2. CASE n > 0 /\ Has(n - 1)
  <2>1. Has(n - 1)'
    BY <1>2, HasKept
  <2> QED
    BY <2>1, <1>2 DEF Expects
<1>3. CASE faults > 0 /\ Has(n)
  <2>1. Has(n)'
    BY <1>3, HasKept
  <2> QED
    BY <2>1, <1>3 DEF Expects
<1> QED
  BY <1>1, <1>2, <1>3 DEF Expects

\* Nothing of packet p was received yet.
LEMMA PartsNone ==
    ASSUME NEW p \in Seq(Int)
    PROVE  <<>> \o p = p /\ Parts(<<>>, p, p)
<1>1. <<>> \o p = p /\ Len(p) \in Nat
  OBVIOUS
<1> QED
  BY <1>1 DEF Parts

\* One more byte of it, which may be the last one.
NextPart(b, l, p) ==
    /\ Parts(Append(b, Head(l)), Tail(l), p)
    /\ Head(l) = p[Len(b) + 1]
    /\ Tail(l) = <<>> <=> Len(b) + 1 = Len(p)

\* The parts of a packet when one more byte of it is received.
LEMMA PartsNext ==
    ASSUME NEW p \in Seq(Int), NEW b \in Seq(Int), NEW l \in Seq(Int),
           l # <<>>, Parts(b, l, p)
    PROVE  NextPart(b, l, p)
<1> DEFINE x == Head(l)  c == Append(b, x)  m == Tail(l)
<1>1. /\ x \in Int /\ m \in Seq(Int) /\ Len(l) \in Nat /\ Len(l) > 0
      /\ Len(m) = Len(l) - 1 /\ x = l[1]
      /\ \A i \in 1 .. Len(l) - 1 : m[i] = l[i + 1]
  BY TailIs
<1> HIDE DEF x, m
<1>2. /\ c \in Seq(Int) /\ Len(c) = Len(b) + 1 /\ c[Len(b) + 1] = x
      /\ Len(b) \in Nat /\ \A i \in 1 .. Len(b) : c[i] = b[i]
  BY <1>1
<1> HIDE DEF c
<1>3. /\ Len(b) + Len(l) = Len(p) /\ \A i \in 1 .. Len(b) : b[i] = p[i]
      /\ \A i \in 1 .. Len(l) : l[i] = p[Len(b) + i]
  BY DEF Parts
<1>4. x = p[Len(b) + 1]
  BY <1>1, <1>3
<1>5. Parts(c, m, p)
  <2>0. /\ c \in Seq(Int) /\ m \in Seq(Int)
        /\ Len(c) = Len(b) + 1 /\ Len(b) \in Nat /\ Len(l) \in Nat
        /\ Len(m) = Len(l) - 1 /\ Len(b) + Len(l) = Len(p)
    BY ONLY <1>1, <1>2, <1>3
  <2>1. ASSUME NEW i \in 1 .. Len(c) PROVE c[i] = p[i]
    <3>1. i \in 1 .. Len(b) \/ i = Len(b) + 1
      BY ONLY <2>0, i \in 1 .. Len(c)
    <3> QED
      BY ONLY <3>1, <1>2, <1>3, <1>4
  <2>2. ASSUME NEW i \in 1 .. Len(m) PROVE m[i] = p[Len(c) + i]
    <3>1. i \in 1 .. Len(l) - 1 /\ i + 1 \in 1 .. Len(l)
      BY <1>1
    <3>2. m[i] = p[Len(b) + (i + 1)]
      BY <3>1, <1>1, <1>3
    <3>3. Len(b) + (i + 1) = Len(c) + i
      BY <1>2, <3>1
    <3> QED
      BY <3>2, <3>3
  <2>3. Len(c) + Len(m) = Len(p)
    <3>1. \A i, j \in Nat : (i + 1) + (j - 1) = i + j
      OBVIOUS
    <3>2. Len(c) + Len(m) = (Len(b) + 1) + (Len(l) - 1)
      BY ONLY <2>0
    <3> QED
      BY ONLY <3>1, <3>2, <2>0
  <2> QED
    BY <2>1, <2>2, <2>3 DEF Parts
<1>6. m = <<>> <=> Len(b) + 1 = Len(p)
  <2>1. m = <<>> <=> Len(m) = 0
    BY <1>1, EmptySeq
  <2>2. Len(m) = 0 <=> Len(l) = 1
    BY ONLY <1>1
  <2>3. \A i, j, k \in Nat : i + j = k => (j = 1 <=> i + 1 = k)
    OBVIOUS
  <2>4. Len(p) \in Nat
    OBVIOUS
  <2> QED
    BY ONLY <2>1, <2>2, <2>3, <2>4, <1>1, <1>2, <1>3
<1> QED
  BY <1>4, <1>5, <1>6 DEF x, c, m, NextPart

-----------------------------------------------------------------------------
(* What the steps do in each phase of a transfer.                           *)

\* A step of a transfer over a line that loses nothing but acknowledgements,
\* after packet n.
Calm(n) ==
    /\ Types /\ YmodemNext /\ sent = n
    /\ Faults \subseteq {"dropAck", "write"}

\* Its steps.
LEMMA CalmSteps ==
    ASSUME NEW n \in Nat, Calm(n)
    PROVE  /\ transfer' = transfer /\ transfer \in Transfers
           /\ \/ SendNext \/ FirstByte \/ LaterByte \/ Open \/ Store
              \/ EndOfTransmission \/ DrainByte \/ OtherCode \/ Close
              \/ SenderStarts \/ SenderGoesOn \/ SenderCancelled
              \/ SenderIgnores \/ SenderRepeats
              \/ DropAck \/ UNCHANGED ymodem
<1>1. "damage" \notin Faults /\ "drop" \notin Faults
  BY DEF Calm
<1>2. ~Damage /\ ~Drop
  BY <1>1 DEF Damage, Drop
<1>3. transfer' = transfer
  BY DEF Calm, YmodemNext, Receiver, Sender, Line, Idle, ymodem
<1> QED
  BY <1>2, <1>3 DEF Calm, Types, YmodemNext, Receiver, Sender, Line, Idle

\* The sender sends packet n: nothing of it was received yet.
LEMMA PacketStarts ==
    ASSUME transfer \in Transfers, NEW n \in Nat
    PROVE  /\ Packet(n) \in Seq(Int) /\ Len(Packet(n)) > 0
           /\ Packet(n) # <<>> /\ <<>> \o Packet(n) = Packet(n)
           /\ Parts(<<>>, Packet(n), Packet(n))
<1>1. /\ Packet(n) \in Seq(Int) /\ Len(Packet(n)) = Size(n) + 5
      /\ Size(n) \in Nat
  BY PacketIs
<1>2. Len(Packet(n)) > 0
  BY ONLY <1>1
<1>3. Packet(n) # <<>>
  BY <1>2
<1> QED
  BY <1>1, <1>2, <1>3, PartsNone

\* One byte on the way to the sender.
LEMMA OneByte ==
    ASSUME NEW x, NEW s, s = <<x>>
    PROVE  Head(s) = x /\ Tail(s) = <<>> /\ s # <<>>
  OBVIOUS

\* YmodemRecvPacket asks for the header, and the sender sends it.
LEMMA StartingStep ==
    ASSUME NEW n \in Nat, Calm(n), Starting(n)
    PROVE  Phase' \/ UNCHANGED ymodem
<1>1. transfer' = transfer /\ transfer \in Transfers /\ sent = n
  BY CalmSteps DEF Calm
<1>2. \/ pc = "recv" /\ SenderStarts
      \/ pc = "send" /\ SendNext
      \/ UNCHANGED ymodem
  <2>1. CASE pc = "send" /\ back = <<>>
    BY <2>1, CalmSteps DEF Starting, FirstByte, LaterByte, Receiving, Open,
       Store, EndOfTransmission, DrainByte, OtherCode, Close, SenderStarts,
       SenderGoesOn, SenderCancelled, SenderIgnores, SenderRepeats, DropAck
  <2>2. CASE pc = "recv" /\ back = <<CRC>>
    <3>1. Head(back) = CRC /\ line = <<>> /\ sender = "C" /\ CRC # ACK
      BY <2>2, OneByte DEF Starting, CRC, ACK
    <3> QED
      BY <2>2, <3>1, CalmSteps DEF FirstByte, LaterByte, Receiving, Open,
         Store, EndOfTransmission, DrainByte, OtherCode, Close, SendNext,
         SenderGoesOn, SenderCancelled, SenderIgnores, SenderRepeats, DropAck
  <2> QED
    BY <2>1, <2>2 DEF Starting
<1>3. ASSUME pc = "recv", SenderStarts PROVE Phase'
  <2>0. back = <<CRC>> /\ line = <<>> /\ buf = <<>> /\ NoFile
    BY <1>3 DEF Starting
  <2>1. /\ line' = <<>> \o Packet(0) /\ back' = <<>> /\ sender' = "ack"
        /\ sent' = 0 /\ UNCHANGED rx /\ pc = "recv" /\ buf = <<>> /\ NoFile
    BY <1>3, <2>0, OneByte DEF SenderStarts
  <2>3. line' = Packet(0) /\ Parts(<<>>, Packet(0), Packet(0)) /\ line' # <<>>
    BY <1>1, <2>1, PacketStarts
  <2>5. Packet(0)' = Packet(0)
    BY <1>1, PacketKept
  <2>6. UnderWay(0)' /\ Expects(0)'
    BY <2>1, <2>3, <2>5 DEF UnderWay, Expects, NoFile, rx
  <2>7. Sending(0)'
    BY <2>1, <2>3, <2>6 DEF Sending, rx
  <2> QED
    BY <2>1, <2>7 DEF Phase, PhaseOf
<1>4. ASSUME pc = "send", SendNext PROVE Phase'
  <2>1. Starting(n)'
    BY <1>4 DEF SendNext, Starting, NoFile, tx
  <2>2. sent' = n
    BY <1>1, <1>4 DEF SendNext, tx
  <2> QED
    BY <2>1, <2>2 DEF Phase, PhaseOf
<1> QED
  BY <1>2, <1>3, <1>4

\* The sender begins to send packet m.
LEMMA SendingStarts ==
    ASSUME transfer' = transfer, transfer \in Transfers, NEW m \in Nat,
           line' = Packet(m), back' = <<>>, sender' = "ack", sent' = m,
           pc' = "recv", buf' = <<>>, Expects(m)'
    PROVE  Phase'
<1>1. line' # <<>> /\ Parts(<<>>, line', Packet(m))
  BY PacketStarts
<1>2. Packet(m)' = Packet(m)
  BY PacketKept
<1>3. UnderWay(m)'
  BY <1>1, <1>2 DEF UnderWay
<1>4. Sending(m)'
  BY <1>1, <1>3 DEF Sending
<1> QED
  BY <1>4 DEF Phase, PhaseOf

\* The receiver takes the code of the packet.
LEMMA CodeArrives ==
    ASSUME NEW n \in Nat, Calm(n), Sending(n), FirstByte
    PROVE  Phase'
<1>1. transfer' = transfer /\ transfer \in Transfers
  BY CalmSteps
<1>2. /\ buf = <<>> /\ line # <<>> /\ line' = Tail(line) /\ code' = Head(line)
      /\ buf' = <<Head(line)>> /\ line \in Seq(Int)
  BY DEF FirstByte, Receiving, Arrived, Calm, Types
<1>3. /\ Packet(n) \in Seq(Int) /\ Len(Packet(n)) = Size(n) + 5
      /\ Size(n) \in Nat /\ Packet(n)[1] = CodeOf(n)
  BY <1>1, PacketIs
<1>4. Parts(<<>>, line, Packet(n))
  BY <1>2 DEF Sending, UnderWay
<1>5. /\ Parts(Append(<<>>, Head(line)), Tail(line), Packet(n))
      /\ Head(line) = Packet(n)[Len(<<>>) + 1]
      /\ Tail(line) = <<>> <=> Len(<<>>) + 1 = Len(Packet(n))
  <2>1. <<>> \in Seq(Int)
    OBVIOUS
  <2>2. NextPart(<<>>, line, Packet(n))
    BY <1>2, <1>3, <1>4, <2>1, PartsNext
  <2> QED
    BY <2>2 DEF NextPart
<1>6. Len(<<>>) + 1 = 1 /\ Append(<<>>, Head(line)) = <<Head(line)>>
  OBVIOUS
<1>7. Parts(buf', line', Packet(n)) /\ code' = CodeOf(n) /\ line' # <<>>
  BY <1>2, <1>3, <1>5, <1>6
<1>8. length' = Size(n) /\ pc' = "recv"
  <2>1. \/ CodeOf(n) = STX /\ Size(n) = LargeSize
        \/ CodeOf(n) = SOH /\ Size(n) = SmallSize
    BY DEF CodeOf, Size
  <2>2. Arrived = CodeOf(n)
    BY <1>2, <1>7 DEF Arrived
  <2> QED
    BY <2>1, <2>2 DEF FirstByte, SOH, STX
<1>9. UnderWay(n)'
  <2>1. Packet(n)' = Packet(n) /\ Size(n)' = Size(n) /\ CodeOf(n)' = CodeOf(n)
    BY <1>1, PacketKept
  <2> QED
    BY <2>1, <1>7, <1>8 DEF UnderWay
<1>10. Expects(n)'
  BY <1>1, ExpectsKept DEF Sending, FirstByte
<1>11. Sending(n)' /\ sent' = n
  BY <1>7, <1>8, <1>9, <1>10 DEF Sending, FirstByte, Calm, tx
<1> QED
  BY <1>11 DEF Phase, PhaseOf

\* It takes a later byte, and has the packet when it is the last one.  The
\* complement of the index is never taken for a damaged one.
LEMMA LaterArrives ==
    ASSUME NEW n \in Nat, Calm(n), Sending(n), LaterByte
    PROVE  Phase'
<1>1. transfer' = transfer /\ transfer \in Transfers
  BY CalmSteps
<1>2. /\ buf # <<>> /\ line # <<>> /\ line' = Tail(line)
      /\ buf' = Append(buf, Head(line)) /\ line \in Seq(Int) /\ buf \in Seq(Int)
  BY DEF LaterByte, Receiving, Arrived, Calm, Types
<1>3. /\ Packet(n) \in Seq(Int) /\ Len(Packet(n)) = Size(n) + 5
      /\ Size(n) \in Nat /\ Packet(n)[2] = n % IndexMod
      /\ Packet(n)[3] = IndexMod - 1 - (n % IndexMod)
      /\ n % IndexMod \in 0 .. IndexMod - 1
  BY <1>1, PacketIs
<1>4. /\ Parts(buf, line, Packet(n)) /\ length = Size(n) /\ code = CodeOf(n)
  BY <1>2 DEF Sending, UnderWay
<1>5. /\ Parts(buf', line', Packet(n))
      /\ Head(line) = Packet(n)[Len(buf) + 1]
      /\ line' = <<>> <=> Len(buf) + 1 = Len(Packet(n))
  <2>1. NextPart(buf, line, Packet(n))
    BY <1>2, <1>3, <1>4, PartsNext
  <2> QED
    BY <2>1, <1>2 DEF NextPart
<1>6. ~(Len(buf) = 2 /\ HaveCommonBit(buf[2], Arrived))
  <2>1. SUFFICES ASSUME Len(buf) = 2 PROVE ~HaveCommonBit(buf[2], Arrived)
    OBVIOUS
  <2>2. buf[2] = n % IndexMod
    BY <2>1, <1>3, <1>4 DEF Parts
  <2>3. Arrived = IndexMod - 1 - (n % IndexMod)
    BY <2>1, <1>3, <1>5 DEF Arrived
  <2> QED
    BY <2>2, <2>3, <1>3, ComplementIsDisjoint
<1>7. /\ length' = length
      /\ IF LastByte THEN pc' = "packet" ELSE pc' = pc
      /\ UNCHANGED <<back, code, header, given, opened, sent, sender, faults>>
  BY <1>6 DEF LaterByte, tx
<1>8. LastByte <=> line' = <<>>
  <2>1. Len(buf) \in Nat
    BY <1>2
  <2>2. LastByte <=> Len(buf) = 3 + Size(n) + 1
    BY <1>4 DEF LastByte, HEADER
  <2>3. \A i, j \in Nat : i = 3 + j + 1 <=> i + 1 = j + 5
    OBVIOUS
  <2> QED
    BY <2>1, <2>2, <2>3, <1>3, <1>5
<1>9. UnderWay(n)'
  <2>1. Packet(n)' = Packet(n) /\ Size(n)' = Size(n) /\ CodeOf(n)' = CodeOf(n)
    BY <1>1, PacketKept
  <2> QED
    BY <2>1, <1>4, <1>5, <1>7 DEF UnderWay
<1>10. Expects(n)'
  BY <1>1, <1>7, ExpectsKept DEF Sending
<1>11. sent' = n
  BY <1>7 DEF Calm
<1>12. Sending(n)' \/ Received(n)'
  BY <1>7, <1>8, <1>9, <1>10 DEF Sending, Received
<1> QED
  BY <1>11, <1>12 DEF Phase, PhaseOf

\* While a packet is under way it is received byte by byte.
LEMMA SendingStep ==
    ASSUME NEW n \in Nat, Calm(n), Sending(n)
    PROVE  Phase' \/ UNCHANGED ymodem
<1>1. FirstByte \/ LaterByte \/ UNCHANGED ymodem
  BY CalmSteps DEF Sending, SendNext, Open, Store, EndOfTransmission,
     DrainByte, OtherCode, Close, SenderStarts, SenderGoesOn,
     SenderCancelled, SenderIgnores, SenderRepeats, DropAck
<1> QED
  BY <1>1, CodeArrives, LaterArrives

\* A packet of which nothing is left on the line is in the buffer.
LEMMA PacketIsIn ==
    ASSUME NEW n \in Nat, Calm(n), Received(n)
    PROVE  /\ code = CodeOf(n) /\ code \in {SOH, STX} /\ length = Size(n)
           /\ buf[2] = n % IndexMod /\ PacketData = Payload(n) /\ length > 0
<1>1. /\ transfer \in Transfers /\ buf \in Seq(Int) /\ line = <<>>
      /\ UnderWay(n)
  BY DEF Calm, Types, Received
<1>2. /\ Packet(n) \in Seq(Int) /\ Len(Packet(n)) = Size(n) + 5
      /\ Size(n) \in Nat /\ Size(n) > 0 /\ Packet(n)[2] = n % IndexMod
      /\ \A i \in 1 .. Size(n) : Packet(n)[3 + i] = 100 + n
      /\ Payload(n) = [i \in 1 .. Size(n) |-> 100 + n]
  BY <1>1, PacketIs
<1>3. Len(buf) = Size(n) + 5 /\ \A i \in 1 .. Len(buf) : buf[i] = Packet(n)[i]
  <2>1. Parts(buf, <<>>, Packet(n))
    BY <1>1 DEF UnderWay
  <2>2. /\ Len(buf) + Len(<<>>) = Len(Packet(n))
        /\ \A i \in 1 .. Len(buf) : buf[i] = Packet(n)[i]
    BY <2>1 DEF Parts
  <2>3. Len(<<>>) = 0 /\ Len(buf) \in Nat
    BY <1>1
  <2> QED
    BY <2>2, <2>3, <1>2
<1>4. buf # <<>>
  BY <1>2, <1>3
<1>5. code = CodeOf(n) /\ length = Size(n)
  BY <1>1, <1>4 DEF UnderWay
<1>6. code \in {SOH, STX}
  BY <1>5 DEF CodeOf
<1>7. buf[2] = n % IndexMod
  BY <1>2, <1>3
<1>8. PacketData = Payload(n)
  <2>1. PacketData = SubSeq(buf, 4, 3 + Size(n))
    BY <1>5 DEF PacketData, HEADER
  <2>2. SubSeq(buf, 4, 3 + Size(n)) = [i \in 1 .. Size(n) |-> buf[3 + i]]
    BY <1>1, <1>2, <1>3
  <2>3. ASSUME NEW i \in 1 .. Size(n) PROVE buf[3 + i] = 100 + n
    <3>1. 3 + i \in 1 .. Len(buf)
      BY <1>2, <1>3
    <3> QED
      BY <3>1, <1>2, <1>3
  <2> QED
    BY <2>1, <2>2, <2>3, <1>2
<1> QED
  BY <1>2, <1>5, <1>6, <1>7, <1>8

\* The header opens the file, or it could not be opened.
LEMMA HeaderIsTaken ==
    ASSUME NEW n \in Nat, Calm(n), Received(n), Open
    PROVE  Phase'
<1>1. sent' = n /\ n = 0 /\ NoFile
  <2>1. Expects(n) /\ ~header /\ sent' = sent
    BY DEF Received, Open, IsHeader, tx
  <2> QED
    BY <2>1 DEF Expects, Has, Calm
<1>2. CASE opened' = TRUE /\ given' = <<>> /\ pc' = "send"
  <2>1. Has(0)'
    BY <1>2, FileEmpty DEF Has, Open
  <2>2. Answering(0)'
    BY <2>1, <1>2 DEF Answering, Received, Open, tx
  <2> QED
    BY <2>2, <1>1 DEF Phase, PhaseOf
<1>3. CASE pc' = "closed" /\ UNCHANGED <<opened, given>>
  <2>1. Refused'
    BY <1>1, <1>3 DEF Refused, Received, Open, NoFile, tx
  <2> QED
    BY <2>1, <1>1 DEF Phase, PhaseOf
<1> QED
  BY <1>2, <1>3 DEF Open

\* Every other packet is stored: it is not taken for the header when its
\* index has wrapped around to 0.
LEMMA PacketIsStored ==
    ASSUME NEW n \in Nat, Calm(n), Received(n), Store
    PROVE  Phase'
<1>1. transfer' = transfer /\ transfer \in Transfers
  BY CalmSteps
<1>2. Expects(n) /\ ~IsHeader /\ faults' = faults /\ Types
  BY DEF Received, Store, Calm
<1>3. ~(n = 0 /\ NoFile)
  <2>1. SUFFICES ASSUME n = 0, NoFile PROVE FALSE
    OBVIOUS
  <2>2. IndexMod \in Nat /\ IndexMod > 0
    BY <1>1, TransferIs
  <2>3. buf[2] = 0
    BY <2>1, <2>2, PacketIsIn
  <2> QED
    BY <2>1, <2>3, <1>2 DEF IsHeader, NoFile
<1>4. PICK k \in Nat : Has(k) /\ n \in {k, k + 1} /\ (n = k => faults > 0)
  <2>1. CASE n > 0 /\ Has(n - 1)
    <3>1. n - 1 \in Nat /\ n = (n - 1) + 1 /\ n # n - 1
      BY <2>1
    <3> QED
      BY <2>1, <3>1
  <2>2. CASE faults > 0 /\ Has(n)
    BY <2>2
  <2> QED
    BY <2>1, <2>2, <1>2, <1>3 DEF Expects
<1>5. opened /\ header /\ FileUpTo(k)
  BY <1>4 DEF Has
<1>6. given' = Append(given, Payload(n))
  BY <1>5, PacketIsIn DEF Store, Write
<1>7. FileUpTo(n)'
  BY <1>1, <1>2, <1>4, <1>5, <1>6, FileGrows
<1>8. Has(n)'
  BY <1>5, <1>7 DEF Has, Store
<1>9. Answering(n)' /\ sent' = n
  BY <1>8 DEF Answering, Received, Store, Calm, tx
<1> QED
  BY <1>9 DEF Phase, PhaseOf

\* A packet that was received is taken for the header, or stored.
LEMMA ReceivedStep ==
    ASSUME NEW n \in Nat, Calm(n), Received(n)
    PROVE  Phase' \/ UNCHANGED ymodem
<1>1. code \in {SOH, STX} /\ SOH # EOT /\ STX # EOT
  BY PacketIsIn DEF SOH, STX, EOT
<1>2. Open \/ Store \/ UNCHANGED ymodem
  BY <1>1, CalmSteps DEF Received, SendNext, FirstByte, LaterByte, Receiving,
     EndOfTransmission, DrainByte, OtherCode, Close, SenderStarts,
     SenderGoesOn, SenderCancelled, SenderIgnores, SenderRepeats, DropAck
<1> QED
  BY <1>2, HeaderIsTaken, PacketIsStored

\* What was stored is acknowledged.
LEMMA AnsweringStep ==
    ASSUME NEW n \in Nat, Calm(n), Answering(n)
    PROVE  Phase' \/ UNCHANGED ymodem
<1>1. SendNext \/ UNCHANGED ymodem
  BY CalmSteps DEF Answering, FirstByte, LaterByte, Receiving, Open, Store,
     EndOfTransmission, DrainByte, OtherCode, Close, SenderStarts,
     SenderGoesOn, SenderCancelled, SenderIgnores, SenderRepeats, DropAck
<1>2. ASSUME SendNext PROVE Phase'
  <2>1. Has(n)'
    BY <1>2, CalmSteps, HasKept DEF SendNext, Answering
  <2>2. back' = <<ACK>>
    BY <1>2 DEF SendNext, Answering
  <2>3. Answered(n)' /\ sent' = n
    BY <1>2, <2>1, <2>2 DEF SendNext, Answering, Answered, Calm, tx
  <2> QED
    BY <2>3 DEF Phase, PhaseOf
<1> QED
  BY <1>1, <1>2

\* An acknowledgement that arrives: the next packet, or the end.
LEMMA AckArrives ==
    ASSUME NEW n \in Nat, Calm(n), Answered(n), SenderGoesOn
    PROVE  Phase'
<1>1. transfer' = transfer /\ transfer \in Transfers
  BY CalmSteps
<1>2. /\ line' = <<>> \o After(n) /\ sent' = n + 1 /\ n <= LastPacket
      /\ sender' = IF n = LastPacket THEN "can" ELSE "ack"
      /\ UNCHANGED <<rx, faults>> /\ Has(n) /\ pc = "recv" /\ buf = <<>>
      /\ back # <<>> /\ back' = Tail(back)
  BY DEF SenderGoesOn, Answered, Calm
<1>3. back' = <<>>
  <2>1. back = <<ACK>>
    BY <1>2 DEF Answered
  <2> QED
    BY <2>1, <1>2, OneByte
<1>4. Has(n)'
  BY <1>1, <1>2, HasKept DEF rx
<1>5. LastPacket \in Nat /\ LastPacket' = LastPacket
  BY <1>1, TransferIs, PacketKept
<1>6. CASE n < LastPacket
  <2>1. n + 1 \in Nat /\ n + 1 > 0 /\ (n + 1) - 1 = n /\ sender' = "ack"
    BY <1>2, <1>5, <1>6
  <2>2. line' = Packet(n + 1)
    <3>1. <<>> \o Packet(n + 1) = Packet(n + 1)
      BY <1>1, <2>1, PacketStarts
    <3> QED
      BY <3>1, <1>2, <1>6 DEF After
  <2>3. Expects(n + 1)'
    BY <2>1, <1>4 DEF Expects
  <2>4. pc' = "recv" /\ buf' = <<>>
    BY <1>2 DEF rx
  <2> QED
    BY <1>1, <1>2, <1>3, <2>1, <2>2, <2>3, <2>4, SendingStarts
<1>7. CASE n = LastPacket
  <2>1. line' = <<EOT>>
    BY <1>2, <1>5, <1>7 DEF After
  <2>2. n + 1 \in Nat /\ (n + 1) - 1 = n /\ n + 1 = LastPacket' + 1
    BY <1>5, <1>7
  <2>3. Has((n + 1) - 1)'
    BY <2>2, <1>4
  <2>4. Ending(n + 1)'
    BY <2>1, <2>2, <2>3, <1>2, <1>3, <1>7 DEF Ending, rx
  <2> QED
    BY <2>2, <2>4, <1>2 DEF Phase, PhaseOf
<1> QED
  BY <1>2, <1>5, <1>6, <1>7

\* One that is lost: the sender repeats the packet.
LEMMA AckIsLost ==
    ASSUME NEW n \in Nat, Calm(n), Answered(n), DropAck \/ SenderRepeats
    PROVE  Phase'
<1>1. transfer' = transfer /\ transfer \in Transfers /\ faults \in Nat
  BY CalmSteps DEF Calm, Types
<1>2. Has(n) /\ sent' = n /\ sender' = "ack" /\ pc' = "recv" /\ buf' = <<>>
      /\ ack' = ACK /\ UNCHANGED <<header, opened, given>>
  BY DEF Answered, DropAck, SenderRepeats, Calm, rx, tx
<1>3. CASE DropAck
  <2>1. faults' = faults + 1 /\ line' = <<>> /\ back' = Tail(back)
        /\ back # <<>>
    BY <1>3 DEF DropAck, Answered
  <2>2. faults' > 0 /\ faults' # 0
    BY <2>1, <1>1
  <2>3. back' = <<>>
    <3>1. back = <<ACK>>
      BY <2>1 DEF Answered
    <3> QED
      BY <2>1, <3>1, OneByte
  <2>4. Has(n)'
    BY <2>2, <1>1, <1>2, HasKept
  <2>5. Answered(n)'
    BY <2>1, <2>2, <2>3, <2>4, <1>2 DEF Answered
  <2> QED
    BY <2>5, <1>2 DEF Phase, PhaseOf
<1>4. CASE SenderRepeats
  <2>1. back = <<>> /\ back' = <<>> /\ line' = Packet(n) /\ faults' = faults
    BY <1>4 DEF SenderRepeats, Answered, Calm
  <2>2. faults > 0
    BY <2>1 DEF Answered
  <2>3. Has(n)'
    BY <2>1, <1>1, <1>2, HasKept
  <2>4. Expects(n)'
    BY <2>1, <2>2, <2>3 DEF Expects
  <2> QED
    BY <2>1, <2>4, <1>1, <1>2, SendingStarts
<1> QED
  BY <1>3, <1>4

\* What the sender does about an acknowledgement.
LEMMA AnsweredStep ==
    ASSUME NEW n \in Nat, Calm(n), Answered(n)
    PROVE  Phase' \/ UNCHANGED ymodem
<1>1. SenderGoesOn \/ DropAck \/ SenderRepeats \/ UNCHANGED ymodem
  <2>1. back # <<>> => Head(back) = ACK
    BY OneByte DEF Answered
  <2>2. ACK # CAN
    BY DEF ACK, CAN
  <2> QED
    BY <2>1, <2>2, CalmSteps DEF Answered, SendNext, FirstByte, LaterByte,
       Receiving, Open, Store, EndOfTransmission, DrainByte, OtherCode,
       Close, SenderStarts, SenderCancelled, SenderIgnores
<1> QED
  BY <1>1, AckArrives, AckIsLost

\* The end of the transmission is received, and the file is complete.
LEMMA EndingStep ==
    ASSUME NEW n \in Nat, Calm(n), Ending(n)
    PROVE  Phase' \/ UNCHANGED ymodem
<1>1. /\ transfer' = transfer /\ transfer \in Transfers /\ sent = n
      /\ LastPacket' = LastPacket
  BY CalmSteps, PacketKept DEF Calm
<1>2. /\ EOT # SOH /\ EOT # STX
  BY DEF EOT, SOH, STX
<1>3. \/ pc = "recv" /\ FirstByte
      \/ pc = "packet" /\ EndOfTransmission
      \/ UNCHANGED ymodem
  <2>1. /\ sender = "can" /\ back = <<>>
        /\ ~(SenderStarts \/ SenderGoesOn \/ SenderCancelled \/ SenderIgnores)
        /\ ~DropAck
    BY DEF Ending, SenderStarts, SenderGoesOn, SenderCancelled,
       SenderIgnores, DropAck
  <2>2. CASE pc = "recv" /\ line = <<EOT>> /\ buf = <<>>
    <3>1. line # <<>>
      BY <2>2, OneByte
    <3> QED
      BY <2>1, <2>2, <3>1, CalmSteps DEF SendNext, LaterByte, Open, Store,
         EndOfTransmission, DrainByte, OtherCode, Close, SenderRepeats
  <2>3. CASE pc = "packet" /\ line = <<>> /\ code = EOT
    BY <2>1, <2>3, <1>2, CalmSteps DEF SendNext, FirstByte, LaterByte,
       Receiving, Open, Store, DrainByte, OtherCode, Close, SenderRepeats
  <2> QED
    BY <2>2, <2>3 DEF Ending
<1>4. ASSUME pc = "recv", FirstByte PROVE Phase'
  <2>1. line = <<EOT>>
    BY <1>4 DEF Ending
  <2>2. Head(line) = EOT /\ Tail(line) = <<>>
    BY <2>1, OneByte
  <2>3. code' = EOT /\ line' = <<>> /\ pc' = "packet"
    BY <2>2, <1>2, <1>4 DEF FirstByte, Receiving, Arrived
  <2>4. Has(n - 1)'
    BY <1>1, <1>4, HasKept DEF Ending, FirstByte
  <2>5. Ending(n)' /\ sent' = n
    BY <2>3, <2>4, <1>1, <1>4 DEF Ending, FirstByte, tx
  <2> QED
    BY <2>5 DEF Phase, PhaseOf
<1>5. ASSUME pc = "packet", EndOfTransmission PROVE Phase'
  <2>1. FileUpTo(n - 1)'
    BY <1>1, <1>5, FileKept DEF Ending, Has, EndOfTransmission
  <2>2. Ended(n)' /\ sent' = n
    BY <2>1, <1>1, <1>5 DEF Ending, Ended, EndOfTransmission, tx
  <2> QED
    BY <2>2 DEF Phase, PhaseOf
<1> QED
  BY <1>3, <1>4, <1>5

\* Nothing is stored after the end.
LEMMA EndedStep ==
    ASSUME NEW n \in Nat, Calm(n), Ended(n)
    PROVE  Phase' \/ UNCHANGED ymodem
<1>1. /\ transfer' = transfer /\ sent = n /\ LastPacket' = LastPacket
      /\ faults \in Nat
  BY CalmSteps, PacketKept DEF Calm, Types
<1>2. \/ SenderCancelled \/ SenderIgnores \/ DropAck \/ DrainByte \/ Close
      \/ UNCHANGED ymodem
  BY CalmSteps DEF Ended, SendNext, FirstByte, LaterByte, Receiving, Open,
     Store, EndOfTransmission, OtherCode, SenderStarts, SenderGoesOn,
     SenderRepeats
<1>3. ASSUME SenderCancelled \/ SenderIgnores \/ DropAck \/ DrainByte \/ Close
      PROVE  Phase'
  <2>1. /\ given' = given /\ sent' = sent /\ faults' \in {faults, faults + 1}
        /\ sender' \in {"can", "done"} /\ pc' \in {"drain", "closed", "done"}
    BY <1>3 DEF Ended, SenderCancelled, SenderIgnores, DropAck, DrainByte,
       Close, rx, tx
  <2>2. faults' = 0 => faults = 0
    BY <2>1, <1>1
  <2>3. FileUpTo(n - 1)'
    BY <2>1, <2>2, <1>1, FileKept DEF Ended
  <2>4. Ended(n)' /\ sent' = n
    BY <2>1, <2>3, <1>1 DEF Ended
  <2> QED
    BY <2>4 DEF Phase, PhaseOf
<1> QED
  BY <1>2, <1>3

\* Nothing happens to a file that could not be opened.
LEMMA RefusedStep ==
    ASSUME NEW n \in Nat, Calm(n), Refused
    PROVE  Phase' \/ UNCHANGED ymodem
<1>1. Close \/ UNCHANGED ymodem
  BY CalmSteps DEF Refused, SendNext, FirstByte, LaterByte, Receiving, Open,
     Store, EndOfTransmission, DrainByte, OtherCode, SenderStarts,
     SenderGoesOn, SenderCancelled, SenderIgnores, SenderRepeats, DropAck
<1>2. ASSUME Close PROVE Phase'
  <2>1. Refused' /\ sent' = n
    BY <1>2 DEF Close, Refused, Calm, tx
  <2> QED
    BY <2>1 DEF Phase, PhaseOf
<1> QED
  BY <1>1, <1>2

\* A phase lasts until something happens.
LEMMA PhaseKept ==
    ASSUME NEW n \in Nat, sent = n, PhaseOf(n), UNCHANGED ymodem
    PROVE  Phase'
<1>1. UNCHANGED <<line, back, buf, length, code, ack, header, given, opened,
                  pc, sent, sender, faults, transfer>>
  BY DEF ymodem, rx, tx
<1>2. /\ Packet(n)' = Packet(n) /\ Size(n)' = Size(n)
      /\ CodeOf(n)' = CodeOf(n) /\ LastPacket' = LastPacket
  BY <1>1, PacketKept
<1>3. /\ Has(n) => Has(n)'
      /\ Has(n - 1) => Has(n - 1)'
      /\ Expects(n) => Expects(n)'
      /\ FileUpTo(n - 1) => FileUpTo(n - 1)'
  BY <1>1, HasKept, ExpectsKept, FileKept
<1>4. UnderWay(n) => UnderWay(n)'
  BY <1>1, <1>2 DEF UnderWay
<1>5. /\ Starting(n) => Starting(n)'
      /\ Sending(n) => Sending(n)'
      /\ Received(n) => Received(n)'
      /\ Answering(n) => Answering(n)'
  BY <1>1, <1>3, <1>4 DEF Starting, NoFile, Sending, Received, Answering
<1>6. /\ Answered(n) => Answered(n)'
      /\ Ending(n) => Ending(n)'
      /\ Ended(n) => Ended(n)'
      /\ Refused => Refused'
  BY <1>1, <1>2, <1>3 DEF Answered, Ending, Ended, Refused
<1> QED
  BY <1>1, <1>5, <1>6 DEF Phase, PhaseOf

\* Every step leads from a phase to a phase, and a line without faults stays
\* one.
LEMMA FileStep ==
    ASSUME Types, FileInv, [YmodemNext]_ymodem
    PROVE  FileInv'
<1>1. transfer' = transfer /\ Faults' = Faults
  BY DEF YmodemNext, Receiver, Sender, Line, Idle, ymodem, Faults
<1>2. SUFFICES ASSUME Faults \subseteq {"dropAck", "write"}
               PROVE  Phase' /\ ("dropAck" \notin Faults => faults' = 0)
  BY <1>1 DEF FileInv
<1>3. Phase /\ ("dropAck" \notin Faults => faults = 0)
  BY <1>2 DEF FileInv
<1>4. PICK n \in Nat : sent = n /\ PhaseOf(n)
  BY <1>3 DEF Phase
<1>5. Phase'
  <2>1. CASE UNCHANGED ymodem
    BY <2>1, <1>4, PhaseKept
  <2>2. CASE ~UNCHANGED ymodem
    <3>1. Calm(n)
      BY <2>2, <1>2, <1>4 DEF Calm
    <3> QED
      BY <3>1, <2>2, <1>4, StartingStep, SendingStep, ReceivedStep,
         AnsweringStep, AnsweredStep, EndingStep, EndedStep, RefusedStep
      DEF PhaseOf
  <2> QED
    BY <2>1, <2>2
<1>6. ASSUME "dropAck" \notin Faults PROVE faults' = 0
  <2>1. ~(Damage \/ Drop \/ DropAck)
    BY <1>2, <1>6 DEF Damage, Drop, DropAck
  <2>2. faults' = faults
    BY <2>1 DEF YmodemNext, Receiver, Sender, Line, Idle, ymodem, SendNext,
       FirstByte, LaterByte, Open, Store, EndOfTransmission, DrainByte,
       OtherCode, Close, SenderStarts, SenderGoesOn, SenderCancelled,
       SenderIgnores, SenderRepeats
  <2> QED
    BY <2>2, <1>3, <1>6
<1> QED
  BY <1>5, <1>6

\* At the start nothing was sent.
LEMMA FileInit == YmodemInit => FileInv
<1> SUFFICES ASSUME YmodemInit PROVE FileInv
  OBVIOUS
<1>1. Starting(0) /\ sent = 0
  BY DEF YmodemInit, Starting, NoFile
<1>2. Phase /\ faults = 0
  BY <1>1 DEF Phase, PhaseOf, YmodemInit
<1> QED
  BY <1>2 DEF FileInv

\* In every phase the file is one that goes up to some packet of those sent.
LEMMA PhaseFile ==
    ASSUME Types, Phase
    PROVE  \E k \in Nat :
             /\ k <= LastPacket
             /\ given = <<>> \/ FileUpTo(k)
             /\ sender = "done" => FileUpTo(LastPacket)
             /\ (opened /\ sender = "ack") =>
                   FileUpTo(k) /\ sent \in {k, k + 1}
<1>1. PICK n \in Nat : sent = n /\ PhaseOf(n)
  BY DEF Phase
<1>2. LastPacket \in Nat /\ (sender = "ack" => n <= LastPacket)
  BY <1>1, TransferIs DEF Types
<1>3. CASE Starting(n) \/ Refused
  BY <1>2, <1>3 DEF Starting, Refused, NoFile
<1>4. CASE Answering(n) \/ Answered(n)
  <2>1. sender = "ack" /\ FileUpTo(n)
    BY <1>4 DEF Answering, Answered, Has
  <2> QED
    BY <2>1, <1>1, <1>2
<1>5. CASE Ending(n) \/ Ended(n)
  <2>1. sender # "ack" /\ n = LastPacket + 1 /\ FileUpTo(n - 1)
    BY <1>5 DEF Ending, Ended, Has
  <2>2. n - 1 = LastPacket
    BY <2>1, <1>2
  <2> QED
    BY <2>1, <2>2, <1>2
<1>6. CASE Sending(n) \/ Received(n)
  <2>1. sender = "ack" /\ Expects(n)
    BY <1>6 DEF Sending, Received
  <2>2. CASE n = 0 /\ NoFile
    BY <2>1, <2>2, <1>2 DEF NoFile
  <2>3. CASE n > 0 /\ Has(n - 1)
    <3>1. n - 1 \in Nat /\ n - 1 <= LastPacket /\ n = (n - 1) + 1
      BY <2>1, <2>3, <1>2
    <3> QED
      BY <3>1, <2>1, <2>3, <1>1 DEF Has
  <2>4. CASE faults > 0 /\ Has(n)
    BY <2>1, <2>4, <1>1, <1>2 DEF Has
  <2> QED
    BY <2>1, <2>2, <2>3, <2>4 DEF Expects
<1> QED
  BY <1>1, <1>3, <1>4, <1>5, <1>6 DEF PhaseOf

\* The first packets are a prefix of all of them.
LEMMA FirstArePrefix ==
    ASSUME transfer \in Transfers, NEW k \in Nat, k <= LastPacket,
           given = FirstPackets(k)
    PROVE  IsPrefix(given, Sent) /\ Len(given) = k
<1>1. LastPacket \in Nat /\ \A i \in 1 .. LastPacket : Payload(i) \in Seq(Int)
  <2>1. LastPacket \in Nat /\ \A i \in Nat : Payload(i) \in Seq(Int)
    BY TransferIs, PacketIs
  <2> QED
    BY <2>1
<1>2. Sent = [i \in 1 .. LastPacket |-> Payload(i)]
  BY DEF Sent
<1>3. given = [i \in 1 .. k |-> Payload(i)]
  BY DEF FirstPackets
<1> DEFINE P(i) == Payload(i)
<1>4. Sent = [i \in 1 .. LastPacket |-> P(i)] /\ given = [i \in 1 .. k |-> P(i)]
      /\ \A i \in 1 .. LastPacket : P(i) \in Seq(Int)
  BY <1>1, <1>2, <1>3
<1> HIDE DEF P
<1>5. /\ Sent \in Seq(Seq(Int)) /\ Len(Sent) = LastPacket
      /\ given \in Seq(Seq(Int)) /\ Len(given) = k
  BY <1>1, <1>4
<1>6. SubSeq(Sent, 1, k) = [i \in 1 .. k |-> Sent[i]]
  BY <1>1, <1>5
<1>7. SubSeq(Sent, 1, k) = given
  BY <1>1, <1>4, <1>6
<1> QED
  BY <1>1, <1>5, <1>7 DEF IsPrefix

\* f_write is given what was sent.
LEMMA GivenIsRight ==
    ASSUME Types, FileInv, Faults \subseteq {"dropAck", "write"}
    PROVE  /\ InOrder(given)
           /\ Faults \subseteq {"write"} =>
                /\ IsPrefix(given, Sent) /\ AcknowledgesWhatItWrote
                /\ sender = "done" => given = Sent
<1>1. /\ Phase /\ transfer \in Transfers
      /\ Faults \subseteq {"write"} => faults = 0
  BY DEF FileInv, Types
<1>2. PICK k \in Nat :
             /\ k <= LastPacket
             /\ given = <<>> \/ FileUpTo(k)
             /\ sender = "done" => FileUpTo(LastPacket)
             /\ (opened /\ sender = "ack") =>
                   FileUpTo(k) /\ sent \in {k, k + 1}
  BY <1>1, PhaseFile
<1>3. InOrder(given)
  BY <1>2 DEF InOrder, FileUpTo, UpTo
<1>4. ASSUME faults = 0 PROVE IsPrefix(given, Sent)
  <2>1. CASE given = <<>>
    <3>1. 0 \in Nat /\ 0 <= LastPacket /\ FirstPackets(0) = <<>>
      BY <1>1, TransferIs DEF FirstPackets
    <3> QED
      BY <3>1, <2>1, <1>1, FirstArePrefix
  <2>2. CASE FileUpTo(k)
    BY <2>2, <1>1, <1>2, <1>4, FirstArePrefix DEF FileUpTo
  <2> QED
    BY <2>1, <2>2, <1>2
<1>5. ASSUME faults = 0, sender = "done" PROVE given = Sent
  BY <1>2, <1>5 DEF FileUpTo, FirstPackets, Sent
<1>6. ASSUME faults = 0, opened, sender = "ack"
      PROVE  sent \in {Len(given), Len(given) + 1}
  BY <1>1, <1>2, <1>6, FirstArePrefix DEF FileUpTo
<1> QED
  BY <1>1, <1>3, <1>4, <1>5, <1>6 DEF AcknowledgesWhatItWrote

-----------------------------------------------------------------------------
(* What the disk has of it.                                                 *)

\* Part of a packet.
LEMMA PartIsPrefix ==
    ASSUME NEW d \in Seq(Int), NEW m \in 0 .. Len(d)
    PROVE  /\ SubSeq(d, 1, m) \in Seq(Int) /\ Len(SubSeq(d, 1, m)) = m
           /\ IsPrefix(SubSeq(d, 1, m), d)
<1>1. Len(d) \in Nat /\ m \in Nat /\ m <= Len(d)
  OBVIOUS
<1>2. SubSeq(d, 1, m) \in Seq(Int) /\ Len(SubSeq(d, 1, m)) = m
  BY <1>1
<1> QED
  BY <1>1, <1>2 DEF IsPrefix

\* The calls that failed are finitely many.
LEMMA ShortIsFinite ==
    ASSUME given \in Seq(Seq(Int))
    PROVE  IsFiniteSet(Short)
<1>1. Len(given) \in Nat
  OBVIOUS
<1>2. IsFiniteSet(1 .. Len(given))
  BY <1>1, FS_Interval
<1>3. Short \subseteq 1 .. Len(given)
  BY DEF Short
<1> QED
  BY <1>2, <1>3, FS_Subset

\* One more call of f_write, with a packet d of which it stores e.
LEMMA DiskWrite ==
    ASSUME DiskInv, NEW d \in Seq(Int), NEW e \in Seq(Int), Len(d) > 0,
           IsPrefix(e, d), pc # "done", pc' # "done",
           given' = Append(given, d), file' = Append(file, e),
           failed' = IF e = d THEN failed ELSE failed + 1, header, header'
    PROVE  DiskInv'
<1> DEFINE k == Len(given) + 1
<1>1. /\ given \in Seq(Seq(Int)) /\ file \in Seq(Seq(Int)) /\ failed \in Nat
      /\ Len(file) = Len(given) /\ Len(given) \in Nat
      /\ \A i \in 1 .. Len(given) : IsPrefix(file[i], given[i])
      /\ \A i \in 1 .. Len(given) : Len(given[i]) > 0
      /\ failed = 0 => file = given
      /\ failed > 0 => file # given
      /\ Cardinality(Short) = failed
  BY DEF DiskInv, StoresWhatItIsGiven
<1>2. /\ given' \in Seq(Seq(Int)) /\ file' \in Seq(Seq(Int))
      /\ Len(given') = k /\ Len(file') = k
      /\ given'[k] = d /\ file'[k] = e
      /\ \A i \in 1 .. Len(given) : given'[i] = given[i] /\ file'[i] = file[i]
  BY <1>1
<1>3. 1 .. k = 1 .. Len(given) \cup {k} /\ k \notin 1 .. Len(given)
  BY <1>1
<1>4. failed' \in Nat
  BY <1>1
<1>5. \A i \in 1 .. k : IsPrefix(file'[i], given'[i]) /\ Len(given'[i]) > 0
  BY <1>1, <1>2, <1>3
<1>6. Short' = IF e = d THEN Short ELSE Short \cup {k}
  BY <1>2, <1>3 DEF Short
<1>7. Cardinality(Short') = failed'
  <2>1. IsFiniteSet(Short) /\ k \notin Short
    BY <1>1, <1>3, ShortIsFinite DEF Short
  <2>2. Cardinality(Short \cup {k}) = Cardinality(Short) + 1
    BY <2>1, FS_AddElement
  <2> QED
    BY <2>2, <1>1, <1>6
<1>8. ASSUME failed' = 0 PROVE file' = given'
  BY <1>1, <1>8
<1>9. ASSUME failed' > 0 PROVE file' # given'
  <2>1. CASE e # d
    BY <2>1, <1>2
  <2>2. CASE e = d
    <3>1. file # given
      BY <2>2, <1>1, <1>9
    <3>2. \E i \in 1 .. Len(given) : file[i] # given[i]
      BY <3>1, <1>1, SeqEqual
    <3>3. PICK i \in 1 .. Len(given) : file[i] # given[i]
      BY <3>2
    <3> QED
      BY <3>3, <1>2
  <2> QED
    BY <2>1, <2>2
<1> QED
  BY <1>2, <1>4, <1>5, <1>7, <1>8, <1>9 DEF DiskInv, StoresWhatItIsGiven

\* The data of a packet that was received.
LEMMA PacketHasData ==
    ASSUME FitInv, pc = "packet", length > 0
    PROVE  PacketData \in Seq(Int) /\ Len(PacketData) = length
<1>1. /\ buf \in Seq(Int) /\ Len(buf) = 3 + length + 2
      /\ length \in Nat /\ length > 0
  BY TransferIs DEF FitInv, Types, Complete, HEADER, TRAILER
<1>2. PacketData = SubSeq(buf, 4, 3 + length)
  BY DEF PacketData, HEADER
<1>3. /\ SubSeq(buf, 4, 3 + length) \in Seq(Int)
      /\ Len(SubSeq(buf, 4, 3 + length)) = length
  BY <1>1
<1> QED
  BY <1>2, <1>3

\* A packet that is written.
LEMMA WriteStep ==
    ASSUME FitInv, DiskInv, pc = "packet", length > 0, Write, pc' = "send",
           opened, header' = header
    PROVE  DiskInv'
<1> DEFINE d == PacketData
<1>1. /\ d \in Seq(Int) /\ Len(d) = length /\ Len(d) \in Nat
      /\ header /\ header' /\ pc # "done" /\ pc' # "done" /\ Len(d) > 0
  BY PacketHasData DEF DiskInv
<1>2. given' = Append(given, d)
  BY DEF Write
<1>3. CASE file' = Append(file, d) /\ failed' = failed
  <2>1. IsPrefix(d, d)
    <3>1. SubSeq(d, 1, Len(d)) = d
      BY <1>1
    <3> QED
      BY <1>1, <3>1 DEF IsPrefix
  <2> HIDE DEF d
  <2> QED
    BY <1>1, <1>2, <1>3, <2>1, DiskWrite
<1>4. CASE ~(file' = Append(file, d) /\ failed' = failed)
  <2>1. PICK m \in 0 .. length - 1 :
          file' = Append(file, SubSeq(d, 1, m)) /\ failed' = failed + 1
    BY <1>4 DEF Write
  <2> HIDE DEF d
  <2>2. m \in 0 .. Len(d) /\ m # Len(d)
    BY <2>1, <1>1
  <2>3. /\ SubSeq(d, 1, m) \in Seq(Int) /\ SubSeq(d, 1, m) # d
        /\ IsPrefix(SubSeq(d, 1, m), d)
    BY <2>2, <1>1, PartIsPrefix
  <2> QED
    BY <1>1, <1>2, <2>1, <2>3, DiskWrite
<1> QED
  BY <1>3, <1>4

\* The file is closed, or f_close fails.
LEMMA CloseStep ==
    ASSUME DiskInv, Close
    PROVE  DiskInv'
<1>1. /\ given \in Seq(Seq(Int)) /\ file \in Seq(Seq(Int)) /\ failed \in Nat
      /\ Len(file) = Len(given) /\ Len(given) \in Nat
      /\ \A i \in 1 .. Len(given) : Len(given[i]) > 0
  BY DEF DiskInv, StoresWhatItIsGiven
<1>2. /\ given' = given /\ pc' = "done" /\ pc = "closed" /\ ~opened'
      /\ header' = header
  BY DEF Close
<1>3. CASE UNCHANGED <<file, failed>>
  BY <1>2, <1>3 DEF DiskInv, StoresWhatItIsGiven
<1>4. CASE /\ opened /\ failed' = failed + 1
           /\ file' = [i \in DOMAIN file |-> <<>>]
  <2>1. DOMAIN file = 1 .. Len(given)
    BY <1>1
  <2>2. /\ file' \in Seq(Seq(Int)) /\ Len(file') = Len(given)
        /\ \A i \in 1 .. Len(given) : file'[i] = <<>>
    <3>1. <<>> \in Seq(Int)
      OBVIOUS
    <3> QED
      BY <1>1, <1>4, <2>1, <3>1
  <2>3. \A i \in 1 .. Len(given) : IsPrefix(file'[i], given[i])
    <3> SUFFICES ASSUME NEW i \in 1 .. Len(given)
                 PROVE  IsPrefix(<<>>, given[i])
      BY <2>2
    <3>1. given[i] \in Seq(Int)
      BY <1>1
    <3>2. Len(<<>>) = 0 /\ SubSeq(given[i], 1, 0) = <<>>
      BY <3>1
    <3> QED
      BY <3>1, <3>2 DEF IsPrefix
  <2>4. failed' \in Nat /\ failed' # 0
    BY <1>1, <1>4
  <2>5. ASSUME given # <<>> PROVE file' # given
    <3>1. 1 \in 1 .. Len(given)
      BY <2>5, <1>1
    <3>2. Len(given[1]) > 0 /\ file'[1] = <<>> /\ Len(<<>>) = 0
      BY <3>1, <1>1, <2>2
    <3> QED
      BY <3>2
  <2> QED
    BY <1>1, <1>2, <1>4, <2>2, <2>3, <2>4, <2>5
    DEF DiskInv, StoresWhatItIsGiven
<1> QED
  BY <1>3, <1>4 DEF Close

\* A file that was opened holds nothing yet.
LEMMA OpenStep ==
    ASSUME given' = <<>>, file' = <<>>, failed' = 0, ~header' => ~opened'
    PROVE  DiskInv'
<1>1. Short' = {} /\ Cardinality({}) = 0
  BY FS_EmptySet DEF Short
<1> QED
  BY <1>1 DEF DiskInv, StoresWhatItIsGiven

\* A step that has nothing to do with the disk.
LEMMA DiskKept ==
    ASSUME DiskInv, UNCHANGED <<disk, header, opened>>,
           pc' = "done" <=> pc = "done"
    PROVE  DiskInv'
<1>1. Short' = Short
  BY DEF Short
<1> QED
  BY <1>1 DEF DiskInv, StoresWhatItIsGiven

\* Every step leaves the file as f_write and f_close left it.
LEMMA DiskStep ==
    ASSUME FitInv, DiskInv, [YmodemNext]_ymodem
    PROVE  DiskInv'
<1>1. CASE Sender \/ Line \/ UNCHANGED ymodem
  BY <1>1, DiskKept DEF Sender, SenderStarts, SenderGoesOn, SenderCancelled,
     SenderIgnores, SenderRepeats, Line, Damage, Drop, DropAck, ymodem, rx
<1>2. CASE SendNext \/ FirstByte \/ EndOfTransmission \/ DrainByte \/ OtherCode
  BY <1>2, DiskKept DEF SendNext, FirstByte, Receiving, EndOfTransmission,
     DrainByte, OtherCode
<1>3. CASE LaterByte
  <2>1. UNCHANGED <<disk, header, opened>> /\ pc = "recv"
        /\ pc' \in {"packet", "recv"}
    BY <1>3 DEF LaterByte, Receiving
  <2> QED
    BY <2>1, DiskKept
<1>4. CASE Open
  <2>1. ~header /\ header' /\ pc = "packet" /\ failed' = failed
    BY <1>4 DEF Open, IsHeader
  <2>2. failed = 0
    BY <2>1 DEF DiskInv
  <2>3. CASE given' = <<>> /\ file' = <<>>
    BY <2>1, <2>2, <2>3, OpenStep
  <2>4. CASE pc' = "closed" /\ UNCHANGED <<opened, given, file>>
    <3>1. Short' = Short
      BY <2>4 DEF Short
    <3> QED
      BY <3>1, <2>1, <2>4 DEF DiskInv, StoresWhatItIsGiven
  <2> QED
    BY <1>4, <2>3, <2>4 DEF Open
<1>5. CASE Store
  <2>1. pc = "packet" /\ pc' = "send" /\ UNCHANGED <<header, opened>>
    BY <1>5 DEF Store
  <2>2. CASE opened /\ length > 0
    BY <1>5, <2>1, <2>2, WriteStep DEF Store
  <2>3. CASE ~(opened /\ length > 0)
    BY <1>5, <2>1, <2>3, DiskKept DEF Store
  <2> QED
    BY <2>2, <2>3
<1>6. CASE Close
  BY <1>6, CloseStep
<1> QED
  BY <1>1, <1>2, <1>3, <1>4, <1>5, <1>6 DEF YmodemNext, Receiver, Idle

\* At the start nothing was written.
LEMMA DiskInit == YmodemInit => DiskInv
<1> SUFFICES ASSUME YmodemInit PROVE DiskInv
  OBVIOUS
<1>1. Short = {} /\ Cardinality({}) = 0
  BY FS_EmptySet DEF Short, YmodemInit
<1> QED
  BY <1>1 DEF YmodemInit, DiskInv, StoresWhatItIsGiven

\* What f_write was given, and what the disk has of it, is what was sent.
LEMMA FileIsRight ==
    Types /\ FileInv /\ DiskInv => FileIsWhatWasSent
<1> SUFFICES ASSUME Types, FileInv, DiskInv PROVE FileIsWhatWasSent
  OBVIOUS
<1>1. StoresWhatItIsGiven
  BY DEF DiskInv
<1>2. ASSUME Faults \subseteq {"dropAck", "write"} PROVE InOrder(given)
  BY <1>2, GivenIsRight
<1>3. ASSUME Faults \subseteq {"write"}
      PROVE  WritesWhatWasSent /\ AcknowledgesWhatItWrote
  <2>1. /\ IsPrefix(given, Sent) /\ AcknowledgesWhatItWrote
        /\ sender = "done" => given = Sent
    BY <1>3, GivenIsRight
  <2>2. ASSUME given = Sent PROVE file = Sent <=> (failed = 0 \/ Sent = <<>>)
    <3>1. failed \in Nat /\ (failed = 0 => file = given)
          /\ (failed > 0 => file # given \/ given = <<>>)
          /\ (given = <<>> => file = <<>>)
      BY DEF DiskInv, StoresWhatItIsGiven
    <3> QED
      BY <3>1, <2>2
  <2> QED
    BY <2>1, <2>2 DEF WritesWhatWasSent
<1> QED
  BY <1>1, <1>2, <1>3 DEF FileIsWhatWasSent

\* On any line the file is, call by call, what f_write was given, and less
\* only where a call failed.  As long as the line has no faults that is at all
\* times what was sent, in order and once; each acknowledgement is for one
\* packet f_write was given, also where f_write failed; and at the end the file
\* is complete just in case no call failed.  If the line loses
\* acknowledgements, packets are written again, but Ymodem_ReceiveTask skips
\* none and writes none out of its order.
THEOREM FileIsAlwaysWhatWasSent == YmodemSpec => []FileIsWhatWasSent
<1> DEFINE I == FitInv /\ FileInv /\ DiskInv
<1>1. I /\ [YmodemNext]_ymodem => I'
  BY FitStep, FileStep, DiskStep DEF FitInv
<1>2. I => FileIsWhatWasSent
  BY FileIsRight DEF FitInv
<1>3. YmodemInit => I
  BY FitInit, FileInit, DiskInit
<1> QED
  BY <1>1, <1>2, <1>3, PTL DEF YmodemSpec

=============================================================================
