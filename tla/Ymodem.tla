------------------------------- MODULE Ymodem -------------------------------
(***************************************************************************)
(* The YMODEM receiver of the xyp1022 shell (libs/ymodem.c), byte by byte, *)
(* with a sender and a serial line that may damage or lose bytes.  The     *)
(* receiver has no timeout; only the sender repeats itself.                *)
(*                                                                         *)
(* Packets are scaled down: SmallSize and LargeSize stand for 128 and      *)
(* 1024, IndexMod for 256, Drain for 10 and Cancels for 6.  Whether the    *)
(* CRC bytes of a packet match is left open: they decide eRymState, which  *)
(* nothing reads.                                                          *)
(***************************************************************************)
EXTENDS Integers, Sequences, SequencesExt

CONSTANTS
    Transfers,  \* what is sent over which line: the packets of the file, what
                \* happens on the line or to the disk, and how often at most
    SmallSize, LargeSize,
    IndexMod,   \* a power of two
    Drain,      \* bytes read after the end of the transmission
    Cancels     \* RYM_CODE_CAN bytes sent then

\* The bits of a byte, by their values.
BitValues == {1, 2, 4, 8, 16, 32, 64, 128}

ASSUME YmodemConstants ==
    /\ Transfers \subseteq [blocks : Seq({"small", "large"}),
                            faults : SUBSET {"damage", "drop", "dropAck",
                                             "write"},
                            most : Nat]
    /\ SmallSize \in Nat \ {0} /\ LargeSize \in Nat \ {0}
    /\ SmallSize < LargeSize
    /\ IndexMod \in {2 * v : v \in BitValues}
    /\ Drain \in Nat /\ Cancels \in Nat \ {0}

SOH == 1
STX == 2
EOT == 4
ACK == 6
CAN == 24
CRC == 67
HEADER == 3
TRAILER == 2

VARIABLES
    line,       \* bytes on their way to the receiver
    back,       \* bytes on their way to the sender
    buf,        \* aui8Data up to ui16WrPosition
    length,     \* ui16PacketLength
    code,       \* ui8Code
    state,      \* eRymState
    ack,        \* ui8NextAckData
    header,     \* bHaveRecvedHeader
    given,      \* history: what f_write was given, call by call
    file,       \* what it stored of each, and whether m_fobj is open
    opened,
    failed,     \* history: calls of f_write and f_close that failed
    pc,
    drained,    \* bytes drained after EOT
    sent,       \* packets the sender has sent: 0 is the header
    sender,     \* what the sender waits for: "C", "ack", "can", "done"
    faults,     \* what happened on the line so far
    transfer    \* the file and the line, which never change

disk == <<given, file, failed>>
rx == <<buf, length, code, state, ack, header, disk, opened, pc, drained>>
tx == <<sent, sender>>
ymodem == <<line, back, rx, tx, faults, transfer>>

-----------------------------------------------------------------------------
(* The sender.  It answers every RYM_CODE_ACK with the next packet.         *)

Blocks == transfer.blocks
LastPacket == Len(Blocks)

\* Data bytes are those of no code, and different in every packet.
Payload(n) ==
    LET size == IF n > 0 /\ Blocks[n] = "large" THEN LargeSize ELSE SmallSize
    IN  [i \in 1 .. size |-> 100 + n]

Packet(n) ==
    <<IF n > 0 /\ Blocks[n] = "large" THEN STX ELSE SOH,
      n % IndexMod, IndexMod - 1 - (n % IndexMod)>>
    \o Payload(n) \o <<200, 201>>

\* What follows the acknowledgement of packet n.
After(n) == IF n < LastPacket THEN Packet(n + 1) ELSE <<EOT>>

SenderStarts ==
    /\ sender = "C" /\ back # <<>> /\ Head(back) = CRC
    /\ line' = line \o Packet(0)
    /\ back' = Tail(back)
    /\ sender' = "ack" /\ sent' = 0
    /\ UNCHANGED <<rx, faults>>

SenderGoesOn ==
    /\ sender = "ack" /\ back # <<>> /\ Head(back) = ACK /\ sent <= LastPacket
    /\ line' = line \o After(sent)
    /\ sent' = sent + 1
    /\ sender' = IF sent = LastPacket THEN "can" ELSE "ack"
    /\ back' = Tail(back)
    /\ UNCHANGED <<rx, faults>>

\* A cancelled sender confirms with as many bytes as the receiver drains.
SenderCancelled ==
    /\ sender \in {"ack", "can"} /\ back # <<>> /\ Head(back) = CAN
    /\ line' = line \o [i \in 1 .. Drain |-> CAN]
    /\ sender' = "done"
    /\ back' = Tail(back)
    /\ UNCHANGED <<sent, rx, faults>>

SenderIgnores ==
    /\ back # <<>>
    /\ \/ sender = "done"
       \/ sender = "C" /\ Head(back) # CRC
       \/ sender = "ack" /\ Head(back) \notin {ACK, CAN}
       \/ sender = "can" /\ Head(back) # CAN
    /\ back' = Tail(back)
    /\ UNCHANGED <<line, rx, tx, faults>>

\* No answer in time: the packet, or the end of transmission, is repeated.
SenderRepeats ==
    /\ sender \in {"ack", "can"} /\ line = <<>> /\ back = <<>>
    /\ pc = "recv"
    /\ line' = IF sender = "can" THEN <<EOT>> ELSE Packet(sent)
    /\ UNCHANGED <<back, rx, tx, faults>>

-----------------------------------------------------------------------------
(* The line.                                                                *)

Faults == transfer.faults
MaxFaults == transfer.most

Damage ==
    /\ "damage" \in Faults /\ faults < MaxFaults
    /\ \E i \in 1 .. Len(line), b \in {0, EOT, 102} :
         line[i] # b /\ line' = [line EXCEPT ![i] = b]
    /\ faults' = faults + 1
    /\ UNCHANGED <<back, rx, tx>>

Drop ==
    /\ "drop" \in Faults /\ faults < MaxFaults
    /\ \E i \in 1 .. Len(line) : line' = RemoveAt(line, i)
    /\ faults' = faults + 1
    /\ UNCHANGED <<back, rx, tx>>

DropAck ==
    /\ "dropAck" \in Faults /\ faults < MaxFaults
    /\ back # <<>> /\ Head(back) = ACK
    /\ back' = Tail(back)
    /\ faults' = faults + 1
    /\ UNCHANGED <<line, rx, tx>>

-----------------------------------------------------------------------------
(* The receiver.                                                            *)

\* YmodemRecvPacket sends the answer to the packet before.
SendNext ==
    /\ pc = "send"
    /\ back' = Append(back, ack)
    /\ buf' = <<>>
    /\ pc' = "recv"
    /\ UNCHANGED <<line, length, code, state, ack, header, disk, opened,
                   drained, tx, faults>>

Arrived == Head(line)
Receiving == pc = "recv" /\ line # <<>> /\ line' = Tail(line)

\* ui16RdPosition is 0: the code.
FirstByte ==
    /\ Receiving /\ buf = <<>>
    /\ code' = Arrived
    /\ buf' = <<Arrived>>
    /\ length' = CASE Arrived = SOH -> SmallSize [] Arrived = STX -> LargeSize
                   [] OTHER -> 0
    /\ state' = IF Arrived \in {SOH, STX} THEN "recv" ELSE "done"
    /\ pc' = IF Arrived \in {SOH, STX} THEN "recv" ELSE "packet"
    /\ UNCHANGED <<back, ack, header, disk, opened, drained, tx, faults>>

\* Faulty LastByte: as if the header had one byte more.
LastByteIsLater == Len(buf) = HEADER + length + 2

\* ui16RdPosition is that of the second CRC byte.
LastByte == Len(buf) = HEADER + length + 1

\* The operator & of C, for what is asked of it here.
HaveCommonBit(a, b) ==
    \E v \in BitValues : (a \div v) % 2 = 1 /\ (b \div v) % 2 = 1

\* The index, its complement, and the data.  A complement with a bit in
\* common with the index ends the packet, whose rest stays on the line.
LaterByte ==
    /\ Receiving /\ buf # <<>>
    /\ buf' = Append(buf, Arrived)
    /\ IF Len(buf) = 2 /\ HaveCommonBit(buf[2], Arrived)
         THEN length' = 0 /\ state' = "fail" /\ pc' = "packet"
         ELSE /\ UNCHANGED length
              /\ IF LastByte
                   THEN state' \in {"done", "fail"} /\ pc' = "packet"
                   ELSE UNCHANGED <<state, pc>>
    /\ UNCHANGED <<back, code, ack, header, disk, opened, drained, tx, faults>>

PacketData == SubSeq(buf, HEADER + 1, HEADER + length)

\* Faulty IsHeader: every packet of index 0 names a file.
IsHeaderByIndex == buf[2] = 0

IsHeader == ~header /\ buf[2] = 0

\* Ymodem_ReceiveTask: the first packet of index 0 names the file.  If it
\* cannot be opened, nothing more is received.
Open ==
    /\ pc = "packet" /\ code \in {SOH, STX} /\ IsHeader
    /\ header' = TRUE
    /\ ack' = ACK
    /\ \/ opened' = TRUE /\ given' = <<>> /\ file' = <<>> /\ pc' = "send"
       \/ pc' = "closed" /\ UNCHANGED <<opened, given, file>>
    /\ UNCHANGED <<line, back, buf, length, code, state, failed, drained, tx,
                   faults>>

\* A call of FatFs may fail (a full or a broken disk).
MayFail == "write" \in transfer.faults /\ failed < transfer.most

\* f_write stores the packet or, when it fails, less of it or nothing.
Write ==
    /\ given' = Append(given, PacketData)
    /\ \/ file' = Append(file, PacketData) /\ failed' = failed
       \/ /\ MayFail /\ failed' = failed + 1
          /\ \E n \in 0 .. length - 1 :
               file' = Append(file, SubSeq(PacketData, 1, n))

\* Faulty Store: a packet longer than the small ones is cut.
StoreSmall ==
    /\ pc = "packet" /\ code \in {SOH, STX} /\ ~IsHeader
    /\ IF opened /\ length > 0
         THEN /\ given' = Append(given, PacketData)
              /\ file' = Append(file, SubSeq(PacketData, 1, SmallSize))
              /\ failed' = failed
         ELSE UNCHANGED disk
    /\ ack' = ACK /\ pc' = "send"
    /\ UNCHANGED <<line, back, buf, length, code, state, header, opened,
                   drained, tx, faults>>

\* Faulty Store: only a packet found good is written, all are acknowledged.
StoreIfDone ==
    /\ pc = "packet" /\ code \in {SOH, STX} /\ ~IsHeader
    /\ IF opened /\ length > 0 /\ state = "done" THEN Write ELSE UNCHANGED disk
    /\ ack' = ACK /\ pc' = "send"
    /\ UNCHANGED <<line, back, buf, length, code, state, header, opened,
                   drained, tx, faults>>

\* Every other packet is written, whatever its index and eRymState, and
\* acknowledged, whatever f_write returns and bw says.  f_write refuses a file
\* that is not open, and writes nothing of a packet cut short.
Store ==
    /\ pc = "packet" /\ code \in {SOH, STX} /\ ~IsHeader
    /\ IF opened /\ length > 0 THEN Write ELSE UNCHANGED disk
    /\ ack' = ACK
    /\ pc' = "send"
    /\ UNCHANGED <<line, back, buf, length, code, state, header, opened,
                   drained, tx, faults>>

\* Faulty EndOfTransmission: it is acknowledged like a packet.
EndIsAcknowledged ==
    /\ pc = "packet" /\ code = EOT
    /\ ack' = ACK /\ pc' = "send"
    /\ UNCHANGED <<line, back, buf, length, code, state, header, disk, opened,
                   drained, tx, faults>>

\* The sender is cancelled rather than acknowledged.
EndOfTransmission ==
    /\ pc = "packet" /\ code = EOT
    /\ back' = back \o [i \in 1 .. Cancels |-> CAN]
    /\ drained' = 0
    /\ pc' = IF Drain = 0 THEN "closed" ELSE "drain"
    /\ UNCHANGED <<line, buf, length, code, state, ack, header, disk, opened,
                   tx, faults>>

\* The bytes the cancelled sender still sends are read, without a timeout.
DrainByte ==
    /\ pc = "drain" /\ line # <<>>
    /\ line' = Tail(line)
    /\ drained' = drained + 1
    /\ pc' = IF drained + 1 = Drain THEN "closed" ELSE "drain"
    /\ UNCHANGED <<back, buf, length, code, state, ack, header, disk, opened,
                   tx, faults>>

\* Any other code: the last answer is sent once more.
OtherCode ==
    /\ pc = "packet" /\ code \notin {SOH, STX, EOT}
    /\ pc' = "send"
    /\ UNCHANGED <<line, back, buf, length, code, state, ack, header, disk,
                   opened, drained, tx, faults>>

\* f_close, and the task returns, whatever f_close returns.  Where it fails
\* the directory still has the size of the file that was opened, which is 0.
Close ==
    /\ pc = "closed"
    /\ \/ UNCHANGED <<file, failed>>
       \/ /\ opened /\ MayFail /\ failed' = failed + 1
          /\ file' = [i \in DOMAIN file |-> <<>>]
    /\ opened' = FALSE
    /\ pc' = "done"
    /\ UNCHANGED <<line, back, buf, length, code, state, ack, header, given,
                   drained, tx, faults>>

Receiver ==
    /\ \/ SendNext \/ FirstByte \/ LaterByte \/ Open \/ Store
       \/ EndOfTransmission \/ DrainByte \/ OtherCode \/ Close
    /\ UNCHANGED transfer

Sender ==
    /\ \/ SenderStarts \/ SenderGoesOn \/ SenderCancelled \/ SenderIgnores
       \/ SenderRepeats
    /\ UNCHANGED transfer

Line == (Damage \/ Drop \/ DropAck) /\ UNCHANGED transfer

\* Nothing left to do: the command has returned, or it waits for bytes to
\* drain that were lost.
Idle ==
    /\ back = <<>>
    /\ pc = "done" \/ (pc = "drain" /\ line = <<>> /\ sender = "done")
    /\ UNCHANGED ymodem

YmodemInit ==
    /\ line = <<>> /\ back = <<>>
    /\ buf = <<>> /\ length = 0 /\ code = 0 /\ state = "init"
    /\ ack = CRC /\ header = FALSE
    /\ given = <<>> /\ file = <<>> /\ opened = FALSE /\ failed = 0
    /\ pc = "send" /\ drained = 0
    /\ sent = 0 /\ sender = "C"
    /\ faults = 0
    /\ transfer \in Transfers

YmodemNext == Receiver \/ Sender \/ Line \/ Idle

\* The receiver polls the UART, the sender answers and repeats.
YmodemSpec ==
    /\ YmodemInit /\ [][YmodemNext]_ymodem
    /\ WF_ymodem(Receiver) /\ WF_ymodem(Sender)

-----------------------------------------------------------------------------
(* Properties.                                                              *)

Sent == [n \in 1 .. LastPacket |-> Payload(n)]

\* The calls of f_write whose packet is not in the file, or not whole.
Short == {i \in 1 .. Len(given) : file[i] # given[i]}

\* The file holds, packet by packet, what f_write was given, except where a
\* call failed: there it holds less.
StoresWhatItIsGiven ==
    /\ Len(file) = Len(given)
    /\ \A i \in 1 .. Len(given) : IsPrefix(file[i], given[i])
    /\ failed = 0 => file = given
    /\ pc # "done" => Cardinality(Short) = failed

\* f_write is given what was sent, in order and once, however often the index
\* wraps around.  When both sides have finished it was given everything, and
\* the file is what was sent just in case no call failed: the sender is not
\* told of one that did.
WritesWhatWasSent ==
    /\ IsPrefix(given, Sent)
    /\ (pc = "done" /\ sender = "done") =>
         given = Sent /\ (file = Sent <=> (failed = 0 \/ Sent = <<>>))

\* Each acknowledgement is for one packet that f_write was given, not for one
\* it stored: the sender is never ahead of the calls of f_write by more than
\* the packet under way.
AcknowledgesWhatItWrote ==
    (opened /\ sender = "ack") => sent \in {Len(given), Len(given) + 1}

\* Each packet of f is the one before it once more, or the next one.
InOrder(f) ==
    LET number(i) == IF i = 0 THEN 0 ELSE f[i][1] - 100
    IN  \A i \in 1 .. Len(f) : number(i) \in {number(i - 1), number(i - 1) + 1}

\* The file is what was sent, in order and once, although the packet index
\* wraps to the value of the header, as long as the line has no faults and no
\* call of FatFs fails.  A call that fails (ymodem.c:179 looks neither at its
\* result nor at bw) is acknowledged all the same; what the file then lacks
\* is a part of that packet and nothing else, or everything if it is f_close.
\* If acknowledgements are lost, packets are written again, the header of the
\* file too, but none is skipped and none comes out of its order.
FileIsWhatWasSent ==
    /\ StoresWhatItIsGiven
    /\ Faults \subseteq {"write"} =>
         WritesWhatWasSent /\ AcknowledgesWhatItWrote
    /\ Faults \subseteq {"dropAck", "write"} => InOrder(given)

\* Whatever the receiver takes for a packet on a noisy line, it never writes
\* beyond the end of aui8Data.
PacketFits == Len(buf) <= HEADER + LargeSize + TRAILER

\* On a line without faults the transfer comes to an end and the file is
\* closed, whatever becomes of the calls of FatFs, if the sender answers the
\* cancellation with as many bytes as are drained.
TransferEnds == (Faults \subseteq {"write"}) ~> (pc = "done" /\ ~opened)

\* The receiver asks for CRC mode ("request 16-bit CRC", ymodem.h): what it
\* stores is what was sent, and not what the line made of it.
DamagedIsNotStored ==
    \A i \in 1 .. Len(file) : \E n \in 0 .. LastPacket : file[i] = Payload(n)
=============================================================================
