----------------------------- MODULE MCPrograms -----------------------------
(* Small instances of the programs beside the kernel: the tests of the       *)
(* network (Iperf), the driver of the PHY (Phy) and the YMODEM receiver      *)
(* (Ymodem).  Each behaviour is one of one of them, while the variables of   *)
(* the others stand still.  The constants of Iperf are those of "pool",      *)
(* where all tests run at once; lwIP has 4 netconns (MEMP_NUM_NETCONN), of   *)
(* which the two listening servers leave 2.  Those of Phy are a bus on which *)
(* accesses may time out, and a link that comes and goes in every mode.      *)
EXTENDS Iperf, Phy, Ymodem

\* "speed", "client" or "pool" (Iperf), "phy" (Phy) or "transfer" (Ymodem).
VARIABLE part

\* Speed tests and a server, with a PC that may not listen yet.
Tests == INSTANCE Iperf WITH
    Commands <- {"udp_speed", "tcp_speed"}

\* The TCP client alone, with a PC that may not listen yet.
Client == INSTANCE Iperf WITH Commands <- {"tcp"}, Accepts <- 0

ASSUME Instances == Tests!IperfConstants /\ Client!IperfConstants

\* Both sizes of packets; the index has 4 values, and six packets wrap it.
Wrapping == <<"large", "small", "large", "large", "small", "large">>

\* A line without faults; one on which acknowledgements are lost and packets
\* repeated; a disk that fails, without and with lost acknowledgements; and a
\* line on which bytes are changed and lost.
SomeTransfers ==
    {[blocks |-> Wrapping, faults |-> {}, most |-> 0],
     [blocks |-> <<"large", "small">>, faults |-> {"dropAck"}, most |-> 3],
     [blocks |-> <<"large", "small", "large">>, faults |-> {"write"},
      most |-> 2],
     [blocks |-> <<"small", "large">>, faults |-> {"dropAck", "write"},
      most |-> 2],
     [blocks |-> <<"large", "small">>, faults |-> {"damage", "drop"},
      most |-> 2]}

\* The variables where they stand still.  The transfer that stands still is
\* one that need not end.
PhyOff == PhyInit /\ control = {12, 8, 6}
TransferOff == YmodemInit /\ "drop" \in Faults

MCInit ==
    \/ part = "speed" /\ Tests!Init /\ PhyOff /\ TransferOff
    \/ part = "client" /\ Client!Init /\ PhyOff /\ TransferOff
    \/ part = "pool" /\ Init /\ PhyOff /\ TransferOff
    \/ part = "phy" /\ Init /\ PhyInit /\ TransferOff
    \/ part = "transfer" /\ Init /\ PhyOff /\ YmodemInit

MCNext ==
    /\ UNCHANGED part
    /\ \/ part = "speed" /\ Tests!Next /\ UNCHANGED <<phyVars, ymodem>>
       \/ part = "client" /\ Client!Next /\ UNCHANGED <<phyVars, ymodem>>
       \/ part = "pool" /\ Next /\ UNCHANGED <<phyVars, ymodem>>
       \/ part = "phy" /\ PhyNext /\ UNCHANGED <<vars, ymodem>>
       \/ part = "transfer" /\ YmodemNext /\ UNCHANGED <<vars, phyVars>>

\* The fairness of each, where a liveness property needs it.
IperfFair ==
    /\ \A s \in Slots : /\ WF_vars(part = "speed" /\ Tests!Task(s))
                        /\ WF_vars(part = "client" /\ Client!Task(s))
    /\ WF_vars(part = "speed" /\ Tests!ServerCloses)
    /\ WF_vars(part = "speed" /\ Tests!PcListens)
    /\ WF_vars(part = "client" /\ Client!PcListens)

PhyFair ==
    /\ WF_phyVars(part = "phy" /\ (Issue \/ Complete \/ TimeOut))
    /\ WF_phyVars(part = "phy" /\ BusEnds)
    /\ WF_phyVars(part = "phy" /\ ResetEnds)
    /\ WF_phyVars(part = "phy" /\ LinkUp)

\* The receiver polls the UART, and the sender answers.
TransferFair ==
    /\ WF_ymodem(part = "transfer" /\ Receiver)
    /\ WF_ymodem(part = "transfer" /\ Sender)

MCSpec ==
    /\ MCInit /\ [][MCNext]_<<part, vars, phyVars, ymodem>>
    /\ IperfFair /\ PhyFair /\ TransferFair

-----------------------------------------------------------------------------
(* Properties.                                                              *)

\* A speed test comes to an end, and the command can be given again, unless
\* the test finds the pool empty (iperf.c:354, 462): then its task has returned.
\* And "it will recv/send data from/to PC" (iperf.c:31): a TCP client that was
\* started gets its connection once the PC listens, unless it has lost every
\* netconn of the pool by then, one for each time it could not connect
\* (iperf.c:171).
TestsProceed ==
    /\ \A k \in Speed :
         (part = "speed" /\ created[k]) ~>
             (\/ ~created[k]
              \/ \E s \in Slots : kind[s] = k /\ At(s, "returned"))
    /\ \A s \in Slots :
         (part = "client" /\ At(s, "new") /\ kind[s] = "tcp") ~>
             (At(s, "transfer") \/ Lost = Pool)

\* Every call of the driver of the PHY returns: the reset ends, the link comes
\* up, and the driver (drv_gmac_phy.c:180, 184) sees it over a slow bus, as
\* long as the bus ends every access.
PhyCallsReturn == (part = "phy" /\ at # "idle") ~> (at = "idle")
=============================================================================
