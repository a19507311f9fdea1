------------------------------- MODULE Iperf --------------------------------
(***************************************************************************)
(* The network tests of iperf.c, started by shell commands as tasks: the   *)
(* TCP client ("tcp") and the two speed tests ("udp_speed", "tcp_speed"),  *)
(* with the TCP server beside them.  All draw their connections from the   *)
(* pool of MEMP_NUM_NETCONN netconns of lwIP (external).                   *)
(*                                                                         *)
(* A failing pvPortMalloc is left out: vApplicationMallocFailedHook loops  *)
(* for ever, so that the code behind it never sees NULL.                   *)
(***************************************************************************)
EXTENDS Naturals, FiniteSets

CONSTANTS
    Commands,   \* the commands the user gives
    Slots,      \* bound: tasks at one time
    Pool,       \* netconns that the two listening servers leave
    Accepts,    \* bound: connections the TCP server holds at one time
    Duration,   \* length of a speed test, in units of 20 seconds / Duration
    Listens     \* whether the PC listens from the start

Kinds == {"tcp", "udp_speed", "tcp_speed"}

IperfConstants ==
    /\ Commands \subseteq Kinds
    /\ IsFiniteSet(Slots)
    /\ Pool \in Nat /\ Accepts \in Nat /\ Duration \in Nat \ {0}
    /\ Listens \in BOOLEAN

ASSUME IperfAssumption == IperfConstants

VARIABLES
    created,    \* m_tcp_client_created, m_udp_speed_client_created, ...
    stage,         \* where each task stands; "none" for an unused slot
    kind,       \* the command that created it
    conn,       \* whether conn holds a netconn
    data,       \* what recv_send_data or send_data points to
    time,       \* ticks since start_time
    free,       \* netconns in the pool
    accepted,   \* connections the TCP server holds
    listening   \* the PC accepts connections

vars == <<created, stage, kind, conn, data, time, free, accepted, listening>>
network == <<free, accepted, listening>>

Goto(s, l) == stage' = [stage EXCEPT ![s] = l]
At(s, l) == stage[s] = l
Speed == {"udp_speed", "tcp_speed"}

-----------------------------------------------------------------------------
(* The shell.                                                               *)

\* ShellCommand_Tcp, ShellCommand_UdpSpeed and ShellCommand_TcpSpeed.  The
\* command runs in a critical section; the task has begun pvPortMalloc and
\* filled its buffer when it is seen next.
Command(k, s) ==
    /\ ~created[k]
    /\ At(s, "none")
    /\ created' = [created EXCEPT ![k] = TRUE]
    /\ kind' = [kind EXCEPT ![s] = k]
    /\ data' = [data EXCEPT ![s] = "heap"]
    /\ time' = [time EXCEPT ![s] = 0]
    /\ Goto(s, "new")
    /\ UNCHANGED <<conn, network>>

-----------------------------------------------------------------------------
(* The tasks.                                                               *)

\* netconn_new.
NewConn(s) ==
    /\ At(s, "new") /\ free > 0
    /\ free' = free - 1
    /\ conn' = [conn EXCEPT ![s] = TRUE]
    /\ Goto(s, IF kind[s] = "udp_speed" THEN "transfer" ELSE "connect")
    /\ UNCHANGED <<created, kind, data, time, accepted, listening>>

\* Faulty NewConnFails: the buffer is not freed.
NewConnFailsKeeps(s) ==
    /\ At(s, "new") /\ free = 0 /\ kind[s] \in Speed
    /\ Goto(s, "returned")
    /\ UNCHANGED <<created, kind, conn, data, time, network>>

\* netconn_new gives NULL: a speed test frees its buffer and returns.  The
\* TCP client waits and tries again.
NewConnFails(s) ==
    /\ At(s, "new") /\ free = 0 /\ kind[s] \in Speed
    /\ data' = [data EXCEPT ![s] = "freed"]
    /\ Goto(s, "returned")
    /\ UNCHANGED <<created, kind, conn, time, network>>

Connect(s) ==
    /\ At(s, "connect") /\ listening
    /\ Goto(s, "transfer")
    /\ UNCHANGED <<created, kind, conn, data, time, network>>

\* The TCP client closes the connection and makes a new one; the netconn of
\* the old one is not deleted.
ClientConnectFails(s) ==
    /\ At(s, "connect") /\ ~listening /\ kind[s] = "tcp"
    /\ conn' = [conn EXCEPT ![s] = FALSE]
    /\ Goto(s, "new")
    /\ UNCHANGED <<created, kind, data, time, network>>

\* Faulty SpeedConnectFails: the connection is closed and not deleted.
SpeedConnectLeaks(s) ==
    /\ At(s, "connect") /\ ~listening /\ kind[s] = "tcp_speed"
    /\ conn' = [conn EXCEPT ![s] = FALSE]
    /\ data' = [data EXCEPT ![s] = "freed"]
    /\ created' = [created EXCEPT ![kind[s]] = FALSE]
    /\ Goto(s, "none")
    /\ UNCHANGED <<kind, time, network>>

\* Faulty SpeedConnectFails: the command stays marked as running.
SpeedConnectForgets(s) ==
    /\ At(s, "connect") /\ ~listening /\ kind[s] = "tcp_speed"
    /\ free' = free + 1
    /\ conn' = [conn EXCEPT ![s] = FALSE]
    /\ data' = [data EXCEPT ![s] = "freed"]
    /\ Goto(s, "none")
    /\ UNCHANGED <<created, kind, time, accepted, listening>>

\* The TCP speed test gives everything back and deletes itself.
SpeedConnectFails(s) ==
    /\ At(s, "connect") /\ ~listening /\ kind[s] = "tcp_speed"
    /\ free' = free + 1
    /\ conn' = [conn EXCEPT ![s] = FALSE]
    /\ data' = [data EXCEPT ![s] = "freed"]
    /\ created' = [created EXCEPT ![kind[s]] = FALSE]
    /\ Goto(s, "none")
    /\ UNCHANGED <<kind, time, accepted, listening>>

\* The TCP client receives: netbuf_data points recv_send_data into the
\* netbuf, what is there is sent back, and the netbuf is deleted.
Receive(s) ==
    /\ At(s, "transfer") /\ kind[s] = "tcp"
    /\ data' = [data EXCEPT ![s] = "netbuf"]
    /\ UNCHANGED <<created, stage, kind, conn, time, network>>

\* The PC closes the connection: the client deletes the netconn, frees what
\* recv_send_data points to, and its task function returns.  Once something
\* was received that is not the buffer, which is lost.
ClientEnds(s) ==
    /\ At(s, "transfer") /\ kind[s] = "tcp"
    /\ free' = free + 1
    /\ conn' = [conn EXCEPT ![s] = FALSE]
    /\ data' = [data EXCEPT ![s] = IF @ = "heap" THEN "freed" ELSE "lost"]
    /\ Goto(s, "returned")
    /\ UNCHANGED <<created, kind, time, accepted, listening>>

\* Faulty Round: one more after the time is over.
RoundMore(s) ==
    /\ At(s, "transfer") /\ kind[s] \in Speed /\ time[s] <= Duration
    /\ time' = [time EXCEPT ![s] = @ + 1]
    /\ UNCHANGED <<created, stage, kind, conn, data, network>>

\* Rounds of a speed test, in each of which a packet is sent, or memory is
\* short and the test waits or tries again, until the next tick.
Round(s) ==
    /\ At(s, "transfer") /\ kind[s] \in Speed /\ time[s] < Duration
    /\ time' = [time EXCEPT ![s] = @ + 1]
    /\ UNCHANGED <<created, stage, kind, conn, data, network>>

\* The time is over, or netconn_write of the TCP test fails.
RoundsEnd(s) ==
    /\ At(s, "transfer") /\ kind[s] \in Speed
    /\ time[s] >= Duration \/ kind[s] = "tcp_speed"
    /\ Goto(s, "report")
    /\ UNCHANGED <<created, kind, conn, data, time, network>>

\* Faulty GiveBack: the next test may start before this one is over.
GiveBackEarly(s) ==
    /\ At(s, "report")
    /\ created' = [created EXCEPT ![kind[s]] = FALSE]
    /\ Goto(s, "reset")
    /\ UNCHANGED <<kind, conn, data, time, network>>

\* Faulty GiveBack: the netconn is closed and not deleted.
GiveBackLeaks(s) ==
    /\ At(s, "report")
    /\ conn' = [conn EXCEPT ![s] = FALSE]
    /\ data' = [data EXCEPT ![s] = "freed"]
    /\ Goto(s, "reset")
    /\ UNCHANGED <<created, kind, time, network>>

\* The result is printed, the netconn and the buffer are given back.
GiveBack(s) ==
    /\ At(s, "report")
    /\ free' = free + 1
    /\ conn' = [conn EXCEPT ![s] = FALSE]
    /\ data' = [data EXCEPT ![s] = "freed"]
    /\ Goto(s, "reset")
    /\ UNCHANGED <<created, kind, time, accepted, listening>>

ResetFlag(s) ==
    /\ At(s, "reset")
    /\ created' = [created EXCEPT ![kind[s]] = FALSE]
    /\ Goto(s, "delay")
    /\ UNCHANGED <<kind, conn, data, time, network>>

\* 100 ms later the task deletes itself.
Delete(s) ==
    /\ At(s, "delay")
    /\ Goto(s, "none")
    /\ UNCHANGED <<created, kind, conn, data, time, network>>

-----------------------------------------------------------------------------
(* The TCP server, whose connections take netconns too, and the PC.         *)

Accept ==
    /\ accepted < Accepts /\ free > 0
    /\ accepted' = accepted + 1 /\ free' = free - 1
    /\ UNCHANGED <<created, stage, kind, conn, data, time, listening>>

ServerCloses ==
    /\ accepted > 0
    /\ accepted' = accepted - 1 /\ free' = free + 1
    /\ UNCHANGED <<created, stage, kind, conn, data, time, listening>>

PcListens ==
    /\ ~listening
    /\ listening' = TRUE
    /\ UNCHANGED <<created, stage, kind, conn, data, time, free, accepted>>

-----------------------------------------------------------------------------

Init ==
    /\ created = [k \in Kinds |-> FALSE]
    /\ stage = [s \in Slots |-> "none"]
    /\ kind = [s \in Slots |-> "tcp"]
    /\ conn = [s \in Slots |-> FALSE]
    /\ data = [s \in Slots |-> "freed"]
    /\ time = [s \in Slots |-> 0]
    /\ free = Pool /\ accepted = 0
    /\ listening = Listens

Task(s) ==
    \/ NewConn(s) \/ NewConnFails(s) \/ Connect(s)
    \/ ClientConnectFails(s) \/ SpeedConnectFails(s)
    \/ Receive(s) \/ ClientEnds(s)
    \/ Round(s) \/ RoundsEnd(s) \/ GiveBack(s) \/ ResetFlag(s) \/ Delete(s)

\* Nothing is left for the tasks to do.
Rest ==
    /\ \A s \in Slots : stage[s] \in {"none", "returned", "new"}
    /\ UNCHANGED vars

Next ==
    \/ \E k \in Commands, s \in Slots : Command(k, s)
    \/ \E s \in Slots : Task(s)
    \/ Accept \/ ServerCloses \/ PcListens \/ Rest

\* The tasks run, and the user of the PC starts the program there in time.
Fairness ==
    /\ \A s \in Slots : WF_vars(Task(s))
    /\ WF_vars(ServerCloses)
    /\ WF_vars(PcListens)

Spec == Init /\ [][Next]_vars /\ Fairness

-----------------------------------------------------------------------------
(* Properties.                                                              *)

\* Every variable has its type; no netconn is given back twice.
TypeOK ==
    /\ created \in [Kinds -> BOOLEAN]
    /\ stage \in [Slots -> {"none", "new", "connect", "transfer", "report",
                         "reset", "delay", "returned"}]
    /\ kind \in [Slots -> Kinds]
    /\ conn \in [Slots -> BOOLEAN]
    /\ data \in [Slots -> {"heap", "netbuf", "freed", "lost"}]
    /\ time \in [Slots -> 0 .. Duration]
    /\ free \in 0 .. Pool /\ accepted \in 0 .. Accepts
    /\ listening \in BOOLEAN

Held == {s \in Slots : conn[s]}

\* On every way out of a speed test its netconn goes back to the pool: those
\* missing there are held by a task or by the server, as long as no TCP
\* client was started, which loses them when it cannot connect.
NoneLeaked == ~created["tcp"] => free + accepted + Cardinality(Held) = Pool

\* A task that is over, in whichever way, has neither netconn nor buffer, but
\* for the TCP client that received something.
EndsEmptyHanded ==
    \A s \in Slots :
        stage[s] \in {"none", "reset", "delay", "returned"} =>
            /\ ~conn[s]
            /\ data[s] = "freed" \/ (kind[s] = "tcp" /\ data[s] = "lost")

\* The tests give back what they took: a speed test its netconn, on every way
\* out, and a task that ends with the pool empty or the connection closed its
\* netconn and its buffer.
NothingLeaked == TypeOK /\ NoneLeaked /\ EndsEmptyHanded

\* Although the command may be given again before the task of the last test
\* is deleted, two tests of a kind never share the line: at most one of them
\* has a netconn.
OneTestAtATime ==
    \A s, t \in Slots : s # t /\ conn[s] /\ conn[t] => kind[s] # kind[t]

\* Netconns that nobody holds and that are not in the pool.
Lost == Pool - (free + accepted + Cardinality(Held))

\* "UDP speed test already running!" (xshell_command.c:877): a speed test
\* that the shell refuses to start is one that runs.
RefusedIsRunning ==
    \A k \in Speed :
        created[k] =>
            \E s \in Slots : kind[s] = k /\ stage[s] \notin {"none", "returned"}
=============================================================================
