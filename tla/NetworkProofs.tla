--------------------------- MODULE NetworkProofs ----------------------------
(***************************************************************************)
(* Theorems about Iperf, for any number of tasks, any pool of netconns and *)
(* whatever commands the user gives; and about Phy, for every speed that   *)
(* is configured, every mode and behaviour of the link, and any number of  *)
(* accesses that time out.                                                 *)
(***************************************************************************)
EXTENDS Iperf, Phy, FiniteSetTheorems, TLAPS

-----------------------------------------------------------------------------
(* iperf: the inductive invariant.                                          *)

\* A task has a netconn between making one and giving it back, and only speed
\* tests report.
TaskWhere ==
    \A s \in Slots :
        /\ conn[s] <=> stage[s] \in {"connect", "transfer", "report"}
        /\ stage[s] \in {"report", "reset", "delay"} => kind[s] \in Speed

\* The test of a task that is not over is marked as running.
Marked == \A s \in Slots : stage[s] \notin {"none", "delay"} => created[kind[s]]

\* So no two of them are of a kind.
Alone ==
    \A s, t \in Slots :
        s # t /\ stage[s] \notin {"none", "delay"} /\ stage[t] \notin {"none", "delay"}
        => kind[s] # kind[t]

InUse == free + accepted + Cardinality(Held)

\* No netconn is given back twice.
Bounded == InUse <= Pool

IperfInv ==
    /\ TypeOK /\ TaskWhere /\ Marked /\ Alone
    /\ Bounded /\ NoneLeaked /\ EndsEmptyHanded

-----------------------------------------------------------------------------
(* Counting netconns.                                                       *)

\* Taking a netconn and letting it go changes the number of those held by one.
LEMMA HeldCount ==
    ASSUME TypeOK, NEW s \in Slots
    PROVE  /\ Cardinality(Held) \in Nat
           /\ ~conn[s] /\ conn' = [conn EXCEPT ![s] = TRUE] =>
                Cardinality(Held') = Cardinality(Held) + 1
           /\ conn[s] /\ conn' = [conn EXCEPT ![s] = FALSE] =>
                Cardinality(Held') = Cardinality(Held) - 1
           /\ conn' = conn => Cardinality(Held') = Cardinality(Held)
<1>1. IsFiniteSet(Held) /\ Cardinality(Held) \in Nat
  <2>1. IsFiniteSet(Slots) BY IperfAssumption DEF IperfConstants
  <2>2. IsFiniteSet(Held) BY <2>1, FS_Subset DEF Held
  <2> QED BY <2>2, FS_CardinalityType
<1>2. ASSUME ~conn[s], conn' = [conn EXCEPT ![s] = TRUE]
      PROVE  Cardinality(Held') = Cardinality(Held) + 1
  <2>1. Held' = Held \cup {s} /\ s \notin Held
    BY <1>2 DEF Held, TypeOK
  <2> QED BY <1>1, <2>1, FS_AddElement
<1>3. ASSUME conn[s], conn' = [conn EXCEPT ![s] = FALSE]
      PROVE  Cardinality(Held') = Cardinality(Held) - 1
  <2>1. Held' = Held \ {s} /\ s \in Held
    BY <1>3 DEF Held, TypeOK
  <2> QED BY <1>1, <2>1, FS_RemoveElement
<1>4. conn' = conn => Held' = Held BY DEF Held
<1> QED BY <1>1, <1>2, <1>3, <1>4

\* The same for a step of the server or the PC.
LEMMA HeldKept ==
    ASSUME TypeOK
    PROVE  /\ Cardinality(Held) \in Nat
           /\ conn' = conn => Cardinality(Held') = Cardinality(Held)
<1>1. IsFiniteSet(Slots) BY IperfAssumption DEF IperfConstants
<1>2. IsFiniteSet(Held) BY <1>1, FS_Subset DEF Held
<1>3. conn' = conn => Held' = Held BY DEF Held
<1> QED BY <1>2, <1>3, FS_CardinalityType

-----------------------------------------------------------------------------
(* The invariant holds.                                                     *)

\* Nothing runs at first.
LEMMA InvInit == Init => IperfInv /\ InUse = Pool
<1> SUFFICES ASSUME Init PROVE IperfInv /\ InUse = Pool OBVIOUS
<1>1. TypeOK BY IperfAssumption DEF Init, TypeOK, Kinds, IperfConstants
<1>2. TaskWhere /\ Marked /\ Alone /\ EndsEmptyHanded
  BY DEF Init, TaskWhere, Marked, Alone, EndsEmptyHanded
<1>3. Held = {} BY DEF Init, Held
<1>4. InUse = Pool
  BY <1>3, FS_EmptySet, IperfAssumption DEF Init, InUse, IperfConstants
<1> QED BY <1>1, <1>2, <1>4, IperfAssumption
        DEF IperfInv, Bounded, NoneLeaked, InUse, IperfConstants

\* A netconn taken from the pool is held, and one given back was.  Only a TCP
\* client that cannot connect lets one go without giving it back.
LEMMA CountStep ==
    ASSUME TypeOK, TaskWhere, Bounded, [Next]_vars
    PROVE  /\ InUse' <= Pool /\ free' \in 0 .. Pool /\ accepted' \in 0 .. Accepts
           /\ (\A s \in Slots : ~ClientConnectFails(s)) => InUse' = InUse
<1> USE IperfAssumption DEF IperfConstants, network
<1>0. Cardinality(Held) \in Nat BY HeldKept
<1>1. CASE UNCHANGED vars \/ Rest
  BY <1>0, <1>1, HeldKept DEF vars, Rest, InUse, Bounded, TypeOK
<1>2. ASSUME NEW s \in Slots, NewConn(s)
      PROVE  InUse' = InUse /\ free' \in 0 .. Pool /\ accepted' = accepted
  <2>1. ~conn[s] BY <1>2 DEF NewConn, At, TaskWhere
  <2>2. Cardinality(Held') = Cardinality(Held) + 1
    <3>1. conn' = [conn EXCEPT ![s] = TRUE] BY <1>2 DEF NewConn
    <3> QED BY ONLY <2>1, <3>1, HeldCount, TypeOK, s \in Slots
  <2> QED BY <1>0, <1>2, <2>2 DEF NewConn, InUse, TypeOK
<1>3. ASSUME NEW s \in Slots, SpeedConnectFails(s) \/ ClientEnds(s) \/ GiveBack(s)
      PROVE  InUse' = InUse /\ free' \in 0 .. Pool /\ accepted' = accepted
  <2>1. conn[s]
    BY <1>3 DEF SpeedConnectFails, ClientEnds, GiveBack, At, TaskWhere
  <2>2. /\ conn' = [conn EXCEPT ![s] = FALSE]
        /\ free' = free + 1 /\ accepted' = accepted
    BY <1>3 DEF SpeedConnectFails, ClientEnds, GiveBack
  <2>3. Cardinality(Held') = Cardinality(Held) - 1 /\ Cardinality(Held') \in Nat
    <3>1. s \in Held BY <2>1 DEF Held
    <3>2. Cardinality(Held) # 0
      <4>1. IsFiniteSet(Held) BY FS_Subset DEF Held
      <4> QED BY <3>1, <4>1, FS_EmptySet
    <3>3. Cardinality(Held') = Cardinality(Held) - 1
      BY ONLY <2>1, <2>2, HeldCount, TypeOK, s \in Slots
    <3> QED BY <1>0, <3>2, <3>3
  <2> QED BY <1>0, <2>2, <2>3 DEF InUse, Bounded, TypeOK
<1>4. ASSUME NEW s \in Slots, ClientConnectFails(s)
      PROVE  InUse' <= Pool /\ free' = free /\ accepted' = accepted
  <2>1. conn[s] BY <1>4 DEF ClientConnectFails, At, TaskWhere
  <2>2. Cardinality(Held') = Cardinality(Held) - 1
    <3>1. conn' = [conn EXCEPT ![s] = FALSE] BY <1>4 DEF ClientConnectFails
    <3> QED BY ONLY <2>1, <3>1, HeldCount, TypeOK, s \in Slots
  <2> QED BY <1>0, <1>4, <2>2
          DEF ClientConnectFails, InUse, Bounded, TypeOK
<1>5. ASSUME NEW s \in Slots,
             \/ (\E k \in Commands : Command(k, s)) \/ NewConnFails(s) \/ Connect(s)
             \/ Receive(s) \/ Round(s) \/ RoundsEnd(s) \/ ResetFlag(s) \/ Delete(s)
      PROVE  InUse' = InUse /\ free' = free /\ accepted' = accepted
  <2>1. UNCHANGED <<conn, free, accepted>>
    BY <1>5 DEF Command, NewConnFails, Connect, Receive, Round, RoundsEnd,
                ResetFlag, Delete
  <2> QED BY <2>1, HeldKept DEF InUse
<1>6. ASSUME Accept \/ ServerCloses \/ PcListens
      PROVE  InUse' = InUse /\ free' \in 0 .. Pool /\ accepted' \in 0 .. Accepts
  BY <1>0, <1>6, HeldKept
     DEF Accept, ServerCloses, PcListens, InUse, Bounded, TypeOK
<1>7. InUse \in Nat BY <1>0 DEF InUse, TypeOK
<1> QED BY <1>1, <1>2, <1>3, <1>4, <1>5, <1>6, <1>7
        DEF Next, Task, Bounded, TypeOK

\* Every step keeps the invariant.
LEMMA InvStep == IperfInv /\ [Next]_vars => IperfInv'
<1> SUFFICES ASSUME IperfInv, [Next]_vars PROVE IperfInv' OBVIOUS
<1> USE IperfAssumption DEF IperfConstants, network, IperfInv, At, Goto
<1>1. /\ InUse' <= Pool /\ free' \in 0 .. Pool /\ accepted' \in 0 .. Accepts
      /\ (\A s \in Slots : ~ClientConnectFails(s)) => InUse' = InUse
  BY CountStep
<1> DEFINE Good == /\ TypeOK' /\ TaskWhere' /\ Marked' /\ Alone' /\ EndsEmptyHanded'
                   /\ created["tcp"] => created'["tcp"]
<1>2. ASSUME UNCHANGED vars \/ Rest PROVE Good
  BY <1>2 DEF vars, Rest, TypeOK, TaskWhere, Marked, Alone, EndsEmptyHanded
<1>3. ASSUME NEW k \in Commands, NEW s \in Slots, Command(k, s) PROVE Good
  BY <1>1, <1>3 DEF Command, TypeOK, TaskWhere, Marked, Alone, EndsEmptyHanded
<1>4. ASSUME NEW s \in Slots, Task(s) PROVE Good
  <2>1. CASE NewConn(s)
    BY <1>1, <2>1 DEF NewConn, TypeOK, TaskWhere, Marked, Alone, EndsEmptyHanded
  <2>2. CASE NewConnFails(s)
    BY <1>1, <2>2 DEF NewConnFails, TypeOK, TaskWhere, Marked, Alone, EndsEmptyHanded
  <2>3. CASE Connect(s)
    BY <1>1, <2>3 DEF Connect, TypeOK, TaskWhere, Marked, Alone, EndsEmptyHanded
  <2>4. CASE ClientConnectFails(s)
    BY <1>1, <2>4
       DEF ClientConnectFails, TypeOK, TaskWhere, Marked, Alone, EndsEmptyHanded
  <2>5. CASE SpeedConnectFails(s)
    BY <1>1, <2>5
       DEF SpeedConnectFails, TypeOK, TaskWhere, Marked, Alone, EndsEmptyHanded
  <2>6. CASE Receive(s)
    BY <1>1, <2>6 DEF Receive, TypeOK, TaskWhere, Marked, Alone, EndsEmptyHanded
  <2>7. CASE ClientEnds(s)
    BY <1>1, <2>7 DEF ClientEnds, TypeOK, TaskWhere, Marked, Alone, EndsEmptyHanded
  <2>8. CASE Round(s)
    BY <1>1, <2>8 DEF Round, TypeOK, TaskWhere, Marked, Alone, EndsEmptyHanded
  <2>9. CASE RoundsEnd(s)
    BY <1>1, <2>9 DEF RoundsEnd, TypeOK, TaskWhere, Marked, Alone, EndsEmptyHanded
  <2>10. CASE GiveBack(s)
    BY <1>1, <2>10 DEF GiveBack, TypeOK, TaskWhere, Marked, Alone, EndsEmptyHanded
  <2>11. CASE ResetFlag(s)
    BY <1>1, <2>11
       DEF ResetFlag, TypeOK, TaskWhere, Marked, Alone, EndsEmptyHanded, Speed
  <2>12. CASE Delete(s)
    BY <1>1, <2>12 DEF Delete, TypeOK, TaskWhere, Marked, Alone, EndsEmptyHanded
  <2> QED BY <1>4, <2>1, <2>2, <2>3, <2>4, <2>5, <2>6, <2>7, <2>8, <2>9, <2>10,
             <2>11, <2>12 DEF Task
<1>5. ASSUME Accept \/ ServerCloses \/ PcListens PROVE Good
  <2>1. UNCHANGED <<created, stage, kind, conn, data, time>>
    BY <1>5 DEF Accept, ServerCloses, PcListens
  <2>2. listening' \in BOOLEAN
    BY <1>5 DEF Accept, ServerCloses, PcListens, TypeOK
  <2>3. TypeOK' BY <1>1, <2>1, <2>2 DEF TypeOK
  <2>4. TaskWhere' /\ Marked' /\ Alone' /\ EndsEmptyHanded'
    BY <2>1 DEF TaskWhere, Marked, Alone, EndsEmptyHanded
  <2> QED BY <2>1, <2>3, <2>4
<1>6. Good BY <1>2, <1>3, <1>4, <1>5 DEF Next
<1>7. ASSUME NEW s \in Slots, ClientConnectFails(s) PROVE created["tcp"]
  BY <1>7 DEF ClientConnectFails, Marked
<1>8. NoneLeaked'
  <2> SUFFICES ASSUME ~created'["tcp"] PROVE InUse' = Pool
    BY DEF NoneLeaked, InUse
  <2>1. ~created["tcp"] BY <1>6
  <2>2. InUse = Pool BY <2>1 DEF NoneLeaked, InUse
  <2> QED BY <1>1, <1>7, <2>1, <2>2
<1> QED BY <1>1, <1>6, <1>8 DEF Bounded

\* The invariant holds in every reachable state.
LEMMA Invariance == Spec => []IperfInv
BY InvInit, InvStep, PTL DEF Spec

\* For any number of tasks and any pool: a speed test gives its netconn back on
\* every way out, nobody gives one back twice, and a task that is over has
\* neither netconn nor buffer, but for the TCP client that received something.
THEOREM NoLeak == Spec => []NothingLeaked
<1>1. IperfInv => NothingLeaked BY DEF IperfInv, NothingLeaked
<1> QED BY <1>1, Invariance, PTL

\* Two tests of a kind never share the line, although the flag of a command is
\* reset before its task is deleted.
THEOREM OneAtATime == Spec => []OneTestAtATime
<1>1. IperfInv => OneTestAtATime BY DEF IperfInv, OneTestAtATime, TaskWhere, Alone
<1> QED BY <1>1, Invariance, PTL

\* If the PC listens from the start no netconn is lost, TCP client or not: those
\* that are not in the pool are held by a task or by the server.
THEOREM PoolKept ==
    ASSUME Listens
    PROVE  Spec => [](InUse = Pool)
<1> DEFINE Kept == listening /\ InUse = Pool
<1>1. Init => Kept BY InvInit, Listens DEF Init
<1>2. IperfInv /\ Kept /\ [Next]_vars => Kept'
  <2> SUFFICES ASSUME IperfInv, Kept, [Next]_vars PROVE listening' /\ InUse' = Pool
    OBVIOUS
  <2>1. \A s \in Slots : ~ClientConnectFails(s) BY DEF ClientConnectFails
  <2>2. InUse' = InUse BY <2>1, CountStep DEF IperfInv
  <2>3. listening'
    BY DEF Next, vars, Rest, Task, Command, network, NewConn, NewConnFails, Connect,
           ClientConnectFails, SpeedConnectFails, Receive, ClientEnds, Round,
           RoundsEnd, GiveBack, ResetFlag, Delete, Accept, ServerCloses, PcListens
  <2> QED BY <2>2, <2>3
<1>3. Kept => InUse = Pool OBVIOUS
<1> QED BY <1>1, <1>2, <1>3, Invariance, PTL DEF Spec

-----------------------------------------------------------------------------
(* The PHY: the inductive invariant.                                        *)

\* The functions make the accesses that are theirs.
CallWhere ==
    /\ at \in {"config", "write", "reset", "resetting", "linking",
               "id0", "id1"}
         => call = "init"
    /\ at \in {"page", "mode", "page2", "status"}
         => call \in {"speed", "duplex"}
    /\ at = "idle" => phase = "issue"

\* The speed and the mode asked for.
Wanted(v) == v \cap {13, 12, 8, 6} = SpeedBits(ConfigSpeed) \cup {8}

\* The bus is about to change the control register.
Changing == busy # None /\ busy.do = "write" /\ busy.reg = "control"

\* The reset has been asked for and is not known to be over.
Resetting == at = "resetting" \/ (at = "reset" /\ phase = "poll")

\* Either the reset has not reached the PHY, and Register5 holds what is to be
\* written, or it has: then the PHY is configured, and a clear reset bit in
\* Register5, however old, is that of a reset that is over.
ResetUnderWay ==
    Resetting =>
        \/ Changing /\ reg5 \ {15} = value \ {15} /\ 15 \in reg5
        \/ /\ ~Changing /\ control \ {15} = value \ {15}
           /\ 15 \in reg5 \/ 15 \notin control

\* From then on nothing is written to the control register.
Settled ==
    InitDone \/ at \in {"linking", "id0", "id1"} =>
        ~Changing /\ Wanted(control) /\ 15 \notin control

Configuring ==
    /\ at \in {"write", "reset", "resetting"} => Wanted(value)
    /\ ResetUnderWay
    /\ Settled

\* Bit 2, of a link that is up, in Register5 is not an old one.
LinkBit ==
    /\ call = None \/ at \in {"config", "write", "reset", "resetting"} =>
         /\ 2 \notin reg5 \cup control \cup value
         /\ busy # None => busy.reg = "control"
    /\ at = "linking" =>
         /\ 2 \notin control
         /\ busy # None => busy.reg \in {"control", "status"}
         /\ 2 \in reg5 => \E l \in seen : l # None

LinkSeen ==
    /\ link \in seen
    /\ WaitForLink /\ call = "init" /\ at \in {"id0", "id1", "idle"} =>
         \E l \in seen : l # None

\* Without a timeout the register 17 that was read is that of a link of the
\* time of the call.
Reading ==
    /\ at \in {"mode", "status"} /\ phase = "poll" /\ busy = None =>
         \E l \in seen : reg5 = Reg17(l)
    /\ at \in {"mode", "status"} /\ phase = "poll" /\ busy # None =>
         busy = [do |-> "read", reg |-> "mode"]
    /\ at \in {"page2", "status"} => \E l \in seen : value = Reg17(l)
    /\ at = "idle" /\ call \in {"speed", "duplex"} =>
         \E first, second \in seen : result = Report(first, second)

PhyInv ==
    /\ PhyTypeOK
    /\ CallWhere
    /\ Configuring
    /\ LinkBit
    /\ LinkSeen
    /\ ~late => Reading

-----------------------------------------------------------------------------
(* The operators.                                                           *)

\* What the bits of register 17 are taken for is what they say.
LEMMA ReportRight ==
    ASSUME NEW l \in Modes \cup {None}, NEW m \in Modes \cup {None}
    PROVE  /\ Reg17(l) \subseteq 0 .. 15
           /\ LinkSpeed(Reg17(l), Reg17(m))
                = IF None \in {l, m} THEN 10 ELSE l.speed
           /\ LinkDuplex(Reg17(l), Reg17(m))
                = IF m = None THEN 0 ELSE IF l # None /\ l.full THEN 2 ELSE 1
<1> USE PhyAssumption DEF PhyConstants
<1>1. 10 \in Reg17(m) <=> m # None
  BY DEF Reg17, Modes
<1>2. CASE l = None
  <2>1. Reg17(l) = {}
    BY <1>2 DEF Reg17
  <2> QED
    BY <1>1, <1>2, <2>1 DEF LinkDuplex, LinkSpeed
<1>3. CASE l # None
  <2>1. l \in Modes /\ l.speed \in {10, 100, 1000} /\ l.full \in BOOLEAN
    BY <1>3 DEF Modes
  <2>2. CASE l.speed = 10
    BY <1>1, <1>3, <2>1, <2>2 DEF Reg17, LinkDuplex, LinkSpeed
  <2>3. CASE l.speed = 100
    BY <1>1, <1>3, <2>1, <2>3 DEF Reg17, LinkDuplex, LinkSpeed
  <2>4. CASE l.speed = 1000
    BY <1>1, <1>3, <2>1, <2>4 DEF Reg17, LinkDuplex, LinkSpeed
  <2> QED
    BY <2>1, <2>2, <2>3, <2>4
<1> QED
  BY <1>2, <1>3

\* What is reported of two links depends on the function called only.
LEMMA ReportKept ==
    ASSUME UNCHANGED call, NEW l, NEW m
    PROVE  Report(l, m)' = Report(l, m)
BY DEF Report

\* A step of which the driver knows nothing, while the links seen become more.
LEMMA ReadingKept ==
    ASSUME Reading, UNCHANGED <<at, phase, call, value, result, busy, reg5>>,
           seen \subseteq seen'
    PROVE  Reading'
<1>1. \A l, m : Report(l, m)' = Report(l, m)
  BY ReportKept
<1> QED
  BY <1>1 DEF Reading

\* The functions return what their types allow.
LEMMA ReportTyped ==
    ASSUME NEW v, NEW status
    PROVE  /\ LinkSpeed(v, status) \in {0, 10, 100, 1000}
           /\ LinkDuplex(v, status) \in {0, 1, 2}
BY DEF LinkSpeed, LinkDuplex

\* PHY_InitConfig makes of any value the one that is wanted.
LEMMA ConfiguredIsWanted ==
    ASSUME NEW v \in SUBSET (0 .. 15)
    PROVE  /\ Configured(v) \in SUBSET (0 .. 15)
           /\ Wanted(Configured(v))
           /\ 2 \notin v => 2 \notin Configured(v)
BY PhyAssumption DEF PhyConstants, Configured, Wanted, SpeedBits

\* The accesses of the driver, one by one.
LEMMA AccessTyped ==
    ASSUME PhyTypeOK, at # "idle"
    PROVE  /\ Access(at) \in Accesses /\ Access(at) # None
           /\ Data(at) \in SUBSET (0 .. 15)
           /\ Access(at).do = "write" /\ Access(at).reg = "control"
                <=> at \in {"write", "reset"}
           /\ at \in {"config", "write", "reset", "resetting"}
                => Access(at).reg = "control"
           /\ at = "linking" => Access(at).reg = "status"
           /\ at \in {"mode", "status"} =>
                Access(at) = [do |-> "read", reg |-> "mode"]
<1> USE PhyAssumption DEF PhyConstants, PhyTypeOK
<1>1. /\ Access(at) \in Accesses
      /\ Access(at).do = "write" /\ Access(at).reg = "control"
           <=> at \in {"write", "reset"}
      /\ at \in {"config", "write", "reset", "resetting"}
           => Access(at).reg = "control"
      /\ at = "linking" => Access(at).reg = "status"
      /\ at \in {"mode", "status"} =>
           Access(at) = [do |-> "read", reg |-> "mode"]
  BY DEF Access, Accesses
<1>2. Data(at) \in SUBSET (0 .. 15)
  BY DEF Data
<1> QED
  BY <1>1, <1>2

-----------------------------------------------------------------------------
(* Initially, and in every step.                                            *)

\* The PHY after power-up.
LEMMA Initially == PhyInit => PhyInv
<1> SUFFICES ASSUME PhyInit PROVE PhyInv
  OBVIOUS
<1> USE PhyAssumption DEF PhyConstants, PhyInit
<1>0. control \subseteq 0 .. 15 /\ 2 \notin control
  OBVIOUS
<1>1. PhyTypeOK
  <2>1. late \in BOOLEAN /\ result \in {None, 0, 1, 2, 10, 100, 1000}
    BY Zenon
  <2> QED
    BY <1>0, <2>1 DEF PhyTypeOK
<1>2. CallWhere /\ Configuring
  BY DEF CallWhere, Configuring, ResetUnderWay, Resetting, Settled, InitDone
<1>3. LinkBit /\ LinkSeen
  BY <1>0 DEF LinkBit, LinkSeen
<1>4. Reading
  BY DEF Reading
<1> QED
  BY <1>1, <1>2, <1>3, <1>4 DEF PhyInv

\* A function of the driver is called; an access of the last may still be under
\* way.
LEMMA CallKeeps == ASSUME PhyInv, NEW f \in {"init", "speed", "duplex"}, Call(f)
                   PROVE  PhyInv'
<1> USE PhyAssumption DEF PhyConstants, PhyInv, Call, First
<1>0. queries' \in 0 .. MaxQueries /\ seen' \subseteq Modes \cup {None}
  BY DEF PhyTypeOK
<1>1. PhyTypeOK'
  <2>1. late' \in BOOLEAN /\ result' \in {None, 0, 1, 2, 10, 100, 1000}
    BY Zenon
  <2> QED
    BY <1>0, <2>1 DEF PhyTypeOK
<1>2. CallWhere' /\ Configuring'
  BY DEF CallWhere, Configuring, ResetUnderWay, Resetting, Changing, Settled,
         InitDone
<1>3. LinkBit' /\ LinkSeen'
  BY DEF LinkBit, LinkSeen
<1>4. Reading'
  BY DEF Reading
<1> QED
  BY <1>1, <1>2, <1>3, <1>4

\* PHY_Read or PHY_Write starts an access, over a bus that is free.
LEMMA IssueKeeps == ASSUME PhyInv, Issue PROVE PhyInv'
<1> USE PhyAssumption DEF PhyConstants, PhyInv, Issue
<1>0. /\ busy' \in Accesses /\ busy' # None /\ reg5' \in SUBSET (0 .. 15)
      /\ busy'.do = "write" /\ busy'.reg = "control"
           <=> at \in {"write", "reset"}
      /\ at \in {"config", "write", "reset", "resetting"}
           => busy'.reg = "control"
      /\ at = "linking" => busy'.reg = "status"
      /\ at \in {"mode", "status"} => busy' = [do |-> "read", reg |-> "mode"]
  BY AccessTyped
<1>1. PhyTypeOK'
  BY <1>0 DEF PhyTypeOK
<1>2. CallWhere'
  BY DEF CallWhere
<1>3. Configuring'
  BY <1>0 DEF CallWhere, Configuring, ResetUnderWay, Resetting, Changing, Settled,
              InitDone, Data, PhyTypeOK
<1>4. LinkBit'
  <2>1. at \in {"config", "write", "reset", "resetting", "linking"} =>
          reg5' \in {reg5, value, value \cup {15}}
    BY DEF Data
  <2>2. at = "linking" => reg5' = reg5
    BY DEF Data
  <2>3. call # None
    BY DEF CallWhere, PhyTypeOK
  <2> QED
    BY <1>0, <2>1, <2>2, <2>3 DEF LinkBit
<1>5. LinkSeen'
  BY DEF LinkSeen
<1>6. ~late' => Reading'
  BY <1>0 DEF Reading, Report
<1> QED
  BY <1>1, <1>2, <1>3, <1>4, <1>5, <1>6

\* Whether the busy bit was found clear or the timeout has passed, the driver
\* goes on with what Register5 holds.
LEMMA ProceedKeeps ==
    ASSUME PhyInv, phase = "poll", Proceed(reg5),
           ~late' => busy = None /\ ~late, late' \in BOOLEAN,
           UNCHANGED <<busy, reg5, control, link, call, seen, links, queries>>
    PROVE  PhyInv'
<1> USE PhyAssumption DEF PhyConstants, PhyInv
<1>0. PhyTypeOK'
  <2>1. value' \subseteq 0 .. 15
    <3>1. value' \in {value, reg5, value \cup {15}, Configured(reg5)}
      BY DEF Proceed, AfterReset, GoOn, Finish
    <3> QED
      BY <3>1, ConfiguredIsWanted DEF PhyTypeOK
  <2>2. result' \in {None, 0, 1, 2, 10, 100, 1000}
    BY ReportTyped DEF PhyTypeOK, Proceed, AfterReset, GoOn, Finish
  <2>3. /\ at' \in {"idle", "config", "write", "reset", "resetting", "linking",
                   "id0", "id1", "page", "mode", "page2", "status"}
        /\ phase' = "issue"
    BY DEF Proceed, AfterReset, GoOn, Finish
  <2> QED
    BY <2>1, <2>2, <2>3 DEF PhyTypeOK
<1>1. CallWhere'
  BY DEF CallWhere, Proceed, AfterReset, GoOn, Finish, PhyTypeOK
<1>2. Configuring'
  <2>1. ResetUnderWay'
    BY DEF Configuring, ResetUnderWay, Resetting, Changing, Proceed,
           AfterReset, GoOn, Finish, PhyTypeOK
  <2>2. Settled'
    BY ConfiguredIsWanted
       DEF Configuring, ResetUnderWay, Resetting, Changing, Settled, Wanted,
           InitDone, CallWhere, Proceed, AfterReset, GoOn, Finish, PhyTypeOK
  <2>3. at' \in {"write", "reset", "resetting"} => Wanted(value')
    BY ConfiguredIsWanted
       DEF Configuring, Wanted, Proceed, AfterReset, GoOn, Finish, PhyTypeOK
  <2> QED
    BY <2>1, <2>2, <2>3 DEF Configuring, Wanted
<1>3. LinkBit'
  BY ConfiguredIsWanted
     DEF LinkBit, CallWhere, Proceed, AfterReset, GoOn, Finish, PhyTypeOK
<1>4. LinkSeen'
  BY DEF LinkBit, LinkSeen, CallWhere, Proceed, AfterReset, GoOn, Finish, PhyTypeOK
<1>5. ASSUME ~late' PROVE Reading'
  <2>1. busy = None /\ Reading
    BY <1>5
  <2>2. CASE at = "status"
    <3>1. PICK l \in seen, m \in seen : value = Reg17(l) /\ reg5 = Reg17(m)
      BY <2>1, <2>2 DEF Reading
    <3>2. l \in Modes \cup {None} /\ m \in Modes \cup {None}
      BY DEF PhyTypeOK
    <3>3. /\ at' = "idle" /\ call \in {"speed", "duplex"}
          /\ result' = IF call = "speed" THEN LinkSpeed(value, reg5)
                       ELSE LinkDuplex(value, reg5)
      BY <2>2 DEF Proceed, GoOn, Finish, PhyTypeOK, CallWhere
    <3>4. result' = Report(l, m)
      BY <3>1, <3>2, <3>3, ReportRight DEF Report
    <3>5. Report(l, m)' = Report(l, m)
      BY DEF Report
    <3> QED
      BY <3>3, <3>4, <3>5 DEF Reading
  <2>3. CASE at # "status"
    BY <2>1, <2>3
       DEF Reading, Proceed, AfterReset, GoOn, Finish, PhyTypeOK, CallWhere
  <2> QED
    BY <2>2, <2>3
<1> QED
  BY <1>0, <1>1, <1>2, <1>3, <1>4, <1>5

\* The bus ends an access, perhaps one the driver has given up.
LEMMA BusEndsKeeps == ASSUME PhyInv, BusEnds PROVE PhyInv'
<1> USE PhyAssumption DEF PhyConstants, PhyInv, BusEnds, driver
<1>1. PhyTypeOK'
  BY ReportRight DEF PhyTypeOK, Contents
<1>2. CallWhere'
  BY DEF CallWhere
<1>3. /\ busy' = None
      /\ Changing => reg5' = reg5 /\ control' = reg5
      /\ ~Changing => control' = control
      /\ busy.do = "read" /\ busy.reg = "control" => reg5' = control
      /\ busy.do = "read" /\ busy.reg = "status" =>
           reg5' = IF link = None THEN {} ELSE {2}
      /\ busy.do = "write" => reg5' = reg5
      /\ busy = [do |-> "read", reg |-> "mode"] => reg5' = Reg17(link)
      /\ busy.do \in {"read", "write"}
  BY DEF Changing, Contents, PhyTypeOK, Accesses
<1>4. Configuring'
  <2>1. ~Changing'
    BY DEF Changing
  <2>2. ResetUnderWay'
    BY <1>3, <2>1 DEF Configuring, ResetUnderWay, Resetting, LinkBit
  <2>3. Settled'
    BY <1>3, <2>1 DEF Configuring, Settled, InitDone, Wanted
  <2> QED
    BY <2>2, <2>3 DEF Configuring, Wanted
<1>5. LinkBit'
  <2>1. Changing => at \notin {"linking"}
    BY DEF Configuring, Settled
  <2> QED
    BY <1>3, <2>1 DEF LinkBit, LinkSeen
<1>6. LinkSeen'
  BY DEF LinkSeen
<1>7. ~late' => Reading'
  <2> SUFFICES ASSUME ~late PROVE Reading'
    OBVIOUS
  <2>1. \A l, m : Report(l, m)' = Report(l, m)
    BY ReportKept
  <2>2. link \in seen /\ busy' = None /\ busy # None
    BY DEF LinkSeen
  <2> QED
    BY <1>3, <2>1, <2>2 DEF Reading
<1> QED
  BY <1>1, <1>2, <1>4, <1>5, <1>6, <1>7

\* The PHY clears its reset bit.
LEMMA ResetEndsKeeps == ASSUME PhyInv, ResetEnds PROVE PhyInv'
<1> USE PhyAssumption DEF PhyConstants, PhyInv, ResetEnds, driver
<1>1. PhyTypeOK' /\ CallWhere'
  BY DEF PhyTypeOK, CallWhere
<1>2. Configuring'
  BY DEF Configuring, ResetUnderWay, Resetting, Changing, Settled, InitDone
<1>3. LinkBit' /\ LinkSeen'
  BY DEF LinkBit, LinkSeen
<1>4. ~late' => Reading'
  BY ReadingKept
<1> QED
  BY <1>1, <1>2, <1>3, <1>4

\* The cable comes or goes: the link of before is among those seen.
LEMMA LinkKeeps == ASSUME PhyInv, LinkUp \/ LinkDown PROVE PhyInv'
<1> USE PhyAssumption DEF PhyConstants, PhyInv, LinkUp, LinkDown, driver
<1>0. link' \in Modes \cup {None} /\ links' \in 0 .. MaxLinks
  BY DEF PhyTypeOK
<1>1. PhyTypeOK' /\ CallWhere'
  <2>1. seen' \subseteq Modes \cup {None}
    BY <1>0 DEF PhyTypeOK
  <2>2. UNCHANGED <<busy, reg5, control, at, phase, call, value, result, late,
                    queries>>
    OBVIOUS
  <2>3. PhyTypeOK
    OBVIOUS
  <2>4. PhyTypeOK'
    BY ONLY <1>0, <2>1, <2>2, <2>3 DEF PhyTypeOK
  <2> QED
    BY <2>4 DEF CallWhere
<1>2. Configuring'
  BY DEF Configuring, ResetUnderWay, Resetting, Changing, Settled, InitDone
<1>3. LinkBit' /\ LinkSeen'
  BY DEF LinkBit, LinkSeen
<1>4. seen \subseteq seen'
  OBVIOUS
<1>5. ~late' => Reading'
  BY <1>4, ReadingKept
<1> QED
  BY <1>1, <1>2, <1>3, <1>5

\* Every step keeps the invariant.
LEMMA StepKeeps == PhyInv /\ [PhyNext]_phyVars => PhyInv'
<1> SUFFICES ASSUME PhyInv, [PhyNext]_phyVars PROVE PhyInv'
  OBVIOUS
<1>1. ASSUME NEW f \in {"init", "speed", "duplex"}, Call(f) PROVE PhyInv'
  BY <1>1, CallKeeps
<1>2. CASE Issue
  BY <1>2, IssueKeeps
<1>3. CASE Complete
  <2>1. late' = late /\ late' \in BOOLEAN
    BY <1>3 DEF Complete, PhyInv, PhyTypeOK
  <2> QED
    BY <1>3, <2>1, ProceedKeeps DEF Complete
<1>4. CASE TimeOut
  BY <1>4, ProceedKeeps DEF TimeOut
<1>5. CASE BusEnds
  BY <1>5, BusEndsKeeps
<1>6. CASE ResetEnds
  BY <1>6, ResetEndsKeeps
<1>7. CASE LinkUp \/ LinkDown
  BY <1>7, LinkKeeps
<1>8. CASE UNCHANGED phyVars
  <2> USE <1>8 DEF phyVars
  <2>1. PhyTypeOK' = PhyTypeOK /\ CallWhere' = CallWhere
    BY DEF PhyTypeOK, CallWhere
  <2>2. Configuring' = Configuring
    BY DEF Configuring, ResetUnderWay, Resetting, Changing, Settled, InitDone,
           Wanted
  <2>3. LinkBit' = LinkBit /\ LinkSeen' = LinkSeen
    BY DEF LinkBit, LinkSeen
  <2>4. Reading' = Reading
    BY DEF Reading, Report, Reg17
  <2> QED
    BY <2>1, <2>2, <2>3, <2>4 DEF PhyInv
<1> QED
  BY <1>1, <1>2, <1>3, <1>4, <1>5, <1>6, <1>7, <1>8 DEF PhyNext, Driver, Done

\* The driver, the bus and the PHY keep to the invariant.
THEOREM PhyInvariant == PhySpec => []PhyInv
BY Initially, StepKeeps, PTL DEF PhySpec

\* PHY_InitConfig (drv_gmac_phy.c:153) returns with the PHY out of its reset and
\* set to the speed and the mode asked for, and, if it waits for the link, after
\* the link has been up; whatever accesses time out, and whatever the control
\* register held before.
THEOREM PhyConfigured == PhySpec => []PhyIsConfigured
<1>1. PhyInv => PhyIsConfigured
  <2> SUFFICES ASSUME PhyInv PROVE PhyIsConfigured
    OBVIOUS
  <2>1. InitEndsConfigured
    BY PhyAssumption
       DEF PhyConstants, InitEndsConfigured, PhyInv, Configuring, Settled, Wanted,
           SpeedBits
  <2>2. InitWaitsForLink
    BY DEF InitWaitsForLink, PhyInv, LinkSeen
  <2> QED
    BY <2>1, <2>2 DEF PhyIsConfigured, PhyInv
<1> QED
  BY <1>1, PhyInvariant, PTL

\* PHY_GetLinkSpeed and PHY_GetLinkDuplex (drv_gmac_phy.c:251, 305) report
\* links of the time of the call, a link that stays as it is, and one that is
\* down as 10 Mbps and mode 0, unless an access of the very call times out.
THEOREM LinkReported == PhySpec => []LinkReportIsTrue
<1>1. PhyInv => LinkReportIsTrue
  BY DEF PhyInv, Reading, LinkReportIsTrue
<1> QED
  BY <1>1, PhyInvariant, PTL
=============================================================================
