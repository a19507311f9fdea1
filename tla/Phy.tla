-------------------------------- MODULE Phy ---------------------------------
(***************************************************************************)
(* The driver of the Ethernet PHY (drv_gmac_phy.c): registers of the PHY   *)
(* are read and written through the management bus of the GMAC, which is   *)
(* busy for a while with each access.  The driver polls the busy bit and   *)
(* gives up after a timeout; the bus then goes on with the access.         *)
(*                                                                         *)
(* PHY_InitConfig runs first; PHY_GetLinkSpeed and PHY_GetLinkDuplex are   *)
(* called afterwards.  A register value is the set of its bits that are 1. *)
(***************************************************************************)
EXTENDS Naturals, FiniteSets

CONSTANTS
    ConfigSpeed, \* config->speed: 10, 100 or 1000
    Speeds,      \* the speeds a link partner may bring
    Slow,        \* may an access take longer than the timeout?
    WaitForLink, \* DEBUG_GMAC_WAIT_PHY_LINK_UP
    PowerUp,     \* what the control register may hold at first
    MaxLinks,    \* bound: how often the link comes up
    MaxQueries,  \* bound: calls after PHY_InitConfig
    None

\* An access to a register of the PHY; "mode" is its register 17.
Accesses == [do : {"read", "write"},
             reg : {"control", "status", "id", "page", "mode"}]

\* What the cable may bring.
Modes == [speed : Speeds, full : BOOLEAN]

\* Bit 2 of the control register is reserved: it reads as 0.
PhyConstants ==
    /\ {ConfigSpeed} \cup Speeds \subseteq {10, 100, 1000}
    /\ {Slow, WaitForLink} \subseteq BOOLEAN
    /\ PowerUp \subseteq SUBSET ((0 .. 15) \ {2})
    /\ MaxLinks \in Nat /\ MaxQueries \in Nat
    /\ None \notin Accesses /\ None \notin Modes
    /\ None \notin {"init", "speed", "duplex"}

ASSUME PhyAssumption == PhyConstants

VARIABLES
    busy,     \* the access the bus is busy with, or None
    reg5,     \* Register5, the data of the bus
    control,  \* PHY register 0
    link,     \* [speed, full] of the link, or None while it is down
    at,       \* the access the driver is at, "idle" between calls
    phase,    \* in PHY_Read or PHY_Write: "issue" or "poll"
    call,     \* the function called: "init", "speed", "duplex"
    value,    \* reg_value of the function
    result,   \* what it returned
    seen,     \* history: the links, or None, of the time of the call
    late,     \* history: has an access of the call timed out?
    links, queries

phyVars == <<busy, reg5, control, link, at, phase, call, value,
             result, seen, late, links, queries>>

driver == <<at, phase, call, value, result, late, queries>>

-----------------------------------------------------------------------------
(* The accesses of the functions.                                           *)

SpeedBits(s) == CASE s = 10 -> {} [] s = 100 -> {13} [] s = 1000 -> {6}

\* PHY_InitConfig: what it makes of the control register.
Configured(v) == (v \ {13, 6, 8, 12}) \cup SpeedBits(ConfigSpeed) \cup {8}

\* What the driver reads or writes at each point, in order.
Access(p) ==
    CASE p \in {"config", "resetting"} -> [do |-> "read", reg |-> "control"]
      [] p \in {"write", "reset"}      -> [do |-> "write", reg |-> "control"]
      [] p = "linking"                 -> [do |-> "read", reg |-> "status"]
      [] p \in {"id0", "id1"}          -> [do |-> "read", reg |-> "id"]
      [] p \in {"page", "page2"}       -> [do |-> "write", reg |-> "page"]
      [] p \in {"mode", "status"}      -> [do |-> "read", reg |-> "mode"]

\* Register5 when the access at p is started: PHY_Write puts its data there.
Data(p) ==
    CASE p = "write"             -> value
      [] p = "reset"             -> value \cup {15}
      [] p \in {"page", "page2"} -> {}
      [] OTHER                   -> reg5

\* The first access of a function.
First(f) == IF f = "init" THEN "config" ELSE "page"

\* PHY_GetLinkSpeed, of register 17 read before and after: bits 15 and 14
\* are the speed.
LinkSpeed(v, status) ==
    LET code == IF 10 \in status THEN v \cap {15, 14} ELSE {}
    IN  CASE code = {} -> 10 [] code = {14} -> 100 [] code = {15} -> 1000
          [] OTHER -> 0

\* Faulty LinkDuplex: bit 13 of the second reading, link or not.
LinkDuplexOnly(v, status) == IF 13 \in status THEN 2 ELSE 1

\* PHY_GetLinkDuplex.
LinkDuplex(v, status) ==
    IF 10 \notin status THEN 0 ELSE IF 13 \in v THEN 2 ELSE 1

-----------------------------------------------------------------------------
(* PHY_Read and PHY_Write.                                                  *)

Call(f) ==
    /\ at = "idle"
    /\ f = "init" <=> call = None
    /\ f # "init" => queries < MaxQueries
    /\ at' = First(f) /\ phase' = "issue" /\ call' = f
    /\ value' = {} /\ result' = None
    /\ seen' = {link} /\ late' = FALSE
    /\ queries' = IF f = "init" THEN queries ELSE queries + 1
    /\ UNCHANGED <<busy, reg5, control, link, links>>

\* Faulty Issue: the busy bit is not waited for.
IssueAtOnce ==
    /\ at # "idle" /\ phase = "issue"
    /\ busy' = Access(at) /\ reg5' = Data(at)
    /\ phase' = "poll"
    /\ UNCHANGED <<control, link, at, call, value, result, seen, late, links,
                   queries>>

\* Once the bus is free the access is started.
Issue ==
    /\ at # "idle" /\ phase = "issue" /\ busy = None
    /\ busy' = Access(at) /\ reg5' = Data(at)
    /\ phase' = "poll"
    /\ UNCHANGED <<control, link, at, call, value, result, seen, late, links,
                   queries>>

GoOn(p) == at' = p /\ phase' = "issue"

Finish(r) == GoOn("idle") /\ result' = r

\* Faulty AfterReset: the bit looked at is that of the speed.
AfterResetSpeed(got) ==
    /\ GoOn(IF 13 \in got THEN "resetting"
            ELSE IF WaitForLink THEN "linking" ELSE "id0")
    /\ UNCHANGED <<value, result>>

\* Faulty AfterReset: the link is not waited for.
AfterResetHurried(got) ==
    /\ GoOn(IF 15 \in got THEN "resetting" ELSE "id0")
    /\ UNCHANGED <<value, result>>

\* The control register is read until the reset bit is clear.
AfterReset(got) ==
    /\ GoOn(IF 15 \in got THEN "resetting"
            ELSE IF WaitForLink THEN "linking" ELSE "id0")
    /\ UNCHANGED <<value, result>>

\* What the function goes on with, after an access that returned got.
Proceed(got) ==
    \/ at = "config" /\ GoOn("write") /\ value' = Configured(got)
                     /\ UNCHANGED result
    \/ at = "write" /\ GoOn("reset") /\ UNCHANGED <<value, result>>
    \/ at = "reset" /\ GoOn("resetting") /\ value' = value \cup {15}
                    /\ UNCHANGED result
    \/ at = "resetting" /\ AfterReset(got)
    \/ at = "linking" /\ GoOn(IF 2 \in got THEN "id0" ELSE "linking")
                      /\ UNCHANGED <<value, result>>
    \/ at = "id0" /\ GoOn("id1") /\ UNCHANGED <<value, result>>
    \/ at = "id1" /\ Finish(0) /\ UNCHANGED value
    \/ at = "page" /\ GoOn("mode") /\ UNCHANGED <<value, result>>
    \/ at = "mode" /\ GoOn("page2") /\ value' = got /\ UNCHANGED result
    \/ at = "page2" /\ GoOn("status") /\ UNCHANGED <<value, result>>
    \/ /\ at = "status"
       /\ Finish(IF call = "speed" THEN LinkSpeed(value, got)
                 ELSE LinkDuplex(value, got))
       /\ UNCHANGED value

\* The busy bit is found clear ...
Complete ==
    /\ phase = "poll" /\ busy = None
    /\ Proceed(reg5)
    /\ UNCHANGED <<busy, reg5, control, link, call, seen, late, links,
                   queries>>

\* ... or the timeout ends the polling, and whatever Register5 holds is read.
TimeOut ==
    /\ phase = "poll" /\ busy # None /\ Slow
    /\ Proceed(reg5)
    /\ late' = TRUE
    /\ UNCHANGED <<busy, reg5, control, link, call, seen, links, queries>>

-----------------------------------------------------------------------------
(* The bus, the PHY and the cable.                                          *)

\* Register 17: link, speed and duplex.  Without a link the speed and
\* duplex bits are those of no mode, 10 Mbps half duplex.
Reg17(l) ==
    IF l = None THEN {}
    ELSE {10} \cup (IF l.full THEN {13} ELSE {})
              \cup (CASE l.speed = 10 -> {} [] l.speed = 100 -> {14}
                      [] l.speed = 1000 -> {15})

Contents(r) ==
    CASE r = "control" -> control
      [] r = "status" -> IF link = None THEN {} ELSE {2}
      [] r = "id" -> {0, 2, 10, 13}
      [] r = "mode" -> Reg17(link)
      [] OTHER -> {}

BusEnds ==
    /\ busy # None
    /\ busy' = None
    /\ reg5' = IF busy.do = "read" THEN Contents(busy.reg) ELSE reg5
    /\ control' = IF busy.do = "write" /\ busy.reg = "control" THEN reg5
                  ELSE control
    /\ UNCHANGED <<link, seen, links>> /\ UNCHANGED driver

ResetEnds ==
    /\ 15 \in control
    /\ control' = control \ {15}
    /\ UNCHANGED <<busy, reg5, link, seen, links>> /\ UNCHANGED driver

\* The cable.
LinkUp ==
    /\ link = None /\ 15 \notin control /\ links < MaxLinks
    /\ link' \in Modes
    /\ links' = links + 1
    /\ seen' = seen \cup {link'}
    /\ UNCHANGED <<busy, reg5, control>> /\ UNCHANGED driver

LinkDown ==
    /\ link # None /\ links < MaxLinks
    /\ link' = None
    /\ seen' = seen \cup {None}
    /\ UNCHANGED <<busy, reg5, control, links>> /\ UNCHANGED driver

PhyInit ==
    /\ busy = None /\ reg5 = {}
    /\ control \in PowerUp
    /\ link = None
    /\ at = "idle" /\ phase = "issue" /\ call = None /\ value = {}
    /\ result = None /\ seen = {None} /\ late = FALSE
    /\ links = 0 /\ queries = 0

Driver == (\E f \in {"init", "speed", "duplex"} : Call(f))
          \/ Issue \/ Complete \/ TimeOut

Done == at = "idle" /\ queries = MaxQueries /\ UNCHANGED phyVars

PhyNext == Driver \/ BusEnds \/ ResetEnds \/ LinkUp \/ LinkDown \/ Done

PhySpec == PhyInit /\ [][PhyNext]_phyVars

\* The driver runs, the bus ends each access, a reset ends, and the last link
\* comes up and stays.
PhyFairSpec ==
    /\ PhySpec
    /\ WF_phyVars(Issue \/ Complete \/ TimeOut)
    /\ WF_phyVars(BusEnds)
    /\ WF_phyVars(ResetEnds) /\ WF_phyVars(LinkUp)

-----------------------------------------------------------------------------
(* Properties.                                                              *)

\* Every variable has its type.
PhyTypeOK ==
    /\ busy \in Accesses \cup {None}
    /\ reg5 \subseteq 0 .. 15 /\ control \subseteq 0 .. 15
    /\ value \subseteq 0 .. 15
    /\ link \in Modes \cup {None} /\ seen \subseteq Modes \cup {None}
    /\ at \in {"idle", "config", "write", "reset", "resetting", "linking",
               "id0", "id1", "page", "mode", "page2", "status"}
    /\ phase \in {"issue", "poll"} /\ late \in BOOLEAN
    /\ call \in {None, "init", "speed", "duplex"}
    /\ result \in {None, 0, 1, 2, 10, 100, 1000}
    /\ links \in 0 .. MaxLinks /\ queries \in 0 .. MaxQueries

InitDone == call # None /\ (call = "init" => at = "idle")

\* When PHY_InitConfig has returned the PHY has ended its reset and has the
\* speed and the duplex mode asked for, however many accesses ran past the
\* timeout: a read that timed out returns what was last written or read, in
\* which the reset bit is still set.
InitEndsConfigured ==
    InitDone =>
        control \cap {15, 13, 12, 8, 6} = SpeedBits(ConfigSpeed) \cup {8}

\* With WaitForLink, PHY_InitConfig does not return before the link has been
\* up: no stale value of the data register is taken for the status.
InitWaitsForLink ==
    (WaitForLink /\ call = "init" /\ at = "idle") => seen # {None}

\* What the run checks of the above.  The configuration and the link are those
\* of the moment PHY_InitConfig (drv_gmac_phy.c:153) returns, after any number
\* of accesses that ran past their timeout.
PhyIsConfigured == PhyTypeOK /\ InitEndsConfigured /\ InitWaitsForLink

\* What PHY_GetLinkSpeed or PHY_GetLinkDuplex returns if register 17 is that of
\* the link first when its speed and mode are read, and that of second when the
\* link bit is.  A link that is down at either time counts as one of 10 Mbps in
\* half duplex mode, but the mode of one that is down in the end is 0.
Report(first, second) ==
    CASE call = "speed" /\ None \in {first, second} -> 10
      [] call = "speed" /\ None \notin {first, second} -> first.speed
      [] call = "duplex" /\ second = None -> 0
      [] call = "duplex" /\ second # None ->
             IF first # None /\ first.full THEN 2 ELSE 1

\* As long as no access of the call itself times out, PHY_GetLinkSpeed and
\* PHY_GetLinkDuplex report links of the time of the call, although the link
\* may change between the two readings: a link that stays is reported as it
\* is, one that stays down as 10 Mbps and mode 0 (drv_gmac_phy.c:259; the
\* comment at 244 says 0), and no link that was down before the call or came
\* after it is ever reported.  Accesses that timed out in earlier calls, and
\* may still be under way, do no harm.
LinkReportIsTrue ==
    (at = "idle" /\ call \in {"speed", "duplex"} /\ ~late) =>
        \E first, second \in seen : result = Report(first, second)

\* "Returns 0 if link is down" (drv_gmac_phy.c:244): a call during which the
\* link was never up, and no access of which timed out, reports speed 0.
SpeedTellsLinkDown ==
    (at = "idle" /\ call = "speed" /\ ~late /\ seen = {None}) => result = 0
=============================================================================
