------------------------------- MODULE Timers -------------------------------
(***************************************************************************)
(* The software timers of FreeRTOS (timers.c).  Tasks and handlers put     *)
(* commands on a queue; the timer task, of the highest priority, keeps the *)
(* active timers on two lists, for expiry times before and after the next  *)
(* overflow of the tick count, and calls the callbacks.                    *)
(*                                                                         *)
(* The tick count is tick % TickRange.  The true times of commands, due    *)
(* times and calls are kept beside it to state what the timers promise.    *)
(***************************************************************************)
EXTENDS Integers, Sequences

CONSTANTS
    Timers,
    Periods,    \* for each timer the periods it may be given; with the lag
                \* they leave the task time to see every overflow
    AutoReload, \* the timers with tmrSTATUS_IS_AUTORELOAD
    Commands,   \* subset of {"start", "stop", "period"}
    TickRange,  \* portMAX_DELAY + 1
    QueueLength,
    Lag,        \* the ticks for which a timer task that is ready may be kept
                \* from looking at the time
    Age,        \* the ticks between a caller's look at the tick count and
                \* the arrival of its command
    MaxTick,    \* bound: true time
    MaxCommands, \* bound: commands sent
    None

TimerConstants ==
    /\ TickRange \in Nat /\ TickRange > 1
    /\ \A t \in Timers : /\ Periods[t] \subseteq 1 .. TickRange - 1 - Lag
                         /\ Periods[t] # {}
    /\ AutoReload \subseteq Timers
    /\ Commands \subseteq {"start", "stop", "period"}
    /\ QueueLength \in Nat \ {0} /\ Lag \in Nat /\ Age \in Nat
    /\ MaxTick \in Nat /\ MaxCommands \in Nat

VARIABLES
    tick,       \* true time
    queue,      \* xTimerQueue
    sent,       \* the commands sent
    state,      \* the timers, see below
    lastTime,   \* xLastTime
    pc,         \* of the timer task
    message,    \* xMessage
    next,       \* xNextExpireTime, or None if the list was empty
    wake,       \* true time at which a blocked timer task wakes: None if never
    lag         \* ticks for which the timer task, ready, has not looked at
                \* the time

vars == <<tick, queue, sent, state, lastTime, pc, message, next, wake, lag>>

(* state is a record:                                                       *)
(*   list     the list that holds the timer: "none", "cur" or "over"        *)
(*   value    xItemValue of its list item, the tick count of its expiry     *)
(*   period   xTimerPeriodInTicks                                           *)
(*   active   tmrSTATUS_IS_ACTIVE                                           *)
(*   due      the true time for which the next callback was ordered         *)
(*   calls    the due times of the callbacks called in the last step        *)

Count(time) == time % TickRange
Now == Count(tick)

\* Faulty Plus: the sum does not wrap.
PlusWide(a, b) == a + b

Plus(a, b) == (a + b) % TickRange
Minus(a, b) == (a - b) % TickRange

On(s, l) == {t \in Timers : s.list[t] = l}
First(s) == CHOOSE t \in On(s, "cur") :
                \A u \in On(s, "cur") : s.value[t] <= s.value[u]

-----------------------------------------------------------------------------
(* Expiry.  These operators give the state that a function leaves.          *)

\* The callback of timer t; whether another is due depends on the timer.
Call(s, t) ==
    [s EXCEPT !.calls = Append(@, s.due[t]),
              !.due[t] = IF t \in AutoReload /\ @ # None
                           THEN @ + s.period[t] ELSE None]

Put(s, t, l, expiry) == [s EXCEPT !.list[t] = l, !.value[t] = expiry]

\* Faulty Elapsed: an overflow since the command is not thought of.
ElapsedPlain(s, t, expiry, now, command) == expiry <= now

\* prvInsertTimerInActiveList: has the expiry time passed already?
Elapsed(s, t, expiry, now, command) ==
    IF expiry <= now THEN Minus(now, command) >= s.period[t]
    ELSE now < command /\ expiry >= command

InsertTimer(s, t, expiry, now) ==
    Put(s, t, IF expiry <= now THEN "over" ELSE "cur", expiry)

\* prvReloadTimer.
RECURSIVE Reload(_, _, _, _)
Reload(s, t, expired, now) ==
    LET expiry == Plus(expired, s.period[t])
    IN  IF Elapsed(s, t, expiry, now, expired)
          THEN Reload(Call(s, t), t, expiry, now)
          ELSE InsertTimer(s, t, expiry, now)

\* Faulty Expire: a one-shot timer stays active.
ExpireActive(s, t, expired, now) ==
    Call(IF t \in AutoReload THEN Reload(s, t, expired, now) ELSE s, t)

\* What follows an expiry: the timer is reloaded or becomes inactive, and
\* its callback is called.
Expire(s, t, expired, now) ==
    LET r == IF t \in AutoReload THEN Reload(s, t, expired, now)
             ELSE [s EXCEPT !.active[t] = FALSE]
    IN  Call(r, t)

\* prvProcessExpiredTimer.
ProcessExpired(s, now) ==
    LET t == First(s)
    IN  Expire([s EXCEPT !.list[t] = "none"], t, s.value[t], now)

Swap(l) == CASE l = "cur" -> "over" [] l = "over" -> "cur" [] OTHER -> l

\* prvSwitchTimerLists.
RECURSIVE Flush(_)
Flush(s) ==
    IF On(s, "cur") # {} THEN Flush(ProcessExpired(s, TickRange - 1))
    ELSE [s EXCEPT !.list = [t \in Timers |-> Swap(s.list[t])]]

\* prvSampleTimeNow: the lists are switched when the tick count is found to
\* have overflowed.
Overflowed == Now < lastTime
Sampled(s) == IF Overflowed THEN Flush(s) ELSE s

Fresh == [state EXCEPT !.calls = <<>>]

-----------------------------------------------------------------------------
(* The timer task.  It is pre-empted by handlers only, but the tick may      *)
(* advance and commands may come between any two of its steps.              *)

\* prvGetNextExpireTime.
GetNext ==
    /\ pc = "next"
    /\ next' = IF On(state, "cur") = {} THEN None ELSE state.value[First(state)]
    /\ pc' = "process"
    /\ state' = Fresh
    /\ UNCHANGED <<tick, queue, sent, lastTime, message, wake, lag>>

\* prvProcessTimerOrBlockTask, when the tick count has overflowed ...
ProcessSwitch ==
    /\ pc = "process" /\ Overflowed
    /\ state' = Flush(Fresh)
    /\ lastTime' = Now /\ lag' = 0
    /\ pc' = "receive"
    /\ next' = None
    /\ UNCHANGED <<tick, queue, sent, message, wake>>

\* ... when a timer has expired ...
ProcessTimer ==
    /\ pc = "process" /\ ~Overflowed /\ next # None /\ next <= Now
    /\ state' = ProcessExpired(Fresh, Now)
    /\ lastTime' = Now /\ lag' = 0
    /\ pc' = "receive"
    /\ next' = None
    /\ UNCHANGED <<tick, queue, sent, message, wake>>

\* Faulty Sleep: for ever if the current list is empty.
SleepForEver == IF next = None THEN None ELSE tick + Minus(next, Now)

\* The time to block until: that of the next expiry, the overflow of the
\* tick count if there are timers for after it only, or no time at all.
Sleep ==
    IF next = None /\ On(state, "over") = {} THEN None
    ELSE tick + Minus(IF next = None THEN 0 ELSE next, Now)

\* ... and when none has: vQueueWaitForMessageRestricted.
ProcessBlock ==
    /\ pc = "process" /\ ~Overflowed /\ (next # None => next > Now)
    /\ lastTime' = Now /\ lag' = 0
    /\ IF queue = <<>> THEN pc' = "blocked" /\ wake' = Sleep
       ELSE pc' = "receive" /\ UNCHANGED wake
    /\ state' = Fresh
    /\ next' = None
    /\ UNCHANGED <<tick, queue, sent, message>>

\* Neither a command has come nor the wait ended.
Blocked == pc = "blocked" /\ queue = <<>> /\ (wake # None => tick < wake)

\* The task is ready, and goes on.
Wake ==
    /\ pc = "blocked" /\ ~Blocked
    /\ pc' = "receive" /\ wake' = None
    /\ state' = Fresh
    /\ UNCHANGED <<tick, queue, sent, lastTime, message, next, lag>>

\* prvProcessReceivedCommands: the timer of the command leaves its list.
Receive ==
    /\ pc = "receive" /\ queue # <<>>
    /\ message' = Head(queue) /\ queue' = Tail(queue)
    /\ state' = [Fresh EXCEPT !.list[Head(queue).timer] = "none",
                              !.due[Head(queue).timer] = None]
    /\ pc' = "handle"
    /\ UNCHANGED <<tick, sent, lastTime, next, wake, lag>>

NoCommand ==
    /\ pc = "receive" /\ queue = <<>>
    /\ pc' = "next"
    /\ state' = Fresh
    /\ UNCHANGED <<tick, queue, sent, lastTime, message, next, wake, lag>>

\* The time is sampled and the command carried out.
Handled(s, m) ==
    LET t == m.timer
        value == Count(m.at)
        started == [s EXCEPT !.active[t] = TRUE, !.due[t] = m.at + s.period[t]]
        changed == [s EXCEPT !.active[t] = TRUE, !.period[t] = m.arg,
                             !.due[t] = tick + m.arg]
        expiry == Plus(value, s.period[t])
    IN  CASE m.do = "start" ->
               IF Elapsed(started, t, expiry, Now, value)
                 THEN Expire(started, t, expiry, Now)
                 ELSE InsertTimer(started, t, expiry, Now)
          [] m.do = "stop" -> [s EXCEPT !.active[t] = FALSE]
          [] m.do = "period" ->
               InsertTimer(changed, t, Plus(Now, m.arg), Now)

\* Faulty Handle: the overflow is not noticed here.
HandleUnsampled ==
    /\ pc = "handle"
    /\ state' = Handled(Fresh, message)
    /\ lastTime' = Now /\ lag' = 0
    /\ pc' = "receive"
    /\ message' = None
    /\ UNCHANGED <<tick, queue, sent, next, wake>>

Handle ==
    /\ pc = "handle"
    /\ state' = Handled(Sampled(Fresh), message)
    /\ lastTime' = Now /\ lag' = 0
    /\ pc' = "receive"
    /\ message' = None
    /\ UNCHANGED <<tick, queue, sent, next, wake>>

-----------------------------------------------------------------------------
(* Callers and the tick.                                                    *)

\* xTimerStart and the like read the tick count for the command, and
\* xTimerGenericCommand sends it, at once or some ticks later.
Send ==
    /\ sent < MaxCommands /\ Len(queue) < QueueLength
    /\ \E t \in Timers, c \in Commands, age \in 0 .. Age :
         \E p \in IF c = "period" THEN Periods[t] ELSE {0} :
           /\ age <= tick /\ (c # "start" => age = 0)
           /\ queue' = Append(queue, [do |-> c, timer |-> t, arg |-> p,
                                      at |-> tick - age])
    /\ sent' = sent + 1
    /\ state' = Fresh
    /\ UNCHANGED <<tick, lastTime, pc, message, next, wake, lag>>

\* The tick interrupt.  A timer task that is ready looks at the time within
\* Lag ticks.
Tick ==
    /\ tick < MaxTick
    /\ Blocked \/ lag < Lag
    /\ tick' = tick + 1
    /\ lag' = IF Blocked THEN 0 ELSE lag + 1
    /\ state' = Fresh
    /\ UNCHANGED <<queue, sent, lastTime, pc, message, next, wake>>

End == tick = MaxTick /\ UNCHANGED vars

Init ==
    /\ tick = 0 /\ queue = <<>> /\ sent = 0
    /\ \E p \in [Timers -> 1 .. TickRange - 1] :
         /\ \A t \in Timers : p[t] \in Periods[t]
         /\ state = [list |-> [t \in Timers |-> "none"],
                     value |-> [t \in Timers |-> 0],
                     period |-> p,
                     active |-> [t \in Timers |-> FALSE],
                     due |-> [t \in Timers |-> None],
                     calls |-> <<>>]
    /\ lastTime = 0 /\ pc = "next" /\ message = None /\ next = None
    /\ wake = None /\ lag = 0

Daemon ==
    \/ GetNext \/ ProcessSwitch \/ ProcessTimer \/ ProcessBlock \/ Wake
    \/ Receive \/ NoCommand \/ Handle

Next == Daemon \/ Send \/ Tick \/ End

Spec == Init /\ [][Next]_vars

-----------------------------------------------------------------------------
(* Properties.                                                              *)

\* Every variable has its type: expiry times are tick counts.
TypeOK ==
    /\ \A t \in Timers : state.list[t] \in {"none", "cur", "over"}
    /\ state.value \in [Timers -> 0 .. TickRange - 1]
    /\ lastTime \in 0 .. TickRange - 1
    /\ Len(queue) <= QueueLength
    /\ lag \in 0 .. Lag

\* No callback is called before the time for which it was ordered, nor one
\* that was not ordered, whatever overflows between the command and its
\* arrival and between the arrival and the expiry.
NeverEarly ==
    \A i \in 1 .. Len(state.calls) :
        state.calls[i] # None /\ state.calls[i] <= tick

\* A timer is active exactly while a list holds it, but for the time its
\* command is being handled: what xTimerIsTimerActive says is true.
ActiveIsListed ==
    \A t \in Timers :
        \/ state.active[t] <=> state.list[t] # "none"
        \/ pc = "handle" /\ message.timer = t

\* The timer task never sleeps beyond the time of a callback: none is
\* missed and none is later than the task itself.
NeverOverslept ==
    pc = "blocked" =>
        \A t \in Timers :
            state.due[t] # None => wake # None /\ wake <= state.due[t]

\* The list a timer is on and its tick count give its true due time, in the
\* order of the lists: what the tick count alone cannot tell.
ListsTellDueTimes ==
    LET base == tick - Minus(Now, lastTime)   \* true time of lastTime
        turn == base - lastTime               \* when that count began
    IN  \A t \in Timers :
          CASE state.list[t] = "cur" -> state.due[t] = turn + state.value[t]
            [] state.list[t] = "over" ->
                 state.due[t] = turn + TickRange + state.value[t]
            [] OTHER -> state.due[t] = None
=============================================================================
