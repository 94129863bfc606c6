----------------------------- MODULE DelayQueue -----------------------------
(***************************************************************************)
(* The timers of the event loop: DelayQueue, a list of alarms each with    *)
(* the time between the one before it and itself, brought up to date only  *)
(* now and then (synchronize()), and the parts of SingleStep() and         *)
(* BasicTaskScheduler0 that use it.                                        *)
(*                                                                         *)
(* Time is counted in ticks.  Only the difference between the system clock *)
(* and its value at the last synchronization matters, so that is kept.     *)
(* The system clock may be set back.  The list's sentinel is left out: it  *)
(* is due in 68 years.                                                     *)
(***************************************************************************)
EXTENDS Integers, Sequences, FiniteSets, SequencesExt

CONSTANTS
    Alarms,    \* tokens: of the sink's sendNext, of RTCP, of sessions
    Delays,    \* for which alarms are set
    MaxSleep,  \* MAX_TV_SEC
    MaxPass,   \* bound: the ticks between two synchronizations
    MaxLate,   \* bound: the ticks for which an alarm is overdue
    MaxLost    \* bound: the ticks by which the clock is set back in a run

ASSUME DelaysAssumption ==
    /\ Delays \subseteq Nat /\ MaxSleep \in Nat /\ MaxPass \in Nat
    /\ MaxLost \in Nat /\ MaxLate \in Nat /\ MaxLost < MaxLate

VARIABLES
    queue,    \* the list: each entry an alarm and its fDeltaTimeRemaining
    elapsed,  \* the system clock's advance since fLastSyncTime
    loop,     \* "wait" before select(), "select" in it, "handlers" of a socket or trigger,
              \* "handler" of an alarm
    sleep,    \* how long select() may go on
    \* --- what really happens
    left,     \* real time left until an alarm is due; negative when it is overdue
    lost      \* by how much the system clock has been set back

vars == <<queue, elapsed, loop, sleep, left, lost>>

Pending == {queue[i].alarm : i \in DOMAIN queue}

Init ==
    /\ queue = <<>> /\ elapsed = 0 /\ loop = "wait" /\ sleep = 0
    /\ left = [a \in Alarms |-> 0] /\ lost = 0

-----------------------------------------------------------------------------
(* The list.                                                               *)

\* operator-() and operator-=() of Timeval.
Minus(s, t) == IF s > t THEN s - t ELSE 0

\* How long after the last synchronization the i-th entry is due.
Time(q, i) ==
    LET time[k \in 0..i] == IF k = 0 THEN 0 ELSE time[k - 1] + q[k].delta IN time[i]

Place(q, a) == SelectInSeq(q, LAMBDA e : e.alarm = a)

\* The list when e ticks, if any, are taken from its front.
Synchronize(q, e) ==
    IF e < 0 THEN q
    ELSE [i \in DOMAIN q |->
            [q[i] EXCEPT !.delta = Minus(Time(q, i), e) - Minus(Time(q, i - 1), e)]]

\* Mutant: an alarm goes before those due at the same time.
AddEntryBeforeEqual(q, a, d) ==
    LET before == {i \in DOMAIN q : Time(q, i) < d}
        at     == Cardinality(before) + 1
        own    == d - Time(q, at - 1)
        rest   == [i \in DOMAIN q |-> [q[i] EXCEPT !.delta = IF i = at THEN @ - own ELSE @]]
    IN InsertAt(rest, at, [alarm |-> a, delta |-> own])

\* addEntry() on a synchronized list: an alarm goes behind those due at the same time.
AddEntry(q, a, d) ==
    LET before == {i \in DOMAIN q : Time(q, i) <= d}
        at     == Cardinality(before) + 1
        own    == d - Time(q, at - 1)
        rest   == [i \in DOMAIN q |-> [q[i] EXCEPT !.delta = IF i = at THEN @ - own ELSE @]]
    IN InsertAt(rest, at, [alarm |-> a, delta |-> own])

\* Mutant: the time of the entry is not passed on to the next.
RemoveEntryOnly(q, a) == IF Place(q, a) = 0 THEN q ELSE RemoveAt(q, Place(q, a))

\* removeEntry() of the entry with that token, if there is one.
RemoveEntry(q, a) ==
    LET at == Place(q, a) IN
    IF at = 0 THEN q
    ELSE RemoveAt([i \in DOMAIN q |->
                     [q[i] EXCEPT !.delta = IF i = at + 1 THEN @ + q[at].delta ELSE @]], at)

-----------------------------------------------------------------------------
(* The event loop.                                                         *)

\* Is the first alarm of the list due?
Due(q) == q # <<>> /\ q[1].delta = 0

\* Mutant: the time is taken from the list as it is.
TimeToNextAlarmStale ==
    /\ loop = "wait" /\ loop' = "select"
    /\ sleep' = IF queue # <<>> /\ queue[1].delta < MaxSleep THEN queue[1].delta ELSE MaxSleep
    /\ UNCHANGED <<queue, elapsed, left, lost>>

\* timeToNextAlarm(): how long select() may block.
TimeToNextAlarm ==
    /\ loop = "wait" /\ loop' = "select"
    /\ IF Due(queue)
         THEN sleep' = 0 /\ UNCHANGED <<queue, elapsed>>
         ELSE /\ queue' = Synchronize(queue, elapsed) /\ elapsed' = 0
              /\ sleep' = IF queue # <<>> /\ queue'[1].delta < MaxSleep
                            THEN queue'[1].delta ELSE MaxSleep
    /\ UNCHANGED <<left, lost>>

\* select() returns, because its time is over or something has happened.
Select == loop = "select" /\ loop' = "handlers" /\ sleep' = 0 /\ UNCHANGED <<queue, elapsed, left, lost>>

Handling == loop \in {"handlers", "handler"}

\* Mutant: addEntry() does not synchronize.
ScheduleUnsynchronized(a, d) ==
    /\ Handling
    /\ queue' = AddEntry(RemoveEntry(queue, a), a, d)
    /\ left' = [left EXCEPT ![a] = d]
    /\ UNCHANGED <<elapsed, loop, sleep, lost>>

\* scheduleDelayedTask(), and rescheduleDelayedTask() of a task still to be run.
Schedule(a, d) ==
    /\ Handling
    /\ queue' = AddEntry(Synchronize(RemoveEntry(queue, a), elapsed), a, d) /\ elapsed' = 0
    /\ left' = [left EXCEPT ![a] = d]
    /\ UNCHANGED <<loop, sleep, lost>>

\* unscheduleDelayedTask(); a token whose alarm has rung is not found.
Unschedule(a) ==
    /\ Handling
    /\ queue' = RemoveEntry(queue, a)
    /\ left' = [left EXCEPT ![a] = 0]
    /\ UNCHANGED <<elapsed, loop, sleep, lost>>

\* handleAlarm() finds an alarm that is due, if need be after synchronizing: it is taken off
\* the list and its handler called.
Ring(a) ==
    /\ loop = "handlers" /\ loop' = "handler"
    /\ LET q == IF Due(queue) THEN queue ELSE Synchronize(queue, elapsed) IN
       /\ Due(q) /\ q[1].alarm = a
       /\ queue' = RemoveEntry(q, a)
    /\ elapsed' = IF Due(queue) THEN elapsed ELSE 0
    /\ left' = [left EXCEPT ![a] = 0]
    /\ UNCHANGED <<sleep, lost>>

\* handleAlarm() finds none.
NoAlarm ==
    /\ loop = "handlers" /\ loop' = "wait" /\ ~Due(queue)
    /\ queue' = Synchronize(queue, elapsed) /\ elapsed' = 0
    /\ ~Due(queue')
    /\ UNCHANGED <<sleep, left, lost>>

HandlerReturns == loop = "handler" /\ loop' = "wait" /\ UNCHANGED <<queue, elapsed, sleep, left, lost>>

-----------------------------------------------------------------------------
(* Time.                                                                   *)

Tick ==
    /\ elapsed < MaxPass /\ \A a \in Pending : left[a] > -MaxLate
    /\ elapsed' = elapsed + 1 /\ sleep' = Minus(sleep, 1)
    /\ left' = [a \in Alarms |-> IF a \in Pending THEN left[a] - 1 ELSE left[a]]
    /\ UNCHANGED <<queue, loop, lost>>

\* The system clock is set back by n ticks.
SetBack(n) ==
    /\ lost + n <= MaxLost /\ lost' = lost + n
    /\ elapsed' = elapsed - n
    /\ UNCHANGED <<queue, loop, sleep, left>>

Next ==
    \/ TimeToNextAlarm \/ Select \/ NoAlarm \/ HandlerReturns
    \/ \E a \in Alarms : Ring(a) \/ Unschedule(a) \/ \E d \in Delays : Schedule(a, d)
    \/ Tick \/ \E n \in 1..MaxLost : SetBack(n)

Spec == Init /\ [][Next]_vars

\* The event loop goes on, handlers return, and time passes.
Fairness ==
    /\ WF_vars(TimeToNextAlarm) /\ WF_vars(Select) /\ WF_vars(HandlerReturns)
    /\ WF_vars(NoAlarm \/ \E a \in Alarms : Ring(a))
    /\ WF_vars(Tick)

FairSpec == Spec /\ Fairness

-----------------------------------------------------------------------------
(* Properties.                                                             *)

\* How long from now the list has the i-th entry due.
DueIn(i) == Time(queue, i) - elapsed

\* The deltas, although they are only brought up to date now and then, give the time each
\* alarm is due (src/live/BasicUsageEnvironment/DelayQueue.cpp:126-220): never too early, and
\* late by no more than the clock was set back.
DueTimesKept ==
    \A i \in DOMAIN queue :
        LET real == left[queue[i].alarm] IN
        /\ real <= DueIn(i)
        /\ DueIn(i) <= lost + (IF real > 0 THEN real ELSE 0)

\* Alarms ring neither before their time nor, unless the clock is set back, out of turn
\* (src/live/BasicUsageEnvironment/DelayQueue.cpp:179-189): one that is due later never rings
\* before one that is due.
RingsInTurn ==
    [][\A a \in Alarms : Ring(a) =>
         /\ left[a] <= 0
         /\ lost = 0 => \A b \in Pending : left[a] <= left[b]]_vars

\* select() does not sleep through an alarm (src/live/BasicUsageEnvironment/
\* DelayQueue.cpp:172-177), although the time is computed from a list last brought up to date
\* before the handlers of the pass.
NeverOversleeps ==
    loop = "select" /\ queue # <<>> => sleep <= (IF DueIn(1) > 0 THEN DueIn(1) ELSE 0)

\* An alarm that is overdue rings in the end, unless it is cancelled or set anew (src/live/
\* BasicUsageEnvironment/BasicTaskScheduler.cpp:212), although each pass of the loop rings at
\* most one and its handler may set another with no delay.
Overdue(a) == a \in Pending /\ left[a] < 0
OverdueRings == \A a \in Alarms : Overdue(a) ~> ~Overdue(a)
=============================================================================
