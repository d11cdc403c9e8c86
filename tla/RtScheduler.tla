---------------------------- MODULE RtScheduler ----------------------------
(***************************************************************************)
(* RealTimeScheduler of r4w-core/src/rt_scheduler.rs: threads in the run   *)
(* loop pop due events from a shared priority queue and drive the atomic   *)
(* radio state, while other threads schedule and cancel events, stop the   *)
(* loop, and move the radio through atomic_state().  Every access to the   *)
(* queue lock, to the atomic radio state and to the running flag is a step *)
(* of its own, so that anything another thread does comes between.  Time   *)
(* is counted in ticks.                                                    *)
(***************************************************************************)
EXTENDS Integers, Sequences, FiniteSets, Functions, RadioState

CONSTANTS
    Threads,     \* threads that may call run()
    TxTurn,      \* tx_rx_turnaround
    RxTurn,      \* rx_tx_turnaround
    Tolerance,   \* deadline_tolerance_ns
    MaxSleep,    \* the 1 ms cap of the run loop's sleep
    MaxTime,     \* bound: the horizon of the clock
    Scenarios    \* what the other threads do, one of these, see below

ASSUME TimesAssumption ==
    /\ TxTurn \in Nat /\ RxTurn \in Nat /\ Tolerance \in Nat
    /\ MaxSleep \in Nat \ {0} /\ MaxTime \in Nat
    /\ IsFiniteSet(Threads)

-----------------------------------------------------------------------------
(* Events.  A template is what ScheduledEvent::new and its with_* methods  *)
(* build; guard names the predicate on the radio state, repeat is 0 for    *)
(* None.                                                                   *)

Actions == {"StartTx", "StopTx", "StartRx", "StopRx", "SetFrequency", "SetPower",
            "Calibrate", "Reset", "Custom", "StateTransition"}

Template(deadline, priority, action, guard, repeat, source) ==
    [deadline |-> deadline, priority |-> priority, action |-> action,
     guard |-> guard, repeat |-> repeat, source |-> source, target |-> "Idle"]

Templates ==
    [deadline : Nat, priority : Nat, action : Actions, guard : {"can_transmit", "can_receive", "none"},
     repeat : Nat, source : {"tx_burst", "rx_window", "fhss", "beacon", "none"}, target : RadioStates]

\* Mutant: the stop carries the guard of the start.
TxBurstGuarded(start, duration) ==
    << Template(start, 0, "StartTx", "can_transmit", 0, "tx_burst"),
       Template(start + duration, 0, "StopTx", "can_transmit", 0, "tx_burst") >>

TxBurst(start, duration) ==
    << Template(start, 0, "StartTx", "can_transmit", 0, "tx_burst"),
       Template(start + duration, 0, "StopTx", "none", 0, "tx_burst") >>

RxWindow(start, duration) ==
    << Template(start, 1, "StartRx", "can_receive", 0, "rx_window"),
       Template(start + duration, 1, "StopRx", "none", 0, "rx_window") >>

HopSequence(start, interval, count) ==
    [i \in 1..count |-> Template(start + (i - 1) * interval, 0, "SetFrequency", "none", 0, "fhss")]

Beacon(start, interval, duration) ==
    << Template(start, 2, "StartTx", "can_transmit", interval, "beacon"),
       Template(start + duration, 2, "StopTx", "none", interval, "beacon") >>

TdmaFrame(start, slot, txSlot, total) ==
    [i \in 1..(2 * total) |->
        LET k     == (i - 1) \div 2
            begin == start + k * slot
            pair  == IF k = txSlot THEN TxBurst(begin, slot) ELSE RxWindow(begin, slot)
        IN  pair[1 + ((i - 1) % 2)]]

\* An event in the queue: a template, its id, the static counter the id was
\* drawn from (new and next_occurrence have one each), and, for the
\* properties only, the call it descends from.
Event(template, counter, id, call) ==
    [template |-> template, counter |-> counter, id |-> id, call |-> call]

GuardPasses(e, s) ==
    CASE e.template.guard = "can_transmit" -> CanTransmit(s)
      [] e.template.guard = "can_receive"  -> CanReceive(s)
      [] e.template.guard = "none"         -> TRUE

\* The order of the heap: earlier deadline, then lower priority number.
Before(e, f) ==
    \/ e.template.deadline < f.template.deadline
    \/ /\ e.template.deadline = f.template.deadline
       /\ e.template.priority < f.template.priority

(* A scenario holds lag, the bound on the ticks a runnable thread is kept  *)
(* waiting, and calls, which gives each named call an op:                  *)
(*   "schedule"       with events, a sequence of templates                 *)
(*   "cancel"         with of, the call whose returned id is cancelled     *)
(*   "cancel_source"  with source                                          *)
(*   "run"            with thread                                          *)
(*   "stop"                                                                *)
(*   "transition"     with from and to: atomic_state().transition(from,to) *)
(* and by, the latest time at which the call is made.                      *)

Calls == UNION {DOMAIN s.calls : s \in Scenarios}

ASSUME ScenarioAssumption ==
    \A s \in Scenarios : \A c \in DOMAIN s.calls :
        s.calls[c].op = "schedule" => s.calls[c].events \in Seq(Templates)

VARIABLES
    scenario,   \* the one being played
    clock,      \* now_ns()
    radio,      \* the AtomicRadioState
    events,     \* the BinaryHeap
    newIds,     \* EVENT_COUNTER of ScheduledEvent::new
    nextIds,    \* EVENT_COUNTER of next_occurrence
    running,    \* the running flag
    pc,         \* program point of each thread
    passNow,    \* the time process() captured
    cur,        \* the popped event, as a set of at most one
    seen,       \* the radio state loaded before the compare-exchange
    resched,    \* to_reschedule
    wakeAt,     \* end of the sleep
    lag,        \* ticks the thread was runnable and did not get on
    stats,      \* SchedulerStats, and the number of cancelled events
    called,     \* calls already begun
    left,       \* events a call still has to push
    firstId,    \* the id a call returned
    silenced    \* for the properties: calls that lost a StopTx to cancel_from_source

threadVars == <<pc, passNow, cur, seen, resched, wakeAt>>
queueVars  == <<events, newIds, nextIds, stats>>
timeVars   == <<clock, lag>>
callVars   == <<called, left, firstId, silenced>>
fixed      == <<running, scenario>>
vars == <<threadVars, queueVars, radio, timeVars, callVars, fixed>>

Plan == scenario.calls

Init ==
    /\ scenario \in Scenarios
    /\ clock = 0 /\ lag = [t \in Threads |-> 0]
    /\ radio = "Idle"
    /\ events = {} /\ newIds = 0 /\ nextIds = 0
    /\ stats = [scheduled |-> 0, executed |-> 0, missed |-> 0, blocked |-> 0, cancelled |-> 0]
    /\ running = FALSE
    /\ pc = [t \in Threads |-> "off"]
    /\ passNow = [t \in Threads |-> 0]
    /\ cur = [t \in Threads |-> {}]
    /\ seen = [t \in Threads |-> "Idle"]
    /\ resched = [t \in Threads |-> {}]
    /\ wakeAt = [t \in Threads |-> 0]
    /\ called = {} /\ left = [c \in Calls |-> <<>>] /\ firstId = [c \in Calls |-> 0]
    /\ silenced = {}

SetRadio(s) == radio' = s

Insert(es) ==
    /\ events' = events \cup es
    /\ stats' = [stats EXCEPT !.scheduled = @ + Cardinality(es)]

-----------------------------------------------------------------------------
(* Calls of other threads *)

Begin(c, op) ==
    /\ c \in DOMAIN Plan /\ c \notin called
    /\ Plan[c].op = op /\ clock <= Plan[c].by
    /\ called' = called \cup {c}

\* The events are built and get their ids, then are pushed one by one.
CallSchedule(c) ==
    /\ Begin(c, "schedule")
    /\ LET ts == Plan[c].events
       IN  /\ left' = [left EXCEPT ![c] =
                           [i \in 1..Len(ts) |-> Event(ts[i], "new", newIds + i - 1, c)]]
           /\ newIds' = newIds + Len(ts)
    /\ firstId' = [firstId EXCEPT ![c] = newIds]
    /\ UNCHANGED <<threadVars, events, nextIds, stats, radio, timeVars, silenced, fixed>>

Push(c) ==
    /\ left[c] # <<>>
    /\ Insert({Head(left[c])})
    /\ left' = [left EXCEPT ![c] = Tail(@)]
    /\ UNCHANGED <<threadVars, newIds, nextIds, radio, timeVars, called, firstId, silenced, fixed>>

Remove(es) ==
    /\ events' = events \ es
    /\ stats' = [stats EXCEPT !.cancelled = @ + Cardinality(es)]

Returned(c) == c \in called /\ left[c] = <<>>

CallCancel(c) ==
    /\ Begin(c, "cancel")
    /\ Returned(Plan[c].of)
    /\ Remove({e \in events : e.id = firstId[Plan[c].of]})
    /\ UNCHANGED <<threadVars, newIds, nextIds, radio, timeVars, left, firstId,
                   silenced, fixed>>

CallCancelSource(c) ==
    /\ Begin(c, "cancel_source")
    /\ Remove({e \in events : e.template.source = Plan[c].source})
    /\ silenced' = silenced \cup
         {e.call : e \in {f \in events : f.template.source = Plan[c].source /\ f.template.action = "StopTx"}}
    /\ UNCHANGED <<threadVars, newIds, nextIds, radio, timeVars, left, firstId, fixed>>

\* run() in thread c.thread, which enters the loop or gets AlreadyRunning.
CallRun(c) ==
    LET t == Plan[c].thread
    IN  /\ Begin(c, "run")
        /\ pc[t] = "off"
        /\ pc' = IF running THEN pc ELSE [pc EXCEPT ![t] = "check"]
        /\ running' = TRUE
        /\ lag' = [lag EXCEPT ![t] = 0]
        /\ UNCHANGED <<passNow, cur, seen, resched, wakeAt, queueVars, radio, clock,
                       left, firstId, silenced, scenario>>

CallStop(c) ==
    /\ Begin(c, "stop")
    /\ running' = FALSE
    /\ UNCHANGED <<threadVars, queueVars, radio, timeVars, left, firstId, silenced, scenario>>

\* The hardware reports through atomic_state(), by compare-exchange.
CallTransition(c) ==
    LET from == Plan[c].from
        to   == Plan[c].to
    IN  /\ Begin(c, "transition")
        /\ IF CanTransitionTo(from, to) /\ radio = from THEN SetRadio(to) ELSE UNCHANGED radio
        /\ UNCHANGED <<threadVars, queueVars, timeVars, left, firstId, silenced, fixed>>

Call(c) ==
    \/ CallSchedule(c) \/ Push(c) \/ CallCancel(c) \/ CallCancelSource(c)
    \/ CallRun(c) \/ CallStop(c) \/ CallTransition(c)

-----------------------------------------------------------------------------
(* The run loop *)

Goto(t, point) == pc' = [pc EXCEPT ![t] = point]

Checked(t, now) ==
    /\ pc[t] = "check"
    /\ Goto(t, IF running THEN "pop" ELSE "off")
    /\ passNow' = [passNow EXCEPT ![t] = now]
    /\ UNCHANGED <<cur, seen, resched, wakeAt, queueVars, radio, timeVars, callVars, fixed>>

\* Mutant: the time is not read again for the next pass.
CheckStale(t) == Checked(t, passNow[t])

Check(t) == Checked(t, clock)

Due(t) == {e \in events : e.template.deadline <= passNow[t]}

\* Mutant: the event is looked at and stays in the heap.
Peek(t) ==
    /\ pc[t] = "pop"
    /\ \E e \in Due(t) :
        /\ \A f \in events : ~Before(f, e)
        /\ cur' = [cur EXCEPT ![t] = {e}]
    /\ Goto(t, "guard")
    /\ UNCHANGED <<passNow, seen, resched, wakeAt, queueVars, radio,
                   timeVars, callVars, fixed>>

\* Of several events with the same deadline and priority the heap may give any.
Pop(t) ==
    /\ pc[t] = "pop"
    /\ \E e \in Due(t) :
        /\ \A f \in events : ~Before(f, e)
        /\ events' = events \ {e}
        /\ cur' = [cur EXCEPT ![t] = {e}]
    /\ Goto(t, "guard")
    /\ UNCHANGED <<passNow, seen, resched, wakeAt, newIds, nextIds, stats, radio,
                   timeVars, callVars, fixed>>

PopNothing(t) ==
    /\ pc[t] = "pop" /\ Due(t) = {}
    /\ Goto(t, "resched")
    /\ UNCHANGED <<passNow, cur, seen, resched, wakeAt, queueVars, radio, timeVars,
                   callVars, fixed>>

\* Mutant: the thread keeps the event.
FinishKept(t, e, ok) ==
    /\ Goto(t, "pop")
    /\ UNCHANGED <<cur, resched, nextIds>>

\* The event is done with; a repeating one that succeeded gets its next
\* occurrence, with an id from the other counter.
Finish(t, e, ok) ==
    LET again == ok /\ e.template.repeat > 0
        next  == Event([e.template EXCEPT !.deadline = @ + e.template.repeat], "next", nextIds, e.call)
    IN  /\ cur' = [cur EXCEPT ![t] = {}]
        /\ Goto(t, "pop")
        /\ resched' = [resched EXCEPT ![t] = IF again THEN @ \cup {next} ELSE @]
        /\ nextIds' = IF again THEN nextIds + 1 ELSE nextIds

\* execute_event: the guard on a snapshot of the state, then the deadline.
Guard(t) ==
    /\ pc[t] = "guard"
    /\ \E e \in cur[t] :
        CASE ~GuardPasses(e, radio) ->
                /\ stats' = [stats EXCEPT !.blocked = @ + 1]
                /\ Finish(t, e, FALSE)
          [] GuardPasses(e, radio) /\ passNow[t] - e.template.deadline > Tolerance ->
                /\ stats' = [stats EXCEPT !.missed = @ + 1]
                /\ Finish(t, e, FALSE)
          [] OTHER ->
                /\ stats' = [stats EXCEPT !.executed = @ + 1]
                /\ Goto(t, "act")
                /\ UNCHANGED <<cur, resched, nextIds>>
    /\ UNCHANGED <<passNow, seen, wakeAt, events, newIds, radio, timeVars, callVars, fixed>>

TargetOf(e) ==
    CASE e.template.action = "StartTx"      -> "Transmitting"
      [] e.template.action = "StopTx"       -> "TxTurnaround"
      [] e.template.action = "StartRx"      -> "Receiving"
      [] e.template.action = "StopRx"       -> "RxTurnaround"
      [] e.template.action = "SetFrequency" -> "Hopping"
      [] e.template.action = "Calibrate"    -> "Calibrating"
      [] OTHER                              -> e.template.target

\* The state the action starts from: fixed for the stops, else the loaded one.
FromOf(e) ==
    CASE e.template.action = "StopTx" -> "Transmitting"
      [] e.template.action = "StopRx" -> "Receiving"
      [] OTHER                        -> radio

Admits(e, s) ==
    /\ e.template.action = "StartTx"   => CanTransmit(s)
    /\ e.template.action = "StartRx"   => CanReceive(s)
    /\ e.template.action = "Calibrate" => s = "Idle"
    /\ CanTransitionTo(s, TargetOf(e))

\* Not a state change at all, or a hop refused in silence.
NoEffect(e) ==
    \/ e.template.action \in {"SetPower", "Custom"}
    \/ e.template.action = "SetFrequency" /\ ~CanHop(radio)

\* execute_action up to the load of the state.
Load(t) ==
    /\ pc[t] = "act"
    /\ \E e \in cur[t] :
        \/ /\ NoEffect(e)
           /\ Finish(t, e, TRUE)
           /\ UNCHANGED <<seen, radio>>
        \/ /\ e.template.action = "Reset"
           /\ SetRadio("Idle")
           /\ Finish(t, e, TRUE)
           /\ UNCHANGED seen
        \/ /\ ~NoEffect(e) /\ e.template.action # "Reset"
           /\ ~Admits(e, FromOf(e))
           /\ Finish(t, e, FALSE)
           /\ UNCHANGED <<seen, radio>>
        \/ /\ ~NoEffect(e) /\ e.template.action # "Reset"
           /\ Admits(e, FromOf(e))
           /\ seen' = [seen EXCEPT ![t] = FromOf(e)]
           /\ Goto(t, "cas")
           /\ UNCHANGED <<cur, resched, nextIds, radio>>
    /\ UNCHANGED <<passNow, wakeAt, events, newIds, stats, timeVars, callVars, fixed>>

Exchange(t, equal) ==
    /\ pc[t] = "cas"
    /\ \E e \in cur[t] :
        \/ /\ ~equal
           /\ Finish(t, e, FALSE)
           /\ UNCHANGED radio
        \/ /\ equal
           /\ SetRadio(TargetOf(e))
           /\ CASE e.template.action = "SetFrequency" ->
                     Goto(t, "unhop") /\ UNCHANGED <<cur, resched, nextIds>>
                [] e.template.action \in {"StopTx", "StopRx"} ->
                     Goto(t, "arm") /\ UNCHANGED <<cur, resched, nextIds>>
                [] OTHER -> Finish(t, e, TRUE)
    /\ UNCHANGED <<passNow, seen, wakeAt, events, newIds, stats, timeVars, callVars, fixed>>

\* Mutant: a store of the new state, not an exchange.
CasBlind(t) == Exchange(t, TRUE)

Cas(t) == Exchange(t, radio = seen[t])

\* The hop is over: the state is stored without a comparison.
Unhop(t) ==
    /\ pc[t] = "unhop"
    /\ \E e \in cur[t] : Finish(t, e, TRUE)
    /\ SetRadio("Idle")
    /\ UNCHANGED <<passNow, seen, wakeAt, events, newIds, stats, timeVars, callVars, fixed>>

Timer(e) ==
    Template(clock + (IF e.template.action = "StopTx" THEN TxTurn ELSE RxTurn),
             0, "StateTransition", "none", 0, "none")

\* After a stop: schedule the transition to Idle at the end of the turnaround.
Arm(t) ==
    /\ pc[t] = "arm"
    /\ \E e \in cur[t] :
        /\ Insert({Event(Timer(e), "new", newIds, e.call)})
        /\ Finish(t, e, TRUE)
    /\ newIds' = newIds + 1
    /\ UNCHANGED <<passNow, seen, wakeAt, radio, timeVars, callVars, fixed>>

Reschedule(t) ==
    /\ pc[t] = "resched"
    /\ Insert(resched[t])
    /\ resched' = [resched EXCEPT ![t] = {}]
    /\ Goto(t, "doze")
    /\ UNCHANGED <<passNow, cur, seen, wakeAt, newIds, nextIds, radio, timeVars, callVars, fixed>>

Sleeping(t, until) ==
    /\ pc[t] = "doze"
    /\ wakeAt' = [wakeAt EXCEPT ![t] = until]
    /\ Goto(t, "asleep")
    /\ lag' = [lag EXCEPT ![t] = 0]
    /\ UNCHANGED <<passNow, cur, seen, resched, queueVars, radio, clock, callVars, fixed>>

\* Mutant: the sleep does not look at the queue.
DozeFull(t) == Sleeping(t, clock + MaxSleep)

\* Sleep until the next deadline or MaxSleep, whichever is sooner.
Doze(t) ==
    \E d \in {clock + MaxSleep} \cup {e.template.deadline : e \in events} :
        /\ d <= clock + MaxSleep
        /\ \A e \in events : d <= e.template.deadline
        /\ Sleeping(t, d)

Wake(t) ==
    /\ pc[t] = "asleep" /\ wakeAt[t] <= clock
    /\ Goto(t, "check")
    /\ UNCHANGED <<passNow, cur, seen, resched, wakeAt, queueVars, radio, timeVars,
                   callVars, fixed>>

Thread(t) ==
    \/ Check(t) \/ Pop(t) \/ PopNothing(t) \/ Guard(t) \/ Load(t) \/ Cas(t)
    \/ Unhop(t) \/ Arm(t) \/ Reschedule(t) \/ Doze(t) \/ Wake(t)

Runnable(t) ==
    \/ pc[t] \notin {"off", "asleep"}
    \/ pc[t] = "asleep" /\ wakeAt[t] <= clock

\* A call pushes its events within a tick.
Tick ==
    /\ clock < MaxTime
    /\ \A t \in Threads : Runnable(t) => lag[t] < scenario.lag
    /\ \A c \in Calls : left[c] = <<>>
    /\ clock' = clock + 1
    /\ lag' = [t \in Threads |-> IF Runnable(t) THEN lag[t] + 1 ELSE lag[t]]
    /\ UNCHANGED <<threadVars, queueVars, radio, callVars, fixed>>

Next ==
    \/ \E t \in Threads : Thread(t)
    \/ \E c \in Calls : Call(c)
    \/ Tick

Spec == Init /\ [][Next]_vars

\* The threads get the processor and time goes on.
FairSpec ==
    /\ Spec
    /\ \A t \in Threads : WF_vars(Thread(t))
    /\ \A c \in Calls : WF_vars(Push(c))
    /\ WF_vars(Tick)
-----------------------------------------------------------------------------
(* Properties *)

Point == {"off", "check", "pop", "guard", "act", "cas", "unhop", "arm", "resched", "doze", "asleep"}

IsEvent(e) ==
    /\ DOMAIN e = {"template", "counter", "id", "call"}
    /\ e.template \in Templates
    /\ e.counter \in {"new", "next"} /\ e.id \in Nat /\ e.call \in Calls

TypeOK ==
    /\ scenario \in Scenarios
    /\ clock \in Nat /\ lag \in [Threads -> Nat]
    /\ radio \in RadioStates
    /\ \A e \in events : IsEvent(e)
    /\ newIds \in Nat /\ nextIds \in Nat /\ running \in BOOLEAN
    /\ pc \in [Threads -> Point] /\ passNow \in [Threads -> Nat]
    /\ seen \in [Threads -> RadioStates] /\ wakeAt \in [Threads -> Nat]
    /\ \A t \in Threads : \A e \in cur[t] \cup resched[t] : IsEvent(e)
    /\ \A t \in Threads : cur[t] = {} <=> pc[t] \notin {"guard", "act", "cas", "unhop", "arm"}
    /\ called \subseteq Calls /\ silenced \subseteq Calls
    /\ firstId \in [Calls -> Nat]

\* No event is lost or counted twice, whatever the threads do to the queue at
\* the same time: what was scheduled waits, was cancelled, or was popped and
\* then executed, dropped late or dropped by its guard.
Balanced ==
    stats.scheduled = Cardinality(events) + Cardinality({t \in Threads : pc[t] = "guard"})
                      + stats.executed + stats.missed + stats.blocked + stats.cancelled

Pending == events \cup (UNION {cur[t] : t \in Threads}) \cup (UNION {Range(left[c]) : c \in Calls})

\* The radio is never left in a state that nothing will take it out of.  While
\* it transmits there is a StopTx before it ("TX burst with automatic stop"),
\* unless cancel_from_source took it away in the middle of the burst; in a
\* turnaround there is the event that ends it, or a thread about to make it.
NeverStuck ==
    /\ radio = "Transmitting" =>
         \/ \E e \in Pending : e.template.action = "StopTx"
         \/ silenced # {}
    /\ radio \in {"TxTurnaround", "RxTurnaround"} =>
         \/ \E e \in events \cup UNION {cur[t] : t \in Threads} : e.template.action = "StateTransition"
         \/ \E t \in Threads : pc[t] = "arm"

\* Every change of the radio is one of the table, although some are plain
\* stores and others start from a state loaded earlier.
LegalTransitions == [][radio' # radio => CanTransitionTo(radio, radio')]_vars

\* No thread has anything to do before the clock moves on.
Settled ==
    /\ \E t \in Threads : pc[t] # "off"
    /\ \A t \in Threads : ~Runnable(t)
    /\ \A c \in Calls : left[c] = <<>>

\* While the loop runs, an event that is due leaves the queue.
DueServed == \A c \in Calls :
    LET due == \E e \in events : e.call = c /\ e.template.deadline <= clock
    IN  (running /\ due) ~> (~running \/ ~due)

\* Whatever starts transmitting stops, with the same exception.
BurstEnds == radio = "Transmitting" ~> (radio # "Transmitting" \/ silenced # {})
=============================================================================
