------------------------- MODULE RtSchedulerProofs -------------------------
(***************************************************************************)
(* What TLAPS proves of RtScheduler, for every scenario, any number of     *)
(* threads in the loop and every delay: the type invariant, and that no    *)
(* event is lost or counted twice; and, for what a scenario may ask for    *)
(* without harm, that the radio follows the table of its transitions and   *)
(* is never left where nothing takes it out, how late an event can be, and *)
(* that slots that keep apart are on the air exactly when asked for.       *)
(*                                                                         *)
(* The counts are of sets of events, so what has to be shown is that an    *)
(* event never gets into a set that holds it already: no two events have   *)
(* the same id of the same counter, wherever they are.                     *)
(***************************************************************************)
EXTENDS MCRtScheduler, FiniteSetTheorems, TLAPS

EventSet == [template : Templates, counter : {"new", "next"}, id : Nat, call : Calls]
Counts   == [scheduled : Nat, executed : Nat, missed : Nat, blocked : Nat, cancelled : Nat]
Holding  == {"guard", "act", "cas", "unhop", "arm"}

QueueShapes ==
    /\ events \in SUBSET EventSet /\ newIds \in Nat /\ nextIds \in Nat /\ stats \in Counts
    /\ resched \in [Threads -> SUBSET EventSet] /\ left \in [Calls -> Seq(EventSet)]
    /\ IsFiniteSet(events) /\ \A t \in Threads : IsFiniteSet(resched[t])

ThreadShapes ==
    /\ pc \in [Threads -> Point] /\ cur \in [Threads -> SUBSET EventSet]
    /\ \A t \in Threads : cur[t] = {} <=> pc[t] \notin Holding
    /\ passNow \in [Threads -> Nat] /\ wakeAt \in [Threads -> Nat]
    /\ seen \in [Threads -> RadioStates]

RestShapes ==
    /\ scenario \in Scenarios /\ running \in BOOLEAN
    /\ clock \in Nat /\ lag \in [Threads -> Nat] /\ radio \in RadioStates
    /\ called \subseteq Calls /\ silenced \subseteq Calls /\ firstId \in [Calls -> Nat]

Shapes == QueueShapes /\ ThreadShapes /\ RestShapes

-----------------------------------------------------------------------------
(* Types *)

LEMMA PlanOf ==
    ASSUME Shapes, NEW c, NEW op, Begin(c, op)
    PROVE  /\ c \in Calls /\ c \in DOMAIN Plan
           /\ called' \subseteq Calls
           /\ op = "schedule" => Plan[c].events \in Seq(Templates)
<1>1. scenario \in Scenarios /\ c \in DOMAIN scenario.calls /\ scenario.calls[c].op = op
  BY DEF Shapes, RestShapes, Begin, Plan
<1>2. c \in Calls
  BY <1>1 DEF Calls
<1>3. op = "schedule" => scenario.calls[c].events \in Seq(Templates)
  BY <1>1, ScenarioAssumption
<1> QED BY <1>1, <1>2, <1>3 DEF Begin, Plan, Shapes, RestShapes

\* The next occurrence of an event, and the one that ends a turnaround.
Next1(e) == Event([e.template EXCEPT !.deadline = @ + e.template.repeat], "next", nextIds, e.call)

LEMMA NextIsEvent ==
    ASSUME NEW e \in EventSet, nextIds \in Nat
    PROVE  Next1(e) \in EventSet
<1>1. e.template \in Templates /\ e.call \in Calls
  BY DEF EventSet
<1>2. [e.template EXCEPT !.deadline = @ + e.template.repeat] \in Templates
  BY <1>1 DEF Templates
<1> QED BY <1>1, <1>2 DEF Next1, Event, EventSet

LEMMA TimerIsEvent ==
    ASSUME NEW e \in EventSet, newIds \in Nat, clock \in Nat
    PROVE  Event(Timer(e), "new", newIds, e.call) \in EventSet
<1>1. Timer(e) \in Templates
  BY TimesAssumption DEF Timer, Template, Templates, Actions, RadioStates
<1> QED BY <1>1 DEF Event, EventSet

LEMMA TargetIsState ==
    ASSUME NEW e \in EventSet
    PROVE  TargetOf(e) \in RadioStates
  BY DEF TargetOf, EventSet, Templates, RadioStates

LEMMA TableOfStates ==
    ASSUME NEW s \in RadioStates, NEW target, CanTransitionTo(s, target)
    PROVE  target \in RadioStates
  BY DEF RadioStates, CanTransitionTo, ValidTransitions

\* What Finish leaves behind: the thread holds nothing, and to_reschedule has
\* got at most one event, with a fresh id.
Fresh(ys) ==
    /\ ys \subseteq EventSet /\ IsFiniteSet(ys)
    /\ \A y \in ys : y.counter = "next" /\ y.id >= nextIds /\ y.id < nextIds'
    /\ nextIds' \in Nat /\ nextIds' >= nextIds

LEMMA Finished ==
    ASSUME Shapes, NEW t \in Threads, NEW e \in cur[t], NEW ok \in BOOLEAN, Finish(t, e, ok)
    PROVE  /\ pc' = [pc EXCEPT ![t] = "pop"] /\ cur' = [cur EXCEPT ![t] = {}]
           /\ \E ys : Fresh(ys) /\ resched' = [resched EXCEPT ![t] = @ \cup ys]
<1>1. e \in EventSet /\ nextIds \in Nat
  BY DEF Shapes, QueueShapes, ThreadShapes
<1>2. pc' = [pc EXCEPT ![t] = "pop"] /\ cur' = [cur EXCEPT ![t] = {}]
  BY DEF Finish, Goto
<1>3. CASE ok /\ e.template.repeat > 0
  <2>0. PICK next : next = Next1(e)
    OBVIOUS
  <2>1. resched' = [resched EXCEPT ![t] = @ \cup {next}] /\ nextIds' = nextIds + 1
    BY <1>3, <2>0 DEF Finish, Next1
  <2>2. next \in EventSet /\ next.counter = "next" /\ next.id = nextIds
    BY <1>1, <2>0, NextIsEvent DEF Next1, Event
  <2>3. IsFiniteSet({next})
    BY FS_Singleton
  <2>4. Fresh({next})
    BY <1>1, <2>1, <2>2, <2>3 DEF Fresh
  <2> QED BY <1>2, <2>1, <2>4
<1>4. CASE ~(ok /\ e.template.repeat > 0)
  <2>1. resched' = [resched EXCEPT ![t] = @] /\ nextIds' = nextIds
    BY <1>4 DEF Finish
  <2>2. Fresh({}) /\ resched' = [resched EXCEPT ![t] = @ \cup {}]
    BY <1>1, <2>1, FS_EmptySet DEF Fresh
  <2> QED BY <1>2, <2>2
<1> QED BY <1>3, <1>4

PointShapes ==
    /\ pc \in [Threads -> Point] /\ cur \in [Threads -> SUBSET EventSet]
    /\ \A t \in Threads : cur[t] = {} <=> pc[t] \notin Holding

LEMMA FinishShapes ==
    ASSUME Shapes, NEW t \in Threads, NEW e \in cur[t], NEW ok \in BOOLEAN, Finish(t, e, ok)
    PROVE  /\ PointShapes' /\ nextIds' \in Nat
           /\ resched' \in [Threads -> SUBSET EventSet] /\ \A u \in Threads : IsFiniteSet(resched'[u])
<1>1. PICK ys : Fresh(ys) /\ resched' = [resched EXCEPT ![t] = @ \cup ys]
  BY Finished
<1>2. resched' \in [Threads -> SUBSET EventSet] /\ nextIds' \in Nat
  BY <1>1 DEF Fresh, Shapes, QueueShapes
<1>3. PointShapes'
  BY Finished DEF Shapes, ThreadShapes, PointShapes, Point, Holding
<1>4. ASSUME NEW u \in Threads PROVE IsFiniteSet(resched'[u])
  <2>1. IsFiniteSet(ys) /\ IsFiniteSet(resched[u])
    BY <1>1 DEF Fresh, Shapes, QueueShapes
  <2>2. IsFiniteSet(resched[u] \cup ys)
    BY <2>1, FS_Union
  <2>3. resched'[u] = IF u = t THEN resched[u] \cup ys ELSE resched[u]
    BY <1>1 DEF Shapes, QueueShapes
  <2> QED BY <2>1, <2>2, <2>3
<1> QED BY <1>2, <1>3, <1>4

LEMMA InsertShapes ==
    ASSUME QueueShapes, NEW es \in SUBSET EventSet, IsFiniteSet(es), Insert(es)
    PROVE  events' \in SUBSET EventSet /\ IsFiniteSet(events') /\ stats' \in Counts
<1>1. IsFiniteSet(events') /\ Cardinality(es) \in Nat
  BY FS_Union, FS_CardinalityType DEF QueueShapes, Insert
<1> QED BY <1>1 DEF QueueShapes, Insert, Counts

LEMMA RemoveShapes ==
    ASSUME QueueShapes, NEW es \in SUBSET events, Remove(es)
    PROVE  events' \in SUBSET EventSet /\ IsFiniteSet(events') /\ stats' \in Counts
<1>1. IsFiniteSet(events') /\ Cardinality(es) \in Nat
  BY FS_Difference, FS_Subset, FS_CardinalityType DEF QueueShapes, Remove
<1> QED BY <1>1 DEF QueueShapes, Remove, Counts

LEMMA GotoShapes ==
    ASSUME Shapes, NEW t \in Threads, NEW p \in Point, Goto(t, p), UNCHANGED cur,
           pc[t] \in Holding <=> p \in Holding
    PROVE  PointShapes'
  BY DEF Goto, Shapes, ThreadShapes, PointShapes

LEMMA LoopShapes ==
    ASSUME Shapes, NEW t \in Threads,
           Check(t) \/ PopNothing(t) \/ Doze(t) \/ Wake(t) \/ Reschedule(t) \/ Pop(t)
    PROVE  Shapes'
<1> USE DEF Shapes, queueVars, timeVars, callVars, fixed
<1>1. CASE Check(t)
  <2>1. pc[t] \notin Holding /\ \E p \in {"pop", "off"} : Goto(t, p)
    BY <1>1 DEF Check, Checked, Holding
  <2>2. PointShapes'
    BY <1>1, <2>1, GotoShapes DEF Check, Checked, Point, Holding
  <2>3. passNow' \in [Threads -> Nat]
    BY <1>1 DEF Check, Checked, ThreadShapes, RestShapes
  <2> QED BY <1>1, <2>2, <2>3 DEF Check, Checked, QueueShapes, ThreadShapes, RestShapes, PointShapes
<1>2. CASE PopNothing(t)
  <2>1. PointShapes'
    BY <1>2, GotoShapes DEF PopNothing, Point, Holding
  <2> QED BY <1>2, <2>1 DEF PopNothing, QueueShapes, ThreadShapes, RestShapes, PointShapes
<1>3. CASE Doze(t)
  <2>1. PICK d \in {clock + MaxSleep} \cup {e.template.deadline : e \in events} : Sleeping(t, d)
    BY <1>3 DEF Doze
  <2>2. d \in Nat
    <3>1. \A e \in events : e.template.deadline \in Nat
      BY DEF QueueShapes, EventSet, Templates
    <3> QED BY <2>1, <3>1, TimesAssumption DEF RestShapes
  <2>3. PointShapes'
    BY <2>1, GotoShapes DEF Sleeping, Point, Holding
  <2>4. wakeAt' \in [Threads -> Nat] /\ lag' \in [Threads -> Nat]
    BY <2>1, <2>2 DEF Sleeping, ThreadShapes, RestShapes
  <2> QED BY <2>1, <2>3, <2>4 DEF Sleeping, QueueShapes, ThreadShapes, RestShapes, PointShapes
<1>4. CASE Wake(t)
  <2>1. PointShapes'
    BY <1>4, GotoShapes DEF Wake, Point, Holding
  <2> QED BY <1>4, <2>1 DEF Wake, QueueShapes, ThreadShapes, RestShapes, PointShapes
<1>5. CASE Reschedule(t)
  <2>1. PointShapes'
    BY <1>5, GotoShapes DEF Reschedule, Point, Holding
  <2>2. events' \in SUBSET EventSet /\ IsFiniteSet(events') /\ stats' \in Counts
    BY <1>5, InsertShapes DEF Reschedule, QueueShapes
  <2>3. resched' \in [Threads -> SUBSET EventSet] /\ \A u \in Threads : IsFiniteSet(resched'[u])
    BY <1>5, FS_EmptySet DEF Reschedule, QueueShapes
  <2> QED BY <1>5, <2>1, <2>2, <2>3 DEF Reschedule, QueueShapes, ThreadShapes, RestShapes, PointShapes
<1>6. CASE Pop(t)
  <2>1. PICK e \in events : /\ events' = events \ {e} /\ cur' = [cur EXCEPT ![t] = {e}]
                            /\ pc' = [pc EXCEPT ![t] = "guard"]
    BY <1>6 DEF Pop, Due, Goto
  <2>2. PointShapes'
    BY <2>1 DEF QueueShapes, ThreadShapes, PointShapes, Point, Holding
  <2>3. IsFiniteSet(events')
    BY <2>1, FS_RemoveElement DEF QueueShapes
  <2> QED BY <1>6, <2>1, <2>2, <2>3 DEF Pop, QueueShapes, ThreadShapes, RestShapes, PointShapes
<1> QED BY <1>1, <1>2, <1>3, <1>4, <1>5, <1>6

LEMMA EventShapes ==
    ASSUME Shapes, NEW t \in Threads, Guard(t) \/ Load(t) \/ Cas(t) \/ Unhop(t) \/ Arm(t)
    PROVE  Shapes'
<1> USE DEF Shapes, queueVars, timeVars, callVars, fixed
<1>0. ASSUME NEW e \in cur[t] PROVE e \in EventSet
  BY DEF ThreadShapes
<1> DEFINE Moved == /\ PointShapes' /\ nextIds' \in Nat
                    /\ resched' \in [Threads -> SUBSET EventSet]
                    /\ \A u \in Threads : IsFiniteSet(resched'[u])
<1>1. CASE Guard(t)
  <2>1. PICK e \in cur[t] :
          \/ Finish(t, e, FALSE)
          \/ Goto(t, "act") /\ UNCHANGED <<cur, resched, nextIds>>
    BY <1>1 DEF Guard
  <2>2. Moved
    BY <1>1, <2>1, FinishShapes, GotoShapes DEF Guard, QueueShapes, Point, Holding
  <2>3. stats' \in Counts
    <3>1. PICK f \in cur[t] :
            CASE ~GuardPasses(f, radio) ->
                   /\ stats' = [stats EXCEPT !.blocked = @ + 1]
                   /\ Finish(t, f, FALSE)
              [] GuardPasses(f, radio) /\ passNow[t] - f.template.deadline > Tolerance ->
                   /\ stats' = [stats EXCEPT !.missed = @ + 1]
                   /\ Finish(t, f, FALSE)
              [] OTHER ->
                   /\ stats' = [stats EXCEPT !.executed = @ + 1]
                   /\ Goto(t, "act")
                   /\ UNCHANGED <<cur, resched, nextIds>>
      BY <1>1 DEF Guard
    <3>2. CASE ~GuardPasses(f, radio)
      <4>1. stats' = [stats EXCEPT !.blocked = @ + 1]
        BY <3>1, <3>2
      <4> QED BY <4>1 DEF QueueShapes, Counts
    <3>3. CASE GuardPasses(f, radio) /\ passNow[t] - f.template.deadline > Tolerance
      <4>1. stats' = [stats EXCEPT !.missed = @ + 1]
        BY <3>1, <3>3
      <4> QED BY <4>1 DEF QueueShapes, Counts
    <3>4. CASE GuardPasses(f, radio) /\ ~(passNow[t] - f.template.deadline > Tolerance)
      <4>1. stats' = [stats EXCEPT !.executed = @ + 1]
        BY <3>1, <3>4
      <4> QED BY <4>1 DEF QueueShapes, Counts
    <3> QED BY <3>2, <3>3, <3>4
  <2> QED BY <1>1, <2>2, <2>3 DEF Guard, QueueShapes, ThreadShapes, RestShapes, PointShapes
<1>2. CASE Load(t)
  <2>1. PICK e \in cur[t] :
          \/ (Finish(t, e, TRUE) \/ Finish(t, e, FALSE)) /\ UNCHANGED seen
          \/ Goto(t, "cas") /\ seen' = [seen EXCEPT ![t] = FromOf(e)] /\ UNCHANGED <<cur, resched, nextIds>>
    BY <1>2 DEF Load
  <2>2. Moved
    BY <1>2, <2>1, FinishShapes, GotoShapes DEF Load, QueueShapes, Point, Holding
  <2>3. radio' \in RadioStates
    BY <1>2 DEF Load, SetRadio, RadioStates, RestShapes
  <2>4. seen' \in [Threads -> RadioStates]
    <3>1. FromOf(e) \in RadioStates
      BY DEF FromOf, RadioStates, RestShapes
    <3> QED BY <2>1, <3>1 DEF ThreadShapes
  <2> QED BY <1>2, <2>2, <2>3, <2>4 DEF Load, QueueShapes, ThreadShapes, RestShapes, PointShapes
<1>3. CASE Cas(t)
  <2>1. PICK e \in cur[t] :
          /\ \/ Finish(t, e, TRUE) \/ Finish(t, e, FALSE)
             \/ (Goto(t, "unhop") \/ Goto(t, "arm")) /\ UNCHANGED <<cur, resched, nextIds>>
          /\ radio' \in {radio, TargetOf(e)}
    BY <1>3 DEF Cas, Exchange, SetRadio
  <2>2. Moved
    BY <1>3, <2>1, FinishShapes, GotoShapes DEF Cas, Exchange, QueueShapes, Point, Holding
  <2>3. radio' \in RadioStates
    BY <1>0, <2>1, TargetIsState DEF RestShapes
  <2> QED BY <1>3, <2>2, <2>3 DEF Cas, Exchange, QueueShapes, ThreadShapes, RestShapes, PointShapes
<1>4. CASE Unhop(t)
  <2>1. Moved
    BY <1>4, FinishShapes DEF Unhop
  <2>2. radio' \in RadioStates
    BY <1>4 DEF Unhop, SetRadio, RadioStates
  <2> QED BY <1>4, <2>1, <2>2 DEF Unhop, QueueShapes, ThreadShapes, RestShapes, PointShapes
<1>5. CASE Arm(t)
  <2>1. PICK e \in cur[t] : /\ Insert({Event(Timer(e), "new", newIds, e.call)})
                            /\ Finish(t, e, TRUE)
    BY <1>5 DEF Arm
  <2>2. Moved
    BY <2>1, FinishShapes
  <2>3. PICK x : x = Event(Timer(e), "new", newIds, e.call)
    OBVIOUS
  <2>4. x \in EventSet
    BY <1>0, <2>3, TimerIsEvent DEF QueueShapes, RestShapes
  <2>5. events' \in SUBSET EventSet /\ IsFiniteSet(events') /\ stats' \in Counts
    BY <2>1, <2>3, <2>4, InsertShapes, FS_Singleton
  <2> QED BY <1>5, <2>2, <2>5 DEF Arm, QueueShapes, ThreadShapes, RestShapes, PointShapes
<1> QED BY <1>1, <1>2, <1>3, <1>4, <1>5

LEMMA CallShapes ==
    ASSUME Shapes, NEW c \in Calls, Call(c)
    PROVE  Shapes'
<1> USE DEF Shapes, queueVars, timeVars, callVars, threadVars, fixed
<1>1. CASE CallSchedule(c)
  <2>1. /\ Begin(c, "schedule")
        /\ LET ts == Plan[c].events
           IN  /\ left' = [left EXCEPT ![c] =
                               [i \in 1..Len(ts) |-> Event(ts[i], "new", newIds + i - 1, c)]]
               /\ newIds' = newIds + Len(ts)
    BY <1>1 DEF CallSchedule
  <2>2. PICK ts : ts = Plan[c].events
    OBVIOUS
  <2>3. ts \in Seq(Templates) /\ called' \subseteq Calls
    BY <2>1, <2>2, PlanOf
  <2>4. PICK es : es = [i \in 1..Len(ts) |-> Event(ts[i], "new", newIds + i - 1, c)]
    OBVIOUS
  <2>5. \A i \in 1..Len(ts) : Event(ts[i], "new", newIds + i - 1, c) \in EventSet
    BY <2>3 DEF Event, EventSet, QueueShapes
  <2>6. es \in Seq(EventSet)
    BY <2>3, <2>4, <2>5
  <2>7. left' \in [Calls -> Seq(EventSet)] /\ newIds' \in Nat
    <3>1. left' = [left EXCEPT ![c] = es]
      BY <2>1, <2>2, <2>4
    <3>2. newIds' = newIds + Len(ts) /\ Len(ts) \in Nat
      BY <2>1, <2>2, <2>3
    <3>3. left \in [Calls -> Seq(EventSet)] /\ newIds \in Nat
      BY DEF QueueShapes
    <3>4. left' \in [Calls -> Seq(EventSet)]
      BY <2>6, <3>1, <3>3
    <3> QED BY <3>2, <3>3, <3>4
  <2>8. firstId' \in [Calls -> Nat]
    BY <1>1 DEF CallSchedule, QueueShapes, RestShapes
  <2> QED BY <1>1, <2>3, <2>7, <2>8 DEF CallSchedule, QueueShapes, ThreadShapes, RestShapes
<1>2. CASE Push(c)
  <2>1. left[c] \in Seq(EventSet) /\ left[c] # <<>>
    BY <1>2 DEF Push, QueueShapes
  <2>2. Head(left[c]) \in EventSet /\ Tail(left[c]) \in Seq(EventSet)
    BY <2>1
  <2>3. PICK x : x = Head(left[c])
    OBVIOUS
  <2>4. events' \in SUBSET EventSet /\ IsFiniteSet(events') /\ stats' \in Counts
    BY <1>2, <2>2, <2>3, InsertShapes, FS_Singleton DEF Push
  <2>5. left' \in [Calls -> Seq(EventSet)]
    BY <1>2, <2>2 DEF Push, QueueShapes
  <2> QED BY <1>2, <2>4, <2>5 DEF Push, QueueShapes, ThreadShapes, RestShapes
<1>3. CASE CallCancel(c)
  <2>1. PICK es \in SUBSET events : Remove(es)
    BY <1>3 DEF CallCancel
  <2>2. events' \in SUBSET EventSet /\ IsFiniteSet(events') /\ stats' \in Counts
    BY <2>1, RemoveShapes
  <2>3. called' \subseteq Calls
    BY <1>3 DEF CallCancel, Begin, RestShapes
  <2> QED BY <1>3, <2>2, <2>3 DEF CallCancel, QueueShapes, ThreadShapes, RestShapes
<1>4. CASE CallCancelSource(c)
  <2>1. PICK es \in SUBSET events : Remove(es)
    BY <1>4 DEF CallCancelSource
  <2>2. events' \in SUBSET EventSet /\ IsFiniteSet(events') /\ stats' \in Counts
    BY <2>1, RemoveShapes
  <2>3. called' \subseteq Calls
    BY <1>4 DEF CallCancelSource, Begin, RestShapes
  <2>4. silenced' \subseteq Calls
    <3>1. \A e \in events : e.call \in Calls
      BY DEF QueueShapes, EventSet
    <3> QED BY <1>4, <3>1 DEF CallCancelSource, RestShapes
  <2> QED BY <1>4, <2>2, <2>3, <2>4 DEF CallCancelSource, QueueShapes, ThreadShapes, RestShapes
<1>5. CASE CallRun(c)
  <2>1. PICK t : /\ pc[t] = "off" /\ lag' = [lag EXCEPT ![t] = 0]
                 /\ pc' = IF running THEN pc ELSE [pc EXCEPT ![t] = "check"]
    BY <1>5 DEF CallRun
  <2>2. pc' \in [Threads -> Point] /\ \A u \in Threads : pc'[u] \in Holding <=> pc[u] \in Holding
    BY <2>1 DEF ThreadShapes, Point, Holding
  <2>3. lag' \in [Threads -> Nat]
    BY <2>1 DEF RestShapes
  <2>4. called' \subseteq Calls /\ running' \in BOOLEAN
    BY <1>5 DEF CallRun, Begin, RestShapes
  <2> QED BY <1>5, <2>2, <2>3, <2>4 DEF CallRun, QueueShapes, ThreadShapes, RestShapes
<1>6. CASE CallStop(c)
  BY <1>6 DEF CallStop, Begin, QueueShapes, ThreadShapes, RestShapes
<1>7. CASE CallTransition(c)
  <2>1. radio' \in RadioStates
    BY <1>7, TableOfStates DEF CallTransition, SetRadio, RestShapes
  <2>2. called' \subseteq Calls
    BY <1>7 DEF CallTransition, Begin, RestShapes
  <2> QED BY <1>7, <2>1, <2>2 DEF CallTransition, QueueShapes, ThreadShapes, RestShapes
<1> QED BY <1>1, <1>2, <1>3, <1>4, <1>5, <1>6, <1>7 DEF Call

LEMMA InitShapes == Init => Shapes
<1> SUFFICES ASSUME Init PROVE Shapes
  OBVIOUS
<1>1. left \in [Calls -> Seq(EventSet)]
  <2>1. <<>> \in Seq(EventSet)
    OBVIOUS
  <2> QED BY <2>1 DEF Init
<1>2. QueueShapes
  BY <1>1, FS_EmptySet DEF Init, QueueShapes, Counts
<1>3. ThreadShapes
  BY DEF Init, ThreadShapes, Holding, Point, RadioStates
<1>4. RestShapes
  BY DEF Init, RestShapes, RadioStates
<1> QED BY <1>2, <1>3, <1>4 DEF Shapes

LEMMA StepShapes == Shapes /\ [Next]_vars => Shapes'
<1> SUFFICES ASSUME Shapes, [Next]_vars PROVE Shapes'
  OBVIOUS
<1>1. ASSUME NEW t \in Threads, Thread(t) PROVE Shapes'
  BY <1>1, LoopShapes, EventShapes DEF Thread
<1>2. ASSUME NEW c \in Calls, Call(c) PROVE Shapes'
  BY <1>2, CallShapes
<1>3. CASE Tick
  <2>1. clock' \in Nat /\ lag' \in [Threads -> Nat]
    BY <1>3 DEF Tick, Shapes, RestShapes
  <2> QED BY <1>3, <2>1 DEF Tick, Shapes, QueueShapes, ThreadShapes, RestShapes, threadVars, queueVars,
                            callVars, fixed
<1>4. CASE UNCHANGED vars
  BY <1>4 DEF Shapes, QueueShapes, ThreadShapes, RestShapes, vars, threadVars, queueVars, timeVars,
              callVars, fixed
<1> QED BY <1>1, <1>2, <1>3, <1>4 DEF Next

LEMMA ShapesThenTypeOK == Shapes => TypeOK
<1> SUFFICES ASSUME Shapes PROVE TypeOK
  OBVIOUS
<1>1. \A e \in EventSet : IsEvent(e)
  BY DEF EventSet, IsEvent
<1>2. \A e \in events : IsEvent(e)
  BY <1>1 DEF Shapes, QueueShapes
<1>3. \A t \in Threads : \A e \in cur[t] \cup resched[t] : IsEvent(e)
  BY <1>1 DEF Shapes, QueueShapes, ThreadShapes
<1> QED BY <1>2, <1>3 DEF Shapes, QueueShapes, ThreadShapes, RestShapes, TypeOK, Holding

\* The types, for every scenario: among them that a thread holds an event
\* exactly between the pop and the end of its action.
THEOREM SchedulerTypes == Spec => []TypeOK
<1>1. Spec => []Shapes
  BY InitShapes, StepShapes, PTL DEF Spec
<1> QED BY <1>1, ShapesThenTypeOK, PTL

-----------------------------------------------------------------------------
(* Ids.  Two static counters are at work, so an event is known by its      *)
(* counter and its id.  Nothing outside the queue will be in it already    *)
(* when it is pushed.                                                      *)

EventIds == \A e \in events :
    /\ e.counter = "new"  => e.id < newIds
    /\ e.counter = "next" => e.id < nextIds

ReschedIds ==
    /\ \A t \in Threads : \A e \in resched[t] :
         e.counter = "next" /\ e.id < nextIds /\ e \notin events
    /\ \A t, u \in Threads : t # u => resched[t] \cap resched[u] = {}

LeftIds == \A c \in Calls : \A i \in 1..Len(left[c]) :
    /\ left[c][i].counter = "new" /\ left[c][i].id < newIds
    /\ left[c][i].call = c /\ left[c][i] \notin events
    /\ \A j \in 1..Len(left[c]) : i # j => left[c][i] # left[c][j]

Ids == EventIds /\ ReschedIds /\ LeftIds

\* A step that takes events away, adds some with fresh ids to the queue, and
\* some to the to_reschedule of a thread.
LEMMA GrowingIds ==
    ASSUME Shapes, Shapes', Ids, NEW xs, NEW ys, NEW t, Fresh(ys),
           events' \subseteq events \cup xs,
           \A x \in xs : x.counter = "new" /\ x.id >= newIds /\ x.id < newIds',
           newIds' >= newIds, UNCHANGED left,
           \A u \in Threads : resched'[u] \subseteq IF u = t THEN resched[u] \cup ys ELSE resched[u]
    PROVE  Ids'
<1>0. newIds \in Nat /\ newIds' \in Nat /\ nextIds \in Nat /\ nextIds' \in Nat /\ nextIds' >= nextIds
  BY DEF Shapes, QueueShapes, Fresh
<1>1. \A e \in EventSet : e.id \in Nat
  BY DEF EventSet
<1>2. \A e \in events : e \in EventSet
  BY DEF Shapes, QueueShapes
<1>3. EventIds'
  BY <1>0, <1>1, <1>2 DEF Ids, EventIds
<1>4. \A u \in Threads : \A e \in resched[u] : e \in EventSet
  BY DEF Shapes, QueueShapes
<1>5. \A y \in ys : y \in EventSet /\ y.counter = "next" /\ y.id >= nextIds /\ y.id < nextIds' /\ y \notin events
  BY <1>0, <1>1 DEF Fresh, Ids, EventIds
<1>6. \A y \in ys : \A u \in Threads : y \notin resched[u]
  BY <1>0, <1>1, <1>5 DEF Ids, ReschedIds
<1>7. ReschedIds'
  <2>1. ASSUME NEW u \in Threads, NEW e \in resched'[u]
        PROVE  e.counter = "next" /\ e.id < nextIds' /\ e \notin events'
    <3>1. e \in resched[u] \/ e \in ys
      OBVIOUS
    <3>2. e.counter = "next" /\ e.id < nextIds' /\ e \notin events
      BY <1>0, <1>1, <1>4, <1>5, <3>1 DEF Ids, ReschedIds
    <3> QED BY <3>2
  <2>2. ASSUME NEW u \in Threads, NEW w \in Threads, u # w
        PROVE  resched'[u] \cap resched'[w] = {}
    <3>1. resched[u] \cap resched[w] = {}
      BY <2>2 DEF Ids, ReschedIds
    <3> QED BY <1>6, <2>2, <3>1
  <2> QED BY <2>1, <2>2 DEF ReschedIds
<1>8. LeftIds'
  <2>1. ASSUME NEW c \in Calls, NEW i \in 1..Len(left[c])
        PROVE  left[c][i] \notin events' /\ left[c][i].id < newIds'
    <3>1. left[c][i] \in EventSet
      BY DEF Shapes, QueueShapes
    <3>2. left[c][i].id < newIds /\ left[c][i] \notin events
      BY DEF Ids, LeftIds
    <3> QED BY <1>0, <1>1, <3>1, <3>2
  <2> QED BY <2>1 DEF Ids, LeftIds
<1> QED BY <1>3, <1>7, <1>8 DEF Ids

\* With nothing new.
LEMMA ShrinkingIds ==
    ASSUME Shapes, Shapes', Ids, events' \subseteq events, UNCHANGED <<newIds, nextIds, left, resched>>
    PROVE  Ids'
<1>1. Fresh({})
  BY FS_EmptySet DEF Fresh, Shapes, QueueShapes
<1>2. newIds' >= newIds
  BY DEF Shapes, QueueShapes
<1> QED BY <1>1, <1>2, GrowingIds

\* What a step puts into the queue besides.
Added(xs) ==
    /\ events' \subseteq events \cup xs /\ newIds' >= newIds /\ UNCHANGED left
    /\ \A x \in xs : x.counter = "new" /\ x.id >= newIds /\ x.id < newIds'

LEMMA FinishIds ==
    ASSUME Shapes, Shapes', Ids, NEW t \in Threads, NEW e \in cur[t], NEW ok \in BOOLEAN,
           Finish(t, e, ok), NEW xs, Added(xs)
    PROVE  Ids'
<1>1. PICK ys : Fresh(ys) /\ resched' = [resched EXCEPT ![t] = @ \cup ys]
  BY Finished
<1>2. \A u \in Threads : resched'[u] \subseteq IF u = t THEN resched[u] \cup ys ELSE resched[u]
  BY <1>1 DEF Shapes, QueueShapes
<1> QED BY <1>1, <1>2, GrowingIds DEF Added

LEMMA ThreadIds ==
    ASSUME Shapes, Shapes', Ids, NEW t \in Threads, Thread(t)
    PROVE  Ids'
<1> USE DEF queueVars, callVars
<1>0. newIds \in Nat
  BY DEF Shapes, QueueShapes
<1>1. CASE Check(t) \/ PopNothing(t) \/ Doze(t) \/ Wake(t) \/ Pop(t)
  BY <1>1, ShrinkingIds DEF Check, Checked, PopNothing, Doze, Sleeping, Wake, Pop
<1>2. CASE Guard(t) \/ Load(t) \/ Cas(t) \/ Unhop(t)
  <2>1. UNCHANGED <<events, newIds, left>>
    BY <1>2 DEF Guard, Load, Cas, Exchange, Unhop
  <2>2. \/ \E e \in cur[t] : \E ok \in BOOLEAN : Finish(t, e, ok)
        \/ UNCHANGED <<resched, nextIds>>
    <3>1. CASE Guard(t)
      BY <3>1 DEF Guard
    <3>2. CASE Load(t)
      BY <3>2 DEF Load
    <3>3. CASE Cas(t)
      <4>1. PICK e \in cur[t] :
              \/ Finish(t, e, TRUE) \/ Finish(t, e, FALSE)
              \/ UNCHANGED <<resched, nextIds>>
        BY <3>3 DEF Cas, Exchange, SetRadio
      <4>2. TRUE \in BOOLEAN /\ FALSE \in BOOLEAN
        OBVIOUS
      <4> QED BY <4>1, <4>2, Zenon
    <3>4. CASE Unhop(t)
      BY <3>4 DEF Unhop
    <3> QED BY <1>2, <3>1, <3>2, <3>3, <3>4
  <2>3. CASE UNCHANGED <<resched, nextIds>>
    BY <2>1, <2>3, ShrinkingIds
  <2>4. CASE \E e \in cur[t] : \E ok \in BOOLEAN : Finish(t, e, ok)
    <3>1. PICK e \in cur[t], ok \in BOOLEAN : Finish(t, e, ok)
      BY <2>4
    <3>2. Added({})
      BY <1>0, <2>1 DEF Added
    <3> QED BY <3>1, <3>2, FinishIds
  <2> QED BY <2>2, <2>3, <2>4
<1>3. CASE Arm(t)
  <2>1. PICK e \in cur[t] : /\ events' = events \cup {Event(Timer(e), "new", newIds, e.call)}
                            /\ Finish(t, e, TRUE)
    BY <1>3 DEF Arm, Insert
  <2>2. PICK x : x = Event(Timer(e), "new", newIds, e.call)
    OBVIOUS
  <2>3. x.counter = "new" /\ x.id = newIds
    BY <2>2 DEF Event
  <2>4. newIds' = newIds + 1 /\ UNCHANGED left
    BY <1>3 DEF Arm
  <2>5. events' \subseteq events \cup {x}
    BY <2>1, <2>2
  <2>6. \A y \in {x} : y.counter = "new" /\ y.id >= newIds /\ y.id < newIds'
    BY <1>0, <2>3, <2>4
  <2>7. newIds' >= newIds
    BY <1>0, <2>4
  <2>8. Added({x})
    BY <2>4, <2>5, <2>6, <2>7 DEF Added
  <2>9. PICK ok \in BOOLEAN : Finish(t, e, ok)
    BY <2>1, Zenon
  <2> QED BY <2>8, <2>9, FinishIds
<1>4. CASE Reschedule(t)
  <2>1. /\ events' = events \cup resched[t] /\ resched' = [resched EXCEPT ![t] = {}]
        /\ UNCHANGED <<newIds, nextIds, left>>
    BY <1>4 DEF Reschedule, Insert
  <2>2. EventIds'
    BY <2>1 DEF Ids, EventIds, ReschedIds
  <2>3. ReschedIds'
    BY <2>1 DEF Ids, ReschedIds, Shapes, QueueShapes
  <2>4. LeftIds'
    BY <2>1 DEF Ids, ReschedIds, LeftIds
  <2> QED BY <2>2, <2>3, <2>4 DEF Ids
<1> QED BY <1>1, <1>2, <1>3, <1>4 DEF Thread

LEMMA CallIds ==
    ASSUME Shapes, Shapes', Ids, NEW c \in Calls, Call(c)
    PROVE  Ids'
<1> USE DEF queueVars, callVars, threadVars
<1>0. newIds \in Nat
  BY DEF Shapes, QueueShapes
<1>1. CASE CallCancel(c) \/ CallCancelSource(c) \/ CallRun(c) \/ CallStop(c) \/ CallTransition(c)
  BY <1>1, ShrinkingIds DEF CallCancel, CallCancelSource, CallRun, CallStop, CallTransition, Remove
<1>2. CASE CallSchedule(c)
  <2>1. PICK ts : ts = Plan[c].events
    OBVIOUS
  <2>2. ts \in Seq(Templates)
    BY <1>2, <2>1, PlanOf DEF CallSchedule
  <2>3. /\ left' = [left EXCEPT ![c] = [i \in 1..Len(ts) |-> Event(ts[i], "new", newIds + i - 1, c)]]
        /\ newIds' = newIds + Len(ts) /\ UNCHANGED <<events, resched, nextIds>>
    BY <1>2, <2>1 DEF CallSchedule
  <2>4. EventIds'
    BY <1>0, <2>2, <2>3 DEF Ids, EventIds, Shapes, QueueShapes, EventSet
  <2>5. ReschedIds'
    BY <2>3 DEF Ids, ReschedIds
  <2>6. left'[c] = [i \in 1..Len(ts) |-> Event(ts[i], "new", newIds + i - 1, c)]
    BY <2>3 DEF Shapes, QueueShapes
  <2>7. Len(left'[c]) = Len(ts)
    BY <2>2, <2>6
  <2>8. \A i \in 1..Len(ts) : /\ left'[c][i].counter = "new" /\ left'[c][i].call = c
                              /\ left'[c][i].id = newIds + i - 1
    BY <2>6 DEF Event
  <2>9. \A e \in events : e.counter = "new" => e.id < newIds
    BY DEF Ids, EventIds
  <2>10. ASSUME NEW d \in Calls, NEW i \in 1..Len(left[d]) PROVE left[d][i].id \in Nat
    <3>1. left[d][i] \in EventSet
      BY DEF Shapes, QueueShapes
    <3> QED BY <3>1 DEF EventSet
  <2>11. ASSUME NEW i \in 1..Len(left'[c])
         PROVE  /\ left'[c][i].counter = "new" /\ left'[c][i].id < newIds'
                /\ left'[c][i].call = c /\ left'[c][i] \notin events
                /\ \A j \in 1..Len(left'[c]) : i # j => left'[c][i] # left'[c][j]
    <3>1. Len(ts) \in Nat
      BY <2>2
    <3>2. left'[c][i] \notin events
      <4>1. left'[c][i].counter = "new" /\ ~(left'[c][i].id < newIds)
        BY <1>0, <2>7, <2>8, <3>1
      <4> QED BY <2>9, <4>1
    <3>3. ASSUME NEW j \in 1..Len(left'[c]), i # j PROVE left'[c][i] # left'[c][j]
      <4>1. left'[c][i].id # left'[c][j].id
        BY <1>0, <2>7, <2>8, <3>1, <3>3
      <4> QED BY <4>1
    <3> QED BY <1>0, <2>3, <2>7, <2>8, <3>1, <3>2, <3>3
  <2>12. ASSUME NEW d \in Calls, d # c PROVE left'[d] = left[d]
    BY <2>3, <2>12 DEF Shapes, QueueShapes
  <2>13. \A k \in Nat : k < newIds => k < newIds'
    BY <1>0, <2>2, <2>3
  <2>14. ASSUME NEW d \in Calls, NEW i \in 1..Len(left'[d])
         PROVE  /\ left'[d][i].counter = "new" /\ left'[d][i].id < newIds'
                /\ left'[d][i].call = d /\ left'[d][i] \notin events'
                /\ \A j \in 1..Len(left'[d]) : i # j => left'[d][i] # left'[d][j]
    <3>1. CASE d = c
      <4>1. i \in 1..Len(left'[c])
        BY <3>1
      <4>2. /\ left'[c][i].counter = "new" /\ left'[c][i].id < newIds'
            /\ left'[c][i].call = c /\ left'[c][i] \notin events
            /\ \A j \in 1..Len(left'[c]) : i # j => left'[c][i] # left'[c][j]
        BY <2>11, <4>1
      <4>3. events' = events
        BY <2>3
      <4> QED BY <3>1, <4>2, <4>3
    <3>2. CASE d # c
      <4>1. left'[d] = left[d] /\ i \in 1..Len(left[d])
        BY <2>12, <3>2
      <4>2. /\ left[d][i].counter = "new" /\ left[d][i].id < newIds
            /\ left[d][i].call = d /\ left[d][i] \notin events
            /\ \A j \in 1..Len(left[d]) : i # j => left[d][i] # left[d][j]
        BY <4>1 DEF Ids, LeftIds
      <4>3. left[d][i].id < newIds'
        BY <2>10, <2>13, <4>1, <4>2
      <4>4. \A j \in 1..Len(left'[d]) : i # j => left'[d][i] # left'[d][j]
        BY <4>1, <4>2
      <4>5. events' = events
        BY <2>3
      <4> QED BY <4>1, <4>2, <4>3, <4>4, <4>5
    <3> QED BY <3>1, <3>2
  <2>15. LeftIds'
    BY <2>14 DEF LeftIds
  <2> QED BY <2>4, <2>5, <2>15 DEF Ids
<1>3. CASE Push(c)
  <2>1. PICK x : x = Head(left[c])
    OBVIOUS
  <2>2. /\ left[c] # <<>> /\ events' = events \cup {x} /\ left' = [left EXCEPT ![c] = Tail(@)]
        /\ UNCHANGED <<newIds, nextIds, resched>>
    BY <1>3, <2>1 DEF Push, Insert
  <2>3. left[c] \in Seq(EventSet)
    BY DEF Shapes, QueueShapes
  <2>4. x = left[c][1] /\ 1 \in 1..Len(left[c])
    BY <2>1, <2>2, <2>3
  <2>5. x.counter = "new" /\ x.id < newIds /\ x.call = c
    BY <2>4 DEF Ids, LeftIds
  <2>6. EventIds'
    BY <2>2, <2>5 DEF Ids, EventIds
  <2>7. ReschedIds'
    BY <2>2, <2>5 DEF Ids, ReschedIds
  <2>8. left'[c] = Tail(left[c])
    BY <2>2 DEF Shapes, QueueShapes
  <2>9. /\ Len(left'[c]) = Len(left[c]) - 1 /\ Len(left[c]) \in Nat
        /\ \A i \in 1..Len(left'[c]) : left'[c][i] = left[c][i + 1]
    <3>1. PICK s : s = left[c]
      OBVIOUS
    <3>2. s \in Seq(EventSet) /\ s # <<>>
      BY <2>2, <2>3, <3>1
    <3>3. Len(Tail(s)) = Len(s) - 1 /\ Len(s) \in Nat
      BY <3>2
    <3>4. \A i \in 1..Len(Tail(s)) : Tail(s)[i] = s[i + 1]
      BY <3>2
    <3> QED BY <2>8, <3>1, <3>3, <3>4
  <2>10. ASSUME NEW d \in Calls, d # c PROVE left'[d] = left[d]
    BY <2>2, <2>10 DEF Shapes, QueueShapes
  <2>11. ASSUME NEW d \in Calls, NEW i \in 1..Len(left'[d])
         PROVE  /\ left'[d][i].counter = "new" /\ left'[d][i].id < newIds
                /\ left'[d][i].call = d /\ left'[d][i] \notin events'
                /\ \A j \in 1..Len(left'[d]) : i # j => left'[d][i] # left'[d][j]
    <3>1. CASE d = c
      <4>1. i + 1 \in 1..Len(left[c]) /\ left'[c][i] = left[c][i + 1] /\ i + 1 # 1
        BY <2>9, <3>1
      <4>2. left[c][i + 1] # x
        BY <2>4, <4>1 DEF Ids, LeftIds
      <4>3. ASSUME NEW j \in 1..Len(left'[c]), i # j PROVE left'[c][i] # left'[c][j]
        <5>1. j + 1 \in 1..Len(left[c]) /\ left'[c][j] = left[c][j + 1] /\ i + 1 # j + 1
          BY <2>9, <3>1, <4>3
        <5> QED BY <4>1, <5>1 DEF Ids, LeftIds
      <4> QED BY <2>2, <3>1, <4>1, <4>2, <4>3 DEF Ids, LeftIds
    <3>2. CASE d # c
      <4>1. left[d][i] # x
        BY <2>5, <2>10, <3>2 DEF Ids, LeftIds
      <4> QED BY <2>2, <2>10, <3>2, <4>1 DEF Ids, LeftIds
    <3> QED BY <3>1, <3>2
  <2>12. LeftIds'
    BY <2>2, <2>11 DEF LeftIds
  <2> QED BY <2>6, <2>7, <2>12 DEF Ids
<1> QED BY <1>1, <1>2, <1>3 DEF Call

-----------------------------------------------------------------------------
(* The counts *)

AtGuard == {t \in Threads : pc[t] = "guard"}

LEMMA Sizes ==
    ASSUME Shapes
    PROVE  /\ IsFiniteSet(events) /\ Cardinality(events) \in Nat
           /\ IsFiniteSet(AtGuard) /\ Cardinality(AtGuard) \in Nat
<1>1. IsFiniteSet(AtGuard)
  BY TimesAssumption, FS_Subset DEF AtGuard
<1> QED BY <1>1, FS_CardinalityType DEF Shapes, QueueShapes

\* Nothing moves between the queue, the guard and the counts.
LEMMA QuietBalance ==
    ASSUME Balanced, UNCHANGED <<events, stats>>, AtGuard' = AtGuard
    PROVE  Balanced'
  BY DEF Balanced, AtGuard

LEMMA InsertBalance ==
    ASSUME Shapes, Balanced, NEW es, IsFiniteSet(es), es \cap events = {}, Insert(es), AtGuard' = AtGuard
    PROVE  Balanced'
<1>1. Cardinality(es) \in Nat
  BY FS_CardinalityType
<1>2. Cardinality(events') = Cardinality(events) + Cardinality(es)
  <2>1. Cardinality(events \cap es) = 0
    <3>1. events \cap es = {}
      OBVIOUS
    <3> QED BY <3>1, FS_EmptySet
  <2>2. Cardinality(events \cup es) = Cardinality(events) + Cardinality(es) - Cardinality(events \cap es)
    BY Sizes, FS_Union
  <2> QED BY <1>1, <2>1, <2>2, Sizes DEF Insert
<1>3. /\ stats'.scheduled = stats.scheduled + Cardinality(es)
      /\ stats'.executed = stats.executed /\ stats'.missed = stats.missed
      /\ stats'.blocked = stats.blocked /\ stats'.cancelled = stats.cancelled
  BY DEF Insert, Shapes, QueueShapes, Counts
<1>4. /\ stats.scheduled \in Nat /\ stats.executed \in Nat /\ stats.missed \in Nat
      /\ stats.blocked \in Nat /\ stats.cancelled \in Nat
  BY DEF Shapes, QueueShapes, Counts
<1>5. stats'.scheduled = Cardinality(events') + Cardinality(AtGuard')
                      + stats'.executed + stats'.missed + stats'.blocked + stats'.cancelled
  <2>1. stats.scheduled = Cardinality(events) + Cardinality(AtGuard)
                      + stats.executed + stats.missed + stats.blocked + stats.cancelled
    BY DEF Balanced, AtGuard
  <2> QED BY <1>1, <1>2, <1>3, <1>4, <2>1, Sizes
<1> QED BY <1>5 DEF Balanced, AtGuard

LEMMA RemoveBalance ==
    ASSUME Shapes, Balanced, NEW es \in SUBSET events, Remove(es), AtGuard' = AtGuard
    PROVE  Balanced'
<1>1. IsFiniteSet(es) /\ Cardinality(es) \in Nat
  BY Sizes, FS_Subset, FS_CardinalityType
<1>2. Cardinality(events') = Cardinality(events) - Cardinality(es)
  <2>1. events \cap es = es
    OBVIOUS
  <2> QED BY <2>1, Sizes, FS_Difference, ZenonT(40) DEF Remove
<1>3. /\ stats'.cancelled = stats.cancelled + Cardinality(es)
      /\ stats'.executed = stats.executed /\ stats'.missed = stats.missed
      /\ stats'.blocked = stats.blocked /\ stats'.scheduled = stats.scheduled
  BY DEF Remove, Shapes, QueueShapes, Counts
<1>4. /\ stats.scheduled \in Nat /\ stats.executed \in Nat /\ stats.missed \in Nat
      /\ stats.blocked \in Nat /\ stats.cancelled \in Nat
  BY DEF Shapes, QueueShapes, Counts
<1> QED BY <1>1, <1>2, <1>3, <1>4, Sizes DEF Balanced, AtGuard

LEMMA PopBalance ==
    ASSUME Shapes, Balanced, NEW t \in Threads, Pop(t)
    PROVE  Balanced'
<1>1. PICK e \in events : events' = events \ {e} /\ pc' = [pc EXCEPT ![t] = "guard"] /\ pc[t] = "pop"
  BY DEF Pop, Due, Goto
<1>2. Cardinality(events') = Cardinality(events) - 1
  BY <1>1, Sizes, FS_RemoveElement
<1>3. AtGuard' = AtGuard \cup {t} /\ t \notin AtGuard
  BY <1>1 DEF AtGuard, Shapes, ThreadShapes
<1>4. Cardinality(AtGuard') = Cardinality(AtGuard) + 1
  BY <1>3, Sizes, FS_AddElement
<1>5. UNCHANGED stats
  BY DEF Pop
<1>6. /\ stats.scheduled \in Nat /\ stats.executed \in Nat /\ stats.missed \in Nat
      /\ stats.blocked \in Nat /\ stats.cancelled \in Nat
  BY DEF Shapes, QueueShapes, Counts
<1> QED BY <1>2, <1>4, <1>5, <1>6, Sizes DEF Balanced, AtGuard

LEMMA GuardBalance ==
    ASSUME Shapes, Balanced, NEW t \in Threads, Guard(t)
    PROVE  Balanced'
<1>0. /\ stats.scheduled \in Nat /\ stats.executed \in Nat /\ stats.missed \in Nat
      /\ stats.blocked \in Nat /\ stats.cancelled \in Nat
  BY DEF Shapes, QueueShapes, Counts
<1>1. PICK e \in cur[t] :
        CASE ~GuardPasses(e, radio) ->
               /\ stats' = [stats EXCEPT !.blocked = @ + 1]
               /\ Finish(t, e, FALSE)
          [] GuardPasses(e, radio) /\ passNow[t] - e.template.deadline > Tolerance ->
               /\ stats' = [stats EXCEPT !.missed = @ + 1]
               /\ Finish(t, e, FALSE)
          [] OTHER ->
               /\ stats' = [stats EXCEPT !.executed = @ + 1]
               /\ Goto(t, "act")
               /\ UNCHANGED <<cur, resched, nextIds>>
  BY DEF Guard
<1>2. /\ \E p \in {"pop", "act"} : pc' = [pc EXCEPT ![t] = p]
      /\ \/ stats' = [stats EXCEPT !.blocked = @ + 1]
         \/ stats' = [stats EXCEPT !.missed = @ + 1]
         \/ stats' = [stats EXCEPT !.executed = @ + 1]
  <2>1. CASE ~GuardPasses(e, radio)
    BY <1>1, <2>1 DEF Finish, Goto
  <2>2. CASE GuardPasses(e, radio) /\ passNow[t] - e.template.deadline > Tolerance
    BY <1>1, <2>2 DEF Finish, Goto
  <2>3. CASE GuardPasses(e, radio) /\ ~(passNow[t] - e.template.deadline > Tolerance)
    BY <1>1, <2>3 DEF Goto
  <2> QED BY <2>1, <2>2, <2>3
<1>3. AtGuard' = AtGuard \ {t} /\ t \in AtGuard
  BY <1>2 DEF Guard, AtGuard, Shapes, ThreadShapes
<1>4. Cardinality(AtGuard') = Cardinality(AtGuard) - 1
  BY <1>3, Sizes, FS_RemoveElement
<1>5. /\ stats'.scheduled = stats.scheduled /\ stats'.cancelled = stats.cancelled
      /\ stats'.executed + stats'.missed + stats'.blocked = stats.executed + stats.missed + stats.blocked + 1
      /\ stats'.executed \in Nat /\ stats'.missed \in Nat /\ stats'.blocked \in Nat
  <2>1. CASE stats' = [stats EXCEPT !.blocked = @ + 1]
    <3>1. /\ stats'.blocked = stats.blocked + 1 /\ stats'.executed = stats.executed /\ stats'.missed = stats.missed
          /\ stats'.scheduled = stats.scheduled /\ stats'.cancelled = stats.cancelled
      BY <2>1 DEF Shapes, QueueShapes, Counts
    <3> QED BY <1>0, <3>1
  <2>2. CASE stats' = [stats EXCEPT !.missed = @ + 1]
    <3>1. /\ stats'.missed = stats.missed + 1 /\ stats'.executed = stats.executed /\ stats'.blocked = stats.blocked
          /\ stats'.scheduled = stats.scheduled /\ stats'.cancelled = stats.cancelled
      BY <2>2 DEF Shapes, QueueShapes, Counts
    <3> QED BY <1>0, <3>1
  <2>3. CASE stats' = [stats EXCEPT !.executed = @ + 1]
    <3>1. /\ stats'.executed = stats.executed + 1 /\ stats'.missed = stats.missed /\ stats'.blocked = stats.blocked
          /\ stats'.scheduled = stats.scheduled /\ stats'.cancelled = stats.cancelled
      BY <2>3 DEF Shapes, QueueShapes, Counts
    <3> QED BY <1>0, <3>1
  <2> QED BY <1>2, <2>1, <2>2, <2>3
<1>6. UNCHANGED events
  BY DEF Guard
<1> QED BY <1>0, <1>4, <1>5, <1>6, Sizes DEF Balanced, AtGuard

LEMMA StepBalance ==
    ASSUME Shapes, Ids, Balanced, [Next]_vars
    PROVE  Balanced'
<1> USE DEF queueVars, callVars, threadVars, fixed, timeVars
<1>1. ASSUME NEW t \in Threads, Thread(t) PROVE Balanced'
  <2>1. CASE Pop(t)
    BY <2>1, PopBalance
  <2>2. CASE Guard(t)
    BY <2>2, GuardBalance
  <2>3. CASE ~Pop(t) /\ ~Guard(t)
    <3>1. pc[t] # "guard" /\ \E p \in Point \ {"guard"} : pc' = [pc EXCEPT ![t] = p]
      <4>1. CASE Check(t) \/ PopNothing(t) \/ Doze(t) \/ Wake(t) \/ Reschedule(t)
        BY <4>1 DEF Check, Checked, PopNothing, Doze, Sleeping, Wake, Reschedule, Goto, Point
      <4>2. CASE Load(t)
        BY <4>2 DEF Load, Finish, Goto, Point
      <4>3. CASE Cas(t)
        BY <4>3 DEF Cas, Exchange, Finish, Goto, Point
      <4>4. CASE Unhop(t) \/ Arm(t)
        BY <4>4 DEF Unhop, Arm, Finish, Goto, Point
      <4> QED BY <1>1, <2>3, <4>1, <4>2, <4>3, <4>4 DEF Thread
    <3>2. AtGuard' = AtGuard
      BY <3>1 DEF AtGuard, Shapes, ThreadShapes
    <3>3. CASE Check(t) \/ PopNothing(t) \/ Doze(t) \/ Wake(t) \/ Load(t) \/ Cas(t) \/ Unhop(t)
      <4>1. UNCHANGED <<events, stats>>
        BY <3>3 DEF Check, Checked, PopNothing, Doze, Sleeping, Wake, Load, Cas, Exchange, Unhop
      <4> QED BY <3>2, <4>1, QuietBalance
    <3>4. CASE Reschedule(t)
      <4>1. PICK es : es = resched[t]
        OBVIOUS
      <4>2. IsFiniteSet(es) /\ es \cap events = {} /\ Insert(es)
        BY <3>4, <4>1 DEF Reschedule, Shapes, QueueShapes, Ids, ReschedIds
      <4> QED BY <3>2, <4>2, InsertBalance
    <3>5. CASE Arm(t)
      <4>1. PICK e \in cur[t] : Insert({Event(Timer(e), "new", newIds, e.call)})
        BY <3>5 DEF Arm
      <4>2. PICK x : x = Event(Timer(e), "new", newIds, e.call)
        OBVIOUS
      <4>3. x.counter = "new" /\ x.id = newIds /\ newIds \in Nat
        BY <4>2 DEF Event, Shapes, QueueShapes
      <4>4. x \notin events
        BY <4>3 DEF Ids, EventIds
      <4>5. IsFiniteSet({x}) /\ {x} \cap events = {} /\ Insert({x})
        BY <4>1, <4>2, <4>4, FS_Singleton
      <4> QED BY <3>2, <4>5, InsertBalance
    <3> QED BY <1>1, <2>3, <3>3, <3>4, <3>5 DEF Thread
  <2> QED BY <2>1, <2>2, <2>3
<1>2. ASSUME NEW c \in Calls, Call(c) PROVE Balanced'
  <2>1. CASE CallRun(c)
    <3>1. PICK t : pc[t] = "off" /\ pc' = IF running THEN pc ELSE [pc EXCEPT ![t] = "check"]
      BY <2>1 DEF CallRun
    <3>2. AtGuard' = AtGuard
      BY <3>1 DEF AtGuard, Shapes, ThreadShapes
    <3> QED BY <2>1, <3>2, QuietBalance DEF CallRun
  <2>2. CASE CallSchedule(c) \/ CallStop(c) \/ CallTransition(c)
    <3>1. UNCHANGED <<events, stats, pc>>
      BY <2>2 DEF CallSchedule, CallStop, CallTransition
    <3> QED BY <3>1, QuietBalance DEF AtGuard
  <2>3. CASE CallCancel(c) \/ CallCancelSource(c)
    <3>1. PICK es \in SUBSET events : Remove(es)
      BY <2>3 DEF CallCancel, CallCancelSource
    <3>2. UNCHANGED pc
      BY <2>3 DEF CallCancel, CallCancelSource
    <3> QED BY <3>1, <3>2, RemoveBalance DEF AtGuard
  <2>4. CASE Push(c)
    <3>1. PICK x : x = Head(left[c])
      OBVIOUS
    <3>2. left[c] \in Seq(EventSet) /\ left[c] # <<>> /\ Insert({x}) /\ UNCHANGED pc
      BY <2>4, <3>1 DEF Push, Shapes, QueueShapes
    <3>3. x = left[c][1] /\ 1 \in 1..Len(left[c])
      BY <3>1, <3>2
    <3>4. IsFiniteSet({x}) /\ {x} \cap events = {}
      <4>1. x \notin events
        BY <3>3 DEF Ids, LeftIds
      <4> QED BY <4>1, FS_Singleton
    <3> QED BY <3>2, <3>4, InsertBalance DEF AtGuard
  <2> QED BY <1>2, <2>1, <2>2, <2>3, <2>4 DEF Call
<1>3. CASE Tick
  BY <1>3, QuietBalance DEF Tick, AtGuard
<1>4. CASE UNCHANGED vars
  BY <1>4, QuietBalance DEF vars, AtGuard
<1> QED BY <1>1, <1>2, <1>3, <1>4 DEF Next

LEMMA InitBalance == Init => Ids /\ Balanced
<1> SUFFICES ASSUME Init PROVE Ids /\ Balanced
  OBVIOUS
<1>1. Ids
  BY DEF Init, Ids, EventIds, ReschedIds, LeftIds
<1>2. AtGuard = {}
  BY DEF Init, AtGuard
<1>3. Cardinality(events) = 0 /\ Cardinality(AtGuard) = 0
  BY <1>2, FS_EmptySet DEF Init
<1>4. /\ stats.scheduled = 0 /\ stats.executed = 0 /\ stats.missed = 0
      /\ stats.blocked = 0 /\ stats.cancelled = 0
  BY DEF Init
<1>5. Balanced
  BY <1>3, <1>4 DEF Balanced, AtGuard
<1> QED BY <1>1, <1>5

LEMMA StepIds ==
    ASSUME Shapes, Ids, [Next]_vars
    PROVE  Ids'
<1>0. Shapes'
  BY StepShapes
<1>1. CASE Tick \/ UNCHANGED vars
  BY <1>0, <1>1, ShrinkingIds DEF Tick, vars, threadVars, queueVars, callVars
<1> QED BY <1>0, <1>1, ThreadIds, CallIds DEF Next

\* No event is lost or counted twice, whatever the threads do to the queue at
\* the same time: what was scheduled waits in the queue, was cancelled, or was
\* popped and then executed, dropped late or dropped by its guard.
THEOREM SchedulerBalanced == Spec => []Balanced
<1>1. Init => Shapes /\ Ids /\ Balanced
  BY InitShapes, InitBalance
<1>2. Shapes /\ Ids /\ Balanced /\ [Next]_vars => (Shapes /\ Ids /\ Balanced)'
  BY StepShapes, StepIds, StepBalance
<1> QED BY <1>1, <1>2, PTL DEF Spec

-----------------------------------------------------------------------------
(* What the events are.  A scenario whose templates are of some kind makes *)
(* events of that kind only, if repetitions and the ends of turnarounds    *)
(* are of it as well.                                                      *)

AllIn(K) ==
    /\ \A e \in events : e.template \in K
    /\ \A t \in Threads : \A e \in cur[t] \cup resched[t] : e.template \in K
    /\ \A c \in Calls : \A i \in 1..Len(left[c]) : left[c][i].template \in K

Repetition(tm) == [tm EXCEPT !.deadline = @ + tm.repeat]

TimersIn(K) == \A e \in EventSet : Timer(e) \in K

AsksFor(K) ==
    \A c \in DOMAIN Plan : Plan[c].op = "schedule" =>
        \A i \in 1..Len(Plan[c].events) : Plan[c].events[i] \in K

LEMMA FinishKind ==
    ASSUME Shapes, NEW K, \A tm \in K : Repetition(tm) \in K, AllIn(K),
           NEW t \in Threads, NEW e \in cur[t], NEW ok \in BOOLEAN, Finish(t, e, ok)
    PROVE  \A u \in Threads : \A x \in cur'[u] \cup resched'[u] : x.template \in K
<1>1. cur' = [cur EXCEPT ![t] = {}] /\ cur \in [Threads -> SUBSET EventSet]
  BY DEF Finish, Shapes, ThreadShapes
<1>2. PICK next : next = Next1(e)
  OBVIOUS
<1>3. e.template \in K
  BY DEF AllIn
<1>4. next.template \in K
  BY <1>2, <1>3 DEF Next1, Event, Repetition
<1>5. \E zs \in SUBSET {next} : resched' = [resched EXCEPT ![t] = @ \cup zs]
  <2>1. CASE ok /\ e.template.repeat > 0
    <3>1. resched' = [resched EXCEPT ![t] = @ \cup {next}]
      BY <1>2, <2>1 DEF Finish, Next1
    <3> QED BY <3>1
  <2>2. CASE ~(ok /\ e.template.repeat > 0)
    <3>1. resched' = [resched EXCEPT ![t] = @ \cup {}]
      BY <2>2 DEF Finish
    <3> QED BY <3>1
  <2> QED BY <2>1, <2>2
<1>6. ASSUME NEW u \in Threads, NEW x \in cur'[u] \cup resched'[u] PROVE x.template \in K
  <2>1. x \in cur[u] \cup resched[u] \cup {next}
    BY <1>1, <1>5 DEF Shapes, QueueShapes
  <2> QED BY <1>4, <2>1 DEF AllIn
<1> QED BY <1>6

LEMMA ThreadKind ==
    ASSUME Shapes, NEW K, \A tm \in K : Repetition(tm) \in K, TimersIn(K), AllIn(K),
           NEW t \in Threads, Thread(t)
    PROVE  AllIn(K)'
<1> USE DEF queueVars, callVars
<1>1. CASE Check(t) \/ PopNothing(t) \/ Doze(t) \/ Wake(t)
  <2>1. UNCHANGED <<events, cur, resched, left>>
    BY <1>1 DEF Check, Checked, PopNothing, Doze, Sleeping, Wake
  <2> QED BY <2>1 DEF AllIn
<1>2. CASE Pop(t)
  <2>1. PICK e \in events : /\ events' = events \ {e} /\ cur' = [cur EXCEPT ![t] = {e}]
                            /\ UNCHANGED <<resched, left>>
    BY <1>2 DEF Pop, Due
  <2>2. \A u \in Threads : cur'[u] \subseteq cur[u] \cup {e}
    BY <2>1 DEF Shapes, ThreadShapes
  <2> QED BY <2>1, <2>2 DEF AllIn
<1>3. CASE Reschedule(t)
  <2>1. /\ events' = events \cup resched[t] /\ resched' = [resched EXCEPT ![t] = {}]
        /\ UNCHANGED <<cur, left>>
    BY <1>3 DEF Reschedule, Insert
  <2>2. \A u \in Threads : resched'[u] \subseteq resched[u]
    BY <2>1 DEF Shapes, QueueShapes
  <2> QED BY <2>1, <2>2 DEF AllIn
<1>4. CASE Guard(t) \/ Load(t) \/ Cas(t) \/ Unhop(t)
  <2>1. UNCHANGED <<events, left>>
    BY <1>4 DEF Guard, Load, Cas, Exchange, Unhop
  <2>2. \/ \E e \in cur[t] : Finish(t, e, TRUE) \/ Finish(t, e, FALSE)
        \/ UNCHANGED <<cur, resched>>
    <3>1. CASE Guard(t)
      BY <3>1 DEF Guard
    <3>2. CASE Load(t)
      BY <3>2 DEF Load
    <3>3. CASE Cas(t)
      BY <3>3 DEF Cas, Exchange, SetRadio
    <3>4. CASE Unhop(t)
      BY <3>4 DEF Unhop
    <3> QED BY <1>4, <3>1, <3>2, <3>3, <3>4
  <2>3. \A u \in Threads : \A x \in cur'[u] \cup resched'[u] : x.template \in K
    <3>1. CASE UNCHANGED <<cur, resched>>
      BY <3>1 DEF AllIn
    <3>2. CASE \E e \in cur[t] : Finish(t, e, TRUE) \/ Finish(t, e, FALSE)
      <4>1. PICK e \in cur[t] : Finish(t, e, TRUE) \/ Finish(t, e, FALSE)
        BY <3>2
      <4>2. CASE Finish(t, e, TRUE)
        BY <4>2, FinishKind
      <4>3. CASE Finish(t, e, FALSE)
        BY <4>3, FinishKind
      <4> QED BY <4>1, <4>2, <4>3
    <3> QED BY <2>2, <3>1, <3>2
  <2> QED BY <2>1, <2>3 DEF AllIn
<1>5. CASE Arm(t)
  <2>1. PICK e \in cur[t] : /\ events' = events \cup {Event(Timer(e), "new", newIds, e.call)}
                            /\ Finish(t, e, TRUE)
    BY <1>5 DEF Arm, Insert
  <2>2. PICK x : x = Event(Timer(e), "new", newIds, e.call)
    OBVIOUS
  <2>3. x.template \in K
    BY <2>2 DEF Event, TimersIn, Shapes, ThreadShapes
  <2>4. \A u \in Threads : \A y \in cur'[u] \cup resched'[u] : y.template \in K
    BY <2>1, FinishKind
  <2>5. UNCHANGED left
    BY <1>5 DEF Arm
  <2>6. \A y \in events' : y.template \in K
    BY <2>1, <2>2, <2>3 DEF AllIn
  <2> QED BY <2>4, <2>5, <2>6 DEF AllIn
<1> QED BY <1>1, <1>2, <1>3, <1>4, <1>5 DEF Thread

LEMMA CallKind ==
    ASSUME Shapes, NEW K, AsksFor(K), AllIn(K), NEW c \in Calls, Call(c)
    PROVE  AllIn(K)'
<1> USE DEF queueVars, callVars, threadVars
<1>1. CASE CallCancel(c) \/ CallCancelSource(c) \/ CallRun(c) \/ CallStop(c) \/ CallTransition(c)
  <2>1. events' \subseteq events /\ UNCHANGED <<cur, resched, left>>
    BY <1>1 DEF CallCancel, CallCancelSource, CallRun, CallStop, CallTransition, Remove
  <2> QED BY <2>1 DEF AllIn
<1>2. CASE CallSchedule(c)
  <2>1. PICK ts : ts = Plan[c].events
    OBVIOUS
  <2>2. ts \in Seq(Templates) /\ \A i \in 1..Len(ts) : ts[i] \in K
    BY <1>2, <2>1, PlanOf DEF CallSchedule, AsksFor, Begin
  <2>3. PICK es : es = [i \in 1..Len(ts) |-> Event(ts[i], "new", newIds + i - 1, c)]
    OBVIOUS
  <2>4. left' = [left EXCEPT ![c] = es] /\ UNCHANGED <<events, cur, resched>>
    BY <1>2, <2>1, <2>3 DEF CallSchedule
  <2>5. \A i \in 1..Len(es) : es[i].template \in K
    BY <2>2, <2>3 DEF Event
  <2>6. \A d \in Calls : left'[d] = IF d = c THEN es ELSE left[d]
    BY <2>4 DEF Shapes, QueueShapes
  <2> QED BY <2>4, <2>5, <2>6 DEF AllIn
<1>3. CASE Push(c)
  <2>1. PICK s \in Seq(EventSet) : s = left[c] /\ s # <<>>
    BY <1>3 DEF Push, Shapes, QueueShapes
  <2>2. /\ events' = events \cup {Head(s)} /\ left' = [left EXCEPT ![c] = Tail(s)]
        /\ UNCHANGED <<cur, resched>>
    BY <1>3, <2>1 DEF Push, Insert
  <2>3. \A i \in 1..Len(s) : s[i].template \in K
    BY <2>1 DEF AllIn
  <2>4. Head(s).template \in K /\ \A i \in 1..Len(Tail(s)) : Tail(s)[i].template \in K
    <3>1. Head(s) = s[1] /\ 1 \in 1..Len(s) /\ Len(Tail(s)) = Len(s) - 1 /\ Len(s) \in Nat
      BY <2>1
    <3>2. \A i \in 1..Len(Tail(s)) : Tail(s)[i] = s[i + 1] /\ i + 1 \in 1..Len(s)
      BY <2>1, <3>1
    <3> QED BY <2>3, <3>1, <3>2
  <2>5. \A d \in Calls : left'[d] = IF d = c THEN Tail(s) ELSE left[d]
    BY <2>2 DEF Shapes, QueueShapes
  <2> QED BY <2>2, <2>4, <2>5 DEF AllIn
<1> QED BY <1>1, <1>2, <1>3 DEF Call

LEMMA StepKind ==
    ASSUME Shapes, NEW K, \A tm \in K : Repetition(tm) \in K, TimersIn(K), AsksFor(K), AllIn(K), [Next]_vars
    PROVE  AllIn(K)'
<1>1. CASE Tick \/ UNCHANGED vars
  <2>1. UNCHANGED <<events, cur, resched, left>>
    BY <1>1 DEF Tick, vars, threadVars, queueVars, callVars
  <2> QED BY <2>1 DEF AllIn
<1> QED BY <1>1, ThreadKind, CallKind DEF Next

LEMMA InitKind == ASSUME Init, NEW K PROVE AllIn(K)
  BY DEF Init, AllIn
-----------------------------------------------------------------------------
(* Legal transitions.  What a scenario may ask for: one thread in the loop *)
(* at a time, since stop() does not wait for a thread that is asleep in    *)
(* it; a hardware that only reports the end of a state or a fault; and no  *)
(* Reset, which is a plain store of Idle from wherever the radio is.       *)

NoStops == \A c \in DOMAIN Plan : Plan[c].op # "stop"

OneRunner ==
    \A c, d \in DOMAIN Plan :
        Plan[c].op = "run" /\ Plan[d].op = "run" => Plan[c].thread = Plan[d].thread

OneLoop == NoStops \/ OneRunner

HardwareReports == \A c \in DOMAIN Plan : Plan[c].op = "transition" => Plan[c].to \in {"Idle", "Error"}

Resetless == {tm \in Templates : tm.action # "Reset"}

NoResets == AsksFor(Resetless)

\* Who is in the loop.
Runners ==
    /\ OneLoop
    /\ NoStops   => running \/ \A t \in Threads : pc[t] = "off"
    /\ OneRunner => \A t \in Threads : pc[t] # "off" =>
                        \E c \in DOMAIN Plan : Plan[c].op = "run" /\ Plan[c].thread = t
    /\ \A t, u \in Threads : pc[t] # "off" /\ pc[u] # "off" => t = u

\* A thread aims at a state that the table allows from the one it has seen,
\* and the hop it ends was cut short by the hardware at most.
Aims ==
    \A t \in Threads :
        /\ pc[t] = "cas"   => \A e \in cur[t] : CanTransitionTo(seen[t], TargetOf(e))
        /\ pc[t] = "unhop" => radio \in {"Hopping", "Error", "Idle"}

Asked == HardwareReports /\ NoResets

Single == \A t \in Threads : \A e, f \in cur[t] : e = f

LInv == Shapes /\ Asked /\ Runners /\ Single /\ Aims /\ AllIn(Resetless)

LEMMA ScenarioStays == ASSUME [Next]_vars PROVE scenario' = scenario
<1>1. ASSUME NEW t \in Threads, Thread(t) PROVE scenario' = scenario
  BY <1>1 DEF Thread, Check, Checked, Pop, PopNothing, Guard, Load, Cas, Exchange, Unhop, Arm, Reschedule,
              Doze, Sleeping, Wake, fixed
<1>2. ASSUME NEW c \in Calls, Call(c) PROVE scenario' = scenario
  BY <1>2 DEF Call, CallSchedule, Push, CallCancel, CallCancelSource, CallRun, CallStop, CallTransition, fixed
<1>3. CASE Tick \/ UNCHANGED vars
  BY <1>3 DEF Tick, vars, fixed
<1> QED BY <1>1, <1>2, <1>3 DEF Next

LEMMA PlanStays == ASSUME [Next]_vars PROVE Plan' = Plan
  BY ScenarioStays DEF Plan

\* A thread that gets on stays in the loop, or leaves it at the check.
LEMMA ThreadMoves ==
    ASSUME Shapes, NEW t \in Threads, Thread(t)
    PROVE  /\ pc[t] # "off" /\ UNCHANGED running
           /\ \E p \in Point : pc' = [pc EXCEPT ![t] = p] /\ (p = "off" => ~running)
<1>1. CASE Check(t) \/ Pop(t) \/ PopNothing(t) \/ Doze(t) \/ Wake(t) \/ Reschedule(t)
  BY <1>1 DEF Check, Checked, Pop, PopNothing, Doze, Sleeping, Wake, Reschedule, Goto, Point, fixed, Shapes, RestShapes
<1>2. CASE Guard(t)
  BY <1>2 DEF Guard, Finish, Goto, Point, fixed
<1>3. CASE Load(t)
  BY <1>3 DEF Load, Finish, Goto, Point, fixed
<1>4. CASE Cas(t)
  BY <1>4 DEF Cas, Exchange, Finish, Goto, Point, fixed
<1>5. CASE Unhop(t) \/ Arm(t)
  BY <1>5 DEF Unhop, Arm, Finish, Goto, Point, fixed
<1> QED BY <1>1, <1>2, <1>3, <1>4, <1>5 DEF Thread

LEMMA StepRunners ==
    ASSUME Shapes, Runners, [Next]_vars
    PROVE  Runners'
<1>0. Plan' = Plan
  BY PlanStays
<1>1. OneLoop' /\ (NoStops' <=> NoStops) /\ (OneRunner' <=> OneRunner)
  BY <1>0 DEF Runners, OneLoop, NoStops, OneRunner
<1>2. CASE UNCHANGED <<pc, running>>
  BY <1>0, <1>1, <1>2 DEF Runners
<1>3. ASSUME NEW t \in Threads, Thread(t) PROVE Runners'
  <2>1. /\ pc[t] # "off" /\ running' = running
        /\ \E p \in Point : pc' = [pc EXCEPT ![t] = p] /\ (p = "off" => ~running)
    BY <1>3, ThreadMoves
  <2>2. \A u \in Threads : pc'[u] # "off" => pc[u] # "off"
    BY <2>1 DEF Shapes, ThreadShapes
  <2>3. NoStops => running' \/ \A u \in Threads : pc'[u] = "off"
    BY <2>1, <2>2 DEF Runners
  <2> QED BY <1>0, <1>1, <2>2, <2>3 DEF Runners
<1>4. ASSUME NEW c \in Calls, Call(c) PROVE Runners'
  <2>1. CASE CallRun(c)
    <3>1. /\ c \in DOMAIN Plan /\ Plan[c].op = "run" /\ running' = TRUE
          /\ pc' = IF running THEN pc ELSE [pc EXCEPT ![Plan[c].thread] = "check"]
      BY <2>1 DEF CallRun, Begin
    <3>2. CASE running
      BY <1>0, <1>1, <3>1, <3>2 DEF Runners
    <3>3. CASE ~running
      <4>1. \A u \in Threads : pc'[u] # "off" => u = Plan[c].thread \/ pc[u] # "off"
        BY <3>1, <3>3 DEF Shapes, ThreadShapes
      <4>2. OneRunner => \A u \in Threads : pc'[u] # "off" =>
                        \E d \in DOMAIN Plan : Plan[d].op = "run" /\ Plan[d].thread = u
        BY <3>1, <4>1 DEF Runners
      <4>3. ASSUME NEW u \in Threads, NEW v \in Threads, pc'[u] # "off", pc'[v] # "off" PROVE u = v
        <5>1. CASE NoStops
          BY <3>3, <4>1, <4>3, <5>1 DEF Runners
        <5>2. CASE OneRunner
          BY <4>2, <4>3, <5>2 DEF OneRunner
        <5> QED BY <5>1, <5>2 DEF Runners, OneLoop
      <4> QED BY <1>0, <1>1, <3>1, <4>2, <4>3 DEF Runners
    <3> QED BY <3>2, <3>3
  <2>2. CASE CallStop(c)
    <3>1. ~NoStops /\ UNCHANGED pc
      BY <2>2 DEF CallStop, Begin, NoStops, threadVars
    <3> QED BY <1>0, <1>1, <3>1 DEF Runners
  <2>3. CASE CallSchedule(c) \/ Push(c) \/ CallCancel(c) \/ CallCancelSource(c) \/ CallTransition(c)
    BY <1>2, <2>3 DEF CallSchedule, Push, CallCancel, CallCancelSource, CallTransition, threadVars, fixed
  <2> QED BY <1>4, <2>1, <2>2, <2>3 DEF Call
<1>5. CASE Tick \/ UNCHANGED vars
  BY <1>2, <1>5 DEF Tick, vars, threadVars, fixed
<1> QED BY <1>3, <1>4, <1>5 DEF Next

LEMMA StepSingle ==
    ASSUME Shapes, Single, [Next]_vars
    PROVE  Single'
<1>1. ASSUME UNCHANGED cur PROVE Single'
  BY <1>1 DEF Single
<1>2. ASSUME NEW t \in Threads, cur' = [cur EXCEPT ![t] = {}] PROVE Single'
  BY <1>2 DEF Single, Shapes, ThreadShapes
<1>3. ASSUME NEW t \in Threads, Thread(t) PROVE Single'
  <2>1. CASE Pop(t)
    <3>1. PICK e : cur' = [cur EXCEPT ![t] = {e}]
      BY <2>1 DEF Pop
    <3> QED BY <3>1 DEF Single, Shapes, ThreadShapes
  <2>2. CASE ~Pop(t)
    <3>1. UNCHANGED cur \/ cur' = [cur EXCEPT ![t] = {}]
      <4>1. CASE Guard(t)
        BY <4>1 DEF Guard, Finish
      <4>2. CASE Load(t)
        BY <4>2 DEF Load, Finish
      <4>3. CASE Cas(t)
        BY <4>3 DEF Cas, Exchange, Finish
      <4>4. CASE Unhop(t) \/ Arm(t)
        BY <4>4 DEF Unhop, Arm, Finish
      <4>5. CASE Check(t) \/ PopNothing(t) \/ Reschedule(t) \/ Doze(t) \/ Wake(t)
        BY <4>5 DEF Check, Checked, PopNothing, Reschedule, Doze, Sleeping, Wake
      <4> QED BY <1>3, <2>2, <4>1, <4>2, <4>3, <4>4, <4>5 DEF Thread
    <3> QED BY <1>1, <1>2, <3>1
  <2> QED BY <2>1, <2>2
<1>4. ASSUME NEW c \in Calls, Call(c) PROVE Single'
  BY <1>1, <1>4 DEF Call, CallSchedule, Push, CallCancel, CallCancelSource, CallRun, CallStop, CallTransition,
                    threadVars
<1>5. CASE Tick \/ UNCHANGED vars
  BY <1>1, <1>5 DEF Tick, vars, threadVars
<1> QED BY <1>3, <1>4, <1>5 DEF Next

LEMMA StepAims ==
    ASSUME LInv, [Next]_vars
    PROVE  Aims'
<1> USE DEF LInv
<1>1. ASSUME NEW t \in Threads, Thread(t) PROVE Aims'
  <2>0. pc[t] # "off" /\ \A u \in Threads : u # t => pc'[u] = "off"
    <3>1. pc[t] # "off" /\ \E p \in Point : pc' = [pc EXCEPT ![t] = p]
      BY <1>1, ThreadMoves
    <3> QED BY <3>1 DEF Runners, Shapes, ThreadShapes
  <2>1. CASE Load(t)
    <3>1. PICK e \in cur[t] :
            \/ Finish(t, e, TRUE) \/ Finish(t, e, FALSE)
            \/ /\ Admits(e, FromOf(e)) /\ seen' = [seen EXCEPT ![t] = FromOf(e)]
               /\ Goto(t, "cas") /\ UNCHANGED cur
      BY <2>1 DEF Load
    <3>2. CASE Finish(t, e, TRUE) \/ Finish(t, e, FALSE)
      <4>1. pc'[t] = "pop"
        BY <3>2 DEF Finish, Goto, Shapes, ThreadShapes
      <4> QED BY <2>0, <4>1 DEF Aims
    <3>3. CASE /\ Admits(e, FromOf(e)) /\ seen' = [seen EXCEPT ![t] = FromOf(e)]
               /\ Goto(t, "cas") /\ UNCHANGED cur
      <4>1. pc'[t] = "cas" /\ cur'[t] = cur[t] /\ seen'[t] = FromOf(e)
        BY <3>3 DEF Goto, Shapes, ThreadShapes
      <4>2. CanTransitionTo(FromOf(e), TargetOf(e))
        BY <3>3 DEF Admits
      <4>3. \A f \in cur[t] : f = e
        BY DEF Single
      <4> QED BY <2>0, <4>1, <4>2, <4>3 DEF Aims
    <3> QED BY <3>1, <3>2, <3>3
  <2>2. CASE Cas(t)
    <3>1. PICK e \in cur[t] :
            \/ Finish(t, e, TRUE) \/ Finish(t, e, FALSE)
            \/ Goto(t, "unhop") /\ radio' = TargetOf(e) /\ e.template.action = "SetFrequency"
            \/ Goto(t, "arm")
      BY <2>2 DEF Cas, Exchange, SetRadio
    <3>2. \/ pc'[t] \notin {"cas", "unhop"}
          \/ pc'[t] = "unhop" /\ radio' = "Hopping"
      BY <3>1 DEF Finish, Goto, TargetOf, Shapes, ThreadShapes
    <3> QED BY <2>0, <3>2 DEF Aims
  <2>3. CASE ~Load(t) /\ ~Cas(t)
    <3>1. pc'[t] \notin {"cas", "unhop"}
      BY <1>1, <2>3 DEF Thread, Check, Checked, Pop, PopNothing, Guard, Unhop, Arm, Finish, Reschedule, Doze,
                        Sleeping, Wake, Goto, Shapes, ThreadShapes
    <3> QED BY <2>0, <3>1 DEF Aims
  <2> QED BY <2>1, <2>2, <2>3
<1>2. ASSUME UNCHANGED <<pc, cur, seen, radio>> PROVE Aims'
  BY <1>2 DEF Aims, TargetOf
<1>3. ASSUME NEW c \in Calls, Call(c) PROVE Aims'
  <2>1. CASE CallRun(c)
    <3>1. /\ UNCHANGED <<cur, seen, radio>>
          /\ \E t : pc' = IF running THEN pc ELSE [pc EXCEPT ![t] = "check"]
      BY <2>1 DEF CallRun
    <3>2. \A u \in Threads : pc'[u] = pc[u] \/ pc'[u] = "check"
      BY <3>1 DEF Shapes, ThreadShapes
    <3> QED BY <3>1, <3>2 DEF Aims, TargetOf
  <2>2. CASE CallTransition(c)
    <3>1. UNCHANGED <<pc, cur, seen>>
      BY <2>2 DEF CallTransition, threadVars
    <3>2. radio' = radio \/ radio' \in {"Idle", "Error"}
      BY <2>2 DEF CallTransition, Begin, SetRadio, Asked, HardwareReports
    <3> QED BY <3>1, <3>2 DEF Aims, TargetOf
  <2>3. CASE CallSchedule(c) \/ Push(c) \/ CallCancel(c) \/ CallCancelSource(c) \/ CallStop(c)
    BY <1>2, <2>3 DEF CallSchedule, Push, CallCancel, CallCancelSource, CallStop, threadVars
  <2> QED BY <1>3, <2>1, <2>2, <2>3 DEF Call
<1>4. CASE Tick \/ UNCHANGED vars
  BY <1>2, <1>4 DEF Tick, vars, threadVars
<1> QED BY <1>1, <1>3, <1>4 DEF Next

LEMMA ResetlessKind ==
    /\ \A tm \in Resetless : Repetition(tm) \in Resetless
    /\ Shapes => TimersIn(Resetless)
<1>1. ASSUME NEW tm \in Resetless PROVE Repetition(tm) \in Resetless
  BY DEF Resetless, Repetition, Templates
<1>2. ASSUME Shapes, NEW e \in EventSet PROVE Timer(e) \in Resetless
  BY <1>2, TimesAssumption DEF Timer, Template, Templates, Resetless, Actions, RadioStates, Shapes, RestShapes
<1> QED BY <1>1, <1>2 DEF TimersIn

LEMMA StepLegal ==
    ASSUME LInv, [Next]_vars, radio' # radio
    PROVE  CanTransitionTo(radio, radio')
<1> USE DEF LInv
<1>0. UNCHANGED radio => FALSE
  OBVIOUS
<1>1. ASSUME NEW t \in Threads, Thread(t) PROVE CanTransitionTo(radio, radio')
  <2>1. CASE Load(t)
    <3>1. PICK e \in cur[t] : e.template.action = "Reset"
      BY <2>1 DEF Load
    <3>2. e.template \in Resetless
      BY DEF AllIn
    <3> QED BY <3>1, <3>2 DEF Resetless
  <2>2. CASE Cas(t)
    <3>1. PICK e \in cur[t] : radio = seen[t] /\ radio' = TargetOf(e)
      BY <2>2 DEF Cas, Exchange, SetRadio
    <3>2. pc[t] = "cas"
      BY <2>2 DEF Cas, Exchange
    <3> QED BY <3>1, <3>2 DEF Aims
  <2>3. CASE Unhop(t)
    <3>1. radio' = "Idle" /\ radio \in {"Hopping", "Error", "Idle"}
      BY <2>3 DEF Unhop, SetRadio, Aims
    <3> QED BY <3>1 DEF CanTransitionTo, ValidTransitions
  <2>4. CASE ~Load(t) /\ ~Cas(t) /\ ~Unhop(t)
    BY <1>1, <2>4 DEF Thread, Check, Checked, Pop, PopNothing, Guard, Arm, Reschedule, Doze, Sleeping, Wake
  <2> QED BY <2>1, <2>2, <2>3, <2>4
<1>2. ASSUME NEW c \in Calls, Call(c) PROVE CanTransitionTo(radio, radio')
  <2>1. CASE CallTransition(c)
    BY <2>1 DEF CallTransition, SetRadio
  <2>2. CASE ~CallTransition(c)
    BY <1>2, <2>2 DEF Call, CallSchedule, Push, CallCancel, CallCancelSource, CallRun, CallStop
  <2> QED BY <2>1, <2>2
<1>3. CASE Tick \/ UNCHANGED vars
  BY <1>3 DEF Tick, vars
<1> QED BY <1>1, <1>2, <1>3 DEF Next

LEMMA InitLInv == Init /\ OneLoop /\ Asked => LInv
<1> SUFFICES ASSUME Init, OneLoop, Asked PROVE LInv
  OBVIOUS
<1>1. Runners
  BY DEF Init, Runners
<1>2. Single /\ Aims
  BY DEF Init, Single, Aims
<1> QED BY <1>1, <1>2, InitShapes, InitKind DEF LInv

LEMMA StepLInv == LInv /\ [Next]_vars => LInv'
<1> SUFFICES ASSUME LInv, [Next]_vars PROVE LInv'
  OBVIOUS
<1>1. Shapes' /\ Runners' /\ Single' /\ Aims'
  BY StepShapes, StepRunners, StepSingle, StepAims DEF LInv
<1>2. AllIn(Resetless)'
  <2>1. AsksFor(Resetless) /\ TimersIn(Resetless) /\ \A tm \in Resetless : Repetition(tm) \in Resetless
    BY ResetlessKind DEF LInv, Asked, NoResets
  <2> QED BY <2>1, StepKind DEF LInv
<1>3. Asked'
  BY PlanStays DEF LInv, Asked, HardwareReports, NoResets, AsksFor
<1> QED BY <1>1, <1>2, <1>3 DEF LInv

\* With one thread in the loop at a time, a hardware that only reports, and no
\* Reset, every change of the radio is one of the table, although some are
\* plain stores and others start from a state loaded earlier.
THEOREM RadioByTheTable == Spec /\ OneLoop /\ HardwareReports /\ NoResets => LegalTransitions
<1>1. LInv /\ [Next]_vars => [radio' # radio => CanTransitionTo(radio, radio')]_vars
  BY StepLegal
<1>2. OneLoop /\ HardwareReports /\ NoResets => OneLoop /\ Asked
  BY DEF Asked
<1> QED BY <1>1, <1>2, InitLInv, StepLInv, PTL DEF Spec, LegalTransitions

-----------------------------------------------------------------------------
(* Never stuck.  A scenario is orderly if besides one thread in the loop   *)
(* and a hardware that only reports                                        *)
(*   - nothing repeats: an occurrence that fails is the last one, of a     *)
(*     StopTx as of any other event, and the StartTx goes on;              *)
(*   - every StartTx is scheduled with a StopTx after it, unguarded and    *)
(*     with a later deadline, as schedule_tx_burst does;                   *)
(*   - no event of the user moves the radio to a state that needs another  *)
(*     event to end;                                                       *)
(*   - the id that a cancelled call returned is not one of a StopTx;       *)
(* and cancel_from_source names a source ("none" is an event without one). *)

Turnarounds == {"TxTurnaround", "RxTurnaround"}

IsStop(tm) == tm.action = "StopTx" /\ tm.guard = "none"

IsTimer(tm) ==
    tm.action = "StateTransition" /\ tm.guard = "none" /\ tm.target = "Idle" /\ tm.source = "none"

Stops(tm, start) == IsStop(tm) /\ start.deadline < tm.deadline

Plain == {tm \in Templates : tm.repeat = 0 /\ tm.target \notin {"Transmitting"} \cup Turnarounds}

BurstsStop(ts) ==
    \A i \in 1..Len(ts) : ts[i].action = "StartTx" =>
        \E j \in (i + 1)..Len(ts) : Stops(ts[j], ts[i])

SparesStops(c) ==
    /\ c \in DOMAIN Plan /\ Plan[c].op = "schedule"
    /\ Plan[c].events[1].action \notin {"StopTx", "StateTransition"}

Orderly ==
    /\ OneLoop /\ HardwareReports /\ AsksFor(Plain)
    /\ \A c \in DOMAIN Plan :
          /\ Plan[c].op = "schedule" => Plan[c].events # <<>> /\ BurstsStop(Plan[c].events)
          /\ Plan[c].op = "cancel" => SparesStops(Plan[c].of)
          /\ Plan[c].op = "cancel_source" => Plan[c].source # "none"

\* Only the first event of a call has the id that the call returned.
Scheduled(c) == c \in called /\ Plan[c].op = "schedule"

FirstIfNamed == {e \in EventSet :
    \A c \in Calls : Scheduled(c) /\ e.id = firstId[c] => e.template = Plan[c].events[1]}

Firsts ==
    /\ \A t \in Threads : resched[t] = {}
    /\ events \subseteq FirstIfNamed /\ \A e \in events : e.counter = "new"
    /\ \A c \in Calls : \A i \in 1..Len(left[c]) : left[c][i] \in FirstIfNamed
    /\ \A c \in Calls : Scheduled(c) => firstId[c] < newIds

Begun == \A c \in Calls : c \notin called => left[c] = <<>>

\* A StartTx that is still to come, or at work, has its StopTx behind it.
Waiting == {e \in EventSet :
    e \in events \/ \E c \in Calls : \E i \in 1..Len(left[c]) : e = left[c][i]}

Ahead(e) == \E f \in Waiting : Stops(f.template, e.template)

LeftStops ==
    \A c \in Calls : \A i \in 1..Len(left[c]) :
        left[c][i].template.action = "StartTx" =>
            \E j \in (i + 1)..Len(left[c]) : Stops(left[c][j].template, left[c][i].template)

Partners ==
    \/ silenced # {}
    \/ /\ \A e \in events : e.template.action = "StartTx" => Ahead(e)
       /\ \A t \in Threads : \A e \in cur[t] : e.template.action = "StartTx" => Ahead(e)

\* While the radio transmits there is a StopTx that will work, and in a
\* turnaround a timer that will.
Working(t) == pc[t] \in {"guard", "act", "cas"}

Stoppable ==
    radio = "Transmitting" =>
        \/ silenced # {} \/ stats.missed > 0
        \/ \E f \in Waiting : IsStop(f.template)
        \/ \E t \in Threads : Working(t) /\ \E f \in cur[t] : IsStop(f.template)

Ending ==
    radio \in Turnarounds =>
        \/ stats.missed > 0
        \/ \E t \in Threads : pc[t] = "arm"
        \/ \E f \in events : IsTimer(f.template)
        \/ \E t \in Threads : Working(t) /\ \E f \in cur[t] : IsTimer(f.template)

\* What a thread has seen of the radio still holds, or the hardware reported.
Sights ==
    \A t \in Threads : pc[t] = "cas" => \A e \in cur[t] :
        /\ e.template.action = "StopTx" => seen[t] = "Transmitting"
        /\ e.template.action = "StateTransition" => radio \in {seen[t], "Idle", "Error"}

Base == Shapes /\ Ids /\ Orderly /\ Runners /\ Single /\ AllIn(Plain)

SInv == Base /\ Firsts /\ Begun /\ LeftStops /\ Partners /\ Stoppable /\ Ending /\ Sights

LEMMA PlainKind ==
    /\ \A tm \in Plain : Repetition(tm) \in Plain
    /\ Shapes => TimersIn(Plain)
<1>1. ASSUME NEW tm \in Plain PROVE Repetition(tm) \in Plain
  <2>1. tm \in Templates /\ tm.repeat = 0 /\ tm.deadline \in Nat
    BY DEF Plain, Templates
  <2>2. Repetition(tm) \in Templates /\ Repetition(tm).repeat = 0 /\ Repetition(tm).action = tm.action
        /\ Repetition(tm).target = tm.target
    BY <2>1 DEF Repetition, Templates
  <2> QED BY <2>2 DEF Plain
<1>2. ASSUME Shapes, NEW e \in EventSet PROVE Timer(e) \in Plain
  <2>1. PICK d \in Nat : d = clock + (IF e.template.action = "StopTx" THEN TxTurn ELSE RxTurn)
    BY <1>2, TimesAssumption DEF Shapes, RestShapes
  <2>2. Timer(e) = Template(d, 0, "StateTransition", "none", 0, "none")
    BY <2>1 DEF Timer
  <2>3. Template(d, 0, "StateTransition", "none", 0, "none") \in Templates
    BY DEF Template, Templates, Actions, RadioStates
  <2> QED BY <2>2, <2>3 DEF Template, Plain, Turnarounds
<1> QED BY <1>1, <1>2 DEF TimersIn

LEMMA StepBase ==
    ASSUME Base, [Next]_vars
    PROVE  Base'
<1>1. Shapes' /\ Ids' /\ Runners' /\ Single'
  BY StepShapes, StepIds, StepRunners, StepSingle DEF Base
<1>2. AllIn(Plain)'
  <2>1. AsksFor(Plain) /\ TimersIn(Plain) /\ \A tm \in Plain : Repetition(tm) \in Plain
    BY PlainKind DEF Base, Orderly
  <2> QED BY <2>1, StepKind DEF Base
<1>3. Orderly'
  <2>1. Plan' = Plan
    BY PlanStays
  <2> QED BY <2>1 DEF Base, Orderly, OneLoop, NoStops, OneRunner, HardwareReports, AsksFor, SparesStops
<1> QED BY <1>1, <1>2, <1>3 DEF Base

-----------------------------------------------------------------------------
(* What a step does, as far as it matters here.                            *)

\* A plain event is gone when it is finished.
LEMMA PlainFinish ==
    ASSUME Base, NEW t \in Threads, NEW e \in cur[t], NEW ok \in BOOLEAN, Finish(t, e, ok)
    PROVE  /\ pc' = [pc EXCEPT ![t] = "pop"] /\ cur' = [cur EXCEPT ![t] = {}]
           /\ UNCHANGED resched
<1>1. e.template \in Plain
  BY DEF Base, AllIn
<1>2. e.template.repeat = 0
  BY <1>1 DEF Plain
<1>3. resched' = [resched EXCEPT ![t] = @]
  BY <1>2 DEF Finish
<1>4. resched' = resched
  BY <1>3 DEF Base, Shapes, QueueShapes
<1> QED BY <1>4 DEF Finish, Goto

\* The steps of a thread at work on an event.
Handles(t) == Guard(t) \/ Load(t) \/ Cas(t) \/ Unhop(t)

LEMMA HandlesKeeps ==
    ASSUME Base, NEW t \in Threads, Handles(t)
    PROVE  UNCHANGED <<events, left, called, firstId, silenced, newIds, resched>>
<1>0. TRUE \in BOOLEAN /\ FALSE \in BOOLEAN
  OBVIOUS
<1>1. CASE Guard(t)
  <2>1. PICK e \in cur[t] : Finish(t, e, FALSE) \/ UNCHANGED resched
    BY <1>1 DEF Guard
  <2> QED BY <1>0, <1>1, <2>1, PlainFinish DEF Guard, callVars
<1>2. CASE Load(t)
  <2>1. PICK e \in cur[t] : Finish(t, e, FALSE) \/ Finish(t, e, TRUE) \/ UNCHANGED resched
    BY <1>2 DEF Load
  <2> QED BY <1>0, <1>2, <2>1, PlainFinish DEF Load, callVars
<1>3. CASE Cas(t)
  <2>1. PICK e \in cur[t] : Finish(t, e, FALSE) \/ Finish(t, e, TRUE) \/ UNCHANGED resched
    BY <1>3 DEF Cas, Exchange, SetRadio
  <2> QED BY <1>0, <1>3, <2>1, PlainFinish DEF Cas, Exchange, callVars
<1>4. CASE Unhop(t)
  <2>1. PICK e \in cur[t] : Finish(t, e, TRUE)
    BY <1>4 DEF Unhop
  <2> QED BY <1>0, <1>4, <2>1, PlainFinish DEF Unhop, callVars
<1> QED BY <1>1, <1>2, <1>3, <1>4 DEF Handles

\* Arm puts the timer into the queue.
LEMMA Arms ==
    ASSUME Base, NEW t \in Threads, Arm(t)
    PROVE  /\ \E x : /\ events' = events \cup {x} /\ IsTimer(x.template)
                     /\ x.counter = "new" /\ x.id = newIds
           /\ newIds' = newIds + 1 /\ cur' = [cur EXCEPT ![t] = {}]
           /\ UNCHANGED <<left, called, firstId, silenced, resched, radio>>
           /\ pc[t] = "arm" /\ stats'.missed = stats.missed
<1>1. PICK e \in cur[t] : Insert({Event(Timer(e), "new", newIds, e.call)}) /\ Finish(t, e, TRUE)
  BY DEF Arm
<1>2. PICK x : x = Event(Timer(e), "new", newIds, e.call)
  OBVIOUS
<1>3. events' = events \cup {x}
  BY <1>1, <1>2 DEF Insert
<1>4. x.counter = "new" /\ x.id = newIds /\ x.template = Timer(e)
  BY <1>2 DEF Event
<1>5. IsTimer(x.template)
  BY <1>4 DEF IsTimer, Timer, Template
<1>6. TRUE \in BOOLEAN
  OBVIOUS
<1>7. cur' = [cur EXCEPT ![t] = {}] /\ UNCHANGED resched
  BY <1>1, <1>6, PlainFinish
<1>8. stats'.missed = stats.missed
  BY <1>1 DEF Insert, Base, Shapes, QueueShapes, Counts
<1> QED BY <1>3, <1>4, <1>5, <1>7, <1>8 DEF Arm, callVars

\* The others leave the radio alone.
Idles(t) == Check(t) \/ PopNothing(t) \/ Doze(t) \/ Wake(t) \/ Reschedule(t)

LEMMA IdlesKeeps ==
    ASSUME Base, Firsts, NEW t \in Threads, Idles(t)
    PROVE  UNCHANGED <<events, left, called, firstId, silenced, newIds, resched, cur, radio, seen>>
           /\ pc[t] \in {"check", "pop", "doze", "asleep", "resched"}
           /\ pc'[t] \in {"off", "check", "pop", "doze", "asleep", "resched"}
           /\ stats'.missed = stats.missed
<1>1. CASE Reschedule(t)
  <2>1. resched[t] = {} /\ resched \in [Threads -> SUBSET EventSet]
    BY DEF Firsts, Base, Shapes, QueueShapes
  <2>2. events' = events /\ resched' = resched
    BY <1>1, <2>1 DEF Reschedule, Insert
  <2>3. stats'.missed = stats.missed
    BY <1>1 DEF Reschedule, Insert, Base, Shapes, QueueShapes, Counts
  <2> QED BY <1>1, <2>2, <2>3 DEF Reschedule, callVars, Goto, Base, Shapes, ThreadShapes
<1>2. CASE Check(t) \/ PopNothing(t) \/ Doze(t) \/ Wake(t)
  BY <1>2 DEF Check, Checked, PopNothing, Doze, Sleeping, Wake, Goto, queueVars, callVars, Base, Shapes, ThreadShapes
<1> QED BY <1>1, <1>2 DEF Idles

LEMMA ThreadCases ==
    ASSUME NEW t \in Threads, Thread(t)
    PROVE  Idles(t) \/ Pop(t) \/ Handles(t) \/ Arm(t)
  BY DEF Thread, Idles, Handles
\* Calls that neither schedule nor push.
Others(c) == CallCancel(c) \/ CallCancelSource(c) \/ CallRun(c) \/ CallStop(c) \/ CallTransition(c)

LEMMA CallCases ==
    ASSUME NEW c \in Calls, Call(c)
    PROVE  CallSchedule(c) \/ Push(c) \/ Others(c)
  BY DEF Call, Others

LEMMA OthersKeep ==
    ASSUME Base, NEW c \in Calls, Others(c)
    PROVE  /\ events' \subseteq events
           /\ UNCHANGED <<left, firstId, newIds, resched, cur, seen>>
           /\ called' = called \cup {c} /\ Plan[c].op # "schedule"
           /\ stats'.missed = stats.missed /\ silenced \subseteq silenced'
           /\ \A u \in Threads : pc[u] # "off" => pc'[u] = pc[u]
           /\ \A u \in Threads : pc'[u] = pc[u] \/ pc'[u] = "check"
           /\ radio' = radio \/ radio' \in {"Idle", "Error"}
<1> USE DEF threadVars, queueVars, callVars, fixed, timeVars
<1>1. CASE CallCancel(c) \/ CallCancelSource(c)
  <2>1. PICK es \in SUBSET events : Remove(es)
    BY <1>1 DEF CallCancel, CallCancelSource
  <2>2. stats'.missed = stats.missed
    BY <2>1 DEF Remove, Base, Shapes, QueueShapes, Counts
  <2> QED BY <1>1, <2>1, <2>2 DEF CallCancel, CallCancelSource, Begin, Remove
<1>2. CASE CallRun(c)
  <2>1. PICK t : pc[t] = "off" /\ pc' = IF running THEN pc ELSE [pc EXCEPT ![t] = "check"]
    BY <1>2 DEF CallRun
  <2>2. /\ \A u \in Threads : pc[u] # "off" => pc'[u] = pc[u]
        /\ \A u \in Threads : pc'[u] = pc[u] \/ pc'[u] = "check"
    BY <2>1 DEF Base, Shapes, ThreadShapes
  <2> QED BY <1>2, <2>2 DEF CallRun, Begin
<1>3. CASE CallStop(c)
  BY <1>3 DEF CallStop, Begin
<1>4. CASE CallTransition(c)
  <2>1. radio' = radio \/ radio' \in {"Idle", "Error"}
    BY <1>4 DEF CallTransition, Begin, SetRadio, Base, Orderly, HardwareReports
  <2> QED BY <1>4, <2>1 DEF CallTransition, Begin
<1> QED BY <1>1, <1>2, <1>3, <1>4 DEF Others

\* CallSchedule with its sequences given names.
LEMMA Schedules ==
    ASSUME Base, NEW c \in Calls, CallSchedule(c)
    PROVE  \E ts \in Seq(Templates), es \in Seq(EventSet) :
             /\ ts = Plan[c].events /\ ts # <<>> /\ BurstsStop(ts) /\ Plan[c].op = "schedule"
             /\ Len(es) = Len(ts)
             /\ \A i \in 1..Len(ts) : /\ es[i] \in EventSet /\ es[i].template = ts[i]
                                      /\ es[i].id = newIds + i - 1
             /\ left' = [left EXCEPT ![c] = es] /\ newIds' = newIds + Len(ts)
             /\ firstId' = [firstId EXCEPT ![c] = newIds]
             /\ called' = called \cup {c} /\ c \notin called
             /\ UNCHANGED <<events, stats, silenced, resched, cur, pc, seen, radio>>
<1>1. PICK ts : ts = Plan[c].events
  OBVIOUS
<1>2. ts \in Seq(Templates) /\ c \in DOMAIN Plan /\ Plan[c].op = "schedule"
  BY <1>1, PlanOf DEF CallSchedule, Base, Begin
<1>3. ts # <<>> /\ BurstsStop(ts)
  BY <1>1, <1>2 DEF Base, Orderly
<1>4. PICK es : es = [i \in 1..Len(ts) |-> Event(ts[i], "new", newIds + i - 1, c)]
  OBVIOUS
<1>6. newIds \in Nat
  BY DEF Base, Shapes, QueueShapes
<1>7. \A i \in 1..Len(ts) : Event(ts[i], "new", newIds + i - 1, c) \in EventSet
  BY <1>2, <1>6 DEF Event, EventSet
<1>5. \A i \in 1..Len(ts) : es[i] \in EventSet /\ es[i].template = ts[i] /\ es[i].id = newIds + i - 1
  BY <1>4, <1>7 DEF Event
<1>8. es \in Seq(EventSet) /\ Len(es) = Len(ts)
  BY <1>2, <1>4, <1>7
<1>9. /\ left' = [left EXCEPT ![c] = es] /\ newIds' = newIds + Len(ts)
      /\ firstId' = [firstId EXCEPT ![c] = newIds]
      /\ called' = called \cup {c} /\ c \notin called
      /\ UNCHANGED <<events, stats, silenced, resched, cur, pc, seen, radio>>
  BY <1>1, <1>4 DEF CallSchedule, Begin, threadVars
<1> QED BY <1>1, <1>2, <1>3, <1>5, <1>8, <1>9

\* Push likewise.
LEMMA Pushes ==
    ASSUME Base, NEW c \in Calls, Push(c)
    PROVE  \E s, rest \in Seq(EventSet), x \in EventSet :
             /\ s = left[c] /\ Len(s) \in Nat /\ 1 \in 1..Len(s) /\ x = s[1]
             /\ Len(rest) = Len(s) - 1 /\ \A i \in 1..Len(rest) : rest[i] = s[i + 1]
             /\ left' = [left EXCEPT ![c] = rest]
             /\ events' = events \cup {x} /\ x.counter = "new"
             /\ stats'.missed = stats.missed
             /\ UNCHANGED <<called, firstId, newIds, silenced, resched, cur, pc, seen, radio>>
<1>1. PICK s \in Seq(EventSet) : s = left[c] /\ s # <<>>
  BY DEF Push, Base, Shapes, QueueShapes
<1>2. PICK rest : rest = Tail(s)
  OBVIOUS
<1>3. PICK x : x = Head(s)
  OBVIOUS
<1>4. /\ Len(s) \in Nat /\ 1 \in 1..Len(s) /\ x = s[1] /\ x \in EventSet
      /\ rest \in Seq(EventSet) /\ Len(rest) = Len(s) - 1
  BY <1>1, <1>2, <1>3
<1>5. \A i \in 1..Len(rest) : rest[i] = s[i + 1]
  BY <1>1, <1>2, <1>4
<1>6. left' = [left EXCEPT ![c] = rest] /\ Insert({x})
  BY <1>1, <1>2, <1>3 DEF Push
<1>7. stats'.missed = stats.missed
  BY <1>6 DEF Insert, Base, Shapes, QueueShapes, Counts
<1>8. x.counter = "new"
  BY <1>1, <1>4 DEF Base, Ids, LeftIds
<1>9. /\ events' = events \cup {x}
      /\ UNCHANGED <<called, firstId, newIds, silenced, resched, cur, pc, seen, radio>>
  BY <1>6 DEF Push, Insert, threadVars
<1>10. /\ s = left[c] /\ Len(s) \in Nat /\ 1 \in 1..Len(s) /\ x = s[1]
       /\ Len(rest) = Len(s) - 1 /\ \A i \in 1..Len(rest) : rest[i] = s[i + 1]
  BY <1>1, <1>4, <1>5
<1>11. rest \in Seq(EventSet) /\ x \in EventSet
  BY <1>4
<1> QED BY <1>6, <1>7, <1>8, <1>9, <1>10, <1>11, Zenon

\* What the pop takes out is as early as any.
LEMMA Pops ==
    ASSUME Base, NEW t \in Threads, Pop(t)
    PROVE  \E x \in events :
             /\ events' = events \ {x} /\ cur' = [cur EXCEPT ![t] = {x}]
             /\ pc[t] = "pop" /\ pc' = [pc EXCEPT ![t] = "guard"]
             /\ \A f \in events : ~(f.template.deadline < x.template.deadline)
             /\ UNCHANGED <<left, called, firstId, silenced, newIds, resched, stats, radio, seen>>
<1>1. PICK x \in events : /\ \A f \in events : ~Before(f, x)
                          /\ events' = events \ {x} /\ cur' = [cur EXCEPT ![t] = {x}]
  BY DEF Pop, Due
<1> QED BY <1>1 DEF Pop, Before, Goto, callVars

\* What has the id of a call, or not, keeps it while no call begins to schedule.
LEMMA NamesStay ==
    ASSUME Base, [Next]_vars, UNCHANGED firstId, NEW c, called' \subseteq called \cup {c},
           Plan[c].op # "schedule" \/ called' = called
    PROVE  /\ \A d \in Calls : Scheduled(d)' => Scheduled(d)
           /\ FirstIfNamed \subseteq FirstIfNamed'
<1>1. Plan' = Plan
  BY PlanStays
<1>2. \A d \in Calls : Scheduled(d)' => Scheduled(d)
  BY <1>1 DEF Scheduled
<1> QED BY <1>1, <1>2 DEF FirstIfNamed

LEMMA SameFirsts ==
    ASSUME Base, Firsts, [Next]_vars, UNCHANGED <<left, firstId, resched>>,
           NEW c, called' \subseteq called \cup {c}, Plan[c].op # "schedule" \/ called' = called,
           newIds' \in Nat, newIds' >= newIds, events' \subseteq events
    PROVE  Firsts'
<1>1. \A d \in Calls : Scheduled(d)' => Scheduled(d)
  BY NamesStay
<1>2. FirstIfNamed \subseteq FirstIfNamed'
  BY NamesStay
<1>3. newIds \in Nat /\ \A d \in Calls : firstId[d] \in Nat
  BY DEF Base, Shapes, QueueShapes, RestShapes
<1>4. \A d \in Calls : Scheduled(d)' => firstId'[d] < newIds'
  BY <1>1, <1>3 DEF Firsts
<1>5. \A d \in Calls : \A i \in 1..Len(left'[d]) : left'[d][i] \in FirstIfNamed'
  BY <1>2 DEF Firsts
<1> QED BY <1>2, <1>4, <1>5 DEF Firsts

LEMMA StepFirsts ==
    ASSUME Base, Firsts, [Next]_vars
    PROVE  Firsts'
<1>0. Plan' = Plan /\ newIds \in Nat /\ firstId \in [Calls -> Nat]
  BY PlanStays DEF Base, Shapes, QueueShapes, RestShapes
<1>1. ASSUME NEW t \in Threads, Thread(t) PROVE Firsts'
  <2>1. CASE Idles(t)
    BY <1>0, <2>1, IdlesKeeps, SameFirsts
  <2>2. CASE Handles(t)
    BY <1>0, <2>2, HandlesKeeps, SameFirsts
  <2>3. CASE Pop(t)
    <3>1. events' \subseteq events /\ UNCHANGED <<left, firstId, resched, called, newIds>>
      BY <2>3, Pops
    <3> QED BY <1>0, <3>1, SameFirsts
  <2>4. CASE Arm(t)
    <3>1. PICK x : events' = events \cup {x} /\ x.counter = "new" /\ x.id = newIds
      BY <2>4, Arms
    <3>2. newIds' = newIds + 1 /\ UNCHANGED <<left, called, firstId, resched>>
      BY <2>4, Arms
    <3>3. \A d \in Calls : Scheduled(d) => firstId[d] < newIds /\ firstId[d] \in Nat
      BY <1>0 DEF Firsts
    <3>4. x \in EventSet
      BY <3>1, StepShapes DEF Base, Shapes, QueueShapes
    <3>5. x \in FirstIfNamed
      BY <1>0, <3>1, <3>3, <3>4 DEF FirstIfNamed
    <3>6. FirstIfNamed \subseteq FirstIfNamed' /\ \A d \in Calls : Scheduled(d)' => Scheduled(d)
      BY <3>2, NamesStay
    <3>7. \A d \in Calls : Scheduled(d)' => firstId'[d] < newIds'
      BY <1>0, <3>2, <3>3, <3>6
    <3>8. events' \subseteq FirstIfNamed' /\ \A e \in events' : e.counter = "new"
      BY <3>1, <3>5, <3>6 DEF Firsts
    <3>9. \A d \in Calls : \A i \in 1..Len(left'[d]) : left'[d][i] \in FirstIfNamed'
      BY <3>2, <3>6 DEF Firsts
    <3> QED BY <3>2, <3>7, <3>8, <3>9 DEF Firsts
  <2> QED BY <1>1, <2>1, <2>2, <2>3, <2>4, ThreadCases
<1>2. ASSUME NEW c \in Calls, Call(c) PROVE Firsts'
  <2>1. CASE Others(c)
    BY <1>0, <2>1, OthersKeep, SameFirsts
  <2>2. CASE Push(c)
    <3>1. PICK s \in Seq(EventSet), rest \in Seq(EventSet), x \in EventSet :
             /\ s = left[c] /\ Len(s) \in Nat /\ 1 \in 1..Len(s) /\ x = s[1]
             /\ Len(rest) = Len(s) - 1 /\ \A i \in 1..Len(rest) : rest[i] = s[i + 1]
             /\ left' = [left EXCEPT ![c] = rest]
             /\ events' = events \cup {x} /\ x.counter = "new"
             /\ UNCHANGED <<called, firstId, newIds, resched>>
      BY <2>2, Pushes
    <3>2. FirstIfNamed \subseteq FirstIfNamed' /\ \A d \in Calls : Scheduled(d)' => Scheduled(d)
      BY <3>1, NamesStay
    <3>3. \A i \in 1..Len(s) : s[i] \in FirstIfNamed
      BY <3>1 DEF Firsts
    <3>4. x \in FirstIfNamed /\ \A i \in 1..Len(rest) : rest[i] \in FirstIfNamed
      <4>1. \A i \in 1..Len(rest) : i + 1 \in 1..Len(s)
        BY <3>1
      <4> QED BY <3>1, <3>3, <4>1
    <3>5. \A d \in Calls : left'[d] = IF d = c THEN rest ELSE left[d]
      BY <3>1 DEF Base, Shapes, QueueShapes
    <3>6. \A d \in Calls : \A i \in 1..Len(left'[d]) : left'[d][i] \in FirstIfNamed'
      BY <3>2, <3>4, <3>5 DEF Firsts
    <3>7. events' \subseteq FirstIfNamed' /\ \A e \in events' : e.counter = "new"
      BY <3>1, <3>2, <3>4 DEF Firsts
    <3>8. \A d \in Calls : Scheduled(d)' => firstId'[d] < newIds'
      BY <3>1, <3>2 DEF Firsts
    <3> QED BY <3>1, <3>6, <3>7, <3>8 DEF Firsts
  <2>3. CASE CallSchedule(c)
    <3>1. PICK ts \in Seq(Templates), es \in Seq(EventSet) :
             /\ ts = Plan[c].events /\ ts # <<>>
             /\ Len(es) = Len(ts)
             /\ \A i \in 1..Len(ts) : /\ es[i] \in EventSet /\ es[i].template = ts[i]
                                      /\ es[i].id = newIds + i - 1
             /\ left' = [left EXCEPT ![c] = es] /\ newIds' = newIds + Len(ts)
             /\ firstId' = [firstId EXCEPT ![c] = newIds]
             /\ called' = called \cup {c} /\ c \notin called
             /\ UNCHANGED <<events, resched>>
      BY <2>3, Schedules
    <3>2. PICK n \in Nat : n = Len(ts) /\ n >= 1
      BY <3>1
    <3>3. \A d \in Calls : firstId'[d] = IF d = c THEN newIds ELSE firstId[d]
      BY <1>0, <3>1
    <3>4. \A d \in Calls : Scheduled(d)' => Scheduled(d) \/ d = c
      BY <1>0, <3>1 DEF Scheduled
    <3>5. \A d \in Calls : left'[d] = IF d = c THEN es ELSE left[d]
      BY <3>1 DEF Base, Shapes, QueueShapes
    <3>6. ASSUME NEW e \in FirstIfNamed, e.id < newIds PROVE e \in FirstIfNamed'
      <4>1. e \in EventSet /\ e.id \in Nat
        BY DEF FirstIfNamed, EventSet
      <4>2. ASSUME NEW d \in Calls, Scheduled(d)', e.id = firstId'[d] PROVE e.template = Plan'[d].events[1]
        <5>1. d # c
          BY <1>0, <3>3, <3>6, <4>1, <4>2
        <5>2. Scheduled(d) /\ e.id = firstId[d]
          BY <3>3, <3>4, <4>2, <5>1
        <5> QED BY <1>0, <5>2 DEF FirstIfNamed
      <4> QED BY <4>1, <4>2 DEF FirstIfNamed
    <3>7. \A e \in events : e.id < newIds
      BY DEF Firsts, Base, Ids, EventIds
    <3>8. events' \subseteq FirstIfNamed' /\ \A e \in events' : e.counter = "new"
      BY <3>1, <3>6, <3>7 DEF Firsts
    <3>9. ASSUME NEW d \in Calls, d # c, NEW i \in 1..Len(left'[d]) PROVE left'[d][i] \in FirstIfNamed'
      <4>1. left'[d] = left[d]
        BY <3>5, <3>9
      <4>2. left[d][i] \in FirstIfNamed /\ left[d][i].id < newIds
        BY <4>1 DEF Firsts, Base, Ids, LeftIds
      <4> QED BY <3>6, <4>1, <4>2
    <3>10. ASSUME NEW i \in 1..Len(es) PROVE es[i] \in FirstIfNamed'
      <4>1. i \in 1..n /\ es[i] \in EventSet /\ es[i].template = ts[i] /\ es[i].id = newIds + i - 1
        BY <3>1, <3>2
      <4>2. ASSUME NEW d \in Calls, Scheduled(d)', es[i].id = firstId'[d] PROVE es[i].template = Plan'[d].events[1]
        <5>1. CASE d = c
          <6>1. newIds + i - 1 = newIds
            BY <3>3, <4>1, <4>2, <5>1
          <6>2. i = 1
            BY <1>0, <3>2, <4>1, <6>1
          <6> QED BY <1>0, <3>1, <4>1, <5>1, <6>2
        <5>2. CASE d # c
          <6>1. firstId[d] < newIds /\ firstId[d] = newIds + i - 1 /\ firstId[d] \in Nat
            BY <1>0, <3>3, <3>4, <4>1, <4>2, <5>2 DEF Firsts
          <6> QED BY <1>0, <3>2, <4>1, <6>1
        <5> QED BY <5>1, <5>2
      <4> QED BY <4>1, <4>2 DEF FirstIfNamed
    <3>11. \A d \in Calls : \A i \in 1..Len(left'[d]) : left'[d][i] \in FirstIfNamed'
      BY <3>5, <3>9, <3>10
    <3>12. \A d \in Calls : Scheduled(d)' => firstId'[d] < newIds'
      <4>1. newIds' = newIds + n
        BY <3>1, <3>2
      <4>2. \A d \in Calls : Scheduled(d) => firstId[d] < newIds
        BY DEF Firsts
      <4> QED BY <1>0, <3>2, <3>3, <3>4, <4>1, <4>2
    <3> QED BY <3>1, <3>8, <3>11, <3>12 DEF Firsts
  <2> QED BY <1>2, <2>1, <2>2, <2>3, CallCases
<1>3. CASE Tick \/ UNCHANGED vars
  <2>1. UNCHANGED <<left, firstId, resched, called, newIds, events>>
    BY <1>3 DEF Tick, vars, threadVars, queueVars, callVars
  <2> QED BY <1>0, <2>1, SameFirsts
<1> QED BY <1>1, <1>2, <1>3 DEF Next

LEMMA StepLeftStops ==
    ASSUME Base, LeftStops, [Next]_vars
    PROVE  LeftStops'
<1>1. ASSUME UNCHANGED left PROVE LeftStops'
  BY <1>1 DEF LeftStops
<1>2. ASSUME NEW t \in Threads, Thread(t) PROVE LeftStops'
  BY <1>1, <1>2 DEF Thread, Check, Checked, Pop, PopNothing, Guard, Load, Cas, Exchange, Unhop, Arm, Reschedule,
                    Doze, Sleeping, Wake, callVars
<1>3. ASSUME NEW c \in Calls, Call(c) PROVE LeftStops'
  <2>1. CASE Others(c)
    BY <1>1, <2>1, OthersKeep
  <2>2. CASE Push(c)
    <3>1. PICK s \in Seq(EventSet), rest \in Seq(EventSet), x \in EventSet :
             /\ s = left[c] /\ Len(s) \in Nat /\ 1 \in 1..Len(s)
             /\ Len(rest) = Len(s) - 1 /\ \A i \in 1..Len(rest) : rest[i] = s[i + 1]
             /\ left' = [left EXCEPT ![c] = rest]
      BY <2>2, Pushes
    <3>2. \A i \in 1..Len(s) : s[i].template.action = "StartTx" =>
              \E j \in (i + 1)..Len(s) : Stops(s[j].template, s[i].template)
      BY <3>1 DEF LeftStops
    <3>3. ASSUME NEW i \in 1..Len(rest), rest[i].template.action = "StartTx"
          PROVE  \E j \in (i + 1)..Len(rest) : Stops(rest[j].template, rest[i].template)
      <4>1. i + 1 \in 1..Len(s) /\ rest[i] = s[i + 1]
        BY <3>1
      <4>2. PICK k \in (i + 2)..Len(s) : Stops(s[k].template, s[i + 1].template)
        <5>1. \E k \in ((i + 1) + 1)..Len(s) : Stops(s[k].template, s[i + 1].template)
          BY <3>2, <3>3, <4>1
        <5>2. (i + 1) + 1 = i + 2
          OBVIOUS
        <5> QED BY <5>1, <5>2
      <4>3. k - 1 \in (i + 1)..Len(rest) /\ rest[k - 1] = s[k]
        <5>1. k - 1 \in (i + 1)..Len(rest) /\ k - 1 \in 1..Len(rest) /\ (k - 1) + 1 = k
          BY <3>1
        <5> QED BY <3>1, <5>1
      <4> QED BY <4>1, <4>2, <4>3
    <3>4. \A d \in Calls : left'[d] = IF d = c THEN rest ELSE left[d]
      BY <3>1 DEF Base, Shapes, QueueShapes
    <3> QED BY <3>3, <3>4 DEF LeftStops
  <2>3. CASE CallSchedule(c)
    <3>1. PICK ts \in Seq(Templates), es \in Seq(EventSet) :
             /\ BurstsStop(ts) /\ Len(es) = Len(ts)
             /\ \A i \in 1..Len(ts) : /\ es[i] \in EventSet /\ es[i].template = ts[i]
                                      /\ es[i].id = newIds + i - 1
             /\ left' = [left EXCEPT ![c] = es]
      BY <2>3, Schedules
    <3>2. ASSUME NEW i \in 1..Len(es), es[i].template.action = "StartTx"
          PROVE  \E j \in (i + 1)..Len(es) : Stops(es[j].template, es[i].template)
      <4>1. PICK j \in (i + 1)..Len(ts) : Stops(ts[j], ts[i])
        BY <3>1, <3>2 DEF BurstsStop
      <4>2. j \in 1..Len(ts) /\ j \in (i + 1)..Len(es)
        BY <3>1
      <4> QED BY <3>1, <4>1, <4>2
    <3>3. \A d \in Calls : left'[d] = IF d = c THEN es ELSE left[d]
      BY <3>1 DEF Base, Shapes, QueueShapes
    <3> QED BY <3>2, <3>3 DEF LeftStops
  <2> QED BY <1>3, <2>1, <2>2, <2>3, CallCases
<1>4. CASE Tick \/ UNCHANGED vars
  BY <1>1, <1>4 DEF Tick, vars, callVars
<1> QED BY <1>2, <1>3, <1>4 DEF Next

\* What cancelling spares.
LEMMA OthersSpare ==
    ASSUME Base, Firsts, NEW c \in Calls, Others(c), NEW f \in events
    PROVE  /\ IsTimer(f.template) => f \in events'
           /\ f.template.action = "StopTx" => f \in events' \/ silenced' # {}
<1>1. CASE CallCancel(c)
  <2>1. PICK d : d = Plan[c].of
    OBVIOUS
  <2>2. c \in DOMAIN Plan /\ Plan[c].op = "cancel" /\ d \in called
        /\ events' = events \ {e \in events : e.id = firstId[d]}
    BY <1>1, <2>1 DEF CallCancel, Begin, Returned, Remove
  <2>3. SparesStops(d)
    BY <2>1, <2>2 DEF Base, Orderly
  <2>4. d \in Calls /\ Scheduled(d)
    BY <2>2, <2>3 DEF SparesStops, Scheduled, Base, Shapes, RestShapes
  <2>5. f.id = firstId[d] => f.template = Plan[d].events[1]
    BY <2>4 DEF Firsts, FirstIfNamed
  <2>6. f.id = firstId[d] => f.template.action \notin {"StopTx", "StateTransition"}
    BY <2>3, <2>5 DEF SparesStops
  <2> QED BY <2>2, <2>6 DEF IsTimer
<1>2. CASE CallCancelSource(c)
  <2>1. /\ c \in DOMAIN Plan /\ Plan[c].op = "cancel_source"
        /\ events' = events \ {e \in events : e.template.source = Plan[c].source}
        /\ silenced' = silenced \cup
             {e.call : e \in {g \in events : g.template.source = Plan[c].source /\ g.template.action = "StopTx"}}
    BY <1>2 DEF CallCancelSource, Begin, Remove
  <2>2. Plan[c].source # "none"
    BY <2>1 DEF Base, Orderly
  <2>3. IsTimer(f.template) => f \in events'
    BY <2>1, <2>2 DEF IsTimer
  <2>4. CASE f.template.action = "StopTx" /\ f.template.source = Plan[c].source
    <3>1. f.call \in silenced'
      BY <2>1, <2>4
    <3> QED BY <2>3, <3>1
  <2>5. CASE f.template.source # Plan[c].source
    BY <2>1, <2>3, <2>5
  <2> QED BY <2>3, <2>4, <2>5
<1>3. CASE CallRun(c) \/ CallStop(c) \/ CallTransition(c)
  BY <1>3 DEF CallRun, CallStop, CallTransition, queueVars
<1> QED BY <1>1, <1>2, <1>3 DEF Others

LEMMA PushWaiting ==
    ASSUME Base, NEW c \in Calls, Push(c)
    PROVE  Waiting \subseteq Waiting'
<1>1. PICK s \in Seq(EventSet), rest \in Seq(EventSet), x \in EventSet :
         /\ s = left[c] /\ Len(s) \in Nat /\ 1 \in 1..Len(s) /\ x = s[1]
         /\ Len(rest) = Len(s) - 1 /\ \A i \in 1..Len(rest) : rest[i] = s[i + 1]
         /\ left' = [left EXCEPT ![c] = rest]
         /\ events' = events \cup {x} /\ x.counter = "new"
  BY Pushes, SMTT(30)
<1>2. \A d \in Calls : left'[d] = IF d = c THEN rest ELSE left[d]
  BY <1>1 DEF Base, Shapes, QueueShapes
<1>3. ASSUME NEW d \in Calls, NEW i \in 1..Len(left[d])
      PROVE  left[d][i] \in events' \/ \E j \in 1..Len(left'[d]) : left[d][i] = left'[d][j]
  <2>1. CASE d = c /\ i = 1
    BY <1>1, <2>1
  <2>2. CASE d = c /\ i # 1
    <3>1. i - 1 \in 1..Len(rest) /\ (i - 1) + 1 = i
      BY <1>1, <2>2
    <3>2. rest[i - 1] = s[i]
      BY <1>1, <3>1
    <3> QED BY <1>1, <1>2, <2>2, <3>1, <3>2
  <2>3. CASE d # c
    BY <1>2, <2>3
  <2> QED BY <2>1, <2>2, <2>3
<1>4. ASSUME NEW f \in Waiting PROVE f \in Waiting'
  <2>1. f \in EventSet /\ (f \in events \/ \E d \in Calls : \E i \in 1..Len(left[d]) : f = left[d][i])
    BY DEF Waiting
  <2>2. events \subseteq events'
    BY <1>1
  <2>3. f \in events' \/ \E d \in Calls : \E j \in 1..Len(left'[d]) : f = left'[d][j]
    BY <1>3, <2>1, <2>2, SMTT(30)
  <2> QED BY <2>1, <2>3 DEF Waiting
<1> QED BY <1>4

LEMMA ScheduleWaiting ==
    ASSUME Base, Begun, NEW c \in Calls, CallSchedule(c)
    PROVE  Waiting \subseteq Waiting'
<1>1. PICK es : left' = [left EXCEPT ![c] = es]
  BY DEF CallSchedule
<1>2. UNCHANGED events /\ left[c] = <<>>
  BY DEF CallSchedule, Begin, Begun
<1>3. \A d \in Calls : left'[d] = IF d = c THEN es ELSE left[d]
  BY <1>1 DEF Base, Shapes, QueueShapes
<1>4. Len(left[c]) = 0
  BY <1>2
<1>5. ASSUME NEW d \in Calls, NEW i \in 1..Len(left[d]) PROVE left'[d] = left[d]
  BY <1>3, <1>4
<1> QED BY <1>2, <1>5 DEF Waiting

LEMMA StepBegun ==
    ASSUME Base, Begun, [Next]_vars
    PROVE  Begun'
<1>1. ASSUME UNCHANGED left, called \subseteq called' PROVE Begun'
  BY <1>1 DEF Begun
<1>2. ASSUME NEW t \in Threads, Thread(t) PROVE Begun'
  BY <1>1, <1>2 DEF Thread, Check, Checked, Pop, PopNothing, Guard, Load, Cas, Exchange, Unhop, Arm, Reschedule,
                    Doze, Sleeping, Wake, callVars
<1>3. ASSUME NEW c \in Calls, Call(c) PROVE Begun'
  <2>1. CASE Others(c)
    BY <1>1, <2>1, OthersKeep
  <2>2. CASE Push(c)
    <3>1. left[c] # <<>> /\ UNCHANGED called /\ left' = [left EXCEPT ![c] = Tail(@)]
      BY <2>2 DEF Push
    <3> QED BY <3>1 DEF Begun, Base, Shapes, QueueShapes
  <2>3. CASE CallSchedule(c)
    <3>1. called' = called \cup {c} /\ \E es : left' = [left EXCEPT ![c] = es]
      BY <2>3 DEF CallSchedule, Begin
    <3> QED BY <3>1 DEF Begun, Base, Shapes, QueueShapes
  <2> QED BY <1>3, <2>1, <2>2, <2>3, CallCases
<1>4. CASE Tick \/ UNCHANGED vars
  BY <1>1, <1>4 DEF Tick, vars, callVars
<1> QED BY <1>2, <1>3, <1>4 DEF Next

\* The only thread in the loop.
LEMMA OnlyOne ==
    ASSUME Base, NEW t \in Threads, pc[t] # "off"
    PROVE  \A u \in Threads : u # t => pc[u] = "off" /\ cur[u] = {}
<1>1. \A u \in Threads : u # t => pc[u] = "off"
  BY DEF Base, Runners
<1> QED BY <1>1 DEF Base, Shapes, ThreadShapes, Holding

LEMMA ThreadAlone ==
    ASSUME Base, NEW t \in Threads, Thread(t)
    PROVE  /\ \A u \in Threads : u # t => pc[u] = "off" /\ cur[u] = {} /\ pc'[u] = "off" /\ cur'[u] = {}
           /\ pc[t] # "off"
<1>1. pc[t] # "off" /\ \E p \in Point : pc' = [pc EXCEPT ![t] = p]
  BY ThreadMoves DEF Base
<1>2. \A u \in Threads : u # t => pc'[u] = pc[u]
  BY <1>1 DEF Base, Shapes, ThreadShapes
<1>3. Shapes'
  BY StepShapes DEF Base, Next
<1> QED BY <1>1, <1>2, <1>3, OnlyOne DEF Shapes, ThreadShapes, Holding

\* What handling does with the event at hand: it stays, or is done with.
LEMMA HandlesCur ==
    ASSUME Base, NEW t \in Threads, Handles(t)
    PROVE  cur'[t] \subseteq cur[t]
<1>0. TRUE \in BOOLEAN /\ FALSE \in BOOLEAN /\ cur \in [Threads -> SUBSET EventSet]
  BY DEF Base, Shapes, ThreadShapes
<1>1. \/ \E e \in cur[t] : Finish(t, e, TRUE) \/ Finish(t, e, FALSE)
      \/ UNCHANGED cur
  <2>1. CASE Guard(t)
    BY <2>1 DEF Guard
  <2>2. CASE Load(t)
    BY <2>2 DEF Load
  <2>3. CASE Cas(t)
    BY <2>3 DEF Cas, Exchange, SetRadio
  <2>4. CASE Unhop(t)
    BY <2>4 DEF Unhop
  <2> QED BY <2>1, <2>2, <2>3, <2>4 DEF Handles
<1>2. CASE UNCHANGED cur
  BY <1>2
<1>3. CASE \E e \in cur[t] : Finish(t, e, TRUE) \/ Finish(t, e, FALSE)
  <2>1. cur' = [cur EXCEPT ![t] = {}]
    BY <1>3 DEF Finish
  <2> QED BY <1>0, <2>1
<1> QED BY <1>1, <1>2, <1>3

LEMMA StepPartners ==
    ASSUME Base, Firsts, Begun, LeftStops, Partners, [Next]_vars
    PROVE  Partners'
<1>0. ASSUME silenced # {}, silenced \subseteq silenced' PROVE Partners'
  BY <1>0 DEF Partners
<1> DEFINE P(e) == e.template.action = "StartTx" => Ahead(e)
<1>1. ASSUME Waiting \subseteq Waiting', NEW e PROVE P(e) => P(e)'
  BY <1>1 DEF Ahead
<1>2. ASSUME silenced = {}, Waiting \subseteq Waiting',
             \A e \in events' : e \in events \/ P(e),
             \A u \in Threads : \A e \in cur'[u] : e \in cur[u]
      PROVE  Partners'
  <2>1. ASSUME NEW e \in events' PROVE P(e)'
    BY <1>1, <1>2, <2>1 DEF Partners
  <2>2. ASSUME NEW u \in Threads, NEW e \in cur'[u] PROVE P(e)'
    BY <1>1, <1>2, <2>2 DEF Partners
  <2> QED BY <2>1, <2>2 DEF Partners
<1> HIDE DEF P
<1>3. ASSUME NEW t \in Threads, Thread(t) PROVE Partners'
  <2>0. /\ pc[t] # "off" 
        /\ \A u \in Threads : u # t => pc[u] = "off" /\ cur[u] = {} /\ pc'[u] = "off" /\ cur'[u] = {}
    BY <1>3, ThreadAlone
  <2>1. CASE Idles(t)
    <3>1. UNCHANGED <<events, left, silenced, cur>>
      BY <2>1, IdlesKeeps
    <3>2. Waiting \subseteq Waiting'
      BY <3>1 DEF Waiting
    <3> QED BY <1>0, <1>2, <3>1, <3>2
  <2>2. CASE Handles(t)
    <3>1. UNCHANGED <<events, left, silenced>> /\ cur'[t] \subseteq cur[t]
      BY <2>2, HandlesKeeps, HandlesCur
    <3>2. Waiting \subseteq Waiting'
      BY <3>1 DEF Waiting
    <3>3. \A u \in Threads : \A e \in cur'[u] : e \in cur[u]
      BY <2>0, <3>1
    <3> QED BY <1>0, <1>2, <3>1, <3>2, <3>3
  <2>3. CASE Pop(t)
    <3>1. PICK x \in events :
             /\ events' = events \ {x} /\ cur' = [cur EXCEPT ![t] = {x}]
             /\ \A f \in events : ~(f.template.deadline < x.template.deadline)
             /\ UNCHANGED <<left, silenced>>
      BY <2>3, Pops
    <3>2. CASE silenced = {}
      <4>1. \A e \in events : e.template.action = "StartTx" => Ahead(e)
        BY <3>2 DEF Partners
      <4>2. \A e \in EventSet : e.template.deadline \in Nat
        BY DEF EventSet, Templates
      <4>3. events \subseteq EventSet
        BY DEF Base, Shapes, QueueShapes
      <4>4. ASSUME NEW e \in events, e.template.action = "StartTx" PROVE Ahead(e)'
        <5>1. PICK f \in Waiting : Stops(f.template, e.template)
          BY <4>1, <4>4 DEF Ahead
        <5>2. e.template.deadline < f.template.deadline
          BY <5>1 DEF Stops
        <5>3. f # x
          BY <3>1, <5>2
        <5>4. f \in Waiting'
          BY <3>1, <5>3 DEF Waiting
        <5> QED BY <5>1, <5>4 DEF Ahead
      <4>5. \A u \in Threads : \A e \in cur'[u] : e \in events
        BY <2>0, <3>1 DEF Base, Shapes, ThreadShapes
      <4> QED BY <3>1, <4>4, <4>5 DEF Partners
    <3> QED BY <1>0, <3>1, <3>2
  <2>4. CASE Arm(t)
    <3>1. PICK x : events' = events \cup {x} /\ IsTimer(x.template)
      BY <2>4, Arms
    <3>2. UNCHANGED <<left, silenced>> /\ cur' = [cur EXCEPT ![t] = {}]
      BY <2>4, Arms
    <3>3. Waiting \subseteq Waiting'
      BY <3>1, <3>2 DEF Waiting
    <3>4. \A e \in events' : e \in events \/ P(e)
      BY <3>1 DEF P, IsTimer
    <3>5. \A u \in Threads : \A e \in cur'[u] : e \in cur[u]
      BY <3>2 DEF Base, Shapes, ThreadShapes
    <3> QED BY <1>0, <1>2, <3>2, <3>3, <3>4, <3>5
  <2> QED BY <1>3, <2>1, <2>2, <2>3, <2>4, ThreadCases
<1>4. ASSUME NEW c \in Calls, Call(c) PROVE Partners'
  <2>1. CASE Others(c)
    <3>1. events' \subseteq events /\ UNCHANGED <<left, cur>> /\ silenced \subseteq silenced'
      BY <2>1, OthersKeep
    <3>2. CASE silenced' = {}
      <4>1. ASSUME NEW e, Ahead(e) PROVE Ahead(e)'
        <5>1. PICK f \in Waiting : Stops(f.template, e.template)
          BY <4>1 DEF Ahead
        <5>2. f \in events => f \in events'
          BY <2>1, <3>2, <5>1, OthersSpare DEF Stops, IsStop
        <5>3. f \in Waiting'
          BY <3>1, <5>2 DEF Waiting
        <5> QED BY <5>1, <5>3 DEF Ahead
      <4>2. silenced = {}
        BY <3>1, <3>2
      <4> QED BY <3>1, <4>1, <4>2 DEF Partners
    <3>3. CASE silenced' # {}
      BY <3>3 DEF Partners
    <3> QED BY <3>2, <3>3
  <2>2. CASE Push(c)
    <3>1. PICK s \in Seq(EventSet), rest \in Seq(EventSet), x \in EventSet :
             /\ s = left[c] /\ Len(s) \in Nat /\ 1 \in 1..Len(s) /\ x = s[1]
             /\ Len(rest) = Len(s) - 1 /\ \A i \in 1..Len(rest) : rest[i] = s[i + 1]
             /\ left' = [left EXCEPT ![c] = rest]
             /\ events' = events \cup {x} /\ x.counter = "new"
             /\ UNCHANGED <<silenced, cur>>
      BY <2>2, Pushes
    <3>2. Waiting \subseteq Waiting'
      BY <2>2, PushWaiting
    <3>3. x.template.action = "StartTx" => Ahead(x)
      <4>1. ASSUME x.template.action = "StartTx" PROVE Ahead(x)
        <5>1. PICK j \in (1 + 1)..Len(s) : Stops(s[j].template, s[1].template)
          BY <3>1, <4>1 DEF LeftStops
        <5>2. j \in 1..Len(s)
          BY <3>1
        <5>3. s[j] \in Waiting
          BY <3>1, <5>2 DEF Waiting
        <5> QED BY <3>1, <5>1, <5>3 DEF Ahead
      <4> QED BY <4>1
    <3>4. P(x)
      BY <3>3 DEF P
    <3> QED BY <1>0, <1>2, <3>1, <3>2, <3>4
  <2>3. CASE CallSchedule(c)
    <3>1. UNCHANGED <<events, silenced, cur>>
      BY <2>3 DEF CallSchedule, threadVars
    <3>2. Waiting \subseteq Waiting'
      BY <2>3, ScheduleWaiting
    <3> QED BY <1>0, <1>2, <3>1, <3>2
  <2> QED BY <1>4, <2>1, <2>2, <2>3, CallCases
<1>5. CASE Tick \/ UNCHANGED vars
  <2>1. UNCHANGED <<events, left, silenced, cur>>
    BY <1>5 DEF Tick, vars, threadVars, queueVars, callVars
  <2>2. Waiting \subseteq Waiting'
    BY <2>1 DEF Waiting
  <2> QED BY <1>0, <1>2, <2>1, <2>2
<1> QED BY <1>3, <1>4, <1>5 DEF Next

LEMMA StepSights ==
    ASSUME Base, Sights, [Next]_vars
    PROVE  Sights'
<1>1. ASSUME NEW t \in Threads, Thread(t) PROVE Sights'
  <2>0. \A u \in Threads : u # t => pc'[u] = "off"
    BY <1>1, ThreadAlone
  <2>1. CASE Load(t)
    <3>1. PICK e \in cur[t] :
            \/ Finish(t, e, TRUE) \/ Finish(t, e, FALSE)
            \/ /\ seen' = [seen EXCEPT ![t] = FromOf(e)]
               /\ Goto(t, "cas") /\ UNCHANGED <<cur, radio>>
      BY <2>1 DEF Load
    <3>2. CASE Finish(t, e, TRUE) \/ Finish(t, e, FALSE)
      <4>1. pc'[t] = "pop"
        BY <3>2 DEF Finish, Goto, Base, Shapes, ThreadShapes
      <4> QED BY <2>0, <4>1 DEF Sights
    <3>3. CASE /\ seen' = [seen EXCEPT ![t] = FromOf(e)]
               /\ Goto(t, "cas") /\ UNCHANGED <<cur, radio>>
      <4>1. cur'[t] = cur[t] /\ seen'[t] = FromOf(e) /\ \A f \in cur[t] : f = e
        BY <3>3 DEF Base, Shapes, ThreadShapes, Single
      <4>2. /\ e.template.action = "StopTx" => FromOf(e) = "Transmitting"
            /\ e.template.action = "StateTransition" => FromOf(e) = radio
        BY DEF FromOf
      <4> QED BY <2>0, <3>3, <4>1, <4>2 DEF Sights
    <3> QED BY <3>1, <3>2, <3>3
  <2>2. CASE ~Load(t)
    <3>1. pc'[t] # "cas"
      <4>1. CASE Cas(t)
        BY <4>1 DEF Cas, Exchange, Finish, Goto, Base, Shapes, ThreadShapes
      <4>2. CASE ~Cas(t)
        BY <1>1, <2>2, <4>2 DEF Thread, Check, Checked, Pop, PopNothing, Guard, Unhop, Arm, Finish, Reschedule,
                                Doze, Sleeping, Wake, Goto, Base, Shapes, ThreadShapes
      <4> QED BY <4>1, <4>2
    <3> QED BY <2>0, <3>1 DEF Sights
  <2> QED BY <2>1, <2>2
<1>2. ASSUME UNCHANGED <<cur, seen>>, \A u \in Threads : pc'[u] = pc[u] \/ pc'[u] = "check",
             radio' = radio \/ radio' \in {"Idle", "Error"}
      PROVE  Sights'
  BY <1>2 DEF Sights
<1>3. ASSUME NEW c \in Calls, Call(c) PROVE Sights'
  <2>1. CASE Others(c)
    BY <1>2, <2>1, OthersKeep
  <2>2. CASE Push(c)
    BY <1>2, <2>2, Pushes
  <2>3. CASE CallSchedule(c)
    BY <1>2, <2>3, Schedules
  <2> QED BY <1>3, <2>1, <2>2, <2>3, CallCases
<1>4. CASE Tick \/ UNCHANGED vars
  BY <1>2, <1>4 DEF Tick, vars, threadVars
<1> QED BY <1>1, <1>3, <1>4 DEF Next

\* Events are dropped late for good.
LEMMA MissedGrows ==
    ASSUME Base, Firsts, [Next]_vars, stats.missed > 0
    PROVE  stats'.missed > 0
<1>0. stats.missed \in Nat /\ stats \in Counts
  BY DEF Base, Shapes, QueueShapes, Counts
<1>1. ASSUME NEW t \in Threads, Thread(t) PROVE stats'.missed > 0
  <2>1. CASE Guard(t)
    <3>1. PICK e \in cur[t] :
            \/ stats' = [stats EXCEPT !.blocked = @ + 1] \/ stats' = [stats EXCEPT !.missed = @ + 1]
            \/ stats' = [stats EXCEPT !.executed = @ + 1]
      BY <2>1 DEF Guard
    <3>2. stats'.missed = stats.missed \/ stats'.missed = stats.missed + 1
      BY <1>0, <3>1 DEF Counts
    <3> QED BY <1>0, <3>2
  <2>2. CASE Load(t) \/ Cas(t) \/ Unhop(t) \/ Pop(t)
    BY <2>2 DEF Load, Cas, Exchange, Unhop, Pop
  <2>3. CASE Idles(t) \/ Arm(t)
    BY <2>3, IdlesKeeps, Arms
  <2> QED BY <1>1, <2>1, <2>2, <2>3, ThreadCases DEF Handles
<1>2. ASSUME NEW c \in Calls, Call(c) PROVE stats'.missed > 0
  <2>1. CASE Push(c)
    BY <2>1, Pushes
  <2>2. CASE CallSchedule(c)
    BY <2>2 DEF CallSchedule
  <2>3. CASE Others(c)
    BY <2>3, OthersKeep
  <2> QED BY <1>2, <2>1, <2>2, <2>3, CallCases
<1>3. CASE Tick \/ UNCHANGED vars
  BY <1>3 DEF Tick, vars, queueVars
<1> QED BY <1>1, <1>2, <1>3 DEF Next

\* An unguarded event passes the guard or is late.
LEMMA PassesGuard ==
    ASSUME Base, NEW t \in Threads, Guard(t), NEW f \in cur[t], f.template.guard = "none"
    PROVE  stats'.missed > 0 \/ (pc' = [pc EXCEPT ![t] = "act"] /\ UNCHANGED cur)
<1>1. PICK e \in cur[t] :
        CASE ~GuardPasses(e, radio) ->
               /\ stats' = [stats EXCEPT !.blocked = @ + 1]
               /\ Finish(t, e, FALSE)
          [] GuardPasses(e, radio) /\ passNow[t] - e.template.deadline > Tolerance ->
               /\ stats' = [stats EXCEPT !.missed = @ + 1]
               /\ Finish(t, e, FALSE)
          [] OTHER ->
               /\ stats' = [stats EXCEPT !.executed = @ + 1]
               /\ Goto(t, "act")
               /\ UNCHANGED <<cur, resched, nextIds>>
  BY DEF Guard
<1>2. e = f
  BY DEF Base, Single
<1>3. GuardPasses(e, radio)
  BY <1>2 DEF GuardPasses
<1>4. CASE passNow[t] - e.template.deadline > Tolerance
  <2>1. stats' = [stats EXCEPT !.missed = @ + 1]
    BY <1>1, <1>3, <1>4
  <2>2. PICK m \in Nat : m = stats.missed
    BY DEF Base, Shapes, QueueShapes, Counts
  <2>3. stats'.missed = m + 1
    BY <2>1, <2>2 DEF Base, Shapes, QueueShapes, Counts
  <2>4. m + 1 > 0
    OBVIOUS
  <2> QED BY <2>3, <2>4
<1>5. CASE ~(passNow[t] - e.template.deadline > Tolerance)
  BY <1>1, <1>3, <1>5 DEF Goto
<1> QED BY <1>4, <1>5

\* The targets that matter.
LEMMA PlainTargets ==
    ASSUME Base, NEW t \in Threads, NEW e \in cur[t]
    PROVE  /\ TargetOf(e) = "Transmitting" => e.template.action = "StartTx"
           /\ TargetOf(e) \in Turnarounds => e.template.action \in {"StopTx", "StopRx"}
<1>1. e.template \in Plain
  BY DEF Base, AllIn
<1> QED BY <1>1 DEF Plain, TargetOf, Turnarounds

\* A StopTx that a thread holds while the radio transmits works, and so does
\* a timer in a turnaround.
LEMMA StopWorks ==
    ASSUME Base, Sights, NEW t \in Threads, Handles(t), Working(t), NEW f \in cur[t], IsStop(f.template),
           radio' = "Transmitting", radio = "Transmitting"
    PROVE  stats'.missed > 0 \/ (Working(t)' /\ f \in cur'[t])
<1>0. pc \in [Threads -> Point] /\ cur \in [Threads -> SUBSET EventSet] /\ \A e \in cur[t] : e = f
  BY DEF Base, Shapes, ThreadShapes, Single
<1>1. CASE Guard(t)
  <2>1. CASE pc' = [pc EXCEPT ![t] = "act"] /\ UNCHANGED cur
    BY <1>0, <2>1 DEF Working
  <2> QED BY <1>1, <2>1, PassesGuard DEF IsStop
<1>2. CASE Load(t)
  <2>1. ~NoEffect(f) /\ f.template.action # "Reset"
    BY DEF NoEffect, IsStop
  <2>2. Admits(f, FromOf(f))
    BY DEF Admits, FromOf, IsStop, TargetOf, CanTransitionTo, ValidTransitions
  <2>3. Goto(t, "cas") /\ UNCHANGED cur
    BY <1>0, <1>2, <2>1, <2>2 DEF Load
  <2> QED BY <1>0, <2>3 DEF Goto, Working
<1>3. CASE Cas(t)
  <2>1. seen[t] = "Transmitting"
    BY <1>3 DEF Sights, IsStop, Cas, Exchange
  <2>2. radio' = TargetOf(f)
    BY <1>0, <1>3, <2>1 DEF Cas, Exchange, SetRadio
  <2> QED BY <2>2 DEF TargetOf, IsStop
<1>4. CASE Unhop(t)
  BY <1>4 DEF Unhop, SetRadio
<1> QED BY <1>1, <1>2, <1>3, <1>4 DEF Handles

LEMMA TimerWorks ==
    ASSUME Base, Sights, NEW t \in Threads, Handles(t), Working(t), NEW f \in cur[t], IsTimer(f.template),
           radio' \in Turnarounds, radio \in Turnarounds
    PROVE  stats'.missed > 0 \/ (Working(t)' /\ f \in cur'[t])
<1>0. pc \in [Threads -> Point] /\ cur \in [Threads -> SUBSET EventSet] /\ \A e \in cur[t] : e = f
  BY DEF Base, Shapes, ThreadShapes, Single
<1>1. CASE Guard(t)
  <2>1. CASE pc' = [pc EXCEPT ![t] = "act"] /\ UNCHANGED cur
    BY <1>0, <2>1 DEF Working
  <2> QED BY <1>1, <2>1, PassesGuard DEF IsTimer
<1>2. CASE Load(t)
  <2>1. ~NoEffect(f) /\ f.template.action # "Reset"
    BY DEF NoEffect, IsTimer
  <2>2. Admits(f, FromOf(f))
    BY DEF Admits, FromOf, IsTimer, TargetOf, CanTransitionTo, ValidTransitions, Turnarounds
  <2>3. Goto(t, "cas") /\ UNCHANGED cur
    BY <1>0, <1>2, <2>1, <2>2 DEF Load
  <2> QED BY <1>0, <2>3 DEF Goto, Working
<1>3. CASE Cas(t)
  <2>1. radio = seen[t]
    BY <1>3 DEF Sights, IsTimer, Cas, Exchange, Turnarounds
  <2>2. radio' = TargetOf(f)
    BY <1>0, <1>3, <2>1 DEF Cas, Exchange, SetRadio
  <2> QED BY <2>2 DEF TargetOf, IsTimer, Turnarounds
<1>4. CASE Unhop(t)
  BY <1>4 DEF Unhop, SetRadio, Turnarounds
<1> QED BY <1>1, <1>2, <1>3, <1>4 DEF Handles

\* How handling an event moves the radio.
LEMMA HandlesRadio ==
    ASSUME Base, NEW t \in Threads, Handles(t)
    PROVE  \/ radio' = radio \/ radio' = "Idle"
           \/ \E e \in cur[t] : /\ radio' = TargetOf(e)
                                /\ e.template.action \in {"StopTx", "StopRx"} => pc' = [pc EXCEPT ![t] = "arm"]
<1>1. CASE Guard(t)
  BY <1>1 DEF Guard
<1>2. CASE Load(t)
  BY <1>2 DEF Load, SetRadio
<1>3. CASE Cas(t)
  <2>1. PICK e \in cur[t] :
          \/ UNCHANGED radio
          \/ /\ radio' = TargetOf(e)
             /\ e.template.action \in {"StopTx", "StopRx"} => Goto(t, "arm")
    BY <1>3 DEF Cas, Exchange, SetRadio
  <2> QED BY <2>1 DEF Goto
<1>4. CASE Unhop(t)
  BY <1>4 DEF Unhop, SetRadio
<1> QED BY <1>1, <1>2, <1>3, <1>4 DEF Handles

LEMMA StepStoppable ==
    ASSUME SInv, [Next]_vars
    PROVE  Stoppable'
<1> USE DEF SInv
<1> SUFFICES ASSUME radio' = "Transmitting", ~(stats'.missed > 0), silenced' = {} PROVE Stoppable'
  BY DEF Stoppable
<1>0. ~(stats.missed > 0)
  BY MissedGrows
<1>1. ASSUME NEW f \in Waiting', IsStop(f.template) PROVE Stoppable'
  BY <1>1 DEF Stoppable
<1>2. ASSUME NEW u \in Threads, Working(u)', NEW f \in cur'[u], IsStop(f.template) PROVE Stoppable'
  BY <1>2 DEF Stoppable
<1> DEFINE Held == \E f \in Waiting : IsStop(f.template)
           AtWork == \E u \in Threads : Working(u) /\ \E f \in cur[u] : IsStop(f.template)
<1>3. ASSUME radio = "Transmitting", silenced = {} PROVE Held \/ AtWork
  BY <1>0, <1>3 DEF Stoppable
<1>4. ASSUME NEW t \in Threads, Thread(t) PROVE Stoppable'
  <2>0. /\ pc[t] # "off"
        /\ \A u \in Threads : u # t => pc[u] = "off" /\ cur[u] = {} /\ pc'[u] = "off" /\ cur'[u] = {}
    BY <1>4, ThreadAlone
  <2>1. CASE Idles(t)
    <3>1. /\ UNCHANGED <<events, left, silenced, radio>>
          /\ pc[t] \in {"check", "pop", "doze", "asleep", "resched"}
      BY <2>1, IdlesKeeps
    <3>2. ~AtWork
      BY <2>0, <3>1 DEF Working
    <3>3. Waiting' = Waiting
      BY <3>1 DEF Waiting
    <3> QED BY <1>1, <1>3, <3>1, <3>2, <3>3
  <2>2. CASE Handles(t)
    <3>1. UNCHANGED <<events, left, silenced>>
      BY <2>2, HandlesKeeps
    <3>2. Waiting' = Waiting
      BY <3>1 DEF Waiting
    <3>3. CASE Held
      BY <1>1, <3>2, <3>3
    <3>4. CASE radio = "Transmitting" /\ AtWork
      <4>1. Working(t) /\ \E f \in cur[t] : IsStop(f.template)
        BY <2>0, <3>4
      <4>2. PICK f \in cur[t] : IsStop(f.template)
        BY <4>1
      <4>3. Working(t)' /\ f \in cur'[t]
        BY <2>2, <3>4, <4>1, <4>2, StopWorks
      <4> QED BY <1>2, <4>2, <4>3
    <3>5. CASE radio # "Transmitting"
      <4>1. PICK e \in cur[t] : radio' = TargetOf(e)
        BY <2>2, <3>5, HandlesRadio
      <4>2. e.template.action = "StartTx"
        BY <4>1, PlainTargets
      <4>3. Ahead(e)
        BY <3>1, <4>2 DEF Partners
      <4> QED BY <3>3, <4>3 DEF Ahead, Stops
    <3> QED BY <1>3, <3>1, <3>3, <3>4, <3>5
  <2>3. CASE Pop(t)
    <3>1. PICK x \in events :
             /\ events' = events \ {x} /\ cur' = [cur EXCEPT ![t] = {x}]
             /\ pc[t] = "pop" /\ pc' = [pc EXCEPT ![t] = "guard"]
             /\ UNCHANGED <<left, silenced, radio>>
      BY <2>3, Pops
    <3>2. ~AtWork
      BY <2>0, <3>1 DEF Working
    <3>3. PICK f \in Waiting : IsStop(f.template)
      BY <1>3, <3>1, <3>2
    <3>4. CASE f = x
      <4>1. x \in cur'[t] /\ Working(t)'
        BY <3>1 DEF Base, Shapes, ThreadShapes, Working
      <4> QED BY <1>2, <3>3, <3>4, <4>1
    <3>5. CASE f # x
      <4>1. f \in Waiting'
        BY <3>1, <3>5 DEF Waiting
      <4> QED BY <1>1, <3>3, <4>1
    <3> QED BY <3>4, <3>5
  <2>4. CASE Arm(t)
    <3>1. events \subseteq events' /\ UNCHANGED <<left, silenced, radio>> /\ pc[t] = "arm"
      BY <2>4, Arms
    <3>2. ~AtWork
      BY <2>0, <3>1 DEF Working
    <3>3. Waiting \subseteq Waiting'
      BY <3>1 DEF Waiting
    <3> QED BY <1>1, <1>3, <3>1, <3>2, <3>3
  <2> QED BY <1>4, <2>1, <2>2, <2>3, <2>4, ThreadCases
<1>5. ASSUME UNCHANGED cur, \A u \in Threads : pc[u] # "off" => pc'[u] = pc[u],
             AtWork
      PROVE  Stoppable'
  <2>1. PICK u \in Threads : Working(u) /\ \E f \in cur[u] : IsStop(f.template)
    BY <1>5
  <2>2. Working(u)'
    BY <1>5, <2>1 DEF Working
  <2> QED BY <1>2, <1>5, <2>1, <2>2
<1>6. ASSUME NEW c \in Calls, Call(c) PROVE Stoppable'
  <2>1. CASE Others(c)
    <3>1. /\ events' \subseteq events /\ UNCHANGED <<left, cur>> /\ silenced \subseteq silenced'
          /\ \A u \in Threads : pc[u] # "off" => pc'[u] = pc[u]
          /\ radio' = radio \/ radio' \in {"Idle", "Error"}
      BY <2>1, OthersKeep
    <3>2. Held \/ AtWork
      BY <1>3, <3>1
    <3>3. CASE Held
      <4>1. PICK f \in Waiting : IsStop(f.template)
        BY <3>3
      <4>2. f \in events => f \in events'
        BY <2>1, <4>1, OthersSpare DEF IsStop
      <4>3. f \in Waiting'
        BY <3>1, <4>2 DEF Waiting
      <4> QED BY <1>1, <4>1, <4>3
    <3> QED BY <1>5, <3>1, <3>2, <3>3
  <2>2. CASE Push(c) \/ CallSchedule(c)
    <3>1. UNCHANGED <<cur, pc, radio, silenced>>
      BY <2>2 DEF Push, CallSchedule, threadVars
    <3>2. Waiting \subseteq Waiting'
      BY <2>2, PushWaiting, ScheduleWaiting
    <3> QED BY <1>1, <1>3, <1>5, <3>1, <3>2
  <2> QED BY <1>6, <2>1, <2>2, CallCases
<1>7. CASE Tick \/ UNCHANGED vars
  <2>1. UNCHANGED <<events, left, silenced, cur, pc, radio>>
    BY <1>7 DEF Tick, vars, threadVars, queueVars, callVars
  <2>2. Waiting' = Waiting
    BY <2>1 DEF Waiting
  <2> QED BY <1>1, <1>3, <1>5, <2>1, <2>2
<1> QED BY <1>4, <1>6, <1>7 DEF Next

LEMMA StepEnding ==
    ASSUME SInv, [Next]_vars
    PROVE  Ending'
<1> USE DEF SInv
<1> SUFFICES ASSUME radio' \in Turnarounds, ~(stats'.missed > 0) PROVE Ending'
  BY DEF Ending
<1>0. ~(stats.missed > 0)
  BY MissedGrows
<1>1. ASSUME NEW f \in events', IsTimer(f.template) PROVE Ending'
  BY <1>1 DEF Ending
<1>2. ASSUME NEW u \in Threads, Working(u)', NEW f \in cur'[u], IsTimer(f.template) PROVE Ending'
  BY <1>2 DEF Ending
<1>3. ASSUME NEW u \in Threads, pc'[u] = "arm" PROVE Ending'
  BY <1>3 DEF Ending
<1> DEFINE Held == \E f \in events : IsTimer(f.template)
           AtWork == \E u \in Threads : Working(u) /\ \E f \in cur[u] : IsTimer(f.template)
           Arming == \E u \in Threads : pc[u] = "arm"
<1>4. ASSUME radio \in Turnarounds PROVE Held \/ AtWork \/ Arming
  BY <1>0, <1>4 DEF Ending
<1>5. ASSUME NEW t \in Threads, Thread(t) PROVE Ending'
  <2>0. /\ pc[t] # "off"
        /\ \A u \in Threads : u # t => pc[u] = "off" /\ cur[u] = {} /\ pc'[u] = "off" /\ cur'[u] = {}
    BY <1>5, ThreadAlone
  <2>1. CASE Idles(t)
    <3>1. UNCHANGED <<events, radio>> /\ pc[t] \in {"check", "pop", "doze", "asleep", "resched"}
      BY <2>1, IdlesKeeps
    <3>2. ~AtWork /\ ~Arming
      BY <2>0, <3>1 DEF Working
    <3> QED BY <1>1, <1>4, <3>1, <3>2
  <2>2. CASE Handles(t)
    <3>1. UNCHANGED events
      BY <2>2, HandlesKeeps
    <3>2. pc[t] # "arm"
      BY <2>2 DEF Handles, Guard, Load, Cas, Exchange, Unhop
    <3>3. CASE Held
      BY <1>1, <3>1, <3>3
    <3>4. CASE radio \in Turnarounds /\ AtWork
      <4>1. Working(t) /\ \E f \in cur[t] : IsTimer(f.template)
        BY <2>0, <3>4
      <4>2. PICK f \in cur[t] : IsTimer(f.template)
        BY <4>1
      <4>3. Working(t)' /\ f \in cur'[t]
        BY <2>2, <3>4, <4>1, <4>2, TimerWorks
      <4> QED BY <1>2, <4>2, <4>3
    <3>5. CASE radio \notin Turnarounds
      <4>1. PICK e \in cur[t] : /\ radio' = TargetOf(e)
                                /\ e.template.action \in {"StopTx", "StopRx"} => pc' = [pc EXCEPT ![t] = "arm"]
        BY <2>2, <3>5, HandlesRadio DEF Turnarounds
      <4>2. pc' = [pc EXCEPT ![t] = "arm"]
        BY <4>1, PlainTargets
      <4>3. pc'[t] = "arm"
        BY <4>2 DEF Base, Shapes, ThreadShapes
      <4> QED BY <1>3, <4>3
    <3>6. ~Arming
      BY <2>0, <3>2
    <3> QED BY <1>4, <3>3, <3>4, <3>5, <3>6
  <2>3. CASE Pop(t)
    <3>1. PICK x \in events :
             /\ events' = events \ {x} /\ cur' = [cur EXCEPT ![t] = {x}]
             /\ pc[t] = "pop" /\ pc' = [pc EXCEPT ![t] = "guard"]
             /\ UNCHANGED <<left, silenced, radio>>
      BY <2>3, Pops
    <3>2. ~AtWork /\ ~Arming
      BY <2>0, <3>1 DEF Working
    <3>3. PICK f \in events : IsTimer(f.template)
      BY <1>4, <3>1, <3>2
    <3>4. CASE f = x
      <4>1. x \in cur'[t] /\ Working(t)'
        BY <3>1 DEF Base, Shapes, ThreadShapes, Working
      <4> QED BY <1>2, <3>3, <3>4, <4>1
    <3>5. CASE f # x
      BY <1>1, <3>1, <3>3, <3>5
    <3> QED BY <3>4, <3>5
  <2>4. CASE Arm(t)
    BY <1>1, <2>4, Arms
  <2> QED BY <1>5, <2>1, <2>2, <2>3, <2>4, ThreadCases
<1>6. ASSUME UNCHANGED cur, \A u \in Threads : pc[u] # "off" => pc'[u] = pc[u],
             AtWork \/ Arming
      PROVE  Ending'
  <2>1. CASE AtWork
    <3>1. PICK u \in Threads : Working(u) /\ \E f \in cur[u] : IsTimer(f.template)
      BY <2>1
    <3>2. Working(u)'
      BY <1>6, <3>1 DEF Working
    <3> QED BY <1>2, <1>6, <3>1, <3>2
  <2>2. CASE Arming
    BY <1>3, <1>6, <2>2
  <2> QED BY <1>6, <2>1, <2>2
<1>7. ASSUME NEW c \in Calls, Call(c) PROVE Ending'
  <2>1. CASE Others(c)
    <3>1. /\ UNCHANGED cur
          /\ \A u \in Threads : pc[u] # "off" => pc'[u] = pc[u]
          /\ radio' = radio \/ radio' \in {"Idle", "Error"}
      BY <2>1, OthersKeep
    <3>2. Held \/ AtWork \/ Arming
      BY <1>4, <3>1 DEF Turnarounds
    <3>3. CASE Held
      BY <1>1, <2>1, <3>3, OthersSpare
    <3> QED BY <1>6, <3>1, <3>2, <3>3
  <2>2. CASE Push(c) \/ CallSchedule(c)
    <3>1. UNCHANGED <<cur, pc, radio>> /\ events \subseteq events'
      BY <2>2 DEF Push, CallSchedule, threadVars, Insert
    <3> QED BY <1>1, <1>4, <1>6, <3>1
  <2> QED BY <1>7, <2>1, <2>2, CallCases
<1>8. CASE Tick \/ UNCHANGED vars
  <2>1. UNCHANGED <<events, cur, pc, radio>>
    BY <1>8 DEF Tick, vars, threadVars, queueVars
  <2> QED BY <1>1, <1>4, <1>6, <2>1
<1> QED BY <1>5, <1>7, <1>8 DEF Next

LEMMA InitSInv == Init /\ Orderly => SInv
<1> SUFFICES ASSUME Init, Orderly PROVE SInv
  OBVIOUS
<1>1. Runners /\ Single
  BY DEF Init, Runners, Single, Orderly
<1>2. Base
  BY <1>1, InitShapes, InitBalance, InitKind DEF Base
<1>3. Firsts /\ Begun
  BY DEF Init, Firsts, Scheduled, Begun
<1>4. LeftStops /\ Partners
  BY DEF Init, LeftStops, Partners
<1>5. Stoppable /\ Ending /\ Sights
  BY DEF Init, Stoppable, Ending, Sights, Turnarounds
<1> QED BY <1>2, <1>3, <1>4, <1>5 DEF SInv

LEMMA StepSInv == SInv /\ [Next]_vars => SInv'
<1> SUFFICES ASSUME SInv, [Next]_vars PROVE SInv'
  OBVIOUS
<1>1. Base' /\ Firsts' /\ Begun' /\ LeftStops' /\ Partners' /\ Sights'
  BY StepBase, StepFirsts, StepBegun, StepLeftStops, StepPartners, StepSights DEF SInv
<1>2. Stoppable' /\ Ending'
  BY StepStoppable, StepEnding
<1> QED BY <1>1, <1>2 DEF SInv

LEMMA SInvThenNeverStuck == SInv => NeverStuck \/ stats.missed > 0
<1> SUFFICES ASSUME SInv, ~(stats.missed > 0) PROVE NeverStuck
  OBVIOUS
<1>1. Waiting \subseteq Pending
  <2>1. ASSUME NEW c \in Calls, NEW i \in 1..Len(left[c])
        PROVE  left[c][i] \in Range(left[c])
    <3>1. left[c] \in Seq(EventSet)
      BY DEF SInv, Base, Shapes, QueueShapes
    <3>2. DOMAIN left[c] = 1..Len(left[c])
      BY <3>1
    <3> QED BY <3>2 DEF Range
  <2>2. ASSUME NEW f \in Waiting PROVE f \in Pending
    <3>1. f \in events \/ \E c \in Calls : \E i \in 1..Len(left[c]) : f = left[c][i]
      BY DEF Waiting
    <3>2. CASE f \in events
      BY <3>2 DEF Pending
    <3>3. CASE \E c \in Calls : \E i \in 1..Len(left[c]) : f = left[c][i]
      <4>1. PICK c \in Calls : f \in Range(left[c])
        BY <2>1, <3>3
      <4>2. f \in UNION {Range(left[d]) : d \in Calls}
        BY <4>1
      <4> QED BY <4>2 DEF Pending
    <3> QED BY <3>1, <3>2, <3>3
  <2> QED BY <2>2
<1>2. \A t \in Threads : cur[t] \subseteq Pending
  BY DEF Pending
<1>3. radio = "Transmitting" => silenced # {} \/ \E e \in Pending : e.template.action = "StopTx"
  BY <1>1, <1>2 DEF SInv, Stoppable, IsStop
<1>4. radio \in {"TxTurnaround", "RxTurnaround"} =>
         \/ \E e \in events \cup UNION {cur[t] : t \in Threads} : e.template.action = "StateTransition"
         \/ \E t \in Threads : pc[t] = "arm"
  BY DEF SInv, Ending, Turnarounds, IsTimer
<1> QED BY <1>3, <1>4 DEF NeverStuck

\* In an orderly scenario the radio is never left transmitting, or in a
\* turnaround, with nothing to take it out, as long as no event was dropped
\* late: whatever the threads do in between, and whatever the hardware reports.
THEOREM NothingSticks == Spec /\ Orderly => [](NeverStuck \/ stats.missed > 0)
  BY InitSInv, StepSInv, SInvThenNeverStuck, PTL DEF Spec

-----------------------------------------------------------------------------
(* On time.  A scenario is prompt, for a Jitter up to the tolerance, if     *)
(*   - nobody stops the loop, and a runnable thread is kept waiting for at *)
(*     most half the Jitter;                                               *)
(*   - every event is scheduled so early that a sleep and a wait (the loop *)
(*     is asleep and does not hear of it), or two waits (it is about to    *)
(*     sleep), end within Jitter of the deadline, and so does the first    *)
(*     wait of the thread that enters the loop;                            *)
(*   - no period is shorter than the Jitter.                               *)
(* With a lag of 0 and events scheduled MaxSleep ahead the Jitter may be 0.*)

CONSTANT Jitter

InTime(time, tm) == time <= tm.deadline + Jitter

Slow == {tm \in Templates : tm.repeat = 0 \/ Jitter <= tm.repeat}

Enters(tm) ==
    \A r \in DOMAIN Plan : Plan[r].op = "run" => InTime(Plan[r].by + scenario.lag, tm)

AskedEarly(time, tm) ==
    InTime(time + scenario.lag + MaxSleep, tm) /\ InTime(time + 2 * scenario.lag, tm)

Prompt ==
    /\ NoStops /\ AsksFor(Slow)
    /\ Jitter \in Nat /\ Jitter <= Tolerance
    /\ scenario.lag \in Nat /\ 2 * scenario.lag <= Jitter
    /\ \A c \in DOMAIN Plan : Plan[c].by \in Nat
    /\ \A c \in DOMAIN Plan : Plan[c].op = "schedule" =>
          \A i \in 1..Len(Plan[c].events) :
              AskedEarly(Plan[c].by, Plan[c].events[i]) /\ Enters(Plan[c].events[i])

\* While a thread is in the loop no event, in the queue or at work, is older
\* than Jitter.
Punctual ==
    \A t \in Threads : pc[t] # "off" =>
        \A e \in events \cup cur[t] : clock <= e.template.deadline + Jitter

Early(time) == {e \in EventSet : InTime(time, e.template)}

Timed == {e \in EventSet : AskedEarly(clock, e.template) /\ Enters(e.template)}

\* The time by which the thread gets on.
Latest(t) == clock + scenario.lag - lag[t]

Pass == {"pop"} \cup Holding

Recent(t) ==
    /\ passNow[t] <= clock /\ clock <= passNow[t] + lag[t]
    /\ \A e \in resched[t] : passNow[t] <= e.template.deadline

Dozing(t) ==
    /\ wakeAt[t] <= clock + MaxSleep
    /\ events \subseteq Early(wakeAt[t] + scenario.lag - lag[t])

\* Wherever a thread is, nothing will be late when it comes to it, although it
\* waits as long as it may.
OnTime(t) ==
    /\ lag[t] <= scenario.lag
    /\ pc[t] \in {"off", "check", "doze", "asleep"} => resched[t] = {}
    /\ pc[t] # "off" => events \cup cur[t] \subseteq Early(Latest(t))
    /\ pc[t] \in Pass \cup {"resched", "doze"} => Recent(t)
    /\ pc[t] \in {"resched", "doze"} => events \subseteq Early(Latest(t) + scenario.lag)
    /\ pc[t] = "asleep" => Dozing(t)

Timely ==
    /\ \A t \in Threads : OnTime(t)
    /\ running \/ \A e \in events : Enters(e.template)
    /\ \A c \in Calls : \A i \in 1..Len(left[c]) : left[c][i] \in Timed
    /\ stats.missed = 0

PBase == Shapes /\ Prompt /\ Runners /\ AllIn(Slow)

PInv == PBase /\ Timely

LEMMA Times ==
    ASSUME PBase
    PROVE  /\ scenario.lag \in Nat /\ 2 * scenario.lag <= Jitter
           /\ clock \in Nat /\ Tolerance \in Nat /\ Jitter \in Nat /\ Jitter <= Tolerance /\ MaxSleep \in Nat
           /\ \A t \in Threads : lag[t] \in Nat /\ passNow[t] \in Nat /\ wakeAt[t] \in Nat
           /\ \A e \in EventSet : e.template.deadline \in Nat
  BY TimesAssumption DEF PBase, Prompt, Shapes, RestShapes, ThreadShapes, EventSet, Templates

LEMMA EarlierToo ==
    ASSUME PBase, NEW x \in Int, NEW y \in Int, x <= y
    PROVE  Early(y) \subseteq Early(x)
<1>1. ASSUME NEW e \in Early(y) PROVE e \in Early(x)
  <2>1. e \in EventSet /\ y <= e.template.deadline + Jitter
    BY DEF Early, InTime
  <2>2. e.template.deadline \in Nat /\ Jitter \in Nat
    BY <2>1, Times
  <2>3. x <= e.template.deadline + Jitter
    BY <2>1, <2>2
  <2> QED BY <2>1, <2>3 DEF Early, InTime
<1> QED BY <1>1

\* A set of events is early or not, now as before.
LEMMA SameEarly == \A x : Early(x)' = Early(x)
  BY DEF Early, InTime

LEMMA DueIsEarly ==
    ASSUME PBase, NEW e \in EventSet, NEW x \in Int, x <= e.template.deadline + Jitter
    PROVE  e \in Early(x)
  BY DEF Early, InTime

LEMMA SlowKind ==
    /\ \A tm \in Slow : Repetition(tm) \in Slow
    /\ Shapes => TimersIn(Slow)
<1>1. ASSUME NEW tm \in Slow PROVE Repetition(tm) \in Slow
  <2>1. tm \in Templates /\ (tm.repeat = 0 \/ Jitter <= tm.repeat)
    BY DEF Slow
  <2>2. Repetition(tm) \in Templates /\ Repetition(tm).repeat = tm.repeat
    BY <2>1 DEF Repetition, Templates
  <2> QED BY <2>1, <2>2 DEF Slow
<1>2. ASSUME Shapes, NEW e \in EventSet PROVE Timer(e) \in Slow
  <2>1. newIds \in Nat /\ clock \in Nat
    BY <1>2 DEF Shapes, QueueShapes, RestShapes
  <2>2. Timer(e) \in Templates
    BY <2>1, TimesAssumption DEF Timer, Template, Templates, Actions, RadioStates
  <2>3. Timer(e).repeat = 0
    BY DEF Timer, Template
  <2> QED BY <2>2, <2>3 DEF Slow
<1> QED BY <1>1, <1>2 DEF TimersIn

LEMMA StepPBase == ASSUME PBase, [Next]_vars PROVE PBase' /\ UNCHANGED scenario
<1>1. Shapes' /\ Runners'
  BY StepShapes, StepRunners DEF PBase
<1>2. AllIn(Slow)'
  <2>1. AsksFor(Slow) /\ TimersIn(Slow) /\ \A tm \in Slow : Repetition(tm) \in Slow
    BY SlowKind DEF PBase, Prompt
  <2> QED BY <2>1, StepKind DEF PBase
<1>3. scenario' = scenario
  BY ScenarioStays
<1>4. Prompt'
  BY <1>3 DEF PBase, Prompt, Plan, NoStops, AsksFor, AskedEarly, Enters, InTime
<1> QED BY <1>1, <1>2, <1>3, <1>4 DEF PBase

\* A thread in the loop is alone there, and the flag is set.
LEMMA InTheLoop ==
    ASSUME PBase, NEW t \in Threads, pc[t] # "off"
    PROVE  running /\ \A u \in Threads : u # t => pc[u] = "off"
  BY DEF PBase, Prompt, Runners

\* The other threads.
LEMMA OffIsOnTime ==
    ASSUME Timely, NEW u \in Threads, pc[u] = "off", UNCHANGED scenario,
           pc'[u] = "off", lag'[u] = lag[u], resched'[u] = resched[u]
    PROVE  OnTime(u)'
  BY DEF Timely, OnTime, Pass, Holding

LEMMA KeptEarly ==
    ASSUME PInv, NEW t \in Threads, pc[t] # "off", UNCHANGED <<clock, lag, scenario>>,
           events' \cup cur'[t] \subseteq events \cup cur[t] \cup Early(Latest(t))
    PROVE  (events \cup cur[t] \subseteq Early(Latest(t)))'
<1>1. events \cup cur[t] \subseteq Early(Latest(t))
  BY DEF PInv, Timely, OnTime
<1>2. Latest(t)' = Latest(t)
  BY DEF Latest
<1> QED BY <1>1, <1>2, SameEarly

\* The pass does not lag behind the clock by more than the thread waited.
LEMMA PassTimes ==
    ASSUME PInv, NEW t \in Threads, Recent(t)
    PROVE  /\ Latest(t) \in Int /\ clock <= Latest(t) /\ passNow[t] <= Latest(t)
           /\ Latest(t) <= clock + scenario.lag
           /\ Latest(t) + scenario.lag <= clock + 2 * scenario.lag
           /\ Latest(t) + scenario.lag <= passNow[t] + 2 * scenario.lag
<1>1. /\ lag[t] \in Nat /\ scenario.lag \in Nat /\ clock \in Nat /\ passNow[t] \in Nat
      /\ lag[t] <= scenario.lag
  BY Times DEF PInv, Timely, OnTime
<1>2. passNow[t] <= clock /\ clock <= passNow[t] + lag[t]
  BY DEF Recent
<1> QED BY <1>1, <1>2 DEF Latest

LEMMA FinishMoves ==
    ASSUME Shapes, NEW t \in Threads, NEW e \in cur[t], NEW ok \in BOOLEAN, Finish(t, e, ok)
    PROVE  /\ \E p : pc' = [pc EXCEPT ![t] = p]
           /\ \E ys : resched' = [resched EXCEPT ![t] = ys]
  BY DEF Finish, Goto

\* A thread moves itself only.
LEMMA ThreadLocal ==
    ASSUME Shapes, NEW t \in Threads, Thread(t)
    PROVE  /\ UNCHANGED <<clock, left, running>>
           /\ \A u \in Threads : u # t =>
                pc'[u] = pc[u] /\ lag'[u] = lag[u] /\ resched'[u] = resched[u]
<1> USE DEF timeVars, callVars, fixed
<1>0. TRUE \in BOOLEAN /\ FALSE \in BOOLEAN
  OBVIOUS
<1>1. /\ UNCHANGED <<clock, left, running>>
      /\ \E p : pc' = [pc EXCEPT ![t] = p]
      /\ UNCHANGED resched \/ \E ys : resched' = [resched EXCEPT ![t] = ys]
      /\ UNCHANGED lag \/ \E k : lag' = [lag EXCEPT ![t] = k]
  <2>1. CASE Check(t) \/ Pop(t) \/ PopNothing(t) \/ Wake(t)
    BY <2>1 DEF Check, Checked, Pop, PopNothing, Wake, Goto
  <2>2. CASE Doze(t)
    BY <2>2 DEF Doze, Sleeping, Goto
  <2>3. CASE Reschedule(t)
    BY <2>3 DEF Reschedule, Goto
  <2>4. CASE Guard(t)
    <3>1. PICK e \in cur[t] : Finish(t, e, FALSE) \/ (Goto(t, "act") /\ UNCHANGED resched)
      BY <2>4 DEF Guard
    <3> QED BY <1>0, <2>4, <3>1, FinishMoves DEF Guard, Goto
  <2>5. CASE Load(t)
    <3>1. PICK e \in cur[t] : Finish(t, e, FALSE) \/ Finish(t, e, TRUE) \/ (Goto(t, "cas") /\ UNCHANGED resched)
      BY <2>5 DEF Load
    <3> QED BY <1>0, <2>5, <3>1, FinishMoves DEF Load, Goto
  <2>6. CASE Cas(t)
    <3>1. PICK e \in cur[t] : \/ Finish(t, e, FALSE) \/ Finish(t, e, TRUE)
                              \/ (\E p : Goto(t, p)) /\ UNCHANGED resched
      BY <2>6 DEF Cas, Exchange, SetRadio
    <3> QED BY <1>0, <2>6, <3>1, FinishMoves DEF Cas, Exchange, Goto
  <2>7. CASE Unhop(t) \/ Arm(t)
    <3>1. PICK e \in cur[t] : Finish(t, e, TRUE)
      BY <2>7 DEF Unhop, Arm
    <3> QED BY <1>0, <2>7, <3>1, FinishMoves DEF Unhop, Arm
  <2> QED BY <2>1, <2>2, <2>3, <2>4, <2>5, <2>6, <2>7 DEF Thread
<1>2. ASSUME NEW u \in Threads, u # t
      PROVE  pc'[u] = pc[u] /\ lag'[u] = lag[u] /\ resched'[u] = resched[u]
  BY <1>1, <1>2 DEF Shapes, QueueShapes, ThreadShapes, RestShapes
<1> QED BY <1>1, <1>2

\* So it is enough to look at the thread that gets on.
LEMMA OneOnTime ==
    ASSUME PInv, [Next]_vars, NEW t \in Threads, Thread(t), OnTime(t)', stats'.missed = 0
    PROVE  Timely'
<1>0. Shapes /\ PBase /\ Timely
  BY DEF PInv, PBase
<1>1. pc[t] # "off"
  BY <1>0, ThreadMoves
<1>2. running /\ \A u \in Threads : u # t => pc[u] = "off"
  BY <1>0, <1>1, InTheLoop
<1>3. /\ UNCHANGED <<clock, left, running>>
      /\ \A u \in Threads : u # t =>
                pc'[u] = pc[u] /\ lag'[u] = lag[u] /\ resched'[u] = resched[u]
  BY <1>0, ThreadLocal
<1>4. UNCHANGED scenario
  BY <1>0, StepPBase
<1>5. ASSUME NEW u \in Threads, u # t PROVE OnTime(u)'
  BY <1>0, <1>2, <1>3, <1>4, <1>5, OffIsOnTime
<1>6. \A c \in Calls : \A i \in 1..Len(left'[c]) : left'[c][i] \in Timed'
  <2>1. Timed' = Timed
    BY <1>3, <1>4 DEF Timed, AskedEarly, Enters, InTime, Plan
  <2> QED BY <1>0, <1>3, <2>1 DEF Timely
<1>7. \A u \in Threads : OnTime(u)'
  BY <1>5
<1> QED BY <1>2, <1>3, <1>6, <1>7 DEF Timely

\* The queue is served.
LEMMA CheckOnTime ==
    ASSUME PInv, NEW t \in Threads, Check(t)
    PROVE  OnTime(t)' /\ stats'.missed = 0
<1>0. PBase /\ Timely /\ OnTime(t)
  BY DEF PInv, Timely
<1>1. pc[t] = "check" /\ running
  BY <1>0, InTheLoop DEF Check, Checked
<1>2. /\ pc' = [pc EXCEPT ![t] = "pop"] /\ passNow' = [passNow EXCEPT ![t] = clock]
      /\ UNCHANGED <<events, cur, resched, clock, lag, scenario, stats>>
  BY <1>1 DEF Check, Checked, Goto, queueVars, timeVars, fixed
<1>3. pc'[t] = "pop" /\ passNow'[t] = clock /\ cur'[t] = {} /\ resched'[t] = {}
  BY <1>0, <1>1, <1>2 DEF PBase, Shapes, ThreadShapes, Holding, OnTime
<1>4. (events \cup cur[t] \subseteq Early(Latest(t)))'
  BY <1>1, <1>2, KeptEarly
<1>5. Recent(t)'
  <2>1. lag[t] \in Nat /\ clock \in Nat
    BY <1>0, Times
  <2> QED BY <1>2, <1>3, <2>1 DEF Recent
<1>6. lag'[t] <= scenario'.lag
  BY <1>0, <1>2 DEF OnTime
<1> QED BY <1>0, <1>2, <1>3, <1>4, <1>5, <1>6 DEF OnTime, Timely

LEMMA PopOnTime ==
    ASSUME PInv, NEW t \in Threads, Pop(t)
    PROVE  OnTime(t)' /\ stats'.missed = 0
<1>0. PBase /\ Timely /\ OnTime(t)
  BY DEF PInv, Timely
<1>1. PICK e \in events : /\ events' = events \ {e} /\ cur' = [cur EXCEPT ![t] = {e}]
  BY DEF Pop, Due
<1>2. /\ pc[t] = "pop" /\ pc' = [pc EXCEPT ![t] = "guard"]
      /\ UNCHANGED <<passNow, resched, clock, lag, scenario, stats>>
  BY DEF Pop, Goto, timeVars, fixed
<1>3. pc'[t] = "guard" /\ cur'[t] = {e}
  BY <1>0, <1>1, <1>2 DEF PBase, Shapes, ThreadShapes
<1>4. Recent(t) /\ lag[t] <= scenario.lag
  BY <1>0, <1>2 DEF OnTime, Pass
<1>5. Recent(t)'
  BY <1>2, <1>4 DEF Recent
<1>6. (events \cup cur[t] \subseteq Early(Latest(t)))'
  BY <1>1, <1>2, <1>3, KeptEarly
<1> QED BY <1>0, <1>2, <1>3, <1>4, <1>5, <1>6 DEF OnTime, Timely

LEMMA PopNothingOnTime ==
    ASSUME PInv, NEW t \in Threads, PopNothing(t)
    PROVE  OnTime(t)' /\ stats'.missed = 0
<1>0. PBase /\ Timely /\ OnTime(t)
  BY DEF PInv, Timely
<1>1. /\ pc[t] = "pop" /\ Due(t) = {} /\ pc' = [pc EXCEPT ![t] = "resched"]
      /\ UNCHANGED <<passNow, events, cur, resched, clock, lag, scenario, stats>>
  BY DEF PopNothing, Goto, queueVars, timeVars, fixed
<1>2. pc'[t] = "resched"
  BY <1>0, <1>1 DEF PBase, Shapes, ThreadShapes
<1>3. Recent(t) /\ lag[t] <= scenario.lag
  BY <1>0, <1>1 DEF OnTime, Pass
<1>4. Recent(t)'
  BY <1>1, <1>3 DEF Recent
<1>5. events \subseteq Early(Latest(t) + scenario.lag)
  <2>1. ASSUME NEW e \in events PROVE e \in Early(Latest(t) + scenario.lag)
    <3>1. e \in EventSet
      BY <1>0 DEF PBase, Shapes, QueueShapes
    <3>2. PICK d \in Nat : d = e.template.deadline
      BY <1>0, <3>1, Times
    <3>3. ~(d <= passNow[t])
      BY <1>1, <3>2 DEF Due
    <3>4. /\ Latest(t) \in Int /\ scenario.lag \in Nat /\ passNow[t] \in Nat /\ Jitter \in Nat
          /\ 2 * scenario.lag <= Jitter /\ Latest(t) + scenario.lag <= passNow[t] + 2 * scenario.lag
      BY <1>0, <1>3, Times, PassTimes
    <3>5. Latest(t) + scenario.lag \in Int /\ Latest(t) + scenario.lag <= d + Jitter
      BY <3>3, <3>4
    <3> QED BY <1>0, <3>1, <3>2, <3>5, DueIsEarly
  <2> QED BY <2>1
<1>6. (events \subseteq Early(Latest(t) + scenario.lag))'
  BY <1>1, <1>5 DEF Early, InTime, Latest
<1>7. (events \cup cur[t] \subseteq Early(Latest(t)))'
  BY <1>1, KeptEarly
<1> QED BY <1>0, <1>1, <1>2, <1>3, <1>4, <1>6, <1>7 DEF OnTime, Timely, Pass, Holding

\* The next occurrence is not due before the time of the pass.
LEMMA NextInTime ==
    ASSUME PInv, NEW t \in Threads, NEW e \in cur[t], e.template.repeat > 0, Recent(t)
    PROVE  passNow[t] <= Next1(e).template.deadline
<1>0. PBase /\ e \in EventSet
  BY DEF PInv, PBase, Shapes, ThreadShapes
<1>1. e.template \in Slow
  BY <1>0 DEF PBase, AllIn
<1>2. PICK d \in Nat, r \in Nat : d = e.template.deadline /\ r = e.template.repeat
  BY <1>1 DEF Slow, Templates
<1>3. Jitter <= r
  BY <1>1, <1>2 DEF Slow
<1>4. Next1(e).template.deadline = d + r
  BY <1>1, <1>2 DEF Next1, Event, Slow, Templates
<1>5. Latest(t) <= d + Jitter
  <2>1. pc[t] # "off"
    BY <1>0 DEF PBase, Shapes, ThreadShapes, Holding
  <2> QED BY <1>2, <2>1 DEF PInv, Timely, OnTime, Early, InTime
<1>6. Jitter \in Nat /\ passNow[t] \in Nat /\ Latest(t) \in Int /\ passNow[t] <= Latest(t)
  BY <1>0, Times, PassTimes
<1> QED BY <1>3, <1>4, <1>5, <1>6

LEMMA FinishOnTime ==
    ASSUME PInv, NEW t \in Threads, pc[t] \in Holding, NEW e \in cur[t], NEW ok \in BOOLEAN, Finish(t, e, ok),
           UNCHANGED <<passNow, clock, lag, scenario>>, events' \subseteq events \cup Early(Latest(t))
    PROVE  OnTime(t)'
<1>0. PBase /\ Timely /\ OnTime(t) /\ Shapes
  BY DEF PInv, Timely, PBase
<1>1. pc'[t] = "pop" /\ cur'[t] = {}
  BY <1>0, Finished DEF Shapes, ThreadShapes
<1>2. Recent(t) /\ lag[t] <= scenario.lag /\ pc[t] # "off"
  BY <1>0 DEF OnTime, Pass, Holding
<1>3. \A x \in resched'[t] : passNow[t] <= x.template.deadline
  <2>1. CASE ok /\ e.template.repeat > 0
    <3>1. PICK next : next = Next1(e)
      OBVIOUS
    <3>2. resched' = [resched EXCEPT ![t] = @ \cup {next}]
      BY <2>1, <3>1 DEF Finish, Next1
    <3>3. passNow[t] <= next.template.deadline
      BY <1>2, <2>1, <3>1, NextInTime
    <3>4. resched'[t] = resched[t] \cup {next}
      BY <1>0, <3>2 DEF Shapes, QueueShapes
    <3> QED BY <1>2, <3>3, <3>4 DEF Recent
  <2>2. CASE ~(ok /\ e.template.repeat > 0)
    <3>1. resched' = [resched EXCEPT ![t] = @]
      BY <2>2 DEF Finish
    <3>2. resched'[t] = resched[t]
      BY <1>0, <3>1 DEF Shapes, QueueShapes
    <3> QED BY <1>2, <3>2 DEF Recent
  <2> QED BY <2>1, <2>2
<1>4. Recent(t)'
  BY <1>2, <1>3 DEF Recent
<1>5. (events \cup cur[t] \subseteq Early(Latest(t)))'
  BY <1>1, <1>2, KeptEarly
<1> QED BY <1>1, <1>2, <1>4, <1>5 DEF OnTime

\* A step from one point of the pass to another.
LEMMA StayOnTime ==
    ASSUME PInv, NEW t \in Threads, pc[t] \in Holding, NEW p \in Holding, Goto(t, p),
           UNCHANGED <<events, cur, resched, passNow, clock, lag, scenario>>
    PROVE  OnTime(t)'
<1>0. PBase /\ Timely /\ OnTime(t) /\ Shapes
  BY DEF PInv, Timely, PBase
<1>1. pc'[t] = p
  BY <1>0 DEF Goto, Shapes, ThreadShapes
<1>2. Recent(t) /\ lag[t] <= scenario.lag /\ pc[t] # "off"
  BY <1>0 DEF OnTime, Pass, Holding
<1>3. Recent(t)'
  BY <1>2 DEF Recent
<1>4. (events \cup cur[t] \subseteq Early(Latest(t)))'
  BY <1>2, KeptEarly
<1> QED BY <1>1, <1>2, <1>3, <1>4 DEF OnTime, Holding

\* No event is later than the tolerance when its turn comes.
LEMMA GuardMisses ==
    ASSUME PInv, NEW t \in Threads, Guard(t)
    PROVE  stats'.missed = 0
<1>0. PBase /\ Timely /\ OnTime(t) /\ Shapes /\ stats \in Counts /\ stats.missed = 0
  BY DEF PInv, Timely, PBase, Shapes, QueueShapes
<1>1. pc[t] = "guard"
  BY DEF Guard
<1>2. PICK e \in cur[t] :
        \/ stats' = [stats EXCEPT !.blocked = @ + 1]
        \/ passNow[t] - e.template.deadline > Tolerance
        \/ stats' = [stats EXCEPT !.executed = @ + 1]
  BY DEF Guard
<1>3. e \in Early(Latest(t)) /\ e \in EventSet /\ Recent(t)
  BY <1>0, <1>1 DEF OnTime, Pass, Holding, Shapes, ThreadShapes
<1>4. ~(passNow[t] - e.template.deadline > Tolerance)
  <2>1. PICK d \in Nat : d = e.template.deadline
    BY <1>0, <1>3, Times
  <2>2. Latest(t) <= d + Jitter
    BY <1>3, <2>1 DEF Early, InTime
  <2>3. /\ passNow[t] \in Nat /\ Tolerance \in Nat /\ Jitter \in Nat /\ Jitter <= Tolerance
        /\ Latest(t) \in Int /\ passNow[t] <= Latest(t)
    BY <1>0, <1>3, Times, PassTimes
  <2>4. passNow[t] - d <= Tolerance
    BY <2>2, <2>3
  <2> QED BY <2>1, <2>3, <2>4
<1> QED BY <1>0, <1>2, <1>4 DEF Counts

LEMMA HandlesOnTime ==
    ASSUME PInv, NEW t \in Threads, Handles(t)
    PROVE  OnTime(t)' /\ stats'.missed = 0
<1> USE DEF timeVars, fixed
<1>0. /\ PBase /\ Timely /\ OnTime(t) /\ Shapes /\ stats.missed = 0
      /\ TRUE \in BOOLEAN /\ FALSE \in BOOLEAN
  BY DEF PInv, Timely, PBase
<1>1. pc[t] \in Holding /\ UNCHANGED <<events, passNow, clock, lag, scenario>>
  <2>1. CASE Guard(t)
    BY <2>1 DEF Guard, Holding
  <2>2. CASE Load(t)
    BY <2>2 DEF Load, Holding
  <2>3. CASE Cas(t)
    BY <2>3 DEF Cas, Exchange, Holding
  <2>4. CASE Unhop(t)
    BY <2>4 DEF Unhop, Holding
  <2> QED BY <2>1, <2>2, <2>3, <2>4 DEF Handles
<1>2. events' \subseteq events \cup Early(Latest(t))
  BY <1>1
<1>3. \/ \E e \in cur[t] : Finish(t, e, TRUE) \/ Finish(t, e, FALSE)
      \/ \E p \in Holding : Goto(t, p) /\ UNCHANGED <<cur, resched>>
  <2>1. CASE Guard(t)
    BY <2>1 DEF Guard, Holding
  <2>2. CASE Load(t)
    BY <2>2 DEF Load, Holding
  <2>3. CASE Cas(t)
    <3>1. PICK e \in cur[t] : \/ Finish(t, e, FALSE) \/ Finish(t, e, TRUE)
                              \/ (Goto(t, "unhop") \/ Goto(t, "arm")) /\ UNCHANGED <<cur, resched>>
      BY <2>3 DEF Cas, Exchange, SetRadio
    <3> QED BY <3>1 DEF Holding
  <2>4. CASE Unhop(t)
    BY <2>4 DEF Unhop
  <2> QED BY <2>1, <2>2, <2>3, <2>4 DEF Handles
<1>4. OnTime(t)'
  <2>1. CASE \E e \in cur[t] : Finish(t, e, TRUE) \/ Finish(t, e, FALSE)
    BY <1>0, <1>1, <1>2, <2>1, FinishOnTime
  <2>2. CASE \E p \in Holding : Goto(t, p) /\ UNCHANGED <<cur, resched>>
    BY <1>1, <2>2, StayOnTime
  <2> QED BY <1>3, <2>1, <2>2
<1>5. stats'.missed = 0
  <2>1. CASE Load(t) \/ Cas(t) \/ Unhop(t)
    BY <1>0, <2>1 DEF Load, Cas, Exchange, Unhop
  <2> QED BY <2>1, GuardMisses DEF Handles
<1> QED BY <1>4, <1>5

\* A timer is due in the future.
LEMMA ArmOnTime ==
    ASSUME PInv, NEW t \in Threads, Arm(t)
    PROVE  OnTime(t)' /\ stats'.missed = 0
<1>0. /\ PBase /\ Timely /\ OnTime(t) /\ Shapes /\ stats.missed = 0 /\ TRUE \in BOOLEAN
      /\ stats \in Counts
  BY DEF PInv, Timely, PBase, Shapes, QueueShapes
<1>1. PICK e \in cur[t] : Insert({Event(Timer(e), "new", newIds, e.call)}) /\ Finish(t, e, TRUE)
  BY DEF Arm
<1>2. PICK x : x = Event(Timer(e), "new", newIds, e.call)
  OBVIOUS
<1>3. events' = events \cup {x} /\ stats'.missed = 0
  BY <1>0, <1>1, <1>2 DEF Insert, Counts
<1>4. pc[t] \in Holding /\ UNCHANGED <<passNow, clock, lag, scenario>>
  BY DEF Arm, Holding, timeVars, fixed
<1>5. x \in EventSet
  <2>1. e \in EventSet /\ newIds \in Nat /\ clock \in Nat
    BY <1>0 DEF Shapes, ThreadShapes, QueueShapes, RestShapes
  <2> QED BY <1>2, <2>1, TimerIsEvent
<1>6. Recent(t)
  BY <1>0, <1>4 DEF OnTime, Pass
<1>7. x \in Early(Latest(t))
  <2>1. x.template = Timer(e)
    BY <1>2 DEF Event
  <2>2. PICK w \in Nat : x.template.deadline = clock + w
    BY <2>1, TimesAssumption DEF Timer, Template
  <2>3. /\ Latest(t) \in Int /\ Latest(t) <= clock + scenario.lag /\ clock \in Nat /\ Jitter \in Nat
        /\ scenario.lag \in Nat /\ 2 * scenario.lag <= Jitter
    BY <1>0, <1>6, Times, PassTimes
  <2>4. Latest(t) <= x.template.deadline + Jitter
    BY <2>2, <2>3
  <2> QED BY <1>0, <1>5, <2>3, <2>4, DueIsEarly
<1>8. events' \subseteq events \cup Early(Latest(t))
  BY <1>3, <1>7
<1> QED BY <1>0, <1>1, <1>3, <1>4, <1>8, FinishOnTime

LEMMA RescheduleOnTime ==
    ASSUME PInv, NEW t \in Threads, Reschedule(t)
    PROVE  OnTime(t)' /\ stats'.missed = 0
<1>0. PBase /\ Timely /\ OnTime(t) /\ Shapes /\ stats.missed = 0 /\ stats \in Counts
  BY DEF PInv, Timely, PBase, Shapes, QueueShapes
<1>1. /\ pc[t] = "resched" /\ pc' = [pc EXCEPT ![t] = "doze"] /\ Insert(resched[t])
      /\ resched' = [resched EXCEPT ![t] = {}]
      /\ UNCHANGED <<passNow, cur, clock, lag, scenario>>
  BY DEF Reschedule, Goto, timeVars, fixed
<1>2. pc'[t] = "doze" /\ resched'[t] = {} /\ events' = events \cup resched[t]
  BY <1>0, <1>1 DEF Insert, Shapes, QueueShapes, ThreadShapes
<1>3. Recent(t) /\ lag[t] <= scenario.lag /\ events \subseteq Early(Latest(t) + scenario.lag)
  BY <1>0, <1>1 DEF OnTime
<1>4. resched[t] \subseteq Early(Latest(t) + scenario.lag)
  <2>1. ASSUME NEW e \in resched[t] PROVE e \in Early(Latest(t) + scenario.lag)
    <3>1. e \in EventSet
      BY <1>0 DEF Shapes, QueueShapes
    <3>2. PICK d \in Nat : d = e.template.deadline
      BY <1>0, <3>1, Times
    <3>3. passNow[t] <= d
      BY <1>3, <3>2 DEF Recent
    <3>4. /\ Latest(t) \in Int /\ scenario.lag \in Nat /\ passNow[t] \in Nat /\ Jitter \in Nat
          /\ 2 * scenario.lag <= Jitter /\ Latest(t) + scenario.lag <= passNow[t] + 2 * scenario.lag
      BY <1>0, <1>3, Times, PassTimes
    <3>5. Latest(t) + scenario.lag \in Int /\ Latest(t) + scenario.lag <= d + Jitter
      BY <3>3, <3>4
    <3> QED BY <1>0, <3>1, <3>2, <3>5, DueIsEarly
  <2> QED BY <2>1
<1>5. Recent(t)'
  BY <1>1, <1>2, <1>3 DEF Recent
<1>6. (events \subseteq Early(Latest(t) + scenario.lag))'
  BY <1>1, <1>2, <1>3, <1>4 DEF Early, InTime, Latest
<1>7. stats'.missed = 0
  BY <1>0, <1>1 DEF Insert, Counts
<1>8. (events \cup cur[t] \subseteq Early(Latest(t)))'
  <2>1. Early(Latest(t) + scenario.lag) \subseteq Early(Latest(t))
    <3>1. /\ Latest(t) \in Int /\ Latest(t) + scenario.lag \in Int
          /\ Latest(t) <= Latest(t) + scenario.lag
      BY <1>0, <1>3, Times, PassTimes
    <3> QED BY <1>0, <3>1, EarlierToo
  <2> QED BY <1>1, <1>2, <1>4, <2>1, KeptEarly
<1> QED BY <1>1, <1>2, <1>3, <1>5, <1>6, <1>7, <1>8 DEF OnTime, Pass, Holding

LEMMA DozeOnTime ==
    ASSUME PInv, NEW t \in Threads, Doze(t)
    PROVE  OnTime(t)' /\ stats'.missed = 0
<1>0. PBase /\ Timely /\ OnTime(t) /\ Shapes /\ stats.missed = 0
  BY DEF PInv, Timely, PBase
<1>1. PICK d : /\ d \in {clock + MaxSleep} \cup {e.template.deadline : e \in events}
               /\ d <= clock + MaxSleep /\ \A e \in events : d <= e.template.deadline
               /\ Sleeping(t, d)
  BY DEF Doze
<1>2. /\ pc[t] = "doze" /\ pc' = [pc EXCEPT ![t] = "asleep"] /\ wakeAt' = [wakeAt EXCEPT ![t] = d]
      /\ lag' = [lag EXCEPT ![t] = 0]
      /\ UNCHANGED <<events, cur, stats, resched, clock, scenario>>
  BY <1>1 DEF Sleeping, Goto, queueVars, fixed
<1>3. pc'[t] = "asleep" /\ wakeAt'[t] = d /\ lag'[t] = 0
  BY <1>0, <1>2 DEF Shapes, ThreadShapes, RestShapes
<1>4. events \subseteq Early(Latest(t) + scenario.lag) /\ lag[t] <= scenario.lag /\ resched[t] = {}
  BY <1>0, <1>2 DEF OnTime
<1>5. /\ lag[t] \in Nat /\ scenario.lag \in Nat /\ clock \in Nat /\ MaxSleep \in Nat
      /\ Jitter \in Nat /\ 2 * scenario.lag <= Jitter
  BY <1>0, Times
<1>6. events \subseteq EventSet
  BY <1>0 DEF Shapes, QueueShapes
<1>7. d \in Nat
  BY <1>0, <1>1, <1>5, <1>6, Times
<1>8. events \subseteq Early(clock + scenario.lag)
  <2>1. clock + scenario.lag \in Int /\ Latest(t) + scenario.lag \in Int
        /\ clock + scenario.lag <= Latest(t) + scenario.lag
    BY <1>4, <1>5 DEF Latest
  <2> QED BY <1>0, <1>4, <2>1, EarlierToo
<1>9. events \subseteq Early(d + scenario.lag)
  <2>1. ASSUME NEW e \in events PROVE e \in Early(d + scenario.lag)
    <3>1. e \in EventSet
      BY <1>6
    <3>2. PICK k \in Nat : k = e.template.deadline
      BY <1>0, <3>1, Times
    <3>3. d <= k
      BY <1>1, <3>2
    <3>4. d + scenario.lag \in Int /\ d + scenario.lag <= k + Jitter
      BY <1>5, <1>7, <3>3
    <3> QED BY <1>0, <3>1, <3>2, <3>4, DueIsEarly
  <2> QED BY <2>1
<1>10. Latest(t)' = clock + scenario.lag /\ (wakeAt[t] + scenario.lag - lag[t])' = d + scenario.lag
  BY <1>2, <1>3, <1>5, <1>7 DEF Latest
<1>11. Dozing(t)'
  <2>1. wakeAt'[t] <= clock' + MaxSleep
    BY <1>1, <1>2, <1>3
  <2>2. (events \subseteq Early(wakeAt[t] + scenario.lag - lag[t]))'
    BY <1>2, <1>9, <1>10, SameEarly
  <2> QED BY <2>1, <2>2 DEF Dozing
<1>13. (events \cup cur[t] \subseteq Early(Latest(t)))'
  <2>1. cur[t] = {}
    BY <1>0, <1>2 DEF Shapes, ThreadShapes, Holding
  <2> QED BY <1>2, <1>8, <1>10, <2>1, SameEarly
<1>12. lag'[t] <= scenario'.lag
  BY <1>2, <1>3, <1>5
<1> QED BY <1>0, <1>2, <1>3, <1>4, <1>11, <1>12, <1>13 DEF OnTime, Pass, Holding

LEMMA WakeOnTime ==
    ASSUME PInv, NEW t \in Threads, Wake(t)
    PROVE  OnTime(t)' /\ stats'.missed = 0
<1>0. PBase /\ Timely /\ OnTime(t) /\ Shapes /\ stats.missed = 0
  BY DEF PInv, Timely, PBase
<1>1. /\ pc[t] = "asleep" /\ pc' = [pc EXCEPT ![t] = "check"]
      /\ UNCHANGED <<events, cur, resched, clock, lag, scenario, stats>>
  BY DEF Wake, Goto, queueVars, timeVars, fixed
<1>2. pc'[t] = "check"
  BY <1>0, <1>1 DEF Shapes, ThreadShapes
<1>3. resched[t] = {} /\ lag[t] <= scenario.lag
  BY <1>0, <1>1 DEF OnTime
<1>4. (events \cup cur[t] \subseteq Early(Latest(t)))'
  BY <1>1, KeptEarly
<1> QED BY <1>0, <1>1, <1>2, <1>3, <1>4 DEF OnTime, Pass, Holding

\* What is pushed now will not be late, wherever the thread in the loop is.
LEMMA QueueOnTime ==
    ASSUME PInv, NEW t \in Threads, UNCHANGED <<pc, lag, resched, cur, passNow, wakeAt, clock, scenario>>,
           events' \subseteq events \cup Timed
    PROVE  OnTime(t)'
<1>0. PBase /\ Timely /\ OnTime(t) /\ Shapes
  BY DEF PInv, Timely, PBase
<1>1. /\ lag[t] \in Nat /\ scenario.lag \in Nat /\ clock \in Nat /\ MaxSleep \in Nat
      /\ wakeAt[t] \in Nat /\ lag[t] <= scenario.lag
  BY <1>0, Times DEF OnTime
<1>2. ASSUME NEW x \in Int,
             x <= clock + scenario.lag + MaxSleep \/ x <= clock + 2 * scenario.lag
      PROVE  Timed \subseteq Early(x)
  <2>1. Timed \subseteq Early(clock + scenario.lag + MaxSleep) /\ Timed \subseteq Early(clock + 2 * scenario.lag)
    BY DEF Timed, AskedEarly, Early
  <2>2. clock + scenario.lag + MaxSleep \in Int /\ clock + 2 * scenario.lag \in Int
    BY <1>1
  <2>3. CASE x <= clock + scenario.lag + MaxSleep
    BY <1>0, <2>1, <2>2, <2>3, EarlierToo
  <2>4. CASE x <= clock + 2 * scenario.lag
    BY <1>0, <2>1, <2>2, <2>4, EarlierToo
  <2> QED BY <1>2, <2>3, <2>4
<1>3. pc[t] # "off" => (events \cup cur[t] \subseteq Early(Latest(t)))'
  <2>1. Latest(t) \in Int /\ Latest(t) <= clock + scenario.lag + MaxSleep
    BY <1>1 DEF Latest
  <2>2. Timed \subseteq Early(Latest(t))
    BY <1>2, <2>1
  <2> QED BY <2>2, KeptEarly
<1>4. Recent(t) => Recent(t)'
  BY DEF Recent
<1>5. ASSUME events \subseteq Early(Latest(t) + scenario.lag)
      PROVE  (events \subseteq Early(Latest(t) + scenario.lag))'
  <2>1. /\ Latest(t) + scenario.lag \in Int /\ Latest(t) + scenario.lag <= clock + 2 * scenario.lag
        /\ Latest(t)' = Latest(t)
    BY <1>1 DEF Latest
  <2>2. Timed \subseteq Early(Latest(t) + scenario.lag)
    BY <1>2, <2>1
  <2> QED BY <1>5, <2>1, <2>2, SameEarly
<1>6. Dozing(t) => Dozing(t)'
  <2>1. SUFFICES ASSUME Dozing(t) PROVE Dozing(t)'
    OBVIOUS
  <2>2. /\ wakeAt[t] + scenario.lag - lag[t] \in Int
        /\ wakeAt[t] + scenario.lag - lag[t] <= clock + scenario.lag + MaxSleep
    BY <1>1, <2>1 DEF Dozing
  <2>3. Timed \subseteq Early(wakeAt[t] + scenario.lag - lag[t])
    BY <1>2, <2>2
  <2>4. (events \subseteq Early(wakeAt[t] + scenario.lag - lag[t]))'
    BY <2>1, <2>3, SameEarly DEF Dozing
  <2> QED BY <2>1, <2>4 DEF Dozing
<1> QED BY <1>0, <1>3, <1>4, <1>5, <1>6 DEF OnTime

LEMMA PushOnTime ==
    ASSUME PInv, [Next]_vars, NEW c \in Calls, Push(c)
    PROVE  Timely'
<1>0. PBase /\ Timely /\ Shapes /\ stats.missed = 0 /\ stats \in Counts
  BY DEF PInv, Timely, PBase, Shapes, QueueShapes
<1>1. PICK s \in Seq(EventSet) : s = left[c] /\ s # <<>>
  BY <1>0 DEF Push, Shapes, QueueShapes
<1>2. /\ left' = [left EXCEPT ![c] = Tail(s)] /\ Insert({Head(s)})
      /\ UNCHANGED <<pc, lag, resched, cur, passNow, wakeAt, clock, scenario, running>>
  BY <1>1 DEF Push, threadVars, timeVars, fixed
<1>3. \A i \in 1..Len(s) : s[i] \in Timed
  BY <1>0, <1>1 DEF Timely
<1>4. Head(s) \in Timed /\ \A i \in 1..Len(Tail(s)) : Tail(s)[i] \in Timed
  <2>1. Head(s) = s[1] /\ 1 \in 1..Len(s) /\ Len(Tail(s)) = Len(s) - 1 /\ Len(s) \in Nat
    BY <1>1
  <2>2. \A i \in 1..Len(Tail(s)) : Tail(s)[i] = s[i + 1] /\ i + 1 \in 1..Len(s)
    BY <1>1, <2>1
  <2> QED BY <1>3, <2>1, <2>2
<1>5. events' = events \cup {Head(s)} /\ stats'.missed = 0
  BY <1>0, <1>2 DEF Insert, Counts
<1>6. \A t \in Threads : OnTime(t)'
  BY <1>2, <1>4, <1>5, QueueOnTime
<1>7. \A d \in Calls : left'[d] = IF d = c THEN Tail(s) ELSE left[d]
  BY <1>0, <1>2 DEF Shapes, QueueShapes
<1>8. Timed' = Timed
  BY <1>2 DEF Timed, AskedEarly, Enters, InTime, Plan
<1>9. \A d \in Calls : \A i \in 1..Len(left'[d]) : left'[d][i] \in Timed'
  BY <1>0, <1>4, <1>7, <1>8 DEF Timely
<1>10. running' \/ \A e \in events' : Enters(e.template)'
  <2>1. Enters(Head(s).template)
    BY <1>4 DEF Timed
  <2> QED BY <1>0, <1>2, <1>5, <2>1 DEF Timely, Enters, InTime, Plan
<1> QED BY <1>5, <1>6, <1>9, <1>10 DEF Timely

LEMMA ScheduleOnTime ==
    ASSUME PInv, [Next]_vars, NEW c \in Calls, CallSchedule(c)
    PROVE  Timely'
<1>0. PBase /\ Timely /\ Shapes /\ stats.missed = 0 /\ Prompt
  BY DEF PInv, Timely, PBase
<1>1. PICK ts : ts = Plan[c].events
  OBVIOUS
<1>2. c \in DOMAIN Plan /\ Plan[c].op = "schedule" /\ clock <= Plan[c].by
  BY DEF CallSchedule, Begin
<1>3. ts \in Seq(Templates)
  BY <1>0, <1>1, PlanOf DEF CallSchedule
<1>4. PICK es : es = [i \in 1..Len(ts) |-> Event(ts[i], "new", newIds + i - 1, c)]
  OBVIOUS
<1>5. /\ left' = [left EXCEPT ![c] = es] /\ UNCHANGED <<events, stats>>
      /\ UNCHANGED <<pc, lag, resched, cur, passNow, wakeAt, clock, scenario, running>>
  BY <1>1, <1>4 DEF CallSchedule, threadVars, timeVars, fixed
<1>6. ASSUME NEW i \in 1..Len(ts) PROVE es[i] \in Timed
  <2>1. es[i].template = ts[i]
    BY <1>4 DEF Event
  <2>2. es[i] \in EventSet
    <3>1. newIds \in Nat /\ newIds + i - 1 \in Nat /\ ts[i] \in Templates
      BY <1>0, <1>3 DEF Shapes, QueueShapes
    <3> QED BY <1>4, <3>1 DEF Event, EventSet
  <2>3. AskedEarly(Plan[c].by, ts[i]) /\ Enters(ts[i])
    BY <1>0, <1>1, <1>2 DEF Prompt
  <2>4. AskedEarly(clock, ts[i])
    <3>0. ts[i] \in Templates
      BY <1>3
    <3>1. PICK d \in Nat : d = ts[i].deadline
      BY <3>0 DEF Templates
    <3>2. PICK b \in Nat : b = Plan[c].by
      BY <1>0, <1>2 DEF Prompt
    <3>3. /\ scenario.lag \in Nat /\ clock \in Nat /\ MaxSleep \in Nat /\ Jitter \in Nat
      BY <1>0, Times
    <3>4. b + scenario.lag + MaxSleep <= d + Jitter /\ b + 2 * scenario.lag <= d + Jitter
      BY <2>3, <3>1, <3>2 DEF AskedEarly, InTime
    <3>5. clock + scenario.lag + MaxSleep <= d + Jitter /\ clock + 2 * scenario.lag <= d + Jitter
      <4>1. PICK w \in Nat : w = scenario.lag
        BY <3>3
      <4>2. clock <= b /\ b + w + MaxSleep <= d + Jitter /\ b + 2 * w <= d + Jitter
        BY <1>2, <3>2, <3>4, <4>1
      <4>3. clock + w + MaxSleep <= d + Jitter /\ clock + 2 * w <= d + Jitter
        BY <3>3, <4>2
      <4> QED BY <4>1, <4>3
    <3> QED BY <3>1, <3>5 DEF AskedEarly, InTime
  <2> QED BY <2>1, <2>2, <2>3, <2>4 DEF Timed
<1>7. \A t \in Threads : OnTime(t)'
  BY <1>5, QueueOnTime
<1>8. \A d \in Calls : left'[d] = IF d = c THEN es ELSE left[d]
  BY <1>0, <1>5 DEF Shapes, QueueShapes
<1>9. Timed' = Timed
  BY <1>5 DEF Timed, AskedEarly, Enters, InTime, Plan
<1>10. Len(es) = Len(ts)
  BY <1>3, <1>4
<1>11. \A d \in Calls : \A i \in 1..Len(left'[d]) : left'[d][i] \in Timed'
  BY <1>0, <1>6, <1>8, <1>9, <1>10 DEF Timely
<1>12. running' \/ \A e \in events' : Enters(e.template)'
  BY <1>0, <1>5 DEF Timely, Enters, InTime, Plan
<1> QED BY <1>0, <1>5, <1>7, <1>11, <1>12 DEF Timely

\* The loop is entered before anything is late.
LEMMA RunOnTime ==
    ASSUME PInv, [Next]_vars, NEW c \in Calls, CallRun(c)
    PROVE  Timely'
<1>0. PBase /\ Timely /\ Shapes /\ stats.missed = 0 /\ Prompt
  BY DEF PInv, Timely, PBase
<1>1. PICK t : t = Plan[c].thread
  OBVIOUS
<1>2. /\ c \in DOMAIN Plan /\ Plan[c].op = "run" /\ clock <= Plan[c].by /\ pc[t] = "off"
      /\ pc' = (IF running THEN pc ELSE [pc EXCEPT ![t] = "check"]) /\ running' = TRUE
      /\ lag' = [lag EXCEPT ![t] = 0]
      /\ UNCHANGED <<passNow, cur, resched, wakeAt, events, stats, clock, left, scenario>>
  BY <1>1 DEF CallRun, Begin, queueVars
<1>3. /\ scenario.lag \in Nat /\ clock \in Nat /\ Jitter \in Nat /\ Plan[c].by \in Nat
  BY <1>0, <1>2, Times DEF Prompt
<1>4. ASSUME NEW u \in Threads PROVE OnTime(u)'
  <2>1. lag'[u] = IF u = t THEN 0 ELSE lag[u]
    BY <1>0, <1>2 DEF Shapes, RestShapes
  <2>2. OnTime(u) /\ lag'[u] <= scenario.lag
    BY <1>0, <1>3, <2>1 DEF Timely, OnTime
  <2>3. CASE u # t
    <3>1. pc'[u] = pc[u] /\ lag'[u] = lag[u]
      BY <1>0, <1>2, <2>1, <2>3 DEF Shapes, ThreadShapes
    <3>2. Latest(u)' = Latest(u) /\ (Recent(u)' <=> Recent(u)) /\ (Dozing(u)' <=> Dozing(u))
      BY <1>2, <3>1 DEF Recent, Dozing, Latest, Early, InTime
    <3> QED BY <1>2, <2>2, <3>1, <3>2, SameEarly DEF OnTime
  <2>4. CASE u = t /\ running
    <3>1. pc'[u] = "off"
      BY <1>2, <2>4
    <3> QED BY <1>2, <2>2, <2>4, <3>1 DEF OnTime, Pass, Holding
  <2>5. CASE u = t /\ ~running
    <3>1. pc'[u] = "check" /\ resched'[u] = {} /\ lag'[u] = 0
      BY <1>0, <1>2, <2>1, <2>2, <2>5 DEF OnTime, Shapes, ThreadShapes
    <3>2. ASSUME NEW e \in events PROVE e \in Early(clock + scenario.lag)
      <4>1. e \in EventSet
        BY <1>0 DEF Shapes, QueueShapes
      <4>2. PICK d \in Nat : d = e.template.deadline
        BY <1>0, <4>1, Times
      <4>3. Plan[c].by + scenario.lag <= d + Jitter
        BY <1>0, <1>2, <2>5, <4>2 DEF Timely, Enters, InTime
      <4>4. clock + scenario.lag \in Int /\ clock + scenario.lag <= d + Jitter
        BY <1>2, <1>3, <4>3
      <4> QED BY <1>0, <4>1, <4>2, <4>4, DueIsEarly
    <3>3. Latest(u)' = clock + scenario.lag
      BY <1>2, <1>3, <3>1 DEF Latest
    <3>4. (events \cup cur[u] \subseteq Early(Latest(u)))'
      <4>1. cur'[u] = {}
        BY <1>0, <1>2, <2>5 DEF Shapes, ThreadShapes, Holding
      <4> QED BY <1>2, <3>2, <3>3, <4>1, SameEarly
    <3> QED BY <1>2, <2>2, <3>1, <3>4 DEF OnTime, Pass, Holding
  <2> QED BY <2>3, <2>4, <2>5
<1>5. Timed' = Timed
  BY <1>2 DEF Timed, AskedEarly, Enters, InTime, Plan
<1> QED BY <1>0, <1>2, <1>4, <1>5 DEF Timely

LEMMA OthersOnTime ==
    ASSUME PInv, [Next]_vars, NEW c \in Calls,
           CallCancel(c) \/ CallCancelSource(c) \/ CallTransition(c)
    PROVE  Timely'
<1>0. PBase /\ Timely /\ stats.missed = 0 /\ stats \in Counts
  BY DEF PInv, Timely, PBase, Shapes, QueueShapes
<1>1. /\ events' \subseteq events /\ stats'.missed = 0
      /\ UNCHANGED <<pc, lag, resched, cur, passNow, wakeAt, clock, scenario, running, left>>
  <2>1. CASE CallCancel(c) \/ CallCancelSource(c)
    <3>1. PICK es : Remove(es)
      BY <2>1 DEF CallCancel, CallCancelSource
    <3>2. stats'.missed = 0 /\ events' \subseteq events
      BY <1>0, <3>1 DEF Remove, Counts
    <3> QED BY <2>1, <3>2 DEF CallCancel, CallCancelSource, threadVars, timeVars, fixed
  <2>2. CASE CallTransition(c)
    BY <1>0, <2>2 DEF CallTransition, threadVars, queueVars, timeVars, fixed
  <2> QED BY <2>1, <2>2
<1>2. \A t \in Threads : OnTime(t)'
  BY <1>1, QueueOnTime
<1>3. Timed' = Timed
  BY <1>1 DEF Timed, AskedEarly, Enters, InTime, Plan
<1>4. running' \/ \A e \in events' : Enters(e.template)'
  BY <1>0, <1>1 DEF Timely, Enters, InTime, Plan
<1> QED BY <1>0, <1>1, <1>2, <1>3, <1>4 DEF Timely

\* The clock moves on while no thread waits longer than it may.
LEMMA TickOnTime ==
    ASSUME PInv, Tick
    PROVE  Timely'
<1>0. PBase /\ Timely /\ Shapes /\ stats.missed = 0
  BY DEF PInv, Timely, PBase
<1>1. /\ \A t \in Threads : Runnable(t) => lag[t] < scenario.lag
      /\ \A c \in Calls : left[c] = <<>>
      /\ clock' = clock + 1
      /\ lag' = [t \in Threads |-> IF Runnable(t) THEN lag[t] + 1 ELSE lag[t]]
      /\ UNCHANGED <<pc, passNow, cur, resched, wakeAt, events, stats, left, scenario, running>>
  BY DEF Tick, threadVars, queueVars, callVars, fixed
<1>2. ASSUME NEW t \in Threads PROVE OnTime(t)'
  <2>1. /\ lag[t] \in Nat /\ scenario.lag \in Nat /\ clock \in Nat /\ MaxSleep \in Nat
        /\ passNow[t] \in Nat /\ wakeAt[t] \in Nat /\ OnTime(t) /\ lag[t] <= scenario.lag
    BY <1>0, Times DEF Timely, OnTime
  <2>2. lag'[t] = IF Runnable(t) THEN lag[t] + 1 ELSE lag[t]
    BY <1>1
  <2>3. lag'[t] <= scenario'.lag
    BY <1>1, <2>1, <2>2
  <2>4. CASE Runnable(t)
    <3>1. lag'[t] = lag[t] + 1 /\ Latest(t)' = Latest(t)
      <4>1. lag'[t] = lag[t] + 1
        BY <2>2, <2>4
      <4>2. clock + 1 + scenario.lag - (lag[t] + 1) = clock + scenario.lag - lag[t]
        BY <2>1
      <4> QED BY <1>1, <4>1, <4>2 DEF Latest
    <3>2. Recent(t) => Recent(t)'
      BY <1>1, <2>1, <3>1 DEF Recent
    <3>3. Dozing(t) => Dozing(t)'
      <4>1. SUFFICES ASSUME Dozing(t) PROVE Dozing(t)'
        OBVIOUS
      <4>2. events \subseteq Early(wakeAt[t] + scenario.lag - lag[t] - 1)
        <5>1. /\ wakeAt[t] + scenario.lag - lag[t] \in Int /\ wakeAt[t] + scenario.lag - lag[t] - 1 \in Int
              /\ wakeAt[t] + scenario.lag - lag[t] - 1 <= wakeAt[t] + scenario.lag - lag[t]
          BY <2>1
        <5>2. Early(wakeAt[t] + scenario.lag - lag[t]) \subseteq Early(wakeAt[t] + scenario.lag - lag[t] - 1)
          BY <1>0, <5>1, EarlierToo
        <5> QED BY <4>1, <5>2 DEF Dozing
      <4>3. (wakeAt[t] + scenario.lag - lag[t])' = wakeAt[t] + scenario.lag - lag[t] - 1
        BY <1>1, <2>1, <3>1
      <4>4. wakeAt'[t] <= clock' + MaxSleep
        BY <1>1, <2>1, <4>1 DEF Dozing
      <4>5. (events \subseteq Early(wakeAt[t] + scenario.lag - lag[t]))'
        BY <1>1, <4>2, <4>3, SameEarly
      <4> QED BY <4>4, <4>5 DEF Dozing
    <3>4. (events \cup cur[t] \subseteq Early(Latest(t)))' <=> events \cup cur[t] \subseteq Early(Latest(t))
      BY <1>1, <3>1, SameEarly
    <3>5. (events \subseteq Early(Latest(t) + scenario.lag))' <=> events \subseteq Early(Latest(t) + scenario.lag)
      BY <1>1, <3>1, SameEarly
    <3> QED BY <1>1, <2>1, <2>3, <3>2, <3>3, <3>4, <3>5 DEF OnTime
  <2>5. CASE ~Runnable(t)
    <3>1. pc[t] = "off" \/ (pc[t] = "asleep" /\ ~(wakeAt[t] <= clock))
      BY <2>5 DEF Runnable
    <3>2. lag'[t] = lag[t]
      BY <2>2, <2>5
    <3>3. CASE pc[t] = "off"
      BY <1>1, <2>1, <2>3, <3>3 DEF OnTime, Pass, Holding
    <3>4. CASE pc[t] = "asleep" /\ ~(wakeAt[t] <= clock)
      <4>1. Dozing(t) /\ resched[t] = {} /\ cur[t] = {}
        BY <1>0, <2>1, <3>4 DEF OnTime, Shapes, ThreadShapes, Holding
      <4>2. /\ Latest(t)' \in Int /\ wakeAt[t] + scenario.lag - lag[t] \in Int
            /\ Latest(t)' <= wakeAt[t] + scenario.lag - lag[t]
        BY <1>1, <2>1, <3>2, <3>4, SMTT(30) DEF Latest
      <4>3. events \subseteq Early(Latest(t)')
        BY <1>0, <4>1, <4>2, EarlierToo DEF Dozing
      <4>4. (events \cup cur[t] \subseteq Early(Latest(t)))'
        BY <1>1, <4>1, <4>3, SameEarly
      <4>5. (events \subseteq Early(wakeAt[t] + scenario.lag - lag[t]))'
        BY <1>1, <3>2, <4>1, SameEarly DEF Dozing
      <4>6. wakeAt'[t] <= clock' + MaxSleep
        BY <1>1, <2>1, <4>1 DEF Dozing
      <4>7. Dozing(t)'
        BY <4>5, <4>6 DEF Dozing
      <4> QED BY <1>1, <2>3, <3>4, <4>1, <4>4, <4>7 DEF OnTime, Pass, Holding
    <3> QED BY <3>1, <3>3, <3>4
  <2> QED BY <2>4, <2>5
<1>3. \A c \in Calls : \A i \in 1..Len(left'[c]) : left'[c][i] \in Timed'
  <2>1. \A c \in Calls : 1..Len(left'[c]) = {}
    BY <1>1
  <2> QED BY <2>1
<1>4. running' \/ \A e \in events' : Enters(e.template)'
  BY <1>0, <1>1 DEF Timely, Enters, InTime, Plan
<1> QED BY <1>0, <1>1, <1>2, <1>3, <1>4 DEF Timely

LEMMA StepPInv == PInv /\ [Next]_vars => PInv'
<1> SUFFICES ASSUME PInv, [Next]_vars PROVE PInv'
  OBVIOUS
<1>0. PBase /\ PBase' /\ UNCHANGED scenario
  BY StepPBase DEF PInv
<1>1. ASSUME NEW t \in Threads, Thread(t) PROVE Timely'
  <2>1. OnTime(t)' /\ stats'.missed = 0
    BY <1>1, CheckOnTime, PopOnTime, PopNothingOnTime, HandlesOnTime, ArmOnTime, RescheduleOnTime,
       DozeOnTime, WakeOnTime DEF Thread, Handles
  <2> QED BY <1>1, <2>1, OneOnTime
<1>2. ASSUME NEW c \in Calls, Call(c) PROVE Timely'
  <2>1. ~CallStop(c)
    BY <1>0 DEF CallStop, Begin, PBase, Prompt, NoStops
  <2> QED BY <1>2, <2>1, PushOnTime, ScheduleOnTime, RunOnTime, OthersOnTime DEF Call
<1>3. CASE Tick
  BY <1>0, <1>3, TickOnTime DEF PInv
<1>4. CASE UNCHANGED vars
  <2>1. \A t \in Threads : OnTime(t)'
    BY <1>4, QueueOnTime DEF vars, threadVars, queueVars, timeVars, fixed
  <2>2. UNCHANGED <<left, events, running, stats, clock>>
    BY <1>4 DEF vars, queueVars, timeVars, callVars, fixed
  <2>3. Timed' = Timed
    BY <1>0, <2>2 DEF Timed, AskedEarly, Enters, InTime, Plan
  <2> QED BY <1>0, <2>1, <2>2, <2>3 DEF PInv, Timely, Enters, InTime, Plan
<1> QED BY <1>0, <1>1, <1>2, <1>3, <1>4 DEF Next, PInv

LEMMA InitPInv == Init /\ Prompt => PInv
<1> SUFFICES ASSUME Init, Prompt PROVE PInv
  OBVIOUS
<1>1. Runners
  BY DEF Init, Runners, Prompt, OneLoop
<1>2. PBase
  BY <1>1, InitShapes, InitKind DEF PBase
<1>3. \A t \in Threads : OnTime(t)
  BY DEF Init, OnTime, Pass, Holding, Prompt
<1>4. stats.missed = 0 /\ events = {} /\ \A c \in Calls : left[c] = <<>>
  BY DEF Init
<1>5. Timely
  <2>1. \A c \in Calls : 1..Len(left[c]) = {}
    BY <1>4
  <2> QED BY <1>3, <1>4, <2>1 DEF Timely
<1> QED BY <1>2, <1>5 DEF PInv

LEMMA PInvThenPunctual == PInv => Punctual /\ stats.missed = 0
<1> SUFFICES ASSUME PInv PROVE Punctual /\ stats.missed = 0
  OBVIOUS
<1>1. PBase /\ Timely
  BY DEF PInv
<1>2. ASSUME NEW t \in Threads, pc[t] # "off", NEW e \in events \cup cur[t]
      PROVE  clock <= e.template.deadline + Jitter
  <2>1. e \in Early(Latest(t)) /\ lag[t] <= scenario.lag
    BY <1>1, <1>2 DEF Timely, OnTime
  <2>2. e \in EventSet /\ Latest(t) <= e.template.deadline + Jitter
    BY <2>1 DEF Early, InTime
  <2>3. PICK d \in Nat : d = e.template.deadline
    BY <1>1, <2>2, Times
  <2>4. clock \in Nat /\ lag[t] \in Nat /\ scenario.lag \in Nat /\ Jitter \in Nat
    BY <1>1, Times
  <2>5. clock <= Latest(t) /\ Latest(t) \in Int
    BY <2>1, <2>4 DEF Latest
  <2> QED BY <2>2, <2>3, <2>4, <2>5
<1> QED BY <1>1, <1>2 DEF Timely, Punctual

\* In a prompt scenario every event leaves the queue, and is dealt with, at most
\* Jitter after its deadline, repetitions and the ends of turnarounds included,
\* and none is dropped late: whatever the calls do in between and however the
\* waits of the thread fall.  The Jitter may be as large as the deadline tolerance.
THEOREM ServedInTime == Spec /\ Prompt => [](Punctual /\ stats.missed = 0)
  BY InitPInv, StepPInv, PInvThenPunctual, PTL DEF Spec

\* So in a scenario that is orderly and prompt the radio is never left
\* transmitting, or in a turnaround, with nothing to take it out.
THEOREM PromptNeverSticks == Spec /\ Orderly /\ Prompt => []NeverStuck
<1>1. (NeverStuck \/ stats.missed > 0) /\ (Punctual /\ stats.missed = 0) => NeverStuck
  OBVIOUS
<1> QED BY <1>1, NothingSticks, ServedInTime, PTL

-----------------------------------------------------------------------------
(* The timetable.  A slot is what schedule_tx_burst, schedule_rx_window    *)
(* and schedule_beacon plan: an event that puts the radio on the air and   *)
(* an unguarded one that takes it off, once or with a common period; the   *)
(* turnaround comes after.  A scenario is slotted if it schedules slots    *)
(* that keep apart, with their turnarounds, and chores that leave the      *)
(* radio alone.  A slot may begin in the very tick in which a turnaround   *)
(* ends if the event that ends it comes first in the queue.                *)

Chores == {"SetPower", "Custom"}

IsSlot(ts) ==
    /\ Len(ts) = 2
    /\ \/ ts[1].action = "StartTx" /\ ts[2].action = "StopTx"
       \/ ts[1].action = "StartRx" /\ ts[2].action = "StopRx"
    /\ ts[2].guard = "none"
    /\ ts[1].deadline < ts[2].deadline /\ ts[1].repeat = ts[2].repeat

Slots == {c \in DOMAIN Plan : Plan[c].op = "schedule" /\ IsSlot(Plan[c].events)}

Opening(c) == Plan[c].events[1]
Closing(c) == Plan[c].events[2]
Period(c)  == Opening(c).repeat
Lasts(c)   == Closing(c).deadline - Opening(c).deadline
Sends(c)   == Opening(c).action = "StartTx"
Pause(c)   == IF Sends(c) THEN TxTurn ELSE RxTurn
On(c)      == IF Sends(c) THEN "Transmitting" ELSE "Receiving"
Off(c)     == IF Sends(c) THEN "TxTurnaround" ELSE "RxTurnaround"
Begins(c)  == {Opening(c).deadline + k * Period(c) : k \in Nat}
End(c, x)  == x + Lasts(c) + Pause(c)

Clears(c, x, d, y) ==
    \/ End(c, x) < y
    \/ End(c, x) = y /\ Pause(c) > 0 /\ Opening(d).priority > 0

Apart ==
    \A c, d \in Slots : \A x \in Begins(c), y \in Begins(d) :
        (c = d /\ x = y) \/ Clears(c, x, d, y) \/ Clears(d, y, c, x)

Slotted ==
    /\ \A c \in DOMAIN Plan : Plan[c].op \in {"run", "schedule"}
    /\ \A c \in DOMAIN Plan \ Slots : Plan[c].op = "schedule" =>
          \A i \in 1..Len(Plan[c].events) : Plan[c].events[i].action \in Chores
    /\ Apart

\* While a thread runs the loop and has nothing to do, each slot is on the air
\* for its time and then in its turnaround, the radio is idle between the
\* slots, and what repeats is queued.
KeepsTimetable ==
    Settled =>
        /\ \A c \in Slots \cap called : \A x \in Begins(c) :
              /\ x <= clock /\ clock < x + Lasts(c) => radio = On(c)
              /\ x + Lasts(c) <= clock /\ clock < End(c, x) => radio = Off(c)
        /\ \/ radio = "Idle"
           \/ \E c \in Slots \cap called : \E x \in Begins(c) : x <= clock /\ clock < End(c, x)
        /\ \A c \in Slots \cap called : Period(c) > 0 =>
              \E e \in events : e.call = c /\ e.template.action = Opening(c).action

-----------------------------------------------------------------------------
(* The events that are still to be dealt with.                             *)

Live == {e \in EventSet :
    \/ e \in events
    \/ \E t \in Threads : e \in cur[t] \/ e \in resched[t]
    \/ \E c \in Calls : \E i \in 1..Len(left[c]) : e = left[c][i]}

Of(c, a) == {e \in Live : e.call = c /\ e.template.action = a}

Openings(c) == Of(c, Opening(c).action)
Closings(c) == Of(c, Closing(c).action)
Timers(c)   == Of(c, "StateTransition")

Opens(tm, c, x) ==
    /\ tm.action = Opening(c).action /\ tm.priority = Opening(c).priority
    /\ tm.deadline = x /\ tm.repeat = Period(c)

Closes(tm, c, x) ==
    /\ tm.action = Closing(c).action /\ tm.guard = "none"
    /\ tm.deadline = x + Lasts(c) /\ tm.repeat = Period(c)

Settles(tm, c, x) ==
    /\ IsTimer(tm) /\ tm.priority = 0
    /\ tm.deadline = End(c, x) /\ tm.repeat = 0

OpensAt(c, x)   == \E e \in EventSet : Openings(c) = {e} /\ Opens(e.template, c, x)
ClosesAt(c, x)  == \E e \in EventSet : Closings(c) = {e} /\ Closes(e.template, c, x)
SettlesAt(c, x) == \E e \in EventSet : Timers(c) = {e} /\ Settles(e.template, c, x)

OpensNext(c, x)  == IF Period(c) > 0 THEN OpensAt(c, x + Period(c)) ELSE Openings(c) = {}
ClosesNext(c, x) == IF Period(c) > 0 THEN ClosesAt(c, x + Period(c)) ELSE Closings(c) = {}

\* A slot is not asked for yet, over for good, or waits for its time x.
Past(c, x) == \A y \in Begins(c) : y < x => End(c, y) <= clock

Empty(c) == Openings(c) = {} /\ Closings(c) = {} /\ Timers(c) = {}

Unasked(c) == c \notin called /\ Empty(c)

Served(c) == c \in called /\ Empty(c) /\ Period(c) = 0 /\ \A x \in Begins(c) : End(c, x) <= clock

Ready(c, x) == c \in called /\ Past(c, x) /\ OpensAt(c, x) /\ ClosesAt(c, x) /\ Timers(c) = {}

Quiet(c) == Unasked(c) \/ Served(c) \/ \E x \in Begins(c) : Ready(c, x)

\* Or it has the radio, and is on the air or in its turnaround, at the start of
\* which the thread is about to schedule its end.
Airs(c, x) ==
    /\ c \in called /\ Past(c, x) /\ radio = On(c) /\ x <= clock
    /\ OpensNext(c, x) /\ ClosesAt(c, x) /\ Timers(c) = {}

Stopping(c, x) ==
    /\ ClosesAt(c, x) /\ Timers(c) = {}
    /\ \E t \in Threads : pc[t] = "arm" /\ cur[t] = Closings(c)

Stopped(c, x) == ClosesNext(c, x) /\ SettlesAt(c, x)

Turns(c, x) ==
    /\ c \in called /\ Past(c, x) /\ radio = Off(c) /\ x + Lasts(c) <= clock
    /\ OpensNext(c, x) /\ (Stopping(c, x) \/ Stopped(c, x))

Has(c, x) == (Airs(c, x) \/ Turns(c, x)) /\ \A d \in Slots : d # c => Quiet(d)

Phases ==
    \/ radio = "Idle" /\ \A c \in Slots : Quiet(c)
    \/ \E c \in Slots : \E x \in Begins(c) : Has(c, x)

\* The event at work has been due, and is nowhere else.
Popped ==
    \A t \in Threads : \A e \in cur[t] :
        /\ e.template.deadline <= passNow[t]
        /\ e.counter = "new" => e.id < newIds
        /\ e.counter = "next" => e.id < nextIds
        /\ e \notin events /\ \A u \in Threads : e \notin resched[u]
        /\ \A c \in Calls : \A i \in 1..Len(left[c]) : e # left[c][i]

\* Of a slot there are events of three actions, of other calls chores.  A
\* turnaround's end is in the queue or at work.
Roles(e) ==
    IF e.call \in Slots
    THEN e.template.action \in {Opening(e.call).action, Closing(e.call).action, "StateTransition"}
    ELSE e.template.action \in Chores

Cast ==
    /\ \A e \in Live : Roles(e)
    /\ \A t \in Threads : \A e \in resched[t] : e.template.action # "StateTransition"
    /\ \A c \in Calls : \A i \in 1..Len(left[c]) : left[c][i].template.action # "StateTransition"

\* What the thread is about to do fits what the radio does.
Fit(t) ==
    /\ pc[t] # "unhop"
    /\ Working(t) => \A e \in cur[t] :
          e.call \in Slots /\ e.template.action = Opening(e.call).action => radio = "Idle"
    /\ pc[t] = "cas" => seen[t] = radio /\ \A e \in cur[t] : e.call \in Slots
    /\ pc[t] = "arm" => \E c \in Slots : \E x \in Begins(c) :
          Has(c, x) /\ Turns(c, x) /\ Stopping(c, x)

AtWork == \A t \in Threads : Fit(t)

XBase == PInv /\ Ids /\ Single /\ Jitter = 0 /\ Slotted

XInv == XBase /\ Popped /\ Cast /\ Phases /\ AtWork

-----------------------------------------------------------------------------
(* Numbers of slots.                                                       *)

LEMMA SlotTypes ==
    ASSUME Shapes, NEW c \in Slots
    PROVE  /\ c \in Calls /\ c \in DOMAIN Plan /\ Plan[c].op = "schedule"
           /\ Plan[c].events \in Seq(Templates) /\ Len(Plan[c].events) = 2
           /\ Opening(c) \in Templates /\ Closing(c) \in Templates
<1>1. scenario \in Scenarios /\ c \in DOMAIN scenario.calls /\ scenario.calls[c].op = "schedule"
  BY DEF Shapes, RestShapes, Slots, Plan
<1>2. c \in Calls
  BY <1>1 DEF Calls
<1>3. scenario.calls[c].events \in Seq(Templates)
  BY <1>1, ScenarioAssumption
<1>4. Plan[c].events \in Seq(Templates) /\ Len(Plan[c].events) = 2
  BY <1>3 DEF Slots, IsSlot, Plan
<1>5. Opening(c) \in Templates /\ Closing(c) \in Templates
  <2>1. PICK ts \in Seq(Templates) : ts = Plan[c].events /\ Len(ts) = 2
    BY <1>4
  <2>2. ts[1] \in Templates /\ ts[2] \in Templates
    BY <2>1
  <2> QED BY <2>1, <2>2 DEF Opening, Closing
<1> QED BY <1>1, <1>2, <1>4, <1>5 DEF Plan

LEMMA SlotNumbers ==
    ASSUME Shapes, NEW c \in Slots
    PROVE  /\ Opening(c).deadline \in Nat /\ Closing(c).deadline \in Nat /\ Opening(c).priority \in Nat
           /\ Period(c) \in Nat /\ Closing(c).repeat = Period(c)
           /\ Lasts(c) \in Nat /\ Lasts(c) > 0 /\ Pause(c) \in Nat
           /\ Closing(c).deadline = Opening(c).deadline + Lasts(c)
<1>1. Opening(c) \in Templates /\ Closing(c) \in Templates
  BY SlotTypes
<1>2. Opening(c).deadline < Closing(c).deadline /\ Opening(c).repeat = Closing(c).repeat
  BY DEF Slots, IsSlot, Opening, Closing
<1>3. Opening(c).deadline \in Nat /\ Closing(c).deadline \in Nat /\ Opening(c).priority \in Nat /\ Opening(c).repeat \in Nat
  BY <1>1 DEF Templates
<1>4. Pause(c) \in Nat
  BY TimesAssumption DEF Pause
<1> QED BY <1>2, <1>3, <1>4 DEF Lasts, Period

LEMMA SlotActions ==
    ASSUME Shapes, NEW c \in Slots
    PROVE  /\ Opening(c).action = (IF Sends(c) THEN "StartTx" ELSE "StartRx")
           /\ Closing(c).action = (IF Sends(c) THEN "StopTx" ELSE "StopRx")
           /\ Closing(c).guard = "none"
           /\ Opening(c).action # Closing(c).action
           /\ Opening(c).action # "StateTransition" /\ Closing(c).action # "StateTransition"
  BY DEF Slots, IsSlot, Opening, Closing, Sends

LEMMA BeginNumbers ==
    ASSUME Shapes, NEW c \in Slots, NEW x \in Begins(c)
    PROVE  /\ x \in Nat /\ End(c, x) \in Nat
           /\ End(c, x) = x + Lasts(c) + Pause(c) /\ x < End(c, x) /\ x + Lasts(c) <= End(c, x)
           /\ x + Period(c) \in Begins(c)
           /\ Period(c) = 0 => x = Opening(c).deadline
<1>1. PICK k \in Nat : x = Opening(c).deadline + k * Period(c)
  BY DEF Begins
<1>2. PICK o \in Nat, p \in Nat : o = Opening(c).deadline /\ p = Period(c)
  BY SlotNumbers
<1>3. k * p \in Nat /\ (k + 1) * p = k * p + p /\ k + 1 \in Nat
  BY <1>2
<1>4. x \in Nat /\ x + p = o + (k + 1) * p
  BY <1>1, <1>2, <1>3
<1>5. x + p \in Begins(c)
  BY <1>2, <1>3, <1>4 DEF Begins
<1>6. p = 0 => x = o
  BY <1>1, <1>2
<1> QED BY <1>2, <1>4, <1>5, <1>6, SlotNumbers DEF End

LEMMA FirstBegins ==
    ASSUME Shapes, NEW c \in Slots
    PROVE  /\ Opening(c).deadline \in Begins(c)
           /\ \A y \in Begins(c) : Opening(c).deadline <= y
<1>1. PICK o \in Nat, p \in Nat : o = Opening(c).deadline /\ p = Period(c)
  BY SlotNumbers
<1>2. 0 \in Nat /\ o = o + 0 * p
  BY <1>1
<1>3. o \in Begins(c)
  BY <1>1, <1>2 DEF Begins
<1>4. ASSUME NEW k \in Nat PROVE o <= o + k * p
  <2>1. k * p \in Nat
    BY <1>1
  <2> QED BY <1>1, <2>1
<1> QED BY <1>1, <1>3, <1>4 DEF Begins

LEMMA Multiples ==
    ASSUME NEW k \in Nat, NEW j \in Nat, NEW p \in Nat, j * p < k * p + p
    PROVE  j <= k
<1>1. SUFFICES ASSUME k + 1 <= j PROVE FALSE
  OBVIOUS
<1>2. PICK d \in Nat : j = k + 1 + d
  <2>1. j - (k + 1) \in Nat /\ j = k + 1 + (j - (k + 1))
    BY <1>1
  <2> QED BY <2>1
<1>3. j * p = k * p + p + d * p /\ d * p \in Nat /\ k * p \in Nat
  BY <1>2
<1> QED BY <1>3

\* Nothing begins between a beginning and the next.
LEMMA Spacing ==
    ASSUME Shapes, NEW c \in Slots, NEW x \in Begins(c), NEW y \in Begins(c), y < x + Period(c)
    PROVE  y <= x
<1>1. PICK o \in Nat, p \in Nat : o = Opening(c).deadline /\ p = Period(c)
  BY SlotNumbers
<1>2. PICK k \in Nat : x = o + k * p
  BY <1>1 DEF Begins
<1>3. PICK j \in Nat : y = o + j * p
  BY <1>1 DEF Begins
<1>4. k * p \in Nat /\ j * p \in Nat
  BY <1>1
<1>5. j * p < k * p + p
  BY <1>1, <1>2, <1>3, <1>4
<1>6. j <= k
  BY <1>1, <1>5, Multiples
<1>7. PICK d \in Nat : k = j + d
  <2>1. k - j \in Nat /\ k = j + (k - j)
    BY <1>6
  <2> QED BY <2>1
<1>8. k * p = j * p + d * p /\ d * p \in Nat
  BY <1>1, <1>7
<1> QED BY <1>1, <1>2, <1>3, <1>4, <1>8

\* The plan of a scenario does not change.
LEMMA SamePlan ==
    ASSUME UNCHANGED scenario
    PROVE  /\ Slots' = Slots
           /\ \A c : /\ Opening(c)' = Opening(c) /\ Closing(c)' = Closing(c) /\ Period(c)' = Period(c)
                     /\ Lasts(c)' = Lasts(c) /\ Pause(c)' = Pause(c) /\ Begins(c)' = Begins(c)
                     /\ On(c)' = On(c) /\ Off(c)' = Off(c)
           /\ Slotted' = Slotted
<1>1. Plan' = Plan
  BY DEF Plan
<1> USE DEF Opening, Closing, Period, Lasts, Sends, Pause, On, Off, Begins, End
<1>2. Slots' = Slots
  BY <1>1 DEF Slots
<1>3. \A c : /\ Opening(c)' = Opening(c) /\ Closing(c)' = Closing(c) /\ Period(c)' = Period(c)
  BY <1>1
<1>4. \A c : /\ Lasts(c)' = Lasts(c) /\ Pause(c)' = Pause(c) /\ Begins(c)' = Begins(c)
             /\ On(c)' = On(c) /\ Off(c)' = Off(c)
  BY <1>1
<1>5. Apart' = Apart
  BY <1>1, <1>2 DEF Apart, Clears
<1> QED BY <1>1, <1>2, <1>3, <1>4, <1>5 DEF Slotted

-----------------------------------------------------------------------------
(* The event at work and the events still to be dealt with.                *)

LEMMA XFacts ==
    ASSUME XBase
    PROVE  /\ Shapes /\ PBase /\ PInv /\ Timely /\ Ids /\ Single /\ Slotted
           /\ Jitter = 0 /\ scenario.lag = 0
           /\ TRUE \in BOOLEAN /\ FALSE \in BOOLEAN
<1>1. PBase /\ Jitter = 0
  BY DEF XBase, PInv
<1>2. scenario.lag \in Nat /\ 2 * scenario.lag <= Jitter
  BY <1>1, Times
<1>3. scenario.lag = 0
  BY <1>1, <1>2
<1> QED BY <1>1, <1>3 DEF XBase, PInv, PBase

\* Only a thread in the loop holds an event, and there is only one.
LEMMA OneHolder ==
    ASSUME PBase, NEW t \in Threads, pc[t] # "off"
    PROVE  \A u \in Threads : u # t => pc[u] = "off" /\ cur[u] = {}
<1>1. \A u \in Threads : u # t => pc[u] = "off"
  BY InTheLoop
<1> QED BY <1>1 DEF PBase, Shapes, ThreadShapes, Holding

LEMMA StepXBase == ASSUME XBase, [Next]_vars PROVE XBase' /\ UNCHANGED scenario
<1>1. UNCHANGED scenario
  BY ScenarioStays
<1>2. Slotted'
  BY <1>1, SamePlan, XFacts
<1>3. PInv' /\ Ids' /\ Single'
  BY XFacts, StepPInv, StepIds, StepSingle
<1> QED BY <1>1, <1>2, <1>3 DEF XBase

\* The calls of a slotted scenario.
LEMMA SlottedCalls ==
    ASSUME XBase, NEW c \in Calls, Call(c)
    PROVE  CallSchedule(c) \/ Push(c) \/ CallRun(c)
<1>1. \A op : Begin(c, op) => op \in {"run", "schedule"}
  BY XFacts DEF Begin, Slotted
<1> QED BY <1>1 DEF Call, CallCancel, CallCancelSource, CallStop, CallTransition

LEMMA ThreadPopped ==
    ASSUME XBase, Popped, NEW t \in Threads, Thread(t)
    PROVE  Popped'
<1>0. Shapes /\ PBase
  BY XFacts
<1>1. pc[t] # "off"
  BY <1>0, ThreadMoves
<1>2. \A u \in Threads : u # t => cur[u] = {}
  BY <1>0, <1>1, OneHolder
<1>3. ASSUME cur' = [cur EXCEPT ![t] = {}] \/ (UNCHANGED cur /\ cur[t] = {}) PROVE Popped'
  <2>1. \A u \in Threads : cur'[u] = {}
    BY <1>0, <1>2, <1>3 DEF Shapes, ThreadShapes
  <2> QED BY <2>1 DEF Popped
<1>4. CASE Idles(t)
  <2>1. UNCHANGED cur /\ pc[t] \notin Holding
    BY <1>4 DEF Idles, Check, Checked, PopNothing, Doze, Sleeping, Wake, Reschedule, Holding
  <2> QED BY <1>0, <1>3, <2>1 DEF Shapes, ThreadShapes
<1>5. CASE Pop(t)
  <2>1. PICK e \in events : /\ e.template.deadline <= passNow[t]
                            /\ events' = events \ {e} /\ cur' = [cur EXCEPT ![t] = {e}]
    BY <1>5 DEF Pop, Due
  <2>2. UNCHANGED <<passNow, newIds, nextIds, resched, left>>
    BY <1>5 DEF Pop, callVars
  <2>3. cur'[t] = {e} /\ \A u \in Threads : u # t => cur'[u] = {}
    BY <1>0, <1>2, <2>1 DEF Shapes, ThreadShapes
  <2>4. /\ e.counter = "new" => e.id < newIds
        /\ e.counter = "next" => e.id < nextIds
        /\ e \notin events' /\ \A u \in Threads : e \notin resched[u]
        /\ \A c \in Calls : \A i \in 1..Len(left[c]) : e # left[c][i]
    BY <2>1, XFacts DEF Ids, EventIds, ReschedIds, LeftIds
  <2> QED BY <2>1, <2>2, <2>3, <2>4 DEF Popped
<1>6. CASE Handles(t) \/ Arm(t)
  <2>1. \/ cur' = [cur EXCEPT ![t] = {}]
        \/ UNCHANGED <<cur, events, resched, nextIds, newIds, passNow, left>>
    <3>1. CASE Guard(t)
      BY <3>1 DEF Guard, Finish, callVars
    <3>2. CASE Load(t)
      BY <3>2 DEF Load, Finish, callVars
    <3>3. CASE Cas(t)
      BY <3>3 DEF Cas, Exchange, Finish, callVars
    <3>4. CASE Unhop(t) \/ Arm(t)
      BY <3>4 DEF Unhop, Arm, Finish
    <3> QED BY <1>6, <3>1, <3>2, <3>3, <3>4 DEF Handles
  <2>2. CASE UNCHANGED <<cur, events, resched, nextIds, newIds, passNow, left>>
    BY <2>2 DEF Popped
  <2> QED BY <1>3, <2>1, <2>2
<1> QED BY <1>4, <1>5, <1>6, ThreadCases

LEMMA CallPopped ==
    ASSUME XBase, Popped, NEW c \in Calls, Call(c)
    PROVE  Popped'
<1>0. Shapes
  BY XFacts
<1>1. CASE CallRun(c)
  <2>1. UNCHANGED <<cur, events, resched, nextIds, newIds, passNow, left>>
    BY <1>1 DEF CallRun, queueVars
  <2> QED BY <2>1 DEF Popped
<1>2. CASE Push(c)
  <2>1. PICK s \in Seq(EventSet) : s = left[c] /\ s # <<>>
    BY <1>0, <1>2 DEF Push, Shapes, QueueShapes
  <2>2. /\ events' = events \cup {Head(s)} /\ left' = [left EXCEPT ![c] = Tail(s)]
        /\ UNCHANGED <<cur, resched, nextIds, newIds, passNow>>
    BY <1>2, <2>1 DEF Push, Insert, threadVars
  <2>3. Head(s) = s[1] /\ 1 \in 1..Len(s) /\ Len(Tail(s)) = Len(s) - 1 /\ Len(s) \in Nat
    BY <2>1
  <2>4. \A i \in 1..Len(Tail(s)) : Tail(s)[i] = s[i + 1] /\ i + 1 \in 1..Len(s)
    BY <2>1, <2>3
  <2>5. \A d \in Calls : left'[d] = IF d = c THEN Tail(s) ELSE left[d]
    BY <1>0, <2>2 DEF Shapes, QueueShapes
  <2>6. ASSUME NEW t \in Threads, NEW e \in cur[t]
        PROVE  e \notin events' /\ \A d \in Calls : \A i \in 1..Len(left'[d]) : e # left'[d][i]
    <3>1. \A i \in 1..Len(s) : e # s[i]
      BY <2>1, <2>6 DEF Popped
    <3>2. e # Head(s) /\ \A i \in 1..Len(Tail(s)) : e # Tail(s)[i]
      BY <2>3, <2>4, <3>1
    <3>3. e \notin events /\ \A d \in Calls : \A i \in 1..Len(left[d]) : e # left[d][i]
      BY <2>6 DEF Popped
    <3>4. ASSUME NEW d \in Calls, NEW i \in 1..Len(left'[d]) PROVE e # left'[d][i]
      <4>1. CASE d = c
        BY <2>5, <3>2, <4>1
      <4>2. CASE d # c
        BY <2>5, <3>3, <4>2
      <4> QED BY <4>1, <4>2
    <3>5. e \notin events'
      BY <2>2, <3>2, <3>3
    <3> QED BY <3>4, <3>5
  <2>7. /\ \A t \in Threads : cur'[t] = cur[t] /\ resched'[t] = resched[t] /\ passNow'[t] = passNow[t]
        /\ newIds' = newIds /\ nextIds' = nextIds
    BY <2>2
  <2> QED BY <2>6, <2>7, SMTT(30) DEF Popped
<1>3. CASE CallSchedule(c)
  <2>1. PICK ts : ts = Plan[c].events
    OBVIOUS
  <2>2. ts \in Seq(Templates)
    BY <1>0, <1>3, <2>1, PlanOf DEF CallSchedule
  <2>3. PICK es : es = [i \in 1..Len(ts) |-> Event(ts[i], "new", newIds + i - 1, c)]
    OBVIOUS
  <2>4. /\ left' = [left EXCEPT ![c] = es] /\ newIds' = newIds + Len(ts)
        /\ UNCHANGED <<cur, resched, nextIds, passNow, events>>
    BY <1>3, <2>1, <2>3 DEF CallSchedule, threadVars
  <2>5. \A d \in Calls : left'[d] = IF d = c THEN es ELSE left[d]
    BY <1>0, <2>4 DEF Shapes, QueueShapes
  <2>6. newIds \in Nat /\ Len(ts) \in Nat /\ Len(es) = Len(ts)
    BY <1>0, <2>2, <2>3 DEF Shapes, QueueShapes
  <2>7. \A i \in 1..Len(ts) : es[i].counter = "new" /\ es[i].id >= newIds
    BY <2>3, <2>6 DEF Event
  <2>8. ASSUME NEW t \in Threads, NEW e \in cur[t]
        PROVE  /\ e.counter = "new" => e.id < newIds'
               /\ \A d \in Calls : \A i \in 1..Len(left'[d]) : e # left'[d][i]
    <3>1. e.id \in Nat /\ (e.counter = "new" => e.id < newIds)
      BY <1>0, <2>8 DEF Popped, Shapes, ThreadShapes, EventSet
    <3>2. \A i \in 1..Len(es) : e # es[i]
      BY <2>6, <2>7, <3>1
    <3>3. \A d \in Calls : \A i \in 1..Len(left[d]) : e # left[d][i]
      BY <2>8 DEF Popped
    <3> QED BY <2>4, <2>5, <2>6, <3>1, <3>2, <3>3
  <2> QED BY <2>4, <2>8 DEF Popped
<1> QED BY <1>1, <1>2, <1>3, SlottedCalls

LEMMA StepPopped == ASSUME XBase, Popped, [Next]_vars PROVE Popped'
<1>1. CASE Tick \/ UNCHANGED vars
  <2>1. UNCHANGED <<cur, events, resched, nextIds, newIds, passNow, left>>
    BY <1>1 DEF Tick, vars, threadVars, queueVars, callVars
  <2> QED BY <2>1 DEF Popped
<1> QED BY <1>1, ThreadPopped, CallPopped DEF Next

\* What Finish puts into to_reschedule.
Again(e, ok) == IF ok /\ e.template.repeat > 0 THEN {Next1(e)} ELSE {}

LEMMA FinishAgain ==
    ASSUME Shapes, NEW t \in Threads, NEW e \in cur[t], NEW ok \in BOOLEAN, Finish(t, e, ok)
    PROVE  /\ cur' = [cur EXCEPT ![t] = {}] /\ pc' = [pc EXCEPT ![t] = "pop"]
           /\ resched' = [resched EXCEPT ![t] = @ \cup Again(e, ok)]
           /\ Again(e, ok) \subseteq EventSet
<1>1. e \in EventSet /\ nextIds \in Nat
  BY DEF Shapes, ThreadShapes, QueueShapes
<1>2. cur' = [cur EXCEPT ![t] = {}] /\ pc' = [pc EXCEPT ![t] = "pop"]
  BY DEF Finish, Goto
<1>3. CASE ok /\ e.template.repeat > 0
  <2>1. Again(e, ok) = {Next1(e)}
    BY <1>3 DEF Again
  <2>2. PICK next : next = Next1(e)
    OBVIOUS
  <2>3. resched' = [resched EXCEPT ![t] = @ \cup {next}]
    BY <1>3, <2>2 DEF Finish, Next1
  <2>4. next \in EventSet
    BY <1>1, <2>2, NextIsEvent
  <2> QED BY <1>2, <2>1, <2>2, <2>3, <2>4
<1>4. CASE ~(ok /\ e.template.repeat > 0)
  <2>1. Again(e, ok) = {}
    BY <1>4 DEF Again
  <2>2. resched' = [resched EXCEPT ![t] = @]
    BY <1>4 DEF Finish
  <2> QED BY <1>2, <2>1, <2>2 DEF Shapes, QueueShapes
<1> QED BY <1>3, <1>4

\* The event is gone, and its next occurrence is there.
LEMMA FinishLive ==
    ASSUME XBase, Popped, NEW t \in Threads, NEW e \in cur[t], NEW ok \in BOOLEAN, Finish(t, e, ok),
           NEW xs \in SUBSET EventSet, e \notin xs, events' = events \cup xs, UNCHANGED left
    PROVE  Live' = (Live \ {e}) \cup Again(e, ok) \cup xs
<1>0. Shapes /\ PBase
  BY XFacts
<1>1. /\ cur' = [cur EXCEPT ![t] = {}]
      /\ resched' = [resched EXCEPT ![t] = @ \cup Again(e, ok)] /\ Again(e, ok) \subseteq EventSet
  BY <1>0, FinishAgain
<1>2. cur[t] = {e} /\ \A u \in Threads : u # t => cur[u] = {}
  <2>1. pc[t] # "off"
    BY <1>0 DEF Shapes, ThreadShapes, Holding
  <2>2. cur[t] = {e}
    BY XFacts DEF Single
  <2> QED BY <1>0, <2>1, <2>2, OneHolder
<1>3. \A u \in Threads : cur'[u] = {} /\ resched'[u] = IF u = t THEN resched[u] \cup Again(e, ok) ELSE resched[u]
  BY <1>0, <1>1, <1>2 DEF Shapes, ThreadShapes, QueueShapes
<1>4. e \notin events /\ (\A u \in Threads : e \notin resched[u])
      /\ \A c \in Calls : \A i \in 1..Len(left[c]) : e # left[c][i]
  BY DEF Popped
<1>5. ASSUME NEW x, x \in Live' PROVE x \in (Live \ {e}) \cup Again(e, ok) \cup xs
  <2>1. x \in EventSet /\ \/ x \in events \cup xs \/ \E u \in Threads : x \in resched'[u]
                          \/ \E c \in Calls : \E i \in 1..Len(left[c]) : x = left[c][i]
    BY <1>3, <1>5 DEF Live
  <2>2. CASE x \in events
    BY <1>4, <2>1, <2>2 DEF Live
  <2>3. CASE \E u \in Threads : x \in resched'[u]
    <3>1. PICK u \in Threads : x \in resched[u] \/ x \in Again(e, ok)
      BY <1>3, <2>3
    <3> QED BY <1>4, <2>1, <3>1 DEF Live
  <2>4. CASE \E c \in Calls : \E i \in 1..Len(left[c]) : x = left[c][i]
    BY <1>4, <2>1, <2>4 DEF Live
  <2> QED BY <2>1, <2>2, <2>3, <2>4
<1>6. ASSUME NEW x \in Live, x # e PROVE x \in Live'
  <2>1. x \in EventSet /\ \/ x \in events \/ \E u \in Threads : x \in resched[u]
                          \/ \E c \in Calls : \E i \in 1..Len(left[c]) : x = left[c][i]
    BY <1>2, <1>6 DEF Live
  <2>2. \A u \in Threads : resched[u] \subseteq resched'[u]
    BY <1>3
  <2> QED BY <2>1, <2>2 DEF Live
<1>7. Again(e, ok) \cup xs \subseteq Live'
  BY <1>1, <1>3 DEF Live
<1> QED BY <1>5, <1>6, <1>7

\* What leaves the events where they are, or moves them.
LEMMA StillLive == ASSUME UNCHANGED <<events, cur, resched, left>> PROVE Live' = Live
  BY DEF Live

LEMMA PopLive ==
    ASSUME XBase, NEW t \in Threads, Pop(t)
    PROVE  /\ Live' = Live /\ UNCHANGED <<resched, left>> /\ cur[t] = {}
           /\ \E e \in events :
                /\ e.template.deadline <= passNow[t]
                /\ \A f \in events : ~Before(f, e)
                /\ cur'[t] = {e} /\ \A u \in Threads : u # t => cur'[u] = cur[u]
<1>0. Shapes
  BY XFacts
<1>1. PICK e \in events : /\ e.template.deadline <= passNow[t]
                          /\ \A f \in events : ~Before(f, e)
                          /\ events' = events \ {e} /\ cur' = [cur EXCEPT ![t] = {e}]
  BY DEF Pop, Due
<1>2. pc[t] = "pop" /\ UNCHANGED <<resched, left>>
  BY DEF Pop, callVars
<1>3. cur[t] = {}
  BY <1>0, <1>2 DEF Shapes, ThreadShapes, Holding
<1>4. \A u \in Threads : cur'[u] = IF u = t THEN {e} ELSE cur[u]
  BY <1>0, <1>1 DEF Shapes, ThreadShapes
<1>5. ASSUME NEW x \in EventSet
      PROVE  (x \in events' \/ \E u \in Threads : x \in cur'[u]) <=> (x \in events \/ \E u \in Threads : x \in cur[u])
  BY <1>1, <1>3, <1>4
<1>6. Live' = Live
  BY <1>2, <1>5 DEF Live
<1> QED BY <1>1, <1>2, <1>3, <1>4, <1>6

LEMMA RescheduleLive ==
    ASSUME XBase, NEW t \in Threads, Reschedule(t)
    PROVE  /\ Live' = Live /\ UNCHANGED <<cur, left>> /\ events' = events \cup resched[t]
           /\ \A u \in Threads : resched'[u] \subseteq resched[u]
<1>0. Shapes
  BY XFacts
<1>1. events' = events \cup resched[t] /\ resched' = [resched EXCEPT ![t] = {}] /\ UNCHANGED <<cur, left>>
  BY DEF Reschedule, Insert, callVars
<1>2. \A u \in Threads : resched'[u] = IF u = t THEN {} ELSE resched[u]
  BY <1>0, <1>1 DEF Shapes, QueueShapes
<1>3. ASSUME NEW x \in EventSet
      PROVE  (x \in events' \/ \E u \in Threads : x \in resched'[u]) <=> (x \in events \/ \E u \in Threads : x \in resched[u])
  BY <1>1, <1>2
<1>4. Live' = Live
  BY <1>1, <1>3 DEF Live
<1> QED BY <1>1, <1>2, <1>4

LEMMA PushLive ==
    ASSUME XBase, NEW c \in Calls, Push(c)
    PROVE  /\ Live' = Live /\ UNCHANGED <<cur, resched, radio, pc, seen, clock, called, scenario>>
           /\ \E x \in EventSet : events' = events \cup {x}
           /\ \A d \in Calls : \A i \in 1..Len(left'[d]) : \E j \in 1..Len(left[d]) : left'[d][i] = left[d][j]
<1>0. Shapes
  BY XFacts
<1>1. PICK s \in Seq(EventSet) : s = left[c] /\ s # <<>>
  BY <1>0 DEF Push, Shapes, QueueShapes
<1>2. /\ events' = events \cup {Head(s)} /\ left' = [left EXCEPT ![c] = Tail(s)]
      /\ UNCHANGED <<cur, resched, radio, pc, seen, clock, called, scenario>>
  BY <1>1 DEF Push, Insert, threadVars, timeVars, fixed
<1>3. Head(s) = s[1] /\ 1 \in 1..Len(s) /\ Len(Tail(s)) = Len(s) - 1 /\ Len(s) \in Nat /\ Head(s) \in EventSet
  BY <1>1
<1>4. \A i \in 1..Len(Tail(s)) : Tail(s)[i] = s[i + 1] /\ i + 1 \in 1..Len(s)
  BY <1>1, <1>3
<1>5. \A d \in Calls : left'[d] = IF d = c THEN Tail(s) ELSE left[d]
  BY <1>0, <1>2 DEF Shapes, QueueShapes
<1>6. \A i \in 1..Len(s) : s[i] = Head(s) \/ \E j \in 1..Len(Tail(s)) : s[i] = Tail(s)[j]
  <2>1. ASSUME NEW i \in 1..Len(s), i # 1 PROVE \E j \in 1..Len(Tail(s)) : s[i] = Tail(s)[j]
    <3>1. i - 1 \in 1..Len(Tail(s)) /\ i = (i - 1) + 1
      BY <1>3, <2>1
    <3> QED BY <1>4, <3>1
  <2> QED BY <1>3, <2>1
<1>7. ASSUME NEW x \in EventSet
      PROVE  (x \in events' \/ \E d \in Calls : \E i \in 1..Len(left'[d]) : x = left'[d][i])
              <=> (x \in events \/ \E d \in Calls : \E i \in 1..Len(left[d]) : x = left[d][i])
  <2>1. ASSUME x \in events' \/ \E d \in Calls : \E i \in 1..Len(left'[d]) : x = left'[d][i]
        PROVE  x \in events \/ \E d \in Calls : \E i \in 1..Len(left[d]) : x = left[d][i]
    BY <1>1, <1>2, <1>3, <1>4, <1>5, <2>1
  <2>2. ASSUME x \in events \/ \E d \in Calls : \E i \in 1..Len(left[d]) : x = left[d][i]
        PROVE  x \in events' \/ \E d \in Calls : \E i \in 1..Len(left'[d]) : x = left'[d][i]
    <3>1. CASE x \in events
      BY <1>2, <3>1
    <3>2. CASE \E d \in Calls : \E i \in 1..Len(left[d]) : x = left[d][i]
      <4>1. PICK d \in Calls : \E i \in 1..Len(left[d]) : x = left[d][i]
        BY <3>2
      <4>2. CASE d = c
        <5>1. PICK i \in 1..Len(s) : x = s[i]
          BY <1>1, <4>1, <4>2
        <5>2. x = Head(s) \/ \E j \in 1..Len(Tail(s)) : x = Tail(s)[j]
          BY <1>6, <5>1
        <5>3. left'[c] = Tail(s)
          BY <1>5
        <5> QED BY <1>2, <5>2, <5>3
      <4>3. CASE d # c
        BY <1>5, <4>1, <4>3
      <4> QED BY <4>2, <4>3
    <3> QED BY <2>2, <3>1, <3>2
  <2> QED BY <2>1, <2>2
<1>8. Live' = Live
  BY <1>2, <1>7 DEF Live
<1>9. ASSUME NEW d \in Calls, NEW i \in 1..Len(left'[d]) PROVE \E j \in 1..Len(left[d]) : left'[d][i] = left[d][j]
  <2>1. CASE d = c
    BY <1>1, <1>4, <1>5, <2>1
  <2>2. CASE d # c
    BY <1>5, <2>2
  <2> QED BY <2>1, <2>2
<1> QED BY <1>2, <1>3, <1>8, <1>9

\* The events of the calls that a step does not concern.
LEMMA SameOf == ASSUME Live' = Live PROVE \A c, a : Of(c, a)' = Of(c, a)
  BY DEF Of

LEMMA AgainFacts ==
    ASSUME NEW e \in EventSet, NEW ok \in BOOLEAN
    PROVE  /\ \A y \in Again(e, ok) :
                /\ y.call = e.call /\ y.template = Repetition(e.template)
                /\ y.template.action = e.template.action
           /\ Again(e, ok) # {} => e.template.repeat > 0
<1>1. Next1(e).call = e.call /\ Next1(e).template = Repetition(e.template)
  BY DEF Next1, Event, Repetition
<1>2. Repetition(e.template).action = e.template.action
  BY DEF EventSet, Templates, Repetition
<1>3. \A y \in Again(e, ok) : y = Next1(e) /\ e.template.repeat > 0
  BY DEF Again
<1> QED BY <1>1, <1>2, <1>3

\* What is asked of a slot's events in its phases stays when they do.
LEMMA SlotStays ==
    ASSUME UNCHANGED scenario, NEW c, \A a : Of(c, a)' = Of(c, a), NEW x
    PROVE  /\ Openings(c)' = Openings(c) /\ Closings(c)' = Closings(c) /\ Timers(c)' = Timers(c)
           /\ OpensAt(c, x)' = OpensAt(c, x) /\ ClosesAt(c, x)' = ClosesAt(c, x)
           /\ SettlesAt(c, x)' = SettlesAt(c, x)
           /\ OpensNext(c, x)' = OpensNext(c, x) /\ ClosesNext(c, x)' = ClosesNext(c, x)
           /\ Empty(c)' = Empty(c)
<1>1. /\ Opening(c)' = Opening(c) /\ Closing(c)' = Closing(c) /\ Period(c)' = Period(c)
      /\ Lasts(c)' = Lasts(c) /\ Pause(c)' = Pause(c)
  BY SamePlan
<1>2. Openings(c)' = Openings(c) /\ Closings(c)' = Closings(c) /\ Timers(c)' = Timers(c)
  BY <1>1 DEF Openings, Closings, Timers
<1>3. \A y : /\ OpensAt(c, y)' = OpensAt(c, y) /\ ClosesAt(c, y)' = ClosesAt(c, y)
             /\ SettlesAt(c, y)' = SettlesAt(c, y)
  <2>1. \A tm, y : /\ Opens(tm, c, y)' = Opens(tm, c, y) /\ Closes(tm, c, y)' = Closes(tm, c, y)
                   /\ Settles(tm, c, y)' = Settles(tm, c, y)
    BY <1>1 DEF Opens, Closes, Settles, End, IsTimer
  <2> QED BY <1>2, <2>1 DEF OpensAt, ClosesAt, SettlesAt
<1>4. OpensNext(c, x)' = OpensNext(c, x) /\ ClosesNext(c, x)' = ClosesNext(c, x)
  BY <1>1, <1>2, <1>3 DEF OpensNext, ClosesNext
<1> QED BY <1>2, <1>3, <1>4 DEF Empty

LEMMA PastStays ==
    ASSUME Shapes, Shapes', UNCHANGED scenario, clock <= clock', NEW c \in Slots, NEW x, Past(c, x)
    PROVE  Past(c, x)'
<1>1. Begins(c)' = Begins(c) /\ Lasts(c)' = Lasts(c) /\ Pause(c)' = Pause(c)
  BY SamePlan
<1>2. \A y \in Begins(c) : End(c, y)' = End(c, y) /\ End(c, y) \in Nat
  BY <1>1, BeginNumbers DEF End
<1>3. clock \in Nat /\ clock' \in Nat
  BY DEF Shapes, RestShapes
<1> QED BY <1>1, <1>2, <1>3 DEF Past

LEMMA QuietStays ==
    ASSUME Shapes, Shapes', UNCHANGED scenario, clock <= clock',
           NEW c \in Slots, \A a : Of(c, a)' = Of(c, a), c \in called <=> c \in called', Quiet(c)
    PROVE  Quiet(c)'
<1>1. Begins(c)' = Begins(c) /\ Lasts(c)' = Lasts(c) /\ Pause(c)' = Pause(c) /\ Period(c)' = Period(c)
  BY SamePlan
<1>2. Empty(c)' = Empty(c) /\ Timers(c)' = Timers(c)
  BY SlotStays
<1>3. CASE Unasked(c)
  BY <1>2, <1>3 DEF Unasked, Quiet
<1>4. CASE Served(c)
  <2>1. \A y \in Begins(c) : End(c, y)' = End(c, y) /\ End(c, y) \in Nat
    BY <1>1, BeginNumbers DEF End
  <2>2. clock \in Nat /\ clock' \in Nat
    BY DEF Shapes, RestShapes
  <2>3. \A y \in Begins(c)' : End(c, y)' <= clock'
    BY <1>1, <1>4, <2>1, <2>2 DEF Served
  <2> QED BY <1>1, <1>2, <1>4, <2>3 DEF Served, Quiet
<1>5. CASE \E x \in Begins(c) : Ready(c, x)
  <2>1. PICK x \in Begins(c) : Ready(c, x)
    BY <1>5
  <2>2. OpensAt(c, x)' = OpensAt(c, x) /\ ClosesAt(c, x)' = ClosesAt(c, x)
    BY SlotStays
  <2>3. Past(c, x)'
    BY <2>1, PastStays DEF Ready
  <2>4. Ready(c, x)'
    BY <1>2, <2>1, <2>2, <2>3 DEF Ready
  <2> QED BY <1>1, <2>4 DEF Quiet
<1> QED BY <1>3, <1>4, <1>5 DEF Quiet

\* What happens does not concern the slot that has the radio.
LEMMA OneStays ==
    ASSUME Shapes, Shapes', UNCHANGED <<scenario, radio>>, clock <= clock',
           NEW c \in Slots, NEW x \in Begins(c), \A a : Of(c, a)' = Of(c, a), c \in called <=> c \in called',
           \A t \in Threads : pc[t] = "arm" => pc'[t] = "arm" /\ cur'[t] = cur[t]
    PROVE  /\ Stopping(c, x) => Stopping(c, x)'
           /\ Airs(c, x) => Airs(c, x)'
           /\ Turns(c, x) => Turns(c, x)'
<1>1. /\ On(c)' = On(c) /\ Off(c)' = Off(c) /\ Lasts(c)' = Lasts(c)
  BY SamePlan
<1>2. clock \in Nat /\ clock' \in Nat /\ x \in Nat /\ Lasts(c) \in Nat
  BY BeginNumbers, SlotNumbers DEF Shapes, RestShapes
<1>3. /\ Openings(c)' = Openings(c) /\ Closings(c)' = Closings(c) /\ Timers(c)' = Timers(c)
      /\ ClosesAt(c, x)' = ClosesAt(c, x) /\ SettlesAt(c, x)' = SettlesAt(c, x)
      /\ OpensNext(c, x)' = OpensNext(c, x) /\ ClosesNext(c, x)' = ClosesNext(c, x)
  BY SlotStays
<1>4. Past(c, x) => Past(c, x)'
  BY PastStays
<1>5. Stopping(c, x) => Stopping(c, x)'
  <2>1. SUFFICES ASSUME Stopping(c, x) PROVE Stopping(c, x)'
    OBVIOUS
  <2>2. PICK t \in Threads : pc[t] = "arm" /\ cur[t] = Closings(c)
    BY <2>1 DEF Stopping
  <2>3. pc'[t] = "arm" /\ cur'[t] = Closings(c)'
    BY <1>3, <2>2
  <2> QED BY <1>3, <2>1, <2>3 DEF Stopping
<1>6. Airs(c, x) => Airs(c, x)'
  BY <1>1, <1>2, <1>3, <1>4 DEF Airs
<1>7. Turns(c, x) => Turns(c, x)'
  BY <1>1, <1>2, <1>3, <1>4, <1>5 DEF Turns, Stopped
<1> QED BY <1>5, <1>6, <1>7

\* Nothing happens to the slots, as far as the radio is concerned.
Undisturbed ==
    /\ UNCHANGED <<scenario, radio>> /\ clock <= clock'
    /\ \A c \in Slots : (c \in called <=> c \in called') /\ \A a : Of(c, a)' = Of(c, a)
    /\ \A t \in Threads : pc[t] = "arm" => pc'[t] = "arm" /\ cur'[t] = cur[t]

LEMMA HasStays ==
    ASSUME Shapes, Shapes', Undisturbed, NEW c \in Slots, NEW x \in Begins(c)
    PROVE  /\ Stopping(c, x) => Stopping(c, x)'
           /\ Turns(c, x) => Turns(c, x)'
           /\ Has(c, x) => Has(c, x)'
<1>1. Slots' = Slots
  BY SamePlan DEF Undisturbed
<1>2. /\ Stopping(c, x) => Stopping(c, x)'
      /\ Airs(c, x) => Airs(c, x)'
      /\ Turns(c, x) => Turns(c, x)'
  BY OneStays DEF Undisturbed
<1>3. \A d \in Slots : Quiet(d) => Quiet(d)'
  BY QuietStays DEF Undisturbed
<1> QED BY <1>1, <1>2, <1>3 DEF Has

LEMMA PhasesStay ==
    ASSUME Shapes, Shapes', Undisturbed, Phases
    PROVE  Phases'
<1>1. Slots' = Slots /\ \A c \in Slots : Begins(c)' = Begins(c)
  BY SamePlan DEF Undisturbed
<1>2. \A d \in Slots : Quiet(d) => Quiet(d)'
  BY QuietStays DEF Undisturbed
<1>3. CASE radio = "Idle" /\ \A c \in Slots : Quiet(c)
  BY <1>1, <1>2, <1>3 DEF Phases, Undisturbed
<1>4. CASE \E c \in Slots : \E x \in Begins(c) : Has(c, x)
  BY <1>1, <1>4, HasStays DEF Phases
<1> QED BY <1>3, <1>4 DEF Phases

-----------------------------------------------------------------------------
(* What is at work when.                                                   *)

LEMMA NotIdle == ASSUME NEW c PROVE On(c) # "Idle" /\ Off(c) # "Idle" /\ On(c) # Off(c)
  BY DEF On, Off

LEMMA PassIsNow ==
    ASSUME XBase, NEW t \in Threads, pc[t] \in Pass \cup {"resched", "doze"}
    PROVE  passNow[t] = clock
<1>1. Recent(t) /\ lag[t] <= scenario.lag
  BY XFacts DEF Timely, OnTime
<1>2. lag[t] \in Nat /\ clock \in Nat /\ passNow[t] \in Nat /\ scenario.lag = 0
  BY XFacts, Times
<1> QED BY <1>1, <1>2 DEF Recent

\* While a thread is in the loop nothing is overdue, wherever it is.
LEMMA LiveOnTime ==
    ASSUME XBase, NEW t \in Threads, pc[t] # "off"
    PROVE  \A e \in Live : clock <= e.template.deadline
<1>0. /\ PBase /\ Shapes /\ Timely /\ Jitter = 0 /\ scenario.lag = 0 /\ PInv
      /\ clock \in Nat /\ MaxSleep \in Nat
  BY XFacts, Times
<1>1. SUFFICES ASSUME NEW e \in Live PROVE clock <= e.template.deadline
  OBVIOUS
<1>2. PICK d \in Nat : d = e.template.deadline
  BY <1>0, Times DEF Live
<1>3. CASE e \in events \cup cur[t]
  <2>1. clock <= e.template.deadline + Jitter
    BY <1>0, <1>3, PInvThenPunctual DEF Punctual
  <2> QED BY <1>0, <1>2, <2>1
<1>4. CASE \E u \in Threads : e \in resched[u]
  <2>1. PICK u \in Threads : e \in resched[u]
    BY <1>4
  <2>2. pc[u] \notin {"off", "check", "doze", "asleep"}
    BY <1>0, <2>1 DEF Timely, OnTime
  <2>3. pc[u] \in Pass \cup {"resched", "doze"}
    BY <1>0, <2>2 DEF Shapes, ThreadShapes, Point, Pass, Holding
  <2>4. passNow[u] <= e.template.deadline
    BY <1>0, <2>1, <2>3 DEF Timely, OnTime, Recent
  <2> QED BY <2>3, <2>4, PassIsNow
<1>5. CASE \E c \in Calls : \E i \in 1..Len(left[c]) : e = left[c][i]
  <2>1. e \in Timed
    BY <1>0, <1>5 DEF Timely
  <2>2. clock + 0 + MaxSleep <= d + 0
    BY <1>0, <1>2, <2>1 DEF Timed, AskedEarly, InTime
  <2> QED BY <1>0, <1>2, <2>2
<1>6. CASE \E u \in Threads : e \in cur[u]
  BY <1>0, <1>3, <1>6, OneHolder
<1> QED BY <1>3, <1>4, <1>5, <1>6 DEF Live

LEMMA ExactlyNow ==
    ASSUME XBase, Popped, NEW t \in Threads, NEW e \in cur[t]
    PROVE  /\ e \in EventSet /\ e \in Live /\ e.template.deadline = clock /\ cur[t] = {e}
           /\ pc[t] \in Holding /\ pc[t] # "off"
<1>1. pc[t] \in Holding /\ e \in EventSet /\ e \in Live /\ cur[t] = {e}
  BY XFacts DEF Live, Single, Shapes, ThreadShapes
<1>2. clock <= e.template.deadline
  BY <1>1, LiveOnTime DEF Holding
<1>3. e.template.deadline <= clock
  BY <1>1, PassIsNow DEF Popped, Pass
<1>4. clock \in Nat /\ e.template.deadline \in Nat
  BY <1>1, XFacts, Times
<1> QED BY <1>1, <1>2, <1>3, <1>4 DEF Holding

\* A slot is quiet or has the radio.
LEMMA PhaseOf ==
    ASSUME Phases, NEW c \in Slots
    PROVE  Quiet(c) \/ \E x \in Begins(c) : Has(c, x)
<1>1. CASE radio = "Idle" /\ \A d \in Slots : Quiet(d)
  BY <1>1
<1>2. CASE \E d \in Slots : \E x \in Begins(d) : Has(d, x)
  <2>1. PICK d \in Slots : \E x \in Begins(d) : Has(d, x)
    BY <1>2
  <2> QED BY <2>1 DEF Has
<1> QED BY <1>1, <1>2 DEF Phases

LEMMA HasNotIdle ==
    ASSUME NEW c, NEW x, Has(c, x)
    PROVE  radio # "Idle"
  BY NotIdle DEF Has, Airs, Turns

\* No thread is about to schedule the end of a turnaround while one is elsewhere.
LEMMA NotStopping ==
    ASSUME PBase, NEW t \in Threads, pc[t] \notin {"off", "arm"}, NEW c, NEW x
    PROVE  ~Stopping(c, x)
  BY InTheLoop DEF Stopping

LEMMA OpeningAt ==
    ASSUME Shapes, Phases, NEW c \in Slots, NEW e \in Openings(c)
    PROVE  \E x \in Begins(c) :
              /\ Openings(c) = {e} /\ Opens(e.template, c, x)
              /\ \/ Ready(c, x)
                 \/ \E y \in Begins(c) : Has(c, y) /\ x = y + Period(c)
<1>1. CASE Quiet(c)
  <2>1. PICK x \in Begins(c) : Ready(c, x)
    BY <1>1 DEF Quiet, Unasked, Served, Empty
  <2> QED BY <2>1 DEF Ready, OpensAt
<1>2. CASE \E y \in Begins(c) : Has(c, y)
  <2>1. PICK y \in Begins(c) : Has(c, y)
    BY <1>2
  <2>2. OpensNext(c, y)
    BY <2>1 DEF Has, Airs, Turns
  <2>3. OpensAt(c, y + Period(c))
    BY <2>2 DEF OpensNext
  <2>4. y + Period(c) \in Begins(c)
    BY BeginNumbers
  <2> QED BY <2>1, <2>3, <2>4 DEF OpensAt
<1> QED BY <1>1, <1>2, PhaseOf

LEMMA ClosingAt ==
    ASSUME Shapes, Phases, NEW c \in Slots, NEW e \in Closings(c)
    PROVE  \E x \in Begins(c) :
              /\ Closings(c) = {e} /\ Closes(e.template, c, x)
              /\ \/ Ready(c, x)
                 \/ Has(c, x) /\ (Airs(c, x) \/ Stopping(c, x))
                 \/ \E y \in Begins(c) : Has(c, y) /\ x = y + Period(c) /\ Period(c) > 0
<1>1. CASE Quiet(c)
  <2>1. PICK x \in Begins(c) : Ready(c, x)
    BY <1>1 DEF Quiet, Unasked, Served, Empty
  <2> QED BY <2>1 DEF Ready, ClosesAt
<1>2. CASE \E y \in Begins(c) : Has(c, y)
  <2>1. PICK y \in Begins(c) : Has(c, y)
    BY <1>2
  <2>2. CASE Airs(c, y) \/ Stopping(c, y)
    BY <2>1, <2>2 DEF Airs, Stopping, ClosesAt
  <2>3. CASE ~(Airs(c, y) \/ Stopping(c, y))
    <3>1. ClosesNext(c, y)
      BY <2>1, <2>3 DEF Has, Turns, Stopped
    <3>2. Period(c) > 0 /\ ClosesAt(c, y + Period(c))
      BY <3>1 DEF ClosesNext
    <3>3. y + Period(c) \in Begins(c)
      BY BeginNumbers
    <3> QED BY <2>1, <3>2, <3>3 DEF ClosesAt
  <2> QED BY <2>2, <2>3
<1> QED BY <1>1, <1>2, PhaseOf

LEMMA TimerAt ==
    ASSUME Phases, NEW c \in Slots, NEW e \in Timers(c)
    PROVE  \E x \in Begins(c) :
              /\ Timers(c) = {e} /\ Settles(e.template, c, x)
              /\ Has(c, x) /\ Turns(c, x) /\ Stopped(c, x)
<1>1. ~Quiet(c)
  BY DEF Quiet, Unasked, Served, Empty, Ready
<1>2. PICK x \in Begins(c) : Has(c, x)
  BY <1>1, PhaseOf
<1>3. Turns(c, x) /\ Stopped(c, x)
  BY <1>2 DEF Has, Airs, Turns, Stopping
<1> QED BY <1>2, <1>3 DEF Stopped, SettlesAt

\* The turnaround of another slot is over, and its end dealt with, when a slot
\* is opened.
LEMMA PopOpening ==
    ASSUME XInv, NEW t \in Threads, pc[t] = "pop", NEW e \in events, e.template.deadline <= passNow[t],
           \A f \in events : ~Before(f, e), e.call \in Slots, e.template.action = Opening(e.call).action
    PROVE  radio = "Idle"
<1>0. Shapes /\ PBase /\ XBase /\ Phases /\ Slotted /\ Cast /\ pc[t] \notin {"off", "arm"}
  BY XFacts DEF XInv
<1>1. PICK c \in Slots : c = e.call
  OBVIOUS
<1>2. e \in EventSet /\ e \in Live /\ e \in Openings(c)
  BY <1>0, <1>1 DEF Shapes, QueueShapes, Live, Openings, Of
<1>3. PICK x \in Begins(c) : Openings(c) = {e} /\ Opens(e.template, c, x)
  BY <1>0, <1>2, OpeningAt
<1>4. \A f \in Live : clock <= f.template.deadline
  BY <1>0, LiveOnTime
<1>5. x = clock /\ clock \in Nat
  <2>1. passNow[t] = clock
    BY <1>0, PassIsNow DEF Pass
  <2>2. e.template.deadline = x /\ x <= clock /\ clock <= x
    BY <1>2, <1>3, <1>4, <2>1 DEF Opens
  <2>3. x \in Nat /\ clock \in Nat
    BY <1>0, BeginNumbers DEF Shapes, RestShapes
  <2> QED BY <2>2, <2>3
<1>6. ASSUME NEW d \in Slots, NEW y \in Begins(d), Has(d, y) PROVE FALSE
  <2>1. ~Stopping(d, y)
    BY <1>0, NotStopping
  <2>2. /\ y \in Nat /\ Lasts(d) \in Nat /\ Pause(d) \in Nat /\ End(d, y) = y + Lasts(d) + Pause(d)
        /\ x \in Nat /\ x < End(c, x) /\ End(c, x) \in Nat /\ Period(c) \in Nat
    BY <1>0, BeginNumbers, SlotNumbers
  <2>3. y <= clock
    BY <1>5, <1>6, <2>2 DEF Has, Airs, Turns
  <2>4. CASE c = d /\ x = y
    <3>1. OpensNext(c, x)
      BY <1>6, <2>4 DEF Has, Airs, Turns
    <3>2. Period(c) > 0 /\ OpensAt(c, x + Period(c))
      BY <1>3, <3>1 DEF OpensNext
    <3>3. e.template.deadline = x + Period(c)
      BY <1>3, <3>2 DEF OpensAt, Opens
    <3> QED BY <1>3, <2>2, <3>2, <3>3 DEF Opens
  <2>5. CASE Clears(c, x, d, y)
    <3>1. End(c, x) <= y
      BY <2>2, <2>5 DEF Clears
    <3> QED BY <1>5, <2>2, <2>3, <3>1
  <2>6. CASE Clears(d, y, c, x)
    <3>1. CASE Airs(d, y)
      <4>1. PICK f \in EventSet : Closings(d) = {f} /\ Closes(f.template, d, y)
        BY <3>1 DEF Airs, ClosesAt
      <4>2. f \in Live /\ f.template.deadline = y + Lasts(d)
        BY <4>1 DEF Closings, Of, Closes
      <4>3. clock <= y + Lasts(d)
        BY <1>4, <4>2
      <4> QED BY <1>5, <2>2, <2>6, <4>3 DEF Clears
    <3>2. CASE Turns(d, y)
      <4>1. PICK f \in EventSet : Timers(d) = {f} /\ Settles(f.template, d, y)
        BY <2>1, <3>2 DEF Turns, Stopped, SettlesAt
      <4>2. f \in Live /\ f.template.deadline = End(d, y) /\ f.template.priority = 0
            /\ f.template.action = "StateTransition"
        BY <4>1 DEF Timers, Of, Settles
      <4>3. clock <= End(d, y)
        BY <1>4, <4>2
      <4>4. End(d, y) = x /\ Opening(c).priority > 0
        BY <1>5, <2>2, <2>6, <4>3 DEF Clears
      <4>5. f \in events
        <5>1. \A u \in Threads : cur[u] = {}
          BY <1>0 DEF Shapes, ThreadShapes, Holding, PBase, Runners
        <5> QED BY <1>0, <4>2, <5>1 DEF Live, Cast
      <4>6. Before(f, e)
        BY <1>3, <4>2, <4>4 DEF Before, Opens
      <4> QED BY <4>5, <4>6
    <3> QED BY <1>6, <3>1, <3>2 DEF Has
  <2> QED BY <1>0, <2>4, <2>5, <2>6 DEF Slotted, Apart
<1> QED BY <1>0, <1>6 DEF Phases

\* The event at work, by what it is.
LEMMA SlotOpening ==
    ASSUME XInv, NEW t \in Threads, NEW e \in cur[t], NEW c \in Slots, e.call = c,
           e.template.action = Opening(c).action, radio = "Idle"
    PROVE  \E x \in Begins(c) :
              Openings(c) = {e} /\ Opens(e.template, c, x) /\ Ready(c, x) /\ x = clock
<1>0. Shapes /\ Phases /\ XBase /\ Popped
  BY XFacts DEF XInv
<1>1. e \in Live /\ e.template.deadline = clock
  BY <1>0, ExactlyNow
<1>2. e \in Openings(c)
  BY <1>1 DEF Openings, Of
<1>3. \A y : ~Has(c, y)
  BY HasNotIdle
<1>4. PICK x \in Begins(c) : Openings(c) = {e} /\ Opens(e.template, c, x) /\ Ready(c, x)
  BY <1>0, <1>2, <1>3, OpeningAt
<1> QED BY <1>1, <1>4 DEF Opens

LEMMA SlotClosing ==
    ASSUME XInv, NEW t \in Threads, NEW e \in cur[t], pc[t] # "arm", NEW c \in Slots, e.call = c,
           e.template.action = Closing(c).action
    PROVE  \E x \in Begins(c) :
              /\ Closings(c) = {e} /\ Closes(e.template, c, x)
              /\ Has(c, x) /\ Airs(c, x) /\ x + Lasts(c) = clock
<1>0. Shapes /\ Phases /\ XBase /\ Popped /\ PBase
  BY XFacts DEF XInv
<1>1. e \in Live /\ e.template.deadline = clock /\ pc[t] # "off"
  BY <1>0, ExactlyNow
<1>2. e \in Closings(c)
  BY <1>1 DEF Closings, Of
<1>3. PICK x \in Begins(c) :
              /\ Closings(c) = {e} /\ Closes(e.template, c, x)
              /\ \/ Ready(c, x)
                 \/ Has(c, x) /\ (Airs(c, x) \/ Stopping(c, x))
                 \/ \E y \in Begins(c) : Has(c, y) /\ x = y + Period(c) /\ Period(c) > 0
  BY <1>0, <1>2, ClosingAt
<1>4. clock = x + Lasts(c) /\ x \in Nat /\ Lasts(c) \in Nat /\ Lasts(c) > 0
  BY <1>0, <1>1, <1>3, BeginNumbers, SlotNumbers DEF Closes
<1>5. ~OpensAt(c, x)
  <2>1. SUFFICES ASSUME OpensAt(c, x) PROVE FALSE
    OBVIOUS
  <2>2. PICK f \in EventSet : Openings(c) = {f} /\ Opens(f.template, c, x)
    BY <2>1 DEF OpensAt
  <2>3. f \in Live /\ f.template.deadline = x
    BY <2>2 DEF Openings, Of, Opens
  <2>4. clock <= x
    BY <1>0, <1>1, <2>3, LiveOnTime
  <2> QED BY <1>4, <2>4
<1>6. ~Ready(c, x) /\ ~Stopping(c, x)
  BY <1>0, <1>1, <1>5, NotStopping DEF Ready
<1>7. ASSUME NEW y \in Begins(c), Has(c, y), x = y + Period(c), Period(c) > 0 PROVE FALSE
  <2>1. OpensNext(c, y)
    BY <1>7 DEF Has, Airs, Turns
  <2> QED BY <1>5, <1>7, <2>1 DEF OpensNext
<1> QED BY <1>3, <1>4, <1>6, <1>7

LEMMA SlotTimer ==
    ASSUME XInv, NEW t \in Threads, NEW e \in cur[t], NEW c \in Slots, e.call = c,
           e.template.action = "StateTransition"
    PROVE  \E x \in Begins(c) :
              /\ Timers(c) = {e} /\ Settles(e.template, c, x)
              /\ Has(c, x) /\ Turns(c, x) /\ Stopped(c, x) /\ End(c, x) = clock
<1>0. Shapes /\ Phases /\ XBase /\ Popped
  BY XFacts DEF XInv
<1>1. e \in Live /\ e.template.deadline = clock
  BY <1>0, ExactlyNow
<1>2. e \in Timers(c)
  BY <1>1 DEF Timers, Of
<1>3. PICK x \in Begins(c) : /\ Timers(c) = {e} /\ Settles(e.template, c, x)
                             /\ Has(c, x) /\ Turns(c, x) /\ Stopped(c, x)
  BY <1>0, <1>2, TimerAt
<1> QED BY <1>1, <1>3 DEF Settles

-----------------------------------------------------------------------------
(* The steps.                                                              *)

LEMMA FitStays ==
    ASSUME Shapes, Shapes', Undisturbed, NEW t \in Threads, Fit(t),
           pc'[t] = pc[t], cur'[t] = cur[t], seen'[t] = seen[t]
    PROVE  Fit(t)'
<1>1. Slots' = Slots /\ \A c : Opening(c)' = Opening(c) /\ Begins(c)' = Begins(c)
  BY SamePlan DEF Undisturbed
<1>2. UNCHANGED radio
  BY DEF Undisturbed
<1>3. pc[t] = "arm" => \E c \in Slots : \E x \in Begins(c) : Has(c, x)' /\ Turns(c, x)' /\ Stopping(c, x)'
  <2>1. SUFFICES ASSUME pc[t] = "arm"
                 PROVE  \E c \in Slots : \E x \in Begins(c) : Has(c, x)' /\ Turns(c, x)' /\ Stopping(c, x)'
    OBVIOUS
  <2>2. PICK c \in Slots : \E x \in Begins(c) : Has(c, x) /\ Turns(c, x) /\ Stopping(c, x)
    BY <2>1 DEF Fit
  <2>3. PICK x \in Begins(c) : Has(c, x) /\ Turns(c, x) /\ Stopping(c, x)
    BY <2>2
  <2>4. Has(c, x)' /\ Turns(c, x)' /\ Stopping(c, x)'
    BY <2>3, HasStays
  <2> QED BY <2>4
<1>4. Working(t)' = Working(t)
  BY DEF Working
<1> QED BY <1>1, <1>2, <1>3, <1>4 DEF Fit

\* It is enough to look at the thread that gets on.
LEMMA OneFits ==
    ASSUME XBase, NEW t \in Threads, Thread(t), Fit(t)'
    PROVE  AtWork'
<1>1. Shapes /\ PBase /\ pc[t] # "off"
  BY XFacts, ThreadMoves
<1>2. \A u \in Threads : u # t => pc'[u] = "off"
  BY <1>1, ThreadLocal, InTheLoop
<1>3. ASSUME NEW u \in Threads, u # t PROVE Fit(u)'
  <2>1. pc'[u] = "off"
    BY <1>2, <1>3
  <2> QED BY <2>1 DEF Fit, Working
<1> QED BY <1>3 DEF AtWork

LEMMA CastGrows ==
    ASSUME UNCHANGED scenario, Cast, NEW ys, \A y \in ys : Roles(y), Live' \subseteq Live \cup ys,
           \A u \in Threads : \A x \in resched'[u] :
               x \in resched[u] \/ (x \in ys /\ x.template.action # "StateTransition"),
           \A c \in Calls : \A i \in 1..Len(left'[c]) :
               \/ \E j \in 1..Len(left[c]) : left'[c][i] = left[c][j]
               \/ left'[c][i] \in ys /\ left'[c][i].template.action # "StateTransition"
    PROVE  Cast'
<1>1. Slots' = Slots /\ \A c : Opening(c)' = Opening(c) /\ Closing(c)' = Closing(c)
  BY SamePlan
<1>2. \A y : Roles(y)' = Roles(y)
  BY <1>1 DEF Roles
<1>3. \A e \in Live' : Roles(e)'
  BY <1>2 DEF Cast
<1>4. \A u \in Threads : \A e \in resched'[u] : e.template.action # "StateTransition"
  BY DEF Cast
<1>5. \A c \in Calls : \A i \in 1..Len(left'[c]) : left'[c][i].template.action # "StateTransition"
  <2>1. ASSUME NEW c \in Calls, NEW i \in 1..Len(left'[c]) PROVE left'[c][i].template.action # "StateTransition"
    BY DEF Cast
  <2> QED BY <2>1
<1> QED BY <1>3, <1>4, <1>5 DEF Cast

LEMMA TimersAreOnce ==
    ASSUME XInv, NEW e \in Live, e.template.repeat > 0
    PROVE  e.template.action # "StateTransition"
<1>1. Roles(e) /\ Phases
  BY DEF XInv, Cast
<1>2. CASE e.call \in Slots
  <2>1. SUFFICES ASSUME e.template.action = "StateTransition" PROVE FALSE
    OBVIOUS
  <2>2. PICK c \in Slots : c = e.call
    BY <1>2
  <2>3. e \in Timers(c)
    BY <2>1, <2>2 DEF Timers, Of
  <2>4. e.template.repeat = 0
    BY <1>1, <2>3, TimerAt DEF Settles
  <2> QED BY <2>4
<1>3. CASE e.call \notin Slots
  BY <1>1, <1>3 DEF Roles, Chores
<1> QED BY <1>2, <1>3

LEMMA FinishCast ==
    ASSUME XInv, NEW t \in Threads, NEW e \in cur[t], NEW ok \in BOOLEAN, Finish(t, e, ok),
           NEW xs \in SUBSET EventSet, e \notin xs, \A x \in xs : Roles(x),
           events' = events \cup xs, UNCHANGED <<left, scenario>>
    PROVE  Cast'
<1>0. XBase /\ Popped /\ Cast /\ Shapes
  BY XFacts DEF XInv
<1>1. e \in EventSet /\ e \in Live /\ Roles(e)
  BY <1>0, ExactlyNow DEF Cast
<1>2. Live' = (Live \ {e}) \cup Again(e, ok) \cup xs
  BY <1>0, FinishLive
<1>3. /\ \A y \in Again(e, ok) : y.call = e.call /\ y.template.action = e.template.action
      /\ Again(e, ok) # {} => e.template.repeat > 0
  BY <1>1, AgainFacts
<1>4. \A y \in Again(e, ok) : Roles(y) /\ y.template.action # "StateTransition"
  BY <1>1, <1>3, TimersAreOnce DEF Roles
<1>5. resched' = [resched EXCEPT ![t] = @ \cup Again(e, ok)]
  BY <1>0, FinishAgain
<1>6. PICK ys : ys = Again(e, ok) \cup xs
  OBVIOUS
<1>7. \A u \in Threads : \A x \in resched'[u] : x \in resched[u] \/ x \in Again(e, ok)
  BY <1>0, <1>5 DEF Shapes, QueueShapes
<1>8. \A u \in Threads : \A x \in resched'[u] :
               x \in resched[u] \/ (x \in ys /\ x.template.action # "StateTransition")
  BY <1>4, <1>6, <1>7
<1>9. \A y \in ys : Roles(y)
  BY <1>4, <1>6
<1>10. Live' \subseteq Live \cup ys
  BY <1>2, <1>6
<1> QED BY <1>0, <1>8, <1>9, <1>10, CastGrows

\* An event that is not of a slot goes its way beside them.
LEMMA ChoreFinish ==
    ASSUME XInv, Shapes', NEW t \in Threads, Thread(t), pc[t] # "arm", NEW e \in cur[t], e.call \notin Slots,
           NEW ok \in BOOLEAN, Finish(t, e, ok), UNCHANGED <<events, left, radio, called, scenario>>
    PROVE  Cast' /\ Phases' /\ AtWork'
<1>0. XBase /\ Popped /\ Shapes /\ PBase /\ Phases
  BY XFacts DEF XInv
<1>1. e \in EventSet /\ e \in Live /\ pc[t] # "off"
  BY <1>0, ExactlyNow
<1>2. Cast'
  <2>1. events' = events \cup {} /\ {} \in SUBSET EventSet /\ e \notin {} /\ \A x \in {} : Roles(x)
    OBVIOUS
  <2> QED BY <2>1, FinishCast
<1>3. \A c \in Slots : \A a : Of(c, a)' = Of(c, a)
  <2>1. PICK xs \in SUBSET EventSet : xs = {}
    OBVIOUS
  <2>2. e \notin xs /\ events' = events \cup xs /\ \A x \in xs : FALSE
    BY <2>1
  <2>3. Live' = (Live \ {e}) \cup Again(e, ok) \cup xs
    BY <1>0, <2>2, FinishLive
  <2>4. ASSUME NEW c \in Slots, NEW a PROVE Of(c, a)' = Of(c, a)
    <3>1. c # e.call
      OBVIOUS
    <3>2. \A y \in Again(e, ok) : y.call = e.call
      BY <1>1, AgainFacts
    <3> QED BY <2>2, <2>3, <3>1, <3>2 DEF Of
  <2> QED BY <2>4
<1>4. Undisturbed
  <2>1. \A u \in Threads : pc[u] # "arm"
    BY <1>0, <1>1, InTheLoop
  <2>2. UNCHANGED clock /\ clock \in Nat
    BY <1>0, ThreadLocal DEF Shapes, RestShapes
  <2>3. clock <= clock'
    BY <2>2
  <2> QED BY <1>3, <2>1, <2>3 DEF Undisturbed
<1>5. Fit(t)'
  <2>0. pc' = [pc EXCEPT ![t] = "pop"]
    BY <1>0, FinishAgain
  <2>1. pc'[t] = "pop"
    BY <1>0, <2>0 DEF Shapes, ThreadShapes
  <2> QED BY <2>1 DEF Fit, Working
<1> QED BY <1>0, <1>2, <1>4, <1>5, PhasesStay, OneFits

\* The thread moves and the slots are not concerned.
LEMMA QuietMove ==
    ASSUME XInv, Shapes', NEW t \in Threads, Thread(t), pc[t] # "arm",
           UNCHANGED <<radio, called, scenario, left>>, Live' = Live,
           \A u \in Threads : resched'[u] \subseteq resched[u], Fit(t)'
    PROVE  Cast' /\ Phases' /\ AtWork'
<1>0. XBase /\ Shapes /\ PBase /\ Phases /\ Cast
  BY XFacts DEF XInv
<1>1. pc[t] # "off"
  BY <1>0, ThreadMoves
<1>2. Undisturbed
  <2>1. \A u \in Threads : pc[u] # "arm"
    BY <1>0, <1>1, InTheLoop
  <2>2. UNCHANGED clock /\ clock \in Nat
    BY <1>0, ThreadLocal DEF Shapes, RestShapes
  <2>3. clock <= clock'
    BY <2>2
  <2>4. \A c, a : Of(c, a)' = Of(c, a)
    BY SameOf
  <2> QED BY <2>1, <2>3, <2>4 DEF Undisturbed
<1>3. Cast'
  <2>1. PICK ys : ys = {}
    OBVIOUS
  <2>2. \A y \in ys : Roles(y)
    BY <2>1
  <2>3. \A c \in Calls : \A i \in 1..Len(left'[c]) : \E j \in 1..Len(left[c]) : left'[c][i] = left[c][j]
    OBVIOUS
  <2> QED BY <1>0, <2>1, <2>2, <2>3, CastGrows
<1> QED BY <1>0, <1>2, <1>3, PhasesStay, OneFits

LEMMA IdlesShow ==
    ASSUME XInv, Shapes', UNCHANGED scenario, NEW t \in Threads, Idles(t)
    PROVE  Cast' /\ Phases' /\ AtWork'
<1>0. XBase /\ Shapes /\ Thread(t)
  BY XFacts DEF XInv, Idles, Thread
<1>1. UNCHANGED <<radio, called, left, cur>> /\ pc[t] \notin Holding /\ pc'[t] \notin Holding
  <2>1. CASE Check(t)
    BY <1>0, <2>1 DEF Check, Checked, Goto, callVars, Holding, Shapes, ThreadShapes
  <2>2. CASE PopNothing(t) \/ Wake(t)
    BY <1>0, <2>2 DEF PopNothing, Wake, Goto, callVars, Holding, Shapes, ThreadShapes
  <2>3. CASE Doze(t)
    BY <1>0, <2>3 DEF Doze, Sleeping, Goto, callVars, Holding, Shapes, ThreadShapes
  <2>4. CASE Reschedule(t)
    BY <1>0, <2>4 DEF Reschedule, Goto, callVars, Holding, Shapes, ThreadShapes
  <2> QED BY <2>1, <2>2, <2>3, <2>4 DEF Idles
<1>2. Live' = Live /\ \A u \in Threads : resched'[u] \subseteq resched[u]
  <2>1. CASE Reschedule(t)
    BY <1>0, <2>1, RescheduleLive
  <2>2. CASE ~Reschedule(t)
    <3>1. UNCHANGED <<events, resched>>
      BY <2>2 DEF Idles, Check, Checked, PopNothing, Wake, Doze, Sleeping, queueVars
    <3> QED BY <1>1, <3>1, StillLive
  <2> QED BY <2>1, <2>2
<1>3. Fit(t)'
  BY <1>1 DEF Fit, Working, Holding
<1> QED BY <1>0, <1>1, <1>2, <1>3, QuietMove DEF Holding

LEMMA PopShows ==
    ASSUME XInv, Shapes', UNCHANGED scenario, NEW t \in Threads, Pop(t)
    PROVE  Cast' /\ Phases' /\ AtWork'
<1>0. XBase /\ Shapes /\ Thread(t) /\ pc[t] = "pop"
  BY XFacts DEF XInv, Pop, Thread
<1>1. /\ Live' = Live /\ UNCHANGED <<resched, left, radio, called>>
      /\ \E e \in events : /\ e.template.deadline <= passNow[t] /\ \A f \in events : ~Before(f, e)
                           /\ cur'[t] = {e}
  BY <1>0, PopLive DEF Pop, callVars
<1>2. PICK e \in events : /\ e.template.deadline <= passNow[t] /\ \A f \in events : ~Before(f, e)
                          /\ cur'[t] = {e}
  BY <1>1
<1>3. pc'[t] = "guard"
  BY <1>0 DEF Pop, Goto, Shapes, ThreadShapes
<1>4. e.call \in Slots /\ e.template.action = Opening(e.call).action => radio = "Idle"
  BY <1>0, <1>2, PopOpening
<1>5. Slots' = Slots /\ \A c : Opening(c)' = Opening(c)
  BY SamePlan
<1>6. Fit(t)'
  BY <1>1, <1>2, <1>3, <1>4, <1>5 DEF Fit
<1> QED BY <1>0, <1>1, <1>6, QuietMove

\* A slot's event at work is let through, has an effect, and the exchange that
\* it asks for is one of the table.
LEMMA SlotAdmitted ==
    ASSUME XInv, NEW t \in Threads, Working(t), NEW e \in cur[t], NEW c \in Slots, e.call = c
    PROVE  /\ GuardPasses(e, radio) /\ ~(passNow[t] - e.template.deadline > Tolerance)
           /\ ~NoEffect(e) /\ e.template.action # "Reset"
           /\ FromOf(e) = radio /\ Admits(e, radio)
           /\ \/ e.template.action = Opening(c).action /\ TargetOf(e) = On(c) /\ radio = "Idle"
              \/ e.template.action = Closing(c).action /\ TargetOf(e) = Off(c)
              \/ e.template.action = "StateTransition" /\ TargetOf(e) = "Idle"
<1>0. XBase /\ Popped /\ Shapes /\ Fit(t) /\ PBase
  BY XFacts DEF XInv, AtWork
<1>1. e \in EventSet /\ e \in Live /\ e.template.deadline = clock /\ e.template \in Templates
  BY <1>0, ExactlyNow DEF EventSet
<1>2. e.template.action \in {Opening(c).action, Closing(c).action, "StateTransition"}
  BY <1>1 DEF XInv, Cast, Roles
<1>3. /\ Opening(c).action = (IF Sends(c) THEN "StartTx" ELSE "StartRx")
      /\ Closing(c).action = (IF Sends(c) THEN "StopTx" ELSE "StopRx")
  BY <1>0, SlotActions
<1>4. ~(passNow[t] - e.template.deadline > Tolerance)
  <2>1. passNow[t] = clock
    BY <1>0, PassIsNow DEF Working, Pass, Holding
  <2>2. Tolerance \in Nat /\ clock \in Nat
    BY <1>0, Times
  <2> QED BY <1>1, <2>1, <2>2
<1>5. e.template.guard \in {"can_transmit", "can_receive", "none"}
  BY <1>1 DEF Templates
<1>6. CASE e.template.action = Opening(c).action
  <2>1. radio = "Idle"
    BY <1>0, <1>6 DEF Fit
  <2>2. GuardPasses(e, radio)
    BY <1>5, <2>1 DEF GuardPasses, CanTransmit, CanReceive
  <2>3. e.template.action \in {"StartTx", "StartRx"} /\ TargetOf(e) = On(c)
    BY <1>3, <1>6 DEF TargetOf, On
  <2>4. ~NoEffect(e) /\ e.template.action # "Reset" /\ FromOf(e) = radio
    BY <2>3 DEF NoEffect, FromOf
  <2>5. Admits(e, radio)
    BY <2>1, <2>3 DEF Admits, TargetOf, CanTransmit, CanReceive, CanTransitionTo, ValidTransitions
  <2> QED BY <1>4, <1>6, <2>1, <2>2, <2>3, <2>4, <2>5
<1>7. CASE e.template.action = Closing(c).action
  <2>1. PICK x \in Begins(c) : Closes(e.template, c, x) /\ Airs(c, x)
    BY <1>7, SlotClosing DEF Working
  <2>2. GuardPasses(e, radio)
    BY <2>1 DEF GuardPasses, Closes
  <2>3. radio = On(c)
    BY <2>1 DEF Airs
  <2>4. \/ Sends(c) /\ e.template.action = "StopTx" /\ radio = "Transmitting"
        \/ ~Sends(c) /\ e.template.action = "StopRx" /\ radio = "Receiving"
    BY <1>3, <1>7, <2>3 DEF On
  <2>5. ~NoEffect(e) /\ e.template.action # "Reset" /\ FromOf(e) = radio /\ TargetOf(e) = Off(c)
    BY <2>4 DEF NoEffect, FromOf, TargetOf, Off
  <2>6. Admits(e, radio)
    BY <2>4 DEF Admits, TargetOf, CanTransitionTo, ValidTransitions
  <2> QED BY <1>4, <1>7, <2>2, <2>5, <2>6
<1>8. CASE e.template.action = "StateTransition"
  <2>1. PICK x \in Begins(c) : Settles(e.template, c, x) /\ Turns(c, x)
    BY <1>8, SlotTimer
  <2>2. e.template.guard = "none" /\ e.template.target = "Idle"
    BY <2>1 DEF Settles, IsTimer
  <2>3. GuardPasses(e, radio)
    BY <2>2 DEF GuardPasses
  <2>4. radio \in {"TxTurnaround", "RxTurnaround"}
    BY <2>1 DEF Turns, Off
  <2>5. ~NoEffect(e) /\ e.template.action # "Reset" /\ FromOf(e) = radio /\ TargetOf(e) = "Idle"
    BY <1>8, <2>2 DEF NoEffect, FromOf, TargetOf
  <2>6. Admits(e, radio)
    BY <1>8, <2>4, <2>5 DEF Admits, CanTransitionTo, ValidTransitions
  <2> QED BY <1>4, <1>8, <2>3, <2>5, <2>6
<1> QED BY <1>2, <1>6, <1>7, <1>8

\* A chore changes nothing of the radio.
LEMMA ChoreNoEffect ==
    ASSUME XInv, NEW t \in Threads, NEW e \in cur[t], e.call \notin Slots
    PROVE  NoEffect(e) /\ e.template.action # "Reset"
<1>1. e \in Live
  BY ExactlyNow DEF XInv
<1>2. e.template.action \in Chores
  BY <1>1 DEF XInv, Cast, Roles
<1> QED BY <1>2 DEF Chores, NoEffect

LEMMA GuardShows ==
    ASSUME XInv, Shapes', UNCHANGED scenario, NEW t \in Threads, Guard(t)
    PROVE  Cast' /\ Phases' /\ AtWork'
<1>0. XBase /\ Shapes /\ Thread(t) /\ Fit(t) /\ pc[t] = "guard" /\ Working(t) /\ FALSE \in BOOLEAN
  BY XFacts DEF XInv, AtWork, Guard, Thread, Working
<1>1. UNCHANGED <<events, left, radio, called>>
  BY DEF Guard, callVars
<1>2. PICK e \in cur[t] :
        \/ Finish(t, e, FALSE) /\ ~(GuardPasses(e, radio) /\ ~(passNow[t] - e.template.deadline > Tolerance))
        \/ Goto(t, "act") /\ UNCHANGED <<cur, resched, nextIds>>
  BY DEF Guard
<1>3. CASE Finish(t, e, FALSE) /\ ~(GuardPasses(e, radio) /\ ~(passNow[t] - e.template.deadline > Tolerance))
  <2>1. e.call \notin Slots
    BY <1>0, <1>3, SlotAdmitted
  <2> QED BY <1>0, <1>1, <1>3, <2>1, ChoreFinish
<1>4. CASE Goto(t, "act") /\ UNCHANGED <<cur, resched, nextIds>>
  <2>1. pc'[t] = "act"
    BY <1>0, <1>4 DEF Goto, Shapes, ThreadShapes
  <2>2. Slots' = Slots /\ \A c : Opening(c)' = Opening(c)
    BY SamePlan
  <2>3. Fit(t)'
    BY <1>0, <1>1, <1>4, <2>1, <2>2 DEF Fit, Working
  <2>4. Live' = Live
    BY <1>1, <1>4, StillLive
  <2> QED BY <1>0, <1>1, <1>4, <2>3, <2>4, QuietMove
<1> QED BY <1>2, <1>3, <1>4

LEMMA LoadShows ==
    ASSUME XInv, Shapes', UNCHANGED scenario, NEW t \in Threads, Load(t)
    PROVE  Cast' /\ Phases' /\ AtWork'
<1>0. /\ XBase /\ Shapes /\ Thread(t) /\ Fit(t) /\ pc[t] = "act" /\ Working(t)
      /\ FALSE \in BOOLEAN /\ TRUE \in BOOLEAN /\ Popped
  BY XFacts DEF XInv, AtWork, Load, Thread, Working
<1>1. UNCHANGED <<events, left, called>>
  BY DEF Load, callVars
<1>2. PICK e \in cur[t] :
        \/ NoEffect(e) /\ Finish(t, e, TRUE) /\ UNCHANGED radio
        \/ e.template.action = "Reset"
        \/ ~NoEffect(e) /\ ~Admits(e, FromOf(e))
        \/ /\ ~NoEffect(e)
           /\ seen' = [seen EXCEPT ![t] = FromOf(e)] /\ Goto(t, "cas") /\ UNCHANGED <<cur, resched, radio>>
  BY DEF Load
<1>3. CASE e.call \notin Slots
  <2>1. NoEffect(e) /\ e.template.action # "Reset"
    BY <1>3, ChoreNoEffect
  <2>2. Finish(t, e, TRUE) /\ UNCHANGED radio
    BY <1>2, <2>1
  <2> QED BY <1>0, <1>1, <1>3, <2>2, ChoreFinish
<1>4. CASE e.call \in Slots
  <2>1. ~NoEffect(e) /\ e.template.action # "Reset" /\ FromOf(e) = radio /\ Admits(e, radio)
    BY <1>0, <1>4, SlotAdmitted
  <2>2. seen' = [seen EXCEPT ![t] = radio] /\ Goto(t, "cas") /\ UNCHANGED <<cur, resched, radio>>
    BY <1>2, <2>1
  <2>3. pc'[t] = "cas" /\ seen'[t] = radio
    BY <1>0, <2>2 DEF Goto, Shapes, ThreadShapes
  <2>4. cur[t] = {e}
    BY <1>0, ExactlyNow
  <2>5. Slots' = Slots /\ \A c : Opening(c)' = Opening(c)
    BY SamePlan
  <2>6. Fit(t)'
    BY <1>0, <1>4, <2>2, <2>3, <2>4, <2>5 DEF Fit, Working
  <2>7. Live' = Live
    BY <1>1, <2>2, StillLive
  <2> QED BY <1>0, <1>1, <2>2, <2>6, <2>7, QuietMove
<1> QED BY <1>3, <1>4

\* A slot's event is finished, and may leave another one behind.
LEMMA SlotFinish ==
    ASSUME XInv, NEW t \in Threads, NEW e \in cur[t], NEW ok \in BOOLEAN, Finish(t, e, ok),
           NEW xs \in SUBSET EventSet, e \notin xs, events' = events \cup xs, UNCHANGED left,
           \A y \in xs : y.call = e.call /\ y.template.action # e.template.action
    PROVE  /\ \A d : d # e.call => \A a : Of(d, a)' = Of(d, a)
           /\ \A a : a # e.template.action =>
                 Of(e.call, a)' = Of(e.call, a) \cup {y \in xs : y.template.action = a}
           /\ Of(e.call, e.template.action)' = (Of(e.call, e.template.action) \ {e}) \cup Again(e, ok)
<1>0. XBase /\ Popped /\ e \in EventSet
  BY ExactlyNow DEF XInv
<1>1. Live' = (Live \ {e}) \cup Again(e, ok) \cup xs
  BY <1>0, FinishLive
<1>2. \A y \in Again(e, ok) : y.call = e.call /\ y.template.action = e.template.action
  BY <1>0, AgainFacts
<1>3. ASSUME NEW d, d # e.call, NEW a PROVE Of(d, a)' = Of(d, a)
  BY <1>1, <1>2, <1>3 DEF Of
<1>4. ASSUME NEW a, a # e.template.action
      PROVE  Of(e.call, a)' = Of(e.call, a) \cup {y \in xs : y.template.action = a}
  BY <1>1, <1>2, <1>4 DEF Of
<1>5. Of(e.call, e.template.action)' = (Of(e.call, e.template.action) \ {e}) \cup Again(e, ok)
  BY <1>1, <1>2 DEF Of
<1> QED BY <1>3, <1>4, <1>5

LEMMA OpensStay ==
    ASSUME UNCHANGED scenario, NEW c, Openings(c)' = Openings(c), NEW x
    PROVE  OpensAt(c, x)' = OpensAt(c, x) /\ OpensNext(c, x)' = OpensNext(c, x)
<1>1. Opening(c)' = Opening(c) /\ Period(c)' = Period(c)
  BY SamePlan
<1>2. \A y : OpensAt(c, y)' = OpensAt(c, y)
  <2>1. \A tm, y : Opens(tm, c, y)' = Opens(tm, c, y)
    BY <1>1 DEF Opens
  <2> QED BY <2>1 DEF OpensAt
<1> QED BY <1>1, <1>2 DEF OpensNext

LEMMA ClosesStay ==
    ASSUME UNCHANGED scenario, NEW c, Closings(c)' = Closings(c), NEW x
    PROVE  ClosesAt(c, x)' = ClosesAt(c, x) /\ ClosesNext(c, x)' = ClosesNext(c, x)
<1>1. Closing(c)' = Closing(c) /\ Period(c)' = Period(c) /\ Lasts(c)' = Lasts(c)
  BY SamePlan
<1>2. \A y : ClosesAt(c, y)' = ClosesAt(c, y)
  <2>1. \A tm, y : Closes(tm, c, y)' = Closes(tm, c, y)
    BY <1>1 DEF Closes
  <2> QED BY <2>1 DEF ClosesAt
<1> QED BY <1>1, <1>2 DEF ClosesNext

LEMMA RepetitionFields ==
    ASSUME NEW tm \in Templates
    PROVE  /\ Repetition(tm).action = tm.action /\ Repetition(tm).priority = tm.priority
           /\ Repetition(tm).guard = tm.guard /\ Repetition(tm).repeat = tm.repeat
           /\ Repetition(tm).deadline = tm.deadline + tm.repeat
  BY DEF Repetition, Templates

LEMMA AgainOne ==
    ASSUME NEW e \in EventSet, Again(e, TRUE) \subseteq EventSet
    PROVE  IF e.template.repeat > 0
           THEN \E f \in EventSet : Again(e, TRUE) = {f} /\ f.template = Repetition(e.template)
           ELSE Again(e, TRUE) = {}
<1>1. Next1(e).template = Repetition(e.template)
  BY DEF Next1, Event, Repetition
<1> QED BY <1>1 DEF Again

\* The next occurrence is the one of the next period.
LEMMA AgainOpens ==
    ASSUME Shapes, UNCHANGED scenario, NEW c \in Slots, NEW x \in Nat, NEW e \in EventSet, Opens(e.template, c, x),
           Again(e, TRUE) \subseteq EventSet, Openings(c)' = Again(e, TRUE)
    PROVE  OpensNext(c, x)'
<1>1. Opening(c)' = Opening(c) /\ Period(c)' = Period(c) /\ Period(c) \in Nat
  BY SamePlan, SlotNumbers
<1>2. e.template.repeat = Period(c) /\ e.template.deadline = x /\ e.template \in Templates
  BY DEF Opens, EventSet
<1>3. CASE Period(c) > 0
  <2>1. PICK f \in EventSet : Again(e, TRUE) = {f} /\ f.template = Repetition(e.template)
    BY <1>2, <1>3, AgainOne
  <2>2. Opens(f.template, c, x + Period(c))
    BY <1>2, <2>1, RepetitionFields DEF Opens
  <2>3. Opens(f.template, c, x + Period(c))'
    BY <1>1, <2>2 DEF Opens
  <2>4. OpensAt(c, x + Period(c))'
    BY <1>1, <2>1, <2>3 DEF OpensAt
  <2> QED BY <1>1, <1>3, <2>4 DEF OpensNext
<1>4. CASE ~(Period(c) > 0)
  <2>1. Openings(c)' = {}
    BY <1>2, <1>4, AgainOne
  <2> QED BY <1>1, <1>4, <2>1 DEF OpensNext
<1> QED BY <1>3, <1>4

LEMMA AgainCloses ==
    ASSUME Shapes, UNCHANGED scenario, NEW c \in Slots, NEW x \in Nat, NEW e \in EventSet, Closes(e.template, c, x),
           Again(e, TRUE) \subseteq EventSet, Closings(c)' = Again(e, TRUE)
    PROVE  ClosesNext(c, x)'
<1>1. /\ Closing(c)' = Closing(c) /\ Period(c)' = Period(c) /\ Lasts(c)' = Lasts(c)
      /\ Period(c) \in Nat /\ Lasts(c) \in Nat
  BY SamePlan, SlotNumbers
<1>2. e.template.repeat = Period(c) /\ e.template.deadline = x + Lasts(c) /\ e.template \in Templates
  BY DEF Closes, EventSet
<1>3. CASE Period(c) > 0
  <2>1. PICK f \in EventSet : Again(e, TRUE) = {f} /\ f.template = Repetition(e.template)
    BY <1>2, <1>3, AgainOne
  <2>2. f.template.deadline = x + Period(c) + Lasts(c)
    <3>1. f.template.deadline = x + Lasts(c) + Period(c)
      BY <1>2, <2>1, RepetitionFields
    <3> QED BY <1>1, <3>1
  <2>3. Closes(f.template, c, x + Period(c))
    BY <1>2, <2>1, <2>2, RepetitionFields DEF Closes
  <2>4. Closes(f.template, c, x + Period(c))'
    BY <1>1, <2>3 DEF Closes
  <2>5. ClosesAt(c, x + Period(c))'
    BY <1>1, <2>1, <2>4 DEF ClosesAt
  <2> QED BY <1>1, <1>3, <2>5 DEF ClosesNext
<1>4. CASE ~(Period(c) > 0)
  <2>1. Closings(c)' = {}
    BY <1>2, <1>4, AgainOne
  <2> QED BY <1>1, <1>4, <2>1 DEF ClosesNext
<1> QED BY <1>3, <1>4

LEMMA OthersQuiet ==
    ASSUME Shapes, Shapes', UNCHANGED <<scenario, clock, called>>,
           NEW c, \A d : d # c => \A a : Of(d, a)' = Of(d, a), \A d \in Slots : d # c => Quiet(d)
    PROVE  \A d \in Slots' : d # c => Quiet(d)'
<1>1. Slots' = Slots
  BY SamePlan
<1>2. clock <= clock'
  BY DEF Shapes, RestShapes
<1>3. ASSUME NEW d \in Slots, d # c PROVE Quiet(d)'
  BY <1>2, <1>3, QuietStays
<1> QED BY <1>1, <1>3

\* A slot goes on the air.
LEMMA OpeningShows ==
    ASSUME XInv, Shapes', UNCHANGED <<scenario, clock, called, events, left>>, NEW t \in Threads, Thread(t),
           Working(t), NEW e \in cur[t], NEW c \in Slots, e.call = c, e.template.action = Opening(c).action,
           radio = "Idle", radio' = On(c), Finish(t, e, TRUE)
    PROVE  Cast' /\ Phases' /\ AtWork'
<1>0. XBase /\ Shapes /\ Phases /\ Popped /\ TRUE \in BOOLEAN /\ pc[t] # "arm"
  BY XFacts DEF XInv, Working
<1>1. PICK x \in Begins(c) :
        Openings(c) = {e} /\ Opens(e.template, c, x) /\ Ready(c, x) /\ x = clock
  BY SlotOpening
<1>2. PICK xs \in SUBSET EventSet : xs = {}
  OBVIOUS
<1>3. e \notin xs /\ events' = events \cup xs /\ \A y \in xs : FALSE
  BY <1>2
<1>4. /\ \A d : d # e.call => \A a : Of(d, a)' = Of(d, a)
      /\ \A a : a # e.template.action =>
             Of(e.call, a)' = Of(e.call, a) \cup {y \in xs : y.template.action = a}
      /\ Of(e.call, e.template.action)' = (Of(e.call, e.template.action) \ {e}) \cup Again(e, TRUE)
  BY <1>0, <1>3, SlotFinish
<1>5. /\ Slots' = Slots /\ Begins(c)' = Begins(c) /\ On(c)' = On(c)
      /\ Opening(c)' = Opening(c) /\ Closing(c)' = Closing(c)
  BY SamePlan
<1>6. Closings(c)' = Closings(c) /\ Timers(c)' = Timers(c)
  <2>1. Closing(c).action # e.template.action /\ "StateTransition" # e.template.action
    BY <1>0, SlotActions
  <2> QED BY <1>2, <1>4, <1>5, <2>1 DEF Closings, Timers
<1>7. Openings(c)' = Again(e, TRUE)
  BY <1>1, <1>4, <1>5 DEF Openings
<1>8. x \in Nat /\ e \in EventSet /\ Again(e, TRUE) \subseteq EventSet
  BY <1>0, BeginNumbers, ExactlyNow, FinishAgain
<1>9. OpensNext(c, x)'
  BY <1>0, <1>1, <1>7, <1>8, AgainOpens
<1>10. ClosesAt(c, x)'
  BY <1>1, <1>6, ClosesStay DEF Ready
<1>11. Past(c, x)'
  <2>1. clock <= clock'
    BY <1>0 DEF Shapes, RestShapes
  <2> QED BY <1>0, <1>1, <2>1, PastStays DEF Ready
<1>12. Airs(c, x)'
  <2>1. c \in called' /\ x <= clock' /\ Timers(c)' = {}
    BY <1>1, <1>6, <1>8 DEF Ready
  <2> QED BY <1>5, <1>9, <1>10, <1>11, <2>1 DEF Airs
<1>13. \A d \in Slots : Quiet(d)
  BY <1>0, PhaseOf, HasNotIdle
<1>14. Has(c, x)'
  <2>1. \A d \in Slots' : d # c => Quiet(d)'
    BY <1>0, <1>4, <1>13, OthersQuiet
  <2> QED BY <1>12, <2>1 DEF Has
<1>15. Phases'
  BY <1>5, <1>14 DEF Phases
<1>16. Cast'
  BY <1>0, <1>3, FinishCast
<1>17. Fit(t)'
  <2>0. pc' = [pc EXCEPT ![t] = "pop"]
    BY <1>0, FinishAgain
  <2>1. pc'[t] = "pop"
    BY <1>0, <2>0 DEF Shapes, ThreadShapes
  <2> QED BY <2>1 DEF Fit, Working
<1> QED BY <1>0, <1>15, <1>16, <1>17, OneFits

\* It goes off the air, and the end of its turnaround is about to be scheduled.
LEMMA ClosingShows ==
    ASSUME XInv, Shapes', UNCHANGED <<scenario, clock, called, events, left, cur, resched>>,
           NEW t \in Threads, Thread(t), Working(t), NEW e \in cur[t], NEW c \in Slots, e.call = c,
           e.template.action = Closing(c).action, radio' = Off(c), Goto(t, "arm")
    PROVE  Cast' /\ Phases' /\ AtWork'
<1>0. XBase /\ Shapes /\ Phases /\ Popped /\ pc[t] # "arm" /\ Cast
  BY XFacts DEF XInv, Working
<1>1. PICK x \in Begins(c) :
        /\ Closings(c) = {e} /\ Closes(e.template, c, x)
        /\ Has(c, x) /\ Airs(c, x) /\ x + Lasts(c) = clock
  BY <1>0, SlotClosing
<1>2. Live' = Live /\ \A d, a : Of(d, a)' = Of(d, a)
  BY StillLive, SameOf
<1>3. /\ Slots' = Slots /\ Begins(c)' = Begins(c) /\ Off(c)' = Off(c) /\ Lasts(c)' = Lasts(c)
  BY SamePlan
<1>4. /\ Closings(c)' = Closings(c) /\ Timers(c)' = Timers(c)
      /\ ClosesAt(c, x)' = ClosesAt(c, x) /\ OpensNext(c, x)' = OpensNext(c, x)
  BY <1>2, SlotStays
<1>5. Past(c, x)'
  <2>1. clock <= clock'
    BY <1>0 DEF Shapes, RestShapes
  <2> QED BY <1>0, <1>1, <2>1, PastStays DEF Airs
<1>6. pc'[t] = "arm" /\ cur'[t] = {e}
  BY <1>0, ExactlyNow DEF Goto, Shapes, ThreadShapes
<1>7. Stopping(c, x)'
  BY <1>1, <1>4, <1>6 DEF Airs, Stopping
<1>8. Turns(c, x)'
  <2>1. x + Lasts(c) <= clock'
    BY <1>0, <1>1 DEF Shapes, RestShapes
  <2> QED BY <1>1, <1>3, <1>4, <1>5, <1>7, <2>1 DEF Airs, Turns
<1>9. Has(c, x)'
  <2>1. \A d \in Slots' : d # c => Quiet(d)'
    BY <1>0, <1>1, <1>2, OthersQuiet DEF Has
  <2> QED BY <1>8, <2>1 DEF Has
<1>10. Phases'
  BY <1>3, <1>9 DEF Phases
<1>11. Cast'
  <2>1. PICK ys : ys = {}
    OBVIOUS
  <2>2. /\ \A y \in ys : Roles(y)
        /\ \A u \in Threads : resched'[u] \subseteq resched[u]
        /\ \A d \in Calls : \A i \in 1..Len(left'[d]) : \E j \in 1..Len(left[d]) : left'[d][i] = left[d][j]
    BY <2>1
  <2> QED BY <1>0, <1>2, <2>1, <2>2, CastGrows
<1>12. Fit(t)'
  BY <1>3, <1>6, <1>7, <1>8, <1>9 DEF Fit, Working
<1> QED BY <1>0, <1>10, <1>11, <1>12, OneFits

\* The turnaround is over, and the slot for good or until its next period.
LEMMA TimerShows ==
    ASSUME XInv, Shapes', UNCHANGED <<scenario, clock, called, events, left>>, NEW t \in Threads, Thread(t),
           Working(t), NEW e \in cur[t], NEW c \in Slots, e.call = c, e.template.action = "StateTransition",
           radio' = "Idle", Finish(t, e, TRUE)
    PROVE  Cast' /\ Phases' /\ AtWork'
<1>0. XBase /\ Shapes /\ Phases /\ Popped /\ TRUE \in BOOLEAN /\ pc[t] # "arm"
  BY XFacts DEF XInv, Working
<1>1. PICK x \in Begins(c) : /\ Timers(c) = {e} /\ Settles(e.template, c, x)
                             /\ Has(c, x) /\ Turns(c, x) /\ Stopped(c, x) /\ End(c, x) = clock
  BY SlotTimer
<1>2. PICK xs \in SUBSET EventSet : xs = {}
  OBVIOUS
<1>3. e \notin xs /\ events' = events \cup xs /\ \A y \in xs : FALSE
  BY <1>2
<1>4. /\ \A d : d # e.call => \A a : Of(d, a)' = Of(d, a)
      /\ \A a : a # e.template.action =>
             Of(e.call, a)' = Of(e.call, a) \cup {y \in xs : y.template.action = a}
      /\ Of(e.call, e.template.action)' = (Of(e.call, e.template.action) \ {e}) \cup Again(e, TRUE)
  BY <1>0, <1>3, SlotFinish
<1>5. /\ Slots' = Slots /\ Begins(c)' = Begins(c) /\ Period(c)' = Period(c)
      /\ Opening(c)' = Opening(c) /\ Closing(c)' = Closing(c)
      /\ Lasts(c)' = Lasts(c) /\ Pause(c)' = Pause(c)
  BY SamePlan
<1>6. Openings(c)' = Openings(c) /\ Closings(c)' = Closings(c)
  <2>1. Closing(c).action # e.template.action /\ Opening(c).action # e.template.action
    BY <1>0, SlotActions
  <2> QED BY <1>2, <1>4, <1>5, <2>1 DEF Closings, Openings
<1>7. Timers(c)' = {}
  <2>1. Again(e, TRUE) = {}
    BY <1>1 DEF Again, Settles
  <2> QED BY <1>1, <1>4, <2>1 DEF Timers
<1>8. /\ OpensNext(c, x)' = OpensNext(c, x) /\ ClosesNext(c, x)' = ClosesNext(c, x)
  BY <1>6, OpensStay, ClosesStay
<1>9. OpensNext(c, x)' /\ ClosesNext(c, x)' /\ c \in called' /\ Past(c, x)
  BY <1>1, <1>8 DEF Turns, Stopped
<1>10. \A y \in Begins(c) : End(c, y)' = End(c, y)
  BY <1>5 DEF End
<1>11. Quiet(c)'
  <2>1. CASE Period(c) > 0
    <3>1. OpensAt(c, x + Period(c))' /\ ClosesAt(c, x + Period(c))'
      BY <1>5, <1>9, <2>1 DEF OpensNext, ClosesNext
    <3>2. Past(c, x + Period(c))'
      <4>1. ASSUME NEW y \in Begins(c), y < x + Period(c) PROVE End(c, y) <= clock
        <5>1. y <= x
          BY <1>0, <4>1, Spacing
        <5>2. y \in Nat /\ x \in Nat /\ clock \in Nat
          BY <1>0, BeginNumbers DEF Shapes, RestShapes
        <5> QED BY <1>1, <1>9, <5>1, <5>2 DEF Past
      <4> QED BY <1>5, <1>10, <4>1 DEF Past
    <3>3. x + Period(c) \in Begins(c)
      BY <1>0, BeginNumbers
    <3>4. Ready(c, x + Period(c))'
      BY <1>7, <1>9, <3>1, <3>2 DEF Ready
    <3> QED BY <1>5, <3>3, <3>4 DEF Quiet
  <2>2. CASE ~(Period(c) > 0)
    <3>1. Period(c) = 0
      BY <1>0, <2>2, SlotNumbers
    <3>2. Empty(c)'
      BY <1>5, <1>7, <1>9, <2>2 DEF Empty, OpensNext, ClosesNext
    <3>3. \A y \in Begins(c) : y = x
      BY <1>0, <3>1, BeginNumbers
    <3>4. \A y \in Begins(c)' : End(c, y)' <= clock'
      BY <1>0, <1>1, <1>5, <1>10, <3>3 DEF Shapes, RestShapes
    <3> QED BY <1>5, <1>9, <3>1, <3>2, <3>4 DEF Quiet, Served
  <2> QED BY <2>1, <2>2
<1>12. Phases'
  <2>1. \A d \in Slots' : d # c => Quiet(d)'
    BY <1>0, <1>1, <1>4, OthersQuiet DEF Has
  <2> QED BY <1>11, <2>1 DEF Phases
<1>13. Cast'
  BY <1>0, <1>3, FinishCast
<1>14. Fit(t)'
  <2>0. pc' = [pc EXCEPT ![t] = "pop"]
    BY <1>0, FinishAgain
  <2>1. pc'[t] = "pop"
    BY <1>0, <2>0 DEF Shapes, ThreadShapes
  <2> QED BY <2>1 DEF Fit, Working
<1> QED BY <1>0, <1>12, <1>13, <1>14, OneFits

LEMMA CasShows ==
    ASSUME XInv, Shapes', UNCHANGED scenario, NEW t \in Threads, Cas(t)
    PROVE  Cast' /\ Phases' /\ AtWork'
<1>0. /\ XBase /\ Shapes /\ Thread(t) /\ Fit(t) /\ pc[t] = "cas" /\ Working(t)
  BY XFacts DEF XInv, AtWork, Cas, Exchange, Thread, Working
<1>1. seen[t] = radio /\ \A e \in cur[t] : e.call \in Slots
  BY <1>0 DEF Fit
<1>2. UNCHANGED <<events, left, called, clock>>
  BY DEF Cas, Exchange, callVars, timeVars
<1>3. PICK e \in cur[t] :
        /\ radio' = TargetOf(e)
        /\ \/ e.template.action = "SetFrequency"
           \/ /\ e.template.action \in {"StopTx", "StopRx"}
              /\ Goto(t, "arm") /\ UNCHANGED <<cur, resched>>
           \/ e.template.action \notin {"StopTx", "StopRx"} /\ Finish(t, e, TRUE)
  BY <1>1 DEF Cas, Exchange, SetRadio
<1>4. PICK c \in Slots : c = e.call
  BY <1>1
<1>5. /\ Opening(c).action \in {"StartTx", "StartRx"} /\ Closing(c).action \in {"StopTx", "StopRx"}
  BY <1>0, SlotActions
<1>6. \/ e.template.action = Opening(c).action /\ TargetOf(e) = On(c) /\ radio = "Idle"
      \/ e.template.action = Closing(c).action /\ TargetOf(e) = Off(c)
      \/ e.template.action = "StateTransition" /\ TargetOf(e) = "Idle"
  BY <1>0, <1>4, SlotAdmitted
<1>7. CASE e.template.action = Opening(c).action /\ TargetOf(e) = On(c) /\ radio = "Idle"
  BY <1>0, <1>2, <1>3, <1>4, <1>5, <1>7, OpeningShows
<1>8. CASE e.template.action = Closing(c).action /\ TargetOf(e) = Off(c)
  BY <1>0, <1>2, <1>3, <1>4, <1>5, <1>8, ClosingShows
<1>9. CASE e.template.action = "StateTransition" /\ TargetOf(e) = "Idle"
  BY <1>0, <1>2, <1>3, <1>4, <1>9, TimerShows
<1> QED BY <1>6, <1>7, <1>8, <1>9

\* What the event that ends a turnaround looks like.
LEMMA TimerFields ==
    ASSUME XBase, NEW e \in EventSet, NEW c \in Slots, e.call = c, e.template.action = Closing(c).action,
           NEW x \in Begins(c), clock = x + Lasts(c),
           NEW y, y = Event(Timer(e), "new", newIds, e.call)
    PROVE  /\ y \in EventSet /\ y.call = c /\ y.counter = "new" /\ y.id = newIds
           /\ y.template.action = "StateTransition" /\ Settles(y.template, c, x)
<1>0. Shapes /\ newIds \in Nat /\ clock \in Nat
  BY XFacts DEF Shapes, QueueShapes, RestShapes
<1>1. y \in EventSet
  BY <1>0, TimerIsEvent
<1>2. y.template = Timer(e) /\ y.call = c /\ y.counter = "new" /\ y.id = newIds
  BY DEF Event
<1>3. Timer(e).deadline = clock + Pause(c)
  BY <1>0, SlotActions DEF Timer, Template, Pause
<1>4. Timer(e).deadline = End(c, x)
  BY <1>3 DEF End
<1>5. IsTimer(Timer(e)) /\ Timer(e).priority = 0 /\ Timer(e).repeat = 0 /\ Timer(e).action = "StateTransition"
  BY DEF Timer, Template, IsTimer
<1> QED BY <1>1, <1>2, <1>4, <1>5 DEF Settles

\* The end of the turnaround is scheduled.
LEMMA ArmShows ==
    ASSUME XInv, Shapes', UNCHANGED scenario, NEW t \in Threads, Arm(t)
    PROVE  Cast' /\ Phases' /\ AtWork'
<1>0. /\ XBase /\ Shapes /\ PBase /\ Phases /\ Popped /\ Cast /\ Fit(t) /\ pc[t] = "arm" /\ Thread(t)
      /\ TRUE \in BOOLEAN
  BY XFacts DEF XInv, AtWork, Arm, Thread
<1>1. PICK c \in Slots : \E x \in Begins(c) : Has(c, x) /\ Turns(c, x) /\ Stopping(c, x)
  BY <1>0 DEF Fit
<1>2. PICK x \in Begins(c) : Has(c, x) /\ Turns(c, x) /\ Stopping(c, x)
  BY <1>1
<1>3. PICK e \in cur[t] : Insert({Event(Timer(e), "new", newIds, e.call)}) /\ Finish(t, e, TRUE)
  BY DEF Arm
<1>4. UNCHANGED <<left, radio, called, clock>>
  BY DEF Arm, timeVars, callVars
<1>5. e \in EventSet /\ e \in Live /\ e.template.deadline = clock /\ cur[t] = {e}
  BY <1>0, ExactlyNow
<1>6. cur[t] = Closings(c)
  <2>1. PICK u \in Threads : pc[u] = "arm" /\ cur[u] = Closings(c)
    BY <1>2 DEF Stopping
  <2>2. u = t
    BY <1>0, <2>1, InTheLoop
  <2> QED BY <2>1, <2>2
<1>7. e.call = c /\ e.template.action = Closing(c).action /\ Closes(e.template, c, x)
  <2>1. PICK f \in EventSet : Closings(c) = {f} /\ Closes(f.template, c, x)
    BY <1>2 DEF Stopping, ClosesAt
  <2>2. e = f
    BY <1>5, <1>6, <2>1
  <2> QED BY <2>1, <2>2 DEF Closings, Of
<1>8. x \in Nat /\ clock = x + Lasts(c)
  BY <1>0, <1>5, <1>7, BeginNumbers DEF Closes
<1>9. PICK y : y = Event(Timer(e), "new", newIds, e.call)
  OBVIOUS
<1>10. /\ y \in EventSet /\ y.call = c /\ y.counter = "new" /\ y.id = newIds
       /\ y.template.action = "StateTransition" /\ Settles(y.template, c, x)
  BY <1>0, <1>5, <1>7, <1>8, <1>9, TimerFields
<1>11. e # y
  <2>1. e.counter = "new" => e.id < newIds
    BY <1>0 DEF Popped
  <2>2. newIds \in Nat
    BY <1>0 DEF Shapes, QueueShapes
  <2> QED BY <1>10, <2>1, <2>2
<1>12. PICK xs \in SUBSET EventSet : xs = {y}
  BY <1>10
<1>13. events' = events \cup xs /\ e \notin xs
  BY <1>3, <1>9, <1>11, <1>12 DEF Insert
<1>14. /\ Opening(c).action # Closing(c).action
       /\ Opening(c).action # "StateTransition" /\ Closing(c).action # "StateTransition"
  BY <1>0, SlotActions
<1>15. \A z \in xs : z.call = e.call /\ z.template.action # e.template.action
  BY <1>7, <1>10, <1>12, <1>14
<1>16. /\ \A d : d # e.call => \A a : Of(d, a)' = Of(d, a)
       /\ \A a : a # e.template.action =>
              Of(e.call, a)' = Of(e.call, a) \cup {z \in xs : z.template.action = a}
       /\ Of(e.call, e.template.action)' = (Of(e.call, e.template.action) \ {e}) \cup Again(e, TRUE)
  BY <1>0, <1>3, <1>4, <1>13, <1>15, SlotFinish
<1>17. /\ Slots' = Slots /\ Begins(c)' = Begins(c) /\ Off(c)' = Off(c) /\ Lasts(c)' = Lasts(c)
       /\ Pause(c)' = Pause(c) /\ Opening(c)' = Opening(c) /\ Closing(c)' = Closing(c)
  BY SamePlan
<1>18. Openings(c)' = Openings(c)
  <2>1. PICK a : a = Opening(c).action
    OBVIOUS
  <2>2. Of(c, a)' = Of(c, a) \cup {z \in xs : z.template.action = a}
    BY <1>7, <1>14, <1>16, <2>1
  <2>3. {z \in xs : z.template.action = a} = {}
    BY <1>10, <1>12, <1>14, <2>1
  <2> QED BY <1>17, <2>1, <2>2, <2>3 DEF Openings
<1>19. Closings(c)' = Again(e, TRUE)
  <2>1. Of(c, Closing(c).action) = {e}
    BY <1>5, <1>6 DEF Closings
  <2> QED BY <1>7, <1>16, <1>17, <2>1 DEF Closings
<1>20. Timers(c)' = {y}
  <2>1. {z \in xs : z.template.action = "StateTransition"} = {y}
    BY <1>10, <1>12
  <2>2. Of(c, "StateTransition")' = Of(c, "StateTransition") \cup {y}
    BY <1>7, <1>14, <1>16, <2>1
  <2> QED BY <1>2, <2>2 DEF Timers, Stopping
<1>21. OpensNext(c, x)'
  BY <1>2, <1>18, OpensStay DEF Turns
<1>22. ClosesNext(c, x)'
  <2>1. Again(e, TRUE) \subseteq EventSet
    BY <1>0, <1>3, FinishAgain
  <2> QED BY <1>0, <1>5, <1>7, <1>8, <1>19, <2>1, AgainCloses
<1>23. SettlesAt(c, x)'
  <2>1. Settles(y.template, c, x)'
    BY <1>10, <1>17 DEF Settles, End, IsTimer
  <2> QED BY <1>10, <1>20, <2>1 DEF SettlesAt
<1>24. Past(c, x)'
  <2>1. clock <= clock'
    BY <1>0, <1>4 DEF Shapes, RestShapes
  <2> QED BY <1>0, <1>2, <2>1, PastStays DEF Turns
<1>25. Turns(c, x)'
  BY <1>2, <1>4, <1>17, <1>21, <1>22, <1>23, <1>24 DEF Turns, Stopped
<1>26. Has(c, x)'
  <2>1. \A d \in Slots' : d # c => Quiet(d)'
    BY <1>0, <1>2, <1>4, <1>7, <1>16, OthersQuiet DEF Has
  <2> QED BY <1>25, <2>1 DEF Has
<1>27. Phases'
  BY <1>17, <1>26 DEF Phases
<1>28. Cast'
  <2>1. \A z \in xs : Roles(z)
    BY <1>10, <1>12 DEF Roles
  <2> QED BY <1>0, <1>3, <1>4, <1>13, <2>1, FinishCast
<1>29. Fit(t)'
  <2>0. pc' = [pc EXCEPT ![t] = "pop"]
    BY <1>0, <1>3, FinishAgain
  <2>1. pc'[t] = "pop"
    BY <1>0, <2>0 DEF Shapes, ThreadShapes
  <2> QED BY <2>1 DEF Fit, Working
<1> QED BY <1>0, <1>27, <1>28, <1>29, OneFits

\* A thread that is not in a hop never ends one.
LEMMA ThreadShows ==
    ASSUME XInv, Shapes', UNCHANGED scenario, NEW t \in Threads, Thread(t)
    PROVE  Cast' /\ Phases' /\ AtWork'
<1>1. ~Unhop(t)
  BY DEF XInv, AtWork, Fit, Unhop
<1> QED BY <1>1, IdlesShow, PopShows, GuardShows, LoadShows, CasShows, ArmShows, ThreadCases DEF Handles

\* What is neither a slot's nor a thread's business.
LEMMA AsideShows ==
    ASSUME XInv, Shapes', Undisturbed, Live' = Live, UNCHANGED <<cur, resched, seen>>,
           \A t \in Threads : pc'[t] = pc[t] \/ pc'[t] = "check",
           \A d \in Calls : \A i \in 1..Len(left'[d]) : \E j \in 1..Len(left[d]) : left'[d][i] = left[d][j]
    PROVE  Cast' /\ Phases' /\ AtWork'
<1>0. Shapes /\ Phases /\ Cast /\ UNCHANGED scenario
  BY XFacts DEF XInv, Undisturbed
<1>1. Cast'
  <2>1. PICK ys : ys = {}
    OBVIOUS
  <2>2. \A y \in ys : Roles(y)
    BY <2>1
  <2>3. \A u \in Threads : \A x \in resched'[u] :
             x \in resched[u] \/ (x \in ys /\ x.template.action # "StateTransition")
    OBVIOUS
  <2>4. \A c \in Calls : \A i \in 1..Len(left'[c]) :
               \/ \E j \in 1..Len(left[c]) : left'[c][i] = left[c][j]
               \/ left'[c][i] \in ys /\ left'[c][i].template.action # "StateTransition"
    OBVIOUS
  <2>5. Live' \subseteq Live \cup ys
    OBVIOUS
  <2> QED BY <1>0, <2>2, <2>3, <2>4, <2>5, CastGrows
<1>2. ASSUME NEW t \in Threads PROVE Fit(t)'
  <2>1. CASE pc'[t] = pc[t]
    BY <1>0, <2>1, FitStays DEF XInv, AtWork
  <2>2. CASE pc'[t] = "check"
    BY <2>2 DEF Fit, Working
  <2> QED BY <2>1, <2>2
<1>3. AtWork'
  BY <1>2 DEF AtWork
<1> QED BY <1>0, <1>1, <1>3, PhasesStay

LEMMA PushShows ==
    ASSUME XInv, Shapes', UNCHANGED scenario, NEW c \in Calls, Push(c)
    PROVE  Cast' /\ Phases' /\ AtWork'
<1>0. XBase /\ Shapes
  BY XFacts DEF XInv
<1>1. /\ Live' = Live /\ UNCHANGED <<cur, resched, radio, pc, seen, clock, called, scenario>>
      /\ \A d \in Calls : \A i \in 1..Len(left'[d]) : \E j \in 1..Len(left[d]) : left'[d][i] = left[d][j]
  BY <1>0, PushLive
<1>2. Undisturbed
  <2>1. \A d, a : Of(d, a)' = Of(d, a)
    BY <1>1, SameOf
  <2>2. clock <= clock'
    BY <1>0, <1>1 DEF Shapes, RestShapes
  <2> QED BY <1>1, <2>1, <2>2 DEF Undisturbed
<1> QED BY <1>1, <1>2, AsideShows

LEMMA RunShows ==
    ASSUME XInv, Shapes', UNCHANGED scenario, NEW c \in Calls, CallRun(c)
    PROVE  Cast' /\ Phases' /\ AtWork'
<1>0. XBase /\ Shapes
  BY XFacts DEF XInv
<1>1. /\ UNCHANGED <<events, cur, resched, left, radio, seen, clock>> /\ called' = called \cup {c}
      /\ pc[Plan[c].thread] = "off" /\ pc' = IF running THEN pc ELSE [pc EXCEPT ![Plan[c].thread] = "check"]
  BY DEF CallRun, queueVars, Begin
<1>2. Live' = Live
  BY <1>1, StillLive
<1>3. \A t \in Threads : pc'[t] = pc[t] \/ (pc[t] = "off" /\ pc'[t] = "check")
  BY <1>0, <1>1 DEF Shapes, ThreadShapes
<1>4. \A d \in Slots : d # c
  BY DEF Slots, CallRun, Begin
<1>5. Undisturbed
  <2>1. \A d, a : Of(d, a)' = Of(d, a)
    BY <1>2, SameOf
  <2>2. clock <= clock'
    BY <1>0, <1>1 DEF Shapes, RestShapes
  <2>3. \A t \in Threads : pc[t] = "arm" => pc'[t] = "arm"
    BY <1>3
  <2> QED BY <1>1, <1>4, <2>1, <2>2, <2>3 DEF Undisturbed
<1>6. \A d \in Calls : \A i \in 1..Len(left'[d]) : \E j \in 1..Len(left[d]) : left'[d][i] = left[d][j]
  BY <1>1
<1> QED BY <1>1, <1>2, <1>3, <1>5, <1>6, AsideShows

LEMMA TickShows ==
    ASSUME XInv, Shapes', UNCHANGED scenario, Tick \/ UNCHANGED vars
    PROVE  Cast' /\ Phases' /\ AtWork'
<1>0. XBase /\ Shapes
  BY XFacts DEF XInv
<1>1. /\ UNCHANGED <<events, cur, resched, left, radio, seen, called, pc>>
      /\ clock' = clock + 1 \/ clock' = clock
  BY DEF Tick, vars, threadVars, queueVars, callVars, timeVars
<1>2. Live' = Live
  BY <1>1, StillLive
<1>3. Undisturbed
  <2>1. \A d, a : Of(d, a)' = Of(d, a)
    BY <1>2, SameOf
  <2>2. clock <= clock'
    BY <1>0, <1>1 DEF Shapes, RestShapes
  <2> QED BY <1>1, <2>1, <2>2 DEF Undisturbed
<1>4. \A d \in Calls : \A i \in 1..Len(left'[d]) : \E j \in 1..Len(left[d]) : left'[d][i] = left[d][j]
  BY <1>1
<1> QED BY <1>1, <1>2, <1>3, <1>4, AsideShows

\* A call to schedule puts its events in front of the queue.
LEMMA ScheduleLive ==
    ASSUME XBase, NEW c \in Calls, CallSchedule(c)
    PROVE  \E es \in Seq(EventSet) :
             /\ Len(es) = Len(Plan[c].events)
             /\ \A i \in 1..Len(es) :
                  es[i] \in EventSet /\ es[i].call = c /\ es[i].template = Plan[c].events[i] /\ es[i] \in Live'
             /\ \A x \in Live : x.call # c => x \in Live'
             /\ \A x \in Live' : x \in Live \/ \E i \in 1..Len(es) : x = es[i]
             /\ \A d \in Calls : left'[d] = IF d = c THEN es ELSE left[d]
             /\ called' = called \cup {c} /\ c \notin called /\ c \in DOMAIN Plan /\ Plan[c].op = "schedule"
             /\ UNCHANGED <<cur, resched, seen, pc, radio, clock, scenario>>
<1>0. Shapes /\ Ids
  BY XFacts
<1>1. PICK ts : ts = Plan[c].events
  OBVIOUS
<1>2. ts \in Seq(Templates) /\ newIds \in Nat
  BY <1>0, <1>1, PlanOf DEF CallSchedule, Shapes, QueueShapes
<1>3. PICK es : es = [i \in 1..Len(ts) |-> Event(ts[i], "new", newIds + i - 1, c)]
  OBVIOUS
<1>4. \A i \in 1..Len(ts) : Event(ts[i], "new", newIds + i - 1, c) \in EventSet
  BY <1>2 DEF Event, EventSet
<1>5. es \in Seq(EventSet) /\ Len(es) = Len(ts)
  BY <1>2, <1>3, <1>4
<1>6. \A i \in 1..Len(es) : es[i] \in EventSet /\ es[i].call = c /\ es[i].template = ts[i]
  BY <1>3, <1>4, <1>5 DEF Event
<1>7. /\ left' = [left EXCEPT ![c] = es] /\ UNCHANGED events
      /\ called' = called \cup {c} /\ c \notin called /\ c \in DOMAIN Plan /\ Plan[c].op = "schedule"
      /\ UNCHANGED <<cur, resched, seen, pc, radio, clock, scenario>>
  BY <1>1, <1>3 DEF CallSchedule, Begin, threadVars, timeVars, fixed
<1>8. \A d \in Calls : left'[d] = IF d = c THEN es ELSE left[d]
  BY <1>0, <1>7 DEF Shapes, QueueShapes
<1>9. \A i \in 1..Len(es) : es[i] \in Live'
  BY <1>6, <1>8 DEF Live
<1>10. ASSUME NEW x \in Live, x.call # c PROVE x \in Live'
  <2>1. x \in EventSet /\ \/ x \in events
                          \/ \E t \in Threads : x \in cur[t] \/ x \in resched[t]
                          \/ \E d \in Calls : \E i \in 1..Len(left[d]) : x = left[d][i]
    BY DEF Live
  <2>2. CASE \E d \in Calls : \E i \in 1..Len(left[d]) : x = left[d][i]
    <3>1. PICK d \in Calls : \E i \in 1..Len(left[d]) : x = left[d][i]
      BY <2>2
    <3>2. d # c
      BY <1>0, <1>10, <3>1 DEF Ids, LeftIds
    <3>3. left'[d] = left[d]
      BY <1>8, <3>2
    <3> QED BY <2>1, <3>1, <3>3 DEF Live
  <2> QED BY <1>7, <2>1, <2>2 DEF Live
<1>11. ASSUME NEW x \in Live' PROVE x \in Live \/ \E i \in 1..Len(es) : x = es[i]
  <2>1. x \in EventSet /\ \/ x \in events
                          \/ \E t \in Threads : x \in cur[t] \/ x \in resched[t]
                          \/ \E d \in Calls : \E i \in 1..Len(left'[d]) : x = left'[d][i]
    BY <1>7 DEF Live
  <2>2. CASE \E d \in Calls : \E i \in 1..Len(left'[d]) : x = left'[d][i]
    <3>1. PICK d \in Calls : \E i \in 1..Len(left'[d]) : x = left'[d][i]
      BY <2>2
    <3>2. CASE d = c
      BY <1>8, <3>1, <3>2
    <3>3. CASE d # c
      BY <1>8, <2>1, <3>1, <3>3 DEF Live
    <3> QED BY <3>2, <3>3
  <2> QED BY <2>1, <2>2 DEF Live
<1> QED BY <1>1, <1>5, <1>6, <1>7, <1>8, <1>9, <1>10, <1>11

\* A slot that is asked for waits for its first time.
LEMMA SlotScheduled ==
    ASSUME Shapes, Shapes', UNCHANGED scenario, NEW c \in Slots, c \in called', Empty(c),
           \A e \in Live : Roles(e), NEW es \in Seq(EventSet), Len(es) = Len(Plan[c].events),
           \A i \in 1..Len(es) :
              es[i] \in EventSet /\ es[i].call = c /\ es[i].template = Plan[c].events[i] /\ es[i] \in Live',
           \A x \in Live' : x \in Live \/ \E i \in 1..Len(es) : x = es[i]
    PROVE  Quiet(c)'
<1>1. PICK e \in EventSet, f \in EventSet :
         /\ \A x \in Live' : x \in Live \/ x = e \/ x = f
         /\ e \in Live' /\ f \in Live' /\ e.call = c /\ f.call = c
         /\ e.template = Opening(c) /\ f.template = Closing(c)
  <2>1. Len(es) = 2 /\ 1 \in 1..2 /\ 2 \in 1..2 /\ \A i \in 1..2 : i = 1 \/ i = 2
    BY SlotTypes
  <2>2. /\ es[1] \in EventSet /\ es[1].call = c /\ es[1].template = Opening(c) /\ es[1] \in Live'
        /\ es[2] \in EventSet /\ es[2].call = c /\ es[2].template = Closing(c) /\ es[2] \in Live'
    BY <2>1 DEF Opening, Closing
  <2>3. \A x \in Live' : x \in Live \/ x = es[1] \/ x = es[2]
    BY <2>1
  <2> QED BY <2>2, <2>3
<1>2. /\ Opening(c).action # Closing(c).action /\ Closing(c).guard = "none"
      /\ Opening(c).action # "StateTransition" /\ Closing(c).action # "StateTransition"
  BY SlotActions
<1>3. \A x \in Live : x.call # c
  BY <1>2 DEF Empty, Openings, Closings, Timers, Of, Roles
<1>4. PICK o, p : o = Opening(c).action /\ p = Closing(c).action
  OBVIOUS
<1>5. Of(c, o)' = {e} /\ Of(c, p)' = {f} /\ Of(c, "StateTransition")' = {}
  BY <1>1, <1>2, <1>3, <1>4 DEF Of
<1>6. /\ Opening(c)' = Opening(c) /\ Closing(c)' = Closing(c) /\ Period(c)' = Period(c)
      /\ Lasts(c)' = Lasts(c) /\ Begins(c)' = Begins(c)
  BY SamePlan
<1>7. Openings(c)' = {e} /\ Closings(c)' = {f} /\ Timers(c)' = {}
  BY <1>4, <1>5, <1>6 DEF Openings, Closings, Timers
<1>8. PICK x \in Begins(c) : x = Opening(c).deadline
  BY FirstBegins
<1>9. OpensAt(c, x)'
  <2>1. Opens(e.template, c, x)'
    BY <1>1, <1>6, <1>8 DEF Opens, Period
  <2> QED BY <1>7, <2>1 DEF OpensAt
<1>10. ClosesAt(c, x)'
  <2>1. Closes(f.template, c, x)'
    BY <1>1, <1>2, <1>6, <1>8, SlotNumbers DEF Closes
  <2> QED BY <1>7, <2>1 DEF ClosesAt
<1>11. Past(c, x)'
  <2>1. \A y \in Begins(c) : ~(y < x)
    <3>1. \A y \in Begins(c) : x <= y /\ x \in Nat /\ y \in Nat
      BY <1>8, FirstBegins, BeginNumbers
    <3> QED BY <3>1
  <2> QED BY <1>6, <2>1 DEF Past
<1>12. Ready(c, x)'
  BY <1>7, <1>9, <1>10, <1>11 DEF Ready
<1> QED BY <1>6, <1>12 DEF Quiet

LEMMA ScheduleShows ==
    ASSUME XInv, Shapes', UNCHANGED scenario, NEW c \in Calls, CallSchedule(c)
    PROVE  Cast' /\ Phases' /\ AtWork'
<1>0. XBase /\ Shapes /\ Cast /\ Phases /\ Slotted /\ AtWork
  BY XFacts DEF XInv
<1>1. PICK es \in Seq(EventSet) :
             /\ Len(es) = Len(Plan[c].events)
             /\ \A i \in 1..Len(es) :
                  es[i] \in EventSet /\ es[i].call = c /\ es[i].template = Plan[c].events[i] /\ es[i] \in Live'
             /\ \A x \in Live : x.call # c => x \in Live'
             /\ \A x \in Live' : x \in Live \/ \E i \in 1..Len(es) : x = es[i]
             /\ \A d \in Calls : left'[d] = IF d = c THEN es ELSE left[d]
             /\ called' = called \cup {c} /\ c \notin called /\ c \in DOMAIN Plan /\ Plan[c].op = "schedule"
             /\ UNCHANGED <<cur, resched, seen, pc, radio, clock, scenario>>
  BY <1>0, ScheduleLive
<1>2. /\ Slots' = Slots /\ \A d : Begins(d)' = Begins(d) /\ Opening(d)' = Opening(d)
      /\ clock <= clock'
  BY <1>0, <1>1, SamePlan DEF Shapes, RestShapes
<1>3. \A d \in Slots : d # c => \A a : Of(d, a)' = Of(d, a)
  BY <1>1 DEF Of
<1>4. \A i \in 1..Len(es) : Roles(es[i]) /\ es[i].template.action # "StateTransition"
  <2>1. CASE c \in Slots
    <3>1. Len(es) = 2 /\ \A i \in 1..2 : i = 1 \/ i = 2
      BY <1>0, <1>1, <2>1, SlotTypes
    <3>2. \A i \in 1..Len(es) : es[i].template = Opening(c) \/ es[i].template = Closing(c)
      BY <1>1, <3>1 DEF Opening, Closing
    <3> QED BY <1>0, <1>1, <2>1, <3>2, SlotActions DEF Roles
  <2>2. CASE c \notin Slots
    BY <1>0, <1>1, <2>2 DEF Slotted, Roles, Chores
  <2> QED BY <2>1, <2>2
<1>5. Cast'
  <2>1. PICK ys : ys = {es[i] : i \in 1..Len(es)}
    OBVIOUS
  <2>2. \A y \in ys : Roles(y)
    BY <1>4, <2>1
  <2>3. Live' \subseteq Live \cup ys
    BY <1>1, <2>1
  <2>4. \A u \in Threads : \A x \in resched'[u] :
             x \in resched[u] \/ (x \in ys /\ x.template.action # "StateTransition")
    BY <1>1
  <2>5. \A d \in Calls : \A i \in 1..Len(left'[d]) :
               \/ \E j \in 1..Len(left[d]) : left'[d][i] = left[d][j]
               \/ left'[d][i] \in ys /\ left'[d][i].template.action # "StateTransition"
    BY <1>1, <1>4, <2>1
  <2> QED BY <1>0, <2>2, <2>3, <2>4, <2>5, CastGrows
<1>6. \A d \in Slots : d # c => (Quiet(d) => Quiet(d)')
  BY <1>0, <1>1, <1>2, <1>3, QuietStays
<1>7. ASSUME c \in Slots PROVE Quiet(c)'
  <2>1. Empty(c)
    <3>1. \A x \in Begins(c) : ~Has(c, x)
      BY <1>1 DEF Has, Airs, Turns
    <3>2. Quiet(c)
      BY <1>0, <1>7, <3>1, PhaseOf
    <3> QED BY <1>1, <3>2 DEF Quiet, Unasked, Served, Ready
  <2> QED BY <1>0, <1>1, <1>7, <2>1, SlotScheduled DEF Cast
<1>8. \A d \in Slots : Quiet(d) => Quiet(d)'
  BY <1>6, <1>7
<1>9. ASSUME NEW d \in Slots, NEW x \in Begins(d), Has(d, x)
      PROVE  Has(d, x)' /\ (Turns(d, x) => Turns(d, x)') /\ (Stopping(d, x) => Stopping(d, x)')
  <2>1. d # c
    BY <1>1, <1>9 DEF Has, Airs, Turns
  <2>2. /\ Stopping(d, x) => Stopping(d, x)'
        /\ Airs(d, x) => Airs(d, x)'
        /\ Turns(d, x) => Turns(d, x)'
    BY <1>0, <1>1, <1>2, <1>3, <2>1, OneStays
  <2> QED BY <1>2, <1>8, <1>9, <2>2 DEF Has
<1>10. Phases'
  <2>1. CASE radio = "Idle" /\ \A d \in Slots : Quiet(d)
    BY <1>1, <1>2, <1>8, <2>1 DEF Phases
  <2>2. CASE \E d \in Slots : \E x \in Begins(d) : Has(d, x)
    BY <1>2, <1>9, <2>2 DEF Phases
  <2> QED BY <1>0, <2>1, <2>2 DEF Phases
<1>11. ASSUME NEW t \in Threads PROVE Fit(t)'
  <2>1. Fit(t)
    BY <1>0 DEF AtWork
  <2>2. pc[t] = "arm" => \E d \in Slots : \E x \in Begins(d) : Has(d, x)' /\ Turns(d, x)' /\ Stopping(d, x)'
    BY <1>9, <2>1 DEF Fit
  <2> QED BY <1>1, <1>2, <2>1, <2>2 DEF Fit, Working
<1>12. AtWork'
  BY <1>11 DEF AtWork
<1> QED BY <1>5, <1>10, <1>12

LEMMA StepXInv == XInv /\ [Next]_vars => XInv'
<1> SUFFICES ASSUME XInv, [Next]_vars PROVE XInv'
  OBVIOUS
<1>1. XBase' /\ UNCHANGED scenario
  BY StepXBase DEF XInv
<1>2. Popped'
  BY StepPopped DEF XInv
<1>3. Shapes'
  BY <1>1 DEF XBase, PInv, PBase
<1>4. ASSUME NEW c \in Calls, Call(c) PROVE Cast' /\ Phases' /\ AtWork'
  BY <1>1, <1>3, <1>4, SlottedCalls, ScheduleShows, PushShows, RunShows DEF XInv
<1>5. Cast' /\ Phases' /\ AtWork'
  BY <1>1, <1>3, <1>4, ThreadShows, TickShows DEF Next
<1> QED BY <1>1, <1>2, <1>5 DEF XInv

LEMMA InitXInv == Init /\ Prompt /\ Slotted /\ Jitter = 0 => XInv
<1> SUFFICES ASSUME Init, Prompt, Slotted, Jitter = 0 PROVE XInv
  OBVIOUS
<1>1. PInv /\ Ids
  BY InitPInv, InitBalance
<1>2. /\ radio = "Idle" /\ events = {} /\ called = {}
      /\ \A t \in Threads : pc[t] = "off" /\ cur[t] = {} /\ resched[t] = {}
      /\ \A c \in Calls : left[c] = <<>>
  BY DEF Init
<1>3. \A c \in Calls : 1..Len(left[c]) = {}
  BY <1>2
<1>4. XBase
  BY <1>1, <1>2 DEF XBase, Single
<1>5. Popped
  BY <1>2 DEF Popped
<1>6. Live = {}
  BY <1>2, <1>3 DEF Live
<1>7. Cast
  BY <1>2, <1>3, <1>6 DEF Cast
<1>8. Phases
  <2>1. \A c, a : Of(c, a) = {}
    BY <1>6 DEF Of
  <2>2. \A c : Quiet(c)
    BY <1>2, <2>1 DEF Quiet, Unasked, Empty, Openings, Closings, Timers
  <2> QED BY <1>2, <2>2 DEF Phases
<1>9. AtWork
  BY <1>2 DEF AtWork, Fit, Working
<1> QED BY <1>4, <1>5, <1>7, <1>8, <1>9 DEF XInv

-----------------------------------------------------------------------------
(* Between the ticks.                                                      *)

\* All that is still to be dealt with is queued, for later.
LEMMA SettledLive ==
    ASSUME XBase, Settled
    PROVE  /\ \A e \in Live : e \in events /\ clock < e.template.deadline
           /\ \A t \in Threads : pc[t] # "arm"
<1>0. Shapes /\ PBase /\ Timely /\ Jitter = 0 /\ scenario.lag = 0
  BY XFacts
<1>1. \A t \in Threads : pc[t] = "off" \/ (pc[t] = "asleep" /\ ~(wakeAt[t] <= clock))
  BY DEF Settled, Runnable
<1>2. PICK t \in Threads : pc[t] = "asleep" /\ ~(wakeAt[t] <= clock)
  BY <1>1 DEF Settled
<1>3. \A u \in Threads : cur[u] = {} /\ resched[u] = {}
  BY <1>0, <1>1 DEF Shapes, ThreadShapes, Holding, Timely, OnTime
<1>4. \A c \in Calls : 1..Len(left[c]) = {}
  BY DEF Settled
<1>5. ASSUME NEW e \in Live PROVE e \in events /\ clock < e.template.deadline
  <2>1. e \in EventSet /\ e \in events
    BY <1>3, <1>4 DEF Live
  <2>2. e \in Early(wakeAt[t] + scenario.lag - lag[t]) /\ lag[t] <= scenario.lag
    BY <1>0, <1>2, <2>1 DEF Timely, OnTime, Dozing
  <2>3. lag[t] \in Nat /\ wakeAt[t] \in Nat /\ clock \in Nat /\ e.template.deadline \in Nat
    BY <1>0, <2>1, Times
  <2>4. wakeAt[t] + 0 - 0 <= e.template.deadline + 0
    <3>1. lag[t] = 0
      BY <1>0, <2>2, <2>3
    <3> QED BY <1>0, <2>2, <3>1 DEF Early, InTime
  <2> QED BY <1>2, <2>1, <2>3, <2>4
<1> QED BY <1>1, <1>5

\* So what waits for its time waits for a later one.
LEMMA SettledWaits ==
    ASSUME XBase, Settled, NEW c \in Slots, NEW x
    PROVE  /\ OpensAt(c, x) => clock < x /\ \E e \in events : e.call = c /\ e.template.action = Opening(c).action
           /\ ClosesAt(c, x) => clock < x + Lasts(c)
           /\ SettlesAt(c, x) => clock < End(c, x)
           /\ ~Stopping(c, x)
<1>1. /\ \A e \in Live : e \in events /\ clock < e.template.deadline
      /\ \A t \in Threads : pc[t] # "arm"
  BY SettledLive
<1>2. ASSUME OpensAt(c, x)
      PROVE  clock < x /\ \E e \in events : e.call = c /\ e.template.action = Opening(c).action
  <2>1. PICK e \in EventSet : Openings(c) = {e} /\ Opens(e.template, c, x)
    BY <1>2 DEF OpensAt
  <2>2. e \in Live /\ e.call = c /\ e.template.action = Opening(c).action /\ e.template.deadline = x
    BY <2>1 DEF Openings, Of, Opens
  <2> QED BY <1>1, <2>2
<1>3. ASSUME ClosesAt(c, x) PROVE clock < x + Lasts(c)
  <2>1. PICK e \in EventSet : Closings(c) = {e} /\ Closes(e.template, c, x)
    BY <1>3 DEF ClosesAt
  <2>2. e \in Live /\ e.template.deadline = x + Lasts(c)
    BY <2>1 DEF Closings, Of, Closes
  <2> QED BY <1>1, <2>2
<1>4. ASSUME SettlesAt(c, x) PROVE clock < End(c, x)
  <2>1. PICK e \in EventSet : Timers(c) = {e} /\ Settles(e.template, c, x)
    BY <1>4 DEF SettlesAt
  <2>2. e \in Live /\ e.template.deadline = End(c, x)
    BY <2>1 DEF Timers, Of, Settles
  <2> QED BY <1>1, <2>2
<1>5. ~Stopping(c, x)
  BY <1>1 DEF Stopping
<1> QED BY <1>2, <1>3, <1>4, <1>5

\* A time of a slot that is over or to come.
Elsewhere(c, x) == End(c, x) <= clock \/ clock < x

LEMMA QuietElsewhere ==
    ASSUME XBase, Settled, NEW c \in Slots, c \in called, Quiet(c)
    PROVE  /\ \A x \in Begins(c) : Elsewhere(c, x)
           /\ Period(c) > 0 => \E e \in events : e.call = c /\ e.template.action = Opening(c).action
<1>0. Shapes /\ clock \in Nat
  BY XFacts DEF Shapes, RestShapes
<1>1. CASE Served(c)
  BY <1>1 DEF Served, Elsewhere
<1>2. CASE \E x \in Begins(c) : Ready(c, x)
  <2>1. PICK x \in Begins(c) : Ready(c, x)
    BY <1>2
  <2>2. clock < x /\ \E e \in events : e.call = c /\ e.template.action = Opening(c).action
    BY <2>1, SettledWaits DEF Ready
  <2>3. ASSUME NEW y \in Begins(c) PROVE Elsewhere(c, y)
    <3>1. x \in Nat /\ y \in Nat
      BY <1>0, BeginNumbers
    <3>2. CASE y < x
      BY <2>1, <3>2 DEF Ready, Past, Elsewhere
    <3>3. CASE ~(y < x)
      BY <1>0, <2>2, <3>1, <3>3 DEF Elsewhere
    <3> QED BY <3>2, <3>3
  <2> QED BY <2>2, <2>3
<1> QED BY <1>1, <1>2 DEF Quiet, Unasked

LEMMA HasElsewhere ==
    ASSUME XBase, Settled, NEW c \in Slots, NEW x \in Begins(c), Has(c, x)
    PROVE  /\ c \in called /\ x <= clock /\ clock < End(c, x)
           /\ \/ clock < x + Lasts(c) /\ radio = On(c)
              \/ x + Lasts(c) <= clock /\ radio = Off(c)
           /\ \A y \in Begins(c) : y = x \/ Elsewhere(c, y)
           /\ Period(c) > 0 => \E e \in events : e.call = c /\ e.template.action = Opening(c).action
<1>0. Shapes /\ clock \in Nat
  BY XFacts DEF Shapes, RestShapes
<1>1. /\ x \in Nat /\ Lasts(c) \in Nat /\ Pause(c) \in Nat /\ Period(c) \in Nat
      /\ End(c, x) = x + Lasts(c) + Pause(c)
  BY <1>0, BeginNumbers, SlotNumbers
<1>2. c \in called /\ Past(c, x) /\ OpensNext(c, x)
  BY DEF Has, Airs, Turns
<1>3. \/ clock < x + Lasts(c) /\ radio = On(c) /\ x <= clock
      \/ x + Lasts(c) <= clock /\ radio = Off(c) /\ clock < End(c, x)
  BY SettledWaits DEF Has, Airs, Turns, Stopped
<1>4. Period(c) > 0 => /\ clock < x + Period(c)
                       /\ \E e \in events : e.call = c /\ e.template.action = Opening(c).action
  BY <1>2, SettledWaits DEF OpensNext
<1>5. ASSUME NEW y \in Begins(c), y # x PROVE Elsewhere(c, y)
  <2>1. y \in Nat
    BY <1>0, BeginNumbers
  <2>2. CASE y < x
    BY <1>2, <2>2 DEF Past, Elsewhere
  <2>3. CASE ~(y < x)
    <3>1. ~(y < x + Period(c))
      BY <1>0, <1>1, <1>5, <2>1, <2>3, Spacing
    <3>2. Period(c) > 0
      <4>1. Period(c) = 0 => y = x
        BY <1>0, BeginNumbers
      <4> QED BY <1>1, <1>5, <4>1
    <3> QED BY <1>0, <1>1, <1>4, <2>1, <3>1, <3>2 DEF Elsewhere
  <2> QED BY <2>2, <2>3
<1> QED BY <1>0, <1>1, <1>2, <1>3, <1>4, <1>5

LEMMA XInvThenKeeps == XInv => KeepsTimetable
<1> SUFFICES ASSUME XInv, Settled PROVE
        /\ \A c \in Slots \cap called : \A x \in Begins(c) :
              /\ x <= clock /\ clock < x + Lasts(c) => radio = On(c)
              /\ x + Lasts(c) <= clock /\ clock < End(c, x) => radio = Off(c)
        /\ \/ radio = "Idle"
           \/ \E c \in Slots \cap called : \E x \in Begins(c) : x <= clock /\ clock < End(c, x)
        /\ \A c \in Slots \cap called : Period(c) > 0 =>
              \E e \in events : e.call = c /\ e.template.action = Opening(c).action
  BY DEF KeepsTimetable
<1>0. XBase /\ Phases /\ Shapes /\ clock \in Nat
  BY XFacts DEF XInv, Shapes, RestShapes
<1>1. ASSUME NEW c \in Slots, NEW x \in Begins(c), Elsewhere(c, x)
      PROVE  ~(x <= clock /\ clock < x + Lasts(c)) /\ ~(x + Lasts(c) <= clock /\ clock < End(c, x))
  <2>1. x \in Nat /\ Lasts(c) \in Nat /\ Pause(c) \in Nat /\ End(c, x) = x + Lasts(c) + Pause(c)
    BY <1>0, BeginNumbers, SlotNumbers
  <2> QED BY <1>0, <1>1, <2>1 DEF Elsewhere
<1>2. ASSUME NEW c \in Slots, c \in called, NEW x \in Begins(c)
      PROVE  /\ x <= clock /\ clock < x + Lasts(c) => radio = On(c)
             /\ x + Lasts(c) <= clock /\ clock < End(c, x) => radio = Off(c)
  <2>1. CASE Elsewhere(c, x)
    BY <1>1, <2>1
  <2>2. CASE ~Elsewhere(c, x)
    <3>1. ~Quiet(c)
      BY <1>0, <1>2, <2>2, QuietElsewhere
    <3>2. PICK y \in Begins(c) : Has(c, y)
      BY <1>0, <3>1, PhaseOf
    <3>3. x = y
      BY <1>0, <2>2, <3>2, HasElsewhere
    <3>4. \/ clock < x + Lasts(c) /\ radio = On(c)
          \/ x + Lasts(c) <= clock /\ radio = Off(c)
      BY <1>0, <3>2, <3>3, HasElsewhere
    <3>5. x \in Nat /\ Lasts(c) \in Nat
      BY <1>0, BeginNumbers, SlotNumbers
    <3> QED BY <1>0, <3>4, <3>5
  <2> QED BY <2>1, <2>2
<1>3. \/ radio = "Idle"
      \/ \E c \in Slots \cap called : \E x \in Begins(c) : x <= clock /\ clock < End(c, x)
  <2>1. CASE \E c \in Slots : \E x \in Begins(c) : Has(c, x)
    <3>1. PICK c \in Slots : \E x \in Begins(c) : Has(c, x)
      BY <2>1
    <3>2. PICK x \in Begins(c) : Has(c, x)
      BY <3>1
    <3> QED BY <1>0, <3>2, HasElsewhere
  <2> QED BY <1>0, <2>1 DEF Phases
<1>4. ASSUME NEW c \in Slots, c \in called, Period(c) > 0
      PROVE  \E e \in events : e.call = c /\ e.template.action = Opening(c).action
  <2>1. CASE Quiet(c)
    BY <1>0, <1>4, <2>1, QuietElsewhere
  <2>2. CASE \E x \in Begins(c) : Has(c, x)
    BY <1>0, <1>4, <2>2, HasElsewhere
  <2> QED BY <1>0, <2>1, <2>2, PhaseOf
<1> QED BY <1>2, <1>3, <1>4

\* In a scenario that is prompt to the tick and slotted, every slot has the
\* radio exactly when it was asked for, in every period, and nothing else has.
THEOREM TimetableKept == Spec /\ Prompt /\ Slotted /\ Jitter = 0 => []KeepsTimetable
  BY InitXInv, StepXInv, XInvThenKeeps, PTL DEF Spec

-----------------------------------------------------------------------------
(* What waits to be put back belongs to the next period, so the end of a   *)
(* burst that is on the air is not among it.                               *)

Repeats == \A t \in Threads : \A e \in resched[t] :
    e.template.repeat > 0 /\ e.template.deadline = clock + e.template.repeat

LEMMA ThreadRepeats ==
    ASSUME XBase, Popped, Repeats, NEW t \in Threads, Thread(t)
    PROVE  Repeats'
<1>0. Shapes /\ TRUE \in BOOLEAN /\ FALSE \in BOOLEAN
  BY XFacts
<1>1. UNCHANGED clock
  BY <1>0, ThreadLocal
<1>2. \/ UNCHANGED resched
      \/ resched' = [resched EXCEPT ![t] = {}]
      \/ \E e \in cur[t] : \E ok \in BOOLEAN : Finish(t, e, ok)
  <2>1. CASE Check(t) \/ Pop(t) \/ PopNothing(t) \/ Doze(t) \/ Wake(t) \/ Reschedule(t)
    BY <2>1 DEF Check, Checked, Pop, PopNothing, Doze, Sleeping, Wake, Reschedule
  <2>2. CASE Guard(t)
    BY <1>0, <2>2 DEF Guard
  <2>3. CASE Load(t)
    BY <1>0, <2>3 DEF Load
  <2>4. CASE Cas(t)
    BY <1>0, <2>4 DEF Cas, Exchange
  <2>5. CASE Unhop(t) \/ Arm(t)
    BY <1>0, <2>5 DEF Unhop, Arm
  <2> QED BY <2>1, <2>2, <2>3, <2>4, <2>5 DEF Thread
<1>3. CASE UNCHANGED resched
  BY <1>1, <1>3 DEF Repeats
<1>4. CASE resched' = [resched EXCEPT ![t] = {}]
  <2>1. \A u \in Threads : resched'[u] \subseteq resched[u]
    BY <1>0, <1>4 DEF Shapes, QueueShapes
  <2> QED BY <1>1, <2>1 DEF Repeats
<1>5. CASE \E e \in cur[t] : \E ok \in BOOLEAN : Finish(t, e, ok)
  <2>1. PICK e \in cur[t] : \E ok \in BOOLEAN : Finish(t, e, ok)
    BY <1>5
  <2>2. PICK ok \in BOOLEAN : Finish(t, e, ok)
    BY <2>1
  <2>3. e \in EventSet /\ e.template \in Templates /\ e.template.deadline = clock
    BY ExactlyNow DEF EventSet
  <2>4. \A y \in Again(e, ok) : y.template = Repetition(e.template) /\ e.template.repeat > 0
    BY <2>3, AgainFacts
  <2>5. \A y \in Again(e, ok) : y.template.repeat > 0 /\ y.template.deadline = clock + y.template.repeat
    BY <2>3, <2>4, RepetitionFields
  <2>6. resched' = [resched EXCEPT ![t] = @ \cup Again(e, ok)]
    BY <1>0, <2>2, FinishAgain
  <2>7. \A u \in Threads : \A y \in resched'[u] : y \in resched[u] \/ y \in Again(e, ok)
    BY <1>0, <2>6 DEF Shapes, QueueShapes
  <2> QED BY <1>1, <2>5, <2>7 DEF Repeats
<1> QED BY <1>2, <1>3, <1>4, <1>5

LEMMA StepRepeats == ASSUME XBase, Popped, Repeats, [Next]_vars PROVE Repeats'
<1>1. ASSUME NEW c \in Calls, Call(c) PROVE Repeats'
  <2>1. UNCHANGED <<resched, clock>>
    BY <1>1 DEF Call, CallSchedule, Push, CallCancel, CallCancelSource, CallRun, CallStop, CallTransition,
                threadVars, timeVars
  <2> QED BY <2>1 DEF Repeats
<1>2. CASE Tick
  <2>1. ASSUME NEW t \in Threads PROVE resched[t] = {}
    <3>1. lag[t] \in Nat /\ scenario.lag = 0
      BY XFacts, Times
    <3>2. ~Runnable(t)
      BY <1>2, <3>1 DEF Tick
    <3>3. pc[t] \in {"off", "asleep"}
      BY <3>2 DEF Runnable
    <3> QED BY <3>3, XFacts DEF Timely, OnTime
  <2>2. UNCHANGED resched
    BY <1>2 DEF Tick, threadVars
  <2> QED BY <2>1, <2>2 DEF Repeats
<1>3. CASE UNCHANGED vars
  BY <1>3 DEF vars, threadVars, timeVars, Repeats
<1> QED BY <1>1, <1>2, <1>3, ThreadRepeats DEF Next

\* A slot is over before its next period.
LEMMA ShorterThanPeriod ==
    ASSUME Shapes, Slotted, NEW c \in Slots, NEW x \in Begins(c), Period(c) > 0
    PROVE  Lasts(c) < Period(c)
<1>1. x + Period(c) \in Begins(c) /\ x \in Nat
  BY BeginNumbers
<1>2. /\ Lasts(c) \in Nat /\ Pause(c) \in Nat /\ Period(c) \in Nat /\ Lasts(c) > 0
      /\ End(c, x) = x + Lasts(c) + Pause(c)
      /\ End(c, x + Period(c)) = x + Period(c) + Lasts(c) + Pause(c)
  BY SlotNumbers DEF End
<1>3. x # x + Period(c)
  BY <1>1, <1>2
<1>4. Clears(c, x, c, x + Period(c)) \/ Clears(c, x + Period(c), c, x)
  BY <1>1, <1>3 DEF Slotted, Apart
<1>5. ~Clears(c, x + Period(c), c, x)
  BY <1>1, <1>2 DEF Clears
<1>6. \/ x + Lasts(c) + Pause(c) < x + Period(c)
      \/ x + Lasts(c) + Pause(c) = x + Period(c) /\ Pause(c) > 0
  BY <1>2, <1>4, <1>5 DEF Clears
<1> QED BY <1>1, <1>2, <1>6

LEMMA XInvThenNeverStuck == XInv /\ Repeats => NeverStuck
<1> SUFFICES ASSUME XInv, Repeats PROVE NeverStuck
  OBVIOUS
<1>0. Shapes /\ Slotted /\ Phases /\ Cast /\ clock \in Nat
  BY XFacts DEF XInv, Shapes, RestShapes
<1>1. ASSUME radio = "Transmitting" PROVE \E e \in Pending : e.template.action = "StopTx"
  <2>1. PICK c \in Slots : \E x \in Begins(c) : Has(c, x)
    BY <1>0, <1>1 DEF Phases
  <2>2. PICK x \in Begins(c) : Has(c, x)
    BY <2>1
  <2>3. Airs(c, x) /\ Sends(c)
    BY <1>1, <2>2 DEF Has, Turns, Airs, On, Off
  <2>4. PICK e \in EventSet : Closings(c) = {e} /\ Closes(e.template, c, x)
    BY <2>3 DEF Airs, ClosesAt
  <2>5. e \in Live /\ e.template.action = "StopTx"
    BY <1>0, <2>3, <2>4, SlotActions DEF Closings, Of
  <2>6. \A t \in Threads : e \notin resched[t]
    <3>1. SUFFICES ASSUME NEW t \in Threads, e \in resched[t] PROVE FALSE
      OBVIOUS
    <3>2. Period(c) > 0 /\ x + Lasts(c) = clock + Period(c)
      BY <2>4, <3>1 DEF Repeats, Closes
    <3>3. Lasts(c) < Period(c)
      BY <1>0, <3>2, ShorterThanPeriod
    <3>4. x <= clock /\ x \in Nat /\ Lasts(c) \in Nat /\ Period(c) \in Nat
      BY <1>0, <2>3, BeginNumbers, SlotNumbers DEF Airs
    <3> QED BY <1>0, <3>2, <3>3, <3>4
  <2>7. CASE e \in events \/ \E t \in Threads : e \in cur[t]
    BY <2>5, <2>7 DEF Pending
  <2>8. CASE \E d \in Calls : \E i \in 1..Len(left[d]) : e = left[d][i]
    <3>1. PICK d \in Calls : \E i \in 1..Len(left[d]) : e = left[d][i]
      BY <2>8
    <3>2. PICK s \in Seq(EventSet) : s = left[d]
      BY <1>0 DEF Shapes, QueueShapes
    <3>3. e \in Range(s)
      BY <3>1, <3>2 DEF Range
    <3>4. e \in Pending
      BY <3>2, <3>3 DEF Pending
    <3> QED BY <2>5, <3>4
  <2> QED BY <2>5, <2>6, <2>7, <2>8 DEF Live
<1>2. ASSUME radio \in {"TxTurnaround", "RxTurnaround"}
      PROVE  \/ \E e \in events \cup UNION {cur[t] : t \in Threads} : e.template.action = "StateTransition"
             \/ \E t \in Threads : pc[t] = "arm"
  <2>1. PICK c \in Slots : \E x \in Begins(c) : Has(c, x)
    BY <1>0, <1>2 DEF Phases
  <2>2. PICK x \in Begins(c) : Has(c, x)
    BY <2>1
  <2>3. Stopping(c, x) \/ SettlesAt(c, x)
    BY <1>2, <2>2 DEF Has, Turns, Stopped, Airs, On
  <2>4. CASE Stopping(c, x)
    BY <2>4 DEF Stopping
  <2>5. CASE SettlesAt(c, x)
    <3>1. PICK e \in EventSet : Timers(c) = {e}
      BY <2>5 DEF SettlesAt
    <3>2. e \in Live /\ e.template.action = "StateTransition"
      BY <3>1 DEF Timers, Of
    <3>3. e \in events \/ \E t \in Threads : e \in cur[t]
      BY <1>0, <3>2 DEF Live, Cast
    <3> QED BY <3>2, <3>3
  <2> QED BY <2>3, <2>4, <2>5
<1> QED BY <1>1, <1>2 DEF NeverStuck

\* In such a scenario the radio is never left transmitting, or in a turnaround,
\* with nothing to take it out: beacons, which NothingSticks says nothing of,
\* included.
THEOREM SlotsNeverStick == Spec /\ Prompt /\ Slotted /\ Jitter = 0 => []NeverStuck
<1>1. Init /\ Prompt /\ Slotted /\ Jitter = 0 => XInv /\ Repeats
  BY InitXInv DEF Init, Repeats
<1>2. XInv /\ Repeats /\ [Next]_vars => (XInv /\ Repeats)'
  BY StepXInv, StepRepeats DEF XInv
<1> QED BY <1>1, <1>2, XInvThenNeverStuck, PTL DEF Spec

-----------------------------------------------------------------------------
(* The timetable and the beacon of MCRtScheduler.                          *)

\* The turnarounds and the cap of the sleep they are made for.
OfModel == TxTurn = 2 /\ RxTurn = 2 /\ MaxSleep <= 2 /\ Jitter = 0

LEMMA TimetablePlan ==
    ASSUME scenario = TimetableScenario
    PROVE  /\ DOMAIN Plan = {"run", "burst", "window"} /\ scenario.lag = 0
           /\ Plan["run"].op = "run" /\ Plan["run"].by = 1
           /\ Plan["burst"].op = "schedule" /\ Plan["burst"].by = 1
           /\ Plan["burst"].events = TxBurst(3, 2)
           /\ Plan["window"].op = "schedule" /\ Plan["window"].by = 5
           /\ Plan["window"].events = RxWindow(7, 2)
  BY DEF Plan, TimetableScenario, Run, Schedule

LEMMA BeaconPlan ==
    ASSUME scenario = BeaconScenario
    PROVE  /\ DOMAIN Plan = {"run", "beacon", "power"} /\ scenario.lag = 0
           /\ Plan["run"].op = "run" /\ Plan["run"].by = 1
           /\ Plan["beacon"].op = "schedule" /\ Plan["beacon"].by = 0
           /\ Plan["beacon"].events = Beacon(2, 4, 1)
           /\ Plan["power"].op = "schedule" /\ Plan["power"].by = 1
           /\ Plan["power"].events = OneShot(3, 9, "SetPower")
  BY DEF Plan, BeaconScenario, Run, Schedule

LEMMA PlannedEvents ==
    /\ Len(TxBurst(3, 2)) = 2
    /\ TxBurst(3, 2)[1] = Template(3, 0, "StartTx", "can_transmit", 0, "tx_burst")
    /\ TxBurst(3, 2)[2] = Template(5, 0, "StopTx", "none", 0, "tx_burst")
    /\ Len(RxWindow(7, 2)) = 2
    /\ RxWindow(7, 2)[1] = Template(7, 1, "StartRx", "can_receive", 0, "rx_window")
    /\ RxWindow(7, 2)[2] = Template(9, 1, "StopRx", "none", 0, "rx_window")
    /\ Len(Beacon(2, 4, 1)) = 2
    /\ Beacon(2, 4, 1)[1] = Template(2, 2, "StartTx", "can_transmit", 4, "beacon")
    /\ Beacon(2, 4, 1)[2] = Template(3, 2, "StopTx", "none", 4, "beacon")
    /\ Len(OneShot(3, 9, "SetPower")) = 1
    /\ OneShot(3, 9, "SetPower")[1] = Template(3, 9, "SetPower", "none", 0, "none")
  BY DEF TxBurst, RxWindow, Beacon, OneShot

\* In numbers.
Window(c, d, e, p, r, on, off) ==
    /\ c \in Slots /\ Period(c) = r /\ Lasts(c) = e - d /\ Pause(c) = 2
    /\ Begins(c) = {d + k * r : k \in Nat}
    /\ On(c) = on /\ Off(c) = off /\ Opening(c).priority = p

LEMMA TimetableSlots ==
    ASSUME scenario = TimetableScenario, TxTurn = 2, RxTurn = 2
    PROVE  /\ Slots = {"burst", "window"}
           /\ Window("burst", 3, 5, 0, 0, "Transmitting", "TxTurnaround")
           /\ Window("window", 7, 9, 1, 0, "Receiving", "RxTurnaround")
<1>1. DOMAIN Plan = {"run", "burst", "window"} /\ Plan["run"].op = "run"
  BY TimetablePlan
<1>2. Window("burst", 3, 5, 0, 0, "Transmitting", "TxTurnaround")
  <2>1. /\ Opening("burst") = Template(3, 0, "StartTx", "can_transmit", 0, "tx_burst")
        /\ Closing("burst") = Template(5, 0, "StopTx", "none", 0, "tx_burst")
        /\ Len(Plan["burst"].events) = 2
    BY TimetablePlan, PlannedEvents DEF Opening, Closing
  <2>2. /\ Opening("burst").deadline = 3 /\ Closing("burst").deadline = 5 /\ Opening("burst").priority = 0
        /\ Opening("burst").action = "StartTx" /\ Closing("burst").action = "StopTx"
        /\ Closing("burst").guard = "none" /\ Opening("burst").repeat = 0 /\ Closing("burst").repeat = 0
    BY <2>1 DEF Template
  <2>3. IsSlot(Plan["burst"].events) /\ Sends("burst")
    BY <2>1, <2>2 DEF IsSlot, Opening, Closing, Sends
  <2>4. "burst" \in Slots
    BY <1>1, <2>3, TimetablePlan DEF Slots
  <2> QED BY <2>2, <2>3, <2>4 DEF Window, Period, Lasts, Pause, On, Off, Begins
<1>3. Window("window", 7, 9, 1, 0, "Receiving", "RxTurnaround")
  <2>1. /\ Opening("window") = Template(7, 1, "StartRx", "can_receive", 0, "rx_window")
        /\ Closing("window") = Template(9, 1, "StopRx", "none", 0, "rx_window")
        /\ Len(Plan["window"].events) = 2
    BY TimetablePlan, PlannedEvents DEF Opening, Closing
  <2>2. /\ Opening("window").deadline = 7 /\ Closing("window").deadline = 9 /\ Opening("window").priority = 1
        /\ Opening("window").action = "StartRx" /\ Closing("window").action = "StopRx"
        /\ Closing("window").guard = "none" /\ Opening("window").repeat = 0 /\ Closing("window").repeat = 0
    BY <2>1 DEF Template
  <2>3. IsSlot(Plan["window"].events) /\ ~Sends("window")
    BY <2>1, <2>2 DEF IsSlot, Opening, Closing, Sends
  <2>4. "window" \in Slots
    BY <1>1, <2>3, TimetablePlan DEF Slots
  <2> QED BY <2>2, <2>3, <2>4 DEF Window, Period, Lasts, Pause, On, Off, Begins
<1>4. "run" \notin Slots /\ Slots \subseteq DOMAIN Plan
  BY <1>1 DEF Slots
<1> QED BY <1>1, <1>2, <1>3, <1>4 DEF Window

LEMMA BeaconSlots ==
    ASSUME scenario = BeaconScenario, TxTurn = 2
    PROVE  /\ Slots = {"beacon"}
           /\ Window("beacon", 2, 3, 2, 4, "Transmitting", "TxTurnaround")
           /\ Opening("beacon").action = "StartTx"
<1>1. DOMAIN Plan = {"run", "beacon", "power"} /\ Plan["run"].op = "run"
  BY BeaconPlan
<1>2. /\ Opening("beacon") = Template(2, 2, "StartTx", "can_transmit", 4, "beacon")
      /\ Closing("beacon") = Template(3, 2, "StopTx", "none", 4, "beacon")
      /\ Len(Plan["beacon"].events) = 2
  BY BeaconPlan, PlannedEvents DEF Opening, Closing
<1>3. /\ Opening("beacon").deadline = 2 /\ Closing("beacon").deadline = 3 /\ Opening("beacon").priority = 2
      /\ Opening("beacon").action = "StartTx" /\ Closing("beacon").action = "StopTx"
      /\ Closing("beacon").guard = "none" /\ Opening("beacon").repeat = 4 /\ Closing("beacon").repeat = 4
  BY <1>2 DEF Template
<1>4. Window("beacon", 2, 3, 2, 4, "Transmitting", "TxTurnaround")
  <2>1. IsSlot(Plan["beacon"].events) /\ Sends("beacon")
    BY <1>2, <1>3 DEF IsSlot, Opening, Closing, Sends
  <2>2. "beacon" \in Slots
    BY <1>1, <2>1, BeaconPlan DEF Slots
  <2> QED BY <1>3, <2>1, <2>2 DEF Window, Period, Lasts, Pause, On, Off, Begins
<1>5. "run" \notin Slots /\ Slots \subseteq DOMAIN Plan
  BY <1>1 DEF Slots
<1>6. "power" \notin Slots
  <2>1. Len(Plan["power"].events) = 1
    BY BeaconPlan, PlannedEvents
  <2> QED BY <2>1 DEF Slots, IsSlot
<1> QED BY <1>1, <1>3, <1>4, <1>5, <1>6 DEF Window

LEMMA TimetablePrompt ==
    ASSUME scenario = TimetableScenario, OfModel
    PROVE  Prompt
<1>1. DOMAIN Plan = {"run", "burst", "window"} /\ scenario.lag = 0
  BY TimetablePlan
<1>2. NoStops /\ scenario.lag \in Nat /\ 2 * scenario.lag <= Jitter /\ Jitter \in Nat /\ Jitter <= Tolerance
  BY <1>1, TimetablePlan, TimesAssumption DEF NoStops, OfModel
<1>3. \A c \in DOMAIN Plan : Plan[c].by \in Nat
  BY <1>1, TimetablePlan
<1>4. MaxSleep \in Nat /\ MaxSleep <= 2 /\ Jitter = 0
  BY TimesAssumption DEF OfModel
<1>5. ASSUME NEW c \in DOMAIN Plan, Plan[c].op = "schedule", NEW i \in 1..Len(Plan[c].events)
      PROVE  /\ Plan[c].events[i] \in Slow
             /\ AskedEarly(Plan[c].by, Plan[c].events[i]) /\ Enters(Plan[c].events[i])
  <2>1. PICK tm : tm = Plan[c].events[i]
    OBVIOUS
  <2>2. c \in {"burst", "window"} /\ i \in {1, 2}
    <3>1. c \in {"burst", "window"}
      BY <1>1, <1>5, TimetablePlan
    <3>2. Len(Plan[c].events) = 2 /\ 1..2 = {1, 2}
      BY <3>1, TimetablePlan, PlannedEvents
    <3> QED BY <1>5, <3>1, <3>2
  <2>3. \/ /\ Plan[c].by = 1
           /\ \/ tm = Template(3, 0, "StartTx", "can_transmit", 0, "tx_burst")
              \/ tm = Template(5, 0, "StopTx", "none", 0, "tx_burst")
        \/ /\ Plan[c].by = 5
           /\ \/ tm = Template(7, 1, "StartRx", "can_receive", 0, "rx_window")
              \/ tm = Template(9, 1, "StopRx", "none", 0, "rx_window")
    BY <2>1, <2>2, TimetablePlan, PlannedEvents
  <2>4. tm \in Templates /\ tm.repeat = 0
    BY <2>3 DEF Template, Templates, Actions, RadioStates
  <2>5. PICK d \in Nat : d = tm.deadline
    BY <2>4 DEF Templates
  <2>6. (Plan[c].by = 1 /\ 3 <= d) \/ (Plan[c].by = 5 /\ 7 <= d)
    BY <2>3, <2>5 DEF Template
  <2>7. AskedEarly(Plan[c].by, tm)
    <3>1. PICK b \in Nat : b = Plan[c].by
      BY <1>3
    <3>2. b + 2 <= d
      BY <2>6, <3>1
    <3>3. b + 0 + MaxSleep <= d + 0 /\ b + 2 * 0 <= d + 0
      BY <1>4, <3>2
    <3> QED BY <1>1, <1>4, <2>5, <3>1, <3>3 DEF AskedEarly, InTime
  <2>8. Enters(tm)
    <3>1. 1 + 0 <= d + 0
      BY <2>6
    <3>2. \A r \in DOMAIN Plan : Plan[r].op = "run" => Plan[r].by = 1
      BY <1>1, TimetablePlan
    <3> QED BY <1>1, <1>4, <2>5, <3>1, <3>2 DEF Enters, InTime
  <2> QED BY <2>1, <2>4, <2>7, <2>8 DEF Slow
<1> QED BY <1>2, <1>3, <1>5 DEF Prompt, AsksFor

LEMMA BeaconPrompt ==
    ASSUME scenario = BeaconScenario, OfModel
    PROVE  Prompt
<1>1. DOMAIN Plan = {"run", "beacon", "power"} /\ scenario.lag = 0
  BY BeaconPlan
<1>2. NoStops /\ scenario.lag \in Nat /\ 2 * scenario.lag <= Jitter /\ Jitter \in Nat /\ Jitter <= Tolerance
  BY <1>1, BeaconPlan, TimesAssumption DEF NoStops, OfModel
<1>3. \A c \in DOMAIN Plan : Plan[c].by \in Nat
  BY <1>1, BeaconPlan
<1>4. MaxSleep \in Nat /\ MaxSleep <= 2 /\ Jitter = 0
  BY TimesAssumption DEF OfModel
<1>5. ASSUME NEW c \in DOMAIN Plan, Plan[c].op = "schedule", NEW i \in 1..Len(Plan[c].events)
      PROVE  /\ Plan[c].events[i] \in Slow
             /\ AskedEarly(Plan[c].by, Plan[c].events[i]) /\ Enters(Plan[c].events[i])
  <2>1. PICK tm : tm = Plan[c].events[i]
    OBVIOUS
  <2>2. (c = "beacon" /\ i \in {1, 2}) \/ (c = "power" /\ i = 1)
    <3>1. c \in {"beacon", "power"}
      BY <1>1, <1>5, BeaconPlan
    <3>2. 1..2 = {1, 2} /\ 1..1 = {1}
      OBVIOUS
    <3>3. Len(Plan["beacon"].events) = 2 /\ Len(Plan["power"].events) = 1
      BY BeaconPlan, PlannedEvents
    <3>4. CASE c = "beacon"
      BY <1>5, <3>2, <3>3, <3>4
    <3>5. CASE c = "power"
      BY <1>5, <3>2, <3>3, <3>5
    <3> QED BY <3>1, <3>4, <3>5
  <2>3. \/ /\ Plan[c].by = 0
           /\ \/ tm = Template(2, 2, "StartTx", "can_transmit", 4, "beacon")
              \/ tm = Template(3, 2, "StopTx", "none", 4, "beacon")
        \/ Plan[c].by = 1 /\ tm = Template(3, 9, "SetPower", "none", 0, "none")
    BY <2>1, <2>2, BeaconPlan, PlannedEvents
  <2>4. tm \in Templates /\ tm.repeat \in Nat
    BY <2>3 DEF Template, Templates, Actions, RadioStates
  <2>5. PICK d \in Nat : d = tm.deadline
    BY <2>4 DEF Templates
  <2>6. (Plan[c].by = 0 /\ 2 <= d) \/ (Plan[c].by = 1 /\ 3 <= d)
    BY <2>3, <2>5 DEF Template
  <2>7. AskedEarly(Plan[c].by, tm)
    <3>1. PICK b \in Nat : b = Plan[c].by
      BY <1>3
    <3>2. b + 2 <= d
      BY <2>6, <3>1
    <3>3. b + 0 + MaxSleep <= d + 0 /\ b + 2 * 0 <= d + 0
      BY <1>4, <3>2
    <3> QED BY <1>1, <1>4, <2>5, <3>1, <3>3 DEF AskedEarly, InTime
  <2>8. Enters(tm)
    <3>1. 1 + 0 <= d + 0
      BY <2>6
    <3>2. \A r \in DOMAIN Plan : Plan[r].op = "run" => Plan[r].by = 1
      BY <1>1, BeaconPlan
    <3> QED BY <1>1, <1>4, <2>5, <3>1, <3>2 DEF Enters, InTime
  <2>9. Jitter <= tm.repeat
    BY <1>4, <2>4
  <2> QED BY <2>1, <2>4, <2>7, <2>8, <2>9 DEF Slow
<1> QED BY <1>2, <1>3, <1>5 DEF Prompt, AsksFor

LEMMA TimetableSlotted ==
    ASSUME scenario = TimetableScenario, OfModel
    PROVE  Slotted
<1>1. /\ Slots = {"burst", "window"}
      /\ Window("burst", 3, 5, 0, 0, "Transmitting", "TxTurnaround")
      /\ Window("window", 7, 9, 1, 0, "Receiving", "RxTurnaround")
  BY TimetableSlots DEF OfModel
<1>2. \A x \in Begins("burst") : x = 3
  BY <1>1 DEF Window
<1>3. \A x \in Begins("window") : x = 7
  BY <1>1 DEF Window
<1>4. Clears("burst", 3, "window", 7)
  BY <1>1 DEF Window, Clears, End
<1>5. Apart
  BY <1>1, <1>2, <1>3, <1>4 DEF Apart
<1>6. DOMAIN Plan = {"run", "burst", "window"} /\ \A c \in DOMAIN Plan : Plan[c].op \in {"run", "schedule"}
  BY TimetablePlan
<1>7. \A c \in DOMAIN Plan \ Slots : Plan[c].op # "schedule"
  BY <1>1, <1>6, TimetablePlan
<1> QED BY <1>5, <1>6, <1>7 DEF Slotted

LEMMA BeaconSlotted ==
    ASSUME scenario = BeaconScenario, OfModel
    PROVE  Slotted
<1>1. Slots = {"beacon"} /\ Window("beacon", 2, 3, 2, 4, "Transmitting", "TxTurnaround")
  BY BeaconSlots DEF OfModel
<1>2. ASSUME NEW x \in Begins("beacon"), NEW y \in Begins("beacon")
      PROVE  x = y \/ Clears("beacon", x, "beacon", y) \/ Clears("beacon", y, "beacon", x)
  <2>1. PICK k \in Nat : x = 2 + k * 4
    BY <1>1 DEF Window
  <2>2. PICK j \in Nat : y = 2 + j * 4
    BY <1>1 DEF Window
  <2>3. End("beacon", x) = x + 3 /\ End("beacon", y) = y + 3
    BY <1>1, <2>1, <2>2 DEF Window, End
  <2>4. x = y \/ x + 3 < y \/ y + 3 < x
    BY <2>1, <2>2
  <2> QED BY <2>3, <2>4 DEF Clears
<1>3. Apart
  BY <1>1, <1>2 DEF Apart
<1>4. DOMAIN Plan = {"run", "beacon", "power"} /\ \A c \in DOMAIN Plan : Plan[c].op \in {"run", "schedule"}
  BY BeaconPlan
<1>5. ASSUME NEW c \in DOMAIN Plan \ Slots, Plan[c].op = "schedule", NEW i \in 1..Len(Plan[c].events)
      PROVE  Plan[c].events[i].action \in Chores
  <2>1. c = "power"
    BY <1>1, <1>4, <1>5, BeaconPlan
  <2>2. i = 1
    <3>1. Len(Plan[c].events) = 1 /\ 1..1 = {1}
      BY <2>1, BeaconPlan, PlannedEvents
    <3> QED BY <1>5, <3>1
  <2>3. Plan[c].events[i] = Template(3, 9, "SetPower", "none", 0, "none")
    BY <2>1, <2>2, BeaconPlan, PlannedEvents
  <2> QED BY <2>3 DEF Template, Chores
<1> QED BY <1>3, <1>4, <1>5 DEF Slotted

\* The invariant of the two scenarios.
FInv ==
    /\ OfModel
    /\ scenario \in {TimetableScenario, BeaconScenario} => XInv
    /\ clock \in Nat /\ clock <= MaxTime

LEMMA InitFInv == Init /\ OfModel => FInv
<1> SUFFICES ASSUME Init, OfModel PROVE FInv
  OBVIOUS
<1>1. Jitter = 0 /\ clock \in Nat /\ clock <= MaxTime
  BY TimesAssumption DEF OfModel, Init
<1>2. CASE scenario = TimetableScenario
  BY <1>1, <1>2, TimetablePrompt, TimetableSlotted, InitXInv DEF FInv
<1>3. CASE scenario = BeaconScenario
  BY <1>1, <1>3, BeaconPrompt, BeaconSlotted, InitXInv DEF FInv
<1> QED BY <1>1, <1>2, <1>3 DEF FInv

LEMMA StepFInv == FInv /\ [Next]_vars => FInv'
<1> SUFFICES ASSUME FInv, [Next]_vars PROVE FInv'
  OBVIOUS
<1>1. UNCHANGED scenario
  BY ScenarioStays
<1>2. scenario \in {TimetableScenario, BeaconScenario} => XInv'
  BY StepXInv DEF FInv
<1>3. UNCHANGED clock \/ (clock < MaxTime /\ clock' = clock + 1)
  <2>1. ASSUME NEW t \in Threads, Thread(t) PROVE UNCHANGED clock
    BY <2>1 DEF Thread, Check, Checked, Pop, PopNothing, Guard, Load, Cas, Exchange, Unhop, Arm,
                Reschedule, Doze, Sleeping, Wake, timeVars
  <2>2. ASSUME NEW c \in Calls, Call(c) PROVE UNCHANGED clock
    BY <2>2 DEF Call, CallSchedule, Push, CallCancel, CallCancelSource, CallRun, CallStop, CallTransition,
                timeVars
  <2> QED BY <2>1, <2>2 DEF Next, Tick, vars, timeVars
<1>4. clock' \in Nat /\ clock' <= MaxTime
  BY <1>3, TimesAssumption DEF FInv
<1>5. OfModel'
  BY DEF FInv, OfModel
<1> QED BY <1>1, <1>2, <1>4, <1>5 DEF FInv

LEMMA FollowsTheTimetable ==
    ASSUME FInv, scenario = TimetableScenario, called = DOMAIN Plan, Settled
    PROVE  /\ OnAir(3, 5, "Transmitting") /\ OnAir(5, 7, "TxTurnaround")
           /\ OnAir(7, 9, "Receiving")    /\ OnAir(9, 11, "RxTurnaround")
           /\ OnAir(11, MaxTime + 1, "Idle")
<1>0. clock \in Nat
  BY DEF FInv
<1>1. /\ Slots = {"burst", "window"}
      /\ Window("burst", 3, 5, 0, 0, "Transmitting", "TxTurnaround")
      /\ Window("window", 7, 9, 1, 0, "Receiving", "RxTurnaround")
  BY TimetableSlots DEF FInv, OfModel
<1>2. "burst" \in called /\ "window" \in called
  BY TimetablePlan
<1>3. /\ \A x \in Begins("burst") : x = 3
      /\ \A x \in Begins("window") : x = 7
  BY <1>1 DEF Window
<1>4. 3 \in Begins("burst") /\ 7 \in Begins("window")
  <2>1. 0 \in Nat /\ 3 = 3 + 0 * 0 /\ 7 = 7 + 0 * 0
    OBVIOUS
  <2> QED BY <1>1, <2>1 DEF Window
<1>5. End("burst", 3) = 7 /\ End("window", 7) = 11
  BY <1>1 DEF Window, End
<1>6. KeepsTimetable
  BY XInvThenKeeps DEF FInv
<1>7. /\ 3 <= clock /\ clock < 5 => radio = "Transmitting"
      /\ 5 <= clock /\ clock < 7 => radio = "TxTurnaround"
  BY <1>1, <1>2, <1>4, <1>5, <1>6 DEF KeepsTimetable, Window
<1>8. /\ 7 <= clock /\ clock < 9 => radio = "Receiving"
      /\ 9 <= clock /\ clock < 11 => radio = "RxTurnaround"
  BY <1>1, <1>2, <1>4, <1>5, <1>6 DEF KeepsTimetable, Window
<1>9. 11 <= clock => radio = "Idle"
  <2>1. SUFFICES ASSUME 11 <= clock, radio # "Idle" PROVE FALSE
    OBVIOUS
  <2>2. PICK c \in Slots : \E x \in Begins(c) : x <= clock /\ clock < End(c, x)
    BY <1>6, <2>1 DEF KeepsTimetable
  <2>3. PICK x \in Begins(c) : clock < End(c, x)
    BY <2>2
  <2>4. End(c, x) = 7 \/ End(c, x) = 11
    BY <1>1, <1>3, <1>5
  <2> QED BY <1>0, <2>1, <2>3, <2>4
<1> QED BY <1>7, <1>8, <1>9 DEF OnAir

LEMMA FollowsTheBeacon ==
    ASSUME FInv, scenario = BeaconScenario, "beacon" \in called, Settled
    PROVE  /\ \E e \in events : e.call = "beacon" /\ e.template.action = "StartTx"
           /\ clock >= 2 => (radio = "Transmitting" <=> clock % 4 = 2)
<1>0. clock \in Nat
  BY DEF FInv
<1>1. /\ Slots = {"beacon"} /\ Opening("beacon").action = "StartTx"
      /\ Window("beacon", 2, 3, 2, 4, "Transmitting", "TxTurnaround")
  BY BeaconSlots DEF FInv, OfModel
<1>2. KeepsTimetable
  BY XInvThenKeeps DEF FInv
<1>3. \E e \in events : e.call = "beacon" /\ e.template.action = "StartTx"
  <2>1. Period("beacon") > 0
    BY <1>1 DEF Window
  <2> QED BY <1>1, <1>2, <2>1 DEF KeepsTimetable
<1>4. ASSUME clock >= 2, clock % 4 = 2 PROVE radio = "Transmitting"
  <2>1. PICK k \in Nat : clock = 2 + k * 4
    <3>1. clock = 4 * (clock \div 4) + (clock % 4) /\ clock \div 4 \in Nat
      BY <1>0
    <3> QED BY <1>4, <3>1
  <2>2. clock \in Begins("beacon") /\ clock <= clock /\ clock < clock + Lasts("beacon")
    BY <1>0, <1>1, <2>1 DEF Window
  <2> QED BY <1>1, <1>2, <2>2 DEF KeepsTimetable, Window
<1>5. ASSUME radio = "Transmitting" PROVE clock % 4 = 2
  <2>1. PICK c \in Slots : \E x \in Begins(c) : x <= clock /\ clock < End(c, x)
    BY <1>2, <1>5 DEF KeepsTimetable
  <2>2. c = "beacon"
    BY <1>1
  <2>3. PICK x \in Begins("beacon") : x <= clock /\ clock < End("beacon", x)
    BY <2>1, <2>2
  <2>4. PICK k \in Nat : x = 2 + k * 4
    BY <1>1, <2>3 DEF Window
  <2>5. ~(x + 1 <= clock)
    <3>1. Lasts("beacon") = 1 /\ Off("beacon") = "TxTurnaround"
      BY <1>1 DEF Window
    <3> QED BY <1>1, <1>2, <1>5, <2>3, <3>1 DEF KeepsTimetable
  <2>6. clock = 2 + k * 4
    BY <1>0, <2>3, <2>4, <2>5
  <2> QED BY <2>6
<1> QED BY <1>3, <1>4, <1>5

LEMMA FInvThenFollows == FInv => FollowsTimetable
<1> SUFFICES ASSUME FInv PROVE FollowsTimetable
  OBVIOUS
<1>1. ASSUME scenario = TimetableScenario, called = DOMAIN Plan
      PROVE  /\ OnAir(3, 5, "Transmitting") /\ OnAir(5, 7, "TxTurnaround")
             /\ OnAir(7, 9, "Receiving")    /\ OnAir(9, 11, "RxTurnaround")
             /\ OnAir(11, MaxTime + 1, "Idle")
  <2>1. CASE Settled
    BY <1>1, <2>1, FollowsTheTimetable
  <2>2. CASE ~Settled
    BY <2>2 DEF OnAir
  <2> QED BY <2>1, <2>2
<1>2. ASSUME scenario = BeaconScenario, {"run", "beacon"} \subseteq called, Settled
      PROVE  /\ \E e \in events : e.call = "beacon" /\ e.template.action = "StartTx"
             /\ clock >= 2 => (radio = "Transmitting" <=> clock % 4 = 2)
  BY <1>2, FollowsTheBeacon
<1> QED BY <1>1, <1>2 DEF FollowsTimetable

\* The timetable of a burst and a window, and the beacon, come out tick by tick,
\* in every period and however far the clock goes, with whatever other
\* scenarios, threads and tolerance the instance has.
THEOREM TimetableFollowed == Spec /\ OfModel => []FollowsTimetable
  BY InitFInv, StepFInv, FInvThenFollows, PTL DEF Spec
=============================================================================
