------------------------- MODULE RemoteAgentProofs -------------------------
(***************************************************************************)
(* What TLAPS proves of RemoteAgent, for any number of sessions, commands  *)
(* and child processes: no process is lost, and a success that is reported *)
(* answers the command that was given or one as many commands before it as *)
(* answers were missed, at most.  The two are independent: the processes   *)
(* are the server's, the lines in flight the sessions'.                    *)
(***************************************************************************)
EXTENDS RemoteAgent, SequenceTheorems, TLAPS

-----------------------------------------------------------------------------
(* The processes *)

TaskTypes ==
    /\ table \in [Tasks -> Children \cup {NoChild}]
    /\ status \in [Tasks -> {"Idle", "Running", "Failed"}]
    /\ life \in [Children -> Lives]

RunningHas == \A t \in Tasks : status[t] = "Running" => table[t] # NoChild

\* Two tasks have two processes.
Apart == \A t, u \in Tasks : table[t] = table[u] /\ table[t] # NoChild => t = u

TaskInv == TaskTypes /\ RunningHas /\ Apart /\ NoneLost

\* The ways a process is started, stopped or found to have ended.
TaskStep ==
    \/ \E t \in Tasks, answer \in Kinds : Start(t, answer)
    \/ \E ts \in SUBSET Tasks : StopProcesses(ts)
    \/ \E errs, reaped \in SUBSET Tasks :
        /\ table' = [t \in Tasks |-> IF t \in reaped THEN NoChild ELSE table[t]]
        /\ life' = Killed(reaped)
        /\ status' \in [Tasks -> {"Idle", "Running", "Failed"}]
        /\ \A t \in Tasks : status'[t] = "Running" => t \notin reaped /\ status[t] = "Running"
    \/ \E k \in Children : ChildEnds(k)
    \/ UNCHANGED taskVars

LEMMA ChildrenTypes == NoChild \notin Children /\ Children \subseteq Nat
  BY AgentAssumption DEF NoChild, Children

LEMMA HandleIsTaskStep ==
    ASSUME NEW cmd, NEW answer \in Kinds, Handle(cmd, answer)
    PROVE  TaskStep
<1>1. CASE cmd \in DOMAIN Starts /\ Start(Starts[cmd], answer)
  <2>1. Starts[cmd] \in Tasks
    BY <1>1 DEF Starts, Tasks
  <2> QED BY <1>1, <2>1 DEF TaskStep
<1>2. CASE cmd \in DOMAIN Stops /\ StopProcesses(Stops[cmd])
  <2>1. Stops[cmd] \subseteq Tasks
    BY <1>2 DEF Stops, Tasks
  <2> QED BY <1>2, <2>1 DEF TaskStep
<1>3. CASE UNCHANGED taskVars
  BY <1>3 DEF TaskStep
<1> QED BY <1>1, <1>2, <1>3 DEF Handle

\* Some processes are waited for and leave the table.
LEMMA KilledTaskInv ==
    ASSUME TaskInv, NEW ts \in SUBSET Tasks, life' = Killed(ts),
           table' = [t \in Tasks |-> IF t \in ts THEN NoChild ELSE table[t]]
    PROVE  /\ table' \in [Tasks -> Children \cup {NoChild}] /\ life' \in [Children -> Lives]
           /\ Apart' /\ NoneLost'
<1>1. /\ table' \in [Tasks -> Children \cup {NoChild}]
      /\ life' \in [Children -> Lives]
  BY DEF TaskInv, TaskTypes, Killed, Lives
<1>2. Apart'
  BY <1>1 DEF TaskInv, Apart
<1>3. ASSUME NEW k \in Children
      PROVE  life'[k] \notin {"unborn", "reaped"} <=> \E t \in Tasks : table'[t] = k
  <2>0. k # NoChild
    BY ChildrenTypes
  <2>1. CASE \E t \in ts : table[t] = k
    <3>1. life'[k] = "reaped"
      BY <2>1 DEF Killed
    <3>2. ASSUME NEW t \in Tasks PROVE table'[t] # k
      BY <2>0, <2>1 DEF TaskInv, Apart
    <3> QED BY <3>1, <3>2
  <2>2. CASE \A t \in ts : table[t] # k
    <3>1. life'[k] = life[k]
      BY <2>2 DEF Killed
    <3>2. (\E t \in Tasks : table'[t] = k) <=> (\E t \in Tasks : table[t] = k)
      BY <2>0, <2>2
    <3> QED BY <3>1, <3>2 DEF TaskInv, NoneLost
  <2> QED BY <2>1, <2>2
<1> QED BY <1>1, <1>2, <1>3 DEF NoneLost

LEMMA TaskStepTaskInv == TaskInv /\ TaskStep => TaskInv'
<1> SUFFICES ASSUME TaskInv, TaskStep PROVE TaskInv'
  OBVIOUS
<1>1. ASSUME NEW t \in Tasks, NEW answer \in Kinds, Start(t, answer)
      PROVE  TaskInv'
  <2>1. CASE Spawned(t, Killed({t}))
    <3>1. PICK k \in Unborn :
              /\ life' = [Killed({t}) EXCEPT ![k] = "alive"]
              /\ table' = [table EXCEPT ![t] = k]
              /\ status' = [status EXCEPT ![t] = "Running"]
      BY <2>1 DEF Spawned
    <3>2. k \in Children /\ k # NoChild /\ \A u \in Tasks : table[u] # k
      BY ChildrenTypes DEF Unborn, TaskInv, NoneLost
    <3>3. TaskTypes' /\ RunningHas'
      BY <3>1, <3>2 DEF TaskInv, TaskTypes, RunningHas, Killed, Lives
    <3>4. Apart'
      BY <3>1, <3>2 DEF TaskInv, TaskTypes, Apart
    <3>5. ASSUME NEW j \in Children
          PROVE  life'[j] \notin {"unborn", "reaped"} <=> \E u \in Tasks : table'[u] = j
      <4>0. /\ j # NoChild
            /\ life'[j] = IF j = k THEN "alive" ELSE IF table[t] = j THEN "reaped" ELSE life[j]
            /\ \A u \in Tasks : table'[u] = IF u = t THEN k ELSE table[u]
        BY <3>1, <3>2, ChildrenTypes DEF Killed, TaskInv, TaskTypes
      <4>1. CASE j = k
        BY <4>0, <4>1
      <4>2. CASE j # k /\ table[t] = j
        <5>1. life'[j] = "reaped"
          BY <4>0, <4>2
        <5>2. \A u \in Tasks : table'[u] # j
          BY <4>0, <4>2 DEF TaskInv, Apart
        <5> QED BY <5>1, <5>2
      <4>3. CASE j # k /\ table[t] # j
        <5>1. life'[j] = life[j]
          BY <4>0, <4>3
        <5>2. (\E u \in Tasks : table'[u] = j) <=> (\E u \in Tasks : table[u] = j)
          BY <4>0, <4>3
        <5> QED BY <5>1, <5>2 DEF TaskInv, NoneLost
      <4> QED BY <4>1, <4>2, <4>3
    <3> QED BY <3>3, <3>4, <3>5 DEF TaskInv, NoneLost
  <2>2. CASE /\ life' = Killed({t})
             /\ table' = [table EXCEPT ![t] = NoChild]
             /\ status' = [status EXCEPT ![t] = "Failed"]
    <3>1. table' = [u \in Tasks |-> IF u \in {t} THEN NoChild ELSE table[u]]
      BY <2>2 DEF TaskInv, TaskTypes
    <3>2. /\ table' \in [Tasks -> Children \cup {NoChild}] /\ life' \in [Children -> Lives]
          /\ Apart' /\ NoneLost'
      BY <2>2, <3>1, KilledTaskInv
    <3>3. status' \in [Tasks -> {"Idle", "Running", "Failed"}] /\ RunningHas'
      BY <2>2 DEF TaskInv, TaskTypes, RunningHas
    <3> QED BY <3>2, <3>3 DEF TaskInv, TaskTypes
  <2> QED BY <1>1, <2>1, <2>2 DEF Start
<1>2. ASSUME NEW ts \in SUBSET Tasks, StopProcesses(ts)
      PROVE  TaskInv'
  <2>1. /\ table' \in [Tasks -> Children \cup {NoChild}] /\ life' \in [Children -> Lives]
        /\ Apart' /\ NoneLost'
    BY <1>2, KilledTaskInv DEF StopProcesses
  <2>2. status' \in [Tasks -> {"Idle", "Running", "Failed"}] /\ RunningHas'
    BY <1>2 DEF StopProcesses, TaskInv, TaskTypes, RunningHas
  <2> QED BY <2>1, <2>2 DEF TaskInv, TaskTypes
<1>3. ASSUME NEW reaped \in SUBSET Tasks,
             table' = [t \in Tasks |-> IF t \in reaped THEN NoChild ELSE table[t]],
             life' = Killed(reaped),
             status' \in [Tasks -> {"Idle", "Running", "Failed"}],
             \A t \in Tasks : status'[t] = "Running" => t \notin reaped /\ status[t] = "Running"
      PROVE  TaskInv'
  <2>1. /\ table' \in [Tasks -> Children \cup {NoChild}] /\ life' \in [Children -> Lives]
        /\ Apart' /\ NoneLost'
    BY <1>3, KilledTaskInv
  <2>2. RunningHas'
    BY <1>3 DEF TaskInv, RunningHas
  <2> QED BY <1>3, <2>1, <2>2 DEF TaskInv, TaskTypes
<1>4. ASSUME NEW k \in Children, ChildEnds(k)
      PROVE  TaskInv'
  <2>1. PICK end \in {"succeeded", "failed"} : life' = [life EXCEPT ![k] = end]
    BY <1>4 DEF ChildEnds
  <2>2. life[k] = "alive" /\ UNCHANGED <<table, status>>
    BY <1>4 DEF ChildEnds
  <2> QED BY <2>1, <2>2 DEF TaskInv, TaskTypes, RunningHas, Apart, NoneLost, Lives
<1>5. CASE UNCHANGED taskVars
  BY <1>5 DEF taskVars, TaskInv, TaskTypes, RunningHas, Apart, NoneLost
<1> QED BY <1>1, <1>2, <1>3, <1>4, <1>5 DEF TaskStep

LEMMA NextIsTaskStep == TaskInv /\ [Next]_vars => TaskStep
<1> SUFFICES ASSUME TaskInv, [Next]_vars PROVE TaskStep
  OBVIOUS
<1>1. CASE Serve
  BY <1>1, HandleIsTaskStep DEF Serve, Kinds
<1>2. CASE Check
  <2>1. PICK errs \in SUBSET {t \in Tasks : table[t] # NoChild} :
          /\ status' = [t \in Tasks |->
                  CASE t \in errs   -> "Failed"
                    [] t \in {u \in Tasks \ errs : Noticed(u)} -> IF life[table[t]] = "failed" THEN "Failed" ELSE "Idle"
                    [] OTHER        -> status[t]]
          /\ table' = [t \in Tasks |-> IF t \in {u \in Tasks \ errs : Noticed(u)} THEN NoChild ELSE table[t]]
          /\ life' = Killed({u \in Tasks \ errs : Noticed(u)})
    BY <1>2 DEF Check
  <2> DEFINE reaped == {u \in Tasks \ errs : Noticed(u)}
  <2>2. reaped \subseteq Tasks /\ errs \subseteq Tasks
    OBVIOUS
  <2>3. \A t \in Tasks : /\ status'[t] \in {"Idle", "Running", "Failed"}
                         /\ status'[t] = "Running" => t \notin reaped /\ status[t] = "Running"
    <3> HIDE DEF reaped
    <3> QED BY <2>1 DEF TaskInv, TaskTypes, reaped
  <2>4. status' \in [Tasks -> {"Idle", "Running", "Failed"}]
    <3>1. status' = [t \in Tasks |-> status'[t]]
      BY <2>1
    <3> QED BY <2>3, <3>1
  <2> QED BY <2>1, <2>2, <2>3, <2>4 DEF TaskStep
<1>3. CASE Quit
  BY <1>3 DEF Quit, TaskStep
<1>4. CASE UNCHANGED taskVars
  BY <1>4 DEF TaskStep
<1>5. ASSUME NEW k \in Children, ChildEnds(k) PROVE TaskStep
  BY <1>5 DEF TaskStep
<1>6. ASSUME NEW c \in Sessions, Client(c) PROVE UNCHANGED taskVars
  BY <1>6 DEF Client, Connect, Send, Receive, GiveUp, HangUp, taskVars
<1>7. Accept \/ AcceptNone \/ Cut \/ ReadEnds \/ UNCHANGED vars => UNCHANGED taskVars
  BY DEF Accept, AcceptNone, Cut, ReadEnds, vars, taskVars
<1> QED BY <1>1, <1>2, <1>3, <1>4, <1>5, <1>6, <1>7 DEF Next, Server

LEMMA TasksKept == Spec => []TaskInv
<1>1. Init => TaskInv
  BY ChildrenTypes DEF Init, TaskInv, TaskTypes, RunningHas, Apart, NoneLost, Lives
<1>2. TaskInv /\ [Next]_vars => TaskInv'
  BY NextIsTaskStep, TaskStepTaskInv
<1> QED BY <1>1, <1>2, PTL DEF Spec

\* Every process that was spawned and not waited for is in the table, under one
\* task (server.rs: cmd_start_tx, cmd_start_rx, stop_process, check_processes),
\* however many are spawned and whenever they end.
THEOREM NoProcessLost == Spec => []NoneLost
<1>1. TaskInv => NoneLost
  BY DEF TaskInv
<1> QED BY <1>1, TasksKept, PTL

-----------------------------------------------------------------------------
(* The lines in flight                                                     *)

LineSet   == [n : 1..MaxSent, cmd : Commands]
AnswerSet == [n : 1..MaxSent, kind : Kinds]

FlightTypes ==
    /\ at \in {"accept", "serve", "check", "done"} /\ running \in BOOLEAN
    /\ serving \in Sessions \cup {Nobody} /\ (serving = Nobody <=> at # "serve")
    /\ backlog \in Seq(Sessions)
    /\ line \in [Sessions -> {"new", "queued", "served", "over"}]
    /\ open \in [Sessions -> BOOLEAN] /\ waiting \in [Sessions -> BOOLEAN]
    /\ sent \in [Sessions -> 0..MaxSent] /\ missed \in [Sessions -> 0..MaxSent]
    /\ up \in [Sessions -> Seq(LineSet)]
    /\ down \in [Sessions -> Seq(AnswerSet)]
    /\ told \in [Sessions -> [asked : [n : Nat, cmd : Commands], answers : Nat]]
    /\ cuts \in 0..MaxCuts

\* Commands whose answer was not read: those missed, and the one waited for.
Due(c) == missed[c] + (IF waiting[c] THEN 1 ELSE 0)

\* As many commands as a session has read answers to are older than the first
\* line in flight, one more than the second, and so on; answers come first.
Queue(c) ==
    /\ \A i \in 1..Len(down[c]) :
        /\ down[c][i].n <= sent[c]
        /\ sent[c] + i <= down[c][i].n + Due(c)
    /\ \A i \in 1..Len(up[c]) :
        /\ up[c][i].n <= sent[c]
        /\ sent[c] + Len(down[c]) + i <= up[c][i].n + Due(c)

Reported(c) ==
    /\ told[c].asked.n = sent[c]
    /\ told[c].answers # 0 => told[c].answers <= sent[c] /\ sent[c] <= told[c].answers + missed[c]

InFlight(c) == Due(c) <= sent[c] /\ Queue(c) /\ Reported(c)

FInv == FlightTypes /\ \A c \in Sessions : InFlight(c)

\* The variables that tell of what a session has in flight are as they were.
Kept(c) ==
    /\ waiting'[c] = waiting[c] /\ sent'[c] = sent[c] /\ missed'[c] = missed[c]
    /\ up'[c] = up[c] /\ down'[c] = down[c] /\ told'[c] = told[c]

LEMMA KeptInFlight ==
    ASSUME NEW c, InFlight(c), Kept(c)
    PROVE  InFlight(c)'
  BY DEF InFlight, Due, Queue, Reported, Kept

\* A sequence without its first element.
LEMMA TailParts ==
    ASSUME NEW S, NEW s \in Seq(S), s # <<>>
    PROVE  /\ Tail(s) \in Seq(S) /\ Len(Tail(s)) = Len(s) - 1 /\ Len(s) \in Nat \ {0}
           /\ \A i \in 1..Len(Tail(s)) : i + 1 \in 1..Len(s) /\ Tail(s)[i] = s[i + 1]
           /\ Head(s) = s[1] /\ Head(s) \in S
  BY HeadTailProperties, EmptySeq

\* The places of the lines when one is added, taken away or answered.
LEMMA Places ==
    ASSUME NEW s \in Nat, NEW l \in Nat, NEW i \in Nat, NEW n \in Nat, NEW due \in Nat
    PROVE  /\ s + l + i <= n + due => (s + 1) + l + i <= n + (due + 1)
           /\ s + i <= n + due => (s + 1) + i <= n + (due + 1)
           /\ s + (i + 1) <= n + (due + 1) => s + i <= n + due
           /\ n <= s => n <= s + 1
  OBVIOUS

LEMMA Numbers ==
    ASSUME FlightTypes, NEW c \in Sessions
    PROVE  /\ sent[c] \in 0..MaxSent /\ sent[c] \in Nat /\ missed[c] \in Nat /\ Due(c) \in Nat
           /\ told[c].answers \in Nat
           /\ up[c] \in Seq(LineSet) /\ Len(up[c]) \in Nat
           /\ down[c] \in Seq(AnswerSet) /\ Len(down[c]) \in Nat
           /\ \A i \in 1..Len(up[c]) : up[c][i] \in LineSet /\ up[c][i].n \in Nat
           /\ \A i \in 1..Len(down[c]) : down[c][i] \in AnswerSet /\ down[c][i].n \in Nat
<1>1. /\ sent[c] \in 0..MaxSent /\ sent[c] \in Nat /\ missed[c] \in Nat
      /\ told[c].answers \in Nat
      /\ up[c] \in Seq(LineSet) /\ down[c] \in Seq(AnswerSet)
  BY AgentAssumption DEF FlightTypes
<1>2. Due(c) \in Nat
  BY <1>1 DEF Due
<1>3. Len(up[c]) \in Nat /\ Len(down[c]) \in Nat
  BY <1>1
<1>4. 1..MaxSent \subseteq Nat
  BY AgentAssumption
<1>5. \A x \in LineSet : x.n \in Nat
  BY <1>4 DEF LineSet
<1>6. \A x \in AnswerSet : x.n \in Nat
  BY <1>4 DEF AnswerSet
<1>7. /\ \A i \in 1..Len(up[c]) : up[c][i] \in LineSet
      /\ \A i \in 1..Len(down[c]) : down[c][i] \in AnswerSet
  BY <1>1, ElementOfSeq
<1> QED BY <1>1, <1>2, <1>3, <1>5, <1>6, <1>7

\* What is in flight was missed, but for what is waited for.
LEMMA FewInFlight ==
    ASSUME FlightTypes, NEW c \in Sessions, InFlight(c)
    PROVE  Len(down[c]) + Len(up[c]) <= Due(c)
<1>1. ASSUME NEW s \in Nat, NEW l \in Nat, NEW n \in Nat, NEW due \in Nat, n <= s, s + l <= n + due
      PROVE  l <= due
  BY <1>1
<1>2. /\ Len(up[c]) \in Nat /\ Len(down[c]) \in Nat /\ sent[c] \in Nat /\ Due(c) \in Nat
      /\ \A i \in 1..Len(up[c]) : up[c][i].n \in Nat
      /\ \A i \in 1..Len(down[c]) : down[c][i].n \in Nat
  BY Numbers
<1>3. CASE Len(up[c]) > 0
  <2>1. Len(up[c]) \in 1..Len(up[c])
    BY <1>2, <1>3
  <2>2. /\ up[c][Len(up[c])].n <= sent[c]
        /\ sent[c] + Len(down[c]) + Len(up[c]) <= up[c][Len(up[c])].n + Due(c)
    BY <2>1 DEF InFlight, Queue
  <2>3. PICK s \in Nat, l \in Nat, u \in Nat, n \in Nat, due \in Nat :
          /\ s = sent[c] /\ l = Len(down[c]) /\ u = Len(up[c])
          /\ n = up[c][Len(up[c])].n /\ due = Due(c)
    BY <1>2, <2>1
  <2>4. n <= s /\ s + l + u <= n + due
    BY <2>2, <2>3
  <2>5. l + u <= due
    BY <2>4
  <2> QED BY <2>3, <2>5
<1>4. CASE Len(up[c]) = 0 /\ Len(down[c]) > 0
  <2>1. Len(down[c]) \in 1..Len(down[c])
    BY <1>2, <1>4
  <2>2. down[c][Len(down[c])].n <= sent[c] /\ sent[c] + Len(down[c]) <= down[c][Len(down[c])].n + Due(c)
    BY <2>1 DEF InFlight, Queue
  <2>3. Len(down[c]) <= Due(c)
    BY <1>1, <1>2, <2>1, <2>2
  <2> QED BY <1>2, <1>4, <2>3
<1>5. CASE Len(up[c]) = 0 /\ Len(down[c]) = 0
  BY <1>2, <1>5
<1>6. Len(up[c]) > 0 \/ (Len(up[c]) = 0 /\ (Len(down[c]) > 0 \/ Len(down[c]) = 0))
  BY <1>2
<1> QED BY <1>3, <1>4, <1>5, <1>6

LEMMA SendFInv ==
    ASSUME FInv, NEW c \in Sessions, NEW cmd \in (IF c \in Desks THEN Asked ELSE Typed), Send(c, cmd)
    PROVE  FInv'
<1> DEFINE new == [n |-> sent[c] + 1, cmd |-> cmd]
<1>1. FlightTypes /\ InFlight(c)
  BY DEF FInv
<1>2. /\ ~waiting[c] /\ sent[c] < (IF c \in Desks THEN MaxSent ELSE 1)
      /\ sent' = [sent EXCEPT ![c] = @ + 1]
      /\ waiting' = [waiting EXCEPT ![c] = TRUE]
      /\ up' = [up EXCEPT ![c] = Append(@, new)]
      /\ told' = [told EXCEPT ![c] = [asked |-> new, answers |-> 0]]
      /\ UNCHANGED <<serverVars, backlog, line, open, missed, down, cuts>>
  BY DEF Send
<1>3. /\ sent[c] \in Nat /\ missed[c] \in Nat /\ Due(c) \in Nat
      /\ up[c] \in Seq(LineSet) /\ Len(up[c]) \in Nat /\ Len(down[c]) \in Nat
      /\ \A i \in 1..Len(up[c]) : up[c][i].n \in Nat
      /\ \A i \in 1..Len(down[c]) : down[c][i].n \in Nat
  BY <1>1, Numbers
<1>a. sent[c] + 1 \in 1..MaxSent /\ cmd \in Commands
  BY <1>2, <1>3, AgentAssumption
<1>4. new \in LineSet /\ new.n = sent[c] + 1
  BY <1>a DEF LineSet
<1>5. /\ Append(up[c], new) \in Seq(LineSet) /\ Len(Append(up[c], new)) = Len(up[c]) + 1
      /\ \A i \in 1..Len(up[c]) : Append(up[c], new)[i] = up[c][i]
      /\ Append(up[c], new)[Len(up[c]) + 1] = new
  BY <1>3, <1>4, AppendProperties
<1>6. /\ up' \in [Sessions -> Seq(LineSet)] /\ up'[c] = Append(up[c], new)
      /\ sent' \in [Sessions -> 0..MaxSent] /\ sent'[c] = sent[c] + 1
      /\ waiting' \in [Sessions -> BOOLEAN] /\ waiting'[c]
      /\ \A d \in Sessions : d # c => Kept(d)
  BY <1>1, <1>2, <1>3, <1>a, <1>5 DEF FlightTypes, Kept
<1>7. /\ told' \in [Sessions -> [asked : [n : Nat, cmd : Commands], answers : Nat]]
      /\ told'[c].asked.n = sent[c] + 1 /\ told'[c].answers = 0
  BY <1>1, <1>2, <1>3, <1>a DEF FlightTypes
<1>8. FlightTypes'
  BY <1>1, <1>2, <1>6, <1>7 DEF FlightTypes, serverVars
<1>9. InFlight(c)'
  <2>1. missed'[c] = missed[c] /\ down'[c] = down[c] /\ Due(c)' = Due(c) + 1 /\ Due(c) = missed[c]
    BY <1>2, <1>3, <1>6 DEF Due
  <2>2. Len(down[c]) + Len(up[c]) <= Due(c)
    BY <1>1, FewInFlight
  <2>3. ASSUME NEW i \in 1..Len(up'[c])
        PROVE  /\ up'[c][i].n <= sent'[c]
               /\ sent'[c] + Len(down'[c]) + i <= up'[c][i].n + Due(c)'
    <3>1. CASE i = Len(up[c]) + 1
      <4>1. up'[c][i].n = sent[c] + 1
        BY <1>4, <1>5, <1>6, <3>1
      <4>2. PICK s \in Nat, l \in Nat, u \in Nat, due \in Nat :
              s = sent[c] /\ l = Len(down[c]) /\ u = Len(up[c]) /\ due = Due(c)
        BY <1>3
      <4>3. l + u <= due
        BY <2>2, <4>2
      <4>4. (s + 1) + l + (u + 1) <= (s + 1) + (due + 1)
        BY <4>3
      <4>5. /\ up'[c][i].n = s + 1 /\ sent'[c] = s + 1 /\ Len(down'[c]) = l
            /\ i = u + 1 /\ Due(c)' = due + 1
        BY <1>6, <2>1, <3>1, <4>1, <4>2
      <4> QED BY <4>4, <4>5
    <3>2. CASE i \in 1..Len(up[c])
      <4>1. up'[c][i] = up[c][i] /\ up[c][i].n \in Nat /\ i \in Nat
        BY <1>3, <1>5, <1>6, <3>2
      <4>2. up[c][i].n <= sent[c] /\ sent[c] + Len(down[c]) + i <= up[c][i].n + Due(c)
        BY <1>1, <3>2 DEF InFlight, Queue
      <4>3. /\ (sent[c] + 1) + Len(down[c]) + i <= up[c][i].n + (Due(c) + 1)
            /\ up[c][i].n <= sent[c] + 1
        BY <1>3, <4>1, <4>2, Places
      <4> QED BY <1>6, <2>1, <4>1, <4>3
    <3> QED BY <1>3, <1>5, <1>6, <3>1, <3>2
  <2>4. ASSUME NEW i \in 1..Len(down'[c])
        PROVE  down'[c][i].n <= sent'[c] /\ sent'[c] + i <= down'[c][i].n + Due(c)'
    <3>1. down'[c][i] = down[c][i] /\ down[c][i].n \in Nat /\ i \in Nat
      BY <1>3, <2>1
    <3>2. down[c][i].n <= sent[c] /\ sent[c] + i <= down[c][i].n + Due(c)
      BY <1>1, <2>1 DEF InFlight, Queue
    <3>3. (sent[c] + 1) + i <= down[c][i].n + (Due(c) + 1) /\ down[c][i].n <= sent[c] + 1
      BY <1>3, <3>1, <3>2, Places
    <3> QED BY <1>6, <2>1, <3>1, <3>3
  <2>5. Due(c)' <= sent'[c]
    <3>1. Due(c) <= sent[c]
      BY <1>1 DEF InFlight
    <3> QED BY <1>3, <1>6, <2>1, <3>1
  <2>6. Queue(c)'
    BY <2>3, <2>4 DEF Queue
  <2>7. Reported(c)'
    BY <1>6, <1>7 DEF Reported
  <2> QED BY <2>5, <2>6, <2>7 DEF InFlight
<1> QED BY <1>6, <1>8, <1>9, KeptInFlight DEF FInv

LEMMA ReceiveFInv ==
    ASSUME FInv, NEW c \in Sessions, Receive(c)
    PROVE  FInv'
<1>1. FlightTypes /\ InFlight(c)
  BY DEF FInv
<1>2. /\ waiting[c] /\ down[c] # <<>>
      /\ down' = [down EXCEPT ![c] = Tail(@)]
      /\ waiting' = [waiting EXCEPT ![c] = FALSE]
      /\ open' \in [Sessions -> BOOLEAN]
      /\ \/ UNCHANGED told
         \/ told' = [told EXCEPT ![c].answers = Head(down[c]).n]
      /\ UNCHANGED <<serverVars, backlog, line, sent, missed, up, cuts>>
  BY <1>1, ZenonT(40) DEF Receive, AfterError, Ended, FlightTypes
<1>3. /\ sent[c] \in Nat /\ missed[c] \in Nat /\ Due(c) \in Nat /\ told[c].answers \in Nat
      /\ down[c] \in Seq(AnswerSet) /\ Len(up[c]) \in Nat
      /\ \A i \in 1..Len(up[c]) : up[c][i].n \in Nat
      /\ \A i \in 1..Len(down[c]) : down[c][i].n \in Nat
  BY <1>1, Numbers
<1>4. /\ Tail(down[c]) \in Seq(AnswerSet) /\ Len(Tail(down[c])) = Len(down[c]) - 1
      /\ Len(down[c]) \in Nat \ {0} /\ 1 \in 1..Len(down[c])
      /\ \A i \in 1..Len(Tail(down[c])) : i + 1 \in 1..Len(down[c]) /\ Tail(down[c])[i] = down[c][i + 1]
      /\ Head(down[c]) = down[c][1] /\ Head(down[c]).n \in Nat
  BY <1>2, <1>3, TailParts
<1>a. Due(c) = missed[c] + 1 /\ Due(c)' = missed[c]
  BY <1>1, <1>2, <1>3 DEF Due, FlightTypes
<1>5. /\ down' \in [Sessions -> Seq(AnswerSet)] /\ down'[c] = Tail(down[c])
      /\ waiting' \in [Sessions -> BOOLEAN]
      /\ \A d \in Sessions : d # c => Kept(d)
  BY <1>1, <1>2, <1>4 DEF FlightTypes, Kept
<1>6. /\ told' \in [Sessions -> [asked : [n : Nat, cmd : Commands], answers : Nat]]
      /\ told'[c].asked = told[c].asked
      /\ told'[c].answers \in {told[c].answers, Head(down[c]).n}
  <2>1. told[c] \in [asked : [n : Nat, cmd : Commands], answers : Nat]
    BY <1>1 DEF FlightTypes
  <2>2. CASE UNCHANGED told
    BY <1>1, <2>2 DEF FlightTypes
  <2>3. CASE told' = [told EXCEPT ![c].answers = Head(down[c]).n]
    BY <1>1, <1>4, <2>1, <2>3 DEF FlightTypes
  <2> QED BY <1>2, <2>2, <2>3
<1>7. FlightTypes'
  BY <1>1, <1>2, <1>5, <1>6 DEF FlightTypes, serverVars
<1>8. Reported(c)'
  <2>1. Head(down[c]).n <= sent[c] /\ sent[c] + 1 <= Head(down[c]).n + Due(c)
    BY <1>1, <1>4 DEF InFlight, Queue
  <2>2. PICK s \in Nat, n \in Nat, m \in Nat : s = sent[c] /\ n = Head(down[c]).n /\ m = missed[c]
    BY <1>3, <1>4
  <2>3. s + 1 <= n + (m + 1)
    BY <1>a, <2>1, <2>2
  <2>4. s <= n + m
    BY <2>3
  <2>5. sent[c] <= Head(down[c]).n + missed[c]
    BY <2>2, <2>4
  <2> QED BY <1>1, <1>2, <1>6, <2>1, <2>5 DEF InFlight, Reported
<1>9. Queue(c)'
  <2>1. ASSUME NEW i \in 1..Len(down'[c])
        PROVE  down'[c][i].n <= sent[c] /\ sent[c] + i <= down'[c][i].n + Due(c)'
    <3>1. /\ i + 1 \in 1..Len(down[c]) /\ down'[c][i] = down[c][i + 1] /\ down[c][i + 1].n \in Nat
          /\ i \in Nat
      BY <1>3, <1>4, <1>5
    <3>2. down[c][i + 1].n <= sent[c] /\ sent[c] + (i + 1) <= down[c][i + 1].n + Due(c)
      BY <1>1, <3>1 DEF InFlight, Queue
    <3>3. sent[c] + i <= down[c][i + 1].n + missed[c]
      BY <1>3, <1>a, <3>1, <3>2, Places
    <3> QED BY <1>a, <3>1, <3>2, <3>3
  <2>2. ASSUME NEW i \in 1..Len(up[c])
        PROVE  up[c][i].n <= sent[c] /\ sent[c] + Len(down'[c]) + i <= up[c][i].n + Due(c)'
    <3>1. up[c][i].n \in Nat /\ i \in Nat /\ Len(down'[c]) = Len(down[c]) - 1
      BY <1>3, <1>4, <1>5
    <3>2. up[c][i].n <= sent[c] /\ sent[c] + Len(down[c]) + i <= up[c][i].n + Due(c)
      BY <1>1 DEF InFlight, Queue
    <3>3. Len(down'[c]) \in Nat
      BY <1>4, <3>1
    <3>a. /\ sent[c] \in Nat /\ missed[c] \in Nat /\ Len(down[c]) \in Nat /\ i \in Nat
          /\ up[c][i].n \in Nat /\ Due(c) = missed[c] + 1
      BY <1>3, <1>4, <1>a, <3>1
    <3>b. PICK s \in Nat, l \in Nat, k \in Nat, n \in Nat, m \in Nat :
            /\ s = sent[c] /\ l = Len(down'[c]) /\ k = i /\ n = up[c][i].n /\ m = missed[c]
      BY <3>3, <3>a
    <3>c. s + (l + 1) + k <= n + (m + 1)
      <4>1. Len(down[c]) = l + 1
        BY <3>1, <3>a, <3>b
      <4> QED BY <3>2, <3>a, <3>b, <4>1
    <3>d. s + l + k <= n + m
      BY <3>c
    <3>4. sent[c] + Len(down'[c]) + i <= up[c][i].n + missed[c]
      BY <3>b, <3>d
    <3> QED BY <1>a, <3>2, <3>4
  <2> QED BY <1>2, <2>1, <2>2 DEF Queue
<1>10. Due(c)' <= sent'[c]
  BY <1>1, <1>2, <1>3, <1>a DEF InFlight
<1> QED BY <1>5, <1>7, <1>8, <1>9, <1>10, KeptInFlight DEF FInv, InFlight

\* What was waited for is missed: the sum of the two stays.
LEMMA GiveUpFInv ==
    ASSUME FInv, NEW c \in Sessions, GiveUp(c)
    PROVE  FInv'
<1>1. FlightTypes /\ InFlight(c)
  BY DEF FInv
<1>2. /\ waiting[c] /\ waiting' = [waiting EXCEPT ![c] = FALSE]
      /\ open' \in [Sessions -> BOOLEAN]
      /\ missed' = [missed EXCEPT ![c] = @ + 1]
      /\ UNCHANGED <<serverVars, backlog, line, sent, told, up, down, cuts>>
  BY <1>1, ZenonT(40) DEF GiveUp, AfterError, Ended, FlightTypes
<1>3. /\ sent[c] \in 0..MaxSent /\ missed[c] \in Nat /\ told[c].answers \in Nat
      /\ missed'[c] = missed[c] + 1 /\ Due(c) = missed[c] + 1 /\ Due(c)' = missed[c] + 1
  BY <1>1, <1>2, Numbers DEF FlightTypes, Due
<1>4. missed[c] + 1 <= sent[c]
  BY <1>1, <1>3 DEF InFlight
<1>5. missed' \in [Sessions -> 0..MaxSent] /\ waiting' \in [Sessions -> BOOLEAN]
  BY <1>1, <1>2, <1>3, <1>4, AgentAssumption DEF FlightTypes
<1>6. FlightTypes'
  BY <1>1, <1>2, <1>5 DEF FlightTypes, serverVars
<1>7. Queue(c)'
  BY <1>1, <1>2, <1>3 DEF InFlight, Queue
<1>8. Reported(c)'
  BY <1>1, <1>2, <1>3, AgentAssumption DEF InFlight, Reported
<1>9. Due(c)' <= sent'[c]
  BY <1>2, <1>3, <1>4
<1>10. \A d \in Sessions : d # c => Kept(d)
  BY <1>1, <1>2 DEF FlightTypes, Kept
<1> QED BY <1>6, <1>7, <1>8, <1>9, <1>10, KeptInFlight DEF FInv, InFlight

LEMMA ClientFInv ==
    ASSUME FInv, NEW c \in Sessions, Client(c)
    PROVE  FInv'
<1>1. CASE Connect(c) \/ HangUp(c)
  <2>0. FlightTypes
    BY DEF FInv
  <2>1. FlightTypes'
    <3>1. CASE Connect(c)
      BY <2>0, <3>1 DEF Connect, FlightTypes, serverVars
    <3>2. CASE HangUp(c)
      BY <2>0, <3>2 DEF HangUp, FlightTypes, serverVars
    <3> QED BY <1>1, <3>1, <3>2
  <2>2. \A d \in Sessions : Kept(d)
    BY <1>1 DEF Connect, HangUp, Kept
  <2> QED BY <2>1, <2>2, KeptInFlight DEF FInv
<1> QED BY <1>1, SendFInv, ReceiveFInv, GiveUpFInv DEF Client

\* The server takes a line; it answers it or not, and drops the connection or not.
LEMMA ServedFInv ==
    ASSUME FInv, at = "serve", NEW c \in Sessions, c = serving,
           NEW answered \in BOOLEAN, NEW left \in BOOLEAN, NEW answer \in Kinds,
           up[serving] # <<>>,
           up' = [up EXCEPT ![serving] = Tail(@)],
           down' = IF answered
                     THEN [down EXCEPT ![serving] = Append(@, [n |-> Head(up[serving]).n, kind |-> answer])]
                     ELSE down,
           IF left THEN Leave ELSE UNCHANGED <<at, serving, line>>,
           running' \in BOOLEAN, cuts' \in 0..MaxCuts,
           UNCHANGED <<backlog, clientVars>>
    PROVE  FInv'
<1> DEFINE head == Head(up[c])
           reply == [n |-> head.n, kind |-> answer]
<1>1. /\ FlightTypes /\ InFlight(c)
      /\ up[c] \in Seq(LineSet) /\ down[c] \in Seq(AnswerSet)
      /\ sent[c] \in Nat /\ Due(c) \in Nat
      /\ \A i \in 1..Len(up[c]) : up[c][i].n \in Nat
  BY Numbers DEF FInv
<1>2. /\ Tail(up[c]) \in Seq(LineSet) /\ Len(Tail(up[c])) = Len(up[c]) - 1
      /\ \A i \in 1..Len(Tail(up[c])) : i + 1 \in 1..Len(up[c]) /\ Tail(up[c])[i] = up[c][i + 1]
      /\ head = up[c][1] /\ head \in LineSet /\ Len(up[c]) \in Nat \ {0}
  BY <1>1, TailParts
<1>3. reply \in AnswerSet /\ reply.n = up[c][1].n /\ up[c][1].n \in Nat /\ 1 \in 1..Len(up[c])
  BY <1>1, <1>2 DEF LineSet, AnswerSet
<1>4. /\ Append(down[c], reply) \in Seq(AnswerSet) /\ Len(Append(down[c], reply)) = Len(down[c]) + 1
      /\ \A i \in 1..Len(down[c]) : Append(down[c], reply)[i] = down[c][i]
      /\ Append(down[c], reply)[Len(down[c]) + 1] = reply
      /\ Len(down[c]) \in Nat
  BY <1>1, <1>3, AppendProperties
<1>5. /\ up' \in [Sessions -> Seq(LineSet)] /\ up'[c] = Tail(up[c])
      /\ \A d \in Sessions : d # c => up'[d] = up[d]
  BY <1>1, <1>2 DEF FlightTypes
<1>6. /\ down' \in [Sessions -> Seq(AnswerSet)]
      /\ down'[c] = IF answered THEN Append(down[c], reply) ELSE down[c]
      /\ \A d \in Sessions : d # c => down'[d] = down[d]
  BY <1>1, <1>4 DEF FlightTypes
<1>7. /\ line' \in [Sessions -> {"new", "queued", "served", "over"}]
      /\ (at' = "serve" /\ serving' = c) \/ (at' = "check" /\ serving' = Nobody)
  BY <1>1 DEF Leave, FlightTypes
<1>8. FlightTypes'
  BY <1>1, <1>5, <1>6, <1>7, AgentAssumption DEF FlightTypes, clientVars
<1>9. /\ UNCHANGED <<waiting, sent, told, missed>> /\ Due(c)' = Due(c)
  BY DEF clientVars, Due
<1>10. Queue(c)'
  <2>1. ASSUME NEW i \in 1..Len(up[c])
        PROVE  /\ up[c][i].n \in Nat /\ up[c][i].n <= sent[c]
               /\ sent[c] + Len(down[c]) + i <= up[c][i].n + Due(c)
    BY <1>1 DEF InFlight, Queue
  <2>2. ASSUME NEW i \in 1..Len(down[c])
        PROVE  /\ down[c][i].n <= sent[c]
               /\ sent[c] + i <= down[c][i].n + Due(c)
    BY <1>1 DEF InFlight, Queue
  <2>3. ASSUME NEW i \in 1..Len(up'[c])
        PROVE  /\ up'[c][i].n <= sent[c]
               /\ sent[c] + Len(down'[c]) + i <= up'[c][i].n + Due(c)
    <3>1. i + 1 \in 1..Len(up[c]) /\ up'[c][i] = up[c][i + 1] /\ i \in Nat
      BY <1>2, <1>5
    <3>2. /\ up[c][i + 1].n \in Nat /\ up[c][i + 1].n <= sent[c]
          /\ sent[c] + Len(down[c]) + (i + 1) <= up[c][i + 1].n + Due(c)
      BY <2>1, <3>1
    <3>3. Len(down'[c]) \in Nat /\ Len(down'[c]) <= Len(down[c]) + 1
      BY <1>4, <1>6
    <3>a. sent[c] \in Nat /\ Due(c) \in Nat /\ Len(down[c]) \in Nat /\ i \in Nat
      BY <1>1, <1>4, <3>1
    <3>b. PICK s \in Nat, l \in Nat, m \in Nat, k \in Nat, n \in Nat, due \in Nat :
            /\ s = sent[c] /\ l = Len(down[c]) /\ m = Len(down'[c]) /\ k = i
            /\ n = up[c][i + 1].n /\ due = Due(c)
      BY <3>2, <3>3, <3>a
    <3>c. s + l + (k + 1) <= n + due /\ m <= l + 1
      BY <3>2, <3>3, <3>b
    <3>d. s + m + k <= n + due
      BY <3>c
    <3>4. sent[c] + Len(down'[c]) + i <= up[c][i + 1].n + Due(c)
      BY <3>b, <3>d
    <3> QED BY <3>1, <3>2, <3>4
  <2>4. ASSUME NEW i \in 1..Len(down'[c])
        PROVE  /\ down'[c][i].n <= sent[c]
               /\ sent[c] + i <= down'[c][i].n + Due(c)
    <3>1. CASE i \in 1..Len(down[c])
      <4>1. down'[c][i] = down[c][i]
        BY <1>4, <1>6, <3>1
      <4> QED BY <2>2, <3>1, <4>1
    <3>2. CASE i = Len(down[c]) + 1 /\ answered
      <4>1. down'[c][i] = reply /\ 1 \in 1..Len(up[c])
        BY <1>2, <1>4, <1>6, <3>2
      <4>2. /\ up[c][1].n <= sent[c]
            /\ sent[c] + Len(down[c]) + 1 <= up[c][1].n + Due(c)
        BY <2>1, <4>1
      <4>3. PICK s \in Nat, l \in Nat, n \in Nat, due \in Nat :
              s = sent[c] /\ l = Len(down[c]) /\ n = up[c][1].n /\ due = Due(c)
        BY <1>1, <1>3, <1>4
      <4>4. n <= s /\ s + l + 1 <= n + due
        BY <4>2, <4>3
      <4>5. s + (l + 1) <= n + due
        BY <4>4
      <4>6. sent[c] + i <= up[c][1].n + Due(c)
        BY <3>2, <4>3, <4>5
      <4> QED BY <1>3, <4>1, <4>2, <4>6
    <3> QED BY <1>4, <1>6, <3>1, <3>2
  <2> QED BY <1>9, <2>3, <2>4 DEF Queue
<1>11. InFlight(c)'
  BY <1>1, <1>9, <1>10 DEF InFlight, Reported
<1>12. \A d \in Sessions : d # c => Kept(d)
  BY <1>5, <1>6, <1>9 DEF Kept
<1> QED BY <1>8, <1>11, <1>12, KeptInFlight DEF FInv

LEMMA ServerFInv ==
    ASSUME FInv, Server
    PROVE  FInv'
<1>0. FlightTypes
  BY DEF FInv
<1>1. ASSUME UNCHANGED <<clientVars, up, down>>, FlightTypes'
      PROVE  FInv'
  <2>1. \A d \in Sessions : Kept(d)
    BY <1>1 DEF Kept, clientVars
  <2> QED BY <1>1, <2>1, KeptInFlight DEF FInv
<1>2. CASE Accept
  <2>1. Head(backlog) \in Sessions /\ Tail(backlog) \in Seq(Sessions)
    BY <1>0, <1>2, TailParts DEF Accept, FlightTypes
  <2>2. FlightTypes'
    BY <1>0, <1>2, <2>1, AgentAssumption DEF Accept, FlightTypes, clientVars
  <2> QED BY <1>1, <1>2, <2>2 DEF Accept
<1>3. CASE Serve
  <2>1. PICK answer \in Kinds :
          \/ /\ down' = [down EXCEPT ![serving] = Append(@, [n |-> Head(up[serving]).n, kind |-> answer])]
             /\ IF answer = "Ok" /\ SaysShutdown(Head(up[serving]).cmd)
                  THEN running' = FALSE /\ Leave
                  ELSE UNCHANGED <<serverVars, line>>
          \/ /\ ~open[serving]
             /\ Leave /\ UNCHANGED <<running, down>>
    BY <1>3 DEF Serve
  <2>2. /\ at = "serve" /\ up[serving] # <<>> /\ up' = [up EXCEPT ![serving] = Tail(@)]
        /\ UNCHANGED <<backlog, clientVars, cuts>>
    BY <1>3 DEF Serve
  <2>3. running \in BOOLEAN /\ cuts \in 0..MaxCuts
    BY <1>0 DEF FlightTypes
  <2>4. PICK c \in Sessions : c = serving
    BY <1>0, <2>2 DEF FlightTypes
  <2>5. CASE /\ down' = [down EXCEPT ![serving] = Append(@, [n |-> Head(up[serving]).n, kind |-> answer])]
             /\ running' = FALSE /\ Leave
    BY <2>2, <2>3, <2>4, <2>5, ServedFInv
  <2>6. CASE /\ down' = [down EXCEPT ![serving] = Append(@, [n |-> Head(up[serving]).n, kind |-> answer])]
             /\ UNCHANGED <<serverVars, line>>
    BY <2>2, <2>3, <2>4, <2>6, ServedFInv DEF serverVars
  <2>7. CASE Leave /\ UNCHANGED <<running, down>>
    BY <2>2, <2>3, <2>4, <2>7, ServedFInv
  <2> QED BY <2>1, <2>5, <2>6, <2>7
<1>4. CASE Cut
  <2>1. cuts' \in 0..MaxCuts
    BY <1>0, <1>4, AgentAssumption DEF Cut, FlightTypes
  <2>2. running \in BOOLEAN /\ "Ok" \in Kinds
    BY <1>0 DEF FlightTypes, Kinds
  <2>3. PICK c \in Sessions : c = serving
    BY <1>0, <1>4 DEF Cut, FlightTypes
  <2> QED BY <1>4, <2>1, <2>2, <2>3, ServedFInv DEF Cut, serverVars
<1>5. CASE ReadEnds
  <2>1. FlightTypes'
    BY <1>0, <1>5, AgentAssumption DEF ReadEnds, Leave, FlightTypes, clientVars
  <2> QED BY <1>1, <1>5, <2>1 DEF ReadEnds
<1>6. CASE Quit
  <2>1. FlightTypes'
    BY <1>0, <1>6 DEF Quit, FlightTypes, clientVars
  <2> QED BY <1>1, <1>6, <2>1 DEF Quit
<1>7. CASE AcceptNone \/ Check
  <2>1. FlightTypes'
    BY <1>0, <1>7 DEF AcceptNone, Check, FlightTypes, clientVars
  <2> QED BY <1>1, <1>7, <2>1 DEF AcceptNone, Check
<1> QED BY <1>2, <1>3, <1>4, <1>5, <1>6, <1>7 DEF Server

LEMMA FlightKept == Spec => []FInv
<1>1. Init => FInv
  <2> SUFFICES ASSUME Init PROVE FInv
    OBVIOUS
  <2>1. FlightTypes
    BY AgentAssumption DEF Init, FlightTypes, NoRequest, Commands
  <2> QED BY <2>1 DEF Init, FInv, InFlight, Queue, Reported, Due, NoRequest
<1>2. FInv /\ [Next]_vars => FInv'
  <2> SUFFICES ASSUME FInv, [Next]_vars PROVE FInv'
    OBVIOUS
  <2>1. ASSUME NEW k \in Children, ChildEnds(k) PROVE UNCHANGED <<serverVars, backlog, line, clientVars, up, down, cuts>>
    BY <2>1 DEF ChildEnds
  <2>2. CASE UNCHANGED <<serverVars, backlog, line, clientVars, up, down, cuts>>
    <3>1. \A c \in Sessions : Kept(c)
      BY <2>2 DEF Kept, clientVars
    <3> QED BY <2>2, <3>1, KeptInFlight DEF FInv, FlightTypes, serverVars, clientVars
  <2> QED BY <2>1, <2>2, ServerFInv, ClientFInv DEF Next, vars
<1> QED BY <1>1, <1>2, PTL DEF Spec

\* A success reported to the user answers his command, or one before it, no more
\* commands back than reads of this connection have timed out (client.rs:
\* connect, send_command; remote_lab.rs: a session goes on after an error), whenever
\* a read times out, whatever lines are cut and answers come late.
THEOREM NeverLaterThanMissed == Spec => []LateByMissed
<1>1. ASSUME FInv, NEW c \in Sessions, told[c].answers # 0
      PROVE  told[c].answers <= told[c].asked.n /\ told[c].asked.n - told[c].answers <= missed[c]
  <2>1. told[c].answers \in Nat /\ sent[c] \in Nat /\ missed[c] \in Nat
    BY <1>1, AgentAssumption DEF FInv, FlightTypes
  <2>2. /\ told[c].asked.n = sent[c] /\ told[c].answers <= sent[c]
        /\ sent[c] <= told[c].answers + missed[c]
    BY <1>1 DEF FInv, InFlight, Reported
  <2> QED BY <2>1, <2>2
<1>2. FInv => LateByMissed
  BY <1>1 DEF LateByMissed
<1> QED BY <1>2, FlightKept, PTL

\* The types of the agent (server.rs: AgentServer; client.rs: AgentClient).
THEOREM AgentTypes == Spec => []TypeOK
<1>1. FInv /\ TaskInv => TypeOK
  BY DEF FInv, FlightTypes, LineSet, AnswerSet, TaskInv, TaskTypes, RunningHas, TypeOK
<1> QED BY <1>1, FlightKept, TasksKept, PTL
=============================================================================
