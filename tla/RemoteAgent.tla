---------------------------- MODULE RemoteAgent ----------------------------
(***************************************************************************)
(* The remote agent (r4w-core/src/agent): an AgentServer that keeps a      *)
(* transmitting and a receiving child process, and AgentClient sessions    *)
(* that command it over TCP.  The server is one thread: it serves one      *)
(* connection to its end while others wait in the backlog of the listener, *)
(* and looks after its children only between two connections.              *)
(*                                                                         *)
(* A session is one connection.  The command line opens one for a single   *)
(* command; the GUI keeps one open and goes on with it after an error.     *)
(***************************************************************************)
EXTENDS Naturals, Sequences, FiniteSets

CONSTANTS
    Desks,     \* sessions of the GUI
    Shells,    \* sessions of the command line
    Asked,     \* the commands the GUI gives
    Typed,     \* the commands given at the command line
    MaxSent,   \* bound: commands of one GUI session
    MaxChild,  \* bound: processes spawned
    MaxCuts,   \* bound: lines cut by the read timeout of the server
    Stays      \* the user of the GUI never disconnects

Sessions == Desks \cup Shells
Tasks    == {"tx", "rx"}
Children == 1..MaxChild
NoChild  == 0
Nobody   == "nobody"

Kinds    == {"Ok", "Error", "Status", "Pong"}   \* of answers
Commands == {"StartTx", "StartTxShutdown", "StopTx", "StartRx", "StopRx", "Status", "Ping", "Shutdown"}

ASSUME AgentAssumption ==
    /\ Desks \cap Shells = {} /\ Nobody \notin Sessions
    /\ Asked \subseteq Commands /\ Typed \subseteq Commands
    /\ MaxSent \in Nat \ {0} /\ MaxChild \in Nat /\ MaxCuts \in Nat
    /\ Stays \in BOOLEAN

VARIABLES
    running,   \* the flag of the server
    at,        \* where its thread is
    serving,   \* the session it serves
    backlog,   \* connections not accepted yet
    table,     \* tx_process and rx_process
    status,    \* tx_status and rx_status
    life,      \* what became of each child
    line,      \* a connection as the server has it
    open,      \* whether the client still holds its end
    waiting,   \* whether the client waits for an answer
    sent,      \* commands a session has sent
    up,        \* lines sent and not read yet
    down,      \* answers sent and not read yet
    told,      \* the command given last, and the one whose success was reported as its own
    missed,    \* answers a session did not wait for
    cuts

serverVars == <<running, at, serving>>
taskVars   == <<table, status, life>>
clientVars == <<open, waiting, sent, told, missed>>
vars == <<serverVars, backlog, taskVars, line, clientVars, up, down, cuts>>

NoRequest == [n |-> 0, cmd |-> "Ping"]

\* The server has bound its port and set the flag; new() left no task.
Init ==
    /\ running = TRUE /\ at = "accept" /\ serving = Nobody
    /\ backlog = <<>>
    /\ table = [t \in Tasks |-> NoChild]
    /\ status = [t \in Tasks |-> "Idle"]
    /\ life = [k \in Children |-> "unborn"]
    /\ line = [c \in Sessions |-> "new"]
    /\ open = [c \in Sessions |-> FALSE]
    /\ waiting = [c \in Sessions |-> FALSE]
    /\ sent = [c \in Sessions |-> 0]
    /\ up = [c \in Sessions |-> <<>>]
    /\ down = [c \in Sessions |-> <<>>]
    /\ told = [c \in Sessions |-> [asked |-> NoRequest, answers |-> 0]]
    /\ missed = [c \in Sessions |-> 0]
    /\ cuts = 0

-----------------------------------------------------------------------------
(* Child processes *)

\* A child ends by itself, well or not.
ChildEnds(k) ==
    /\ life[k] = "alive"
    /\ \E end \in {"succeeded", "failed"} : life' = [life EXCEPT ![k] = end]
    /\ UNCHANGED <<serverVars, backlog, table, status, line, clientVars, up, down, cuts>>

\* stop_process kills the child and waits for it.
Killed(ts) == [k \in Children |-> IF \E t \in ts : table[t] = k THEN "reaped" ELSE life[k]]

\* Mutant: the status stays what it was.
LeavesStatus(ts) ==
    /\ life' = Killed(ts)
    /\ table' = [t \in Tasks |-> IF t \in ts THEN NoChild ELSE table[t]]
    /\ UNCHANGED status

StopProcesses(ts) ==
    /\ life' = Killed(ts)
    /\ table' = [t \in Tasks |-> IF t \in ts THEN NoChild ELSE table[t]]
    /\ status' = [t \in Tasks |-> IF t \in ts THEN "Idle" ELSE status[t]]

Unborn == {k \in Children : life[k] = "unborn"}

Spawned(t, before) ==
    \E k \in Unborn :
        /\ \A j \in Unborn : k <= j
        /\ life' = [before EXCEPT ![k] = "alive"]
        /\ table' = [table EXCEPT ![t] = k]
        /\ status' = [status EXCEPT ![t] = "Running"]

\* Mutant: a start that does not stop the process before it.
StartOver(t, answer) ==
    /\ answer = "Ok"
    /\ Spawned(t, life)

\* cmd_start_tx and cmd_start_rx; the spawn may fail.
Start(t, answer) ==
    \/ answer = "Ok" /\ Spawned(t, Killed({t}))
    \/ /\ answer = "Error"
       /\ life' = Killed({t})
       /\ table' = [table EXCEPT ![t] = NoChild]
       /\ status' = [status EXCEPT ![t] = "Failed"]

\* What each command stops, starts or asks for.
Stops  == [StopTx |-> {"tx"}, StopRx |-> {"rx"}, Shutdown |-> Tasks]
Starts == [StartTx |-> "tx", StartTxShutdown |-> "tx", StartRx |-> "rx"]
Asks   == [Status |-> "Status", Ping |-> "Pong"]

\* handle_command.
Handle(cmd, answer) ==
    \/ cmd \in DOMAIN Starts /\ Start(Starts[cmd], answer)
    \/ cmd \in DOMAIN Stops /\ answer = "Ok" /\ StopProcesses(Stops[cmd])
    \/ cmd \in DOMAIN Asks /\ answer = Asks[cmd] /\ UNCHANGED taskVars

-----------------------------------------------------------------------------
(* The thread of the server *)

Accept ==
    /\ at = "accept" /\ running /\ backlog # <<>>
    /\ at' = "serve" /\ serving' = Head(backlog)
    /\ backlog' = Tail(backlog)
    /\ line' = [line EXCEPT ![Head(backlog)] = "served"]
    /\ UNCHANGED <<running, taskVars, clientVars, up, down, cuts>>

\* Nobody waits: sleep a bit.
AcceptNone ==
    /\ at = "accept" /\ running /\ backlog = <<>>
    /\ at' = "check"
    /\ UNCHANGED <<running, serving, backlog, taskVars, line, clientVars, up, down, cuts>>

\* The handler returns: the connection is dropped.
Leave ==
    /\ at' = "check" /\ serving' = Nobody
    /\ line' = [line EXCEPT ![serving] = "over"]

\* Mutant: the word is looked for in the answer, "Shutting down".
InAnswer(cmd) == FALSE

\* The line, not the command, is searched for the word.
SaysShutdown(cmd) == cmd \in {"Shutdown", "StartTxShutdown"}

\* One turn of the loop in handle_connection.  When the client has gone the
\* write may fail, and the handler returns before it looks for a shutdown.
Serve ==
    /\ at = "serve" /\ up[serving] # <<>>
    /\ up' = [up EXCEPT ![serving] = Tail(@)]
    /\ \E answer \in Kinds :
        /\ Handle(Head(up[serving]).cmd, answer)
        /\ \/ /\ down' = [down EXCEPT ![serving] = Append(@, [n |-> Head(up[serving]).n, kind |-> answer])]
              /\ IF answer = "Ok" /\ SaysShutdown(Head(up[serving]).cmd)
                   THEN running' = FALSE /\ Leave
                   ELSE UNCHANGED <<serverVars, line>>
           \/ /\ ~open[serving]
              /\ Leave /\ UNCHANGED <<running, down>>
    /\ UNCHANGED <<backlog, clientVars, cuts>>

\* The read times out between a line and its newline, which the client writes
\* apart: what was read is dropped and the newline, an empty line, is skipped.
Cut ==
    /\ at = "serve" /\ up[serving] # <<>> /\ cuts < MaxCuts
    /\ up' = [up EXCEPT ![serving] = Tail(@)]
    /\ cuts' = cuts + 1
    /\ UNCHANGED <<serverVars, backlog, taskVars, line, clientVars, down>>

\* The end of the stream, or an error that loses what was not read yet.
ReadEnds ==
    /\ at = "serve" /\ ~open[serving]
    /\ Leave
    /\ UNCHANGED <<running, backlog, taskVars, clientVars, up, down, cuts>>

Exited(t) == table[t] # NoChild /\ life[table[t]] \in {"succeeded", "failed"}

\* Mutant: the receiver is not looked after.
Checked(t) == t = "tx" /\ Exited(t)

Noticed(t) == Exited(t)

\* check_processes; try_wait may fail, and then the child stays in the table.
Check ==
    /\ at = "check" /\ at' = "accept"
    /\ \E errs \in SUBSET {t \in Tasks : table[t] # NoChild} :
        LET reaped == {t \in Tasks \ errs : Noticed(t)}
        IN  /\ status' = [t \in Tasks |->
                  CASE t \in errs   -> "Failed"
                    [] t \in reaped -> IF life[table[t]] = "failed" THEN "Failed" ELSE "Idle"
                    [] OTHER        -> status[t]]
            /\ table' = [t \in Tasks |-> IF t \in reaped THEN NoChild ELSE table[t]]
            /\ life' = Killed(reaped)
    /\ UNCHANGED <<running, serving, backlog, line, clientVars, up, down, cuts>>

\* The flag is down: stop_all and return.  The listener goes with the process.
Quit ==
    /\ at = "accept" /\ ~running
    /\ at' = "done"
    /\ StopProcesses(Tasks)
    /\ backlog' = <<>>
    /\ line' = [c \in Sessions |-> IF line[c] = "queued" THEN "over" ELSE line[c]]
    /\ UNCHANGED <<running, serving, clientVars, up, down, cuts>>

Server == Accept \/ AcceptNone \/ Serve \/ Cut \/ ReadEnds \/ Check \/ Quit

-----------------------------------------------------------------------------
(* The clients *)

Connect(c) ==
    /\ line[c] = "new" /\ at # "done"
    /\ line' = [line EXCEPT ![c] = "queued"]
    /\ backlog' = Append(backlog, c)
    /\ open' = [open EXCEPT ![c] = TRUE]
    /\ UNCHANGED <<serverVars, taskVars, waiting, sent, told, missed, up, down, cuts>>

\* The GUI asks for the status to see that the connection works.
Send(c, cmd) ==
    /\ open[c] /\ ~waiting[c] /\ line[c] # "over"
    /\ sent[c] < (IF c \in Desks THEN MaxSent ELSE 1)
    /\ c \in Desks /\ sent[c] = 0 => cmd = "Status"
    /\ sent' = [sent EXCEPT ![c] = @ + 1]
    /\ waiting' = [waiting EXCEPT ![c] = TRUE]
    /\ up' = [up EXCEPT ![c] = Append(@, [n |-> sent[c] + 1, cmd |-> cmd])]
    /\ told' = [told EXCEPT ![c] = [asked |-> [n |-> sent[c] + 1, cmd |-> cmd], answers |-> 0]]
    /\ UNCHANGED <<serverVars, backlog, taskVars, line, open, missed, down, cuts>>

Fits(cmd, kind) ==
    CASE cmd = "Status" -> kind = "Status"
      [] cmd = "Ping"   -> kind = "Pong"
      [] OTHER          -> kind = "Ok"

\* The GUI ends a session with a shutdown, whatever it is answered.
Ended(c) == c \in Desks /\ told[c].asked.cmd = "Shutdown"

\* What the user's program does after an error: the command line ends, the GUI
\* drops a connection that did not get its first answer and keeps another.
AfterError(c) ==
    /\ open' = [open EXCEPT ![c] = c \in Desks /\ sent[c] > 1 /\ ~Ended(c)]
    /\ waiting' = [waiting EXCEPT ![c] = FALSE]

\* send_command reads the next line, whatever it answers.
Receive(c) ==
    /\ waiting[c] /\ down[c] # <<>>
    /\ down' = [down EXCEPT ![c] = Tail(@)]
    /\ IF Fits(told[c].asked.cmd, Head(down[c]).kind)
         THEN /\ told' = [told EXCEPT ![c].answers = Head(down[c]).n]
              /\ waiting' = [waiting EXCEPT ![c] = FALSE]
              /\ open' = [open EXCEPT ![c] = ~Ended(c)]
         ELSE AfterError(c) /\ UNCHANGED told
    /\ UNCHANGED <<serverVars, backlog, taskVars, line, sent, missed, up, cuts>>

\* Mutant: a command whose read timed out is sent again.
GiveUpOrRetry(c) ==
    /\ waiting[c]
    /\ \/ /\ AfterError(c)
          /\ missed' = [missed EXCEPT ![c] = @ + 1]
          /\ UNCHANGED up
       \/ /\ line[c] # "over" /\ up[c] = <<>> /\ Len(down[c]) < 2
          /\ up' = [up EXCEPT ![c] = <<told[c].asked>>]
          /\ UNCHANGED <<open, waiting, missed>>
    /\ UNCHANGED <<serverVars, backlog, taskVars, line, sent, told, down, cuts>>

\* The read of the client times out or fails, wherever the command or its
\* answer is; the answer may still come.
GiveUp(c) ==
    /\ waiting[c]
    /\ AfterError(c)
    /\ missed' = [missed EXCEPT ![c] = @ + 1]
    /\ UNCHANGED <<serverVars, backlog, taskVars, line, sent, told, up, down, cuts>>

\* A program may also connect only to see whether the agent can be reached.
HangUp(c) ==
    /\ open[c] /\ ~waiting[c]
    /\ c \in Desks => ~Stays
    /\ open' = [open EXCEPT ![c] = FALSE]
    /\ UNCHANGED <<serverVars, backlog, taskVars, line, waiting, sent, told, missed, up, down, cuts>>

Client(c) ==
    \/ Connect(c) \/ Receive(c) \/ GiveUp(c) \/ HangUp(c)
    \/ \E cmd \in (IF c \in Desks THEN Asked ELSE Typed) : Send(c, cmd)

Next == Server \/ (\E k \in Children : ChildEnds(k)) \/ (\E c \in Sessions : Client(c))

Spec == Init /\ [][Next]_vars

\* The server goes on; a client that waits gets its answer or gives up, and a
\* client with nothing to do hangs up, unless its user stays.
FairSpec ==
    /\ Spec
    /\ WF_vars(Server)
    /\ \A c \in Sessions : WF_vars(Receive(c) \/ GiveUp(c)) /\ WF_vars(HangUp(c))

-----------------------------------------------------------------------------
(* Properties *)

Lives == {"unborn", "alive", "succeeded", "failed", "reaped"}

\* Types, and how they hang together: a task shown as running has a process.
TypeOK ==
    /\ running \in BOOLEAN /\ at \in {"accept", "serve", "check", "done"}
    /\ serving \in Sessions \cup {Nobody} /\ (serving = Nobody <=> at # "serve")
    /\ backlog \in Seq(Sessions)
    /\ table \in [Tasks -> Children \cup {NoChild}]
    /\ status \in [Tasks -> {"Idle", "Running", "Failed"}]
    /\ \A t \in Tasks : status[t] = "Running" => table[t] # NoChild
    /\ life \in [Children -> Lives]
    /\ line \in [Sessions -> {"new", "queued", "served", "over"}]
    /\ open \in [Sessions -> BOOLEAN] /\ waiting \in [Sessions -> BOOLEAN]
    /\ sent \in [Sessions -> 0..MaxSent]
    /\ up \in [Sessions -> Seq([n : 1..MaxSent, cmd : Commands])]
    /\ down \in [Sessions -> Seq([n : 1..MaxSent, kind : Kinds])]
    /\ missed \in [Sessions -> 0..MaxSent] /\ cuts \in 0..MaxCuts

\* Every process that was spawned and not waited for is in the table, each
\* under one task: none runs on that no command can stop.
NoneLost ==
    \A k \in Children :
        life[k] \notin {"unborn", "reaped"} <=> \E t \in Tasks : table[t] = k

\* A success reported to the user answers his command, or one before it that is
\* no more commands back than answers were missed on the connection: until a
\* read times out answers match, and an answer that was not waited for shifts
\* those after it by one, never by more.
LateByMissed ==
    \A c \in Sessions : LET r == told[c] IN
        r.answers # 0 => r.answers <= r.asked.n /\ r.asked.n - r.answers <= missed[c]

\* A process that has ended is not shown as running for ever.
ExitNoticed ==
    \A t \in Tasks : []<>~(Exited(t) /\ status[t] = "Running")

\* A shutdown whose own answer reached the client ends the server, and no process
\* outlives it.
ShutdownEnds ==
    \A c \in Sessions :
        told[c].asked.cmd = "Shutdown" /\ told[c].answers = told[c].asked.n
            ~> at = "done" /\ \A k \in Children : life[k] \in {"unborn", "reaped"}
=============================================================================
