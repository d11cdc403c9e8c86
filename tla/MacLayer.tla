------------------------------ MODULE MacLayer ------------------------------
(***************************************************************************)
(* The CSMA/CA layer of r4w-core/src/mesh/mac.rs, as operators on the      *)
(* record of one MacLayer.  What the code reads from the clock comes in as *)
(* a parameter: waited says that the waiting time (the DIFS, or the slots  *)
(* of the back-off) is over.  The air time used in the utilization window  *)
(* is counted in transmissions.                                            *)
(***************************************************************************)
EXTENDS Integers, Sequences

CONSTANTS
    QueueLimit,   \* max_queue_size
    Slots,        \* bound: the largest back-off drawn, in slots
    MaxAttempts,  \* max_backoff_attempts
    AirBudget     \* transmissions in the window that reach target_utilization

ASSUME MacAssumption ==
    /\ QueueLimit \in Nat /\ Slots \in Nat
    /\ MaxAttempts \in Nat \ {0} /\ AirBudget \in Nat \ {0}

\* started says that the back-off has a start_time.  Nothing in the repository
\* calls rx_start, rx_complete and collision, so Receiving is never entered.
MacStates == {"Idle", "Busy", "Backoff", "Transmitting"}

NewMac == [state |-> "Idle", queue |-> <<>>, started |-> FALSE, slots |-> 0,
           attempts |-> 0, airtime |-> 0]

\* Mutant: one packet too many is taken.
HasRoomAtLimit(mac) == Len(mac.queue) <= QueueLimit

HasRoom(mac) == Len(mac.queue) < QueueLimit

\* queue_tx; QueueFull leaves the queue as it is.
QueueTx(mac, packet) ==
    IF HasRoom(mac) THEN [mac EXCEPT !.queue = Append(@, packet)] ELSE mac

BackoffReset(mac) == [mac EXCEPT !.started = FALSE, !.slots = 0, !.attempts = 0]

\* Mutant: a busy channel is noted also while the own transmission goes on.
SensedAlways(mac, busy) == IF busy THEN [mac EXCEPT !.state = "Busy"] ELSE mac

Sensed(mac, busy) ==
    IF busy /\ mac.state # "Transmitting" THEN [mac EXCEPT !.state = "Busy"] ELSE mac

Decision(mac, decision) == [mac |-> mac, decision |-> decision]

WhenIdle(mac, waited) ==
    CASE mac.airtime >= AirBudget -> Decision(mac, "DutyCycleLimit")
      [] mac.airtime < AirBudget /\ ~waited -> Decision(mac, "WaitDifs")
      [] mac.airtime < AirBudget /\ waited /\ mac.queue = <<>> -> Decision(mac, "NothingToSend")
      [] OTHER -> Decision(mac, "TransmitNow")

\* A back-off starts only where none was started before.
WhenBusy(mac) ==
    IF mac.started
    THEN {Decision(mac, "Backoff")}
    ELSE {Decision([mac EXCEPT !.state = "Backoff", !.started = TRUE, !.slots = k,
                               !.attempts = @ + 1], "Backoff") : k \in 0..Slots}

BackoffOver(mac) ==
    IF mac.attempts >= MaxAttempts
    THEN Decision(BackoffReset(mac), "MaxBackoffExceeded")
    ELSE Decision([mac EXCEPT !.state = "Idle"], "TransmitNow")

WhenBackoff(mac, waited) ==
    IF waited \/ mac.slots = 0
    THEN {BackoffOver(mac)}
    ELSE {Decision([mac EXCEPT !.slots = k], "Backoff") : k \in 1..mac.slots}

\* can_transmit.  A busy channel has left Idle and Backoff for Busy already, so
\* the arm that would freeze a back-off is never reached.
CanTransmit(mac, busy, waited) ==
    LET m == Sensed(mac, busy)
    IN  CASE m.state = "Idle"         -> {WhenIdle(m, waited)}
          [] m.state = "Busy"         -> WhenBusy(m)
          [] m.state = "Backoff"      -> WhenBackoff(m, waited)
          [] m.state = "Transmitting" -> {Decision(m, "AlreadyTransmitting")}

\* start_tx with a packet in the queue
StartTx(mac) ==
    [BackoffReset(mac) EXCEPT !.state = "Transmitting", !.queue = Tail(@)]

TxComplete(mac) == [mac EXCEPT !.state = "Idle", !.airtime = @ + 1]

\* The oldest transmission leaves the utilization window.
Pruned(mac) == [mac EXCEPT !.airtime = @ - 1]
=============================================================================
