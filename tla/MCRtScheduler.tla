--------------------------- MODULE MCRtScheduler ---------------------------
(* Model checking RtScheduler: the calls made beside the run loop. *)
EXTENDS RtScheduler

Schedule(es, by)     == [op |-> "schedule", events |-> es, by |-> by]
Run(t)               == [op |-> "run", thread |-> t, by |-> 1]
Fault(from, by)      == [op |-> "transition", from |-> from, to |-> "Error", by |-> by]
OneShot(deadline, priority, action) == << Template(deadline, priority, action, "none", 0, "none") >>

\* A burst and a window that keep the turnaround between them and are scheduled
\* MaxSleep ahead (schedule() does not wake the sleeping loop), the loop
\* started within the first tick.
TimetableScenario == [lag |-> 0, calls |->
    [run    |-> Run("t1"),
     burst  |-> Schedule(TxBurst(3, 2), 1),
     window |-> Schedule(RxWindow(7, 2), 5)]]

OnAir(start, stop, state) ==
    Settled /\ start <= clock /\ clock < stop => radio = state

\* Overlapping bursts, a window right behind one, hops across all of them, a
\* transmitter fault and the reset that clears it.
TrafficScenario == [lag |-> 1, calls |->
    [run   |-> Run("t1"),
     slots |-> Schedule(TxBurst(2, 2) \o TxBurst(3, 2) \o RxWindow(4, 2), 1),
     hops  |-> Schedule(HopSequence(1, 4, 2) \o OneShot(6, 3, "Reset"), 1),
     fault |-> Fault("Transmitting", 6)]]

\* A beacon with nothing in its way.
BeaconScenario == [lag |-> 0, calls |->
    [run    |-> Run("t1"),
     beacon |-> Schedule(Beacon(2, 4, 1), 0),
     power  |-> Schedule(OneShot(3, 9, "SetPower"), 1)]]

\* What the timetable and the beacon ask for is what the radio does, tick by
\* tick: each burst and window for its time with the turnarounds between them,
\* and "Schedule a periodic beacon" on the air in every period, for ever.
FollowsTimetable ==
    /\ scenario = TimetableScenario /\ called = DOMAIN Plan =>
         /\ OnAir(3, 5, "Transmitting") /\ OnAir(5, 7, "TxTurnaround")
         /\ OnAir(7, 9, "Receiving")    /\ OnAir(9, 11, "RxTurnaround")
         /\ OnAir(11, MaxTime + 1, "Idle")
    /\ scenario = BeaconScenario /\ {"run", "beacon"} \subseteq called /\ Settled =>
         /\ \E e \in events : e.call = "beacon" /\ e.template.action = "StartTx"
         /\ clock >= 2 => (radio = "Transmitting" <=> clock % 4 = 2)

\* A burst cancelled by the id its call returned, and by its source.
CancelBurstsScenario == [lag |-> 1, calls |->
    [run     |-> Run("t1"),
     burst   |-> Schedule(TxBurst(3, 2), 0),
     window  |-> Schedule(RxWindow(2, 1), 2),
     cancel  |-> [op |-> "cancel", of |-> "burst", by |-> 9],
     silence |-> [op |-> "cancel_source", source |-> "tx_burst", by |-> 9]]]

\* Three slots, the second of them ours.
TdmaScenario == [lag |-> 0, calls |->
    [run   |-> Run("t1"),
     frame |-> Schedule(TdmaFrame(2, 3, 1, 3), 0)]]

TdmaTransmitsInItsSlot ==
    {"run", "frame"} \subseteq called => OnAir(5, 8, "Transmitting")

\* A second run() beside the first, and a calibration the hardware ends.
CalibrateScenario == [lag |-> 1, calls |->
    [run   |-> Run("t1"),
     again |-> [op |-> "run", thread |-> "t2", by |-> 3],
     burst |-> Schedule(TxBurst(2, 2), 1),
     cal   |-> Schedule(OneShot(5, 9, "Calibrate"), 2),
     done  |-> [op |-> "transition", from |-> "Calibrating", to |-> "Idle", by |-> 9]]]

\* The loop is stopped and started again in the same thread.
PauseScenario == [lag |-> 1, calls |->
    [run    |-> Run("t1"),
     stop   |-> [op |-> "stop", by |-> 6],
     window |-> Schedule(RxWindow(3, 2), 1),
     again  |-> [op |-> "run", thread |-> "t1", by |-> 9]]]

Everyday == {TimetableScenario, TrafficScenario, BeaconScenario, CancelBurstsScenario,
             CalibrateScenario, PauseScenario}
Tdma == {TdmaScenario}
=============================================================================
