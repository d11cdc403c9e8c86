----------------------------- MODULE RadioState -----------------------------
(***************************************************************************)
(* The radio state machine of r4w-core/src/rt_scheduler.rs: its states,    *)
(* the states in which transmission, reception and a frequency change are  *)
(* allowed, and the table of valid transitions.                            *)
(***************************************************************************)

RadioStates == {"Idle", "Transmitting", "TxTurnaround", "Receiving",
                "RxTurnaround", "Hopping", "Calibrating", "Error"}

CanTransmit(s) == s \in {"Idle", "RxTurnaround"}
CanReceive(s)  == s \in {"Idle", "TxTurnaround"}
CanHop(s)      == s \in {"Idle", "TxTurnaround", "RxTurnaround"}

ValidTransitions(s) ==
    CASE s = "Idle"         -> {"Transmitting", "Receiving", "Hopping", "Calibrating"}
      [] s = "Transmitting" -> {"TxTurnaround", "Error"}
      [] s = "TxTurnaround" -> {"Idle", "Receiving", "Hopping"}
      [] s = "Receiving"    -> {"RxTurnaround", "Error"}
      [] s = "RxTurnaround" -> {"Idle", "Transmitting", "Hopping"}
      [] s = "Hopping"      -> {"Idle", "Error"}
      [] s = "Calibrating"  -> {"Idle", "Error"}
      [] s = "Error"        -> {"Idle"}

CanTransitionTo(s, target) == target \in ValidTransitions(s)
=============================================================================
