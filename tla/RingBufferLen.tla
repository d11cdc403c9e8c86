--------------------------- MODULE RingBufferLen ---------------------------
(***************************************************************************)
(* len() of the ring of r4w-core/src/rt/ringbuffer.rs called by a third    *)
(* thread that holds a reference (the method takes &self): it loads head,  *)
(* then tail, two counters that both move, and subtracts.                  *)
(***************************************************************************)
EXTENDS RingBuffer

VARIABLES
    mPc,    \* program point of the third thread: "idle" or "loaded"
    mHead,  \* the head it has loaded
    mLen    \* what len() returned

lenVars == <<mPc, mHead, mLen>>
allVars == <<vars, lenVars>>

LenInit == Init /\ mPc = "idle" /\ mHead = 0 /\ mLen = 0

LoadHead ==
    /\ alive /\ mPc = "idle"
    /\ mPc' = "loaded" /\ mHead' = head
    /\ UNCHANGED <<vars, mLen>>

LoadTail ==
    /\ mPc = "loaded"
    /\ mPc' = "idle" /\ mLen' = WSub(mHead, tail)
    /\ UNCHANGED <<vars, mHead>>

\* The third thread's reference keeps the ring alive while it is in a call.
LenNext ==
    \/ (Producer \/ Consumer) /\ UNCHANGED lenVars
    \/ Drop /\ mPc = "idle" /\ UNCHANGED lenVars
    \/ LoadHead
    \/ LoadTail

LenSpec == LenInit /\ [][LenNext]_allVars

\* "Get the number of elements currently in the buffer": at most Capacity,
\* so that is_full and free_space make sense of it.
LenIsACount == mLen <= Capacity
=============================================================================
