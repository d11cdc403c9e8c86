----------------------------- MODULE BufferPool -----------------------------
(***************************************************************************)
(* The lock-free buffer pool of r4w-core/src/rt/pool.rs.  A bitmap of the  *)
(* available buffers is the only shared state; acquire loads it and claims *)
(* the first set bit by a weak compare-exchange on the whole bitmap, which *)
(* may fail for no reason; dropping a handle sets the bit again.  Handles  *)
(* are Send and may be passed to another thread while they are held.       *)
(***************************************************************************)
EXTENDS Integers, FiniteSets

CONSTANTS
    Threads,
    Requested,  \* the count given to new()
    MaxCalls,   \* bound: acquisitions of one thread
    HoldAndWait \* whether a thread blocks for a buffer while it holds one

\* count.min(64).max(1)
Count == CASE Requested > 64 -> 64
           [] Requested < 1  -> 1
           [] OTHER          -> Requested

Buffers == 0..(Count - 1)

ASSUME PoolAssumption == Requested \in Nat /\ MaxCalls \in Nat /\ HoldAndWait \in BOOLEAN

VARIABLES
    available,  \* the bitmap, as the set of indices of its set bits
    pc,         \* "idle", or inside a call: "load", "cas"
    blocking,   \* the call is acquire_blocking, which retries on exhaustion
    view,       \* the bitmap the thread has loaded
    holds,      \* the indices of the handles a thread owns
    calls       \* calls begun by a thread

vars == <<available, pc, blocking, view, holds, calls>>

Init ==
    /\ available = Buffers
    /\ pc = [t \in Threads |-> "idle"]
    /\ blocking = [t \in Threads |-> FALSE]
    /\ view = [t \in Threads |-> {}]
    /\ holds = [t \in Threads |-> {}]
    /\ calls = [t \in Threads |-> 0]

Acquire(t, wait) ==
    /\ pc[t] = "idle" /\ calls[t] < MaxCalls
    /\ wait /\ ~HoldAndWait => holds[t] = {}
    /\ pc' = [pc EXCEPT ![t] = "load"]
    /\ blocking' = [blocking EXCEPT ![t] = wait]
    /\ calls' = [calls EXCEPT ![t] = @ + 1]
    /\ UNCHANGED <<available, view, holds>>

\* With nothing available try_acquire returns None and acquire_blocking spins.
Load(t) ==
    /\ pc[t] = "load"
    /\ view' = [view EXCEPT ![t] = available]
    /\ pc' = [pc EXCEPT ![t] = IF available # {} THEN "cas"
                               ELSE IF blocking[t] THEN "load" ELSE "idle"]
    /\ UNCHANGED <<available, blocking, holds, calls>>

\* Mutant: leading_zeros.
LeadingZeros(bits) == 63 - CHOOSE i \in bits : \A j \in bits : j <= i

\* trailing_zeros
First(bits) == CHOOSE i \in bits : \A j \in bits : i <= j

\* Mutant: the bitmap is stored, not compared and exchanged.
StoreSucceeds(t) ==
    /\ pc[t] = "cas"
    /\ available' = view[t] \ {First(view[t])}
    /\ holds' = [holds EXCEPT ![t] = @ \cup {First(view[t])}]
    /\ pc' = [pc EXCEPT ![t] = "idle"]
    /\ UNCHANGED <<blocking, view, calls>>

CasSucceeds(t) ==
    /\ pc[t] = "cas"
    /\ available = view[t]
    /\ available' = view[t] \ {First(view[t])}
    /\ holds' = [holds EXCEPT ![t] = @ \cup {First(view[t])}]
    /\ pc' = [pc EXCEPT ![t] = "idle"]
    /\ UNCHANGED <<blocking, view, calls>>

\* Another thread changed the bitmap, or the weak exchange failed spuriously.
CasFails(t) ==
    /\ pc[t] = "cas"
    /\ pc' = [pc EXCEPT ![t] = "load"]
    /\ UNCHANGED <<available, blocking, view, holds, calls>>

\* Mutants: the bit is set in the bitmap loaded last; it is not set at all.
ReleaseStored(t, i) ==
    /\ pc[t] = "idle" /\ i \in holds[t]
    /\ available' = view[t] \cup {i}
    /\ holds' = [holds EXCEPT ![t] = @ \ {i}]
    /\ UNCHANGED <<pc, blocking, view, calls>>

ReleaseForgotten(t, i) ==
    /\ pc[t] = "idle" /\ i \in holds[t]
    /\ holds' = [holds EXCEPT ![t] = @ \ {i}]
    /\ UNCHANGED <<available, pc, blocking, view, calls>>

\* Drop of a handle: fetch_or.
Release(t, i) ==
    /\ pc[t] = "idle" /\ i \in holds[t]
    /\ available' = available \cup {i}
    /\ holds' = [holds EXCEPT ![t] = @ \ {i}]
    /\ UNCHANGED <<pc, blocking, view, calls>>

\* The receiver takes the handle from a channel, so it is in no call either.
Pass(t, u, i) ==
    /\ pc[t] = "idle" /\ pc[u] = "idle" /\ i \in holds[t] /\ t # u
    /\ holds' = [holds EXCEPT ![t] = @ \ {i}, ![u] = @ \cup {i}]
    /\ UNCHANGED <<available, pc, blocking, view, calls>>

Next ==
    \E t \in Threads :
        \/ \E wait \in BOOLEAN : Acquire(t, wait)
        \/ Load(t) \/ CasSucceeds(t) \/ CasFails(t)
        \/ \E i \in Buffers : Release(t, i)
        \/ \E u \in Threads, i \in Buffers : Pass(t, u, i)

Spec == Init /\ [][Next]_vars

\* Threads in a call go on, a weak exchange that is retried on an unchanged
\* bitmap succeeds sometime, and a thread that is not in a call drops what it
\* holds.
FairSpec ==
    /\ Spec
    /\ \A t \in Threads :
        /\ WF_vars(Load(t))
        /\ WF_vars(CasSucceeds(t) \/ CasFails(t))
        /\ SF_vars(CasSucceeds(t))
        /\ \A i \in Buffers : SF_vars(Release(t, i))

-----------------------------------------------------------------------------
(* Properties *)

TypeOK ==
    /\ available \subseteq Buffers
    /\ pc \in [Threads -> {"idle", "load", "cas"}]
    /\ blocking \in [Threads -> BOOLEAN]
    /\ view \in [Threads -> SUBSET Buffers]
    /\ holds \in [Threads -> SUBSET Buffers]
    /\ calls \in [Threads -> Nat]

\* as_mut_slice hands out &mut through a shared pointer: "We have exclusive
\* access to this buffer index".  No two threads own a handle of one buffer,
\* although a claim is decided on a bitmap that other threads may have taken
\* from and given back to since it was loaded.
ExclusiveAccess ==
    \A t, u \in Threads : t # u => holds[t] \cap holds[u] = {}

\* The bitmap says exactly which buffers no handle refers to: none is lost,
\* none is offered while it is held.
BitmapExact ==
    available = Buffers \ UNION {holds[t] : t \in Threads}

\* A blocking call returns while handles keep being dropped and the other
\* threads do not acquire for ever, provided no thread spins for a buffer it
\* holds itself.
BlockingReturns == \A t \in Threads : (pc[t] = "load" /\ blocking[t]) ~> pc[t] = "idle"
=============================================================================
