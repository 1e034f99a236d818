---------------------------- MODULE CollectorBase ----------------------------
(***************************************************************************)
(* What the collectors have in common: a flag that start() and stop()      *)
(* exchange, so that a second call of either does nothing, and a thread    *)
(* that is made by the one and joined by the other.  Each collector names  *)
(* the places of its thread, and may go through more places inside stop(). *)
(***************************************************************************)
EXTENDS Naturals

CONSTANT MaxStarts    \* bound on the calls of start()

ASSUME StartsAssumption == MaxStarts \in Nat

VARIABLES
    running,    \* running_
    owner,      \* the owner is idle, or in stop(): at the join, or before it
    thread,     \* where poll_thread_, scan_thread_ or thread_ is
    starts      \* calls of start() that made a thread

base_vars == <<running, owner, thread, starts>>

NotStarted == running = FALSE /\ owner = "idle" /\ thread = "none" /\ starts = 0

(* start() makes a thread, which is at its first place. *)
MakeThread(first) ==
    /\ owner = "idle" /\ ~running
    /\ starts < MaxStarts
    /\ running' = TRUE
    /\ thread' = first
    /\ starts' = starts + 1
    /\ UNCHANGED owner

(* stop() goes on to the place where it waits. *)
CallStop(place) ==
    /\ owner = "idle" /\ running
    /\ running' = FALSE
    /\ owner' = place
    /\ UNCHANGED <<thread, starts>>

(* The join returns once the thread has come to its end. *)
JoinThread(ends) ==
    /\ owner = "joining"
    /\ thread \in ends
    /\ thread' = "none"
    /\ owner' = "idle"
    /\ UNCHANGED <<running, starts>>

=============================================================================
