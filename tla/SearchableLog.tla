---------------------------- MODULE SearchableLog ----------------------------
(***************************************************************************)
(* What MindTrace promises: one log on the disk, to which the processes    *)
(* that have it open append, and which nobody changes otherwise; and for   *)
(* each process the entries its searches find.  A process that opens the   *)
(* log finds at least what had been captured before it began to; as long   *)
(* as it stays it loses nothing of what it finds, and what it comes to     *)
(* find later are entries of its own, each when it has been stored or some *)
(* time after.  A process may go at any moment.                            *)
(***************************************************************************)
EXTENDS Naturals, Sequences

CONSTANTS
    Processes,
    Entries    \* records with the fields by and captured

VARIABLES
    log,
    phase,     \* of each process: "closed", "opening", "open"
    seen,      \* length of the log when the process began to open it
    found      \* the places in the log that its searches find

vars == <<log, phase, seen, found>>

Init ==
    /\ log = <<>>
    /\ phase = [p \in Processes |-> "closed"]
    /\ seen = [p \in Processes |-> 0]
    /\ found = [p \in Processes |-> {}]

Open(p) ==
    /\ phase[p] = "closed"
    /\ phase' = [phase EXCEPT ![p] = "opening"]
    /\ seen' = [seen EXCEPT ![p] = Len(log)]
    /\ UNCHANGED <<log, found>>

Captured(places) == {i \in places : log[i].captured}

Opened(p) ==
    /\ phase[p] = "opening"
    /\ phase' = [phase EXCEPT ![p] = "open"]
    /\ \E places \in SUBSET DOMAIN log :
        /\ Captured(1..seen[p]) \subseteq places
        /\ found' = [found EXCEPT ![p] = places]
    /\ UNCHANGED <<log, seen>>

Finds(p, i) == found' = [found EXCEPT ![p] = @ \cup {i}]

Store(p, e) ==
    /\ phase[p] = "open"
    /\ e.by = p
    /\ log' = Append(log, e)
    /\ UNCHANGED found \/ Finds(p, Len(log'))
    /\ UNCHANGED <<phase, seen>>

Learn(p) ==
    /\ phase[p] = "open"
    /\ \E i \in DOMAIN log : log[i].by = p /\ Finds(p, i)
    /\ UNCHANGED <<log, phase, seen>>

Close(p) ==
    /\ phase[p] # "closed"
    /\ phase' = [phase EXCEPT ![p] = "closed"]
    /\ seen' = [seen EXCEPT ![p] = 0]
    /\ found' = [found EXCEPT ![p] = {}]
    /\ UNCHANGED log

Next ==
    \E p \in Processes :
        \/ Open(p) \/ Opened(p) \/ Learn(p) \/ Close(p)
        \/ \E e \in Entries : Store(p, e)

Spec == Init /\ [][Next]_vars

=============================================================================
