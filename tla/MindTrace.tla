------------------------------ MODULE MindTrace ------------------------------
(***************************************************************************)
(* The mindtrace program: processes that share one database file.  Each    *)
(* one builds its own in-memory index from the stored events when it       *)
(* starts and then runs one command: a search, the demo, or the daemon,    *)
(* whose three collectors save an event and then index it, each on a       *)
(* thread of its own, until Ctrl+C stops them in order.  A process may be  *)
(* killed at any point; the rows it has committed stay.                    *)
(*                                                                         *)
(* A row's id is its place in the table.  The clock is that of             *)
(* current_timestamp(), in seconds; it does not go back.                   *)
(***************************************************************************)
EXTENDS Naturals, Sequences, FiniteSets

CONSTANTS
    Procs,      \* processes that may run at the same time
    Daemons,    \* those of them that may run the daemon
    Threaded,   \* collectors with a thread: on Windows all, else not "window"
    MaxRows,    \* rows there is room for on the disk: then every save throws
    MaxClock,   \* bound on the clock
    MaxBatch    \* bound on the visits a browser collector finds at a time

ASSUME ProcsAssumption    == Daemons \subseteq Procs
ASSUME ThreadedAssumption == Threaded \subseteq {"window", "browser", "fs"}
ASSUME BoundsAssumption   == MaxRows \in Nat /\ MaxClock \in Nat /\ MaxBatch \in Nat

VARIABLES
    disk,       \* the events table: rows in the order of their ids
    clock,
    main,       \* where each process's main thread is
    command,    \* argv[1]
    booted,     \* the clock as read for the rebuild
    index,      \* ids in the process's InvertedIndex
    turn,       \* the collector that start or stop has come to
    interrupted,\* daemon_running is false
    running,    \* each collector's running_
    thread,     \* where each collector's thread is
    left,       \* visits left in the browser collector's batch
    hand,       \* the timestamp a thread is about to save, then the row's id
    rows_then,  \* history: rows when the process read the clock
    rows_read   \* history: rows when it read the table

process_vars == <<main, command, booted, index, rows_then, rows_read>>
daemon_vars  == <<turn, interrupted, running>>
thread_vars  == <<thread, left, hand>>
vars == <<disk, clock, process_vars, daemon_vars, thread_vars>>

(* The order in which cmd_daemon starts, and also stops, its collectors.   *)
Order      == <<"window", "browser", "fs">>
Collectors == {Order[i] : i \in 1..3}
Threads    == Procs \X Collectors

Ids    == 1..Len(disk)
Stamps == 0..MaxClock
Rows   == [stamp : Stamps, by : Procs, captured : BOOLEAN]

MainPC   == {"off", "boot", "ready", "starting", "loop", "stopping", "joining"}
ThreadPC == {"none", "idle", "captured", "saved", "ended"}

TypeOK ==
    /\ disk \in Seq(Rows) /\ Len(disk) <= MaxRows
    /\ clock \in Stamps
    /\ main \in [Procs -> MainPC]
    /\ command \in [Procs -> {"search", "demo", "daemon"}]
    /\ booted \in [Procs -> Stamps]
    /\ index \in [Procs -> SUBSET (1..MaxRows)]
    /\ turn \in [Procs -> 1..4]
    /\ interrupted \in [Procs -> BOOLEAN]
    /\ running \in [Threads -> BOOLEAN]
    /\ thread \in [Threads -> ThreadPC]
    /\ left \in [Threads -> 0..MaxBatch]
    /\ hand \in [Threads -> Nat]
    /\ rows_then \in [Procs -> 0..MaxRows]
    /\ rows_read \in [Procs -> 0..MaxRows]

Init ==
    /\ disk = <<>> /\ clock = 0
    /\ main = [p \in Procs |-> "off"]
    /\ command = [p \in Procs |-> "search"]
    /\ booted = [p \in Procs |-> 0]
    /\ index = [p \in Procs |-> {}]
    /\ turn = [p \in Procs |-> 1]
    /\ interrupted = [p \in Procs |-> FALSE]
    /\ running = [k \in Threads |-> FALSE]
    /\ thread = [k \in Threads |-> "none"]
    /\ left = [k \in Threads |-> 0]
    /\ hand = [k \in Threads |-> 0]
    /\ rows_then = [p \in Procs |-> 0]
    /\ rows_read = [p \in Procs |-> 0]

-----------------------------------------------------------------------------

Tick ==
    /\ clock < MaxClock
    /\ clock' = clock + 1
    /\ UNCHANGED <<disk, process_vars, daemon_vars, thread_vars>>

(* EventStore::save: the row is committed when it returns. *)
Insert(p, stamp, captured) ==
    /\ Len(disk) < MaxRows
    /\ disk' = Append(disk, [stamp |-> stamp, by |-> p, captured |-> captured])

(* The end of a process: what it had in memory is gone. *)
Vanish(p) ==
    /\ main' = [main EXCEPT ![p] = "off"]
    /\ command' = [command EXCEPT ![p] = "search"]
    /\ booted' = [booted EXCEPT ![p] = 0]
    /\ index' = [index EXCEPT ![p] = {}]
    /\ rows_then' = [rows_then EXCEPT ![p] = 0]
    /\ rows_read' = [rows_read EXCEPT ![p] = 0]
    /\ turn' = [turn EXCEPT ![p] = 1]
    /\ interrupted' = [interrupted EXCEPT ![p] = FALSE]
    /\ running' = [k \in Threads |-> running[k] /\ k[1] # p]
    /\ thread' = [k \in Threads |-> IF k[1] = p THEN "none" ELSE thread[k]]
    /\ left' = [k \in Threads |-> IF k[1] = p THEN 0 ELSE left[k]]
    /\ hand' = [k \in Threads |-> IF k[1] = p THEN 0 ELSE hand[k]]
    /\ UNCHANGED <<disk, clock>>

(* A kill, a power cut, an exception nothing catches.  The database is     *)
(* opened and its schema made before Launch's step; when that throws, the  *)
(* process ends before it has read or written a row.                       *)
Crash(p) == main[p] # "off" /\ Vanish(p)

(* main(): open the store, read the clock ... *)
Launch(p, cmd) ==
    /\ main[p] = "off"
    /\ cmd = "daemon" => p \in Daemons
    /\ main' = [main EXCEPT ![p] = "boot"]
    /\ command' = [command EXCEPT ![p] = cmd]
    /\ booted' = [booted EXCEPT ![p] = clock]
    /\ rows_then' = [rows_then EXCEPT ![p] = Len(disk)]
    /\ UNCHANGED <<disk, clock, index, rows_read, daemon_vars, thread_vars>>

(* Mutant of Stored: the end of the time range is excluded. *)
StoredMutant(until) == {id \in Ids : disk[id].stamp < until}

(* find_by_time_range(0, until) *)
Stored(until) == {id \in Ids : disk[id].stamp <= until}

(* ... then index what is stored up to that time. *)
Rebuild(p) ==
    /\ main[p] = "boot"
    /\ main' = [main EXCEPT ![p] = "ready"]
    /\ index' = [index EXCEPT ![p] = Stored(booted[p])]
    /\ rows_read' = [rows_read EXCEPT ![p] = Len(disk)]
    /\ UNCHANGED <<disk, clock, command, booted, rows_then, daemon_vars, thread_vars>>

(* cmd_search, cmd_timeline and cmd_stats only read; then main() returns. *)
Finish(p) ==
    /\ main[p] = "ready"
    /\ command[p] # "daemon"
    /\ Vanish(p)

(* cmd_demo saves and indexes its events, one by one, dated today at fixed *)
(* hours and so possibly later than now.  A save that throws is a Crash.   *)
DemoEvent(p, stamp) ==
    /\ main[p] = "ready"
    /\ command[p] = "demo"
    /\ Insert(p, stamp, FALSE)
    /\ index' = [index EXCEPT ![p] = @ \cup {Len(disk')}]
    /\ UNCHANGED <<clock, main, command, booted, rows_then, rows_read,
                   daemon_vars, thread_vars>>

-----------------------------------------------------------------------------
(* The daemon's main thread.                                               *)

GoOn(p, place, i) ==
    /\ main' = [main EXCEPT ![p] = place]
    /\ turn' = [turn EXCEPT ![p] = i]
    /\ UNCHANGED <<disk, clock, command, booted, index, rows_then, rows_read>>

StartDaemon(p) ==
    /\ main[p] = "ready"
    /\ command[p] = "daemon"
    /\ GoOn(p, "starting", 1)
    /\ UNCHANGED <<interrupted, running, thread_vars>>

(* SIGINT, with the handler installed; before that it is a Crash. *)
Interrupt(p) ==
    /\ main[p] \in {"starting", "loop", "stopping", "joining"}
    /\ interrupted' = [interrupted EXCEPT ![p] = TRUE]
    /\ UNCHANGED <<disk, clock, process_vars, turn, running, thread_vars>>

(* start(); the stub that stands for the window collector on the other     *)
(* systems only sets its flag.                                             *)
StartCollector(p) ==
    LET c == Order[turn[p]] IN
    /\ main[p] = "starting" /\ turn[p] <= 3
    /\ running' = [running EXCEPT ![<<p, c>>] = TRUE]
    /\ thread' = [thread EXCEPT ![<<p, c>>] = IF c \in Threaded THEN "idle" ELSE "none"]
    /\ GoOn(p, "starting", turn[p] + 1)
    /\ UNCHANGED <<interrupted, left, hand>>

EnterLoop(p) ==
    /\ main[p] = "starting" /\ turn[p] = 4
    /\ GoOn(p, "loop", 1)
    /\ UNCHANGED <<interrupted, running, thread_vars>>

LeaveLoop(p) ==
    /\ main[p] = "loop"
    /\ interrupted[p]
    /\ GoOn(p, "stopping", 1)
    /\ UNCHANGED <<interrupted, running, thread_vars>>

(* Mutant of StopCollector: running_ is read, not exchanged. *)
StopCollectorMutant(p) ==
    /\ main[p] = "stopping" /\ turn[p] <= 3
    /\ GoOn(p, "joining", turn[p])
    /\ UNCHANGED <<interrupted, running, thread_vars>>

(* stop() of the collector whose turn it is: the flag ... *)
StopCollector(p) ==
    LET c == Order[turn[p]] IN
    /\ main[p] = "stopping" /\ turn[p] <= 3
    /\ running' = [running EXCEPT ![<<p, c>>] = FALSE]
    /\ GoOn(p, "joining", turn[p])
    /\ UNCHANGED <<interrupted, thread_vars>>

(* Mutant of JoinCollector: the thread is left to itself. *)
JoinCollectorMutant(p) ==
    /\ main[p] = "joining"
    /\ GoOn(p, "stopping", turn[p] + 1)
    /\ UNCHANGED <<interrupted, running, thread_vars>>

(* ... and the join. *)
JoinCollector(p) ==
    /\ main[p] = "joining"
    /\ thread[<<p, Order[turn[p]]>>] \in {"none", "ended"}
    /\ GoOn(p, "stopping", turn[p] + 1)
    /\ UNCHANGED <<interrupted, running, thread_vars>>

(* cmd_daemon and main() return. *)
Exit(p) ==
    /\ main[p] = "stopping" /\ turn[p] = 4
    /\ Vanish(p)

-----------------------------------------------------------------------------
(* A collector's thread, and the daemon's callback on it.                  *)

At(p, c, place) == thread[<<p, c>>] = place

GoTo(p, c, place, h) ==
    /\ thread' = [thread EXCEPT ![<<p, c>>] = place]
    /\ hand' = [hand EXCEPT ![<<p, c>>] = h]

(* The browser collector finds a batch of visits, all of which it will     *)
(* emit, even when it is stopped meanwhile.                                *)
Poll(p) ==
    /\ At(p, "browser", "idle")
    /\ running[<<p, "browser">>]
    /\ left[<<p, "browser">>] = 0
    /\ \E n \in 1..MaxBatch : left' = [left EXCEPT ![<<p, "browser">>] = n]
    /\ UNCHANGED <<disk, clock, process_vars, daemon_vars, thread, hand>>

(* An event is emitted.  A file or a window is dated now, a visit when it  *)
(* was made.                                                               *)
Capture(p, c, stamp) ==
    /\ At(p, c, "idle")
    /\ IF c = "browser"
       THEN left[<<p, c>>] > 0 /\ stamp <= clock
       ELSE running[<<p, c>>] /\ stamp = clock
    /\ left' = IF c = "browser" THEN [left EXCEPT ![<<p, c>>] = @ - 1] ELSE left
    /\ GoTo(p, c, "captured", stamp)
    /\ UNCHANGED <<disk, clock, process_vars, daemon_vars>>

Save(p, c) ==
    /\ At(p, c, "captured")
    /\ Insert(p, hand[<<p, c>>], TRUE)
    /\ GoTo(p, c, "saved", Len(disk'))
    /\ UNCHANGED <<clock, process_vars, daemon_vars, left>>

(* save() throws: nobody else's row is touched, and the event is lost.     *)
(* The scan of the files catches it, Windows may swallow it on its way     *)
(* through the hook ...                                                    *)
SaveFails(p, c) ==
    /\ At(p, c, "captured")
    /\ c # "browser"
    /\ GoTo(p, c, "idle", 0)
    /\ UNCHANGED <<disk, clock, process_vars, daemon_vars, left>>

(* ... and otherwise it ends the thread's function, and the daemon. *)
SaveKills(p, c) ==
    /\ At(p, c, "captured")
    /\ c # "fs"
    /\ Vanish(p)

(* Mutant of AddToIndex: e.id = id comes after the add. *)
AddToIndexIdMutant(p, c) ==
    /\ At(p, c, "saved")
    /\ index' = [index EXCEPT ![p] = @ \cup {0}]
    /\ GoTo(p, c, "idle", 0)
    /\ UNCHANGED <<disk, clock, main, command, booted, rows_then, rows_read,
                   daemon_vars, left>>

(* Mutant of AddToIndex: an event captured while stopping is not indexed. *)
AddToIndexMutant(p, c) ==
    /\ At(p, c, "saved")
    /\ index' = [index EXCEPT ![p] =
                   IF running[<<p, c>>] THEN @ \cup {hand[<<p, c>>]} ELSE @]
    /\ GoTo(p, c, "idle", 0)
    /\ UNCHANGED <<disk, clock, main, command, booted, rows_then, rows_read,
                   daemon_vars, left>>

AddToIndex(p, c) ==
    /\ At(p, c, "saved")
    /\ index' = [index EXCEPT ![p] = @ \cup {hand[<<p, c>>]}]
    /\ GoTo(p, c, "idle", 0)
    /\ UNCHANGED <<disk, clock, main, command, booted, rows_then, rows_read,
                   daemon_vars, left>>

EndThread(p, c) ==
    /\ At(p, c, "idle")
    /\ ~running[<<p, c>>] /\ left[<<p, c>>] = 0
    /\ GoTo(p, c, "ended", 0)
    /\ UNCHANGED <<disk, clock, process_vars, daemon_vars, left>>

-----------------------------------------------------------------------------

MainStep(p) ==
    \/ Rebuild(p) \/ Finish(p) \/ StartDaemon(p) \/ StartCollector(p) \/ EnterLoop(p)
    \/ LeaveLoop(p) \/ StopCollector(p) \/ JoinCollector(p) \/ Exit(p)

(* What a thread does with an event it has, and the end of it. *)
ThreadStep(p, c) ==
    \/ Save(p, c) \/ SaveFails(p, c) \/ SaveKills(p, c) \/ AddToIndex(p, c)
    \/ EndThread(p, c)
    \/ ~running[<<p, c>>] /\ \E stamp \in Stamps : Capture(p, c, stamp)

Next ==
    \/ Tick
    \/ \E p \in Procs :
        \/ \E cmd \in {"search", "demo", "daemon"} : Launch(p, cmd)
        \/ \E stamp \in Stamps : DemoEvent(p, stamp)
        \/ MainStep(p)
        \/ Interrupt(p)
        \/ Poll(p)
        \/ \E c \in Collectors :
            \/ \E stamp \in Stamps : Capture(p, c, stamp)
            \/ ThreadStep(p, c)
        \/ Crash(p)

Spec == Init /\ [][Next]_vars

(* The threads of a daemon go on; nothing has to happen that would give a  *)
(* collector something to capture, and no other process has to move.       *)
Fairness ==
    \A p \in Daemons :
        /\ WF_vars(MainStep(p))
        /\ \A c \in Collectors : WF_vars(ThreadStep(p, c))

FairSpec == Spec /\ Fairness

-----------------------------------------------------------------------------

Rebuilt(p) == main[p] \notin {"off", "boot"}

(* The index of a process is, at every moment, exactly what the rebuild    *)
(* read - the rows there were, up to the time it started - and what the    *)
(* process has itself stored since, less what a collector has stored and   *)
(* is about to add.  So every indexed id is that of a row, no failure of   *)
(* one collector costs another its entry, and a kill between save and add  *)
(* is repaired by the next start.                                          *)
IndexMatchesDisk ==
    \A p \in Procs : Rebuilt(p) =>
        LET before  == {id \in Ids : id <= rows_read[p] /\ disk[id].stamp <= booted[p]}
            own     == {id \in Ids : id > rows_read[p] /\ disk[id].by = p}
            pending == {hand[<<p, c>>] : c \in {d \in Collectors : At(p, d, "saved")}}
        IN  index[p] = (before \cup own) \ pending

(* A search started after an event was captured and stored finds it in its *)
(* index, also when the daemon stores others between the search's reading  *)
(* the clock and its reading the table.                                    *)
CapturedIsSearchable ==
    \A p \in Procs : Rebuilt(p) =>
        \A id \in 1..rows_then[p] : disk[id].captured => id \in index[p]

(* A daemon that is stopped returns with nothing half done: when the last  *)
(* collector has been joined no thread is left that could store another    *)
(* event, and every row the daemon has stored is in its index.             *)
GracefulExit ==
    \A p \in Procs : main[p] = "stopping" /\ turn[p] = 4 =>
        /\ \A c \in Threaded : thread[<<p, c>>] = "ended"
        /\ \A id \in Ids : id > rows_read[p] /\ disk[id].by = p => id \in index[p]

(* The processes, with their kills, failures, clocks and threads, are one  *)
(* log that only grows, and of which nobody ever finds less than he did -  *)
(* whichever of them store, start or die meanwhile.                        *)
Phase(p) ==
    IF main[p] = "off" THEN "closed" ELSE IF main[p] = "boot" THEN "opening" ELSE "open"

Log == INSTANCE SearchableLog
       WITH Processes <- Procs, Entries <- Rows, log <- disk,
            phase <- [p \in Procs |-> Phase(p)], seen <- rows_then, found <- index

KeepsTheLog == Log!Spec

(* Ctrl+C ends the daemon, although each collector is waited for in turn   *)
(* while the others go on storing events, and the browser collector emits  *)
(* the whole batch it has begun before it looks at its flag.               *)
InterruptEndsDaemon ==
    \A p \in Daemons : interrupted[p] ~> main[p] = "off"

(* "Rebuild index from stored events" (main.cpp): after the rebuild, what  *)
(* was stored when the process started is in its index.  It is not: rows   *)
(* dated later than the start are left out.                                *)
RebuildIsComplete ==
    [][\A p \in Procs :
          main[p] = "boot" /\ main'[p] = "ready"
          => 1..rows_then[p] \subseteq index'[p]]_vars

=============================================================================
