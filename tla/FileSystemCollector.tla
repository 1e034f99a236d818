------------------------- MODULE FileSystemCollector -------------------------
(***************************************************************************)
(* FileSystemCollector: a thread walks the watched directory every few     *)
(* seconds and emits an event for each file it has not met before or whose *)
(* modification time is not the one it remembers, while the files go on    *)
(* changing beneath it.  Only files it tracks are modelled (a regular file *)
(* with one of the extensions, in no hidden or ignored directory).  The    *)
(* order of the walk is left open, but an error in it is not: increment()  *)
(* then puts the iterator at its end, so that the files it has not come to *)
(* are not looked at in this scan, nor in any other as long as the         *)
(* obstacle (a locked directory, a failing disk) stays.                    *)
(***************************************************************************)
EXTENDS CollectorBase

CONSTANTS
    Files,         \* paths
    MTimes,        \* last_write_time values
    Absent         \* of a file that is not there, or not in file_states_

ASSUME AbsentAssumption == Absent \notin MTimes

VARIABLES
    mtime,        \* the files
    hidden,       \* the files that lie behind an obstacle to the walk
    file_states,  \* file_states_
    todo,         \* files the iterator may still come to
    event,        \* the event about to be emitted
    reported,     \* history: mtime of the file when its last event was emitted
    thrown,       \* history: each file's last event, if its emission threw
    discovered    \* history: files for which a FileOpened was made

scan_vars == <<base_vars, mtime, hidden, file_states, todo, event, reported, thrown,
               discovered>>
disk      == <<mtime, hidden>>
history   == <<reported, thrown, discovered>>

Event   == [file : Files, mtime : MTimes, type : {"FileOpened", "FileModified"}]
NoEvent == {}

ScanTypeOK ==
    /\ mtime \in [Files -> MTimes \cup {Absent}] /\ hidden \subseteq Files
    /\ file_states \in [Files -> MTimes \cup {Absent}]
    /\ running \in BOOLEAN /\ owner \in {"idle", "joining"}
    /\ thread \in {"none", "scan", "visit", "emit", "sleep", "ended"}
    /\ todo \subseteq Files
    /\ event \in {NoEvent} \cup {{e} : e \in Event}
    /\ starts \in 0..MaxStarts
    /\ reported \in [Files -> MTimes \cup {Absent}]
    /\ thrown \subseteq Event
    /\ discovered \subseteq Files

ScanInit ==
    /\ mtime \in [Files -> MTimes \cup {Absent}] /\ hidden \in SUBSET Files
    /\ file_states = [f \in Files |-> Absent]
    /\ NotStarted
    /\ todo = {} /\ event = NoEvent
    /\ reported = [f \in Files |-> Absent]
    /\ thrown = {} /\ discovered = {}

-----------------------------------------------------------------------------

(* A file is written, put back to an earlier state, made or deleted. *)
Change(f, m) ==
    /\ mtime[f] # m
    /\ mtime' = [mtime EXCEPT ![f] = m]
    /\ UNCHANGED <<base_vars, hidden, file_states, todo, event, history>>

(* An obstacle to the walk appears, and hides the files behind it, or goes. *)
Obstruct(files) ==
    /\ hidden' = files
    /\ UNCHANGED <<base_vars, mtime, file_states, todo, event, history>>

(* start(); file_states_ is kept. *)
StartScans ==
    /\ MakeThread("scan")
    /\ UNCHANGED <<disk, file_states, todo, event, history>>

StopScans ==
    /\ CallStop("joining")
    /\ UNCHANGED <<disk, file_states, todo, event, history>>

JoinScans ==
    /\ JoinThread({"ended"})
    /\ UNCHANGED <<disk, file_states, todo, event, history>>

-----------------------------------------------------------------------------
(* scan_loop() and scan_directory().                                       *)

BeginScan ==
    /\ thread = "scan"
    /\ todo' = Files
    /\ thread' = "visit"
    /\ UNCHANGED <<disk, file_states, running, owner, event, starts, history>>

(* Mutant of Remember: file_states_ is not updated for a file it has. *)
RememberMutant(f) ==
    file_states' = IF file_states[f] = Absent
                   THEN [file_states EXCEPT ![f] = mtime[f]] ELSE file_states

Remember(f) == file_states' = [file_states EXCEPT ![f] = mtime[f]]

(* Mutant of Forget: a file that is not met is taken out of file_states_. *)
ForgetMutant(f) == file_states' = [file_states EXCEPT ![f] = Absent]

(* What has been deleted stays in file_states_. *)
Forget(f) == UNCHANGED file_states

(* The iterator, which is not at its end, comes to f. *)
ComesTo(f) == thread = "visit" /\ running /\ f \in todo \ hidden

(* It is a regular file, and last_write_time() succeeds. *)
Examined(f) == mtime[f] # Absent

TypeFor(f) == IF file_states[f] = Absent THEN "FileOpened" ELSE "FileModified"

(* The iterator comes to a file that has changed: it is remembered first.  *)
VisitChanged(f) ==
    /\ ComesTo(f)
    /\ Examined(f) /\ mtime[f] # file_states[f]
    /\ todo' = todo \ {f}
    /\ Remember(f)
    /\ event' = {[file |-> f, mtime |-> mtime[f], type |-> TypeFor(f)]}
    /\ discovered' = IF TypeFor(f) = "FileOpened" THEN discovered \cup {f} ELSE discovered
    /\ thread' = "emit"
    /\ UNCHANGED <<disk, running, owner, starts, reported, thrown>>

(* It is as remembered. *)
VisitUnchanged(f) ==
    /\ ComesTo(f)
    /\ Examined(f) /\ mtime[f] = file_states[f]
    /\ todo' = todo \ {f}
    /\ UNCHANGED <<base_vars, disk, file_states, event, history>>

(* It is gone, or cannot be examined. *)
VisitNothing(f) ==
    /\ ComesTo(f)
    /\ ~Examined(f)
    /\ todo' = todo \ {f}
    /\ Forget(f)
    /\ UNCHANGED <<disk, running, owner, thread, event, starts, history>>

OfOtherFiles(events) == {t \in events : \A e \in event : t.file # e.file}

(* Mutant of EmitFile: nothing is emitted any more once stop() has been called. *)
EmitFileMutant ==
    /\ thread = "emit"
    /\ IF running
       THEN \E e \in event : reported' = [reported EXCEPT ![e.file] = e.mtime]
       ELSE UNCHANGED reported
    /\ thrown' = OfOtherFiles(thrown)
    /\ event' = NoEvent
    /\ thread' = "visit"
    /\ UNCHANGED <<disk, file_states, running, owner, todo, starts, discovered>>

EmitFile ==
    /\ thread = "emit"
    /\ \E e \in event : reported' = [reported EXCEPT ![e.file] = e.mtime]
    /\ thrown' = OfOtherFiles(thrown)
    /\ event' = NoEvent
    /\ thread' = "visit"
    /\ UNCHANGED <<disk, file_states, running, owner, todo, starts, discovered>>

(* The callback throws; the exception is swallowed and the scan goes on. *)
EmitThrows ==
    /\ thread = "emit"
    /\ thrown' = OfOtherFiles(thrown) \cup event
    /\ event' = NoEvent
    /\ thread' = "visit"
    /\ UNCHANGED <<disk, file_states, running, owner, todo, starts, reported, discovered>>

(* The iterator is at its end, or cannot be incremented for an obstacle,   *)
(* which puts it there; or running_ is not set any more.                   *)
EndScan ==
    /\ thread = "visit"
    /\ todo \subseteq hidden \/ ~running
    /\ todo' = {}
    /\ thread' = "sleep"
    /\ UNCHANGED <<disk, file_states, running, owner, event, starts, history>>

Wake ==
    /\ thread = "sleep" /\ running
    /\ thread' = "scan"
    /\ UNCHANGED <<disk, file_states, running, owner, todo, event, starts, history>>

EndThread ==
    /\ thread = "sleep" /\ ~running
    /\ thread' = "ended"
    /\ UNCHANGED <<disk, file_states, running, owner, todo, event, starts, history>>

-----------------------------------------------------------------------------

Visit(f) == VisitChanged(f) \/ VisitUnchanged(f) \/ VisitNothing(f)

ScanStep ==
    BeginScan \/ (\E f \in Files : Visit(f)) \/ EmitFile \/ EmitThrows \/ EndScan \/ Wake
        \/ EndThread

ScanNext ==
    \/ \E f \in Files, m \in MTimes \cup {Absent} : Change(f, m)
    \/ \E files \in SUBSET Files : Obstruct(files)
    \/ StartScans \/ StopScans \/ JoinScans
    \/ ScanStep

ScanSpec == ScanInit /\ [][ScanNext]_scan_vars

(* The thread goes on, and stop() goes on to its join.  Nothing is assumed *)
(* of obstacles: one may stay for ever, or come back in every scan.        *)
ScanFairness == WF_scan_vars(ScanStep) /\ WF_scan_vars(JoinScans)

FairScanSpec == ScanSpec /\ ScanFairness

-----------------------------------------------------------------------------

(* What the collector remembers of a file it has reported, is about to     *)
(* report, or has handed to a callback that threw: no time of a file gets  *)
(* into file_states_, and so comes to pass for old, without an event of    *)
(* its own, though the file changes between and under the scans and the    *)
(* collector may be stopped between the two steps.  (An event whose        *)
(* callback throws is not made again; and a file that is put back to the   *)
(* time remembered is not seen to have changed.)                           *)
NoChangeForgotten ==
    \A f \in Files :
        file_states[f] # Absent /\ file_states[f] # reported[f] =>
            \E e \in event \cup thrown : e.file = f /\ e.mtime = file_states[f]

(* A path is discovered once in the life of the collector, also when the   *)
(* file is deleted and made again, and when the collector is stopped in    *)
(* the middle of a scan and restarted.                                     *)
DiscoveredOnce ==
    [][\A f \in discovered : \A e \in event' \ event :
          e.file = f => e.type = "FileModified"]_scan_vars

(* A file that is left as it is comes to be remembered as it is - and so,  *)
(* by NoChangeForgotten, reported - as long as the collector runs and the  *)
(* file does not get behind an obstacle.  One that stays behind an obstacle *)
(* is not seen, however long the collector runs.                           *)
EventuallySeen ==
    \A f \in Files, m \in MTimes :
        running /\ mtime[f] = m /\ f \notin hidden
            ~> file_states[f] = m \/ mtime[f] # m \/ f \in hidden \/ ~running

=============================================================================
