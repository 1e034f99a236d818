--------------------------- MODULE CollectorProofs ---------------------------
(***************************************************************************)
(* Theorems about WindowFocusCollector, for any titles, and about          *)
(* FileSystemCollector, for any files and any modification times; both for *)
(* any number of starts.  The two have nothing in common but what they     *)
(* take from CollectorBase.                                                *)
(***************************************************************************)
EXTENDS WindowFocusCollector, FileSystemCollector, TLAPS

USE DEF base_vars, NotStarted, MakeThread, CallStop, JoinThread

-----------------------------------------------------------------------------
(* WindowFocusCollector.                                                   *)

(* Every reachable state is well typed; thread_id_ is 0 or the id of a     *)
(* thread that was started.                                                *)
THEOREM TypeCorrect == Spec => []TypeOK
<1>1. Init => TypeOK
  <2>1. 0 \in 0..MaxStarts /\ 0 \in 0..0
    BY StartsAssumption
  <2>2. QED
    BY <2>1 DEF Init, TypeOK, OwnerPC, ThreadPC
<1>2. TypeOK /\ [Next]_vars => TypeOK'
  <2> SUFFICES ASSUME TypeOK, [Next]_vars PROVE TypeOK'
    OBVIOUS
  <2> USE DEF TypeOK, OwnerPC, ThreadPC, Goto, throttle
  <2>1. CASE Start
    <3>1. starts + 1 \in 0..MaxStarts /\ thread_id \in 0..(starts + 1)
      BY <2>1, StartsAssumption DEF Start
    <3>2. QED
      BY <2>1, <3>1 DEF Start
  <2>2. CASE Stop \/ OwnerStep
    BY <2>2 DEF Stop, OwnerStep, SeeThreadId, PostQuit, Join, Gone
  <2>3. CASE MakeQueue \/ SetHook \/ HookFails
    BY <2>3 DEF MakeQueue, SetHook, HookFails
  <2>4. CASE Emit \/ Unhook \/ GetQuit \/ Elapse
    <3>1. CASE Emit \/ Elapse
      BY <3>1 DEF Emit, Elapse
    <3>2. CASE Unhook \/ GetQuit
      BY <3>2 DEF Unhook, GetQuit
    <3>3. QED
      BY <2>4, <3>1, <3>2
  <2>5. CASE PublishId
    <3>1. starts \in 0..starts
      OBVIOUS
    <3>2. QED
      BY <2>5, <3>1 DEF PublishId
  <2>6. ASSUME NEW title \in Titles, WinEvent(title) PROVE TypeOK'
    BY <2>6 DEF WinEvent
  <2>7. CASE UNCHANGED vars
    BY <2>7 DEF vars
  <2>8. QED
    BY <2>1, <2>2, <2>3, <2>4, <2>5, <2>6, <2>7 DEF Next, ThreadStep
<1>3. QED
  BY <1>1, <1>2, PTL DEF Spec

-----------------------------------------------------------------------------

(* Where the owner and the thread can be at the same time.  instance_ is   *)
(* set exactly as long as there is a thread that is not joined, which is   *)
(* while the collector runs or somebody is inside stop(); the hook, and a  *)
(* callback, belong to the part of the thread in between.                  *)
ThreadInv ==
    /\ running => owner = "idle"
    /\ running \/ owner # "idle" <=> instance
    /\ instance <=> thread # "none"
    /\ hook => thread \in {"loop", "callback", "unhook"}
    /\ focused # NoTitle => thread = "callback"

LEMMA ThreadInvariant == Spec => []ThreadInv
<1>1. Init => ThreadInv
  BY DEF Init, ThreadInv
<1>2. TypeOK /\ ThreadInv /\ [Next]_vars => ThreadInv'
  <2> SUFFICES ASSUME TypeOK, ThreadInv, [Next]_vars PROVE ThreadInv'
    OBVIOUS
  <2> USE DEF ThreadInv, Goto, TypeOK
  <2>1. CASE Start \/ Stop
    BY <2>1 DEF Start, Stop
  <2>2. CASE OwnerStep
    BY <2>2 DEF OwnerStep, SeeThreadId, PostQuit, Join
  <2>3. CASE MakeQueue \/ PublishId \/ SetHook \/ HookFails
    BY <2>3 DEF MakeQueue, PublishId, SetHook, HookFails
  <2>4. CASE Emit \/ Unhook \/ GetQuit \/ Elapse
    BY <2>4 DEF Emit, Unhook, GetQuit, Elapse
  <2>5. ASSUME NEW title \in Titles, WinEvent(title) PROVE ThreadInv'
    BY <2>5 DEF WinEvent
  <2>6. CASE UNCHANGED vars
    BY <2>6 DEF vars
  <2>7. QED
    BY <2>1, <2>2, <2>3, <2>4, <2>5, <2>6 DEF Next, ThreadStep
<1>3. QED
  BY <1>1, <1>2, TypeCorrect, PTL DEF Spec

(* stop() never clears instance_ under WinEventProc, which has tested it   *)
(* once and goes on using it.                                              *)
THEOREM InstanceStays == Spec => []InstanceOutlivesCallback
<1>1. ThreadInv => InstanceOutlivesCallback
  BY DEF ThreadInv, InstanceOutlivesCallback
<1>2. QED
  BY <1>1, ThreadInvariant, PTL

(* After stop() a start() finds no thread, hook or callback of an earlier  *)
(* one, also when stop() came before the thread had run at all, or when    *)
(* the hook could not be installed.                                        *)
THEOREM NothingLeft == Spec => []StopLeavesNothing
<1>1. ThreadInv => StopLeavesNothing
  BY DEF ThreadInv, StopLeavesNothing
<1>2. QED
  BY <1>1, ThreadInvariant, PTL

(* stop() never waits in vain, unless the hook could not be installed: for *)
(* an id, the thread that will publish it has not come to that yet; for    *)
(* the post to succeed, it needs but the thread's id and queue, which are  *)
(* still to come if they are not there; for the join, the WM_QUIT is in    *)
(* the queue, or the thread has taken it and is on its way out.            *)
StopWaitsForThread ==
    /\ owner = "naming" => thread_id # 0 \/ thread \in {"new", "unnamed"}
    /\ owner = "posting" => \/ thread_id = starts /\ thread \notin Gone \cup {"new"}
                            \/ thread \in {"new", "unnamed", "failed"}
    /\ owner = "joining" => quit \/ thread \in {"unhook", "failed", "ended"}

(* A thread that is past that point has published its own id over that of  *)
(* an earlier one; and WM_QUIT is sent by stop() alone, once.        *)
QuitInv ==
    /\ thread # "none" => starts # 0
    /\ thread \notin {"none", "new", "unnamed"} => thread_id = starts
    /\ owner # "joining" /\ thread # "none" => ~quit /\ thread \notin {"unhook", "ended"}
    /\ owner = "joining" => quit \/ thread \in {"unhook", "failed", "ended"}

LEMMA QuitInvariant == Spec => []QuitInv
<1>1. Init => QuitInv
  BY DEF Init, QuitInv
<1>2. TypeOK /\ ThreadInv /\ QuitInv /\ [Next]_vars => QuitInv'
  <2> SUFFICES ASSUME TypeOK, ThreadInv, QuitInv, [Next]_vars PROVE QuitInv'
    OBVIOUS
  <2> USE DEF ThreadInv, QuitInv, Goto, TypeOK
  <2>1. CASE Start \/ Stop
    <3>1. starts \in Nat
      BY StartsAssumption
    <3>2. QED
      BY <2>1, <3>1 DEF Start, Stop
  <2>2. CASE OwnerStep
    BY <2>2 DEF OwnerStep, SeeThreadId, PostQuit, Join, Gone, ThreadPC
  <2>3. CASE MakeQueue \/ PublishId \/ SetHook \/ HookFails
    BY <2>3 DEF MakeQueue, PublishId, SetHook, HookFails
  <2>4. CASE Emit \/ Unhook \/ GetQuit \/ Elapse
    BY <2>4 DEF Emit, Unhook, GetQuit, Elapse
  <2>5. ASSUME NEW title \in Titles, WinEvent(title) PROVE QuitInv'
    BY <2>5 DEF WinEvent
  <2>6. CASE UNCHANGED vars
    BY <2>6 DEF vars
  <2>7. QED
    BY <2>1, <2>2, <2>3, <2>4, <2>5, <2>6 DEF Next, ThreadStep
<1>3. QED
  BY <1>1, <1>2, TypeCorrect, ThreadInvariant, PTL DEF Spec

(* No WM_QUIT is lost, however early stop() comes, with thread_id_ unset   *)
(* or still that of an earlier thread: what StopReturnsIfHooked needs of   *)
(* the states, the fairness of the two threads being the rest.             *)
THEOREM QuitIsNeverLost == Spec => []StopWaitsForThread
<1>1. TypeOK /\ ThreadInv /\ QuitInv => StopWaitsForThread
  BY DEF TypeOK, ThreadPC, ThreadInv, QuitInv, StopWaitsForThread, Gone
<1>2. QED
  BY <1>1, TypeCorrect, ThreadInvariant, QuitInvariant, PTL

-----------------------------------------------------------------------------
(* FileSystemCollector.                                                    *)

(* Every reachable state is well typed; there is one event at most on its  *)
(* way out. *)
THEOREM ScansAreTyped == ScanSpec => []ScanTypeOK
<1>1. ScanInit => ScanTypeOK
  <2>1. 0 \in 0..MaxStarts
    BY StartsAssumption
  <2>2. QED
    BY <2>1 DEF ScanInit, ScanTypeOK, NoEvent
<1>2. ScanTypeOK /\ [ScanNext]_scan_vars => ScanTypeOK'
  <2> SUFFICES ASSUME ScanTypeOK, [ScanNext]_scan_vars PROVE ScanTypeOK'
    OBVIOUS
  <2> USE DEF ScanTypeOK, history, NoEvent, disk
  <2>1. ASSUME NEW f \in Files, NEW m \in MTimes \cup {Absent}, Change(f, m)
        PROVE  ScanTypeOK'
    BY <2>1 DEF Change
  <2>2. CASE StartScans
    <3>1. starts + 1 \in 0..MaxStarts
      BY <2>2, StartsAssumption DEF StartScans
    <3>2. QED
      BY <2>2, <3>1 DEF StartScans
  <2>3. CASE StopScans \/ JoinScans \/ BeginScan \/ \E files \in SUBSET Files : Obstruct(files)
    BY <2>3 DEF Obstruct, StopScans, JoinScans, BeginScan
  <2>4. ASSUME NEW f \in Files, VisitChanged(f) PROVE ScanTypeOK'
    <3>1. mtime[f] \in MTimes
      BY <2>4 DEF VisitChanged, Examined
    <3>2. [file |-> f, mtime |-> mtime[f], type |-> TypeFor(f)] \in Event
      BY <3>1 DEF Event, TypeFor
    <3>3. event' \in {{e} : e \in Event}
      BY <2>4, <3>2 DEF VisitChanged
    <3>4. /\ file_states' \in [Files -> MTimes \cup {Absent}]
          /\ todo' \subseteq Files /\ discovered' \subseteq Files
      BY <2>4, <3>1 DEF VisitChanged, Remember
    <3>5. QED
      BY <2>4, <3>3, <3>4 DEF VisitChanged
  <2>5. ASSUME NEW f \in Files, VisitUnchanged(f) \/ VisitNothing(f)
        PROVE  ScanTypeOK'
    BY <2>5 DEF VisitUnchanged, VisitNothing, Forget
  <2>6. CASE EmitFile \/ EmitThrows
    <3>1. event \subseteq Event
      OBVIOUS
    <3>2. reported' \in [Files -> MTimes \cup {Absent}] /\ thrown' \subseteq Event
      BY <2>6, <3>1 DEF EmitFile, EmitThrows, OfOtherFiles, Event
    <3>3. QED
      BY <2>6, <3>2 DEF EmitFile, EmitThrows
  <2>7. CASE EndScan \/ Wake \/ EndThread
    BY <2>7 DEF EndScan, Wake, EndThread
  <2>8. CASE UNCHANGED scan_vars
    BY <2>8 DEF scan_vars
  <2>9. QED
    BY <2>1, <2>2, <2>3, <2>4, <2>5, <2>6, <2>7, <2>8 DEF ScanNext, ScanStep, Visit
<1>3. QED
  BY <1>1, <1>2, PTL DEF ScanSpec

-----------------------------------------------------------------------------

(* Where the owner and the thread can be at the same time; above all, that *)
(* start() finds no thread, so that no event is on its way when a new      *)
(* thread begins.                                                          *)
OneScanner ==
    /\ running => owner = "idle"
    /\ thread = "none" <=> owner = "idle" /\ ~running
    /\ event # NoEvent => thread = "emit"

(* What is on its way out is what is remembered, and a file is remembered  *)
(* exactly if it has been discovered.                                      *)
Remembered ==
    /\ \A e \in event : e.mtime = file_states[e.file]
    /\ \A f \in Files : f \in discovered <=> file_states[f] # Absent

ScanInv == OneScanner /\ Remembered /\ NoChangeForgotten

LEMMA AfterVisit ==
    ASSUME ScanTypeOK, ScanInv, NEW f \in Files, VisitChanged(f) PROVE ScanInv'
<1> USE DEF ScanInv
<1>1. mtime[f] # Absent /\ event = {}
  BY DEF VisitChanged, ComesTo, Examined, OneScanner, NoEvent
<1>2. OneScanner'
  BY DEF OneScanner, VisitChanged, ComesTo
<1>3. file_states' = [file_states EXCEPT ![f] = mtime[f]]
  BY DEF VisitChanged, Remember
<1>4. event' = {[file |-> f, mtime |-> mtime[f], type |-> TypeFor(f)]}
  BY DEF VisitChanged
<1>5. Remembered'
  <2>1. \A g \in Files : g \in discovered' <=> g \in discovered \/ g = f
    BY DEF VisitChanged, TypeFor, Remembered
  <2>2. \A g \in Files : file_states'[g] = IF g = f THEN mtime[f] ELSE file_states[g]
    BY <1>3 DEF ScanTypeOK
  <2>3. QED
    BY <1>1, <1>4, <2>1, <2>2 DEF Remembered
<1>6. NoChangeForgotten'
  <2> SUFFICES ASSUME NEW g \in Files, file_states'[g] # Absent,
                      file_states'[g] # reported'[g]
               PROVE  \E e \in event' \cup thrown' :
                          e.file = g /\ e.mtime = file_states'[g]
    BY DEF NoChangeForgotten
  <2>1. CASE g = f
    <3>1. /\ file_states'[g] = mtime[f]
          /\ [file |-> f, mtime |-> mtime[f], type |-> TypeFor(f)] \in event'
      BY <1>3, <1>4, <2>1 DEF ScanTypeOK
    <3>2. QED
      BY <2>1, <3>1
  <2>2. CASE g # f
    <3>1. file_states'[g] = file_states[g] /\ reported' = reported /\ thrown' = thrown
      BY <1>3, <2>2 DEF ScanTypeOK, VisitChanged
    <3>2. QED
      BY <1>1, <3>1 DEF NoChangeForgotten
  <2>3. QED
    BY <2>1, <2>2
<1>7. QED
  BY <1>2, <1>5, <1>6

LEMMA AfterEmit ==
    ASSUME ScanTypeOK, ScanInv, EmitFile \/ EmitThrows PROVE ScanInv'
<1> USE DEF ScanInv
<1>1. OneScanner' /\ Remembered'
  BY DEF OneScanner, Remembered, EmitFile, EmitThrows, NoEvent
<1>2. NoChangeForgotten'
  <2> SUFFICES ASSUME NEW f \in Files, file_states[f] # Absent,
                      file_states[f] # reported'[f]
               PROVE  \E t \in thrown' : t.file = f /\ t.mtime = file_states[f]
    BY DEF NoChangeForgotten, EmitFile, EmitThrows, NoEvent
  <2>1. CASE \E e \in event : e.file = f
    <3>1. PICK e \in event : e.file = f
      BY <2>1
    <3>2. event = {e} /\ e.mtime = file_states[f]
      BY <3>1 DEF ScanTypeOK, NoEvent, Remembered
    <3>3. ~EmitFile
      BY <3>1, <3>2 DEF EmitFile, ScanTypeOK
    <3>4. QED
      BY <3>1, <3>2, <3>3 DEF EmitThrows
  <2>2. CASE \A e \in event : e.file # f
    <3>1. reported'[f] = reported[f]
      BY <2>2 DEF EmitFile, EmitThrows, ScanTypeOK
    <3>2. PICK t \in thrown : t.file = f /\ t.mtime = file_states[f]
      BY <2>2, <3>1 DEF NoChangeForgotten
    <3>3. t \in thrown'
      BY <2>2, <3>2 DEF EmitFile, EmitThrows, OfOtherFiles
    <3>4. QED
      BY <3>2, <3>3
  <2>3. QED
    BY <2>1, <2>2
<1>3. QED
  BY <1>1, <1>2

LEMMA ScanInvariant == ScanSpec => []ScanInv
<1>1. ScanInit => ScanInv
  BY DEF ScanInit, ScanInv, OneScanner, Remembered, NoChangeForgotten, NoEvent
<1>2. ScanTypeOK /\ ScanInv /\ [ScanNext]_scan_vars => ScanInv'
  <2> SUFFICES ASSUME ScanTypeOK, ScanInv, [ScanNext]_scan_vars PROVE ScanInv'
    OBVIOUS
  <2> USE DEF ScanInv, OneScanner, Remembered, NoChangeForgotten, history, NoEvent, disk
  <2>1. ASSUME NEW f \in Files, NEW m \in MTimes \cup {Absent}, Change(f, m)
        PROVE  ScanInv'
    BY <2>1 DEF Change
  <2>2. CASE StartScans \/ StopScans \/ JoinScans \/ BeginScan
             \/ \E files \in SUBSET Files : Obstruct(files)
    BY <2>2 DEF Obstruct, StartScans, StopScans, JoinScans, BeginScan
  <2>3. ASSUME NEW f \in Files, VisitChanged(f) PROVE ScanInv'
    BY <2>3, AfterVisit
  <2>4. ASSUME NEW f \in Files, VisitUnchanged(f) \/ VisitNothing(f)
        PROVE  ScanInv'
    BY <2>4 DEF VisitUnchanged, VisitNothing, Forget
  <2>5. CASE EmitFile \/ EmitThrows
    BY <2>5, AfterEmit
  <2>6. CASE EndScan \/ Wake \/ EndThread
    BY <2>6 DEF EndScan, Wake, EndThread
  <2>7. CASE UNCHANGED scan_vars
    BY <2>7 DEF scan_vars
  <2>8. QED
    BY <2>1, <2>2, <2>3, <2>4, <2>5, <2>6, <2>7 DEF ScanNext, ScanStep, Visit
<1>3. QED
  BY <1>1, <1>2, ScansAreTyped, PTL DEF ScanSpec

(* However files change beneath a scan, and however the collector is       *)
(* stopped and started, what it remembers of a file it has reported, is    *)
(* about to report, or has handed to a callback that threw.                *)
THEOREM ChangesAreReported == ScanSpec => []NoChangeForgotten
<1>1. ScanInv => NoChangeForgotten
  BY DEF ScanInv
<1>2. QED
  BY <1>1, ScanInvariant, PTL

(* No path is ever discovered a second time.                               *)
THEOREM FilesAreDiscoveredOnce == ScanSpec => DiscoveredOnce
<1> DEFINE OnceMore == \A f \in discovered : \A e \in event' \ event :
                           e.file = f => e.type = "FileModified"
<1>1. ScanTypeOK /\ ScanInv /\ [ScanNext]_scan_vars => [OnceMore]_scan_vars
  <2> SUFFICES ASSUME ScanTypeOK, ScanInv, ScanNext, NEW f \in discovered,
                      NEW e \in event' \ event, e.file = f
               PROVE  e.type = "FileModified"
    OBVIOUS
  <2>1. PICK g \in Files : VisitChanged(g)
    BY DEF ScanNext, ScanStep, Visit, Change, Obstruct, StartScans, StopScans, JoinScans,
           BeginScan, VisitUnchanged, VisitNothing, EmitFile, EmitThrows, EndScan, Wake, EndThread,
           NoEvent
  <2>2. e = [file |-> g, mtime |-> mtime[g], type |-> TypeFor(g)]
    BY <2>1 DEF VisitChanged
  <2>3. file_states[g] # Absent
    BY <2>2 DEF ScanInv, Remembered
  <2>4. QED
    BY <2>2, <2>3 DEF TypeFor
<1>2. QED
  BY <1>1, ScansAreTyped, ScanInvariant, PTL DEF ScanSpec, DiscoveredOnce

=============================================================================
