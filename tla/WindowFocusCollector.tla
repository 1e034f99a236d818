------------------------ MODULE WindowFocusCollector ------------------------
(***************************************************************************)
(* WindowFocusCollector on Windows: the thread that owns the collector     *)
(* starts and stops it; a thread of the collector installs a hook and runs *)
(* a message loop, on which the system calls WinEventProc at each change   *)
(* of the foreground window.  stop() has to reach that loop with a WM_QUIT *)
(* whenever it is called, be it before the thread has run at all.          *)
(***************************************************************************)
EXTENDS CollectorBase

CONSTANTS
    Titles,        \* titles of windows
    NoTitle        \* the empty string

ASSUME NoTitleAssumption == NoTitle \notin Titles

VARIABLES
    instance,    \* instance_ is not null
    thread_id,   \* thread_id_: 0, or the id (a number in starts) of a thread
    quit,        \* WM_QUIT is in the thread's message queue
    hook,        \* hook_ is set
    focused,     \* the title WinEventProc has taken, while it is inside
    last_title,  \* last_window_title_
    recent       \* less than 500 ms have passed since last_event_time_

vars == <<base_vars, instance, thread_id, quit, hook, focused, last_title, recent>>
throttle == <<last_title, recent>>

(* "new" has no message queue yet; "unnamed" has one, and has not stored   *)
(* its id; "failed" has returned for want of a hook, "ended" in order.     *)
ThreadPC == {"none", "new", "unnamed", "hooking", "loop", "callback", "unhook",
             "failed", "ended"}

Gone == {"none", "failed", "ended"}
OwnerPC  == {"idle", "naming", "posting", "joining"}

TypeOK ==
    /\ running \in BOOLEAN /\ instance \in BOOLEAN
    /\ owner \in OwnerPC /\ thread \in ThreadPC
    /\ starts \in 0..MaxStarts /\ thread_id \in 0..starts
    /\ quit \in BOOLEAN /\ hook \in BOOLEAN /\ recent \in BOOLEAN
    /\ focused \in Titles \cup {NoTitle}
    /\ last_title \in Titles \cup {NoTitle}

Init ==
    /\ NotStarted
    /\ instance = FALSE /\ thread_id = 0
    /\ quit = FALSE /\ hook = FALSE
    /\ focused = NoTitle /\ last_title = NoTitle
    /\ recent = FALSE

-----------------------------------------------------------------------------
(* start() and stop().                                                     *)

Start ==
    /\ MakeThread("new")
    /\ instance' = TRUE /\ quit' = FALSE
    /\ UNCHANGED <<thread_id, hook, focused, throttle>>

Stop ==
    /\ CallStop("naming")
    /\ UNCHANGED <<instance, thread_id, quit, hook, focused, throttle>>

(* Some thread has published its id - perhaps that of an earlier start(),  *)
(* for thread_id_ is never reset. *)
SeeThreadId ==
    /\ owner = "naming"
    /\ thread_id # 0
    /\ owner' = "posting"
    /\ UNCHANGED <<running, instance, thread, starts, thread_id, quit, hook, focused,
                   throttle>>

(* Mutant of PostQuit: PostThreadMessage is called once, whatever it says. *)
PostQuitMutant ==
    /\ owner = "posting"
    /\ quit' = (thread_id = starts /\ thread \notin Gone \cup {"new"})
    /\ owner' = "joining"
    /\ UNCHANGED <<running, instance, thread, starts, thread_id, hook, focused, throttle>>

(* PostThreadMessage succeeds: the id is that of a live thread that has a  *)
(* message queue.  Otherwise it is tried again.                            *)
PostQuit ==
    /\ owner = "posting"
    /\ thread_id = starts /\ thread \notin Gone \cup {"new"}
    /\ quit' = TRUE
    /\ owner' = "joining"
    /\ UNCHANGED <<running, instance, thread, starts, thread_id, hook, focused, throttle>>

(* Mutant of Join: instance_ is cleared, and stop() ends, without the join. *)
JoinMutant ==
    /\ owner = "joining"
    /\ instance' = FALSE
    /\ owner' = "idle"
    /\ UNCHANGED <<running, thread, starts, thread_id, quit, hook, focused, throttle>>

Join ==
    /\ JoinThread({"failed", "ended"})
    /\ instance' = FALSE
    /\ UNCHANGED <<thread_id, quit, hook, focused, throttle>>

-----------------------------------------------------------------------------
(* run_message_loop() and WinEventProc().                                  *)

Goto(place) == thread' = place

(* PeekMessage creates the message queue. *)
MakeQueue ==
    /\ thread = "new"
    /\ Goto("unnamed")
    /\ UNCHANGED <<running, instance, owner, starts, thread_id, quit, hook, focused,
                   throttle>>

PublishId ==
    /\ thread = "unnamed"
    /\ thread_id' = starts
    /\ Goto("hooking")
    /\ UNCHANGED <<running, instance, owner, starts, quit, hook, focused, throttle>>

SetHook ==
    /\ thread = "hooking"
    /\ hook' = TRUE
    /\ Goto("loop")
    /\ UNCHANGED <<running, instance, owner, starts, thread_id, quit, focused, throttle>>

(* Without a hook the thread returns, and its message queue is gone. *)
HookFails ==
    /\ thread = "hooking"
    /\ Goto("failed")
    /\ UNCHANGED <<running, instance, owner, starts, thread_id, quit, hook, focused,
                   throttle>>

(* WinEventProc on the foreground window of that title: it tests instance_ *)
(* and running_ and the title it has emitted last ...                      *)
WinEvent(title) ==
    /\ thread = "loop"
    /\ instance /\ running
    /\ title # last_title
    /\ focused' = title
    /\ Goto("callback")
    /\ UNCHANGED <<running, instance, owner, starts, thread_id, quit, hook, throttle>>

(* ... and emits, unless it did so less than 500 ms ago. *)
Emit ==
    /\ thread = "callback"
    /\ IF recent
       THEN UNCHANGED throttle
       ELSE recent' = TRUE /\ last_title' = focused
    /\ focused' = NoTitle
    /\ Goto("loop")
    /\ UNCHANGED <<running, instance, owner, starts, thread_id, quit, hook>>

(* GetMessage returns the WM_QUIT: the loop ends. *)
GetQuit ==
    /\ thread = "loop"
    /\ quit
    /\ quit' = FALSE
    /\ Goto("unhook")
    /\ UNCHANGED <<running, instance, owner, starts, thread_id, hook, focused, throttle>>

(* Mutant of Unhook: the hook is left to the system. *)
UnhookMutant ==
    /\ thread = "unhook"
    /\ Goto("ended")
    /\ UNCHANGED <<running, instance, owner, starts, thread_id, quit, hook, focused,
                   throttle>>

Unhook ==
    /\ thread = "unhook"
    /\ hook' = FALSE
    /\ Goto("ended")
    /\ UNCHANGED <<running, instance, owner, starts, thread_id, quit, focused, throttle>>

(* 500 ms after the last event. *)
Elapse ==
    /\ recent
    /\ recent' = FALSE
    /\ UNCHANGED <<running, instance, owner, thread, starts, thread_id, quit, hook,
                   focused, last_title>>

-----------------------------------------------------------------------------

OwnerStep  == SeeThreadId \/ PostQuit \/ Join
ThreadStep == MakeQueue \/ PublishId \/ SetHook \/ HookFails \/ Emit \/ Unhook

Next ==
    \/ Start \/ Stop \/ OwnerStep \/ ThreadStep \/ GetQuit \/ Elapse
    \/ \E title \in Titles : WinEvent(title)

Spec == Init /\ [][Next]_vars

(* Both threads go on.  WM_QUIT is one message among others; the system    *)
(* hands it over in the end even if windows keep changing.                 *)
Fairness == WF_vars(OwnerStep) /\ WF_vars(ThreadStep) /\ SF_vars(GetQuit)

FairSpec == Spec /\ Fairness

-----------------------------------------------------------------------------

(* WinEventProc tests instance_ once and uses it to the end: it is never   *)
(* cleared under it, though stop() may run beside it.                      *)
InstanceOutlivesCallback == thread = "callback" => instance

(* When stop() has returned the thread is gone, and with it the hook; a    *)
(* second start() then finds nothing left of the first but thread_id_.     *)
StopLeavesNothing ==
    owner = "idle" /\ ~running =>
        thread = "none" /\ ~hook /\ ~instance /\ focused = NoTitle

(* stop() returns, however early in the life of the thread it comes, with  *)
(* thread_id_ unset or still that of an earlier thread, if only the thread *)
(* has got its hook.  (Each thread has an id of its own.)                  *)
StopReturnsIfHooked == owner = "naming" ~> owner = "idle" \/ thread = "failed"

(* stop() returns, as the retry of PostThreadMessage is meant to ensure:   *)
(* not so when the hook could not be installed.                            *)
StopReturns == owner = "naming" ~> owner = "idle"

=============================================================================
