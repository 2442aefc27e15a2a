------------------------------- MODULE Mouse -------------------------------
(***************************************************************************)
(* The mouse filter: the input_server's thread, which asks the host for    *)
(* the pointer's position at every mouse event, and the settings watcher,  *)
(* a looper that turns sharing on or off when the tray has written the     *)
(* settings file.  They share gActivated and the host's pointer device     *)
(* without a lock: a function of VMWBackdoor is several backdoor calls,    *)
(* one step each, and those of the two threads interleave.                 *)
(*                                                                         *)
(* External, from how VMWBackdoor uses it: the host's pointer device.  It  *)
(* queues words for the guest: its version after READ, four for a          *)
(* position.  Reading more words than there are, DISABLE, and the host     *)
(* when it likes, put it in the error state.  Initially the add-on has     *)
(* been loaded; the settings file can always be opened and is written at   *)
(* once.                                                                   *)
(***************************************************************************)
EXTENDS Integers, Sequences

CONSTANTS
  MaxNotices,     \* bound: notifications waiting for the watcher
  MaxWords,       \* bound: words waiting in the device
  MaxResets       \* bound: times the host forgets the guest's mode

ASSUME MouseAssumption ==
  MaxNotices \in Nat \ {0} /\ MaxWords \in Nat /\ MaxWords >= 4 /\ MaxResets \in Nat

VARIABLES
  setting,        \* "mouse_enabled" in the settings file
  nodeNotices,    \* B_NODE_MONITOR messages queued for the watcher
  known,          \* the watcher's copy of the setting, gSettings
  gActivated,
  pointer,        \* the device's: "ok" or "error" (VMWARE_ERROR)
  absolute,       \* the device sends absolute positions: sharing is on
  words,          \* words queued in the device
  resets,
  at,             \* where each thread is
  mixed           \* history: two threads have been at it at once since the
                  \* watcher last began alone

mouseVars == <<setting, nodeNotices, known, gActivated, pointer, absolute, words, resets,
               at, mixed>>
pointerDevice == <<pointer, absolute, words>>
memory == <<known, gActivated>>
file == <<setting, nodeNotices>>

\* The input_server's two uses of the add-on, and the watcher.
MouseThreads == {"filter", "destructor", "watcher"}

Position == <<"buttons", "x", "y", "z">>
Words == {"version", "buttons", "x", "y", "z"}

MouseTypeOK ==
  /\ {setting, known, gActivated, absolute, mixed} \subseteq BOOLEAN
  /\ nodeNotices \in 0 .. MaxNotices
  /\ pointer \in {"ok", "error"}
  /\ words \in Seq(Words) /\ Len(words) <= MaxWords
  /\ resets \in 0 .. MaxResets
  /\ at \in [MouseThreads -> {"idle", "status", "data", "disable", "confirm", "read",
                              "check", "version", "absolute", "assign", "delete",
                              "gone"}]

MouseInit ==
  /\ setting \in BOOLEAN
  /\ known = setting /\ gActivated = setting
  /\ nodeNotices = 0
  /\ pointer = "error" /\ absolute = FALSE /\ words = <<>>
  /\ resets = 0
  /\ at = [t \in MouseThreads |-> "idle"]
  /\ mixed = FALSE

Go(t, from, to) == at[t] = from /\ at' = [at EXCEPT ![t] = to]

Loaded == at["destructor"] = "idle"
Alone(t) == \A u \in MouseThreads \ {t} : at[u] \in {"idle", "gone"}
Starts(t) == mixed' = IF t = "watcher" /\ Alone(t) THEN FALSE ELSE mixed \/ ~Alone(t)

-----------------------------------------------------------------------------
(* The device, one backdoor call each.                                     *)

Fails == pointer' = "error" /\ words' = <<>> /\ UNCHANGED absolute

\* VMW_BACK_MOUSE_DATA: n words off the queue.
Data(n) ==
  IF n > Len(words) THEN Fails
  ELSE words' = SubSeq(words, n + 1, Len(words)) /\ UNCHANGED <<pointer, absolute>>

\* The user moves the mouse: the device queues the position.
DeviceMoves ==
  /\ absolute /\ pointer = "ok"
  /\ Len(words) + 4 <= MaxWords
  /\ words' = words \o Position
  /\ UNCHANGED <<file, memory, pointer, absolute, resets, at, mixed>>

\* "VMware will erase the mouse settings when the user will start using the
\* mouse", and after a suspension.
DeviceResets ==
  /\ resets < MaxResets
  /\ resets' = resets + 1
  /\ pointer' = "error" /\ absolute' = FALSE /\ words' = <<>>
  /\ UNCHANGED <<file, memory, at, mixed>>

-----------------------------------------------------------------------------
(* VMWBackdoor.                                                            *)

\* EnableMouseSharing ends a call of Filter or of the watcher; so does
\* DisableMouseSharing, except in Filter, which enables again, and in the
\* destructor.
AfterDisable(t) ==
  CASE t = "filter" -> "read" [] t = "watcher" -> "idle" [] t = "destructor" -> "delete"

DisableMouseSharing(t) ==
  /\ Go(t, "disable", "confirm")
  /\ pointer' = "error" /\ absolute' = FALSE /\ words' = <<>>
  /\ UNCHANGED <<file, memory, resets, mixed>>

\* Its status is returned, but no caller looks at it.
ConfirmDisabled(t) ==
  /\ Go(t, "confirm", AfterDisable(t))
  /\ UNCHANGED <<file, memory, pointerDevice, resets, mixed>>

\* VMW_BACK_MOUSE_READ.
EnableReads(t) ==
  /\ Len(words) < MaxWords
  /\ Go(t, "read", "check")
  /\ pointer' = "ok" /\ words' = Append(words, "version")
  /\ UNCHANGED <<file, memory, absolute, resets, mixed>>

EnableChecks(t) ==
  /\ Go(t, "check", IF pointer = "ok" THEN "version" ELSE "idle")
  /\ UNCHANGED <<file, memory, pointerDevice, resets, mixed>>

EnableGetsVersion(t) ==
  /\ Go(t, "version", IF words # <<>> /\ Head(words) = "version" THEN "absolute" ELSE "idle")
  /\ Data(1)
  /\ UNCHANGED <<file, memory, resets, mixed>>

\* VMW_BACK_MOUSE_REQ_ABSOLUTE.
EnableRequests(t) ==
  /\ Go(t, "absolute", "idle")
  /\ absolute' = (pointer = "ok")
  /\ UNCHANGED <<file, memory, pointer, words, resets, mixed>>

-----------------------------------------------------------------------------
(* VMWareMouseFilter.                                                      *)

\* Filter, called for a mouse event.
Filter ==
  /\ Loaded /\ gActivated
  /\ Go("filter", "idle", "status")
  /\ Starts("filter")
  /\ UNCHANGED <<file, memory, pointerDevice, resets>>

\* Mutant: an error is treated as no data.
GetCursorStatus_Ignores ==
  /\ Go("filter", "status", IF pointer = "error" \/ words = <<>> THEN "idle" ELSE "data")
  /\ UNCHANGED <<file, memory, pointerDevice, resets, mixed>>

\* GetCursorPosition: an error is answered by turning sharing off and on, no
\* words by passing or skipping the event.
GetCursorStatus ==
  /\ Go("filter", "status",
        IF pointer = "error" THEN "disable" ELSE IF words = <<>> THEN "idle" ELSE "data")
  /\ UNCHANGED <<file, memory, pointerDevice, resets, mixed>>

GetCursorData ==
  /\ Go("filter", "data", "idle")
  /\ Data(4)
  /\ UNCHANGED <<file, memory, resets, mixed>>

\* ~VMWareMouseFilter, when no event is being filtered.
Destroy ==
  /\ at["filter"] = "idle"
  /\ Go("destructor", "idle", "disable")
  /\ Starts("destructor")
  /\ UNCHANGED <<file, memory, pointerDevice, resets>>

\* delete gSettings, then the watcher is told to quit: when it has finished the
\* message it is at.
QuitWatcher ==
  /\ at["watcher"] = "idle"
  /\ at["destructor"] = "delete"
  /\ at' = [t \in MouseThreads |-> "gone"]
  /\ nodeNotices' = 0
  /\ UNCHANGED <<setting, memory, pointerDevice, resets, mixed>>

-----------------------------------------------------------------------------
(* VMWareSettingsWatcher::MessageReceived, and the tray.                   *)

\* Reload.  Once gSettings is deleted, it reads anything.
Reload ==
  /\ nodeNotices > 0 /\ nodeNotices' = nodeNotices - 1
  /\ Go("watcher", "idle", "assign")
  /\ Starts("watcher")
  /\ known' \in (IF at["destructor"] = "delete" THEN BOOLEAN ELSE {setting})
  /\ UNCHANGED <<setting, gActivated, pointerDevice, resets>>

\* Mutant: sharing is only ever turned on here.
Assign_OnlyEnables ==
  /\ gActivated' = known
  /\ Go("watcher", "assign", IF known THEN "read" ELSE "idle")
  /\ UNCHANGED <<file, known, pointerDevice, resets, mixed>>

Assign ==
  /\ gActivated' = known
  /\ Go("watcher", "assign", IF known THEN "read" ELSE "disable")
  /\ UNCHANGED <<file, known, pointerDevice, resets, mixed>>

\* The tray writes this setting, or another one, to the file.
SetBool ==
  /\ at["watcher"] # "gone"
  /\ nodeNotices < MaxNotices
  /\ setting' \in BOOLEAN
  /\ nodeNotices' = nodeNotices + 1
  /\ UNCHANGED <<memory, pointerDevice, resets, at, mixed>>

\* The add-on is not loaded again.
Unloaded ==
  /\ at["watcher"] = "gone"
  /\ UNCHANGED mouseVars

Backdoor(t) ==
  \/ DisableMouseSharing(t) \/ ConfirmDisabled(t)
  \/ EnableReads(t) \/ EnableChecks(t) \/ EnableGetsVersion(t) \/ EnableRequests(t)

FilterStep == Filter \/ GetCursorStatus \/ GetCursorData \/ Backdoor("filter")
DestructorStep == QuitWatcher \/ Backdoor("destructor")
WatcherStep == Reload \/ Assign \/ Backdoor("watcher")

MouseNext ==
  \/ FilterStep \/ WatcherStep \/ Destroy \/ DestructorStep
  \/ SetBool \/ DeviceMoves \/ DeviceResets \/ Unloaded

MouseSpec == MouseInit /\ [][MouseNext]_mouseVars

\* Both threads go on, and the user keeps moving the mouse: there is always
\* another event to filter.
MouseFairSpec ==
  /\ MouseSpec
  /\ WF_mouseVars(FilterStep) /\ WF_mouseVars(WatcherStep) /\ WF_mouseVars(DestructorStep)

-----------------------------------------------------------------------------
(* Properties.                                                             *)

AtRest == nodeNotices = 0 /\ \A t \in MouseThreads : at[t] \in {"idle", "gone"}

\* Once the watcher has handled the notifications of a file that says mouse
\* sharing is off, or the add-on has been unloaded, the host does not send
\* absolute positions; unless the filter was between its test of gActivated and
\* its end when the watcher began, or the watcher at work when the destructor
\* did: then sharing may have been turned on again last.
OffWhenDisabled == AtRest /\ ~mixed /\ (~setting \/ ~Loaded) => ~absolute

\* Sharing comes back: however the calls of the two threads have mixed, whatever
\* they left in the device's queue, and whenever the host forgot the guest's mode,
\* if the setting stays on and the file is not written any more, then the host
\* sends absolute positions in the end, and keeps doing so.
WatcherRests == nodeNotices = 0 /\ at["watcher"] = "idle"
SharingComesBack ==
  <>[](setting /\ Loaded /\ WatcherRests) => <>[](absolute /\ pointer = "ok")
=============================================================================
