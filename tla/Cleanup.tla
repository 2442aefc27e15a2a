------------------------------- MODULE Cleanup ------------------------------
(***************************************************************************)
(* Cleaning up and shrinking the virtual disks.  The tray's menu offers it *)
(* while none is under way; a thread then asks the user for the volumes,   *)
(* fills each one with files that already have no name, so that its free   *)
(* space is all zeroes, deletes them, and asks the host to shrink the      *)
(* disks.                                                                  *)
(*                                                                         *)
(* External: the user; the volumes, with the space other programs take;    *)
(* file creation (which opens and empties a file of that name, if there is *)
(* one) and deletion (by name; the file lives on while it is open); the    *)
(* end of the Deskbar, which ends all threads and closes their files.      *)
(* Space is counted in buffers of BUF_SIZE, half of an MB.  The tray is    *)
(* not removed while a clean-up is under way, and progress is not shown.   *)
(***************************************************************************)
EXTENDS Integers, SequencesExt, FiniteSetsExt

CONSTANTS
  Threads,        \* one for each clean-up that can be under way
  Devices,
  NoFile,
  MAX_FILES,
  MAX_FILE_SIZE,  \* in buffers
  Capacity,       \* of each volume, in buffers
  MaxClicks,      \* bound on the clicks on the tray, while the Deskbar lives
  MaxKills        \* bound on the ends of the Deskbar

Nodes == 1 .. MAX_FILES * Cardinality(Threads) + Cardinality(Devices)

ASSUME CleanupAssumption ==
  /\ {MAX_FILES, MAX_FILE_SIZE, Capacity, MaxClicks} \subseteq Nat \ {0}
  /\ MaxKills \in Nat
  /\ IsFiniteSet(Threads) /\ IsFiniteSet(Devices)
  /\ NoFile \notin Nodes

VARIABLES
  fCleanupInProgress,
  queue,         \* the looper's messages: "click" on the tray, or "shrink"
  clicks,
  offering,      \* a menu on the screen offers to shrink the disks
  pc,            \* where a clean-up is, "none" before and after it
  fVolumesList, selected, notices,  \* its selection window
  fToCleanup,    \* the volumes it has still to clean, the current one first
  spaceSuckingFiles,
  written,       \* buffers written to the last of them
  status,        \* what filling the volume returned
  fCancelled,
  device,        \* each device is mounted and unmounted at most once
  others,        \* the space other programs take on it
  entry,         \* the file "space_sucking_file" names
  size,          \* the files, by node
  kills,
  overlap,       \* history: a menu was opened before a pick was handled
  orphans        \* history: volumes left with a name by the Deskbar's end

tray == <<fCleanupInProgress, queue, clicks, offering, overlap>>
window == <<fVolumesList, selected, notices>>
filling == <<spaceSuckingFiles, written, status>>
disk == <<others, entry, size>>
history == <<kills, orphans>>
vars == <<tray, pc, window, fToCleanup, filling, fCancelled, device, disk, history>>

Filling == {"create", "find", "remove", "write", "delete"}

TypeOK ==
  /\ {fCleanupInProgress, offering, overlap} \subseteq BOOLEAN
  /\ queue \in Seq({"click", "shrink"})
  /\ clicks \in 0 .. MaxClicks
  /\ pc \in [Threads -> Filling \cup {"none", "ask", "select", "volume", "alert", "confirm", "shrink"}]
  /\ \A t \in Threads :
       /\ IsInjective(fVolumesList[t]) /\ Range(fVolumesList[t]) \subseteq Devices
       /\ selected[t] \subseteq Range(fVolumesList[t])
       /\ IsInjective(fToCleanup[t]) /\ Range(fToCleanup[t]) \subseteq Devices
       /\ Len(spaceSuckingFiles[t]) <= MAX_FILES
       /\ Range(spaceSuckingFiles[t]) \subseteq Nodes
  /\ written \in [Threads -> 0 .. MAX_FILE_SIZE]
  /\ status \in [Threads -> {"B_OK", "B_DEVICE_FULL", "B_INTERRUPTED", "B_ERROR"}]
  /\ fCancelled \in [Threads -> BOOLEAN]
  /\ device \in [Devices -> {"absent", "mounted", "gone"}]
  /\ others \in [Devices -> 0 .. 1]
  /\ entry \in [Devices -> Nodes \cup {NoFile}]
  /\ size \in [Nodes -> 0 .. MAX_FILE_SIZE]
  /\ kills \in 0 .. MaxKills
  /\ orphans \subseteq Devices

Mounted == {d \in Devices : device[d] = "mounted"}

Idle ==
  /\ fCleanupInProgress' = FALSE /\ queue' = <<>> /\ clicks' = 0 /\ offering' = FALSE /\ overlap' = FALSE
  /\ pc' = [t \in Threads |-> "none"]
  /\ fVolumesList' = [t \in Threads |-> <<>>]
  /\ selected' = [t \in Threads |-> {}]
  /\ notices' = [t \in Threads |-> <<>>]
  /\ fToCleanup' = [t \in Threads |-> <<>>]
  /\ spaceSuckingFiles' = [t \in Threads |-> <<>>]
  /\ written' = [t \in Threads |-> 0]
  /\ status' = [t \in Threads |-> "B_OK"]
  /\ fCancelled' = [t \in Threads |-> FALSE]

Init ==
  /\ fCleanupInProgress = FALSE /\ queue = <<>> /\ clicks = 0 /\ offering = FALSE /\ overlap = FALSE
  /\ pc = [t \in Threads |-> "none"]
  /\ fVolumesList = [t \in Threads |-> <<>>]
  /\ selected = [t \in Threads |-> {}]
  /\ notices = [t \in Threads |-> <<>>]
  /\ fToCleanup = [t \in Threads |-> <<>>]
  /\ spaceSuckingFiles = [t \in Threads |-> <<>>]
  /\ written = [t \in Threads |-> 0]
  /\ status = [t \in Threads |-> "B_OK"]
  /\ fCancelled = [t \in Threads |-> FALSE]
  /\ device \in [Devices -> {"absent", "mounted"}]
  /\ others \in [Devices -> 0 .. 1]
  /\ entry = [d \in Devices |-> NoFile]
  /\ size = [n \in Nodes |-> 0]
  /\ kills = 0 /\ orphans = {}

-----------------------------------------------------------------------------
(* The tray.                                                               *)

\* A click on the tray closes the menu that is on the screen.
Click ==
  /\ clicks < MaxClicks /\ clicks' = clicks + 1
  /\ queue' = Append(queue, "click")
  /\ offering' = FALSE
  /\ UNCHANGED <<fCleanupInProgress, overlap>>

Pick ==
  /\ offering /\ offering' = FALSE
  /\ queue' = Append(queue, "shrink")
  /\ UNCHANGED <<fCleanupInProgress, clicks, overlap>>

\* A menu opens, which offers a clean-up if none is under way.
MouseDown ==
  /\ queue # <<>> /\ Head(queue) = "click"
  /\ queue' = Tail(queue)
  /\ offering' = (offering \/ ~fCleanupInProgress)
  /\ overlap' = (overlap \/ Contains(queue, "shrink"))
  /\ UNCHANGED <<fCleanupInProgress, clicks>>

\* SHRINK_DISKS starts a thread, if the system has one to give.
ShrinkDisks ==
  /\ queue # <<>> /\ Head(queue) = "shrink"
  /\ queue' = Tail(queue)
  /\ \/ /\ \E t \in Threads : pc[t] = "none" /\ pc' = [pc EXCEPT ![t] = "ask"]
        /\ fCleanupInProgress' = TRUE
     \/ UNCHANGED <<pc, fCleanupInProgress>>
  /\ UNCHANGED <<clicks, offering, overlap>>

-----------------------------------------------------------------------------
(* The conversation with the user.                                         *)

At(t, a) == pc[t] = a
Goto(t, a) == pc' = [pc EXCEPT ![t] = a]

Return(t) ==
  /\ Goto(t, "none")
  /\ fCleanupInProgress' = FALSE
  /\ UNCHANGED <<queue, clicks, offering, overlap>>

\* Mutant: giving up at the first question leaves the flag set.
Start_CancelKeepsFlag(t) ==
  /\ At(t, "ask")
  /\ \/ Goto(t, "none") /\ UNCHANGED <<tray, window>>
     \/ Goto(t, "confirm") /\ UNCHANGED <<tray, window>>
     \/ /\ Goto(t, "select")
        /\ fVolumesList' = [fVolumesList EXCEPT ![t] = SetToSeq(Mounted)]
        /\ selected' = [selected EXCEPT ![t] = Mounted]
        /\ notices' = [notices EXCEPT ![t] = <<>>]
        /\ UNCHANGED tray

\* The first question: cancel, shrink at once, or clean up.  The selection
\* window lists the volumes there are, all selected.
Start(t) ==
  /\ At(t, "ask")
  /\ \/ Return(t) /\ UNCHANGED window
     \/ Goto(t, "confirm") /\ UNCHANGED <<tray, window>>
     \/ /\ Goto(t, "select")
        /\ fVolumesList' = [fVolumesList EXCEPT ![t] = SetToSeq(Mounted)]
        /\ selected' = [selected EXCEPT ![t] = Mounted]
        /\ notices' = [notices EXCEPT ![t] = <<>>]
        /\ UNCHANGED tray

Select(t) ==
  /\ At(t, "select")
  /\ \E d \in Range(fVolumesList[t]) :
       selected' = [selected EXCEPT ![t] = SymDiff(@, {d})]
  /\ UNCHANGED <<pc, tray, fVolumesList, notices>>

\* The window hears of the volumes that come and go.
DeviceNotice(t) ==
  /\ At(t, "select") /\ notices[t] # <<>>
  /\ LET d == Head(notices[t]).device
     IN  IF Head(notices[t]).mounted
         THEN /\ fVolumesList' = [fVolumesList EXCEPT ![t] =
                                    IF d \in Mounted THEN Append(@, d) ELSE @]
              /\ UNCHANGED selected
         ELSE /\ fVolumesList' = [fVolumesList EXCEPT ![t] = RemoveFirst(@, d)]
              /\ selected' = [selected EXCEPT ![t] = @ \ {d}]
  /\ notices' = [notices EXCEPT ![t] = Tail(@)]
  /\ UNCHANGED <<pc, tray>>

CloseWindow(t) ==
  /\ fVolumesList' = [fVolumesList EXCEPT ![t] = <<>>]
  /\ selected' = [selected EXCEPT ![t] = {}]
  /\ notices' = [notices EXCEPT ![t] = <<>>]

CancelSelection(t) ==
  /\ At(t, "select")
  /\ CloseWindow(t)
  /\ Return(t)
  /\ UNCHANGED <<fToCleanup, fCancelled>>

SelectedItems(t) == {k \in 1 .. Len(fVolumesList[t]) : fVolumesList[t][k] \in selected[t]}

\* The place in the list of the i-th of the selected items.
CurrentSelection(t, i) ==
  CHOOSE k \in SelectedItems(t) : Cardinality({j \in SelectedItems(t) : j <= k}) = i

CleanupSelection(t) ==
  /\ At(t, "select") /\ selected[t] # {}
  /\ fToCleanup' = [fToCleanup EXCEPT ![t] =
                      [i \in 1 .. Cardinality(SelectedItems(t)) |->
                         fVolumesList[t][CurrentSelection(t, i)]]]
  /\ fCancelled' = [fCancelled EXCEPT ![t] = FALSE]
  /\ CloseWindow(t)
  /\ Goto(t, "volume")
  /\ UNCHANGED tray

\* The "Stop" button of the status window.
StopOperation(t) ==
  /\ pc[t] \in Filling \cup {"volume", "alert"}
  /\ ~fCancelled[t] /\ fCancelled' = [fCancelled EXCEPT ![t] = TRUE]

\* The last question.  The host shrinks the disks, or not.
ConfirmShrink(t) ==
  /\ At(t, "confirm")
  /\ \/ Return(t)
     \/ Goto(t, "shrink") /\ UNCHANGED tray

StartShrink(t) == At(t, "shrink") /\ Return(t)

-----------------------------------------------------------------------------
(* Filling the volumes.                                                    *)

Volume(t) == Head(fToCleanup[t])
File(t) == Last(spaceSuckingFiles[t])

Open(d) ==
  UNION {Range(spaceSuckingFiles[t]) :
           t \in {u \in Threads : fToCleanup[u] # <<>> /\ Volume(u) = d}}
Living(d) == Open(d) \cup ({entry[d]} \ {NoFile})
FreeBytes(d) == Capacity - others[d] - MapThenSumSet(LAMBDA n : size[n], Living(d))

\* The next volume, skipping those that are gone.
NextVolume(t) ==
  /\ At(t, "volume")
  /\ \/ fToCleanup[t] = <<>> /\ Goto(t, "confirm") /\ UNCHANGED <<fToCleanup, filling>>
     \/ /\ fToCleanup[t] # <<>> /\ Volume(t) \notin Mounted
        /\ fToCleanup' = [fToCleanup EXCEPT ![t] = Tail(@)]
        /\ UNCHANGED <<pc, filling>>
     \/ /\ fToCleanup[t] # <<>> /\ Volume(t) \in Mounted
        /\ Goto(t, "create")
        /\ UNCHANGED <<fToCleanup, filling>>
  /\ UNCHANGED disk

Stop(t, s) ==
  /\ status' = [status EXCEPT ![t] = s]
  /\ Goto(t, "delete")

\* Mutant: the array of files has room for one more.
CreateFile_OneMore(t) ==
  /\ At(t, "create") /\ Len(spaceSuckingFiles[t]) <= MAX_FILES
  /\ LET d == Volume(t)
         living == UNION {Living(e) : e \in Devices}
         n == IF entry[d] # NoFile THEN entry[d] ELSE CHOOSE m \in Nodes : m \notin living
     IN  /\ entry' = [entry EXCEPT ![d] = n]
         /\ size' = [size EXCEPT ![n] = 0]
         /\ spaceSuckingFiles' = [spaceSuckingFiles EXCEPT ![t] = Append(@, n)]
  /\ written' = [written EXCEPT ![t] = 0]
  /\ Goto(t, "find")
  /\ UNCHANGED <<status, others>>

\* FillDirectory, the next file: CreateFile opens and empties the file that has
\* the name, or makes one.
CreateFile(t) ==
  /\ At(t, "create") /\ Len(spaceSuckingFiles[t]) < MAX_FILES
  /\ LET d == Volume(t)
         living == UNION {Living(e) : e \in Devices}
         n == IF entry[d] # NoFile THEN entry[d] ELSE CHOOSE m \in Nodes : m \notin living
     IN  /\ entry' = [entry EXCEPT ![d] = n]
         /\ size' = [size EXCEPT ![n] = 0]
         /\ spaceSuckingFiles' = [spaceSuckingFiles EXCEPT ![t] = Append(@, n)]
  /\ written' = [written EXCEPT ![t] = 0]
  /\ Goto(t, "find")
  /\ UNCHANGED <<status, others>>

CreateFails(t) ==
  /\ At(t, "create") /\ Len(spaceSuckingFiles[t]) < MAX_FILES
  /\ Stop(t, "B_ERROR")
  /\ UNCHANGED <<spaceSuckingFiles, written, disk>>

LastFile(t) ==
  /\ At(t, "create") /\ Len(spaceSuckingFiles[t]) = MAX_FILES
  /\ Stop(t, "B_OK")
  /\ UNCHANGED <<spaceSuckingFiles, written, disk>>

\* Mutant: only the first file loses its name.
FindEntry_First(t) ==
  /\ At(t, "find")
  /\ Goto(t, IF entry[Volume(t)] = NoFile \/ Len(spaceSuckingFiles[t]) > 1 THEN "write" ELSE "remove")
  /\ UNCHANGED <<filling, disk>>

\* The file loses its name; two threads on one volume may find the same name.
FindEntry(t) ==
  /\ At(t, "find")
  /\ Goto(t, IF entry[Volume(t)] = NoFile THEN "write" ELSE "remove")
  /\ UNCHANGED <<filling, disk>>

RemoveEntry(t) ==
  /\ At(t, "remove")
  /\ entry' = [entry EXCEPT ![Volume(t)] = NoFile]
  /\ Goto(t, "write")
  /\ UNCHANGED <<filling, others, size>>

\* Mutant: a write that does not fit is tried again.
WriteToFile_Retries(t) ==
  /\ At(t, "write")
  /\ IF written[t] < size[File(t)] \/ FreeBytes(Volume(t)) > 0
     THEN /\ written' = [written EXCEPT ![t] = @ + 1]
          /\ size' = [size EXCEPT ![File(t)] = IF @ > written[t] THEN @ ELSE written[t] + 1]
          /\ IF fCancelled[t] THEN Stop(t, "B_INTERRUPTED")
             ELSE /\ Goto(t, IF written'[t] = MAX_FILE_SIZE THEN "create" ELSE "write")
                  /\ UNCHANGED status
     ELSE UNCHANGED <<pc, written, size, status>>
  /\ UNCHANGED <<spaceSuckingFiles, others, entry>>

\* WriteToFile, one buffer: an error, a full device, or a step further, which
\* may be the last one of the file.
WriteToFile(t) ==
  /\ At(t, "write")
  /\ \/ Stop(t, "B_ERROR") /\ UNCHANGED <<written, size>>
     \/ IF written[t] < size[File(t)] \/ FreeBytes(Volume(t)) > 0
        THEN /\ written' = [written EXCEPT ![t] = @ + 1]
             /\ size' = [size EXCEPT ![File(t)] = IF @ > written[t] THEN @ ELSE written[t] + 1]
             /\ IF fCancelled[t] THEN Stop(t, "B_INTERRUPTED")
                ELSE /\ Goto(t, IF written'[t] = MAX_FILE_SIZE THEN "create" ELSE "write")
                     /\ UNCHANGED status
        ELSE Stop(t, "B_DEVICE_FULL") /\ UNCHANGED <<written, size>>
  /\ UNCHANGED <<spaceSuckingFiles, others, entry>>

\* The files are closed, and with that deleted, whatever stopped the loop.
\* "Stop" ends the clean-up, an error is shown before the next volume.
DeleteFiles(t) ==
  /\ At(t, "delete")
  /\ spaceSuckingFiles' = [spaceSuckingFiles EXCEPT ![t] = <<>>]
  /\ written' = [written EXCEPT ![t] = 0]
  /\ status' = [status EXCEPT ![t] = "B_OK"]
  /\ fToCleanup' = [fToCleanup EXCEPT ![t] = IF status[t] = "B_INTERRUPTED" THEN <<>> ELSE Tail(@)]
  /\ Goto(t, IF status[t] = "B_ERROR" THEN "alert" ELSE "volume")
  /\ UNCHANGED disk

DismissAlert(t) == At(t, "alert") /\ Goto(t, "volume")

-----------------------------------------------------------------------------
(* The surroundings.                                                       *)

Tell(on, d) ==
  notices' = [t \in Threads |-> IF At(t, "select")
                                THEN Append(notices[t], [mounted |-> on, device |-> d])
                                ELSE <<>>]

Mount ==
  \E d \in Devices :
    /\ device[d] = "absent" /\ device' = [device EXCEPT ![d] = "mounted"]
    /\ Tell(TRUE, d)

\* A volume in use is not unmounted.
Unmount ==
  \E d \in Mounted :
    /\ \A t \in Threads : pc[t] \in Filling => Volume(t) # d
    /\ device' = [device EXCEPT ![d] = "gone"]
    /\ Tell(FALSE, d)

OthersWrite ==
  \E d \in Devices :
    /\ others[d] = 1 \/ FreeBytes(d) > 0
    /\ others' = [others EXCEPT ![d] = 1 - @]

\* The Deskbar ends and is started again: files without a name are gone.
Deskbar ==
  /\ kills < MaxKills /\ kills' = kills + 1
  /\ Idle
  /\ orphans' = {d \in Devices : entry[d] # NoFile}
  /\ UNCHANGED <<device, disk>>

-----------------------------------------------------------------------------

Talk(t) ==
  \/ (Start(t) \/ Select(t) \/ DeviceNotice(t)) /\ UNCHANGED <<fToCleanup, fCancelled>>
  \/ CancelSelection(t) \/ CleanupSelection(t)
  \/ StopOperation(t) /\ UNCHANGED <<pc, tray, window, fToCleanup>>
  \/ /\ \/ ConfirmShrink(t) \/ StartShrink(t)
        \/ DismissAlert(t) /\ UNCHANGED tray
     /\ UNCHANGED <<window, fToCleanup, fCancelled>>

Fill(t) ==
  \/ NextVolume(t) /\ UNCHANGED orphans
  \/ CreateFile(t) /\ orphans' = orphans \ {Volume(t)} /\ UNCHANGED fToCleanup
  \/ /\ \/ CreateFails(t) \/ LastFile(t) \/ FindEntry(t) \/ RemoveEntry(t)
        \/ WriteToFile(t)
     /\ UNCHANGED <<fToCleanup, orphans>>
  \/ DeleteFiles(t) /\ UNCHANGED orphans

Next ==
  \/ (Click \/ Pick \/ MouseDown) /\ UNCHANGED <<pc, window, fToCleanup, filling, fCancelled, device, disk, history>>
  \/ ShrinkDisks /\ UNCHANGED <<window, fToCleanup, filling, fCancelled, device, disk, history>>
  \/ \E t \in Threads : Talk(t) /\ UNCHANGED <<filling, device, disk, history>>
  \/ \E t \in Threads : Fill(t) /\ UNCHANGED <<tray, window, fCancelled, device, kills>>
  \/ (Mount \/ Unmount) /\ UNCHANGED <<tray, pc, fVolumesList, selected, fToCleanup, filling, fCancelled, disk, history>>
  \/ OthersWrite /\ UNCHANGED <<tray, pc, window, fToCleanup, filling, fCancelled, device, entry, size, history>>
  \/ Deskbar

Spec == Init /\ [][Next]_vars

FillNow(t) == Fill(t) /\ UNCHANGED <<tray, window, fCancelled, device, kills>>

\* A thread that has something to do goes on; the user owes nobody an answer.
Fairness == \A t \in Threads : WF_vars(FillNow(t))

FairSpec == Spec /\ Fairness

-----------------------------------------------------------------------------
(* Properties.                                                             *)

Running == {t \in Threads : pc[t] # "none"}

\* One clean-up at a time, and the flag in the tray says whether there is one,
\* on whichever of its paths it is or was left: unless a menu opened after the
\* item was picked and before the tray started the thread.
FlagFollowsThread ==
  ~overlap => Cardinality(Running) <= 1 /\ (fCleanupInProgress <=> Running # {})

\* Nothing is left behind on a volume: a file has a name only while a thread is
\* about to take it away, even if two threads fill the same volume, and when no
\* thread is filling the volume all its space is back.  A name left by the end
\* of the Deskbar goes with the next clean-up of the volume.
NothingLeftBehind ==
  \A d \in Devices :
    /\ entry[d] # NoFile =>
         \/ d \in orphans
         \/ \E t \in Threads : pc[t] \in {"find", "remove"} /\ Volume(t) = d
    /\ Living(d) # {} /\ d \notin orphans =>
         \E t \in Threads : pc[t] \in Filling /\ Volume(t) = d

\* A full, failing, or endless volume, or a "Stop", ends the filling.
FillingEnds == \A t \in Threads : pc[t] \in Filling ~> pc[t] \notin Filling
=============================================================================
