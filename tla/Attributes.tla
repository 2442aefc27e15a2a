----------------------------- MODULE Attributes -----------------------------
(***************************************************************************)
(* The attributes of one node: vmwfs_read_stat, which shows a part of what *)
(* the host keeps, and vmwfs_write_stat, which gives the host all of them  *)
(* with a mask of those to set, and then notifies.  The two sides measure  *)
(* time differently: the host in ticks of 100 ns since 1601, in an         *)
(* unsigned word, Haiku in seconds since 1970, in a time_t.                *)
(*                                                                         *)
(* External: the host, which may refuse a command and changes attributes   *)
(* by itself; the programs that write; a window that shows the node, and   *)
(* reads it again when it is notified.  Calls that fail before the command *)
(* (no memory, a path that is too long) change nothing and are left out.   *)
(***************************************************************************)
EXTENDS Integers

CONSTANTS
  Threads,     \* of the programs that write
  Perms,       \* MSK_READ, MSK_WRITE, and MSK_EXEC, which is "exec"
  Sizes,       \* lengths, 0 among them
  Times,       \* cr_time, a_time, m_time, c_time
  HostTimes,   \* the times of the host, in ticks
  Ticks,       \* 10000000, to a second
  Epoch,       \* 11644473600 seconds from 1601 to 1970
  Word,        \* 2^64
  Limit        \* a time_t is at least -Limit, and less than Limit

ASSUME AttributesAssumption ==
  /\ {Ticks, Word, Limit} \subseteq Nat \ {0} /\ Epoch \in Nat
  /\ HostTimes \subseteq 0 .. Word - 1
  /\ "perms" \notin Times /\ "size" \notin Times
  /\ Sizes \subseteq Nat /\ 0 \in Sizes

Attrs == {"perms", "size"} \cup Times

\* The times of the programs, in seconds.
GuestTimes == -Limit .. Limit - 1

VARIABLES
  node,         \* what the host has: "file", "dir", or the "root" of the volume
  attributes,   \* vmw_attributes, as the host keeps them
  notifying,    \* threads between SetAttributes and notify_stat_changed
  notices,      \* the node monitor has something for the window
  window,       \* the window "waits", or "reads" the node
  seen,         \* {what it has read}, or {}
  given,        \* history: each attribute as it was last given
  byGuest,      \* history: the attributes write_stat was the last to set
  hostChanged   \* history: the host changed something since the window read

watching == <<notices, window, seen>>
attributesVars == <<node, attributes, notifying, watching, given, byGuest, hostChanged>>

IsDir == node # "file"

Stats(times) == [perms : SUBSET Perms, size : Sizes, time : [Times -> times]]

AttributesTypeOK ==
  /\ node \in {"file", "dir", "root"}
  /\ attributes \in Stats(0 .. Word - 1)
  /\ notifying \subseteq Threads
  /\ notices \in BOOLEAN /\ hostChanged \in BOOLEAN
  /\ window \in {"waits", "reads"}
  /\ seen \subseteq Stats(GuestTimes)
  /\ given \in Stats(HostTimes \cup GuestTimes)
  /\ byGuest \subseteq Attrs

AttributesInit ==
  /\ node \in {"file", "dir", "root"}
  /\ attributes \in Stats(HostTimes)
  /\ notifying = {} /\ notices = FALSE /\ window = "waits" /\ seen = {}
  /\ given = attributes /\ byGuest = {} /\ hostChanged = FALSE

-----------------------------------------------------------------------------
(* Times.                                                                  *)

\* A number of seconds, in a time_t.
TimeT(x) == ((x + Limit) % (2 * Limit)) - Limit

TO_UNIX_TIME(x) == TimeT((x \div Ticks) - Epoch)

TO_VMW_TIME(x) == ((x + Epoch) * Ticks) % Word

-----------------------------------------------------------------------------
(* The two hooks.                                                          *)

\* vmwfs_read_stat: files are not executable, and directories have no size.
ReadStat ==
  [perms |-> IF IsDir THEN attributes.perms ELSE attributes.perms \ {"exec"},
   size  |-> IF IsDir THEN 0 ELSE attributes.size,
   time  |-> [t \in Times |-> TO_UNIX_TIME(attributes.time[t])]]

\* The attributes new where the mask names them, and otherwise old.
Masked(old, new, mask) ==
  [perms |-> IF "perms" \in mask THEN new.perms ELSE old.perms,
   size  |-> IF "size" \in mask THEN new.size ELSE old.size,
   time  |-> [t \in Times |-> IF t \in mask THEN new.time[t] ELSE old.time[t]]]

VmwAttributes(stat) == [stat EXCEPT !.time = [t \in Times |-> TO_VMW_TIME(stat.time[t])]]

\* Mutant: the mask is forgotten, and the host takes what the caller left in the others.
WriteStat_NoMask(thread, stat, statMask) ==
  /\ thread \notin notifying /\ notifying' = notifying \cup {thread}
  /\ \/ /\ attributes' = VmwAttributes(stat)
        /\ given' = Masked(given, stat, statMask)
        /\ byGuest' = byGuest \cup statMask
     \/ UNCHANGED <<attributes, given, byGuest>>
  /\ UNCHANGED <<node, watching, hostChanged>>

\* vmwfs_write_stat, up to the host's answer, which is not looked at.  What is not in
\* the mask may have any value.  (The owner's two bits name no attribute.)
WriteStat(thread, stat, statMask) ==
  /\ thread \notin notifying /\ notifying' = notifying \cup {thread}
  /\ \/ /\ attributes' = Masked(attributes, VmwAttributes(stat), statMask)
        /\ given' = Masked(given, stat, statMask)
        /\ byGuest' = byGuest \cup statMask
     \/ UNCHANGED <<attributes, given, byGuest>>
  /\ UNCHANGED <<node, watching, hostChanged>>

\* Mutant: a notice is left out when there was one a moment ago, as vmwfs_write does.
Notify_NotTooOften(thread) ==
  /\ thread \in notifying /\ node # "root"
  /\ notifying' = notifying \ {thread} /\ notices' \in {notices, TRUE}
  /\ UNCHANGED <<node, attributes, window, seen, given, byGuest, hostChanged>>

\* notify_stat_changed.  (It names the fields by the host's mask, not by B_STAT_...:
\* this window reads them all.)
Notify(thread) ==
  /\ thread \in notifying /\ node # "root"
  /\ notifying' = notifying \ {thread} /\ notices' = TRUE
  /\ UNCHANGED <<node, attributes, window, seen, given, byGuest, hostChanged>>

\* The volume is unmounted, or the system ends at any point: the host keeps what it has.
Forget ==
  /\ notifying' = {} /\ notices' = FALSE /\ window' = "waits" /\ seen' = {}
  /\ hostChanged' = FALSE
  /\ UNCHANGED <<node, attributes, given, byGuest>>

\* The root has no parent whose inode could be asked for: the system ends.
NotifyPanics(thread) == thread \in notifying /\ node = "root" /\ Forget

-----------------------------------------------------------------------------
(* The host, and the window.                                               *)

HostChanges(new, changed) ==
  /\ attributes' = Masked(attributes, new, changed)
  /\ given' = Masked(given, new, changed)
  /\ byGuest' = byGuest \ changed
  /\ hostChanged' = TRUE
  /\ UNCHANGED <<node, notifying, watching>>

\* The window is opened or refreshed, or it is notified.
Look ==
  /\ window = "waits" /\ window' = "reads"
  /\ notices' \in {notices, FALSE}
  /\ UNCHANGED <<node, attributes, notifying, seen, given, byGuest, hostChanged>>

\* The host answers, or refuses.
Reads ==
  /\ window = "reads" /\ window' = "waits"
  /\ \/ seen' = {ReadStat} /\ hostChanged' = FALSE
     \/ seen' = {} /\ UNCHANGED hostChanged
  /\ UNCHANGED <<node, attributes, notifying, notices, given, byGuest>>

AttributesNext ==
  \/ \E thread \in Threads, stat \in Stats(GuestTimes), statMask \in SUBSET Attrs :
       WriteStat(thread, stat, statMask)
  \/ \E thread \in Threads : Notify(thread) \/ NotifyPanics(thread)
  \/ \E new \in Stats(HostTimes), changed \in SUBSET Attrs : HostChanges(new, changed)
  \/ Look \/ Reads \/ Forget

AttributesSpec == AttributesInit /\ [][AttributesNext]_attributesVars

-----------------------------------------------------------------------------
(* Properties.                                                             *)

\* The host can hold the second s of Haiku, and Haiku the tick x of the host.
HostHolds(s) == (s + Epoch) * Ticks \in 0 .. Word - 1
GuestHolds(x) == (x \div Ticks) - Epoch \in GuestTimes

\* Each attribute is what it was last given, by either side, whatever was written to
\* the others.  What the host gave stays to the bit, and is read as the second it is
\* in.  What write_stat gave is read back, but for what read_stat hides (the execute
\* bit of files, the size of directories) and times the host cannot hold, such as any
\* before 1601.  So chmod takes a file's execute bit away, and nothing else does.
AttributesAreAsGiven ==
  /\ /\ "perms" \notin byGuest => attributes.perms = given.perms
     /\ ReadStat.perms = given.perms \ IF IsDir THEN {} ELSE {"exec"}
  /\ /\ "size" \notin byGuest => attributes.size = given.size
     /\ ~IsDir => ReadStat.size = given.size
  /\ \A t \in Times \ byGuest :
       /\ attributes.time[t] = given.time[t]
       /\ GuestHolds(given.time[t]) => ReadStat.time[t] = (given.time[t] \div Ticks) - Epoch
  /\ \A t \in Times \cap byGuest :
       HostHolds(given.time[t]) => ReadStat.time[t] = given.time[t]

\* A window that reads a node when it is notified shows the node as it is once no
\* write_stat is on its way and no notice waits, unless the host changed it since: a
\* read between SetAttributes and its notice is not the last one.
WindowIsUpToDate ==
  window = "waits" /\ notices = FALSE /\ notifying = {} /\ ~hostChanged
    => seen \subseteq {ReadStat}
=============================================================================
