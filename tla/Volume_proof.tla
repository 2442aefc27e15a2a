----------------------------- MODULE Volume_proof -----------------------------
(***************************************************************************)
(* Mounts add up, whatever the bounds on the counter and the channels.     *)
(* What a node of the volume is given as its attributes is what is read    *)
(* back, whatever the sizes of the numbers, and a window that is notified  *)
(* shows it, for any number of threads.  A volume that is mounted and      *)
(* unmounted, with its hooks and the host at work, does both.              *)
(***************************************************************************)
EXTENDS MountedVolume, TLAPS

-----------------------------------------------------------------------------
(* Mounting.                                                               *)

Types ==
  /\ gMountCount \in Nat /\ refused \in Nat /\ channels \in Nat /\ left \in Nat
  /\ owns \subseteq Fields
  /\ pc \in {"idle", "new", "refuse", "open", "send", "get", "buffer", "delete", "root", "panic"}

\* A volume is counted while it is being mounted, and no other one is there.
Counted ==
  /\ pc = "idle" /\ ~mounted => gMountCount = refused
  /\ pc = "idle" /\ mounted => gMountCount = refused + 1
  /\ pc # "idle" => ~mounted /\ gMountCount = refused + 1

Channels ==
  /\ fRPCOpened => channels = left + 1
  /\ ~fRPCOpened => channels = left

\* How far the session has come.
Session ==
  /\ pc \in {"open", "send", "get", "buffer", "root"} => gSharedFolders = "live"
  /\ pc = "open" => ~fRPCOpened
  /\ pc \in {"send", "get", "buffer", "root"} => fRPCOpened
  /\ pc \in {"get", "buffer", "root"} => "fBackdoorAccess" \in owns
  /\ pc = "root" => owns = Fields
  /\ mounted => gSharedFolders = "live" /\ owns = Fields /\ fRPCOpened /\ gRootNode = "live"

IInv == Types /\ Counted /\ Channels /\ Session

LEMMA InitInvariant == Init => IInv
  <1> SUFFICES ASSUME Init PROVE IInv
    OBVIOUS
  <1>1. Types
    BY DEF Init, Types
  <1>2. Counted /\ Channels /\ Session
    BY DEF Init, Counted, Channels, Session
  <1> QED BY <1>1, <1>2 DEF IInv

LEMMA StepInvariant == IInv /\ [Next]_vars => IInv'
  <1> SUFFICES ASSUME IInv, [Next]_vars PROVE IInv'
    OBVIOUS
  <1> USE DEF IInv, session, Go
  <1>1. CASE Mount
    <2>1. Types'
      BY <1>1 DEF Mount, Types
    <2>2. Counted' /\ Channels'
      BY <1>1 DEF Mount, Types, Counted, Channels
    <2>3. Session'
      BY <1>1 DEF Mount, Types, Session
    <2> QED BY <2>1, <2>2, <2>3
  <1>2. CASE NewSharedFolders
    <2>1. Types'
      BY <1>2 DEF NewSharedFolders, Types, Fields
    <2>2. Counted' /\ Channels'
      BY <1>2 DEF NewSharedFolders, Types, Counted, Channels
    <2>3. Session'
      BY <1>2 DEF NewSharedFolders, Types, Counted, Session
    <2> QED BY <2>1, <2>2, <2>3
  <1>3. CASE OpenRPCChannel
    <2>1. Types'
      BY <1>3 DEF OpenRPCChannel, Types
    <2>2. Counted' /\ Channels'
      BY <1>3 DEF OpenRPCChannel, Types, Counted, Channels, Session
    <2>3. Session'
      BY <1>3 DEF OpenRPCChannel, Types, Session
    <2> QED BY <2>1, <2>2, <2>3
  <1>4. CASE SendMessage
    <2>1. Types'
      BY <1>4 DEF SendMessage, Types
    <2>2. Counted' /\ Channels'
      BY <1>4 DEF SendMessage, Types, Counted, Channels
    <2>3. Session'
      BY <1>4 DEF SendMessage, Types, Session
    <2> QED BY <2>1, <2>2, <2>3
  <1>5. CASE GetMessage
    <2>1. Types'
      BY <1>5 DEF GetMessage, Types
    <2>2. Counted' /\ Channels'
      BY <1>5 DEF GetMessage, Types, Counted, Channels
    <2>3. Session'
      BY <1>5 DEF GetMessage, Types, Session
    <2> QED BY <2>1, <2>2, <2>3
  <1>6. CASE AllocateBuffer
    <2>1. Types'
      BY <1>6 DEF AllocateBuffer, Types, Fields
    <2>2. Counted' /\ Channels'
      BY <1>6 DEF AllocateBuffer, Types, Counted, Channels
    <2>3. Session'
      BY <1>6 DEF AllocateBuffer, Types, Session, Fields
    <2> QED BY <2>1, <2>2, <2>3
  <1>7. CASE MountFails
    <2>1. Types'
      BY <1>7 DEF MountFails, DeleteSharedFolders, Types, Counted, Channels
    <2>2. Counted' /\ Channels'
      BY <1>7 DEF MountFails, DeleteSharedFolders, Types, Counted, Channels
    <2>3. Session'
      BY <1>7 DEF MountFails, DeleteSharedFolders, Types, Counted, Session
    <2> QED BY <2>1, <2>2, <2>3
  <1>8. CASE MountPanics
    <2>1. Types'
      BY <1>8 DEF MountPanics, Types
    <2>2. Counted' /\ Channels'
      BY <1>8 DEF MountPanics, Types, Counted, Channels
    <2>3. Session'
      BY <1>8 DEF MountPanics, Types, Session
    <2> QED BY <2>1, <2>2, <2>3
  <1>9. CASE PublishRoot
    <2>1. Types'
      BY <1>9 DEF PublishRoot, Types, Counted
    <2>2. Counted' /\ Channels'
      BY <1>9 DEF PublishRoot, Types, Counted, Channels
    <2>3. Session'
      BY <1>9 DEF PublishRoot, Types, Counted, Session
    <2> QED BY <2>1, <2>2, <2>3
  <1>10. CASE Unmount
    <2>1. Types'
      BY <1>10 DEF Unmount, DeleteSharedFolders, Types, Counted, Channels
    <2>2. Counted' /\ Channels'
      BY <1>10 DEF Unmount, DeleteSharedFolders, Types, Counted, Channels
    <2>3. Session'
      BY <1>10 DEF Unmount, DeleteSharedFolders, Types, Session
    <2> QED BY <2>1, <2>2, <2>3
  <1>11. CASE Restart
    <2>1. Types'
      BY <1>11 DEF Restart, Types
    <2>2. Counted' /\ Channels'
      BY <1>11 DEF Restart, Types, Counted, Channels
    <2>3. Session'
      BY <1>11 DEF Restart, Types, Session
    <2> QED BY <2>1, <2>2, <2>3
  <1>12. CASE UNCHANGED vars
    <2>1. Types'
      BY <1>12 DEF vars, Types
    <2>2. Counted' /\ Channels'
      BY <1>12 DEF vars, Types, Counted, Channels
    <2>3. Session'
      BY <1>12 DEF vars, Types, Session
    <2> QED BY <2>1, <2>2, <2>3
  <1> QED
    BY <1>1, <1>2, <1>3, <1>4, <1>5, <1>6, <1>7, <1>8, <1>9, <1>10, <1>11, <1>12 DEF Next

LEMMA Invariance == Spec => []IInv
  BY InitInvariant, StepInvariant, PTL DEF Spec

-----------------------------------------------------------------------------

\* Over any number of mounts, refusals, failures, unmounts and restarts: a mounted
\* volume has a complete session, the counter counts it and the mounts refused
\* because of it, and every channel is accounted for.
THEOREM MountsAlwaysAddUp == Spec => []MountsAddUp
  <1>1. IInv => MountsAddUp
    BY DEF IInv, Types, Counted, Channels, Session, MountsAddUp
  <1> QED BY <1>1, Invariance, PTL

-----------------------------------------------------------------------------
(* Times.                                                                  *)

\* What is taken for granted of the numbers, one by one.
LEMMA Numbers ==
  /\ Ticks \in Nat \ {0} /\ Word \in Nat \ {0} /\ Limit \in Nat \ {0} /\ Epoch \in Nat
  /\ HostTimes \subseteq 0 .. Word - 1
  BY AttributesAssumption

LEMMA TimeTType == ASSUME NEW x \in Int PROVE TimeT(x) \in GuestTimes
  <1> DEFINE m == (x + Limit) % (2 * Limit)
  <1>1. Limit \in Nat \ {0}
    BY Numbers
  <1>2. m \in 0 .. 2 * Limit - 1
    BY <1>1
  <1> HIDE DEF m
  <1>3. m - Limit \in -Limit .. Limit - 1
    BY <1>1, <1>2
  <1> QED BY <1>3 DEF TimeT, GuestTimes, m

LEMMA TimeTHolds == ASSUME NEW x \in GuestTimes PROVE TimeT(x) = x
  <1>1. Limit \in Nat \ {0}
    BY Numbers
  <1>2. x + Limit \in Nat /\ x + Limit < 2 * Limit
    BY <1>1 DEF GuestTimes
  <1>3. (x + Limit) % (2 * Limit) = x + Limit
    BY <1>1, <1>2
  <1> QED BY <1>1, <1>2, <1>3 DEF TimeT, GuestTimes

LEMMA UnixTimeType == ASSUME NEW x \in Int PROVE TO_UNIX_TIME(x) \in GuestTimes
  <1>1. (x \div Ticks) - Epoch \in Int
    BY Numbers
  <1> QED BY <1>1, TimeTType DEF TO_UNIX_TIME

LEMMA VmwTimeType == ASSUME NEW s \in GuestTimes PROVE TO_VMW_TIME(s) \in 0 .. Word - 1
  <1>1. Ticks \in Int /\ Epoch \in Int /\ s \in Int
    BY Numbers DEF GuestTimes
  <1>2. (s + Epoch) * Ticks \in Int
    BY <1>1
  <1> QED BY <1>2, Numbers DEF TO_VMW_TIME

\* A second that the host can hold comes back: the ticks of a second are those it
\* begins with.
LEMMA RoundTrip ==
  ASSUME NEW s \in GuestTimes, HostHolds(s)
  PROVE  TO_UNIX_TIME(TO_VMW_TIME(s)) = s
  <1> DEFINE x == (s + Epoch) * Ticks
  <1>1. s \in Int /\ s + Epoch \in Int /\ Ticks \in Nat \ {0} /\ Word \in Nat \ {0} /\ Epoch \in Nat
    BY Numbers DEF GuestTimes
  <1>2. x \in Nat /\ x < Word
    BY <1>1 DEF HostHolds
  <1>3. TO_VMW_TIME(s) = x
    <2> HIDE DEF x
    <2>1. x % Word = x
      BY <1>1, <1>2
    <2> QED BY <2>1 DEF TO_VMW_TIME, x
  <1>4. x \div Ticks = s + Epoch
    BY <1>1
  <1>5. TO_UNIX_TIME(x) = TimeT(s)
    BY <1>1, <1>4 DEF TO_UNIX_TIME
  <1> QED BY <1>3, <1>5, TimeTHolds

-----------------------------------------------------------------------------
(* Attributes.                                                             *)

LEMMA MaskedType ==
  ASSUME NEW times, NEW old \in Stats(times), NEW new \in Stats(times), NEW mask
  PROVE  Masked(old, new, mask) \in Stats(times)
  BY DEF Masked, Stats

LEMMA VmwAttributesType ==
  ASSUME NEW stat \in Stats(GuestTimes)
  PROVE  /\ VmwAttributes(stat) \in Stats(0 .. Word - 1)
         /\ VmwAttributes(stat).perms = stat.perms /\ VmwAttributes(stat).size = stat.size
         /\ \A t \in Times : VmwAttributes(stat).time[t] = TO_VMW_TIME(stat.time[t])
  <1>1. \A t \in Times : TO_VMW_TIME(stat.time[t]) \in 0 .. Word - 1
    BY VmwTimeType DEF Stats
  <1> QED BY <1>1 DEF VmwAttributes, Stats

LEMMA ReadStatType ==
  ASSUME attributes \in Stats(0 .. Word - 1)
  PROVE  ReadStat \in Stats(GuestTimes)
  <1>1. \A t \in Times : attributes.time[t] \in Int
    BY Numbers DEF Stats
  <1>2. \A t \in Times : TO_UNIX_TIME(attributes.time[t]) \in GuestTimes
    BY <1>1, UnixTimeType
  <1>3. 0 \in Sizes
    BY AttributesAssumption
  <1> QED BY <1>2, <1>3 DEF ReadStat, Stats

LEMMA StatsOfMore ==
  ASSUME NEW times, NEW more, times \subseteq more, NEW stat \in Stats(times)
  PROVE  stat \in Stats(more)
  BY DEF Stats

\* What the host keeps is what was given last, as the host has it.
AsGiven ==
  /\ attributes.perms = given.perms /\ attributes.size = given.size
  /\ \A t \in Times :
       IF t \in byGuest
       THEN given.time[t] \in GuestTimes /\ attributes.time[t] = TO_VMW_TIME(given.time[t])
       ELSE given.time[t] \in HostTimes /\ attributes.time[t] = given.time[t]

AttributesInv == AttributesTypeOK /\ AsGiven

LEMMA WriteStatStep ==
  ASSUME AttributesInv, NEW thread \in Threads, NEW stat \in Stats(GuestTimes),
         NEW statMask \in SUBSET Attrs, WriteStat(thread, stat, statMask)
  PROVE  AttributesInv'
  <1> DEFINE vmw == VmwAttributes(stat)
  <1> USE DEF AttributesInv
  <1>1. CASE UNCHANGED <<attributes, given, byGuest>>
    BY <1>1 DEF WriteStat, AttributesTypeOK, AsGiven, watching
  <1>2. CASE /\ attributes' = Masked(attributes, vmw, statMask)
             /\ given' = Masked(given, stat, statMask)
             /\ byGuest' = byGuest \cup statMask
    <2>1. /\ vmw \in Stats(0 .. Word - 1) /\ vmw.perms = stat.perms /\ vmw.size = stat.size
          /\ \A t \in Times : vmw.time[t] = TO_VMW_TIME(stat.time[t])
      BY VmwAttributesType
    <2> HIDE DEF vmw
    <2>2. attributes' \in Stats(0 .. Word - 1)
      BY <1>2, <2>1, MaskedType DEF AttributesTypeOK
    <2>3. given' \in Stats(HostTimes \cup GuestTimes)
      BY <1>2, MaskedType, StatsOfMore DEF AttributesTypeOK
    <2>4. AttributesTypeOK'
      BY <1>2, <2>2, <2>3 DEF WriteStat, AttributesTypeOK, watching
    <2>5. AsGiven'
      BY <1>2, <2>1 DEF AsGiven, Masked, Stats
    <2> QED BY <2>4, <2>5
  <1> QED BY <1>1, <1>2 DEF WriteStat

LEMMA HostChangesStep ==
  ASSUME AttributesInv, NEW new \in Stats(HostTimes), NEW changed \in SUBSET Attrs,
         HostChanges(new, changed)
  PROVE  AttributesInv'
  <1>1. attributes' \in Stats(0 .. Word - 1)
    BY MaskedType, StatsOfMore, Numbers DEF AttributesInv, AttributesTypeOK, HostChanges
  <1>2. given' \in Stats(HostTimes \cup GuestTimes)
    BY MaskedType, StatsOfMore DEF AttributesInv, AttributesTypeOK, HostChanges
  <1>3. AttributesTypeOK'
    BY <1>1, <1>2 DEF AttributesInv, AttributesTypeOK, HostChanges, watching
  <1>4. AsGiven'
    BY DEF AttributesInv, AsGiven, HostChanges, Masked, Stats
  <1> QED BY <1>3, <1>4 DEF AttributesInv

LEMMA AttributesInvariance == AttributesSpec => []AttributesInv
  <1>1. AttributesInit => AttributesInv
    <2> SUFFICES ASSUME AttributesInit PROVE AttributesInv
      OBVIOUS
    <2>1. attributes \in Stats(0 .. Word - 1) /\ given \in Stats(HostTimes \cup GuestTimes)
      <3>1. attributes \in Stats(HostTimes) /\ given = attributes
        BY DEF AttributesInit
      <3>2. attributes \in Stats(0 .. Word - 1)
        BY <3>1, StatsOfMore, Numbers
      <3>3. attributes \in Stats(HostTimes \cup GuestTimes)
        BY <3>1, StatsOfMore
      <3> QED BY <3>1, <3>2, <3>3
    <2>2. AsGiven
      BY DEF AttributesInit, AsGiven, Stats
    <2> QED BY <2>1, <2>2 DEF AttributesInit, AttributesInv, AttributesTypeOK
  <1>2. AttributesInv /\ [AttributesNext]_attributesVars => AttributesInv'
    <2> SUFFICES ASSUME AttributesInv, [AttributesNext]_attributesVars PROVE AttributesInv'
      OBVIOUS
    <2> USE DEF AttributesInv, AttributesTypeOK, AsGiven, watching
    <2>1. ASSUME NEW thread \in Threads, Notify(thread) \/ NotifyPanics(thread)
          PROVE  AttributesInv'
      BY <2>1 DEF Notify, NotifyPanics, Forget
    <2>2. CASE Look
      BY <2>2 DEF Look
    <2>3. CASE Reads
      <3>1. ReadStat \in Stats(GuestTimes)
        BY ReadStatType
      <3> QED BY <2>3, <3>1 DEF Reads
    <2>4. CASE UNCHANGED attributesVars
      BY <2>4 DEF attributesVars
    <2>5. CASE Forget
      BY <2>5 DEF Forget
    <2> QED BY <2>1, <2>2, <2>3, <2>4, <2>5, WriteStatStep, HostChangesStep DEF AttributesNext
  <1> QED BY <1>1, <1>2, PTL DEF AttributesSpec

-----------------------------------------------------------------------------

\* The types of the attributes: a time stays within its word on the host's side, and
\* within a time_t on the other.
THEOREM AttributesTypes == AttributesSpec => []AttributesTypeOK
  <1>1. AttributesInv => AttributesTypeOK
    BY DEF AttributesInv
  <1> QED BY <1>1, AttributesInvariance, PTL

\* Each attribute is what it was last given by either side, and is read as that, but
\* for what read_stat hides and for times that the other side cannot hold: for any
\* width of the numbers, any length of a second and any epoch.
THEOREM AttributesStayAsGiven == AttributesSpec => []AttributesAreAsGiven
  <1>1. AttributesInv => AttributesAreAsGiven
    <2> SUFFICES ASSUME AttributesInv PROVE AttributesAreAsGiven
      OBVIOUS
    <2>1. \A t \in Times \ byGuest :
            /\ attributes.time[t] = given.time[t]
            /\ GuestHolds(given.time[t]) => ReadStat.time[t] = (given.time[t] \div Ticks) - Epoch
      BY TimeTHolds DEF AttributesInv, AsGiven, ReadStat, GuestHolds, TO_UNIX_TIME
    <2>2. \A t \in Times \cap byGuest :
            HostHolds(given.time[t]) => ReadStat.time[t] = given.time[t]
      BY RoundTrip DEF AttributesInv, AsGiven, ReadStat
    <2>3. /\ ReadStat.perms = given.perms \ IF IsDir THEN {} ELSE {"exec"}
          /\ ~IsDir => ReadStat.size = given.size
      BY DEF AttributesInv, AsGiven, ReadStat
    <2> QED BY <2>1, <2>2, <2>3 DEF AttributesInv, AsGiven, AttributesAreAsGiven
  <1> QED BY <1>1, AttributesInvariance, PTL

\* The window shows what the guest wrote once every write_stat has notified and every
\* notice has been read, for any number of threads at it at once: what write_stat may
\* have changed is announced after the change, never before (vmwfs_write_stat).
THEOREM WindowFollows == AttributesSpec => []WindowIsUpToDate
  <1>1. AttributesInit => WindowIsUpToDate
    BY DEF AttributesInit, WindowIsUpToDate
  <1>2. WindowIsUpToDate /\ [AttributesNext]_attributesVars => WindowIsUpToDate'
    <2> SUFFICES ASSUME WindowIsUpToDate, [AttributesNext]_attributesVars
                 PROVE  WindowIsUpToDate'
      OBVIOUS
    <2> USE DEF WindowIsUpToDate, watching
    <2>1. ASSUME NEW thread, NEW stat, NEW statMask, WriteStat(thread, stat, statMask)
          PROVE  WindowIsUpToDate'
      BY <2>1 DEF WriteStat
    <2>2. ASSUME NEW thread, Notify(thread) \/ NotifyPanics(thread)
          PROVE  WindowIsUpToDate'
      BY <2>2 DEF Notify, NotifyPanics, Forget
    <2>3. ASSUME NEW new, NEW changed, HostChanges(new, changed) PROVE WindowIsUpToDate'
      BY <2>3 DEF HostChanges
    <2>4. CASE Look
      BY <2>4 DEF Look
    <2>5. CASE Reads
      BY <2>5 DEF Reads, ReadStat, IsDir
    <2>6. CASE UNCHANGED attributesVars
      BY <2>6 DEF attributesVars, ReadStat, IsDir
    <2>7. CASE Forget
      BY <2>7 DEF Forget
    <2> QED BY <2>1, <2>2, <2>3, <2>4, <2>5, <2>6, <2>7 DEF AttributesNext
  <1> QED BY <1>1, <1>2, PTL DEF AttributesSpec

-----------------------------------------------------------------------------
(* A mounted volume and its attributes.                                    *)

\* What happens to the volume is a step of Volume, or none, ...
LEMMA MountedIsVolume == MountedNext => [Next]_vars
  BY DEF MountedNext, Hook, HookPanics, HostWrites, MountVolume, UnmountVolume,
         RestartSystem, Next

\* ... and what happens to the node a step of Attributes, or none.
LEMMA MountedIsAttributes == MountedNext => [AttributesNext]_attributesVars
  <1> SUFFICES ASSUME MountedNext PROVE [AttributesNext]_attributesVars
    OBVIOUS
  <1>1. CASE Hook
    BY <1>1 DEF Hook, AttributesNext
  <1>2. CASE HostWrites
    BY <1>2 DEF HostWrites, AttributesNext
  <1>3. CASE HookPanics
    BY <1>3 DEF HookPanics, AttributesNext
  <1>4. CASE MountVolume
    BY <1>4 DEF MountVolume
  <1>5. CASE UnmountVolume \/ RestartSystem
    BY <1>5 DEF UnmountVolume, RestartSystem, AttributesNext
  <1> QED BY <1>1, <1>2, <1>3, <1>4, <1>5 DEF MountedNext

\* A volume whose hooks run only while it is mounted, which a hook can bring down and
\* whose host goes on without it, is still a volume as Volume has it and a node as
\* Attributes has it (vmwfs_mount, vmwfs_unmount, vmwfs_write_stat).
THEOREM MountedImplementsBoth == MountedSpec => Spec /\ AttributesSpec
  <1>1. MountedInit => Init /\ AttributesInit
    BY DEF MountedInit
  <1>2. [MountedNext]_<<vars, attributesVars>> => [Next]_vars
    BY MountedIsVolume
  <1>3. [MountedNext]_<<vars, attributesVars>> => [AttributesNext]_attributesVars
    BY MountedIsAttributes
  <1> QED BY <1>1, <1>2, <1>3, PTL DEF MountedSpec, Spec, AttributesSpec

\* So over any mounts, failures, unmounts and restarts the session adds up, and the
\* attributes are as either side gave them last, before or after (vmwfs_mount,
\* vmwfs_write_stat).
THEOREM MountedVolumeWorks ==
  MountedSpec => [](MountsAddUp /\ AttributesAreAsGiven /\ WindowIsUpToDate)
  BY MountedImplementsBoth, MountsAlwaysAddUp, AttributesStayAsGiven, WindowFollows, PTL
=============================================================================
