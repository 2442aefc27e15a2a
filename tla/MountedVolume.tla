---------------------------- MODULE MountedVolume ----------------------------
(***************************************************************************)
(* A volume that is mounted and unmounted (Volume), and the attributes of  *)
(* one node of it (Attributes).  The hooks run while there is a volume;    *)
(* the host, which has the node, goes on without one.                      *)
(*                                                                         *)
(* External: the kernel, which calls vmwfs_unmount when no hook is at work.*)
(***************************************************************************)
EXTENDS Volume, Attributes

MountedInit == Init /\ AttributesInit

Hook ==
  /\ mounted
  /\ \/ \E thread \in Threads, stat \in Stats(GuestTimes), statMask \in SUBSET Attrs :
          WriteStat(thread, stat, statMask)
     \/ \E thread \in Threads : Notify(thread)
     \/ Look
     \/ Reads
  /\ UNCHANGED vars

HookPanics == mounted /\ (\E thread \in Threads : NotifyPanics(thread)) /\ Restart

HostWrites ==
  /\ \E new \in Stats(HostTimes), changed \in SUBSET Attrs : HostChanges(new, changed)
  /\ UNCHANGED vars

MountVolume ==
  /\ \/ Mount \/ NewSharedFolders \/ OpenRPCChannel \/ SendMessage \/ GetMessage
     \/ AllocateBuffer \/ MountFails \/ MountPanics \/ PublishRoot
  /\ UNCHANGED attributesVars

UnmountVolume == notifying = {} /\ window = "waits" /\ Unmount /\ Forget

RestartSystem == Restart /\ Forget

MountedNext ==
  \/ Hook \/ HookPanics \/ HostWrites \/ MountVolume \/ UnmountVolume \/ RestartSystem

MountedSpec == MountedInit /\ [][MountedNext]_<<vars, attributesVars>>
=============================================================================
