------------------------------- MODULE Volume -------------------------------
(***************************************************************************)
(* Mounting and unmounting the shared folders: vmwfs_mount, which starts a *)
(* session with the host (the constructor of VMWSharedFolders, over the    *)
(* RPC channel of its VMWCoreBackdoor) and publishes the root node, and    *)
(* vmwfs_unmount, which ends it.  gMountCount is what allows one volume at *)
(* a time.                                                                 *)
(*                                                                         *)
(* External: the kernel, which mounts and unmounts one volume at a time;   *)
(* the host, which may refuse any step of an exchange and answers a        *)
(* message with a status; memory and semaphores, which may run out.  What  *)
(* undefined behaviour does is a panic, or nothing.  Answers are read into *)
(* memory that is there: the allocation in GetMessage is not checked and   *)
(* does not fail here.                                                     *)
(***************************************************************************)
EXTENDS Integers

CONSTANTS
  MaxCount,    \* bound on gMountCount
  MaxChannels  \* bound on the channels the host has open for the system

ASSUME BoundsAssumption == {MaxCount, MaxChannels} \subseteq Nat \ {0}

VARIABLES
  pc,              \* where vmwfs_mount or vmwfs_unmount stands
  mounted,         \* the kernel's view: there is a volume
  gMountCount,
  gSharedFolders,  \* what it points to: "none", "live"
  gRootNode,       \* likewise
  owns,            \* the fields of gSharedFolders that name something
  fInVMware,
  fRPCOpened,
  channels,        \* the channels the host has open
  refused,         \* history: the mounts of a second volume
  left             \* history: channels given up without being closed

session == <<gSharedFolders, owns, fRPCOpened>>
vars == <<pc, mounted, gMountCount, gRootNode, session, fInVMware, channels,
          refused, left>>

Fields == {"fBackdoorAccess", "fRPCBuffer", "fLock"}

\* A system that has just started, in a virtual machine or not.
Init ==
  /\ fInVMware \in BOOLEAN
  /\ pc = "idle" /\ mounted = FALSE /\ gMountCount = 0
  /\ gSharedFolders = "none" /\ gRootNode = "none" /\ owns = {}
  /\ fRPCOpened = FALSE /\ channels = 0
  /\ refused = 0 /\ left = 0

Go(from, to) == pc = from /\ pc' = to

-----------------------------------------------------------------------------
(* vmwfs_mount.                                                            *)

\* A second mount fails and keeps its count.
Mount ==
  /\ gMountCount < MaxCount
  /\ gMountCount' = gMountCount + 1
  /\ IF gMountCount # 0 THEN Go("idle", "idle") /\ refused' = refused + 1
     ELSE Go("idle", "new") /\ UNCHANGED refused
  /\ UNCHANGED <<mounted, gRootNode, session, fInVMware, channels, left>>

\* The object, whose backdoor has a semaphore when there is a host.  An older
\* object that a failed mount has left is lost, and its channel with it.
NewSharedFolders ==
  /\ \/ /\ Go("new", IF fInVMware THEN "open" ELSE "delete")
        /\ gSharedFolders' = "live"
        /\ owns' \in IF fInVMware THEN {{}, {"fBackdoorAccess"}} ELSE {{}}
     \/ /\ Go("new", "refuse")
        /\ gSharedFolders' = "none" /\ owns' = {}
  /\ fRPCOpened' = FALSE
  /\ left' = IF fRPCOpened THEN left + 1 ELSE left
  /\ UNCHANGED <<mounted, gMountCount, gRootNode, fInVMware, channels, refused>>

OpenRPCChannel ==
  /\ \/ /\ Go("open", "send") /\ channels < MaxChannels
        /\ channels' = channels + 1 /\ fRPCOpened' = TRUE
     \/ /\ Go("open", "delete") /\ UNCHANGED <<channels, fRPCOpened>>
  /\ UNCHANGED <<mounted, gMountCount, gSharedFolders, gRootNode, owns, fInVMware,
                 refused, left>>

\* The length and the data of "f ", after acquire_sem.
SendMessage ==
  /\ \/ Go("send", "get") /\ "fBackdoorAccess" \in owns
     \/ Go("send", "delete")
  /\ UNCHANGED <<mounted, gMountCount, gRootNode, session, fInVMware, channels,
                 refused, left>>

\* The length and the data of the answer, and the acknowledgement.  The status in
\* the answer is not looked at: any answer will do.
GetMessage ==
  /\ Go("get", "buffer") \/ Go("get", "delete")
  /\ UNCHANGED <<mounted, gMountCount, gRootNode, session, fInVMware, channels,
                 refused, left>>

\* The rest of the constructor: without a lock, the buffer is freed, and the field
\* still names it.
AllocateBuffer ==
  /\ \/ Go("buffer", "root") /\ owns' = owns \cup {"fRPCBuffer", "fLock"}
     \/ Go("buffer", "delete") /\ UNCHANGED owns
  /\ UNCHANGED <<mounted, gMountCount, gSharedFolders, gRootNode, fRPCOpened, fInVMware,
                 channels, refused, left>>

\* ~VMWSharedFolders and ~VMWCoreBackdoor.  The host may refuse to close.
DeleteSharedFolders ==
  /\ gSharedFolders' = "none" /\ owns' = {} /\ fRPCOpened' = FALSE
  /\ \/ ~fRPCOpened /\ UNCHANGED <<channels, left>>
     \/ fRPCOpened /\ channels' = channels - 1 /\ UNCHANGED left
     \/ fRPCOpened /\ left' = left + 1 /\ UNCHANGED channels

\* Mutant: a mount that fails keeps its count.
MountFails_KeepsCount ==
  /\ \/ Go("delete", "idle") /\ DeleteSharedFolders
     \/ Go("refuse", "idle") /\ UNCHANGED <<session, channels, left>>
  /\ UNCHANGED <<mounted, gMountCount, gRootNode, fInVMware, refused>>

\* The constructor has failed.  Its destructor frees fields that were never set,
\* or the buffer again, and the status is then read from the deleted object.
MountFails ==
  /\ \/ Go("delete", "idle") /\ DeleteSharedFolders
     \/ Go("refuse", "idle") /\ UNCHANGED <<session, channels, left>>
  /\ gMountCount' = gMountCount - 1
  /\ UNCHANGED <<mounted, gRootNode, fInVMware, refused>>

\* One of those frees, or a volume without operations: the read gave B_OK.
MountPanics ==
  /\ Go("delete", "panic")
  /\ UNCHANGED <<mounted, gMountCount, gRootNode, session, fInVMware, channels,
                 refused, left>>

\* The root node, published.  If either fails the session is left as it is.
PublishRoot ==
  /\ Go("root", "idle")
  /\ \/ gRootNode' = "live" /\ mounted' = TRUE /\ UNCHANGED gMountCount
     \/ /\ gRootNode' \in {"none", "live"}
        /\ gMountCount' = gMountCount - 1 /\ UNCHANGED mounted
  /\ UNCHANGED <<session, fInVMware, channels, refused, left>>

-----------------------------------------------------------------------------
(* vmwfs_unmount, and a restart.                                           *)

Unmount ==
  /\ mounted /\ mounted' = FALSE
  /\ Go("idle", "idle")
  /\ gRootNode' = "none"
  /\ DeleteSharedFolders
  /\ gMountCount' = gMountCount - 1
  /\ UNCHANGED <<fInVMware, refused>>

Restart ==
  /\ pc \in {"idle", "panic"} /\ pc' = "idle"
  /\ mounted' = FALSE /\ gMountCount' = 0
  /\ gSharedFolders' = "none" /\ gRootNode' = "none" /\ owns' = {}
  /\ fRPCOpened' = FALSE /\ channels' = 0 /\ refused' = 0 /\ left' = 0
  /\ UNCHANGED fInVMware

Next ==
  \/ Mount \/ NewSharedFolders \/ OpenRPCChannel \/ SendMessage \/ GetMessage
  \/ AllocateBuffer \/ MountFails \/ MountPanics \/ PublishRoot
  \/ Unmount \/ Restart

Spec == Init /\ [][Next]_vars

-----------------------------------------------------------------------------
(* Properties.                                                             *)

\* Mounts add up, over any number of mounts, failures and unmounts.  A mounted
\* volume has a root and a session that is complete: its channel is open, and its
\* lock and buffer are its own.  Between calls gMountCount is the number of
\* volumes and of mounts refused because of one, so that a mount that failed for
\* any other reason can be tried again; and a channel the host has open is the
\* session's, or one it refused to close, or one that a mount which failed after
\* its constructor left behind.
MountsAddUp ==
  pc = "idle" =>
    /\ mounted => gSharedFolders = "live" /\ owns = Fields /\ fRPCOpened /\ gRootNode = "live"
    /\ gMountCount = refused + IF mounted THEN 1 ELSE 0
    /\ channels = left + IF fRPCOpened THEN 1 ELSE 0
=============================================================================
