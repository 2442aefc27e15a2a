----------------------------- MODULE VideoDevice -----------------------------
(***************************************************************************)
(* The graphics device of the video driver, as its clients open, control   *)
(* and free it.  The first to open it creates the area shared with the     *)
(* accelerants, asks the device what it can do, and maps its frame buffer  *)
(* and its FIFO; the last to free it undoes this.  A benaphore lets one of *)
(* them in at a time; an ioctl does not take it and uses the shared area   *)
(* as long as its client has the device open.                              *)
(*                                                                         *)
(* External: the kernel, which may refuse an area, the PCI device, which   *)
(* may be of another version, and the clients: each frees what it opened.  *)
(* The device's registers and the PCI command bits are left out.           *)
(***************************************************************************)
EXTENDS Integers, FiniteSets

CONSTANT Clients

ASSUME ClientsAssumption == IsFiniteSet(Clients)

VARIABLES
  kernel,     \* the clients inside the benaphore gPd->kernel
  isOpen,
  areas,      \* the areas that exist: how many of each kind
  si,         \* the shared area has been created and not been freed
  fbArea, fifoArea,  \* the fields of si: whether they name an area
  pc

device == <<isOpen, areas, si, fbArea, fifoArea>>
vars == <<kernel, device, pc>>

Areas == {"shared", "fb", "fifo"}

TypeOK ==
  /\ kernel \subseteq Clients
  /\ isOpen \in Nat
  /\ areas \in [Areas -> Nat]
  /\ {si, fbArea, fifoArea} \subseteq BOOLEAN
  /\ pc \in [Clients -> {"closed", "open", "enter", "create", "check", "fb",
                         "fifo", "fail", "mark", "failed", "ioctl", "free",
                         "unmap", "count", "left"}]

Init ==
  /\ kernel = {}
  /\ isOpen = 0
  /\ areas = [a \in Areas |-> 0]
  /\ si = FALSE /\ fbArea = FALSE /\ fifoArea = FALSE
  /\ pc = [c \in Clients |-> "closed"]

Kernel == INSTANCE Mutex WITH Threads <- Clients, inside <- kernel

Go(c, from, to) == pc[c] = from /\ pc' = [pc EXCEPT ![c] = to]

More(a) == areas' = [areas EXCEPT ![a] = @ + 1]

\* delete_area on what a field of si names.
Fewer(S) == areas' = [a \in Areas |-> IF a \in S THEN areas[a] - 1 ELSE areas[a]]

-----------------------------------------------------------------------------
(* OpenHook.                                                               *)

OpenHook(c) ==
  /\ Go(c, "closed", "enter")
  /\ Kernel!Enter(c)
  /\ UNCHANGED device

AlreadyOpen(c) ==
  /\ Go(c, "enter", IF isOpen # 0 THEN "mark" ELSE "create")
  /\ UNCHANGED <<kernel, device>>

\* A new shared area is cleared: it names no other area yet.
CreateShared(c) ==
  /\ \/ /\ Go(c, "create", "check")
        /\ More("shared")
        /\ si' = TRUE /\ fbArea' = FALSE /\ fifoArea' = FALSE
     \/ /\ Go(c, "create", "failed")
        /\ UNCHANGED <<areas, si, fbArea, fifoArea>>
  /\ UNCHANGED <<kernel, isOpen>>

CheckCapabilities(c) ==
  /\ Go(c, "check", "fb") \/ Go(c, "check", "fail")
  /\ UNCHANGED <<kernel, device>>

\* MapDevice: the frame buffer, write combined or not, then the FIFO.
MapFrameBuffer(c) ==
  /\ \/ Go(c, "fb", "fifo") /\ More("fb") /\ fbArea' = TRUE
     \/ Go(c, "fb", "fail") /\ UNCHANGED <<areas, fbArea>>
  /\ UNCHANGED <<kernel, isOpen, si, fifoArea>>

\* Mutant: the frame buffer stays mapped when the FIFO cannot be.
MapFifo_KeepsFrameBuffer(c) ==
  /\ \/ Go(c, "fifo", "mark") /\ More("fifo") /\ fifoArea' = TRUE
     \/ Go(c, "fifo", "fail") /\ UNCHANGED <<areas, fifoArea>>
  /\ UNCHANGED <<kernel, isOpen, si, fbArea>>

MapFifo(c) ==
  /\ \/ Go(c, "fifo", "mark") /\ More("fifo") /\ fifoArea' = TRUE
     \/ Go(c, "fifo", "fail") /\ Fewer({"fb"}) /\ UNCHANGED fifoArea
  /\ UNCHANGED <<kernel, isOpen, si, fbArea>>

FreeShared == Fewer({"shared"}) /\ si' = FALSE

OpenFails(c) ==
  /\ Go(c, "fail", "failed")
  /\ FreeShared
  /\ UNCHANGED <<kernel, isOpen, fbArea, fifoArea>>

MarkAsOpen(c) ==
  /\ Go(c, "mark", "open")
  /\ isOpen' = isOpen + 1
  /\ Kernel!Leave(c)
  /\ UNCHANGED <<areas, si, fbArea, fifoArea>>

OpenReturnsError(c) ==
  /\ Go(c, "failed", "closed")
  /\ Kernel!Leave(c)
  /\ UNCHANGED device

-----------------------------------------------------------------------------
(* ControlHook and FreeHook.                                               *)

ControlHook(c) ==
  /\ Go(c, "open", "ioctl") \/ Go(c, "ioctl", "open")
  /\ UNCHANGED <<kernel, device>>

FreeHook(c) ==
  /\ Go(c, "open", "free")
  /\ Kernel!Enter(c)
  /\ UNCHANGED device

\* Mutant: the last but one tears the device down.
LastFree_TooEarly(c) ==
  /\ Go(c, "free", IF isOpen < 3 THEN "unmap" ELSE "count")
  /\ UNCHANGED <<kernel, device>>

LastFree(c) ==
  /\ Go(c, "free", IF isOpen < 2 THEN "unmap" ELSE "count")
  /\ UNCHANGED <<kernel, device>>

UnmapDevice(c) ==
  /\ Go(c, "unmap", "left")
  /\ Fewer((IF fifoArea THEN {"fifo"} ELSE {}) \cup (IF fbArea THEN {"fb"} ELSE {}))
  /\ fbArea' = FALSE /\ fifoArea' = FALSE
  /\ UNCHANGED <<kernel, isOpen, si>>

FreeSharedArea(c) ==
  /\ Go(c, "left", "count")
  /\ FreeShared
  /\ UNCHANGED <<kernel, isOpen, fbArea, fifoArea>>

FreeReturns(c) ==
  /\ Go(c, "count", "closed")
  /\ isOpen' = isOpen - 1
  /\ Kernel!Leave(c)
  /\ UNCHANGED <<areas, si, fbArea, fifoArea>>

\* What happens inside the benaphore once a client has entered it.
Inside(c) ==
  \/ AlreadyOpen(c) \/ CreateShared(c) \/ CheckCapabilities(c)
  \/ MapFrameBuffer(c) \/ MapFifo(c) \/ OpenFails(c) \/ MarkAsOpen(c)
  \/ OpenReturnsError(c)
  \/ LastFree(c) \/ UnmapDevice(c) \/ FreeSharedArea(c) \/ FreeReturns(c)

Step(c) == OpenHook(c) \/ ControlHook(c) \/ FreeHook(c) \/ Inside(c)

Next == \E c \in Clients : Step(c)

Spec == Init /\ [][Next]_vars

-----------------------------------------------------------------------------
(* Properties.                                                             *)

\* A client that has the device open can use it: the shared area is there and
\* names a mapped frame buffer and FIFO, whoever else opens or frees the device
\* meanwhile, and whatever attempts to open it have failed before.
OpenMeansMapped ==
  \A c \in Clients : pc[c] \in {"open", "ioctl"} =>
    /\ si /\ fbArea /\ fifoArea
    /\ \A a \in Areas : areas[a] = 1

\* Nothing is left behind: with no client on the device or in its hooks, no area
\* exists, so failed attempts to open it and the last free clean up all of it.
ClosedMeansClean ==
  (\A c \in Clients : pc[c] = "closed") =>
    isOpen = 0 /\ ~si /\ \A a \in Areas : areas[a] = 0

\* The areas follow the clients, from the first open to the last free.
AreasFollowClients == OpenMeansMapped /\ ClosedMeansClean
=============================================================================
