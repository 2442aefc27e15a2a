----------------------------- MODULE Accelerant -----------------------------
(***************************************************************************)
(* The accelerants on the graphics device: the primary one, in the         *)
(* app_server, and clones in other teams.  Each opens the device, sets     *)
(* display modes with a series of ioctls, and has, once it has set one, an *)
(* update thread that writes to the command FIFO under fifoLock; both the  *)
(* registers and that lock are shared by all teams.  The device's hooks    *)
(* are those of VideoDevice: an ioctl is ControlHook twice, for its first  *)
(* register and for its last.                                              *)
(*                                                                         *)
(* External: the app_server and the applications, which call the hooks of  *)
(* an accelerant one at a time, and the kernel, which closes the files of  *)
(* a team that ends.  A team ends when it touches the shared area after it *)
(* has deleted its clone of it.  The words in the FIFO are those of Fifo,  *)
(* and the two halves of a release those of Benaphore; the FIFO is not     *)
(* full, so that the update thread waits for its lock only.  One index and *)
(* value pair of the registers is one step, and spawning does not fail.    *)
(***************************************************************************)
EXTENDS VideoDevice

CONSTANT primary

ASSUME PrimaryAssumption == primary \in Clients

VARIABLES
  acc,          \* what each team's accelerant is doing
  ENABLE, CONFIG_DONE,  \* two registers
  ben, sem,     \* fifoLock: its counter, and the posts of its semaphore
  lock,         \* each thread and fifoLock
  gUpdateThread,     \* the team's update thread runs
  gUpdateThreadDie,
  reinit,       \* history: fifoLock was initialised while it was in use
  cloneMode,    \* history: a clone has set a mode
  torn          \* history: the ring was reset with a thread at it

registers == <<ENABLE, CONFIG_DONE>>
fifoLock == <<ben, sem, lock>>
threads == <<gUpdateThread, gUpdateThreadDie>>
history == <<reinit, cloneMode, torn>>
accelerant == <<acc, registers, fifoLock, threads, history>>

Main(c) == <<c, "main">>
Update(c) == <<c, "update">>
FifoUsers == Clients \X {"main", "update"}

\* A team can use its clone of the shared area.
Cloned(c) == acc[c] \notin {"off", "uninit", "laststop", "closing", "ended"}

AccelerantTypeOK ==
  /\ TypeOK
  /\ acc \in [Clients -> {"off", "init", "ready", "stop", "wait", "mode", "update", "start",
                          "uninit", "laststop", "closing", "ended"}]
  /\ {ENABLE, CONFIG_DONE, reinit, cloneMode, torn} \subseteq BOOLEAN
  /\ ben \in Int /\ sem \in Nat
  /\ lock \in [FifoUsers -> {"out", "begin", "wait", "in", "stuck"}]
  /\ gUpdateThread \in [Clients -> BOOLEAN]
  /\ gUpdateThreadDie \in [Clients -> BOOLEAN]

AccelerantInit ==
  /\ Init
  /\ acc = [c \in Clients |-> "off"]
  /\ ENABLE = FALSE /\ CONFIG_DONE = FALSE
  /\ ben = 0 /\ sem = 0
  /\ lock = [u \in FifoUsers |-> "out"]
  /\ gUpdateThread = [c \in Clients |-> FALSE]
  /\ gUpdateThreadDie = [c \in Clients |-> FALSE]
  /\ reinit = FALSE /\ cloneMode = FALSE /\ torn = FALSE

To(c, a) == acc' = [acc EXCEPT ![c] = a]
At(c, a, b) == acc[c] = a /\ To(c, b)

\* An ioctl, its first step and its last.
Enters(c) == pc[c] = "open" /\ ControlHook(c)
Leaves(c) == pc[c] = "ioctl" /\ ControlHook(c)

-----------------------------------------------------------------------------
(* fifoLock.                                                               *)

\* INIT_BEN: a new semaphore; who waits for the old one waits for ever.
InitFifoLock ==
  /\ reinit' = (reinit \/ ben # 0 \/ \E u \in FifoUsers : lock[u] \in {"wait", "in"})
  /\ ben' = 0 /\ sem' = 0
  /\ lock' = [u \in FifoUsers |-> IF lock[u] = "wait" THEN "stuck" ELSE lock[u]]

FifoBeginWrite(u) ==
  \/ /\ lock[u] = "begin"
     /\ ben' = ben + 1
     /\ lock' = [lock EXCEPT ![u] = IF ben >= 1 THEN "wait" ELSE "in"]
     /\ UNCHANGED sem
  \/ /\ lock[u] = "wait" /\ sem > 0
     /\ sem' = sem - 1
     /\ lock' = [lock EXCEPT ![u] = "in"]
     /\ UNCHANGED ben

FifoEndWrite(u) ==
  /\ lock[u] = "in" /\ lock' = [lock EXCEPT ![u] = "out"]
  /\ ben' = ben - 1
  /\ sem' = IF ben > 1 THEN sem + 1 ELSE sem

-----------------------------------------------------------------------------
(* The update thread.                                                      *)

\* It looks at gUpdateThreadDie before each update.
UpdateThread(c) ==
  /\ gUpdateThread[c]
  /\ \/ /\ lock[Update(c)] = "out"
        /\ IF gUpdateThreadDie[c]
           THEN gUpdateThread' = [gUpdateThread EXCEPT ![c] = FALSE] /\ UNCHANGED lock
           ELSE lock' = [lock EXCEPT ![Update(c)] = "begin"] /\ UNCHANGED gUpdateThread
        /\ UNCHANGED <<ben, sem>>
     \/ /\ Cloned(c)
        /\ FifoBeginWrite(Update(c)) \/ FifoEndWrite(Update(c))
        /\ UNCHANGED gUpdateThread
  /\ UNCHANGED <<vars, acc, registers, gUpdateThreadDie, history>>

\* The team ends, and its files are closed.
TeamEnds(c) ==
  /\ To(c, IF acc[c] = "ended" THEN "off" ELSE "closing")
  /\ gUpdateThread' = [gUpdateThread EXCEPT ![c] = FALSE]
  /\ lock' = [lock EXCEPT ![Main(c)] = "out", ![Update(c)] = "out"]
  /\ UNCHANGED <<ben, sem, vars, registers, gUpdateThreadDie, history>>

\* The update thread touches the shared area that its team has given up.
UpdateThreadFaults(c) ==
  /\ gUpdateThread[c] /\ ~Cloned(c) /\ lock[Update(c)] # "out"
  /\ pc[c] \in {"open", "closed"}
  /\ TeamEnds(c)

-----------------------------------------------------------------------------
(* INIT_ACCELERANT, CLONE_ACCELERANT and UNINIT_ACCELERANT.                *)

\* InitCommon: VMWARE_GET_PRIVATE_DATA, and a clone of the area, which may
\* fail: then the device is closed only with the team.
InitCommon(c) ==
  /\ acc[c] = "off"
  /\ \/ Enters(c) /\ UNCHANGED acc
     \/ Leaves(c) /\ (To(c, "init") \/ To(c, "closing"))
  /\ UNCHANGED <<registers, fifoLock, threads, history>>

INIT_ACCELERANT(c) ==
  /\ At(c, "init", "ready")
  /\ InitFifoLock
  /\ UNCHANGED <<vars, registers, threads, cloneMode, torn>>

UNINIT_ACCELERANT(c) ==
  /\ At(c, "ready", "uninit")
  /\ UNCHANGED <<vars, registers, fifoLock, threads, history>>

\* The primary accelerant waits for its update thread.
StopUpdateThread ==
  /\ acc[primary] = "uninit"
  /\ gUpdateThreadDie' = [gUpdateThreadDie EXCEPT ![primary] = TRUE]
  /\ IF gUpdateThread[primary] THEN ~gUpdateThreadDie[primary] /\ UNCHANGED acc
     ELSE To(primary, "laststop")
  /\ UNCHANGED <<vars, registers, fifoLock, gUpdateThread, history>>

\* Mutant: a clone stops the FIFO before it closes the device, not after.
Close_StopsFirst(c) ==
  /\ acc[c] \in {"closing", "uninit"}
  /\ acc[c] = "uninit" => c # primary
  /\ FreeHook(c)
  /\ To(c, IF acc[c] = "closing" THEN "off" ELSE "ended")
  /\ CONFIG_DONE' = (CONFIG_DONE /\ acc[c] # "uninit")
  /\ ENABLE' = (ENABLE /\ acc[c] # "uninit")
  /\ UNCHANGED <<fifoLock, threads, history>>

\* A clone closes the device, and VMWARE_FIFO_STOP on the closed file does
\* nothing.  The app_server closes the device after UNINIT_ACCELERANT.
Close(c) ==
  /\ acc[c] \in {"closing", "uninit"}
  /\ acc[c] = "uninit" => c # primary
  /\ FreeHook(c)
  /\ To(c, IF acc[c] = "closing" THEN "off" ELSE "ended")
  /\ UNCHANGED <<registers, fifoLock, threads, history>>

\* The application of a clone ends.
Ends(c) == acc[c] = "ended" /\ pc[c] = "closed" /\ TeamEnds(c)

-----------------------------------------------------------------------------
(* SET_DISPLAY_MODE.                                                       *)

\* PROPOSE_DISPLAY_MODE has accepted the mode; a refused one changes nothing.
SET_DISPLAY_MODE(c) ==
  /\ At(c, "ready", "stop")
  /\ cloneMode' = (cloneMode \/ c # primary)
  /\ UNCHANGED <<vars, registers, fifoLock, threads, reinit, torn>>

\* VMWARE_FIFO_STOP.
FifoStop(c) ==
  /\ \/ /\ acc[c] \in {"stop", "laststop"}
        /\ Enters(c)
        /\ CONFIG_DONE' = FALSE /\ UNCHANGED <<acc, ENABLE>>
     \/ /\ At(c, "stop", "wait") \/ At(c, "laststop", "closing")
        /\ Leaves(c)
        /\ ENABLE' = FALSE /\ UNCHANGED CONFIG_DONE
  /\ UNCHANGED <<fifoLock, threads, history>>

FifoInitWaits(c) ==
  /\ acc[c] = "wait" /\ gUpdateThread[c] /\ ~gUpdateThreadDie[c]
  /\ gUpdateThreadDie' = [gUpdateThreadDie EXCEPT ![c] = TRUE]
  /\ UNCHANGED <<vars, acc, registers, fifoLock, gUpdateThread, history>>

\* Mutant: the update thread is told to end and not waited for.
FifoInit_NoWait(c) ==
  /\ At(c, "wait", "mode")
  /\ torn' = (torn \/ \E u \in FifoUsers : lock[u] = "in")
  /\ gUpdateThread' = [gUpdateThread EXCEPT ![c] = TRUE]
  /\ gUpdateThreadDie' = [gUpdateThreadDie EXCEPT ![c] = FALSE]
  /\ UNCHANGED <<vars, registers, fifoLock, reinit, cloneMode>>

\* With no update thread of this team left, the ring is reset, without
\* fifoLock, and a new one begins.
FifoInit(c) ==
  /\ At(c, "wait", "mode") /\ ~gUpdateThread[c]
  /\ torn' = (torn \/ \E u \in FifoUsers : lock[u] = "in")
  /\ gUpdateThread' = [gUpdateThread EXCEPT ![c] = TRUE]
  /\ gUpdateThreadDie' = [gUpdateThreadDie EXCEPT ![c] = FALSE]
  /\ UNCHANGED <<vars, registers, fifoLock, reinit, cloneMode>>

\* VMWARE_SET_MODE.
SetMode(c) ==
  /\ \/ acc[c] = "mode" /\ Enters(c) /\ UNCHANGED <<acc, ENABLE>>
     \/ At(c, "mode", "update") /\ Leaves(c) /\ ENABLE' = TRUE
  /\ UNCHANGED <<CONFIG_DONE, fifoLock, threads, history>>

FifoUpdateFullscreen(c) ==
  /\ acc[c] = "update"
  /\ \/ /\ lock[Main(c)] = "out" /\ lock' = [lock EXCEPT ![Main(c)] = "begin"]
        /\ UNCHANGED <<acc, ben, sem>>
     \/ FifoBeginWrite(Main(c)) /\ UNCHANGED acc
     \/ FifoEndWrite(Main(c)) /\ To(c, "start")
  /\ UNCHANGED <<vars, registers, threads, history>>

\* VMWARE_FIFO_START.
FifoStart(c) ==
  /\ \/ acc[c] = "start" /\ Enters(c) /\ UNCHANGED <<acc, CONFIG_DONE>>
     \/ At(c, "start", "ready") /\ Leaves(c) /\ CONFIG_DONE' = TRUE
  /\ UNCHANGED <<ENABLE, fifoLock, threads, history>>

-----------------------------------------------------------------------------

Open(c) == acc[c] = "off" /\ OpenHook(c)

AccelerantStep(c) ==
  \/ (Open(c) \/ Inside(c)) /\ UNCHANGED accelerant
  \/ InitCommon(c) \/ INIT_ACCELERANT(c) \/ UNINIT_ACCELERANT(c) \/ Close(c) \/ Ends(c)
  \/ SET_DISPLAY_MODE(c) \/ FifoStop(c) \/ FifoInitWaits(c) \/ FifoInit(c)
  \/ SetMode(c) \/ FifoUpdateFullscreen(c) \/ FifoStart(c)
  \/ UpdateThread(c) \/ UpdateThreadFaults(c)

AccelerantNext == StopUpdateThread \/ \E c \in Clients : AccelerantStep(c)

AccelerantSpec == AccelerantInit /\ [][AccelerantNext]_<<vars, accelerant>>

-----------------------------------------------------------------------------
(* Properties.                                                             *)

Switching(c) == acc[c] \in {"stop", "wait", "mode", "update", "start"}

\* The display stays on: from the time the primary accelerant has set a mode
\* until it is given up, with no mode switch under way, the device is enabled and
\* reads its FIFO, however clones come, set modes of their own, and go.
DeviceStaysOn ==
  acc[primary] = "ready" /\ gUpdateThread[primary] /\ (\A c \in Clients : ~Switching(c))
    => ENABLE /\ CONFIG_DONE

\* The FIFO has one writer at a time, unless an accelerant was started while
\* another one's thread was at the lock; and the ring is never reset under a
\* thread that is writing to it, unless a clone has set a mode.
FifoIsMine ==
  /\ ~reinit => Cardinality({u \in FifoUsers : lock[u] = "in"}) <= 1
  /\ ~cloneMode => ~torn
=============================================================================
