--------------------------- MODULE Accelerant_proof ---------------------------
(***************************************************************************)
(* The accelerants use the device as VideoDevice says its clients do, and  *)
(* what they promise each other about the FIFO and the display holds for   *)
(* any finite set of them.                                                 *)
(***************************************************************************)
EXTENDS Accelerant, FiniteSetTheorems, TLAPS

-----------------------------------------------------------------------------
(* The device: its areas follow its clients.                               *)

\* The places between taking the benaphore and giving it back.
Held == {"enter", "create", "check", "fb", "fifo", "fail", "mark", "failed",
         "free", "unmap", "left", "count"}

\* The clients that isOpen counts.
Holders == {c \in Clients : pc[c] \in {"open", "ioctl", "free", "unmap", "left", "count"}}

Exist(shared, fb, fifo) ==
  areas["shared"] = shared /\ areas["fb"] = fb /\ areas["fifo"] = fifo

Mapped == si /\ fbArea /\ fifoArea /\ Exist(1, 1, 1)
Clean == ~si /\ Exist(0, 0, 0)
Settled == (isOpen = 0 => Clean) /\ (isOpen # 0 => Mapped)

\* What the client inside the benaphore finds at each place.
Stage(p) ==
  /\ p = "enter" => Settled
  /\ p = "create" => isOpen = 0 /\ Clean
  /\ p \in {"check", "fb"} => isOpen = 0 /\ si /\ ~fbArea /\ ~fifoArea /\ Exist(1, 0, 0)
  /\ p = "fifo" => isOpen = 0 /\ si /\ fbArea /\ ~fifoArea /\ Exist(1, 1, 0)
  /\ p = "fail" => isOpen = 0 /\ si /\ Exist(1, 0, 0)
  /\ p = "failed" => isOpen = 0 /\ Clean
  /\ p = "mark" => Mapped
  /\ p = "free" => Mapped
  /\ p = "unmap" => isOpen = 1 /\ Mapped
  /\ p = "left" => isOpen = 1 /\ si /\ Exist(1, 0, 0)
  /\ p = "count" => (isOpen = 1 => Clean) /\ (isOpen # 1 => Mapped)

Exclusive ==
  /\ kernel = {c \in Clients : pc[c] \in Held}
  /\ \A c, d \in kernel : c = d

Stages ==
  /\ kernel = {} => Settled
  /\ \A c \in kernel : Stage(pc[c])

IInv == TypeOK /\ isOpen = Cardinality(Holders) /\ Exclusive /\ Stages

-----------------------------------------------------------------------------
(* Counting the clients.                                                   *)

LEMMA HoldersFinite ==
  /\ IsFiniteSet(Holders)
  /\ Cardinality(Holders) \in Nat
  /\ Cardinality(Holders) = 0 <=> Holders = {}
  <1>1. Holders \subseteq Clients
    BY DEF Holders
  <1>2. IsFiniteSet(Holders)
    BY <1>1, ClientsAssumption, FS_Subset
  <1> QED BY <1>2, FS_CardinalityType, FS_EmptySet

\* isOpen is one exactly if its client is the only one it counts.
LEMMA OneHolder ==
  ASSUME IInv, NEW c \in Holders
  PROVE  /\ isOpen \in Nat \ {0}
         /\ isOpen = 1 => \A d \in Holders : d = c
  <1>1. isOpen = Cardinality(Holders)
    BY DEF IInv
  <1>2. Cardinality(Holders \ {c}) = Cardinality(Holders) - 1
    BY HoldersFinite, FS_RemoveElement
  <1>3. IsFiniteSet(Holders \ {c})
    BY HoldersFinite, FS_Subset
  <1>4. Cardinality(Holders \ {c}) = 0 <=> Holders \ {c} = {}
    BY <1>3, FS_EmptySet
  <1>5. isOpen \in Nat \ {0}
    BY <1>1, HoldersFinite
  <1>6. ASSUME isOpen = 1, NEW d \in Holders PROVE d = c
    <2>1. Holders \ {c} = {}
      BY <1>1, <1>2, <1>4, <1>6
    <2> QED BY <2>1
  <1> QED BY <1>5, <1>6

LEMMA SameHolders ==
  ASSUME IInv, NEW c \in Clients, NEW q,
         pc' = [pc EXCEPT ![c] = q],
         pc[c] \in {"open", "ioctl", "free", "unmap", "left", "count"}
           <=> q \in {"open", "ioctl", "free", "unmap", "left", "count"},
         isOpen' = isOpen
  PROVE  isOpen' = Cardinality(Holders')
  <1>1. Holders' = Holders
    BY DEF IInv, TypeOK, Holders
  <1> QED BY <1>1 DEF IInv

-----------------------------------------------------------------------------
(* Going in, inside, and out.                                              *)

LEMMA GoesIn ==
  ASSUME IInv, NEW c \in Clients, NEW q \in Held,
         pc' = [pc EXCEPT ![c] = q], Kernel!Enter(c), Stage(q)'
  PROVE  Exclusive' /\ Stages'
  <1>1. kernel = {} /\ kernel' = {c}
    BY DEF Kernel!Enter
  <1>2. pc' [c] = q /\ \A d \in Clients \ {c} : pc'[d] = pc[d]
    BY DEF IInv, TypeOK
  <1>3. Exclusive'
    BY <1>1, <1>2 DEF IInv, Exclusive
  <1> QED BY <1>1, <1>2, <1>3 DEF Stages

LEMMA StaysIn ==
  ASSUME IInv, NEW c \in Clients, pc[c] \in Held, NEW q \in Held,
         pc' = [pc EXCEPT ![c] = q], kernel' = kernel, Stage(q)'
  PROVE  Exclusive' /\ Stages'
  <1>1. kernel = {c}
    BY DEF IInv, Exclusive
  <1>2. pc' [c] = q /\ \A d \in Clients \ {c} : pc'[d] = pc[d]
    BY DEF IInv, TypeOK
  <1>3. Exclusive'
    BY <1>1, <1>2 DEF IInv, Exclusive
  <1> QED BY <1>1, <1>2, <1>3 DEF Stages

LEMMA GoesOut ==
  ASSUME IInv, NEW c \in Clients, pc[c] \in Held, NEW q, q \notin Held,
         pc' = [pc EXCEPT ![c] = q], Kernel!Leave(c), Settled'
  PROVE  Exclusive' /\ Stages'
  <1>1. kernel = {c} /\ kernel' = {}
    BY DEF IInv, Exclusive, Kernel!Leave
  <1>2. pc' [c] = q /\ \A d \in Clients \ {c} : pc'[d] = pc[d]
    BY DEF IInv, TypeOK
  <1>3. Exclusive'
    BY <1>1, <1>2 DEF IInv, Exclusive
  <1> QED BY <1>1, <1>3 DEF Stages

\* The stage of the client that is inside.
LEMMA StageOf ==
  ASSUME IInv, NEW c \in Clients, pc[c] \in Held
  PROVE  Stage(pc[c])
  BY DEF IInv, Exclusive, Stages

-----------------------------------------------------------------------------
(* The invariant.                                                          *)

LEMMA InitInvariant == Init => IInv
  <1> SUFFICES ASSUME Init PROVE IInv
    OBVIOUS
  <1>1. Holders = {}
    BY DEF Init, Holders
  <1>2. TypeOK
    BY DEF Init, TypeOK
  <1>3. Exclusive /\ Stages
    BY DEF Init, Exclusive, Stages, Settled, Clean, Exist, Areas, Held
  <1> QED BY <1>1, <1>2, <1>3, FS_EmptySet DEF Init, IInv

\* OpenHook's steps: isOpen changes in the last one only.
LEMMA OpenPreserves ==
  ASSUME IInv, NEW c \in Clients,
         \/ OpenHook(c) \/ AlreadyOpen(c) \/ CreateShared(c) \/ CheckCapabilities(c)
         \/ MapFrameBuffer(c) \/ MapFifo(c) \/ OpenFails(c) \/ OpenReturnsError(c)
  PROVE  IInv'
  <1> USE DEF Go, device
  <1>1. CASE OpenHook(c)
    <2>1. Settled'
      BY <1>1 DEF OpenHook, IInv, Stages, Settled, Clean, Mapped, Exist, Kernel!Enter
    <2>2. Stage("enter")'
      BY <2>1 DEF Stage
    <2>3. Exclusive' /\ Stages'
      BY <1>1, <2>2, GoesIn DEF OpenHook, Held
    <2>4. isOpen' = Cardinality(Holders')
      BY <1>1, SameHolders DEF OpenHook
    <2>5. TypeOK'
      BY <1>1 DEF OpenHook, IInv, TypeOK, Kernel!Enter
    <2> QED BY <2>3, <2>4, <2>5 DEF IInv
  <1>2. CASE AlreadyOpen(c)
    <2>1. Settled
      BY <1>2, StageOf DEF AlreadyOpen, Stage, Held
    <2>2. PICK q \in {"mark", "create"} : pc' = [pc EXCEPT ![c] = q] /\ Stage(q)'
      BY <1>2, <2>1 DEF AlreadyOpen, Stage, Settled, Clean, Mapped, Exist
    <2>3. Exclusive' /\ Stages'
      BY <1>2, <2>2, StaysIn DEF AlreadyOpen, Held
    <2>4. isOpen' = Cardinality(Holders')
      BY <1>2, SameHolders DEF AlreadyOpen
    <2>5. TypeOK'
      BY <1>2 DEF AlreadyOpen, IInv, TypeOK
    <2> QED BY <2>3, <2>4, <2>5 DEF IInv
  <1>3. CASE CreateShared(c)
    <2>1. isOpen = 0 /\ Clean
      BY <1>3, StageOf DEF CreateShared, Stage, Held
    <2>2. PICK q \in {"check", "failed"} : pc' = [pc EXCEPT ![c] = q] /\ Stage(q)'
      BY <1>3, <2>1 DEF CreateShared, More, Stage, Clean, Exist, IInv, TypeOK, Areas
    <2>3. Exclusive' /\ Stages'
      BY <1>3, <2>2, StaysIn DEF CreateShared, Held
    <2>4. isOpen' = Cardinality(Holders')
      BY <1>3, SameHolders DEF CreateShared
    <2>5. TypeOK'
      <3>1. areas' \in [Areas -> Nat]
        BY <1>3 DEF CreateShared, More, IInv, TypeOK
      <3> QED BY <1>3, <3>1 DEF CreateShared, IInv, TypeOK
    <2> QED BY <2>3, <2>4, <2>5 DEF IInv
  <1>4. CASE CheckCapabilities(c)
    <2>1. isOpen = 0 /\ si /\ ~fbArea /\ ~fifoArea /\ Exist(1, 0, 0)
      BY <1>4, StageOf DEF CheckCapabilities, Stage, Held
    <2>2. PICK q \in {"fb", "fail"} : pc' = [pc EXCEPT ![c] = q] /\ Stage(q)'
      BY <1>4, <2>1 DEF CheckCapabilities, Stage, Exist
    <2>3. Exclusive' /\ Stages'
      BY <1>4, <2>2, StaysIn DEF CheckCapabilities, Held
    <2>4. isOpen' = Cardinality(Holders')
      BY <1>4, SameHolders DEF CheckCapabilities
    <2>5. TypeOK'
      BY <1>4 DEF CheckCapabilities, IInv, TypeOK
    <2> QED BY <2>3, <2>4, <2>5 DEF IInv
  <1>5. CASE MapFrameBuffer(c)
    <2>1. isOpen = 0 /\ si /\ ~fbArea /\ ~fifoArea /\ Exist(1, 0, 0)
      BY <1>5, StageOf DEF MapFrameBuffer, Stage, Held
    <2>2. PICK q \in {"fifo", "fail"} : pc' = [pc EXCEPT ![c] = q] /\ Stage(q)'
      BY <1>5, <2>1 DEF MapFrameBuffer, More, Stage, Exist, IInv, TypeOK, Areas
    <2>3. Exclusive' /\ Stages'
      BY <1>5, <2>2, StaysIn DEF MapFrameBuffer, Held
    <2>4. isOpen' = Cardinality(Holders')
      BY <1>5, SameHolders DEF MapFrameBuffer
    <2>5. TypeOK'
      <3>1. areas' \in [Areas -> Nat]
        BY <1>5 DEF MapFrameBuffer, More, IInv, TypeOK
      <3> QED BY <1>5, <3>1 DEF MapFrameBuffer, IInv, TypeOK
    <2> QED BY <2>3, <2>4, <2>5 DEF IInv
  <1>6. CASE MapFifo(c)
    <2>1. isOpen = 0 /\ si /\ fbArea /\ ~fifoArea /\ Exist(1, 1, 0)
      BY <1>6, StageOf DEF MapFifo, Stage, Held
    <2>2. PICK q \in {"mark", "fail"} : pc' = [pc EXCEPT ![c] = q] /\ Stage(q)'
      BY <1>6, <2>1 DEF MapFifo, More, Fewer, Mapped, Stage, Exist, IInv, TypeOK, Areas
    <2>3. Exclusive' /\ Stages'
      BY <1>6, <2>2, StaysIn DEF MapFifo, Held
    <2>4. isOpen' = Cardinality(Holders')
      BY <1>6, SameHolders DEF MapFifo
    <2>5. TypeOK'
      <3>1. areas' \in [Areas -> Nat]
        BY <1>6, <2>1 DEF MapFifo, More, Fewer, Areas, Exist, IInv, TypeOK
      <3> QED BY <1>6, <3>1 DEF MapFifo, IInv, TypeOK
    <2> QED BY <2>3, <2>4, <2>5 DEF IInv
  <1>7. CASE OpenFails(c)
    <2>1. isOpen = 0 /\ si /\ Exist(1, 0, 0)
      BY <1>7, StageOf DEF OpenFails, Stage, Held
    <2>2. Stage("failed")'
      BY <1>7, <2>1 DEF OpenFails, FreeShared, Fewer, Stage, Clean, Exist, Areas
    <2>3. Exclusive' /\ Stages'
      BY <1>7, <2>2, StaysIn DEF OpenFails, Held
    <2>4. isOpen' = Cardinality(Holders')
      BY <1>7, SameHolders DEF OpenFails
    <2>5. TypeOK'
      <3>1. areas' \in [Areas -> Nat]
        BY <1>7, <2>1 DEF OpenFails, FreeShared, Fewer, Areas, Exist, IInv, TypeOK
      <3> QED BY <1>7, <3>1 DEF OpenFails, FreeShared, IInv, TypeOK
    <2> QED BY <2>3, <2>4, <2>5 DEF IInv
  <1>8. CASE OpenReturnsError(c)
    <2>1. isOpen = 0 /\ Clean
      BY <1>8, StageOf DEF OpenReturnsError, Stage, Held
    <2>2. Settled'
      BY <1>8, <2>1 DEF OpenReturnsError, Settled, Clean, Exist
    <2>3. Exclusive' /\ Stages'
      BY <1>8, <2>2, GoesOut DEF OpenReturnsError, Held
    <2>4. isOpen' = Cardinality(Holders')
      BY <1>8, SameHolders DEF OpenReturnsError
    <2>5. TypeOK'
      BY <1>8 DEF OpenReturnsError, IInv, TypeOK, Kernel!Leave
    <2> QED BY <2>3, <2>4, <2>5 DEF IInv
  <1> QED BY <1>1, <1>2, <1>3, <1>4, <1>5, <1>6, <1>7, <1>8

LEMMA MarkAsOpenPreserves ==
  ASSUME IInv, NEW c \in Clients, MarkAsOpen(c)
  PROVE  IInv'
  <1> USE DEF Go, MarkAsOpen
  <1>1. Mapped
    BY StageOf DEF Stage, Held
  <1>2. isOpen' = Cardinality(Holders') /\ isOpen' \in Nat \ {0}
    <2>1. c \notin Holders /\ Holders' = Holders \cup {c}
      BY DEF IInv, TypeOK, Holders
    <2>2. /\ isOpen' = isOpen + 1
          /\ isOpen = Cardinality(Holders) /\ Cardinality(Holders) \in Nat
      BY HoldersFinite DEF IInv
    <2>3. Cardinality(Holders \cup {c}) = Cardinality(Holders) + 1
      BY <2>1, HoldersFinite, FS_AddElement
    <2> QED BY <2>1, <2>2, <2>3
  <1>3. Settled'
    BY <1>1, <1>2 DEF Settled, Mapped, Exist
  <1>4. Exclusive' /\ Stages'
    BY <1>3, GoesOut DEF Held
  <1>5. TypeOK'
    BY <1>2 DEF IInv, TypeOK, Kernel!Leave
  <1> QED BY <1>2, <1>4, <1>5 DEF IInv

LEMMA ControlPreserves ==
  ASSUME IInv, NEW c \in Clients, ControlHook(c)
  PROVE  IInv'
  <1> USE DEF Go, device, ControlHook
  <1>1. \A d \in Clients : pc'[d] \in Held <=> pc[d] \in Held
    BY DEF IInv, TypeOK, Held
  <1>2. \A d \in Clients : pc[d] \in Held => pc'[d] = pc[d]
    BY DEF IInv, TypeOK, Held
  <1>3. Exclusive'
    BY <1>1 DEF IInv, Exclusive
  <1>4. Stages'
    <2>1. \A d \in kernel : pc'[d] = pc[d]
      BY <1>2 DEF IInv, Exclusive
    <2>2. Settled => Settled'
      BY DEF Settled, Clean, Mapped, Exist
    <2>3. \A d \in kernel : Stage(pc[d]) => Stage(pc[d])'
      BY <2>1, <2>2 DEF Stage, Clean, Mapped, Exist
    <2> QED BY <2>2, <2>3 DEF IInv, Stages
  <1>5. isOpen' = Cardinality(Holders')
    BY SameHolders
  <1>6. TypeOK'
    BY DEF IInv, TypeOK
  <1> QED BY <1>3, <1>4, <1>5, <1>6 DEF IInv

\* FreeHook's steps, up to the last.
LEMMA FreePreserves ==
  ASSUME IInv, NEW c \in Clients,
         FreeHook(c) \/ LastFree(c) \/ UnmapDevice(c) \/ FreeSharedArea(c)
  PROVE  IInv'
  <1> USE DEF Go, device
  <1>0. c \in Holders
    BY DEF FreeHook, LastFree, UnmapDevice, FreeSharedArea, Holders
  <1>1. CASE FreeHook(c)
    <2>1. Mapped
      BY <1>0, <1>1, OneHolder DEF FreeHook, Kernel!Enter, IInv, Stages, Settled
    <2>2. Stage("free")'
      BY <1>1, <2>1 DEF FreeHook, Stage, Mapped, Exist
    <2>3. Exclusive' /\ Stages'
      BY <1>1, <2>2, GoesIn DEF FreeHook, Held
    <2>4. isOpen' = Cardinality(Holders')
      BY <1>1, SameHolders DEF FreeHook
    <2>5. TypeOK'
      BY <1>1 DEF FreeHook, IInv, TypeOK, Kernel!Enter
    <2> QED BY <2>3, <2>4, <2>5 DEF IInv
  <1>2. CASE LastFree(c)
    <2>1. Mapped
      BY <1>2, StageOf DEF LastFree, Stage, Held
    <2>2. PICK q \in {"unmap", "count"} : pc' = [pc EXCEPT ![c] = q] /\ Stage(q)'
      <3>1. isOpen \in Nat \ {0}
        BY <1>0, OneHolder
      <3>2. CASE isOpen < 2
        <4>1. isOpen = 1
          BY <3>1, <3>2
        <4> QED BY <1>2, <2>1, <3>2, <4>1 DEF LastFree, Stage, Mapped, Exist
      <3>3. CASE ~(isOpen < 2)
        <4>1. isOpen # 1
          BY <3>3
        <4> QED BY <1>2, <2>1, <3>3, <4>1 DEF LastFree, Stage, Mapped, Exist
      <3> QED BY <3>2, <3>3
    <2>3. Exclusive' /\ Stages'
      BY <1>2, <2>2, StaysIn DEF LastFree, Held
    <2>4. isOpen' = Cardinality(Holders')
      BY <1>2, SameHolders DEF LastFree
    <2>5. TypeOK'
      BY <1>2 DEF LastFree, IInv, TypeOK
    <2> QED BY <2>3, <2>4, <2>5 DEF IInv
  <1>3. CASE UnmapDevice(c)
    <2>1. isOpen = 1 /\ Mapped
      BY <1>3, StageOf DEF UnmapDevice, Stage, Held
    <2>2. Stage("left")'
      BY <1>3, <2>1 DEF UnmapDevice, Fewer, Stage, Mapped, Exist, Areas
    <2>3. Exclusive' /\ Stages'
      BY <1>3, <2>2, StaysIn DEF UnmapDevice, Held
    <2>4. isOpen' = Cardinality(Holders')
      BY <1>3, SameHolders DEF UnmapDevice
    <2>5. TypeOK'
      <3>1. areas' \in [Areas -> Nat]
        BY <1>3, <2>1 DEF UnmapDevice, Fewer, Mapped, Exist, Areas, IInv, TypeOK
      <3> QED BY <1>3, <3>1 DEF UnmapDevice, IInv, TypeOK
    <2> QED BY <2>3, <2>4, <2>5 DEF IInv
  <1>4. CASE FreeSharedArea(c)
    <2>1. isOpen = 1 /\ si /\ Exist(1, 0, 0)
      BY <1>4, StageOf DEF FreeSharedArea, Stage, Held
    <2>2. Stage("count")'
      BY <1>4, <2>1 DEF FreeSharedArea, FreeShared, Fewer, Stage, Clean, Exist, Areas
    <2>3. Exclusive' /\ Stages'
      BY <1>4, <2>2, StaysIn DEF FreeSharedArea, Held
    <2>4. isOpen' = Cardinality(Holders')
      BY <1>4, SameHolders DEF FreeSharedArea
    <2>5. TypeOK'
      <3>1. areas' \in [Areas -> Nat]
        BY <1>4, <2>1 DEF FreeSharedArea, FreeShared, Fewer, Exist, Areas, IInv, TypeOK
      <3> QED BY <1>4, <3>1 DEF FreeSharedArea, FreeShared, IInv, TypeOK
    <2> QED BY <2>3, <2>4, <2>5 DEF IInv
  <1> QED BY <1>1, <1>2, <1>3, <1>4

LEMMA FreeReturnsPreserves ==
  ASSUME IInv, NEW c \in Clients, FreeReturns(c)
  PROVE  IInv'
  <1> USE DEF Go, FreeReturns
  <1>1. c \in Holders /\ Holders' = Holders \ {c}
    BY DEF IInv, TypeOK, Holders
  <1>2. isOpen' = Cardinality(Holders') /\ isOpen' \in Nat
    BY <1>1, OneHolder, HoldersFinite, FS_RemoveElement DEF IInv
  <1>3. (isOpen = 1 => Clean) /\ (isOpen # 1 => Mapped)
    BY StageOf DEF Stage, Held
  <1>4. Settled'
    BY <1>1, <1>3, OneHolder DEF Settled, Clean, Mapped, Exist
  <1>5. Exclusive' /\ Stages'
    BY <1>4, GoesOut DEF Held
  <1>6. TypeOK'
    BY <1>2 DEF IInv, TypeOK, Kernel!Leave
  <1> QED BY <1>2, <1>5, <1>6 DEF IInv

LEMMA StepInvariant == IInv /\ [Next]_vars => IInv'
  <1>1. ASSUME IInv, UNCHANGED vars PROVE IInv'
    BY <1>1 DEF vars, device, IInv, TypeOK, Holders, Exclusive, Stages, Stage, Settled,
                Clean, Mapped, Exist
  <1> QED
    BY <1>1, OpenPreserves, MarkAsOpenPreserves, ControlPreserves, FreePreserves,
       FreeReturnsPreserves DEF Next, Step, Inside

LEMMA Invariance == Spec => []IInv
  BY InitInvariant, StepInvariant, PTL DEF Spec

-----------------------------------------------------------------------------

LEMMA FollowsFromInvariant == IInv => AreasFollowClients
  <1> SUFFICES ASSUME IInv PROVE AreasFollowClients
    OBVIOUS
  <1>1. ASSUME NEW c \in Clients, pc[c] \in {"open", "ioctl"} PROVE Mapped
    <2>1. c \in Holders
      BY <1>1 DEF Holders
    <2>2. isOpen # 0
      BY <2>1, OneHolder
    <2>3. CASE kernel = {}
      BY <2>2, <2>3 DEF IInv, Stages, Settled
    <2>4. CASE kernel # {}
      <3>1. PICK d \in Clients : pc[d] \in Held /\ Stage(pc[d])
        BY <2>4 DEF IInv, Exclusive, Stages
      <3>2. pc[d] \in {"unmap", "left", "count"} => isOpen # 1
        <4>1. c # d
          BY <1>1, <3>1 DEF Held
        <4>2. pc[d] \in {"unmap", "left", "count"} => d \in Holders
          BY DEF Holders
        <4> QED BY <2>1, <4>1, <4>2, OneHolder
      <3> QED BY <2>2, <3>1, <3>2 DEF Stage, Settled, Held
    <2> QED BY <2>3, <2>4
  <1>2. OpenMeansMapped
    BY <1>1 DEF OpenMeansMapped, Mapped, Exist, Areas
  <1>3. ClosedMeansClean
    <2> SUFFICES ASSUME \A c \in Clients : pc[c] = "closed"
                 PROVE  isOpen = 0 /\ ~si /\ \A a \in Areas : areas[a] = 0
      BY DEF ClosedMeansClean
    <2>1. Holders = {} /\ kernel = {}
      BY DEF Holders, IInv, Exclusive, Held
    <2>2. isOpen = 0
      BY <2>1, HoldersFinite DEF IInv
    <2> QED BY <2>1, <2>2 DEF IInv, Stages, Settled, Clean, Exist, Areas
  <1> QED BY <1>2, <1>3 DEF AreasFollowClients

\* Whatever clients open, control and free the device, in whatever order, and
\* whichever step of opening fails: who has it open finds all its areas mapped,
\* and when nobody does no area is left.
THEOREM DeviceFollowsClients == Spec => []AreasFollowClients
  BY FollowsFromInvariant, Invariance, PTL

-----------------------------------------------------------------------------
(* The accelerants.                                                        *)

\* A team's threads are at fifoLock only where the code takes it.
AtTheLock ==
  \A c \in Clients :
    /\ lock[Main(c)] # "out" => acc[c] = "update"
    /\ lock[Update(c)] # "out" => gUpdateThread[c]

\* The FIFO is stopped for good by the primary accelerant, without update thread.
LastStop == \A c \in Clients : acc[c] = "laststop" => c = primary /\ ~gUpdateThread[primary]

\* The lock is in one place, and ben knows.
OnePlace ==
  ~reinit =>
    /\ ben >= 0
    /\ \A u, v \in FifoUsers : lock[u] = "in" /\ lock[v] = "in" => u = v
    /\ \A u \in FifoUsers : lock[u] = "in" => sem = 0 /\ ben >= 1
    /\ sem > 0 => sem = 1 /\ ben >= 1

ClonesQuiet ==
  ~cloneMode =>
    /\ ~torn
    /\ \A c \in Clients \ {primary} : ~Switching(c) /\ ~gUpdateThread[c]

\* Who has switched a register off is still to switch it on.
OffInSwitch ==
  gUpdateThread[primary] =>
    /\ ENABLE \/ \E c \in Clients : acc[c] \in {"stop", "wait", "mode"}
    /\ CONFIG_DONE \/ \E c \in Clients : Switching(c)

AInv ==
  /\ IInv /\ AccelerantTypeOK
  /\ AtTheLock /\ LastStop /\ OnePlace /\ ClonesQuiet /\ OffInSwitch

-----------------------------------------------------------------------------
(* The accelerants are clients of VideoDevice.                             *)

LEMMA StepOfDevice == [AccelerantNext]_<<vars, accelerant>> => [Next]_vars
  <1> SUFFICES ASSUME AccelerantNext, ~UNCHANGED vars
               PROVE  \E c \in Clients : Step(c)
    BY DEF Next
  <1>1. PICK c \in Clients : AccelerantStep(c)
    BY DEF AccelerantNext, StopUpdateThread
  <1>2. (Open(c) \/ Inside(c) \/ Enters(c) \/ Leaves(c) \/ FreeHook(c)) => Step(c)
    BY DEF Open, Enters, Leaves, Step
  <1> QED
    BY <1>1, <1>2 DEF AccelerantStep, InitCommon, INIT_ACCELERANT, UNINIT_ACCELERANT, Close,
       Ends, TeamEnds, SET_DISPLAY_MODE, FifoStop, FifoInitWaits, FifoInit, SetMode,
       FifoUpdateFullscreen, FifoStart, UpdateThread, UpdateThreadFaults

\* Whatever accelerants do, and however their teams end, the device sees hooks in
\* the order VideoDevice allows.
THEOREM AccelerantsAreClients == AccelerantSpec => Spec
  BY StepOfDevice, PTL DEF AccelerantSpec, AccelerantInit, Spec

\* So the areas follow the accelerants' teams.
THEOREM AreasFollowAccelerants == AccelerantSpec => []AreasFollowClients
  BY AccelerantsAreClients, DeviceFollowsClients, PTL

-----------------------------------------------------------------------------
(* The invariant.                                                          *)

LEMMA FifoUsersOfTeams ==
  ASSUME NEW c \in Clients
  PROVE  /\ Main(c) \in FifoUsers /\ Update(c) \in FifoUsers
         /\ Main(c) # Update(c)
         /\ \A d \in Clients : d # c =>
              {Main(c), Update(c)} \cap {Main(d), Update(d)} = {}
  BY DEF Main, Update, FifoUsers

\* Types.
LEMMA TypesPreserved ==
  ASSUME AInv, NEW c \in Clients, AccelerantStep(c)
  PROVE  TypeOK' => AccelerantTypeOK'
  <1> USE DEF AInv, accelerant, registers, fifoLock, threads, history, AccelerantTypeOK
  <1>1. CASE UNCHANGED accelerant
    BY <1>1, FifoUsersOfTeams
  <1>2. CASE InitCommon(c)
    BY <1>2, FifoUsersOfTeams DEF InitCommon, To
  <1>3. CASE INIT_ACCELERANT(c)
    BY <1>3, FifoUsersOfTeams DEF INIT_ACCELERANT, At, To, InitFifoLock
  <1>4. CASE UNINIT_ACCELERANT(c)
    BY <1>4, FifoUsersOfTeams DEF UNINIT_ACCELERANT, At, To
  <1>5. CASE Close(c)
    BY <1>5, FifoUsersOfTeams DEF Close, To
  <1>6. CASE Ends(c)
    BY <1>6, FifoUsersOfTeams DEF Ends, TeamEnds, To
  <1>7. CASE SET_DISPLAY_MODE(c)
    BY <1>7, FifoUsersOfTeams DEF SET_DISPLAY_MODE, At, To
  <1>8. CASE FifoStop(c)
    BY <1>8, FifoUsersOfTeams DEF FifoStop, At, To
  <1>9. CASE FifoInitWaits(c)
    BY <1>9, FifoUsersOfTeams DEF FifoInitWaits
  <1>10. CASE FifoInit(c)
    BY <1>10, FifoUsersOfTeams DEF FifoInit, At, To
  <1>11. CASE SetMode(c)
    BY <1>11, FifoUsersOfTeams DEF SetMode, At, To
  <1>12. CASE FifoUpdateFullscreen(c)
    BY <1>12, FifoUsersOfTeams DEF FifoUpdateFullscreen, To, FifoBeginWrite, FifoEndWrite
  <1>13. CASE FifoStart(c)
    BY <1>13, FifoUsersOfTeams DEF FifoStart, At, To
  <1>14. CASE UpdateThread(c)
    <2>1. UNCHANGED <<acc, registers, gUpdateThreadDie, history>>
      BY <1>14 DEF UpdateThread
    <2>2. gUpdateThread' \in [Clients -> BOOLEAN]
      BY <1>14 DEF UpdateThread
    <2>3. ben' \in Int /\ sem' \in Nat
      BY <1>14, FifoUsersOfTeams DEF UpdateThread, FifoBeginWrite, FifoEndWrite
    <2>4. lock' \in [FifoUsers -> {"out", "begin", "wait", "in", "stuck"}]
      BY <1>14, FifoUsersOfTeams DEF UpdateThread, FifoBeginWrite, FifoEndWrite
    <2> QED BY <2>1, <2>2, <2>3, <2>4
  <1>15. CASE UpdateThreadFaults(c)
    BY <1>15, FifoUsersOfTeams DEF UpdateThreadFaults, TeamEnds, To
  <1> QED
    BY <1>1, <1>2, <1>3, <1>4, <1>5, <1>6, <1>7, <1>8, <1>9, <1>10, <1>11, <1>12, <1>13, <1>14, <1>15 DEF AccelerantStep

\* Each thread takes the lock and gives it back in one place.
LEMMA AtTheLockPreserved ==
  ASSUME AInv, NEW c \in Clients, AccelerantStep(c)
  PROVE  AtTheLock'
  <1> USE DEF AInv, accelerant, registers, fifoLock, threads, history, AtTheLock, AccelerantTypeOK, Cloned
  <1>1. CASE UNCHANGED accelerant
    BY <1>1, FifoUsersOfTeams
  <1>2. CASE InitCommon(c)
    BY <1>2, FifoUsersOfTeams DEF InitCommon, To
  <1>3. CASE INIT_ACCELERANT(c)
    BY <1>3, FifoUsersOfTeams DEF INIT_ACCELERANT, At, To, InitFifoLock
  <1>4. CASE UNINIT_ACCELERANT(c)
    BY <1>4, FifoUsersOfTeams DEF UNINIT_ACCELERANT, At, To
  <1>5. CASE Close(c)
    BY <1>5, FifoUsersOfTeams DEF Close, To
  <1>6. CASE Ends(c)
    BY <1>6, FifoUsersOfTeams DEF Ends, TeamEnds, To
  <1>7. CASE SET_DISPLAY_MODE(c)
    BY <1>7, FifoUsersOfTeams DEF SET_DISPLAY_MODE, At, To
  <1>8. CASE FifoStop(c)
    BY <1>8, FifoUsersOfTeams DEF FifoStop, At, To
  <1>9. CASE FifoInitWaits(c)
    BY <1>9, FifoUsersOfTeams DEF FifoInitWaits
  <1>10. CASE FifoInit(c)
    BY <1>10, FifoUsersOfTeams DEF FifoInit, At, To
  <1>11. CASE SetMode(c)
    BY <1>11, FifoUsersOfTeams DEF SetMode, At, To
  <1>12. CASE FifoUpdateFullscreen(c)
    <2>1. PICK x : lock' = [lock EXCEPT ![Main(c)] = x]
      BY <1>12 DEF FifoUpdateFullscreen, FifoBeginWrite, FifoEndWrite
    <2>2. gUpdateThread' = gUpdateThread
      BY <1>12 DEF FifoUpdateFullscreen
    <2>3. \/ acc' = acc /\ acc[c] = "update"
          \/ To(c, "start") /\ lock'[Main(c)] = "out"
      BY <1>12, FifoUsersOfTeams DEF FifoUpdateFullscreen, FifoEndWrite, FifoBeginWrite
    <2>4. ASSUME NEW d \in Clients, d # c
          PROVE  lock'[Main(d)] = lock[Main(d)] /\ lock'[Update(d)] = lock[Update(d)] /\ acc'[d] = acc[d]
      BY <2>1, <2>3, <2>4, FifoUsersOfTeams DEF To
    <2>5. lock'[Update(c)] = lock[Update(c)]
      BY <2>1, FifoUsersOfTeams
    <2> QED BY <2>2, <2>3, <2>4, <2>5 DEF To
  <1>13. CASE FifoStart(c)
    BY <1>13, FifoUsersOfTeams DEF FifoStart, At, To
  <1>14. CASE UpdateThread(c)
    BY <1>14, FifoUsersOfTeams DEF UpdateThread, FifoBeginWrite, FifoEndWrite
  <1>15. CASE UpdateThreadFaults(c)
    BY <1>15, FifoUsersOfTeams DEF UpdateThreadFaults, TeamEnds, To
  <1> QED
    BY <1>1, <1>2, <1>3, <1>4, <1>5, <1>6, <1>7, <1>8, <1>9, <1>10, <1>11, <1>12, <1>13, <1>14, <1>15 DEF AccelerantStep

\* Nobody gives the primary accelerant an update thread when it has ended.
LEMMA LastStopPreserved ==
  ASSUME AInv, NEW c \in Clients, AccelerantStep(c)
  PROVE  LastStop'
  <1> USE DEF AInv, accelerant, registers, fifoLock, threads, history, LastStop, AccelerantTypeOK
  <1>1. CASE UNCHANGED accelerant
    BY <1>1
  <1>2. CASE InitCommon(c)
    BY <1>2 DEF InitCommon, To
  <1>3. CASE INIT_ACCELERANT(c)
    BY <1>3 DEF INIT_ACCELERANT, At, To, InitFifoLock
  <1>4. CASE UNINIT_ACCELERANT(c)
    BY <1>4 DEF UNINIT_ACCELERANT, At, To
  <1>5. CASE Close(c)
    BY <1>5 DEF Close, To
  <1>6. CASE Ends(c)
    BY <1>6 DEF Ends, TeamEnds, To
  <1>7. CASE SET_DISPLAY_MODE(c)
    BY <1>7 DEF SET_DISPLAY_MODE, At, To
  <1>8. CASE FifoStop(c)
    BY <1>8 DEF FifoStop, At, To
  <1>9. CASE FifoInitWaits(c)
    BY <1>9 DEF FifoInitWaits
  <1>10. CASE FifoInit(c)
    BY <1>10 DEF FifoInit, At, To
  <1>11. CASE SetMode(c)
    BY <1>11 DEF SetMode, At, To
  <1>12. CASE FifoUpdateFullscreen(c)
    BY <1>12 DEF FifoUpdateFullscreen, To, FifoBeginWrite, FifoEndWrite
  <1>13. CASE FifoStart(c)
    BY <1>13 DEF FifoStart, At, To
  <1>14. CASE UpdateThread(c)
    BY <1>14 DEF UpdateThread, FifoBeginWrite, FifoEndWrite
  <1>15. CASE UpdateThreadFaults(c)
    BY <1>15 DEF UpdateThreadFaults, TeamEnds, To
  <1> QED
    BY <1>1, <1>2, <1>3, <1>4, <1>5, <1>6, <1>7, <1>8, <1>9, <1>10, <1>11, <1>12, <1>13, <1>14, <1>15 DEF AccelerantStep

\* The lock's two halves keep it in one place.
LEMMA LockInOnePlace ==
  ASSUME AInv, NEW u \in FifoUsers, FifoBeginWrite(u) \/ FifoEndWrite(u), reinit' = reinit
  PROVE  OnePlace'
  <1> SUFFICES ASSUME ~reinit PROVE OnePlace'
    BY DEF OnePlace
  <1> USE DEF AInv, AccelerantTypeOK, OnePlace
  <1>1. CASE FifoBeginWrite(u)
    <2>1. CASE lock' = [lock EXCEPT ![u] = "wait"] /\ ben' = ben + 1 /\ sem' = sem
      BY <2>1
    <2>2. CASE lock' = [lock EXCEPT ![u] = "in"] /\ ben = 0 /\ ben' = 1 /\ sem' = sem
      BY <2>2
    <2>3. CASE lock' = [lock EXCEPT ![u] = "in"] /\ sem > 0 /\ sem' = sem - 1 /\ ben' = ben
      BY <2>3
    <2> QED BY <1>1, <2>1, <2>2, <2>3 DEF FifoBeginWrite
  <1>2. CASE FifoEndWrite(u)
    BY <1>2 DEF FifoEndWrite
  <1> QED BY <1>1, <1>2

LEMMA OnePlacePreserved ==
  ASSUME AInv, NEW c \in Clients, AccelerantStep(c)
  PROVE  OnePlace'
  <1> USE DEF AInv, accelerant, registers, fifoLock, threads, history
  <1>1. CASE /\ UNCHANGED <<ben, sem, reinit>>
             /\ \A u \in FifoUsers : lock'[u] = "in" => lock[u] = "in"
    BY <1>1 DEF OnePlace
  <1>2. CASE INIT_ACCELERANT(c)
    <2>1. reinit' \/ \A u \in FifoUsers : lock[u] # "in" /\ lock'[u] # "in"
      BY <1>2 DEF INIT_ACCELERANT, InitFifoLock, AccelerantTypeOK
    <2>2. sem' = 0 /\ ben' = 0
      BY <1>2 DEF INIT_ACCELERANT, InitFifoLock
    <2> QED BY <2>1, <2>2 DEF OnePlace
  <1>3. CASE FifoUpdateFullscreen(c)
    <2>1. reinit' = reinit
      BY <1>3 DEF FifoUpdateFullscreen
    <2>2. CASE FifoBeginWrite(Main(c)) \/ FifoEndWrite(Main(c))
      BY <2>1, <2>2, LockInOnePlace, FifoUsersOfTeams
    <2>3. CASE lock' = [lock EXCEPT ![Main(c)] = "begin"] /\ UNCHANGED <<ben, sem>>
      BY <1>1, <2>1, <2>3 DEF AccelerantTypeOK
    <2> QED BY <1>3, <2>2, <2>3 DEF FifoUpdateFullscreen
  <1>4. CASE UpdateThread(c)
    <2>1. reinit' = reinit
      BY <1>4 DEF UpdateThread
    <2>2. CASE FifoBeginWrite(Update(c)) \/ FifoEndWrite(Update(c))
      BY <2>1, <2>2, LockInOnePlace, FifoUsersOfTeams
    <2>3. CASE /\ UNCHANGED <<ben, sem>>
               /\ lock' = lock \/ lock' = [lock EXCEPT ![Update(c)] = "begin"]
      BY <1>1, <2>1, <2>3 DEF AccelerantTypeOK
    <2> QED BY <1>4, <2>2, <2>3 DEF UpdateThread
  <1>5. CASE Ends(c) \/ UpdateThreadFaults(c)
    BY <1>1, <1>5 DEF Ends, UpdateThreadFaults, TeamEnds, AccelerantTypeOK
  <1> QED
    BY <1>1, <1>2, <1>3, <1>4, <1>5 DEF AccelerantStep, InitCommon, UNINIT_ACCELERANT, Close,
       SET_DISPLAY_MODE, FifoStop, FifoInitWaits, FifoInit, SetMode, FifoStart

\* A clone that has set no mode has no update thread; so only the primary accelerant's
\* threads could be at the lock when the ring is reset, and they are not.
LEMMA ClonesQuietPreserved ==
  ASSUME AInv, NEW c \in Clients, AccelerantStep(c)
  PROVE  ClonesQuiet'
  <1> USE DEF AInv, accelerant, registers, fifoLock, threads, history, ClonesQuiet, Switching, AccelerantTypeOK
  <1>1. CASE UNCHANGED accelerant
    BY <1>1
  <1>2. CASE InitCommon(c)
    BY <1>2 DEF InitCommon, To
  <1>3. CASE INIT_ACCELERANT(c)
    BY <1>3 DEF INIT_ACCELERANT, At, To, InitFifoLock
  <1>4. CASE UNINIT_ACCELERANT(c)
    BY <1>4 DEF UNINIT_ACCELERANT, At, To
  <1>5. CASE Close(c)
    BY <1>5 DEF Close, To
  <1>6. CASE Ends(c)
    BY <1>6 DEF Ends, TeamEnds, To
  <1>7. CASE SET_DISPLAY_MODE(c)
    BY <1>7 DEF SET_DISPLAY_MODE, At, To
  <1>8. CASE FifoStop(c)
    BY <1>8 DEF FifoStop, At, To
  <1>9. CASE FifoInitWaits(c)
    BY <1>9 DEF FifoInitWaits
  <1>10. CASE FifoInit(c)
    <2>1. ~cloneMode => c = primary
      BY <1>10 DEF FifoInit, At
    <2>2. ~cloneMode => \A d \in Clients : ~gUpdateThread[d] /\ acc[d] # "update"
      BY <1>10, <2>1, PrimaryAssumption DEF FifoInit, At
    <2>3. ~cloneMode => \A u \in FifoUsers : lock[u] # "in"
      <3> SUFFICES ASSUME ~cloneMode, NEW u \in FifoUsers PROVE lock[u] # "in"
        OBVIOUS
      <3>1. PICK d \in Clients : u \in {Main(d), Update(d)}
        BY DEF FifoUsers, Main, Update
      <3> QED BY <2>2, <3>1 DEF AtTheLock
    <2>4. cloneMode' = cloneMode /\ (~cloneMode => ~torn')
      BY <1>10, <2>3 DEF FifoInit
    <2> QED BY <1>10, <2>1, <2>4 DEF FifoInit, At, To
  <1>11. CASE SetMode(c)
    BY <1>11 DEF SetMode, At, To
  <1>12. CASE FifoUpdateFullscreen(c)
    BY <1>12 DEF FifoUpdateFullscreen, To
  <1>13. CASE FifoStart(c)
    BY <1>13 DEF FifoStart, At, To
  <1>14. CASE UpdateThread(c)
    BY <1>14 DEF UpdateThread
  <1>15. CASE UpdateThreadFaults(c)
    BY <1>15 DEF UpdateThreadFaults, TeamEnds, To
  <1> QED
    BY <1>1, <1>2, <1>3, <1>4, <1>5, <1>6, <1>7, <1>8, <1>9, <1>10, <1>11, <1>12, <1>13, <1>14, <1>15 DEF AccelerantStep

\* Registers that are off will be switched on.
LEMMA OffInSwitchPreserved ==
  ASSUME AInv, NEW c \in Clients, AccelerantStep(c)
  PROVE  OffInSwitch'
  <1> USE DEF AInv, accelerant, registers, fifoLock, threads, history, OffInSwitch, LastStop, Switching, AccelerantTypeOK
  <1>1. CASE UNCHANGED accelerant
    BY <1>1
  <1>2. CASE InitCommon(c)
    BY <1>2 DEF InitCommon, To
  <1>3. CASE INIT_ACCELERANT(c)
    BY <1>3 DEF INIT_ACCELERANT, At, To, InitFifoLock
  <1>4. CASE UNINIT_ACCELERANT(c)
    BY <1>4 DEF UNINIT_ACCELERANT, At, To
  <1>5. CASE Close(c)
    BY <1>5 DEF Close, To
  <1>6. CASE Ends(c)
    BY <1>6 DEF Ends, TeamEnds, To
  <1>7. CASE SET_DISPLAY_MODE(c)
    BY <1>7 DEF SET_DISPLAY_MODE, At, To
  <1>8. CASE FifoStop(c)
    BY <1>8 DEF FifoStop, At, To
  <1>9. CASE FifoInitWaits(c)
    BY <1>9 DEF FifoInitWaits
  <1>10. CASE FifoInit(c)
    BY <1>10 DEF FifoInit, At, To
  <1>11. CASE SetMode(c)
    BY <1>11 DEF SetMode, At, To
  <1>12. CASE FifoUpdateFullscreen(c)
    BY <1>12 DEF FifoUpdateFullscreen, To
  <1>13. CASE FifoStart(c)
    BY <1>13 DEF FifoStart, At, To
  <1>14. CASE UpdateThread(c)
    <2>1. gUpdateThread'[primary] => gUpdateThread[primary]
      BY <1>14, PrimaryAssumption DEF UpdateThread
    <2>2. UNCHANGED <<acc, registers>>
      BY <1>14 DEF UpdateThread
    <2> QED BY <2>1, <2>2
  <1>15. CASE UpdateThreadFaults(c)
    <2>1. gUpdateThread'[primary] => gUpdateThread[primary]
      BY <1>15, PrimaryAssumption DEF UpdateThreadFaults, TeamEnds
    <2>2. ~Switching(c) /\ \A d \in Clients \ {c} : acc'[d] = acc[d]
      BY <1>15 DEF UpdateThreadFaults, Cloned, TeamEnds, To
    <2>3. UNCHANGED registers
      BY <1>15 DEF UpdateThreadFaults, TeamEnds
    <2> QED BY <2>1, <2>2, <2>3
  <1> QED
    BY <1>1, <1>2, <1>3, <1>4, <1>5, <1>6, <1>7, <1>8, <1>9, <1>10, <1>11, <1>12, <1>13, <1>14, <1>15 DEF AccelerantStep

LEMMA AInvInit == AccelerantInit => AInv
  <1> SUFFICES ASSUME AccelerantInit PROVE AInv
    OBVIOUS
  <1>1. IInv
    BY InitInvariant DEF AccelerantInit
  <1>2. AccelerantTypeOK
    <2>1. TypeOK
      BY <1>1 DEF IInv
    <2>2. \A c \in Clients : acc[c] = "off"
      BY DEF AccelerantInit
    <2>3. {ENABLE, CONFIG_DONE, reinit, cloneMode, torn} \subseteq BOOLEAN
      BY Zenon DEF AccelerantInit
    <2>4. ben \in Int /\ sem \in Nat
      BY DEF AccelerantInit
    <2>5. /\ acc \in [Clients -> {"off"}] /\ lock \in [FifoUsers -> {"out"}]
          /\ gUpdateThread \in [Clients -> BOOLEAN] /\ gUpdateThreadDie \in [Clients -> BOOLEAN]
      BY DEF AccelerantInit
    <2> QED BY <2>1, <2>2, <2>3, <2>4, <2>5 DEF AccelerantTypeOK
  <1>3. AtTheLock
    BY FifoUsersOfTeams DEF AccelerantInit, AtTheLock
  <1>4. LastStop /\ OnePlace /\ ClonesQuiet /\ OffInSwitch
    BY PrimaryAssumption
    DEF AccelerantInit, LastStop, OnePlace, ClonesQuiet, OffInSwitch, Switching
  <1> QED BY <1>1, <1>2, <1>3, <1>4 DEF AInv

\* The wait for the update thread to end changes little.
LEMMA StopUpdateThreadPreserves ==
  ASSUME AInv, StopUpdateThread, IInv'
  PROVE  AInv'
  <1> USE DEF AInv, StopUpdateThread, registers, fifoLock, history, To
  <1>1. UNCHANGED <<gUpdateThread, lock, ben, sem, ENABLE, CONFIG_DONE, reinit, cloneMode, torn>>
    OBVIOUS
  <1>2. acc[primary] = "uninit" /\ \A c \in Clients \ {primary} : acc'[c] = acc[c]
    BY DEF AccelerantTypeOK
  <1>3. acc'[primary] = "uninit" \/ (acc'[primary] = "laststop" /\ ~gUpdateThread[primary])
    BY <1>2, PrimaryAssumption DEF AccelerantTypeOK
  <1>4. AccelerantTypeOK'
    BY <1>1, PrimaryAssumption DEF AccelerantTypeOK, IInv
  <1>5. AtTheLock' /\ LastStop'
    BY <1>1, <1>2, <1>3 DEF AtTheLock, LastStop
  <1>6. OnePlace'
    BY <1>1 DEF OnePlace
  <1>7. ClonesQuiet' /\ OffInSwitch'
    BY <1>1, <1>2, <1>3 DEF ClonesQuiet, OffInSwitch, Switching
  <1> QED BY <1>4, <1>5, <1>6, <1>7

LEMMA AInvStep == AInv /\ [AccelerantNext]_<<vars, accelerant>> => AInv'
  <1> SUFFICES ASSUME AInv, [AccelerantNext]_<<vars, accelerant>> PROVE AInv'
    OBVIOUS
  <1>1. IInv'
    BY StepOfDevice, StepInvariant DEF AInv
  <1>2. CASE UNCHANGED <<vars, accelerant>>
    <2>1. AccelerantTypeOK'
      BY <1>1, <1>2 DEF AInv, IInv, AccelerantTypeOK, accelerant, registers, fifoLock, threads, history
    <2>2. (AtTheLock /\ LastStop /\ OnePlace /\ ClonesQuiet /\ OffInSwitch)'
      BY <1>2 DEF AInv, AtTheLock, LastStop, OnePlace, ClonesQuiet, OffInSwitch, Switching,
                  accelerant, registers, fifoLock, threads, history
    <2> QED BY <1>1, <2>1, <2>2 DEF AInv
  <1>3. CASE StopUpdateThread
    BY <1>1, <1>3, StopUpdateThreadPreserves
  <1>4. ASSUME NEW c \in Clients, AccelerantStep(c) PROVE AInv'
    BY <1>1, <1>4, TypesPreserved, AtTheLockPreserved, LastStopPreserved, OnePlacePreserved,
       ClonesQuietPreserved, OffInSwitchPreserved DEF AInv, IInv
  <1> QED BY <1>2, <1>3, <1>4 DEF AccelerantNext

LEMMA AInvAlways == AccelerantSpec => []AInv
  BY AInvInit, AInvStep, PTL DEF AccelerantSpec

-----------------------------------------------------------------------------

\* The state of every team, its threads and the lock is of its type.
THEOREM AccelerantTyping == AccelerantSpec => []AccelerantTypeOK
  <1>1. AInv => AccelerantTypeOK
    BY DEF AInv
  <1> QED BY <1>1, AInvAlways, PTL

\* The FIFO has one writer at a time, and is not reset under it, for any number of
\* teams, with the two exceptions that FifoIsMine names.
THEOREM FifoHasOneWriter == AccelerantSpec => []FifoIsMine
  <1>1. AInv => FifoIsMine
    <2> SUFFICES ASSUME AInv PROVE FifoIsMine
      OBVIOUS
    <2> DEFINE Writing == {u \in FifoUsers : lock[u] = "in"}
    <2>1. ASSUME ~reinit PROVE Cardinality(Writing) <= 1
      <3>1. CASE Writing = {}
        BY <3>1, FS_EmptySet
      <3>2. CASE Writing # {}
        <4>1. PICK u \in FifoUsers : lock[u] = "in"
          BY <3>2
        <4>2. Writing = {u}
          BY <2>1, <4>1 DEF AInv, OnePlace
        <4>3. Cardinality({u}) = 1
          BY FS_Singleton
        <4> QED BY <4>2, <4>3
      <3> QED BY <3>1, <3>2
    <2> QED BY <2>1 DEF FifoIsMine, AInv, ClonesQuiet
  <1> QED BY <1>1, AInvAlways, PTL

\* Clones that come, set modes and go leave the display on.
THEOREM DisplayStaysOn == AccelerantSpec => []DeviceStaysOn
  <1>1. AInv => DeviceStaysOn
    BY DEF AInv, OffInSwitch, DeviceStaysOn, Switching
  <1> QED BY <1>1, AInvAlways, PTL
=============================================================================
