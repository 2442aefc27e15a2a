# VMware Add-ons for Haiku: a verification project

TLA+ models of the concurrent and protocol parts of VMware Add-ons, model-checked
with TLC, and theorems about the core of them checked with TLAPS. Every
definition is translated from the C and C++ sources; `PROJECT.json` (`map`) names
the file and the lines each one stands for.

To run a check: `tlc -config <name>.cfg <module>.tla`, with the pairs in the table
of runs below. To check the proofs: `tlapm <module>.tla` for each module whose name
ends in `_proof`.

## 1. The system

VMware Add-ons is a file system, a graphics driver, a mouse filter and a Deskbar
tray for Haiku as a guest of VMware. All of them talk to the host by reading or
writing I/O ports (the "backdoor" or the SVGA registers); there is no network, and
the only state kept on disk is a settings file.

| component | source | state | operations | interacts with |
|---|---|---|---|---|
| shared-folder commands | `vmware_fs/VMWSharedFolders.cpp` | `fRPCBuffer`, semaphore `fLock` | twelve methods, one command each | called by every hook; uses `SendAndGet` |
| backdoor exchange | `shared_sources/VMWCoreBackdoor.cpp` | the RPC channel, semaphore `fBackdoorAccess` | `SendAndGet`, `SendMessage`, `GetMessage`, open, close | the host |
| node tree, directory hooks | `vmware_fs/VMWNode.cpp`, `dir_operations.cpp`, `vnode_operations.cpp` | the `VMWNode`s, `sCurrentInode` | `GetChild`, `DeleteChildIfExists`, `CopyPathTo`; lookup, create, read_dir, remove_dir, unlink, rename | VFS (vnodes), commands |
| file hooks, directory cookies | `vmware_fs/file_operations.cpp`, `dir_operations.cpp` | cookies: a host handle, and the index of a listing | create, open, close, read, write, free_cookie; open_dir, read_dir, rewind_dir, close_dir | VFS, commands |
| volume | `vmware_fs/volume_operations.cpp` | `gMountCount`, `gSharedFolders`, `gRootNode` | mount, unmount, get_vnode | VFS, the channel |
| attributes | `vmware_fs/vnode_operations.cpp` | the host's `vmw_attributes` | access, read_stat, write_stat | commands, node monitor |
| benaphores | `vmware_video/shared/DriverInterface.h` | counter and semaphore | init, acquire, release | device, FIFO, engine |
| command FIFO | `vmware_video/accelerant/Fifo.c` | ring in device memory, `fifoNext` | begin, word, end, sync; the update thread | SVGA device; blits write through it |
| graphics device | `vmware_video/kernel/device.c` | `isOpen`, shared area, mapped areas, registers | open, free, ioctl | accelerants, kernel |
| accelerant set-up, modes | `vmware_video/accelerant/InitAccelerant.c`, `SetDisplayMode.c` | clones of the areas, update thread | init, clone, uninit, set mode | device, FIFO |
| tray | `vmware_tray/VMWAddOnsTray.cpp`, `shared_sources/VMWBackdoor.cpp` | settings, two message runners, watching | messages of one looper | Deskbar, clipboard, host |
| clean-up | `vmware_tray/VMWAddOnsCleanup.cpp` and its windows | `fCleanupInProgress`, files | one thread, two windows | tray, volumes |
| mouse filter | `vmware_mouse/VMWareMouse.cpp` | `gActivated`, pointer mode of the host | filter, settings watcher | input_server, host |
| settings | `shared_sources/VMWAddOnsSettings.cpp` | one message on disk | get, set, reload | tray writes, mouse reads |

### What is hard in it

* Any number of VFS threads enter the hooks at once. One lock protects the command
  buffer, a second one the channel, and nothing protects the node tree or a cookie.
* A command is five backdoor calls; the host may refuse each, and then an old reply
  may be waiting on the channel.
* Host paths and VFS inode numbers are tied together only by the node tree, while
  files change on the host's side and the VFS drops and reloads vnodes when it likes.
* A read or write is many commands, and the handle they use can be closed, and its
  number given to another file, between two of them.
* A mount can fail at every step of a session with the host.
* The accelerant's ring is written by two kinds of thread, word by word, and read
  by a device that goes at its own speed.
* The video driver is opened and closed by several clients, with four ways to fail,
  and the accelerants of several teams share its registers and one lock.
* The tray is notified of its own changes to the clipboard.
* The mouse filter and the settings watcher talk to one pointer device at once,
  call by call.
* A clean-up can be stopped by the user, by an error, or by the end of the Deskbar,
  while a file that fills the disk has a name.

The list of hazards, each at its line and with the properties that would catch it,
is `hazards` in `PROJECT.json`.

### What makes each component correct

* commands: a caller gets the outcome of its own command and no other, semaphores
  are balanced over all early returns, every call returns.
* tree: a name leads to the file at that path; one node per name; the tree never
  leads to a freed node; an inode leads back to its node.
* benaphore: mutual exclusion, no lost wake-up, no starvation.
* FIFO: the device decodes exactly the commands that were written; no unread word is
  overwritten.
* device: whoever has it open can use all areas; when nobody has, nothing is left.
* accelerants: the display of the app_server stays on, and one thread writes to the
  FIFO, whatever clones do.
* cookies: each open handle has one owner; a transfer says what it moved; a listing
  is whole.
* volume: the counter, the session and the host's channels add up.
* attributes: each is read as it was last given, by guest or host, and shown.
* tray: runners exist exactly while their setting is on; the clipboards agree in the
  end and stop talking.
* mouse: sharing ends when it is turned off, and otherwise always comes back.
* clean-up: one at a time, it ends, and leaves no file behind.

## 2. Modules

| module | models | kind |
|---|---|---|
| `RpcCommands` | the twelve commands: lengths, size checks, reading of replies | operators |
| `CommandService` | what a method call promises its caller | abstract specification |
| `SharedFolders` | the methods and `SendAndGet`, call by call, with the host | detailed specification |
| `SharedFolders_proof` | invariants and refinement of `SharedFolders` | proofs |
| `NodeTree` | the tree and the directory hooks, the host's files and the VFS | specification |
| `NodeTree_proof` | names, live nodes, inodes and paths, for any constants | proofs |
| `FileIO` | cookies and handles, the chunks of read and write, listings | specification |
| `FileIO_proof` | handles, transfers and listings, for any constants | proofs |
| `Volume` | mount and unmount, the session with the host | specification |
| `Attributes` | read_stat and write_stat of a node, the host, a window | specification |
| `MountedVolume` | a volume that comes and goes, with its hooks at work | composition of `Volume` and `Attributes` |
| `Volume_proof` | mounts add up; attributes are as given, and shown; both in `MountedVolume` | proofs |
| `Mutex` | mutual exclusion | abstract specification |
| `Benaphore` | `ACQUIRE_BEN` and `RELEASE_BEN`, two steps each | detailed specification |
| `Benaphore_proof` | a benaphore implements a mutex | proofs |
| `Fifo` | the writers of the command FIFO, and the device | specification, uses `Mutex` |
| `Fifo_proof` | what is published decodes, for any ring; when the ring is not overrun | proofs |
| `VideoDevice` | open, free and ioctl of the device | specification, uses `Mutex` |
| `Accelerant` | accelerants, their update threads and mode switches, over the device | composition, extends `VideoDevice` |
| `Accelerant_proof` | areas follow the clients of `VideoDevice`; accelerants are such clients; their invariants | proofs |
| `Tray` | settings, runners, both clipboards | specification |
| `Mouse` | the filter, the watcher, the settings file and the pointer device | specification |
| `Cleanup` | the clean-up thread, its windows, the volumes | specification |
| `Desktop_proof` | runners, clipboards and types of `Tray`; `Mouse` off when it should be; the flag of `Cleanup`, and nothing left behind | proofs, extends all three |
| `MCSharedFolders`, `MCFifo`, `MCNodeTree` | values for the constants | instances for TLC |

`Benaphore` is shown to implement `Mutex`, so `Fifo` and `VideoDevice`, whose locks
are benaphores, take `Mutex`'s `Enter` and `Leave` as their lock.

### SharedFolders

`pc[t]` is the place of thread `t` in the method it called. The methods differ only
in data (`RpcCommands!Methods`), so one sequence of actions stands for the twelve:
`Call`, the size check (`TooLong` or `AcquireLock`), `BuildCommand` (or
`FaultWhileBuilding`, WriteFile's failing `user_memcpy`), then `SendAndGet`:
`EnterBackdoor`, `SendLength`, `SendData`, `GetLength`, `GetData`, `Ack`, with
`Refused` for `goto err` at each of the five calls, then `Finish` (or
`FaultWhileCopying`) and `Return`. `fRPCBuffer` says whose command or reply the
buffer holds rather than its bytes. The lengths are the real ones. `SendData`
contains the host's execution of whatever command it finds in the buffer, and
`waiting` the reply it keeps until it is acknowledged or another command is
announced; both are the host's and follow from how the code uses it. `answer` is a
history variable. `CommandService` has four phases per call; `phase` is the mapping.

### Benaphore

`ben` and `sem` are the two fields. `Acquire` is the `atomic_add` and its test,
`AcquireSem` the system call; `Release` and `ReleaseSem` likewise.

### Fifo

Offsets are words from `MIN`. A writer takes `fifoLock` (`FifoBeginWrite`), writes
word by word at `fifoNext` (`FifoWrite`; `FifoWriteFull` and `FifoWriteSynced` when
the test for a full ring holds), publishes (`FifoEndWrite`) and, if its batch says
so, waits (`FifoSync`). The test `Full` is the code's: on `NEXT_CMD`. The device
reads a word at a time (`DeviceRead`), and `Follows` says whether the word continues
the stream. `overrun` remembers that a word was written to a full ring.

### NodeTree

A hook is cut where another thread can come between: the command to the host
(`HostDoes`, `HostRefuses`), the search of the children (`FindChild`, `MissChild`),
the two halves of taking an inode number (`NewNode`, `NewInode`), the append
(`AppendChild`), and `get_vnode` (`GetKnownVnode`, `GetNewVnode`, `GetNoVnode`) or
`DeleteChildIfExists`. `NewInode` allows both results the compiled `sCurrentInode++`
can have. The command's effect on the host's files is `Command`. `HostMakes` and
`HostRemoves` are changes made on the host. `PutVnode` is the VFS dropping a vnode.

### Tray

`messages` is the looper's queue; `MessageReceived` handles its head. `Toggle` is the three
sharing messages, `GetHostClipboard` is `CLIPBOARD_POLL` and `SetHostClipboard` is
`B_CLIPBOARD_CHANGED`, each with the backdoor function it calls. `offer` is the text
the host still has for the guest: it offers a text once.

### FileIO

`cookie[c]` is what an open file or directory has: a handle of the host, and for a
listing the index. `opened` is the host's table of handles, which gives the number
of a closed one again. The hooks that open (`OpenHook`, `OpenRoot`, `OpenDirHook`,
`Create`), `Close` and `FreeCookie` are one step each, with the command they send:
`SharedFolders` shows that a command is one step for its caller. A transfer (`call`)
is cut between chunks (`ReadChunk`, `WriteChunk`, `ChunkFails`), a listing between
reading the index and incrementing it (`ReadDirEntry`, then `NextEntry` or
`EntryFaults`); another thread can close the file, or list, in between. What the host
sends or takes is any number of bytes up to what is asked. A chunk that fails is
counted as the code counts it, with the length that was set before the failure.
`moved`, `right`, `seen` and `lost` are history.

### Volume

`pc` is the place in `vmwfs_mount`. The constructor of `VMWSharedFolders` is
`NewSharedFolders`, `OpenRPCChannel`, `SendMessage`, `GetMessage` and
`AllocateBuffer`, each of which may fail; `PublishRoot` is the rest of the hook.
`SendMessage` assigns the status it means to compare (`VMWCoreBackdoor.cpp:321`), so
any answer is a success: `GetMessage` goes on without a look at it. A failed mount
reads a deleted object and frees what was never set: that is `MountFails` or
`MountPanics`. `owns` holds the fields of the session that name something.

### Attributes

`attributes` is what the host keeps of one node. `ReadStat` is what vmwfs_read_stat makes
of it; `WriteStat` is vmwfs_write_stat up to the host's answer, with any value in the
fields that the mask leaves out, and `Notify` its last statement, another step. The
root has no parent to be named in the notification: `NotifyPanics`. `given` and `byGuest` keep who
gave each attribute last, and what. The window stands for the Tracker: it reads when it
likes (`Look`, `Reads`) and when it is notified. `Forget` is the end of a volume or system.

`MountedVolume` runs these hooks while there is a volume, lets a panic in one of them
restart the system, and unmounts when none is at work, as the kernel does; the
host changes its attributes at any time.

### VideoDevice and Accelerant

The hooks are cut at each call that may fail or that creates or deletes an area;
`areas` counts the areas that really exist, `si`, `fbArea` and `fifoArea` what the
driver's fields say. `ControlHook` does not take the lock, as in the code.

`Accelerant` extends `VideoDevice`: each client is a team with an accelerant, and
`acc` is what it is doing. Its ioctls are `ControlHook` twice, for the first register
they write and the last (`FifoStop`, `SetMode`, `FifoStart`), so those of two teams
mix. `fifoLock` is the benaphore of the shared area (`ben`, `sem`), because
`InitFifoLock` sets it to its first state while others are at it, which a `Mutex`
cannot say; the two halves of a release are one step, as `Benaphore` shows they may
be. `UNINIT_ACCELERANT` of a clone closes its file first, so that its
`VMWARE_FIFO_STOP` does nothing; that of the primary accelerant waits for its update
thread, which may by then have touched the area its team has given up
(`UpdateThreadFaults`). `reinit`, `cloneMode` and `torn` are history.

### Mouse

Each backdoor call is a step of the thread that makes it: the filter
(`GetCursorStatus`, `GetCursorData`, then off and on again on an error), the watcher
(`Reload`, `Assign`, then on or off) or the destructor (`Destroy`, `QuitWatcher`).
`EnableMouseSharing` and `DisableMouseSharing` are the same steps for whoever calls
them. `words` is the device's queue: a version word taken by the wrong thread, or a
position cut in two, are reachable. `SetBool` is the tray's write to the settings
file, which queues a notification.

### Cleanup

`MouseDown` opens a menu, which offers a clean-up while `fCleanupInProgress` is off;
`Pick` queues the message and `ShrinkDisks` starts the thread, so a menu opened
between the two can start a second thread. `pc[t]` follows the thread from the first
question to `StartShrink`; `Return` turns the flag off. Filling a volume is
`CreateFile`, `FindEntry`, `RemoveEntry`, `WriteToFile` once for each buffer, and
`DeleteFiles`. `entry[d]` is the file that has the name, `size` the space of all
files. `Deskbar` ends all threads at any point. Two threads take their files with
one name from the same directory.

## 3. Runs

| run | module, configuration | properties | distinct states |
|---|---|---|---|
| shared_folders | `MCSharedFolders`, `SharedFolders.cfg` | TypeOK, TerminatorInBounds, LocksBalanced, ExchangeIsMine, ImplementsService, EveryCallReturns | 703 thousand |
| node_tree_hooks | `MCNodeTree`, `NodeTree_hooks.cfg` | TypeOK, TreeIsAlive, VnodesResolve, NameMeansItsFile | 127 thousand |
| node_tree_threads | `MCNodeTree`, `NodeTree_threads.cfg` | SiblingNamesUnique | 926 thousand |
| file_io | `FileIO`, `FileIO.cfg` | TypeOK, HandlesHaveOneOwner, TransfersWhatItSays, ListingIsWhole, EveryTransferReturns | 982 thousand |
| volume | `MountedVolume`, `MountedVolume.cfg` | MountsAddUp, AttributesAreAsGiven, WindowIsUpToDate | 217 thousand |
| benaphore | `Benaphore`, `Benaphore.cfg` | TypeOK, OneToken, NoLostWakeup, IsMutex, EveryWaiterEnters | 442 |
| fifo_update | `MCFifo`, `Fifo_update.cfg` | TypeOK, PublishedDecodes, EveryBatchPublished | 386 thousand |
| fifo_full | `MCFifo`, `Fifo_full.cfg` | NeverOverrun (violated) | - |
| accelerant | `Accelerant`, `Accelerant.cfg` | AccelerantTypeOK, AreasFollowClients, DeviceStaysOn, FifoIsMine | 187 thousand |
| tray | `Tray`, `Tray.cfg` | RunnersFollowSettings, ClipboardsAgree, EchoesDieOut | 389 thousand |
| mouse | `Mouse`, `Mouse.cfg` | OffWhenDisabled, SharingComesBack | 66 thousand |
| cleanup | `Cleanup`, `Cleanup.cfg` | TypeOK, FlagFollowsThread, NothingLeftBehind, FillingEnds | 205 thousand |

Each property of a passing run has a mutant: a definition changed the way a slip in
that code would change it (the operators named `X_...`, before `X`), under which TLC
finds the property violated. They show that each property depends on the code.

Some properties except a case that the code really lets go wrong. They say which,
and hold in every other; without the exception TLC finds the case at once:

* `OffWhenDisabled` excepts the watcher and the filter (or the destructor) at work at
  once: the filter can turn sharing on again after the watcher has turned it off.
* `FifoIsMine` excepts a benaphore initialised again by a clone while it is in use
  (`reinit`), and a ring reset by the mode switch of one team under the update thread
  of another (`cloneMode`).
* `FlagFollowsThread` excepts a menu opened between a pick and the start of the
  thread (`overlap`); `NothingLeftBehind` holds for two threads all the same.
* `HandlesHaveOneOwner` names the handles that are given up: by a `create` whose
  `get_vnode` fails and by a close the host refuses. `TransfersWhatItSays` is about
  files that stay open during the transfer, `ListingIsWhole` about listings without
  two calls on one cookie at once.
* `AttributesAreAsGiven` excepts what read_stat hides (the execute bit of files, which
  chmod therefore takes away on the host, and the size of directories) and times the
  other side cannot hold: before 1601, or after 2038 where a time_t has 32 bits.
* `MountsAddUp` counts the mounts refused because of a volume, which keep their count
  in `gMountCount`, and the channels a failed mount leaves open.
* `PublishedDecodes` excepts what follows an overrun (see below).

### Bounds, and why they are enough

* `SharedFolders`: two threads, with a request for each way in which the methods
  build a command and read a reply, each status, and each length a method tests for
  with its neighbours; `maxIOSize` is the real 4096. One is inside and one waits for
  either semaphore; a third can only wait too. The theorems cover every number of
  threads and every request and answer.
* `Benaphore`: six threads; the theorems cover every finite number.
* `Fifo`: rings of 15 to 17 words and the real lengths of the commands, so that
  batches wrap at every offset and the ring fills; the real ring only has more room.
  The longest batch, a blit, has 14 words. The theorems cover every ring and batch.
* `NodeTree`: `MaxNodes` bounds the nodes ever made, `MaxDepth` the length of a path
  and `MaxFiles` what is on the host. Three nodes are the root, a directory and what is
  in it. Two names and depth two are the smallest with
  siblings, a subtree to delete and a rename between directories; three threads are
  the fewest for which one appends behind an item that another has already cut off. The
  theorems cover every number of nodes, names and threads (of these, one for the
  properties of `node_tree_hooks`).
* `FileIO`: two cookies and two handles, the fewest for which a handle closed by one
  thread comes back to another cookie; chunks of two bytes and lengths up to three, so
  that a transfer has a full and a shorter last chunk; directories of two entries. `MaxOthers`
  is 0, one transfer at a time and no listing beside it, since they share nothing but
  handles (one more makes the run too long); the theorems cover every value of it.
* `MountedVolume`: `MaxCount` and `MaxChannels` are 2: a mount refused beside a volume, a
  channel left beside one that is open. A file, a directory or the root. Two threads, so
  that one writes while the other notifies. Words of 16 and a time_t of two bits, with
  seconds of three ticks: one second that the host cannot hold, and one time that a
  time_t cannot. All four times are treated alike, and so are the permissions but
  "exec": one stands for them. The theorems cover every value of the constants, and do
  without the bounds on what is reached.
* `Accelerant`: the primary accelerant and one clone. Three clients exceed the time of
  a run; the theorems cover every finite number.
* `Tray`: `MaxMessages` and `MaxCopies` (3 and 3): a copy on each side and one more
  while the echo of the first is still queued.
* `Mouse`: two notifications, two resets, and nine words in the device: two positions
  and the word that breaks them.
* `Cleanup`: two threads, as many as a menu that was left open can start with two
  clicks; one volume, which comes and goes, of two buffers, and files of one, at most
  two of each clean-up, so that the volume fills with one file open, or the array of
  files does first; one end of the Deskbar. Three clicks give the same result in 1.35
  million states. The theorems cover every value of the constants.

### Deadlock

TLC checks it in every run, so none of the models can stop altogether. (`Mouse` ends
with the add-on unloaded, which is a step of its own.)

### Fairness

* `SharedFolders`: weak fairness of each thread's next step inside a method (a
  backdoor call is one instruction and always comes back) and strong fairness of the
  acquisition of `fLock`: Haiku's semaphores queue their waiters. No fairness of
  `Call`.
* `Benaphore`: weak fairness of leaving and of posting, strong fairness of taking
  the semaphore. None of `Acquire`.
* `Fifo`: weak fairness of the device (it empties the ring as long as it is enabled),
  of a writer's next word and of the end of `FifoSync` (it polls `BUSY` until the
  ring is drained), strong fairness of taking `fifoLock`, which is a benaphore and has
  been shown not to starve anybody. None of `Start`.
* `FileIO`: weak fairness of a transfer's next chunk, of its end, and of a refusal when
  the handle is not open. This assumes that the host does not answer a write for ever
  that it took nothing: the loop has no exit for that (`file_operations.cpp:144`). None
  of the calls.
* `Mouse`: weak fairness of the filter (the user goes on moving the mouse, so there is
  another event), the watcher's looper and the destructor. None of the tray or the
  host.
* `Cleanup`: weak fairness of each thread while it fills a volume. The user owes no
  answer, so nothing is said of the questions.
* `Tray`: weak fairness of the looper, and strong fairness of the runner, whose
  messages are only held up by the bound on the queue.

### Two disagreements with the comments

* Shown by `fifo_full`: `FifoWrite` compares `STOP` with the published `NEXT_CMD`
  (`Fifo.c:110`), but it writes at `fifoNext`, up to a whole batch further. The
  update thread never waits for the device, so it can write over words the device has
  not read; when the end then coincides with `STOP` the ring looks empty. The notes
  on the protocol (`accelerant/README:147`) say when the FIFO is full and that it is
  to be synced then. What the device decodes is right up to an overrun
  (`PublishedDecodes`), and only then can it lose the stream.
* In `Tray`, but no run of its own: the comments in `MessageReceived` ("Only enable clipboard sharing if
  both guest and host have it enabled.", `VMWAddOnsTray.cpp:175`) hold for the menu
  and not for `AttachedToWindow`, which looks at the guest's setting alone: the
  model's `AttachedToWindow` does the same, so no property of `Tray` relates the poller
  to what the host allows.

## 4. Proofs

`SharedFolders_proof`, for any set of threads, requests and answers:

* the inductive invariant is `TypeOK /\ LocksBalanced /\ ExchangeIsMine /\ Progress`.
  `LocksBalanced` alone is inductive; `ExchangeIsMine` is not without it, since it is
  the semaphores that keep others from writing to the buffer and the channel.
  `Progress` says which calls the host has executed (`answer`), that only requests
  that fit are sent, and what `sent` may hold; the refinement needs it.
* `Typing`, `SemaphoresBalanced`, `ExchangeIsolated` follow from it.
* `TerminatorFits` needs `maxIOSize >= 288` (a directory entry of 59 bytes and a name
  of 255 are shorter than the buffer of `maxIOSize + 27`); the file system passes 4096.
* `Refinement`: `Call`, `SendData`, the returns and `Return` are steps of
  `CommandService`; the others stutter. The assumptions are those on the constants.

`Benaphore_proof`, for any finite set of threads: `TypeOK /\ OneToken` is inductive
(`TypeCorrect`, `TokenInvariant`), `NoLostWakeup` follows, and so does the refinement of `Mutex`
(`MutualExclusion`): when a thread goes in, the token was free or in the semaphore, so
nobody is inside.

`Accelerant_proof`, first of `VideoDevice`, for any finite set of clients: `isOpen` counts the clients from
`MarkAsOpen` to `FreeReturns`, one client at a time is inside the benaphore, and
`Stage` says which areas exist at each place it can be at. `AreasFollowClients` alone is
not inductive: it says nothing of the steps in between. Who has the device open while
another one is inside is safe because `isOpen = 1` means that there is nobody else
(`OneHolder`).

Then of the accelerants, for any finite set of teams (`AInv`):

* `AccelerantsAreClients`: `AccelerantSpec => Spec`, every step of an accelerant is a
  step of `VideoDevice` or leaves it alone; so `AreasFollowAccelerants`.
* `FifoHasOneWriter`: while it is not initialised again the lock is in one place
  (`OnePlace`), also when a team ends that holds it; each thread holds it only where it
  should (`AtTheLock`); and a clone that has set no mode has no update thread
  (`ClonesQuiet`), so nobody writes when the ring is reset.
* `AccelerantTyping`: their types.
* `DisplayStaysOn`: a register that is off while the primary accelerant has an update
  thread is off because of a switch that is still under way (`OffInSwitch`).

`Volume_proof`: `MountsAlwaysAddUp`, from the count of a mount under way (`Counted`) and
from how far its session has come (`Session`). Of `Attributes`, for any numbers of threads,
permissions and times, any width of the host's word and of a time_t, any length of a
second and any epoch:

* `AttributesStayAsGiven`: its invariant `AsGiven` is about the host's side alone: what it
  keeps is what it gave, or the conversion of what write_stat gave. `RoundTrip` then says
  that a second the host can hold comes back, and `TimeTHolds` that a time_t keeps what
  is in its range.
* `AttributesTypes`: both conversions stay within their range (`UnixTimeType`, `VmwTimeType`).
* `WindowFollows`: inductive as it is: a window that is out of date has a notice to come,
  or reads.

`MountedImplementsBoth`: every step of `MountedVolume` is a step or a stutter of `Volume`, and of
`Attributes`, so that what holds of the two holds of it (`MountedVolumeWorks`).

`FileIO_proof`, for any threads, cookies and handles, chunks of any size, lengths and
directories, and any number of transfers and listings at once: `IInv` is `TypeOK`,
`HandlesHaveOneOwner` and three parts more.

* `CookiesInUse`: a call uses a cookie of its kind, which nobody frees meanwhile: the
  VFS's promise about free_cookie, and the guard of `FreeCookie`.
* `TransfersInPlace`: between two chunks the bytes moved are those counted, and what is
  marked over is whole or at the end of the file. A chunk goes to the file of the cookie
  because its handle has one owner: that is where `TransfersAreExact` needs
  `HandlesAreOwned`.
* `ListingsInOrder`: a listing that is not excused is at the index of its cookie, and its
  one call has read the next entry; at the end there is none, so all were returned
  (`ListingsAreWhole`).

`NodeTree_proof`, for any finite set of threads, any names, and trees of any size. `IInv`
is inductive, and was checked with TLC for two threads and three nodes first:

* `Shape`: every node but the root has an older one for a parent, and lists are made of
  nodes. `Counting`: the inode counter and the threads between the two halves of
  `fInode = sCurrentInode; sCurrentInode++` together stay below the number of nodes, so
  `TypeCorrect` holds of the inodes too, whatever the data race gives.
* `Fresh`: a node being made is in no list, and no other thread knows it. `Searched`: up to
  the item a thread saw last there is nothing of the name it adds. `NamesStayUnique` (no
  list names two nodes alike) is not inductive without them: a thread appends behind the
  item it saw last, and what others have appended there meanwhile it cuts off. That loses
  nodes, and is why the name stays unique.
* One hook at a time (`OneThread`: the assumption that there are no two threads) more is
  true. `OneInv` adds `Distinct` (two nodes in the tree have two inodes), `Alive` (the tree
  leads to no freed node), `Known` (what the VFS has is in the tree, under its inode) and
  `Current` (what a hook has found is still there). `TreeStaysAlive`, `InodesLeadBack` and
  `NamesMeanTheirFiles` follow. With two threads these properties are false, as the data
  race on `sCurrentInode` gives two nodes one inode. They need what can be reached after an
  append and after a deletion (`ReachAfterAppend`, `ReachAfterDelete`); `Below` is the least
  set that is closed under children, which is why it is defined so. `Path` is a recursive
  function: that it is well defined on nodes is shown by the least node without a path
  (`PathsExist`), from the well-foundedness of `<` on `Nat`.

`Fifo_proof`, for a ring of any size, any writers (not even finitely many) and any batches:

* `IInv` is `TypeOK`, `AtTheLock` (who holds `fifoLock` is where the code holds it, and
  nobody else has a batch half written) and, until the ring is overrun, `InOrder`: what is
  published decodes, what the writer inside has written stands after `NEXT_CMD` word by
  word, `fifoNext` is behind it, and all of it is less than a ring from `STOP`.
  `PublishedDecodes` alone says nothing of the words that `FifoEndWrite` will publish.
* `StreamDecodes` follows. The arithmetic of the ring is in lemmas about `Place(o, j)`, the
  place `j` words after `o`: places less than a ring apart differ (`Apart`), so a writer
  never touches a published word, and the distance from `STOP` to the place `i` words after it
  is `i` (`DistanceOfPlace`).
* `WaitersNeverOverrun`: `FifoWrite`'s test on `NEXT_CMD` is enough if every writer waits for
  the device after its batch and the ring has room for one batch of each. What is published
  is then at most a batch for each writer in `FifoSync` (`Awaited`). The update thread does
  not wait, and with it `fifo_full` overruns the ring: no configuration of the real driver
  meets the hypothesis; the theorem says which of its threads breaks it.

`Desktop_proof` is about three components that share no variable; it extends all three,
which is why the definitions of `Tray` and `Mouse` carry their names (`TraySpec`,
`MouseInit`). Of `Tray`, for any texts and bounds (`NoText` being none of the texts):

* `RunnersAlwaysFollow`: `RunnersFollowSettings` says nothing before the tray is attached;
  the poller and the watching being on together then too makes it inductive.
* `ClipboardsAlwaysAgree`: what the host offers is what its clipboard holds, so a poll that
  is handled after sharing was turned off, whose commit nobody is told of, leaves the
  two sides the same (`ClipboardInv`). What appending and removing a message does to the
  waiting notices is `NoticeStays` and `NoticeBehind`.
* `TrayTypes`: the types, with the bound on the queue.

Of `Mouse`, for any bounds on its queues and resets:

* `OffInTheEnd`: `OffWhenDisabled` is about rest only. `MousePlaces` says where each thread
  can be and that the watcher acts on the `gActivated` it has just assigned; `MouseOrder`
  that, while no two threads have been at it at once, a filter at work was allowed to,
  the watcher's copy is up to date when no notice waits, and sharing is off from the
  `DisableMouseSharing` of the watcher or the destructor on. The device's queue does not
  matter for this.
* `MouseTypes`: the types, with the bound on the device's words.

Of `Cleanup`, for any threads and volumes, any limits, and any ends of the Deskbar:

* `FlagFollows`: while no menu overlaps a pick (`OneAtATime`), there is one of three things
  at most, a menu that offers the clean-up, a pick in the queue, or a thread, and the flag is
  set exactly with the thread. `FlagFollowsThread` is not inductive: it says nothing of the
  picks that wait.
* `NothingIsLeft`: a name that is not an orphan is at a volume where a thread is about to
  take it away (`Named`), which another thread's `FindEntry` or `RemoveEntry` cannot
  undo; and only a thread that is filling has files open. No assumption is made on what
  the volumes, the user or the other programs do.
* `CleanupTypes`: the lists never name a volume twice and the files stay within the code's
  limits; `TypeOK` is not inductive. `CleanupInv` has four parts. `WindowInv`: a window is
  told at most once that a volume was mounted, and of none that it lists already, since
  a device that has gone does not come back under its number. `WorkInv`: `fToCleanup`
  is a selection of such a list, and not empty while a thread fills. `FilesInv`: a thread
  has at most `MAX_FILES` files, and the one it writes to is not full. `OthersInv`: the
  rest. `NodeLeft` counts the open files and the names to show that a new file finds a
  node. That `fToCleanup` has no duplicates would be an induction over the selection;
  `SelectionInOrder` has it from an injection of a finite set into `1 .. n`, which is onto.

The assumptions are those on the constants (the finite sets, that the primary accelerant is
one of the clients, that `rootHandle` is no handle of the host, that no name is empty or
`..`, that the ring has at least two words), and those a theorem states: `OneThread`, the
length of the buffer in `TerminatorFits`, the batches in `WaitersNeverOverrun`.

Only proved: the types of `Tray`, `Mouse` and `Attributes` (`TrayTypes`, `MouseTypes`,
`AttributesTypes`), which no run checks; and `MountedImplementsBoth`.

Only model-checked:

* The liveness properties (`EveryCallReturns`, `EveryWaiterEnters`, `EveryBatchPublished`,
  `EchoesDieOut`, `EveryTransferReturns`, `SharingComesBack`, `FillingEnds`), which depend
  on fairness and are out of the prover's reach.

## 5. Not modelled

* Behaviour after memory is freed: hooks called on a vnode whose node was deleted by
  remove_dir. `NodeTree` keeps such hooks out (`Dirs`), and shows that the tree itself
  never leads to a freed node. Two threads in one directory while a third removes it
  are left out for the same reason.
* `TreeIsAlive`, `VnodesResolve` and `NameMeansItsFile` are checked, and proved, with one
  hook at a time. With several, `sCurrentInode` is a data race and two nodes may get one inode.
* access, which compares the host's own permission bits with the mode and changes nothing.
  The fields named by the notification of write_stat: it passes the host's mask where
  `file_operations.cpp:158` passes `B_STAT_...` flags, whose values are Haiku's; the window of
  `Attributes` reads all fields. Products that exceed a signed word are taken to wrap.
* What a write to the root does after the host has refused it (`GetParent()` is NULL,
  `file_operations.cpp:157`); the time of the last notification to the node monitor.
* The pairs of register index and value (`driver.h:61`): a pair is one step. Two ioctls
  at once could mix them, and any register could then have any value. An update thread
  that syncs a full FIFO while `CONFIG_DONE` is 0, for which `FifoInit` would wait, and
  a display left off by a team that ends between `FIFO_STOP` and `FIFO_START`.
* The mouse add-on's constructor, whose last assignment a notification could precede; a
  settings file that is read half written.
* A tray that is removed while a clean-up thread keeps a pointer to it; volumes that come
  between the listing of the selection window and its watching.
* How a text of the clipboard is cut in words of four bytes.
* Failing allocations, paths longer than `B_PATH_NAME_LENGTH`, the node monitor.
* The bytes of commands and texts, drawing, alerts and windows, the registers of the
  SVGA device other than those named above, palette and cursor.
* The tray application, which adds the replicant to the Deskbar or removes it; the detection of
  VMware by a signal handler; build files, locales, icons, register tables.

## 6. Plan

All components with a state are modelled. Left, in order of what matters most:

1. The register pairs of the device, cut in two.
