---------------------------- MODULE Desktop_proof ----------------------------
(***************************************************************************)
(* The add-ons of the desktop, the tray, the clean-ups it starts and the   *)
(* mouse filter, each by itself.                                           *)
(*                                                                         *)
(* The tray's runners follow its settings, and the clipboards agree, for   *)
(* any texts and any bounds; sharing of the mouse stays off once it has    *)
(* been turned off, whatever the bounds on the device; the tray's flag     *)
(* follows the clean-up thread, and clean-ups leave no file behind, for    *)
(* any number of threads and volumes, files of any size and number, and    *)
(* any number of ends of the Deskbar.  A clean-up's lists never name a     *)
(* volume twice, and its files stay within their number and size.          *)
(***************************************************************************)
EXTENDS Tray, Mouse, Cleanup, FiniteSetTheorems, SequenceTheorems, TLAPS

-----------------------------------------------------------------------------
(* The tray's sharings.                                                    *)

\* The poller and the watching are turned on and off together, attached or not.
SharingInv ==
  /\ DOMAIN gSettings = Sharings
  /\ watching = fClipboardPoller
  /\ RunnersFollowSettings

LEMMA SharingStep ==
  ASSUME SharingInv, [TrayNext]_trayVars
  PROVE  SharingInv'
  <1> USE DEF SharingInv, RunnersFollowSettings
  <1>1. CASE AttachedToWindow
    BY <1>1
    DEF AttachedToWindow, SetClipboardSharing, SetTimeSynchronization
  <1>2. ASSUME NEW s \in Sharings, Toggle(s), UNCHANGED attached
        PROVE  SharingInv'
    BY <1>2 DEF Toggle, SetClipboardSharing, SetTimeSynchronization
  <1>3. CASE UNCHANGED <<attached, sharing>>
    BY <1>3 DEF sharing
  <1>4. CASE MessageReceived
    BY <1>2, <1>3, <1>4 DEF MessageReceived, sharing
  <1> QED BY <1>1, <1>3, <1>4
    DEF TrayNext, PickSharing, HostAllows, GuestCopies, HostCopies,
        PollDue, trayVars

\* From the moment the tray is attached, the poller, the watching and the clock runner
\* exist exactly while their setting is on (VMWAddOnsTray's SetClipboardSharing and
\* SetTimeSynchronization).
THEOREM RunnersAlwaysFollow == TraySpec => []RunnersFollowSettings
  <1>1. TrayInit => SharingInv
    BY DEF SharingInv, RunnersFollowSettings, TrayInit
  <1>2. SharingInv => RunnersFollowSettings
    BY DEF SharingInv
  <1> QED BY SharingStep, <1>1, <1>2, PTL DEF TraySpec

-----------------------------------------------------------------------------
(* The clipboards.                                                         *)

TrayMessages == Sharings \cup {"poll", "changed"}

\* A notice of a change of Haiku's clipboard waits.
Noticed(q) == \E i \in 1 .. Len(q) : q[i] = "changed"

\* What the host offers is what its clipboard holds; the clipboards differ only while
\* a text is on its way.
ClipboardInv ==
  /\ messages \in Seq(TrayMessages)
  /\ watching = fClipboardPoller
  /\ offer = NoText \/ offer = host
  /\ shared /\ offer = NoText /\ ~ Noticed(messages) => guest = host

LEMMA NoticeStays ==
  ASSUME NEW q \in Seq(TrayMessages), NEW m \in TrayMessages
  PROVE  /\ Append(q, m) \in Seq(TrayMessages)
         /\ Noticed(Append(q, m)) <=> Noticed(q) \/ m = "changed"
  <1>1. /\ Append(q, m) \in Seq(TrayMessages)
        /\ Len(Append(q, m)) = Len(q) + 1
        /\ \A i \in 1 .. Len(q) : Append(q, m)[i] = q[i]
        /\ Append(q, m)[Len(q) + 1] = m
    BY AppendProperties
  <1>2. Len(q) \in Nat
    OBVIOUS
  <1>3. 1 .. Len(Append(q, m)) = (1 .. Len(q)) \cup {Len(q) + 1}
    BY <1>1, <1>2
  <1> QED BY <1>1, <1>3 DEF Noticed

LEMMA NoticeBehind ==
  ASSUME NEW q \in Seq(TrayMessages), q # <<>>
  PROVE  /\ Tail(q) \in Seq(TrayMessages)
         /\ Noticed(q) <=> Head(q) = "changed" \/ Noticed(Tail(q))
  <1>1. /\ Tail(q) \in Seq(TrayMessages) /\ Head(q) = q[1]
        /\ Len(q) \in Nat \ {0} /\ Len(Tail(q)) = Len(q) - 1
        /\ \A i \in 1 .. Len(Tail(q)) : Tail(q)[i] = q[i + 1]
    BY HeadTailProperties, EmptySeq, LenProperties
  <1>2. ASSUME NEW i \in 1 .. Len(q), q[i] = "changed", i # 1
        PROVE  Noticed(Tail(q))
    <2>1. i - 1 \in 1 .. Len(Tail(q)) /\ q[(i - 1) + 1] = q[i]
      BY <1>1, <1>2
    <2>2. Tail(q)[i - 1] = "changed"
      BY <1>1, <1>2, <2>1
    <2> QED BY <2>1, <2>2 DEF Noticed
  <1>3. ASSUME NEW i \in 1 .. Len(Tail(q)), Tail(q)[i] = "changed"
        PROVE  Noticed(q)
    <2>1. i + 1 \in 1 .. Len(q) /\ q[i + 1] = "changed"
      BY <1>1, <1>3
    <2> QED BY <2>1 DEF Noticed
  <1>4. Head(q) = "changed" => Noticed(q)
    BY <1>1 DEF Noticed
  <1>5. Noticed(q) => Head(q) = "changed" \/ Noticed(Tail(q))
    BY <1>1, <1>2 DEF Noticed
  <1>6. Noticed(Tail(q)) => Noticed(q)
    BY <1>3 DEF Noticed
  <1> QED BY <1>1, <1>4, <1>5, <1>6

\* A commit of the tray or of the user is noticed while sharing is on.
LEMMA CommitNoticed ==
  ASSUME NEW q \in Seq(TrayMessages)
  PROVE  /\ Notify(q) \in Seq(TrayMessages)
         /\ Noticed(Notify(q)) <=> Noticed(q) \/ watching
  BY NoticeStays DEF Notify, TrayMessages

LEMMA ClipboardsHandled ==
  ASSUME ClipboardInv, MessageReceived, watching' = fClipboardPoller'
  PROVE  ClipboardInv'
  <1> USE DEF ClipboardInv
  <1>1. /\ messages # <<>> /\ shared' = shared
        /\ Tail(messages) \in Seq(TrayMessages)
        /\ Noticed(messages) <=> Head(messages) = "changed" \/ Noticed(Tail(messages))
    BY NoticeBehind DEF MessageReceived
  <1>2. CASE /\ Head(messages) \in Sharings
             /\ messages' = Tail(messages)
             /\ UNCHANGED clipboards
    <2>1. Head(messages) # "changed"
      BY <1>2 DEF Sharings
    <2> QED BY <1>1, <1>2, <2>1 DEF clipboards, Noticed
  <1>3. CASE Head(messages) = "changed" /\ SetHostClipboard
    BY <1>1, <1>3 DEF SetHostClipboard
  <1>4. CASE Head(messages) = "poll" /\ GetHostClipboard /\ offer = NoText
    BY <1>1, <1>4 DEF GetHostClipboard, Noticed
  <1>5. CASE Head(messages) = "poll" /\ GetHostClipboard /\ offer # NoText
    BY <1>1, <1>5, CommitNoticed DEF GetHostClipboard
  <1> QED BY <1>2, <1>3, <1>4, <1>5 DEF MessageReceived

LEMMA ClipboardStep ==
  ASSUME ClipboardInv, [TrayNext]_trayVars
  PROVE  ClipboardInv'
  <1> USE DEF ClipboardInv
  <1>1. CASE AttachedToWindow
    BY <1>1
    DEF AttachedToWindow, SetClipboardSharing, clipboards,
        Sharings, Noticed
  <1>2. CASE MessageReceived
    <2>1. watching' = fClipboardPoller'
      BY <1>2
      DEF MessageReceived, Toggle, SetClipboardSharing, sharing,
          Sharings
    <2> QED BY <1>2, <2>1, ClipboardsHandled
  <1>3. ASSUME NEW s \in Sharings, PickSharing(s)
        PROVE  ClipboardInv'
    BY <1>3, NoticeStays
    DEF PickSharing, sharing, clipboards, TrayMessages, Sharings
  <1>4. CASE PollDue
    BY <1>4, NoticeStays DEF PollDue, sharing, clipboards, TrayMessages
  <1>5. CASE GuestCopies
    BY <1>5, CommitNoticed DEF GuestCopies, Copy, sharing
  <1>6. CASE HostCopies
    BY <1>6, TextsAssumption DEF HostCopies, Copy, sharing
  <1>7. CASE UNCHANGED <<sharing, messages, clipboards, shared>>
    BY <1>7 DEF sharing, clipboards, Noticed
  <1> QED BY <1>1, <1>2, <1>3, <1>4, <1>5, <1>6, <1>7 DEF TrayNext, HostAllows, trayVars

\* The clipboards agree once no text is on its way, when every copy was made while
\* sharing was on (VMWAddOnsTray's SetHostClipboard and GetHostClipboard).
THEOREM ClipboardsAlwaysAgree == TraySpec => []ClipboardsAgree
  <1>1. TrayInit => ClipboardInv
    <2>1. <<>> \in Seq(TrayMessages)
      BY EmptySeq
    <2> QED BY <2>1 DEF ClipboardInv, TrayInit
  <1>2. ClipboardInv => ClipboardsAgree
    BY DEF ClipboardInv, ClipboardsAgree, Contains, Noticed
  <1>3. ClipboardInv /\ [TrayNext]_trayVars => ClipboardInv'
    BY ClipboardStep
  <1> QED BY <1>1, <1>2, <1>3, PTL DEF TraySpec

-----------------------------------------------------------------------------
(* Types of the tray.                                                      *)

LEMMA Toggles ==
  ASSUME TrayTypeOK, NEW s \in Sharings, Toggle(s)
  PROVE  /\ gSettings' \in [Sharings -> BOOLEAN]
         /\ {fClipboardPoller', fClockSynchonizer', watching'} \subseteq BOOLEAN
  BY DEF TrayTypeOK, Toggle, SetClipboardSharing, SetTimeSynchronization

LEMMA TrayTypesStep ==
  ASSUME TrayTypeOK, [TrayNext]_trayVars
  PROVE  TrayTypeOK'
  <1> USE DEF TrayTypeOK, sharing, clipboards, TrayMessages
  <1>0. messages \in Seq(TrayMessages) /\ Len(messages) \in Nat /\ MaxMessages \in Nat
    BY TrayBounds
  <1>1. CASE AttachedToWindow
    BY <1>1
    DEF AttachedToWindow, SetClipboardSharing, SetTimeSynchronization,
        Sharings
  <1>2. CASE MessageReceived
    <2>1. /\ Tail(messages) \in Seq(TrayMessages) /\ Len(Tail(messages)) < MaxMessages
          /\ Len(Tail(messages)) \in Nat
      BY <1>0, <1>2, HeadTailProperties, EmptySeq DEF MessageReceived
    <2>2. /\ Notify(Tail(messages)) \in Seq(TrayMessages)
          /\ Len(Notify(Tail(messages))) <= MaxMessages
      BY <1>0, <2>1, AppendProperties DEF Notify
    <2>3. /\ gSettings' \in [Sharings -> BOOLEAN]
          /\ {fClipboardPoller', fClockSynchonizer', watching', shared'} \subseteq BOOLEAN
      BY <1>2, Toggles DEF MessageReceived
    <2>4. messages' \in Seq(TrayMessages) /\ Len(messages') <= MaxMessages
      <3>1. messages' = Tail(messages) \/ messages' = Notify(Tail(messages))
        BY <1>2 DEF MessageReceived, SetHostClipboard, GetHostClipboard
      <3>2. Len(Tail(messages)) <= MaxMessages
        BY <1>0, <2>1
      <3> HIDE DEF TrayMessages
      <3> QED BY <2>1, <2>2, <3>1, <3>2
    <2>5. {guest', host', offer'} \subseteq Texts \cup {NoText}
      BY <1>2 DEF MessageReceived, SetHostClipboard, GetHostClipboard
    <2> QED BY <1>2, <2>3, <2>4, <2>5 DEF MessageReceived
  <1>3. ASSUME NEW m \in TrayMessages, Len(messages) < MaxMessages
        PROVE  /\ Append(messages, m) \in Seq(TrayMessages)
               /\ Len(Append(messages, m)) <= MaxMessages
    BY <1>0, <1>3, AppendProperties
  <1>4. ASSUME NEW s \in Sharings, PickSharing(s)
        PROVE  TrayTypeOK'
    BY <1>3, <1>4 DEF PickSharing
  <1>5. CASE PollDue
    BY <1>3, <1>5 DEF PollDue
  <1>6. CASE HostAllows
    BY <1>6 DEF HostAllows
  <1>7. ASSUME Copy PROVE copies' \in 0 .. MaxCopies /\ shared' \in BOOLEAN
    BY <1>7, TrayBounds DEF Copy
  <1>8. CASE GuestCopies
    <2>1. messages' \in Seq(TrayMessages) /\ Len(messages') <= MaxMessages
      BY <1>0, <1>3, <1>8 DEF GuestCopies, Notify
    <2>2. /\ UNCHANGED <<attached, sharing, guiSettings, host, offer>>
          /\ guest' \in Texts /\ Copy
      BY <1>8 DEF GuestCopies
    <2> HIDE DEF TrayMessages
    <2> QED BY <1>7, <2>1, <2>2 DEF TrayMessages
  <1>9. CASE HostCopies
    BY <1>7, <1>9 DEF HostCopies
  <1>10. CASE UNCHANGED trayVars
    BY <1>10 DEF trayVars
  <1> QED BY <1>1, <1>2, <1>4, <1>5, <1>6, <1>8, <1>9, <1>10 DEF TrayNext

\* Every variable of the tray keeps its type, and its queue its bound.
THEOREM TrayTypes == TraySpec => []TrayTypeOK
  <1>1. TrayInit => TrayTypeOK
    <2>1. <<>> \in Seq(TrayMessages) /\ Len(<<>>) = 0
      BY EmptySeq
    <2>2. MaxMessages \in Nat /\ 0 \in 0 .. MaxCopies
      BY TrayBounds
    <2> SUFFICES ASSUME TrayInit PROVE TrayTypeOK
      OBVIOUS
    <2>3. messages \in Seq(TrayMessages) /\ Len(messages) <= MaxMessages
      BY <2>1, <2>2 DEF TrayInit
    <2>4. {fClipboardPoller, fClockSynchonizer, watching, shared} \subseteq BOOLEAN
      BY DEF TrayInit
    <2> QED BY <2>2, <2>3, <2>4 DEF TrayInit, TrayTypeOK, TrayMessages
  <1>2. TrayTypeOK /\ [TrayNext]_trayVars => TrayTypeOK'
    BY TrayTypesStep
  <1> QED BY <1>1, <1>2, PTL DEF TraySpec

-----------------------------------------------------------------------------
(* The mouse filter and its settings watcher.                              *)

Enabling == {"read", "check", "version", "absolute"}
Disabling == {"disable", "confirm"}
Filtering == {"status", "data"} \cup Disabling \cup Enabling

Busy(t) == at[t] \notin {"idle", "gone"}

\* Where each thread can be: the watcher's gActivated is the one it acts on.
MousePlaces ==
  /\ DOMAIN at = MouseThreads /\ nodeNotices \in Nat
  /\ at["filter"] \in {"idle", "gone"} \cup Filtering
  /\ at["destructor"] \in {"idle", "delete", "gone"} \cup Disabling
  /\ at["watcher"] \in {"idle", "assign", "gone"} \cup Disabling \cup Enabling
  /\ \A t \in MouseThreads : at[t] = "gone" => \A u \in MouseThreads : at[u] = "gone"
  /\ at["watcher"] # "assign" => gActivated = known
  /\ at["watcher"] \in Enabling => gActivated
  /\ at["watcher"] \in Disabling => ~ gActivated
  /\ ~ Loaded => ~ Busy("filter")

\* While no two threads have been at it at once: only a filter that may is enabling,
\* the watcher's copy is up to date, and whoever has disabled last left sharing off.
MouseOrder ==
  ~ mixed =>
    /\ \A t, u \in MouseThreads : Busy(t) /\ Busy(u) => t = u
    /\ Busy("filter") => gActivated
    /\ Loaded /\ nodeNotices = 0 => known = setting
    /\ Loaded /\ at["watcher"] \in {"idle", "confirm"} /\ ~ gActivated => ~ absolute
    /\ at["destructor"] \in {"confirm", "delete", "gone"} => ~ absolute

MouseInv == MousePlaces /\ MouseOrder

LEMMA MouseStarts == MouseInit => MouseInv
  BY DEF MouseInit, MouseInv, MousePlaces, MouseOrder, Busy, MouseThreads,
         Loaded, Enabling, Disabling, Filtering

LEMMA MouseImplies == MouseInv => OffWhenDisabled
  BY DEF OffWhenDisabled, AtRest, MouseInv, MousePlaces,
         MouseOrder, Busy, MouseThreads, Loaded, Enabling, Disabling, Filtering

LEMMA BackdoorStep ==
  ASSUME MouseInv, NEW t \in MouseThreads, Backdoor(t)
  PROVE  MouseInv'
  <1> USE DEF MouseInv, MousePlaces, MouseOrder, Busy, MouseThreads, Loaded,
              Enabling, Disabling, Filtering, Go, file, memory,
              pointerDevice
  <1>1. CASE DisableMouseSharing(t)
    BY <1>1 DEF DisableMouseSharing
  <1>2. CASE ConfirmDisabled(t)
    BY <1>2 DEF ConfirmDisabled, AfterDisable
  <1>3. CASE EnableReads(t)
    BY <1>3 DEF EnableReads
  <1>4. CASE EnableChecks(t)
    BY <1>4 DEF EnableChecks
  <1>5. CASE EnableGetsVersion(t)
    BY <1>5 DEF EnableGetsVersion, Data, Fails
  <1>6. CASE EnableRequests(t)
    BY <1>6 DEF EnableRequests
  <1> QED BY <1>1, <1>2, <1>3, <1>4, <1>5, <1>6 DEF Backdoor

LEMMA MouseStep ==
  ASSUME MouseInv, [MouseNext]_mouseVars
  PROVE  MouseInv'
  <1> USE DEF MouseInv, MousePlaces, MouseOrder, Busy, MouseThreads, Loaded,
              Enabling, Disabling, Filtering, Go, file, memory,
              pointerDevice
  <1>1. CASE Filter
    BY <1>1 DEF Filter, Starts, Alone
  <1>2. CASE GetCursorStatus
    BY <1>2 DEF GetCursorStatus
  <1>3. CASE GetCursorData
    BY <1>3 DEF GetCursorData, Data, Fails
  <1>4. CASE Destroy
    BY <1>4 DEF Destroy, Starts, Alone
  <1>5. CASE QuitWatcher
    BY <1>5 DEF QuitWatcher
  <1>6. CASE Reload
    <2>1. /\ at["watcher"] = "idle" /\ at'["watcher"] = "assign"
          /\ \A t \in MouseThreads \ {"watcher"} : at'[t] = at[t]
          /\ DOMAIN at' = MouseThreads
      BY <1>6 DEF Reload
    <2>2. MousePlaces'
      BY <1>6, <2>1 DEF Reload
    <2>3. ASSUME ~ mixed'
          PROVE  at'["filter"] = "idle" /\ at'["destructor"] = "idle"
      BY <1>6, <2>1, <2>3 DEF Reload, Starts, Alone
    <2>4. ASSUME ~ mixed'
          PROVE  known' = setting'
      BY <1>6, <2>1, <2>3, <2>4 DEF Reload
    <2>5. MouseOrder'
      BY <2>1, <2>3, <2>4
    <2> QED BY <2>2, <2>5
  <1>7. CASE Assign
    BY <1>7 DEF Assign
  <1>8. CASE SetBool
    BY <1>8 DEF SetBool
  <1>9. CASE DeviceMoves
    BY <1>9 DEF DeviceMoves
  <1>10. CASE DeviceResets
    BY <1>10 DEF DeviceResets
  <1>11. CASE UNCHANGED mouseVars
    BY <1>11 DEF mouseVars
  <1> QED
    BY <1>1, <1>2, <1>3, <1>4, <1>5, <1>6, <1>7, <1>8, <1>9, <1>10, <1>11, BackdoorStep
    DEF MouseNext, FilterStep, WatcherStep, DestructorStep,
        Unloaded

\* Once the notices of a file that says mouse sharing is off have been handled, or the
\* add-on is unloaded, the host sends no absolute positions, unless the two threads have
\* been at it at once; whatever the host forgot and the device queued
\* (VMWareMouseFilter's Filter and VMWareSettingsWatcher's MessageReceived).
THEOREM OffInTheEnd == MouseSpec => []OffWhenDisabled
  BY MouseStarts, MouseImplies, MouseStep, PTL DEF MouseSpec

LEMMA WordsTaken ==
  ASSUME MouseTypeOK, NEW n \in 1 .. 4, Data(n)
  PROVE  /\ words' \in Seq(Words) /\ Len(words') <= MaxWords
         /\ pointer' \in {"ok", "error"} /\ absolute' \in BOOLEAN
  <1> USE DEF MouseTypeOK
  <1>1. CASE n > Len(words)
    <2>1. <<>> \in Seq(Words) /\ Len(<<>>) = 0
      BY EmptySeq
    <2> QED BY <1>1, <2>1, MouseAssumption DEF Data, Fails
  <1>2. CASE ~ (n > Len(words))
    <2>1. words' = SubSeq(words, n + 1, Len(words)) /\ UNCHANGED <<pointer, absolute>>
      BY <1>2 DEF Data
    <2>2. Len(words) \in Nat /\ n + 1 \in 1 .. Len(words) + 1
      BY <1>2
    <2>3. /\ SubSeq(words, n + 1, Len(words)) \in Seq(Words)
          /\ Len(SubSeq(words, n + 1, Len(words))) = Len(words) - n
      BY <2>2, SubSeqProperties
    <2> HIDE DEF Words
    <2> QED BY <2>1, <2>2, <2>3, MouseAssumption
  <1> QED BY <1>1, <1>2

LEMMA MouseTypesStep ==
  ASSUME MouseTypeOK, [MouseNext]_mouseVars
  PROVE  MouseTypeOK'
  <1> USE DEF MouseTypeOK, Go, file, memory, pointerDevice, MouseThreads
  <1> USE MouseAssumption
  <1>1. ASSUME words' = <<>>
        PROVE  words' \in Seq(Words) /\ Len(words') <= MaxWords
    <2>1. <<>> \in Seq(Words) /\ Len(<<>>) = 0
      BY EmptySeq
    <2> QED BY <1>1, <2>1
  <1>2. ASSUME NEW t \in MouseThreads, Backdoor(t)
        PROVE  MouseTypeOK'
    <2>1. CASE DisableMouseSharing(t)
      <3>1. words' \in Seq(Words) /\ Len(words') <= MaxWords
        BY <1>1, <2>1 DEF DisableMouseSharing
      <3> QED BY <2>1, <3>1 DEF DisableMouseSharing
    <2>2. CASE ConfirmDisabled(t)
      BY <2>2 DEF ConfirmDisabled, AfterDisable
    <2>3. CASE EnableReads(t)
      <3>1. "version" \in Words
        BY DEF Words
      <3>2. words' \in Seq(Words) /\ Len(words') <= MaxWords
        BY <2>3, <3>1, AppendProperties DEF EnableReads
      <3> QED BY <2>3, <3>2 DEF EnableReads
    <2>4. CASE EnableChecks(t)
      BY <2>4 DEF EnableChecks
    <2>5. CASE EnableGetsVersion(t)
      <3>1. /\ words' \in Seq(Words) /\ Len(words') <= MaxWords
            /\ pointer' \in {"ok", "error"} /\ absolute' \in BOOLEAN
        BY <2>5, WordsTaken DEF EnableGetsVersion
      <3> QED BY <2>5, <3>1 DEF EnableGetsVersion
    <2>6. CASE EnableRequests(t)
      BY <2>6 DEF EnableRequests
    <2> QED BY <1>2, <2>1, <2>2, <2>3, <2>4, <2>5, <2>6 DEF Backdoor
  <1>3. CASE Filter
    BY <1>3 DEF Filter, Starts, Alone
  <1>4. CASE GetCursorStatus
    BY <1>4 DEF GetCursorStatus
  <1>5. CASE GetCursorData
    BY <1>5, WordsTaken DEF GetCursorData
  <1>6. CASE Destroy
    BY <1>6 DEF Destroy, Starts, Alone
  <1>7. CASE QuitWatcher
    BY <1>7 DEF QuitWatcher
  <1>8. CASE Reload
    <2>1. nodeNotices' \in 0 .. MaxNotices
      BY <1>8 DEF Reload
    <2>2. known' \in BOOLEAN /\ mixed' \in BOOLEAN
      BY <1>8 DEF Reload, Starts, Alone
    <2> QED BY <1>8, <2>1, <2>2 DEF Reload
  <1>9. CASE Assign
    BY <1>9 DEF Assign
  <1>10. CASE SetBool
    BY <1>10 DEF SetBool
  <1>11. CASE DeviceMoves
    <2>1. Position \in Seq(Words) /\ Len(Position) = 4
      BY DEF Position, Words
    <2>2. /\ words \o Position \in Seq(Words)
          /\ Len(words \o Position) = Len(words) + 4
      <3>1. words \in Seq(Words)
        OBVIOUS
      <3>2. /\ words \o Position \in Seq(Words)
            /\ Len(words \o Position) = Len(words) + Len(Position)
        BY ONLY <2>1, <3>1, ConcatProperties, Zenon
      <3> QED BY <2>1, <3>2
    <2>3. words' \in Seq(Words) /\ Len(words') <= MaxWords
      BY <1>11, <2>2 DEF DeviceMoves
    <2>4. UNCHANGED <<setting, nodeNotices, known, gActivated, pointer, absolute, resets,
                      at, mixed>>
      BY <1>11 DEF DeviceMoves
    <2> QED BY <2>3, <2>4
  <1>12. CASE DeviceResets
    <2>1. resets' \in 0 .. MaxResets
      BY <1>12 DEF DeviceResets
    <2>2. words' \in Seq(Words) /\ Len(words') <= MaxWords
      BY <1>1, <1>12 DEF DeviceResets
    <2> QED BY <1>12, <2>1, <2>2 DEF DeviceResets
  <1>13. CASE UNCHANGED mouseVars
    BY <1>13 DEF mouseVars
  <1> QED
    BY <1>2, <1>3, <1>4, <1>5, <1>6, <1>7, <1>8, <1>9, <1>10, <1>11, <1>12, <1>13
    DEF MouseNext, FilterStep, WatcherStep, DestructorStep,
        Unloaded

\* Every variable of the mouse filter keeps its type, and its queues their bounds.
THEOREM MouseTypes == MouseSpec => []MouseTypeOK
  <1>1. MouseInit => MouseTypeOK
    <2>1. <<>> \in Seq(Words) /\ Len(<<>>) = 0
      BY EmptySeq
    <2> SUFFICES ASSUME MouseInit PROVE MouseTypeOK
      OBVIOUS
    <2>2. {setting, known, gActivated, absolute, mixed} \subseteq BOOLEAN
      BY DEF MouseInit
    <2>3. nodeNotices \in 0 .. MaxNotices /\ resets \in 0 .. MaxResets
      BY MouseAssumption DEF MouseInit
    <2>4. words \in Seq(Words) /\ Len(words) <= MaxWords
      BY <2>1, MouseAssumption DEF MouseInit
    <2> QED BY <2>2, <2>3, <2>4 DEF MouseInit, MouseTypeOK
  <1>2. MouseTypeOK /\ [MouseNext]_mouseVars => MouseTypeOK'
    BY MouseTypesStep
  <1> QED BY <1>1, <1>2, PTL DEF MouseSpec

-----------------------------------------------------------------------------
(* The clean-ups.                                                          *)

Messages == {"click", "shrink"}

\* The places in the queue where a pick waits.
Picks == {i \in DOMAIN queue : queue[i] = "shrink"}

\* Only one of the menu, a pick and a thread is there at a time, and the flag is set
\* while it is the thread.
OneAtATime ==
  /\ \A t, u \in Running : t = u
  /\ fCleanupInProgress <=> Running # {}
  /\ \A i, j \in Picks : i = j
  /\ Picks # {} => ~ offering /\ ~ fCleanupInProgress
  /\ offering => ~ fCleanupInProgress

FlagInv ==
  /\ queue \in Seq(Messages) /\ DOMAIN pc = Threads
  /\ ~ overlap => OneAtATime

\* A name that is not an orphan is about to be taken away by a thread at the volume.
Named(d) ==
  entry[d] # NoFile =>
    d \in orphans \/ \E t \in Threads : pc[t] \in {"find", "remove"} /\ Volume(t) = d

\* Only a thread that is filling a volume has files.
FileInv ==
  /\ DOMAIN pc = Threads /\ DOMAIN spaceSuckingFiles = Threads
  /\ DOMAIN fToCleanup = Threads /\ DOMAIN entry = Devices
  /\ \A t \in Threads : spaceSuckingFiles[t] # <<>> => pc[t] \in Filling
  /\ \A d \in Devices : Named(d)

-----------------------------------------------------------------------------
(* The flag.                                                               *)

LEMMA Queued ==
  ASSUME queue \in Seq(Messages), NEW m \in Messages, queue' = Append(queue, m)
  PROVE  /\ queue' \in Seq(Messages)
         /\ m = "click" => Picks' = Picks
         /\ m = "shrink" => Picks' = Picks \cup {Len(queue) + 1}
  <1>1. /\ queue' \in Seq(Messages) /\ Len(queue') = Len(queue) + 1 /\ Len(queue) \in Nat
        /\ \A i \in 1 .. Len(queue) : queue'[i] = queue[i]
        /\ queue'[Len(queue) + 1] = m
        /\ DOMAIN queue = 1 .. Len(queue) /\ DOMAIN queue' = 1 .. Len(queue')
    BY AppendProperties, LenProperties
  <1>2. DOMAIN queue' = DOMAIN queue \cup {Len(queue) + 1}
    BY <1>1
  <1> QED BY <1>1, <1>2 DEF Picks

LEMMA Taken ==
  ASSUME queue \in Seq(Messages), queue # <<>>, queue' = Tail(queue)
  PROVE  /\ queue' \in Seq(Messages)
         /\ \A i \in Picks' : i + 1 \in Picks /\ i \in Nat
         /\ Head(queue) = "shrink" => 1 \in Picks /\ \A i \in Picks' : i + 1 # 1
  <1>1. /\ queue' \in Seq(Messages) /\ Len(queue') = Len(queue) - 1
        /\ \A i \in 1 .. Len(queue) - 1 : queue'[i] = queue[i + 1]
        /\ Head(queue) = queue[1]
        /\ Len(queue) \in Nat \ {0}
        /\ DOMAIN queue = 1 .. Len(queue) /\ DOMAIN queue' = 1 .. Len(queue')
    BY HeadTailProperties, EmptySeq, LenProperties
  <1>2. \A i \in DOMAIN queue' : i + 1 \in DOMAIN queue /\ queue'[i] = queue[i + 1] /\ i \in Nat
    BY <1>1
  <1>3. 1 \in DOMAIN queue
    BY <1>1
  <1>4. \A i \in Nat \ {0} : i + 1 # 1
    OBVIOUS
  <1>5. \A i \in DOMAIN queue' : i \in Nat \ {0}
    BY <1>1
  <1> QED BY <1>1, <1>2, <1>3, <1>4, <1>5 DEF Picks

LEMMA NoPick ==
  ASSUME queue \in Seq(Messages), ~ Contains(queue, "shrink")
  PROVE  Picks = {}
  BY DEF Picks, Contains, ToSet

\* The places of the threads change, but not which of them run.
LEMMA SameFlag ==
  ASSUME FlagInv, UNCHANGED <<fCleanupInProgress, queue, offering, overlap>>,
         DOMAIN pc' = Threads, Running' = Running
  PROVE  FlagInv'
  BY DEF FlagInv, OneAtATime, Picks

LEMMA ReturnKeepsFlag ==
  ASSUME FlagInv, NEW t \in Threads, pc[t] # "none", Return(t)
  PROVE  FlagInv'
  <1>1. /\ pc' = [pc EXCEPT ![t] = "none"] /\ fCleanupInProgress' = FALSE
        /\ UNCHANGED <<queue, offering, overlap>>
    BY DEF Return, Goto
  <1>2. ASSUME ~ overlap PROVE Running' = {}
    <2>1. \A u \in Running : u = t
      BY <1>2 DEF FlagInv, OneAtATime, Running
    <2> QED BY <1>1, <2>1 DEF FlagInv, Running
  <1>3. ASSUME ~ overlap PROVE OneAtATime'
    BY <1>1, <1>2, <1>3 DEF FlagInv, OneAtATime, Picks
  <1>4. DOMAIN pc' = Threads
    BY <1>1 DEF FlagInv
  <1> QED BY <1>1, <1>3, <1>4 DEF FlagInv

LEMMA TrayKeepsFlag ==
  ASSUME FlagInv, Click \/ Pick \/ MouseDown, pc' = pc
  PROVE  FlagInv'
  <1>1. Running' = Running /\ queue \in Seq(Messages)
    BY DEF Running, FlagInv
  <1>2. CASE Click
    <2>1. queue' \in Seq(Messages) /\ Picks' = Picks
      BY <1>1, <1>2, Queued DEF Click, Messages
    <2> QED BY <1>1, <1>2, <2>1 DEF Click, FlagInv, OneAtATime
  <1>3. CASE Pick
    <2>1. queue' \in Seq(Messages) /\ Picks' = Picks \cup {Len(queue) + 1}
      BY <1>1, <1>3, Queued DEF Pick, Messages
    <2>2. ASSUME ~ overlap PROVE Picks = {} /\ ~ fCleanupInProgress
      BY <1>3, <2>2 DEF Pick, FlagInv, OneAtATime
    <2> QED BY <1>1, <1>3, <2>1, <2>2 DEF Pick, FlagInv, OneAtATime
  <1>4. CASE MouseDown
    <2>1. queue' \in Seq(Messages) /\ \A i \in Picks' : i + 1 \in Picks
      BY <1>1, <1>4, Taken DEF MouseDown
    <2>2. ASSUME ~ overlap' PROVE ~ overlap /\ Picks = {}
      BY <1>1, <1>4, <2>2, NoPick DEF MouseDown
    <2>3. ASSUME ~ overlap' PROVE OneAtATime'
      BY <1>1, <1>4, <2>1, <2>2, <2>3 DEF MouseDown, FlagInv, OneAtATime
    <2> QED BY <1>4, <2>1, <2>3 DEF FlagInv
  <1> QED BY <1>2, <1>3, <1>4

LEMMA ShrinkDisksKeepsFlag ==
  ASSUME FlagInv, ShrinkDisks
  PROVE  FlagInv'
  <1>1. /\ queue \in Seq(Messages) /\ queue # <<>> /\ queue' = Tail(queue)
        /\ Head(queue) = "shrink" /\ UNCHANGED <<offering, overlap>>
    BY DEF ShrinkDisks, FlagInv
  <1>2. /\ queue' \in Seq(Messages) /\ 1 \in Picks
        /\ \A i \in Picks' : i + 1 \in Picks /\ i + 1 # 1
    BY <1>1, Taken
  <1>3. ASSUME ~ overlap
        PROVE  Picks' = {} /\ ~ offering /\ ~ fCleanupInProgress /\ Running = {}
    BY <1>2, <1>3 DEF FlagInv, OneAtATime
  <1>4. ASSUME NEW t \in Threads, pc' = [pc EXCEPT ![t] = "ask"], fCleanupInProgress' = TRUE
        PROVE  FlagInv'
    <2>1. DOMAIN pc' = Threads
      BY <1>4 DEF FlagInv
    <2>2. ASSUME ~ overlap PROVE Running' = {t}
      BY <1>3, <1>4, <2>2 DEF FlagInv, Running
    <2>3. ASSUME ~ overlap PROVE OneAtATime'
      BY <1>1, <1>3, <1>4, <2>2, <2>3 DEF OneAtATime
    <2> QED BY <1>1, <1>2, <2>1, <2>3 DEF FlagInv
  <1>5. CASE UNCHANGED <<pc, fCleanupInProgress>>
    <2>1. ASSUME ~ overlap PROVE OneAtATime'
      BY <1>1, <1>3, <1>5, <2>1 DEF OneAtATime, Running
    <2> QED BY <1>1, <1>2, <1>5, <2>1 DEF FlagInv
  <1> QED BY <1>4, <1>5 DEF ShrinkDisks

\* A running thread that goes on running.
LEMMA GoesOn ==
  ASSUME FlagInv, UNCHANGED tray, NEW t \in Threads, pc[t] # "none",
         \/ pc' = pc
         \/ \E a \in Filling \cup {"select", "volume", "alert", "confirm", "shrink"} : Goto(t, a)
  PROVE  FlagInv'
  <1>1. DOMAIN pc' = Threads /\ \A u \in Threads : pc'[u] = "none" <=> pc[u] = "none"
    BY DEF FlagInv, Goto, Filling
  <1>2. Running' = Running
    BY <1>1 DEF Running
  <1> QED BY <1>1, <1>2, SameFlag DEF tray

LEMMA TalkKeepsFlag ==
  ASSUME FlagInv, NEW t \in Threads, Talk(t)
  PROVE  FlagInv'
  <1>1. CASE Start(t)
    BY <1>1, ReturnKeepsFlag, GoesOn DEF Start, At
  <1>2. CASE Select(t) \/ DeviceNotice(t)
    BY <1>2, GoesOn DEF Select, DeviceNotice, At
  <1>3. CASE CancelSelection(t)
    BY <1>3, ReturnKeepsFlag DEF CancelSelection, At
  <1>4. CASE CleanupSelection(t)
    BY <1>4, GoesOn DEF CleanupSelection, At
  <1>5. CASE StopOperation(t) /\ UNCHANGED <<pc, tray, window, fToCleanup>>
    BY <1>5, GoesOn DEF StopOperation, Filling
  <1>6. CASE ConfirmShrink(t) \/ StartShrink(t)
    BY <1>6, ReturnKeepsFlag, GoesOn DEF ConfirmShrink, StartShrink, At
  <1>7. CASE DismissAlert(t) /\ UNCHANGED tray
    BY <1>7, GoesOn DEF DismissAlert, At
  <1> QED BY <1>1, <1>2, <1>3, <1>4, <1>5, <1>6, <1>7 DEF Talk

LEMMA FillGoesOn ==
  ASSUME NEW t \in Threads, Fill(t)
  PROVE  /\ pc[t] \in Filling \cup {"volume"}
         /\ pc' = pc \/ \E a \in Filling \cup {"volume", "alert", "confirm"} : Goto(t, a)
  BY DEF Fill, NextVolume, CreateFile, CreateFails, LastFile, FindEntry, RemoveEntry,
         WriteToFile, DeleteFiles, Stop, At, Filling

LEMMA FlagStep == FlagInv /\ [Next]_vars => FlagInv'
  <1> SUFFICES ASSUME FlagInv, [Next]_vars PROVE FlagInv'
    OBVIOUS
  <1>1. CASE UNCHANGED <<tray, pc>>
    <2>1. Running' = Running /\ DOMAIN pc' = Threads
      BY <1>1 DEF Running, FlagInv
    <2> QED BY <1>1, <2>1, SameFlag DEF tray
  <1>2. CASE (Click \/ Pick \/ MouseDown) /\ pc' = pc
    BY <1>2, TrayKeepsFlag
  <1>3. ASSUME NEW t \in Threads, Talk(t) PROVE FlagInv'
    BY <1>3, TalkKeepsFlag
  <1>4. ASSUME NEW t \in Threads, Fill(t), UNCHANGED tray PROVE FlagInv'
    <2>1. pc[t] # "none"
      BY <1>4, FillGoesOn DEF Filling
    <2>2. pc' = pc \/ \E a \in Filling \cup {"select", "volume", "alert", "confirm", "shrink"} :
                        Goto(t, a)
      BY <1>4, FillGoesOn
    <2> QED BY <1>4, <2>1, <2>2, GoesOn
  <1>5. CASE Deskbar
    <2>1. /\ queue' = <<>> /\ offering' = FALSE /\ fCleanupInProgress' = FALSE
          /\ pc' = [t \in Threads |-> "none"]
      BY <1>5 DEF Deskbar, Idle
    <2>2. queue' \in Seq(Messages) /\ Picks' = {}
      BY <2>1 DEF Picks
    <2>3. Running' = {} /\ DOMAIN pc' = Threads
      BY <2>1 DEF Running
    <2> QED BY <2>1, <2>2, <2>3 DEF FlagInv, OneAtATime
  <1> QED BY <1>1, <1>2, <1>3, <1>4, <1>5, ShrinkDisksKeepsFlag DEF Next, vars, Mount, Unmount, OthersWrite

LEMMA FlagInit == Init => FlagInv
  <1> SUFFICES ASSUME Init PROVE FlagInv
    OBVIOUS
  <1>1. queue = <<>> /\ ~ offering /\ ~ fCleanupInProgress /\ pc = [t \in Threads |-> "none"]
    BY DEF Init
  <1>2. queue \in Seq(Messages) /\ Picks = {}
    BY <1>1 DEF Picks
  <1>3. Running = {} /\ DOMAIN pc = Threads
    BY <1>1 DEF Running
  <1> QED BY <1>1, <1>2, <1>3 DEF FlagInv, OneAtATime

\* One clean-up at a time, and the flag in the tray says whether there is one, however
\* many threads the system has to give, and however often the Deskbar ends.
THEOREM FlagFollows == Spec => []FlagFollowsThread
  <1>1. FlagInv => FlagFollowsThread
    <2> SUFFICES ASSUME FlagInv, ~ overlap PROVE Cardinality(Running) <= 1
      BY DEF FlagFollowsThread, FlagInv, OneAtATime
    <2>1. CASE Running = {}
      BY <2>1, FS_EmptySet
    <2>2. CASE Running # {}
      <3>1. PICK t : t \in Running
        BY <2>2
      <3>2. Running = {t}
        BY <3>1 DEF FlagInv, OneAtATime
      <3>3. Cardinality({t}) = 1
        BY FS_Singleton
      <3> QED BY <3>2, <3>3
    <2> QED BY <2>1, <2>2
  <1> QED BY <1>1, FlagInit, FlagStep, PTL DEF Spec

-----------------------------------------------------------------------------
(* The files.                                                              *)

\* Steps that leave the files, the names and the threads that fill where they are.
LEMMA SameFiles ==
  ASSUME FileInv, UNCHANGED <<spaceSuckingFiles, entry, orphans>>,
         DOMAIN pc' = Threads, DOMAIN fToCleanup' = Threads,
         \A t \in Threads : pc[t] \in Filling =>
                              pc'[t] = pc[t] /\ fToCleanup'[t] = fToCleanup[t]
  PROVE  FileInv'
  <1>1. \A t \in Threads : spaceSuckingFiles'[t] # <<>> => pc'[t] \in Filling
    BY DEF FileInv
  <1>2. \A d \in Devices : Named(d)'
    <2> SUFFICES ASSUME NEW d \in Devices, entry[d] # NoFile, d \notin orphans
                 PROVE  \E t \in Threads : pc'[t] \in {"find", "remove"} /\ Volume(t)' = d
      BY DEF Named
    <2>1. PICK t \in Threads : pc[t] \in {"find", "remove"} /\ Volume(t) = d
      BY DEF FileInv, Named
    <2>2. pc'[t] = pc[t] /\ fToCleanup'[t] = fToCleanup[t]
      BY <2>1 DEF Filling
    <2>3. Volume(t)' = d
      BY <2>1, <2>2 DEF Volume
    <2> QED BY <2>1, <2>2, <2>3
  <1> QED BY <1>1, <1>2 DEF FileInv

LEMMA TalkKeepsFiles ==
  ASSUME FileInv, NEW t \in Threads, Talk(t), UNCHANGED <<filling, disk, history>>
  PROVE  FileInv'
  <1>1. /\ UNCHANGED <<spaceSuckingFiles, entry, orphans>>
        /\ pc' = pc \/ (pc[t] \notin Filling /\ \E a : pc' = [pc EXCEPT ![t] = a])
        /\ \/ fToCleanup' = fToCleanup
           \/ pc[t] \notin Filling /\ \E l : fToCleanup' = [fToCleanup EXCEPT ![t] = l]
    <2>1. UNCHANGED <<spaceSuckingFiles, entry, orphans>>
      BY DEF filling, disk, history
    <2>2. pc' = pc \/ (pc[t] \notin Filling /\ \E a : pc' = [pc EXCEPT ![t] = a])
      BY DEF Talk, Start, Select, DeviceNotice, CancelSelection, CleanupSelection, StopOperation,
             ConfirmShrink, StartShrink, DismissAlert, Return, Goto, At, Filling
    <2>3. \/ fToCleanup' = fToCleanup
          \/ pc[t] \notin Filling /\ \E l : fToCleanup' = [fToCleanup EXCEPT ![t] = l]
      BY DEF Talk, CancelSelection, CleanupSelection, At, Filling
    <2> QED BY <2>1, <2>2, <2>3
  <1>2. DOMAIN pc' = Threads /\ DOMAIN fToCleanup' = Threads
    BY <1>1 DEF FileInv
  <1>3. \A u \in Threads : pc[u] \in Filling =>
                             pc'[u] = pc[u] /\ fToCleanup'[u] = fToCleanup[u]
    BY <1>1 DEF FileInv
  <1> QED BY <1>1, <1>2, <1>3, SameFiles

\* A thread goes on filling its volume, and leaves no name to be taken away.
LEMMA StaysFilling ==
  ASSUME FileInv, NEW t \in Threads, NEW a \in Filling,
         UNCHANGED <<spaceSuckingFiles, entry, orphans, fToCleanup>>,
         pc[t] \in {"find", "remove"} =>
           a \in {"find", "remove"} \/ entry[Volume(t)] = NoFile,
         pc' = [pc EXCEPT ![t] = a]
  PROVE  FileInv'
  <1>1. \A u : Volume(u)' = Volume(u)
    BY DEF Volume
  <1>2. DOMAIN pc' = Threads /\ pc'[t] = a /\ \A u \in Threads \ {t} : pc'[u] = pc[u]
    BY DEF FileInv
  <1>3. \A u \in Threads : spaceSuckingFiles'[u] # <<>> => pc'[u] \in Filling
    BY <1>2 DEF FileInv
  <1>4. ASSUME NEW d \in Devices PROVE Named(d)'
    <2> SUFFICES ASSUME entry[d] # NoFile, d \notin orphans
                 PROVE  \E u \in Threads : pc'[u] \in {"find", "remove"} /\ Volume(u)' = d
      BY DEF Named
    <2>1. PICK u \in Threads : pc[u] \in {"find", "remove"} /\ Volume(u) = d
      BY DEF FileInv, Named
    <2>2. pc'[u] \in {"find", "remove"}
      BY <1>2, <2>1
    <2> QED BY <1>1, <2>1, <2>2
  <1> QED BY <1>2, <1>3, <1>4 DEF FileInv

\* What filling does to one thread and one volume.
LEMMA FillKeepsFiles ==
  ASSUME FileInv, NEW t \in Threads, Fill(t)
  PROVE  FileInv'
  <1>1. CASE NextVolume(t) /\ UNCHANGED orphans
    <2>1. /\ pc[t] = "volume" /\ UNCHANGED <<spaceSuckingFiles, entry, orphans>>
          /\ pc' = pc \/ \E a : pc' = [pc EXCEPT ![t] = a]
          /\ fToCleanup' = fToCleanup \/ \E l : fToCleanup' = [fToCleanup EXCEPT ![t] = l]
      BY <1>1 DEF NextVolume, At, Goto, filling, disk
    <2>2. DOMAIN pc' = Threads /\ DOMAIN fToCleanup' = Threads
      BY <2>1 DEF FileInv
    <2>3. \A u \in Threads : pc[u] \in Filling =>
                               pc'[u] = pc[u] /\ fToCleanup'[u] = fToCleanup[u]
      BY <2>1 DEF FileInv, Filling
    <2> QED BY <2>1, <2>2, <2>3, SameFiles
  <1>2. CASE CreateFile(t) /\ orphans' = orphans \ {Volume(t)} /\ UNCHANGED fToCleanup
    <2>1. PICK n : /\ entry' = [entry EXCEPT ![Volume(t)] = n]
                   /\ spaceSuckingFiles' = [spaceSuckingFiles EXCEPT
                                              ![t] = Append(spaceSuckingFiles[t], n)]
      BY <1>2 DEF CreateFile
    <2>2. pc' = [pc EXCEPT ![t] = "find"] /\ fToCleanup' = fToCleanup
          /\ orphans' = orphans \ {Volume(t)} /\ pc[t] = "create"
      BY <1>2 DEF CreateFile, Goto, At
    <2>3. \A u \in Threads : spaceSuckingFiles'[u] # <<>> => pc'[u] \in Filling
      BY <2>1, <2>2 DEF FileInv, Filling
    <2>4. \A u : Volume(u)' = Volume(u)
      BY <2>2 DEF Volume
    <2>5. ASSUME NEW d \in Devices PROVE Named(d)'
      <3>1. CASE d = Volume(t)
        BY <2>2, <2>4, <3>1 DEF FileInv, Named
      <3>2. CASE d # Volume(t)
        <4>1. entry'[d] = entry[d] /\ (d \in orphans' <=> d \in orphans)
          BY <2>1, <2>2, <3>2 DEF FileInv
        <4> QED BY <2>2, <2>4, <3>2, <4>1 DEF FileInv, Named
      <3> QED BY <3>1, <3>2
    <2> QED BY <2>1, <2>2, <2>3, <2>5 DEF FileInv
  <1>3. CASE /\ CreateFails(t) \/ LastFile(t) \/ WriteToFile(t)
             /\ UNCHANGED <<fToCleanup, orphans>>
    <2>1. /\ pc[t] \in {"create", "write"}
          /\ \E a \in Filling : pc' = [pc EXCEPT ![t] = a]
      BY <1>3 DEF CreateFails, LastFile, WriteToFile, Stop, Goto, At, Filling
    <2>2. UNCHANGED <<spaceSuckingFiles, entry, orphans, fToCleanup>>
      BY <1>3 DEF CreateFails, LastFile, WriteToFile, disk
    <2> QED BY <2>1, <2>2, StaysFilling
  <1>4. CASE FindEntry(t) /\ UNCHANGED <<fToCleanup, orphans>>
    <2>1. /\ pc[t] = "find" /\ UNCHANGED <<spaceSuckingFiles, entry, orphans, fToCleanup>>
          /\ entry[Volume(t)] = NoFile => pc' = [pc EXCEPT ![t] = "write"]
          /\ entry[Volume(t)] # NoFile => pc' = [pc EXCEPT ![t] = "remove"]
      BY <1>4 DEF FindEntry, At, Goto, filling, disk
    <2>2. CASE entry[Volume(t)] # NoFile
      BY <2>1, <2>2, StaysFilling DEF Filling
    <2>3. CASE entry[Volume(t)] = NoFile
      BY <2>1, <2>3, StaysFilling DEF Filling
    <2> QED BY <2>2, <2>3
  <1>5. CASE RemoveEntry(t) /\ UNCHANGED <<fToCleanup, orphans>>
    <2>1. /\ pc' = [pc EXCEPT ![t] = "write"] /\ UNCHANGED <<spaceSuckingFiles, orphans, fToCleanup>>
          /\ entry' = [entry EXCEPT ![Volume(t)] = NoFile]
      BY <1>5 DEF RemoveEntry, Goto, filling
    <2>2. \A u \in Threads : spaceSuckingFiles'[u] # <<>> => pc'[u] \in Filling
      BY <2>1 DEF FileInv, Filling
    <2>3. \A u : Volume(u)' = Volume(u)
      BY <2>1 DEF Volume
    <2>4. ASSUME NEW d \in Devices PROVE Named(d)'
      <3>1. CASE d = Volume(t)
        BY <2>1, <3>1 DEF FileInv, Named
      <3>2. CASE d # Volume(t)
        BY <2>1, <2>3, <3>2 DEF FileInv, Named
      <3> QED BY <3>1, <3>2
    <2> QED BY <2>1, <2>2, <2>4 DEF FileInv
  <1>6. CASE DeleteFiles(t) /\ UNCHANGED orphans
    <2>1. /\ pc[t] = "delete" /\ UNCHANGED <<entry, orphans>>
          /\ spaceSuckingFiles' = [spaceSuckingFiles EXCEPT ![t] = <<>>]
          /\ \E a : pc' = [pc EXCEPT ![t] = a]
          /\ \E l : fToCleanup' = [fToCleanup EXCEPT ![t] = l]
      BY <1>6 DEF DeleteFiles, At, Goto, disk
    <2>2. \A u \in Threads \ {t} : /\ pc'[u] = pc[u] /\ fToCleanup'[u] = fToCleanup[u]
                                   /\ spaceSuckingFiles'[u] = spaceSuckingFiles[u]
      BY <2>1 DEF FileInv
    <2>3. spaceSuckingFiles'[t] = <<>> /\ DOMAIN pc' = Threads /\ DOMAIN fToCleanup' = Threads
          /\ DOMAIN spaceSuckingFiles' = Threads
      BY <2>1 DEF FileInv
    <2>4. ASSUME NEW d \in Devices PROVE Named(d)'
      <3> SUFFICES ASSUME entry[d] # NoFile, d \notin orphans
                   PROVE  \E u \in Threads : pc'[u] \in {"find", "remove"} /\ Volume(u)' = d
        BY <2>1 DEF Named
      <3>1. PICK u \in Threads : pc[u] \in {"find", "remove"} /\ Volume(u) = d
        BY DEF FileInv, Named
      <3>2. u # t
        BY <2>1, <3>1
      <3>3. Volume(u)' = d
        BY <2>2, <3>1, <3>2 DEF Volume
      <3> QED BY <2>2, <3>1, <3>2, <3>3
    <2> QED BY <2>1, <2>2, <2>3, <2>4 DEF FileInv
  <1> QED BY <1>1, <1>2, <1>3, <1>4, <1>5, <1>6 DEF Fill

LEMMA FileStep == FileInv /\ [Next]_vars => FileInv'
  <1> SUFFICES ASSUME FileInv, [Next]_vars PROVE FileInv'
    OBVIOUS
  <1>1. CASE UNCHANGED <<pc, fToCleanup, spaceSuckingFiles, entry, orphans>>
    BY <1>1, SameFiles DEF FileInv
  <1>2. CASE ShrinkDisks /\ UNCHANGED <<fToCleanup, filling, disk, history>>
    <2>1. pc' = pc \/ \E t \in Threads : pc[t] = "none" /\ pc' = [pc EXCEPT ![t] = "ask"]
      BY <1>2 DEF ShrinkDisks
    <2>2. DOMAIN pc' = Threads /\ \A t \in Threads : pc[t] \in Filling => pc'[t] = pc[t]
      BY <2>1 DEF FileInv, Filling
    <2> QED BY <1>2, <2>2, SameFiles DEF FileInv, filling, disk, history
  <1>3. ASSUME NEW t \in Threads, Talk(t), UNCHANGED <<filling, disk, history>> PROVE FileInv'
    BY <1>3, TalkKeepsFiles
  <1>4. ASSUME NEW t \in Threads, Fill(t) PROVE FileInv'
    BY <1>4, FillKeepsFiles
  <1>5. CASE Deskbar
    <2>1. /\ pc' = [t \in Threads |-> "none"]
          /\ spaceSuckingFiles' = [t \in Threads |-> <<>>]
          /\ fToCleanup' = [t \in Threads |-> <<>>]
          /\ entry' = entry /\ orphans' = {d \in Devices : entry[d] # NoFile}
      BY <1>5 DEF Deskbar, Idle, disk
    <2> QED BY <2>1 DEF FileInv, Named
  <1> QED BY <1>1, <1>2, <1>3, <1>4, <1>5 DEF Next, vars, filling, disk, history

LEMMA FileInit == Init => FileInv
  BY DEF Init, FileInv, Named

\* No file stays on a volume: a name is there only while a thread is about to take it
\* away, or since the Deskbar ended, and a file without a name only while its clean-up
\* is at that volume; whatever ends the filling, and if two threads fill one volume.
THEOREM NothingIsLeft == Spec => []NothingLeftBehind
  <1>1. FileInv => NothingLeftBehind
    <2> SUFFICES ASSUME FileInv, NEW d \in Devices, d \notin orphans
                 PROVE  /\ entry[d] # NoFile =>
                             \E t \in Threads : pc[t] \in {"find", "remove"} /\ Volume(t) = d
                        /\ Living(d) # {} =>
                             \E t \in Threads : pc[t] \in Filling /\ Volume(t) = d
      BY DEF NothingLeftBehind
    <2>1. entry[d] # NoFile =>
            \E t \in Threads : pc[t] \in {"find", "remove"} /\ Volume(t) = d
      BY DEF FileInv, Named
    <2>2. ASSUME entry[d] # NoFile
          PROVE  \E t \in Threads : pc[t] \in Filling /\ Volume(t) = d
      BY <2>1, <2>2 DEF Filling
    <2>3. ASSUME Open(d) # {}
          PROVE  \E t \in Threads : pc[t] \in Filling /\ Volume(t) = d
      <3>1. PICK t \in Threads : Volume(t) = d /\ Range(spaceSuckingFiles[t]) # {}
        BY <2>3 DEF Open
      <3>2. spaceSuckingFiles[t] # <<>>
        BY <3>1 DEF Range
      <3> QED BY <3>1, <3>2 DEF FileInv
    <2>4. Living(d) # {} => entry[d] # NoFile \/ Open(d) # {}
      BY DEF Living
    <2> QED BY <2>1, <2>2, <2>3, <2>4
  <1> QED BY <1>1, FileInit, FileStep, PTL DEF Spec

-----------------------------------------------------------------------------
(* The lists of volumes.                                                   *)

\* A list of volumes, each there once.
ListOnce(l) == l \in Seq(Devices) /\ IsInjective(l)

LEMMA NothingListed ==
  /\ ListOnce(<<>>) /\ Len(<<>>) = 0 /\ Range(<<>>) = {}
  <1>1. <<>> \in Seq(Devices) /\ Len(<<>>) = 0 /\ DOMAIN <<>> = {}
    BY EmptySeq
  <1> QED BY <1>1 DEF ListOnce, IsInjective, Range

LEMMA ListedLater ==
  ASSUME NEW l, ListOnce(l), NEW d \in Devices, d \notin Range(l)
  PROVE  ListOnce(Append(l, d)) /\ Range(Append(l, d)) = Range(l) \cup {d}
  <1>1. /\ Append(l, d) \in Seq(Devices) /\ Len(Append(l, d)) = Len(l) + 1 /\ Len(l) \in Nat
        /\ \A i \in 1 .. Len(l) : Append(l, d)[i] = l[i]
        /\ Append(l, d)[Len(l) + 1] = d
        /\ DOMAIN l = 1 .. Len(l) /\ DOMAIN Append(l, d) = 1 .. Len(Append(l, d))
    BY AppendProperties, LenProperties DEF ListOnce
  <1>2. DOMAIN Append(l, d) = DOMAIN l \cup {Len(l) + 1} /\ Len(l) + 1 \notin DOMAIN l
    BY <1>1
  <1>3. \A i \in DOMAIN l : l[i] # d
    BY DEF Range
  <1>4. IsInjective(Append(l, d))
    BY <1>1, <1>2, <1>3 DEF ListOnce, IsInjective
  <1> QED BY <1>1, <1>2, <1>4 DEF ListOnce, Range

LEMMA ListedBehind ==
  ASSUME NEW l, ListOnce(l), l # <<>>
  PROVE  ListOnce(Tail(l)) /\ Head(l) \in Devices
  <1>1. /\ Tail(l) \in Seq(Devices) /\ Len(Tail(l)) = Len(l) - 1 /\ Len(l) \in Nat \ {0}
        /\ \A i \in 1 .. Len(Tail(l)) : Tail(l)[i] = l[i + 1]
        /\ DOMAIN l = 1 .. Len(l) /\ DOMAIN Tail(l) = 1 .. Len(Tail(l))
        /\ Head(l) \in Devices
    BY HeadTailProperties, LenProperties, EmptySeq DEF ListOnce
  <1>2. ASSUME NEW i \in DOMAIN Tail(l), NEW j \in DOMAIN Tail(l), Tail(l)[i] = Tail(l)[j]
        PROVE  i = j
    <2>1. i \in Nat /\ j \in Nat /\ i + 1 \in DOMAIN l /\ j + 1 \in DOMAIN l /\ l[i + 1] = l[j + 1]
      BY <1>1, <1>2
    <2>2. i + 1 = j + 1
      BY <2>1 DEF ListOnce, IsInjective
    <2> QED BY <2>1, <2>2
  <1> QED BY <1>1, <1>2 DEF ListOnce, IsInjective

\* A list without the item at place k.
LEMMA Dropped ==
  ASSUME NEW S, NEW s \in Seq(S), NEW k \in DOMAIN s
  PROVE  /\ RemoveAt(s, k) \in Seq(S)
         /\ Len(RemoveAt(s, k)) = Len(s) - 1
         /\ \A j \in 1 .. Len(s) - 1 : RemoveAt(s, k)[j] = IF j < k THEN s[j] ELSE s[j + 1]
  <1> DEFINE before == SubSeq(s, 1, k - 1)
             behind == SubSeq(s, k + 1, Len(s))
  <1>1. /\ before \in Seq(S) /\ Len(before) = k - 1
        /\ \A j \in 1 .. k - 1 : before[j] = s[j]
    BY SubSeqProperties
  <1>2. /\ behind \in Seq(S) /\ Len(behind) = Len(s) - k
        /\ \A j \in 1 .. Len(s) - k : behind[j] = s[j + k]
    BY SubSeqProperties
  <1>3. Len(s) \in Nat /\ k \in 1 .. Len(s) /\ RemoveAt(s, k) = before \o behind
    BY LenProperties DEF RemoveAt
  <1> HIDE DEF before, behind
  <1>4. /\ before \o behind \in Seq(S) /\ Len(before \o behind) = Len(before) + Len(behind)
        /\ \A j \in 1 .. Len(before) + Len(behind) :
             (before \o behind)[j] = IF j <= Len(before) THEN before[j] ELSE behind[j - Len(before)]
    BY <1>1, <1>2, ConcatProperties
  <1>5. ASSUME NEW j \in 1 .. Len(s) - 1
        PROVE  (before \o behind)[j] = IF j < k THEN s[j] ELSE s[j + 1]
    <2>1. CASE j < k
      BY <1>1, <1>2, <1>3, <1>4, <2>1
    <2>2. CASE ~ (j < k)
      <3>1. /\ j - (k - 1) \in 1 .. Len(s) - k /\ (j - (k - 1)) + k = j + 1
            /\ j \in 1 .. Len(before) + Len(behind) /\ ~ (j <= Len(before))
            /\ j - Len(before) = j - (k - 1)
        BY <1>1, <1>2, <1>3, <2>2
      <3>2. (before \o behind)[j] = behind[j - (k - 1)]
        BY <1>4, <3>1
      <3> QED BY <1>2, <2>2, <3>1, <3>2
    <2> QED BY <2>1, <2>2
  <1> QED BY <1>1, <1>2, <1>3, <1>4, <1>5

\* Taking a volume out of the list takes out its only item.
LEMMA ListedNoMore ==
  ASSUME NEW l, ListOnce(l), NEW d
  PROVE  ListOnce(RemoveFirst(l, d)) /\ Range(RemoveFirst(l, d)) = Range(l) \ {d}
  <1>1. l \in Seq(Devices) /\ Len(l) \in Nat /\ DOMAIN l = 1 .. Len(l)
    BY LenProperties DEF ListOnce
  <1>2. CASE d \notin Range(l)
    <2>1. ~ \E i \in 1 .. Len(l) : l[i] = d
      BY <1>1, <1>2 DEF Range
    <2>2. RemoveFirst(l, d) = l
      BY <2>1, Zenon DEF RemoveFirst
    <2> QED BY <1>2, <2>2
  <1>3. CASE d \in Range(l)
    <2>1. PICK k \in 1 .. Len(l) : l[k] = d
      BY <1>1, <1>3 DEF Range
    <2>2. {i \in 1 .. Len(l) : l[i] = d} = {k}
      BY <1>1, <2>1 DEF ListOnce, IsInjective
    <2>3. Min({k}) = k
      BY <2>1 DEF Min
    <2> DEFINE rest == RemoveAt(l, k)
    <2>4. RemoveFirst(l, d) = rest
      BY <2>1, <2>2, <2>3, Zenon DEF RemoveFirst, SelectInSeq
    <2>5. /\ rest \in Seq(Devices) /\ DOMAIN rest = 1 .. Len(l) - 1
          /\ \A i \in 1 .. Len(l) - 1 : rest[i] = IF i < k THEN l[i] ELSE l[i + 1]
      BY <1>1, <2>1, Dropped, LenProperties
    <2> HIDE DEF rest
    <2> DEFINE place(n) == IF n < k THEN n ELSE n + 1
    <2>6. \A n \in DOMAIN rest : n \in Nat /\ place(n) \in DOMAIN l \ {k} /\ rest[n] = l[place(n)]
      BY <1>1, <2>1, <2>5
    <2>7. ASSUME NEW n \in DOMAIN l \ {k} PROVE \E i \in DOMAIN rest : rest[i] = l[n]
      <3>1. CASE n < k
        BY <1>1, <2>1, <2>5, <3>1
      <3>2. CASE n > k
        <4>1. n - 1 \in DOMAIN rest /\ rest[n - 1] = l[n]
          BY <1>1, <2>1, <2>5, <3>2
        <4> QED BY <4>1
      <3> QED BY <1>1, <2>1, <3>1, <3>2
    <2>8. ASSUME NEW i \in DOMAIN rest, NEW j \in DOMAIN rest, rest[i] = rest[j]
          PROVE  i = j
      <3>1. place(i) = place(j)
        BY <2>6, <2>8 DEF ListOnce, IsInjective
      <3> QED BY <2>1, <2>6, <3>1
    <2>9. \A n \in DOMAIN l : l[n] = d <=> n = k
      BY <1>1, <2>1 DEF ListOnce, IsInjective
    <2> HIDE DEF place
    <2>10. Range(rest) = Range(l) \ {d}
      BY <2>6, <2>7, <2>9 DEF Range
    <2> QED BY <2>4, <2>5, <2>8, <2>10 DEF ListOnce, IsInjective
  <1> QED BY <1>2, <1>3

\* The volumes there are, in some order.
LEMMA AllListed ==
  ASSUME NEW S \in SUBSET Devices
  PROVE  ListOnce(SetToSeq(S)) /\ Range(SetToSeq(S)) = S
  <1>1. IsFiniteSet(S) /\ Cardinality(S) \in Nat
    BY CleanupAssumption, FS_Subset, FS_CardinalityType
  <1> DEFINE n == Cardinality(S)
  <1>2. PICK f : f \in Bijection(1 .. n, S)
    BY <1>1, FS_CardinalityType DEF ExistsBijection
  <1>3. \E g \in [1 .. n -> S] : IsInjective(g)
    BY <1>2 DEF Bijection, Injection
  <1> DEFINE l == SetToSeq(S)
  <1>4. l \in [1 .. n -> S] /\ IsInjective(l)
    BY <1>3 DEF SetToSeq
  <1>5. l \in Injection(1 .. n, S)
    BY <1>4 DEF Injection
  <1>6. Cardinality(1 .. n) = n
    BY <1>1, FS_Interval
  <1>7. l \in Surjection(1 .. n, S)
    BY ONLY <1>1, <1>5, <1>6, FS_Injection
  <1>8. l \in Seq(Devices)
    BY <1>1, <1>4, SeqDef
  <1>9. Range(l) = S
    BY <1>4, <1>7 DEF Surjection, Range
  <1> QED BY <1>4, <1>8, <1>9 DEF ListOnce

\* The i-th of the selected items is one of them, and each of them is the i-th for one i.
LEMMA SelectionInOrder ==
  ASSUME NEW t, ListOnce(fVolumesList[t])
  PROVE  LET n == Cardinality(SelectedItems(t))
             l == fVolumesList[t]
             r == [i \in 1 .. n |-> l[CurrentSelection(t, i)]]
         IN  ListOnce(r) /\ Range(r) = {l[k] : k \in SelectedItems(t)} /\ Len(r) = n /\ n \in Nat
  <1> DEFINE P == SelectedItems(t)
             l == fVolumesList[t]
             n == Cardinality(P)
             upTo(k) == {j \in P : j <= k}
             count == [k \in P |-> Cardinality(upTo(k))]
             place(i) == CurrentSelection(t, i)
             r == [i \in 1 .. n |-> l[place(i)]]
  <1>1. Len(l) \in Nat /\ DOMAIN l = 1 .. Len(l) /\ l \in [1 .. Len(l) -> Devices]
    BY LenProperties DEF ListOnce
  <1>2. IsFiniteSet(P) /\ n \in Nat /\ P \subseteq 1 .. Len(l) /\ P \subseteq Nat
    <2>1. P \subseteq 1 .. Len(l) /\ P \subseteq Nat
      BY <1>1 DEF SelectedItems
    <2> HIDE DEF P
    <2>2. IsFiniteSet(P)
      <3>1. IsFiniteSet(1 .. Len(l))
        BY <1>1, FS_Interval
      <3> QED BY <2>1, <3>1, FS_Subset
    <2> QED BY <2>1, <2>2, FS_CardinalityType
  <1>3. ASSUME NEW k \in P
        PROVE  IsFiniteSet(upTo(k)) /\ Cardinality(upTo(k)) \in 1 .. n
    <2>1. upTo(k) \in SUBSET P /\ k \in upTo(k)
      BY <1>2
    <2>2. IsFiniteSet(upTo(k)) /\ Cardinality(upTo(k)) <= n /\ Cardinality(upTo(k)) \in Nat
      BY <1>2, <2>1, FS_Subset, FS_CardinalityType
    <2>3. Cardinality(upTo(k)) # 0
      BY <2>1, <2>2, FS_EmptySet
    <2> QED BY <1>2, <2>2, <2>3
  <1>4. ASSUME NEW k \in P, NEW m \in P, k < m
        PROVE  Cardinality(upTo(k)) # Cardinality(upTo(m))
    <2>1. upTo(k) \in SUBSET upTo(m) /\ m \in upTo(m) /\ m \notin upTo(k)
      BY <1>2, <1>4
    <2>2. Cardinality(upTo(m)) = Cardinality(upTo(k)) => upTo(m) = upTo(k)
      BY <1>3, <2>1, FS_Subset
    <2> QED BY <2>1, <2>2
  <1> HIDE DEF upTo
  <1>5. count \in Injection(P, 1 .. n)
    <2>1. count \in [P -> 1 .. n]
      BY <1>3
    <2>2. \A k, m \in P : k < m \/ m < k \/ k = m
      BY <1>2
    <2>3. IsInjective(count)
      BY <1>4, <2>2 DEF IsInjective
    <2> QED BY <2>1, <2>3 DEF Injection
  <1>6. count \in Surjection(P, 1 .. n)
    <2>1. IsFiniteSet(1 .. n) /\ Cardinality(1 .. n) = n
      BY <1>2, FS_Interval
    <2> QED BY <1>5, <2>1, FS_Injection
  <1>7. ASSUME NEW i \in 1 .. n PROVE place(i) \in P /\ count[place(i)] = i
    <2>1. \E k \in P : Cardinality(upTo(k)) = i
      BY <1>6 DEF Surjection
    <2>2. place(i) \in P /\ Cardinality(upTo(place(i))) = i
      BY <2>1 DEF CurrentSelection, upTo
    <2> QED BY <2>2
  <1>8. ASSUME NEW k \in P PROVE count[k] \in 1 .. n /\ place(count[k]) = k
    <2>1. count[k] \in 1 .. n
      BY <1>5 DEF Injection
    <2> QED BY <1>5, <1>7, <2>1 DEF Injection, IsInjective
  <1> HIDE DEF P, n, count, place
  <1>9. r \in [1 .. n -> Devices]
    BY <1>1, <1>2, <1>7
  <1>10. r \in Seq(Devices) /\ Len(r) = n
    <2>1. r \in Seq(Devices)
      BY <1>2, <1>9, SeqDef
    <2> QED BY <1>2, <1>9, <2>1, LenProperties
  <1>11. IsInjective(r)
    <2> SUFFICES ASSUME NEW i \in 1 .. n, NEW j \in 1 .. n, l[place(i)] = l[place(j)]
                 PROVE  i = j
      BY DEF IsInjective
    <2>1. place(i) \in DOMAIN l /\ place(j) \in DOMAIN l
      BY <1>1, <1>2, <1>7
    <2>2. place(i) = place(j)
      BY <2>1 DEF ListOnce, IsInjective
    <2> QED BY <1>7, <2>2
  <1>12. Range(r) = {l[k] : k \in P}
    <2>1. \A i \in 1 .. n : r[i] \in {l[k] : k \in P}
      BY <1>7
    <2>2. \A k \in P : l[k] = r[count[k]] /\ count[k] \in 1 .. n
      BY <1>8
    <2> QED BY <2>1, <2>2 DEF Range
  <1> QED BY <1>2, <1>10, <1>11, <1>12 DEF ListOnce, P, n, place

\* There is a node left for a file of a volume whose name is free, while no thread
\* has more than MAX_FILES files.
LEMMA NodeLeft ==
  ASSUME NEW files, files = spaceSuckingFiles,
         \A t \in Threads : files[t] \in Seq(Nodes) /\ Len(files[t]) <= MAX_FILES,
         NEW v \in Devices, entry[v] = NoFile
  PROVE  \E n \in Nodes : n \notin UNION {Living(d) : d \in Devices}
  <1> DEFINE places == {p \in Threads \X (1 .. MAX_FILES) : p[2] <= Len(files[p[1]])}
             opened == [p \in places |-> files[p[1]][p[2]]]
             O == {opened[p] : p \in places}
             named == [d \in Devices \ {v} |-> entry[d]]
             E == {named[d] : d \in Devices \ {v}}
             T == Cardinality(Threads)
             D == Cardinality(Devices)
  <1>1. /\ MAX_FILES \in Nat /\ IsFiniteSet(Threads) /\ IsFiniteSet(Devices)
        /\ T \in Nat /\ D \in Nat /\ MAX_FILES * T \in Nat
    BY CleanupAssumption, FS_CardinalityType
  <1>2. IsFiniteSet(O) /\ Cardinality(O) \in Nat /\ Cardinality(O) <= MAX_FILES * T
    <2>1. /\ IsFiniteSet(Threads \X (1 .. MAX_FILES))
          /\ Cardinality(Threads \X (1 .. MAX_FILES)) = T * MAX_FILES
      <3>1. IsFiniteSet(1 .. MAX_FILES) /\ Cardinality(1 .. MAX_FILES) = MAX_FILES
        BY <1>1, FS_Interval
      <3> QED BY <1>1, <3>1, FS_Product
    <2>2. /\ IsFiniteSet(places) /\ Cardinality(places) <= T * MAX_FILES /\ Cardinality(places) \in Nat
      BY <2>1, FS_Subset, FS_CardinalityType
    <2> HIDE DEF places
    <2>3. opened \in Surjection(places, O)
      BY DEF Surjection
    <2>4. IsFiniteSet(O) /\ Cardinality(O) <= Cardinality(places)
      BY <2>2, <2>3, FS_Surjection
    <2>5. Cardinality(O) \in Nat
      BY <2>4, FS_CardinalityType
    <2>6. T * MAX_FILES = MAX_FILES * T
      BY <1>1
    <2> HIDE DEF O, T
    <2> QED BY <1>1, <2>2, <2>4, <2>5, <2>6
  <1>3. IsFiniteSet(E) /\ Cardinality(E) \in Nat /\ Cardinality(E) <= D - 1
    <2>1. IsFiniteSet(Devices \ {v}) /\ Cardinality(Devices \ {v}) = D - 1
      BY <1>1, FS_RemoveElement
    <2>2. named \in Surjection(Devices \ {v}, E)
      BY DEF Surjection
    <2>3. IsFiniteSet(E) /\ Cardinality(E) <= Cardinality(Devices \ {v})
      BY <2>1, <2>2, FS_Surjection
    <2> QED BY <2>1, <2>3, FS_CardinalityType
  <1>4. UNION {Living(d) : d \in Devices} \subseteq O \cup E
    <2> SUFFICES ASSUME NEW d \in Devices, NEW n \in Living(d) PROVE n \in O \cup E
      OBVIOUS
    <2>1. CASE n \in Open(d)
      <3>1. PICK t \in Threads : n \in Range(files[t])
        BY <2>1 DEF Open
      <3>2. PICK i \in DOMAIN files[t] : n = files[t][i]
        BY <3>1 DEF Range
      <3>3. i \in 1 .. Len(files[t]) /\ Len(files[t]) \in Nat
        BY <3>2, LenProperties
      <3>4. <<t, i>> \in places
        BY <1>1, <3>3
      <3>5. opened[<<t, i>>] = n
        BY <3>2, <3>4
      <3> QED BY <3>4, <3>5
    <2>2. CASE n \in {entry[d]} \ {NoFile}
      BY <2>2
    <2> QED BY <2>1, <2>2 DEF Living
  <1> HIDE DEF O, E, T, D
  <1>5. IsFiniteSet(O \cup E) /\ Cardinality(O \cup E) \in Nat /\ Cardinality(O \cup E) <= MAX_FILES * T + D - 1
    <2>1. /\ IsFiniteSet(O \cup E) /\ Cardinality(O \cup E) = Cardinality(O) + Cardinality(E) - Cardinality(O \cap E)
          /\ Cardinality(O \cap E) \in Nat
      BY <1>2, <1>3, FS_Union, FS_Intersection, FS_CardinalityType
    <2>2. Cardinality(O \cup E) \in Nat
      BY <2>1, FS_CardinalityType
    <2> QED BY <1>1, <1>2, <1>3, <2>1, <2>2
  <1>6. Cardinality(Nodes) = MAX_FILES * T + D
    <2>1. Nodes = 1 .. MAX_FILES * T + D /\ MAX_FILES * T + D \in Nat
      BY <1>1 DEF Nodes, T, D
    <2> QED BY <2>1, FS_Interval
  <1>7. ASSUME Nodes \subseteq O \cup E PROVE FALSE
    <2>1. Cardinality(Nodes) <= Cardinality(O \cup E)
      BY <1>5, <1>7, FS_Subset
    <2> QED BY <1>1, <1>5, <1>6, <2>1
  <1> QED BY <1>4, <1>7

-----------------------------------------------------------------------------
(* The selection windows.                                                  *)

Notices == [mounted : BOOLEAN, device : Devices]
DeviceStates == {"absent", "mounted", "gone"}

\* A selection window, whose notices n wait: what it lists or is told of has been
\* mounted, and it is told once of each device, and of none it lists, that it is mounted.
Window(l, s, n, devices) ==
  /\ ListOnce(l) /\ s \subseteq Range(l)
  /\ n \in Seq(Notices)
  /\ \A d \in Range(l) : devices[d] # "absent"
  /\ \A i \in DOMAIN n :
       /\ devices[n[i].device] # "absent"
       /\ n[i].mounted => n[i].device \notin Range(l)
       /\ \A j \in DOMAIN n :
            n[i].mounted /\ n[j].mounted /\ n[i].device = n[j].device => i = j

WindowInv ==
  /\ device \in [Devices -> DeviceStates]
  /\ fVolumesList \in [Threads -> Seq(Devices)] /\ selected \in [Threads -> SUBSET Devices]
  /\ notices \in [Threads -> Seq(Notices)]
  /\ \A t \in Threads : Window(fVolumesList[t], selected[t], notices[t], device)

LEMMA NoWindow == ASSUME NEW devices PROVE Window(<<>>, {}, <<>>, devices)
  <1>1. <<>> \in Seq(Notices) /\ DOMAIN <<>> = {}
    BY EmptySeq
  <1> QED BY <1>1, NothingListed DEF Window

\* A window whose notices are thrown away.
LEMMA WindowForgets ==
  ASSUME NEW l, NEW s, NEW n, NEW devices, NEW later, Window(l, s, n, devices),
         \A d \in Devices : devices[d] # "absent" => later[d] # "absent"
  PROVE  Window(l, s, <<>>, later)
  <1>1. <<>> \in Seq(Notices) /\ DOMAIN <<>> = {}
    BY EmptySeq
  <1>2. Range(l) \subseteq Devices
    BY RangeOfSeq DEF Window, ListOnce
  <1> QED BY <1>1, <1>2 DEF Window

\* A window is told that a device is mounted, which it was not yet, or unmounted.
LEMMA WindowIsTold ==
  ASSUME NEW l, NEW s, NEW n, NEW devices, NEW later, Window(l, s, n, devices),
         \A d \in Devices : devices[d] # "absent" => later[d] # "absent",
         NEW m \in Notices, later[m.device] # "absent",
         m.mounted => devices[m.device] = "absent"
  PROVE  Window(l, s, Append(n, m), later)
  <1> DEFINE more == Append(n, m)
  <1>1. /\ n \in Seq(Notices) /\ Len(n) \in Nat /\ DOMAIN n = 1 .. Len(n)
        /\ \A i \in DOMAIN n : n[i] \in Notices
    BY LenProperties, ElementOfSeq DEF Window
  <1>2. /\ more \in Seq(Notices) /\ Len(more) = Len(n) + 1 /\ DOMAIN more = 1 .. Len(more)
        /\ \A i \in 1 .. Len(n) : more[i] = n[i]
        /\ more[Len(n) + 1] = m
    BY <1>1, AppendProperties, LenProperties
  <1> HIDE DEF more
  <1>3. DOMAIN more = DOMAIN n \cup {Len(n) + 1} /\ Len(n) + 1 \notin DOMAIN n
    BY <1>1, <1>2
  <1>4. Range(l) \subseteq Devices
    BY RangeOfSeq DEF Window, ListOnce
  <1>5. \A d \in Range(l) : later[d] # "absent"
    BY <1>4 DEF Window
  <1>6. \A i \in DOMAIN n : n[i].device \in Devices /\ later[n[i].device] # "absent"
    BY <1>1 DEF Window, Notices
  <1>7. m.mounted => m.device \notin Range(l) /\ \A i \in DOMAIN n : n[i].device # m.device
    BY DEF Window
  <1>8. ASSUME NEW i \in DOMAIN more
        PROVE  /\ later[more[i].device] # "absent"
               /\ more[i].mounted => more[i].device \notin Range(l)
               /\ \A j \in DOMAIN more :
                    more[i].mounted /\ more[j].mounted /\ more[i].device = more[j].device => i = j
    <2>1. CASE i \in DOMAIN n
      BY <1>1, <1>2, <1>3, <1>6, <1>7, <2>1 DEF Window
    <2>2. CASE i = Len(n) + 1
      BY <1>1, <1>2, <1>3, <1>7, <2>2
    <2> QED BY <1>3, <2>1, <2>2
  <1> QED BY <1>2, <1>5, <1>8 DEF Window, more

\* A window handles the first of its notices.
LEMMA WindowHears ==
  ASSUME NEW l, NEW s, NEW n, NEW devices, Window(l, s, n, devices), n # <<>>
  PROVE  LET d == Head(n).device
         IN  /\ d \in Devices
             /\ ~ Head(n).mounted => Window(RemoveFirst(l, d), s \ {d}, Tail(n), devices)
             /\ Head(n).mounted => /\ Window(Append(l, d), s, Tail(n), devices)
                                   /\ Window(l, s, Tail(n), devices)
  <1> DEFINE d == Head(n).device
             rest == Tail(n)
  <1>1. /\ n \in Seq(Notices) /\ rest \in Seq(Notices) /\ Head(n) \in Notices /\ Head(n) = n[1]
        /\ Len(n) \in Nat \ {0} /\ Len(rest) = Len(n) - 1
        /\ \A i \in 1 .. Len(rest) : rest[i] = n[i + 1]
        /\ DOMAIN n = 1 .. Len(n) /\ DOMAIN rest = 1 .. Len(rest)
    BY HeadTailProperties, EmptySeq, LenProperties DEF Window
  <1>2. \A i \in DOMAIN rest : i \in Nat /\ i + 1 \in DOMAIN n /\ i + 1 # 1 /\ rest[i] = n[i + 1]
    BY <1>1
  <1>3. 1 \in DOMAIN n /\ d \in Devices /\ devices[d] # "absent"
    BY <1>1 DEF Window, Notices
  <1> HIDE DEF rest
  <1>4. ASSUME NEW i \in DOMAIN rest
        PROVE  /\ devices[rest[i].device] # "absent"
               /\ rest[i].mounted => rest[i].device \notin Range(l)
               /\ rest[i].mounted /\ Head(n).mounted => rest[i].device # d
               /\ \A j \in DOMAIN rest :
                    rest[i].mounted /\ rest[j].mounted /\ rest[i].device = rest[j].device => i = j
    <2>1. /\ devices[rest[i].device] # "absent"
          /\ rest[i].mounted => rest[i].device \notin Range(l)
      BY <1>2 DEF Window
    <2>2. rest[i].mounted /\ Head(n).mounted => rest[i].device # d
      BY <1>1, <1>2, <1>3 DEF Window
    <2>3. ASSUME NEW j \in DOMAIN rest,
                 rest[i].mounted, rest[j].mounted, rest[i].device = rest[j].device
          PROVE  i = j
      <3>1. i + 1 = j + 1
        BY <1>2, <2>3 DEF Window
      <3> QED BY <1>2, <3>1
    <2> QED BY <2>1, <2>2, <2>3
  <1>5. Window(l, s, rest, devices)
    BY <1>1, <1>4 DEF Window, rest
  <1>6. ASSUME Head(n).mounted PROVE Window(Append(l, d), s, rest, devices)
    <2>1. d \notin Range(l)
      BY <1>1, <1>3, <1>6 DEF Window
    <2>2. ListOnce(Append(l, d)) /\ Range(Append(l, d)) = Range(l) \cup {d}
      BY <1>3, <2>1, ListedLater DEF Window
    <2> QED BY <1>1, <1>3, <1>4, <1>6, <2>2 DEF Window, rest
  <1>7. ASSUME ~ Head(n).mounted PROVE Window(RemoveFirst(l, d), s \ {d}, rest, devices)
    <2>1. ListOnce(RemoveFirst(l, d)) /\ Range(RemoveFirst(l, d)) = Range(l) \ {d}
      BY ListedNoMore DEF Window
    <2> QED BY <1>1, <1>4, <2>1 DEF Window, rest
  <1> QED BY <1>3, <1>5, <1>6, <1>7 DEF rest

\* What happens in the window of one thread.
LEMMA OneWindow ==
  ASSUME WindowInv, NEW t \in Threads, NEW l, NEW s, NEW n, Window(l, s, n, device),
         fVolumesList' = [fVolumesList EXCEPT ![t] = l], selected' = [selected EXCEPT ![t] = s],
         notices' = [notices EXCEPT ![t] = n], device' = device
  PROVE  WindowInv'
  <1>1. \A u \in Threads : Window(fVolumesList'[u], selected'[u], notices'[u], device)
    <2> TAKE u \in Threads
    <2>1. CASE u = t
      BY <2>1 DEF WindowInv
    <2>2. CASE u # t
      BY <2>2 DEF WindowInv
    <2> QED BY <2>1, <2>2
  <1>2. l \in Seq(Devices) /\ n \in Seq(Notices) /\ s \in SUBSET Devices
    BY RangeOfSeq DEF Window, ListOnce
  <1> QED BY <1>1, <1>2 DEF WindowInv

LEMMA WindowStays ==
  ASSUME WindowInv, UNCHANGED <<fVolumesList, selected, notices, device>>
  PROVE  WindowInv'
  BY DEF WindowInv

LEMMA TalkKeepsWindows ==
  ASSUME WindowInv, NEW t \in Threads, Talk(t), device' = device
  PROVE  WindowInv'
  <1>1. Window(fVolumesList[t], selected[t], notices[t], device)
    BY DEF WindowInv
  <1>2. CASE UNCHANGED window
    BY <1>2, WindowStays DEF window
  <1>3. CASE Start(t)
    <2>1. Mounted \in SUBSET Devices
      BY DEF Mounted
    <2>2. Window(SetToSeq(Mounted), Mounted, <<>>, device)
      <3>1. <<>> \in Seq(Notices) /\ DOMAIN <<>> = {}
        BY EmptySeq
      <3>2. \A d \in Mounted : device[d] # "absent"
        BY DEF Mounted
      <3> QED BY <2>1, <3>1, <3>2, AllListed DEF Window
    <2>3. CASE /\ fVolumesList' = [fVolumesList EXCEPT ![t] = SetToSeq(Mounted)]
               /\ selected' = [selected EXCEPT ![t] = Mounted]
               /\ notices' = [notices EXCEPT ![t] = <<>>]
      BY ONLY WindowInv, t \in Threads, device' = device, <2>2, <2>3, OneWindow
    <2> QED BY <1>2, <1>3, <2>3 DEF Start
  <1>4. CASE Select(t)
    <2>1. PICK d \in Range(fVolumesList[t]) :
            selected' = [selected EXCEPT ![t] = SymDiff(selected[t], {d})]
      BY <1>4 DEF Select
    <2>2. Window(fVolumesList[t], SymDiff(selected[t], {d}), notices[t], device)
      BY <1>1, <2>1 DEF Window, SymDiff
    <2>3. /\ fVolumesList' = [fVolumesList EXCEPT ![t] = fVolumesList[t]]
          /\ notices' = [notices EXCEPT ![t] = notices[t]]
      BY <1>4 DEF Select, WindowInv
    <2> QED BY <2>1, <2>2, <2>3, OneWindow
  <1>5. CASE DeviceNotice(t)
    <2> DEFINE n == notices[t]
               d == Head(n).device
    <2>1. n # <<>> /\ notices' = [notices EXCEPT ![t] = Tail(n)]
      BY <1>5 DEF DeviceNotice
    <2>2. /\ ~ Head(n).mounted => Window(RemoveFirst(fVolumesList[t], d), selected[t] \ {d}, Tail(n), device)
          /\ Head(n).mounted => /\ Window(Append(fVolumesList[t], d), selected[t], Tail(n), device)
                                /\ Window(fVolumesList[t], selected[t], Tail(n), device)
      BY <1>1, <2>1, WindowHears
    <2>3. CASE ~ Head(n).mounted
      <3>1. /\ fVolumesList' = [fVolumesList EXCEPT ![t] = RemoveFirst(fVolumesList[t], d)]
            /\ selected' = [selected EXCEPT ![t] = selected[t] \ {d}]
        BY <1>5, <2>3 DEF DeviceNotice
      <3> QED BY <2>1, <2>2, <2>3, <3>1, OneWindow
    <2>4. CASE Head(n).mounted
      <3>1. selected' = [selected EXCEPT ![t] = selected[t]]
        BY <1>5, <2>4 DEF DeviceNotice, WindowInv
      <3>2. CASE d \in Mounted
        <4>1. fVolumesList' = [fVolumesList EXCEPT ![t] = Append(fVolumesList[t], d)]
          BY <1>5, <2>4, <3>2 DEF DeviceNotice
        <4> QED BY <2>1, <2>2, <2>4, <3>1, <4>1, OneWindow
      <3>3. CASE d \notin Mounted
        <4>1. fVolumesList' = [fVolumesList EXCEPT ![t] = fVolumesList[t]]
          BY <1>5, <2>4, <3>3 DEF DeviceNotice
        <4> QED BY <2>1, <2>2, <2>4, <3>1, <4>1, OneWindow
      <3> QED BY <3>2, <3>3
    <2> QED BY <2>3, <2>4
  <1>6. CASE CloseWindow(t)
    BY <1>6, NoWindow, OneWindow DEF CloseWindow
  <1> QED BY <1>2, <1>3, <1>4, <1>5, <1>6 DEF Talk, CancelSelection, CleanupSelection, window

LEMMA TellKeepsWindows ==
  ASSUME WindowInv, NEW on \in BOOLEAN, NEW d \in Devices, NEW s \in {"mounted", "gone"},
         device' = [device EXCEPT ![d] = s], Tell(on, d), on => device[d] = "absent",
         UNCHANGED <<fVolumesList, selected>>
  PROVE  WindowInv'
  <1>1. /\ device' \in [Devices -> DeviceStates] /\ device'[d] = s
        /\ \A e \in Devices : device[e] # "absent" => device'[e] # "absent"
    BY DEF WindowInv, DeviceStates
  <1> DEFINE m == [mounted |-> on, device |-> d]
  <1>2. m \in Notices /\ m.device = d /\ m.mounted = on
    BY DEF Notices
  <1> HIDE DEF m
  <1>3. ASSUME NEW t \in Threads
        PROVE  Window(fVolumesList[t], selected[t], notices'[t], device')
    <2>1. Window(fVolumesList[t], selected[t], notices[t], device)
      BY DEF WindowInv
    <2>2. CASE At(t, "select")
      <3>1. notices'[t] = Append(notices[t], m)
        BY <2>2 DEF Tell, m
      <3>2. Window(fVolumesList[t], selected[t], Append(notices[t], m), device')
        BY <1>1, <1>2, <2>1, WindowIsTold
      <3> QED BY <3>1, <3>2
    <2>3. CASE ~ At(t, "select")
      <3>1. notices'[t] = <<>>
        BY <2>3 DEF Tell
      <3>2. Window(fVolumesList[t], selected[t], <<>>, device')
        BY <1>1, <2>1, WindowForgets
      <3> QED BY <3>1, <3>2
    <2> QED BY <2>2, <2>3
  <1>4. notices' \in [Threads -> Seq(Notices)]
    BY <1>3 DEF Tell, Window
  <1> QED BY <1>1, <1>3, <1>4 DEF WindowInv

LEMMA WindowStep == WindowInv /\ [Next]_vars => WindowInv'
  <1> SUFFICES ASSUME WindowInv, [Next]_vars PROVE WindowInv'
    OBVIOUS
  <1>1. CASE UNCHANGED <<window, device>>
    BY <1>1, WindowStays DEF window
  <1>2. ASSUME NEW t \in Threads, Talk(t), device' = device PROVE WindowInv'
    BY <1>2, TalkKeepsWindows
  <1>3. CASE Mount /\ UNCHANGED <<fVolumesList, selected>>
    BY <1>3, TellKeepsWindows DEF Mount
  <1>4. CASE Unmount /\ UNCHANGED <<fVolumesList, selected>>
    <2>1. PICK d \in Mounted : device' = [device EXCEPT ![d] = "gone"] /\ Tell(FALSE, d)
      BY <1>4 DEF Unmount
    <2> QED BY <1>4, <2>1, TellKeepsWindows DEF Mounted
  <1>5. CASE Deskbar
    <2>1. /\ fVolumesList' = [t \in Threads |-> <<>>] /\ selected' = [t \in Threads |-> {}]
          /\ notices' = [t \in Threads |-> <<>>] /\ device' = device
      BY <1>5 DEF Deskbar, Idle
    <2>2. <<>> \in Seq(Devices) /\ <<>> \in Seq(Notices)
      BY EmptySeq
    <2> QED BY <2>1, <2>2, NoWindow DEF WindowInv
  <1> QED BY <1>1, <1>2, <1>3, <1>4, <1>5 DEF Next, vars

LEMMA WindowInit == Init => WindowInv
  <1> SUFFICES ASSUME Init PROVE WindowInv
    OBVIOUS
  <1>1. /\ fVolumesList = [t \in Threads |-> <<>>] /\ selected = [t \in Threads |-> {}]
        /\ notices = [t \in Threads |-> <<>>] /\ device \in [Devices -> {"absent", "mounted"}]
    BY DEF Init
  <1>2. device \in [Devices -> DeviceStates]
    BY <1>1 DEF DeviceStates
  <1>3. <<>> \in Seq(Devices) /\ <<>> \in Seq(Notices)
    BY EmptySeq
  <1> QED BY <1>1, <1>2, <1>3, NoWindow DEF WindowInv

-----------------------------------------------------------------------------
(* What the threads clean up.                                              *)

Places == Filling \cup {"none", "ask", "select", "volume", "alert", "confirm", "shrink"}

\* Each thread has every volume once before it, and fills the first of them.
WorkInv ==
  /\ pc \in [Threads -> Places] /\ fToCleanup \in [Threads -> Seq(Devices)]
  /\ \A t \in Threads : /\ ListOnce(fToCleanup[t])
                        /\ pc[t] \in Filling => fToCleanup[t] # <<>>

\* The files a thread has open are few enough, and one that is written to is not full.
FilesInv ==
  /\ spaceSuckingFiles \in [Threads -> Seq(Nodes)]
  /\ written \in [Threads -> 0 .. MAX_FILE_SIZE]
  /\ \A t \in Threads :
       /\ Len(spaceSuckingFiles[t]) <= MAX_FILES
       /\ pc[t] \in {"find", "remove", "write"} => written[t] < MAX_FILE_SIZE
  /\ status \in [Threads -> {"B_OK", "B_DEVICE_FULL", "B_INTERRUPTED", "B_ERROR"}]
  /\ entry \in [Devices -> Nodes \cup {NoFile}]
  /\ size \in [Nodes -> 0 .. MAX_FILE_SIZE]

\* The tray, the user's "Stop", other programs, and the history.
OthersInv ==
  /\ fCleanupInProgress \in BOOLEAN /\ offering \in BOOLEAN /\ overlap \in BOOLEAN
  /\ queue \in Seq(Messages)
  /\ clicks \in 0 .. MaxClicks
  /\ fCancelled \in [Threads -> BOOLEAN]
  /\ others \in [Devices -> 0 .. 1]
  /\ kills \in 0 .. MaxKills
  /\ orphans \subseteq Devices

\* One thread goes somewhere, and has other volumes before it.
LEMMA OneWorks ==
  ASSUME WorkInv, NEW t \in Threads, NEW a \in Places, NEW l, ListOnce(l),
         a \in Filling => l # <<>>,
         pc' = [pc EXCEPT ![t] = a],
         fToCleanup' = [fToCleanup EXCEPT ![t] = l]
  PROVE  WorkInv'
  BY DEF WorkInv, ListOnce

LEMMA Goes ==
  ASSUME WorkInv, NEW t \in Threads, NEW a \in Places, fToCleanup' = fToCleanup,
         a \in Filling => pc[t] \in Filling \/ fToCleanup[t] # <<>>,
         pc' = [pc EXCEPT ![t] = a]
  PROVE  WorkInv'
  BY DEF WorkInv

LEMMA WorkStays == WorkInv /\ UNCHANGED <<pc, fToCleanup>> => WorkInv'
  BY DEF WorkInv

LEMMA TalkKeepsWork ==
  ASSUME WorkInv, WindowInv, NEW t \in Threads, Talk(t)
  PROVE  WorkInv'
  <1> USE DEF Goto, At
  <1>1. ASSUME NEW a \in Places \ Filling, fToCleanup' = fToCleanup, pc' = [pc EXCEPT ![t] = a]
        PROVE  WorkInv'
    BY <1>1, Goes
  <1>2. \A a \in {"none", "select", "volume", "confirm", "shrink"} : a \in Places \ Filling
    BY DEF Places, Filling
  <1>3. CASE Start(t) /\ UNCHANGED fToCleanup
    BY <1>1, <1>2, <1>3 DEF Start, Return
  <1>4. CASE (Select(t) \/ DeviceNotice(t)) /\ UNCHANGED fToCleanup
    BY <1>4, WorkStays DEF Select, DeviceNotice
  <1>5. CASE CancelSelection(t)
    BY <1>1, <1>2, <1>5 DEF CancelSelection, Return
  <1>6. CASE CleanupSelection(t)
    <2> DEFINE l == [i \in 1 .. Cardinality(SelectedItems(t)) |->
                       fVolumesList[t][CurrentSelection(t, i)]]
    <2>1. ListOnce(fVolumesList[t])
      BY DEF WindowInv, Window
    <2>2. ListOnce(l)
      BY <2>1, SelectionInOrder
    <2>3. fToCleanup' = [fToCleanup EXCEPT ![t] = l] /\ pc' = [pc EXCEPT ![t] = "volume"]
      BY <1>6 DEF CleanupSelection
    <2> HIDE DEF l
    <2> QED BY <1>2, <2>2, <2>3, OneWorks
  <1>7. CASE StopOperation(t) /\ UNCHANGED <<pc, fToCleanup>>
    BY <1>7, WorkStays
  <1>8. CASE (ConfirmShrink(t) \/ StartShrink(t) \/ DismissAlert(t)) /\ UNCHANGED fToCleanup
    BY <1>1, <1>2, <1>8 DEF ConfirmShrink, StartShrink, DismissAlert, Return
  <1> QED BY <1>3, <1>4, <1>5, <1>6, <1>7, <1>8 DEF Talk

LEMMA FillKeepsWork ==
  ASSUME WorkInv, NEW t \in Threads, Fill(t)
  PROVE  WorkInv'
  <1> USE DEF At, Goto
  <1>1. CASE NextVolume(t)
    <2>1. CASE fToCleanup' = [fToCleanup EXCEPT ![t] = Tail(fToCleanup[t])] /\ pc' = pc
               /\ fToCleanup[t] # <<>>
      <3>1. ListOnce(Tail(fToCleanup[t])) /\ pc[t] \in Places
        BY <2>1, ListedBehind DEF WorkInv
      <3>2. pc[t] \notin Filling /\ pc' = [pc EXCEPT ![t] = pc[t]]
        BY <1>1, <2>1 DEF NextVolume, WorkInv, Filling
      <3> QED BY <2>1, <3>1, <3>2, OneWorks
    <2>2. CASE fToCleanup' = fToCleanup /\ pc' = [pc EXCEPT ![t] = "confirm"]
      BY <2>2, Goes DEF Places, Filling
    <2>3. CASE fToCleanup' = fToCleanup /\ pc' = [pc EXCEPT ![t] = "create"] /\ fToCleanup[t] # <<>>
      BY <2>3, Goes DEF Places, Filling
    <2> QED BY <1>1, <2>1, <2>2, <2>3 DEF NextVolume
  <1>2. CASE /\ \/ CreateFile(t) \/ CreateFails(t) \/ LastFile(t) \/ FindEntry(t) \/ RemoveEntry(t)
                \/ WriteToFile(t)
             /\ UNCHANGED fToCleanup
    <2>1. pc[t] \in Filling /\ \E a \in Filling : pc' = [pc EXCEPT ![t] = a]
      BY <1>2 DEF CreateFile, CreateFails, LastFile, FindEntry, RemoveEntry, WriteToFile, Stop, Filling
    <2> QED BY <1>2, <2>1, Goes DEF Places
  <1>3. CASE DeleteFiles(t)
    <2>1. fToCleanup[t] # <<>>
      BY <1>3 DEF DeleteFiles, WorkInv, Filling
    <2>2. ListOnce(<<>>) /\ ListOnce(Tail(fToCleanup[t]))
      BY <2>1, NothingListed, ListedBehind DEF WorkInv
    <2>3. PICK l \in {<<>>, Tail(fToCleanup[t])} : fToCleanup' = [fToCleanup EXCEPT ![t] = l]
      BY <1>3 DEF DeleteFiles
    <2>4. PICK a \in {"alert", "volume"} : pc' = [pc EXCEPT ![t] = a]
      BY <1>3 DEF DeleteFiles
    <2>5. a \in Places /\ a \notin Filling
      BY DEF Places, Filling
    <2> QED BY <2>2, <2>3, <2>4, <2>5, OneWorks
  <1> QED BY <1>1, <1>2, <1>3 DEF Fill

LEMMA WorkStep == WorkInv /\ WindowInv /\ [Next]_vars => WorkInv'
  <1> SUFFICES ASSUME WorkInv, WindowInv, [Next]_vars PROVE WorkInv'
    OBVIOUS
  <1>1. CASE UNCHANGED <<pc, fToCleanup>>
    BY <1>1, WorkStays
  <1>2. CASE ShrinkDisks /\ UNCHANGED fToCleanup
    BY <1>2, WorkStays, Goes DEF ShrinkDisks, Places, Filling
  <1>3. ASSUME NEW t \in Threads, Talk(t) PROVE WorkInv'
    BY <1>3, TalkKeepsWork
  <1>4. ASSUME NEW t \in Threads, Fill(t) PROVE WorkInv'
    BY <1>4, FillKeepsWork
  <1>5. CASE Deskbar
    <2>1. pc' = [t \in Threads |-> "none"] /\ fToCleanup' = [t \in Threads |-> <<>>]
      BY <1>5 DEF Deskbar, Idle
    <2> QED BY <2>1, NothingListed DEF WorkInv, ListOnce, Places, Filling
  <1> QED BY <1>1, <1>2, <1>3, <1>4, <1>5 DEF Next, vars

-----------------------------------------------------------------------------
(* The files and what is written to them.                                  *)

LEMMA FilesStay ==
  ASSUME FilesInv, UNCHANGED <<filling, entry, size>>,
         \A t \in Threads : pc'[t] \in {"find", "remove", "write"} =>
                              pc[t] \in {"find", "remove", "write"}
  PROVE  FilesInv'
  BY DEF FilesInv, filling

LEMMA TalkKeepsFileTypes ==
  ASSUME FilesInv, WorkInv, NEW t \in Threads, Talk(t), UNCHANGED <<filling, disk>>
  PROVE  FilesInv'
  <1>1. pc' = pc \/ \E a \in Places \ Filling : pc' = [pc EXCEPT ![t] = a]
    BY DEF Talk, Start, Select, DeviceNotice, CancelSelection, CleanupSelection, StopOperation,
           ConfirmShrink, StartShrink, DismissAlert, Return, Goto, Places, Filling
  <1>2. \A u \in Threads : pc'[u] \in {"find", "remove", "write"} =>
                             pc[u] \in {"find", "remove", "write"}
    BY <1>1 DEF WorkInv, Filling
  <1> QED BY <1>2, FilesStay DEF disk

LEMMA CreateKeepsFileTypes ==
  ASSUME FilesInv, WorkInv, NEW t \in Threads, CreateFile(t)
  PROVE  FilesInv'
  <1> DEFINE files == spaceSuckingFiles
             v == Volume(t)
  <1>1. /\ pc[t] = "create" /\ Len(files[t]) < MAX_FILES /\ files[t] \in Seq(Nodes)
        /\ pc' = [pc EXCEPT ![t] = "find"] /\ status' = status
        /\ written' = [written EXCEPT ![t] = 0]
    BY DEF CreateFile, At, Goto, FilesInv
  <1>2. v \in Devices
    BY <1>1, ListedBehind DEF WorkInv, Volume, Filling
  <1>3. entry[v] = NoFile => \E m \in Nodes : m \notin UNION {Living(e) : e \in Devices}
    BY <1>2, NodeLeft DEF FilesInv
  <1>4. PICK n \in Nodes : /\ entry' = [entry EXCEPT ![v] = n] /\ size' = [size EXCEPT ![n] = 0]
                           /\ files' = [files EXCEPT ![t] = Append(files[t], n)]
    <2> DEFINE living == UNION {Living(e) : e \in Devices}
               new == CHOOSE m \in Nodes : m \notin living
               n == IF entry[v] # NoFile THEN entry[v] ELSE new
    <2>1. entry[v] = NoFile => new \in Nodes
      BY <1>3
    <2>2. entry[v] # NoFile => entry[v] \in Nodes
      BY <1>2 DEF FilesInv
    <2>3. /\ entry' = [entry EXCEPT ![v] = n] /\ size' = [size EXCEPT ![n] = 0]
          /\ files' = [files EXCEPT ![t] = Append(files[t], n)]
      BY DEF CreateFile
    <2> HIDE DEF new
    <2> QED BY <2>1, <2>2, <2>3
  <1>5. MAX_FILES \in Nat \ {0} /\ MAX_FILE_SIZE \in Nat \ {0}
    BY CleanupAssumption
  <1>6. Append(files[t], n) \in Seq(Nodes) /\ Len(Append(files[t], n)) <= MAX_FILES
    <2>1. Append(files[t], n) \in Seq(Nodes) /\ Len(Append(files[t], n)) = Len(files[t]) + 1
          /\ Len(files[t]) \in Nat
      BY <1>1, AppendProperties, LenProperties
    <2> QED BY <1>1, <1>5, <2>1
  <1>7. files' \in [Threads -> Seq(Nodes)] /\ \A u \in Threads : Len(files'[u]) <= MAX_FILES
    BY <1>4, <1>6 DEF FilesInv
  <1>8. /\ written' \in [Threads -> 0 .. MAX_FILE_SIZE] /\ size' \in [Nodes -> 0 .. MAX_FILE_SIZE]
        /\ entry' \in [Devices -> Nodes \cup {NoFile}]
    <2>1. 0 \in 0 .. MAX_FILE_SIZE /\ n \in Nodes \cup {NoFile}
      BY <1>5
    <2>2. written' \in [Threads -> 0 .. MAX_FILE_SIZE]
      BY <1>1, <2>1 DEF FilesInv
    <2>3. size' \in [Nodes -> 0 .. MAX_FILE_SIZE]
      BY <1>4, <2>1 DEF FilesInv
    <2> HIDE DEF v
    <2>4. entry' \in [Devices -> Nodes \cup {NoFile}]
      BY <1>4, <2>1 DEF FilesInv
    <2> QED BY <2>2, <2>3, <2>4
  <1>9. \A u \in Threads : pc'[u] \in {"find", "remove", "write"} => written'[u] < MAX_FILE_SIZE
    BY <1>1, <1>5 DEF FilesInv, WorkInv
  <1> QED BY <1>1, <1>7, <1>8, <1>9 DEF FilesInv

LEMMA WriteKeepsFileTypes ==
  ASSUME FilesInv, WorkInv, NEW t \in Threads, WriteToFile(t)
  PROVE  FilesInv'
  <1>1. /\ pc[t] = "write" /\ UNCHANGED <<spaceSuckingFiles, entry>>
        /\ written[t] \in 0 .. MAX_FILE_SIZE /\ written[t] < MAX_FILE_SIZE
        /\ MAX_FILE_SIZE \in Nat \ {0}
    BY CleanupAssumption DEF WriteToFile, At, FilesInv
  <1>2. CASE UNCHANGED <<written, size>> /\ \E s \in {"B_ERROR", "B_DEVICE_FULL"} : Stop(t, s)
    BY <1>1, <1>2 DEF Stop, Goto, FilesInv, WorkInv
  <1>3. CASE /\ written' = [written EXCEPT ![t] = written[t] + 1]
             /\ size' = [size EXCEPT ![File(t)] =
                           IF size[File(t)] > written[t] THEN size[File(t)] ELSE written[t] + 1]
             /\ \/ Stop(t, "B_INTERRUPTED")
                \/ /\ Goto(t, IF written'[t] = MAX_FILE_SIZE THEN "create" ELSE "write")
                   /\ UNCHANGED status
    <2>1. written[t] + 1 \in 0 .. MAX_FILE_SIZE
      BY <1>1
    <2>2. written' \in [Threads -> 0 .. MAX_FILE_SIZE] /\ written'[t] = written[t] + 1
          /\ \A u \in Threads \ {t} : written'[u] = written[u]
      BY <1>3, <2>1 DEF FilesInv
    <2>3. size' \in [Nodes -> 0 .. MAX_FILE_SIZE]
      <3>1. CASE File(t) \in Nodes
        BY <1>3, <2>1, <3>1 DEF FilesInv
      <3>2. CASE File(t) \notin Nodes
        BY <1>3, <3>2 DEF FilesInv
      <3> QED BY <3>1, <3>2
    <2>4. /\ status' \in [Threads -> {"B_OK", "B_DEVICE_FULL", "B_INTERRUPTED", "B_ERROR"}]
          /\ \A u \in Threads \ {t} : pc'[u] = pc[u]
          /\ pc'[t] \in {"delete", "create", "write"}
          /\ pc'[t] = "write" => written'[t] # MAX_FILE_SIZE
      BY <1>3 DEF Stop, Goto, FilesInv, WorkInv
    <2>5. ASSUME NEW u \in Threads, pc'[u] \in {"find", "remove", "write"}
          PROVE  written'[u] < MAX_FILE_SIZE
      <3>1. CASE u = t
        BY <1>1, <2>1, <2>2, <2>4, <2>5, <3>1
      <3>2. CASE u # t
        BY <2>2, <2>4, <2>5, <3>2 DEF FilesInv
      <3> QED BY <3>1, <3>2
    <2> QED BY <1>1, <2>2, <2>3, <2>4, <2>5 DEF FilesInv
  <1> QED BY <1>2, <1>3 DEF WriteToFile

LEMMA FillKeepsFileTypes ==
  ASSUME FilesInv, WorkInv, NEW t \in Threads, Fill(t)
  PROVE  FilesInv'
  <1> USE DEF At, Goto, Stop
  <1>1. CASE NextVolume(t)
    <2>1. /\ UNCHANGED <<filling, entry, size>>
          /\ pc' = pc \/ \E a \in {"confirm", "create"} : pc' = [pc EXCEPT ![t] = a]
      BY <1>1 DEF NextVolume, disk
    <2>2. \A u \in Threads : pc'[u] \in {"find", "remove", "write"} =>
                               pc[u] \in {"find", "remove", "write"}
      BY <2>1 DEF WorkInv
    <2> QED BY <2>1, <2>2, FilesStay
  <1>2. CASE CreateFails(t) \/ LastFile(t)
    BY <1>2 DEF CreateFails, LastFile, FilesInv, WorkInv, disk
  <1>3. CASE FindEntry(t)
    BY <1>3, FilesStay DEF FindEntry, WorkInv, disk
  <1>4. CASE RemoveEntry(t)
    BY <1>4 DEF RemoveEntry, FilesInv, WorkInv, filling
  <1>5. CASE DeleteFiles(t)
    <2>1. <<>> \in Seq(Nodes) /\ Len(<<>>) = 0 /\ MAX_FILES \in Nat \ {0} /\ MAX_FILE_SIZE \in Nat \ {0}
      BY EmptySeq, CleanupAssumption
    <2>2. /\ spaceSuckingFiles' = [spaceSuckingFiles EXCEPT ![t] = <<>>]
          /\ written' = [written EXCEPT ![t] = 0] /\ status' = [status EXCEPT ![t] = "B_OK"]
          /\ UNCHANGED <<entry, size>>
          /\ \E a \in {"alert", "volume"} : pc' = [pc EXCEPT ![t] = a]
      BY <1>5 DEF DeleteFiles, disk
    <2> QED BY <2>1, <2>2 DEF FilesInv, WorkInv
  <1> QED BY <1>1, <1>2, <1>3, <1>4, <1>5, CreateKeepsFileTypes, WriteKeepsFileTypes DEF Fill

LEMMA FilesStep == FilesInv /\ WorkInv /\ [Next]_vars => FilesInv'
  <1> SUFFICES ASSUME FilesInv, WorkInv, [Next]_vars PROVE FilesInv'
    OBVIOUS
  <1>1. CASE UNCHANGED <<pc, filling, entry, size>>
    BY <1>1, FilesStay
  <1>2. CASE ShrinkDisks /\ UNCHANGED <<filling, disk>>
    BY <1>2, FilesStay DEF ShrinkDisks, WorkInv, disk
  <1>3. ASSUME NEW t \in Threads, Talk(t), UNCHANGED <<filling, disk>> PROVE FilesInv'
    BY <1>3, TalkKeepsFileTypes
  <1>4. ASSUME NEW t \in Threads, Fill(t) PROVE FilesInv'
    BY <1>4, FillKeepsFileTypes
  <1>5. CASE Deskbar
    <2>1. <<>> \in Seq(Nodes) /\ Len(<<>>) = 0 /\ MAX_FILES \in Nat \ {0} /\ MAX_FILE_SIZE \in Nat \ {0}
      BY EmptySeq, CleanupAssumption
    <2>2. /\ spaceSuckingFiles' = [u \in Threads |-> <<>>] /\ written' = [u \in Threads |-> 0]
          /\ status' = [u \in Threads |-> "B_OK"] /\ pc' = [u \in Threads |-> "none"]
          /\ UNCHANGED <<entry, size>>
      BY <1>5 DEF Deskbar, Idle, disk
    <2> QED BY <2>1, <2>2 DEF FilesInv
  <1> QED BY <1>1, <1>2, <1>3, <1>4, <1>5 DEF Next, vars, disk

-----------------------------------------------------------------------------
(* The types.                                                              *)

LEMMA OthersStep == OthersInv /\ WorkInv /\ [Next]_vars => OthersInv'
  <1> SUFFICES ASSUME OthersInv, WorkInv, [Next]_vars PROVE OthersInv'
    OBVIOUS
  <1> USE DEF OthersInv
  <1>1. CASE UNCHANGED <<tray, fCancelled, others, history>>
    BY <1>1 DEF tray, history
  <1>2. CASE (Click \/ Pick \/ MouseDown) /\ UNCHANGED <<fCancelled, others, history>>
    <2>1. MaxClicks \in Nat /\ \A m \in Messages : Append(queue, m) \in Seq(Messages)
      BY CleanupAssumption, AppendProperties
    <2>2. queue # <<>> => Tail(queue) \in Seq(Messages)
      BY HeadTailProperties
    <2>3. Contains(queue, "shrink") \in BOOLEAN
      BY DEF Contains
    <2>4. CASE Click
      <3>1. queue' \in Seq(Messages)
        BY <2>1, <2>4 DEF Click, Messages
      <3>2. clicks' \in 0 .. MaxClicks
        BY <2>1, <2>4 DEF Click
      <3> QED BY <1>2, <2>4, <3>1, <3>2 DEF Click, history
    <2>5. CASE Pick
      <3>1. queue' \in Seq(Messages)
        BY <2>1, <2>5 DEF Pick, Messages
      <3> QED BY <1>2, <2>5, <3>1 DEF Pick, history
    <2>6. CASE MouseDown
      <3>1. offering' \in BOOLEAN
        BY <2>6 DEF MouseDown
      <3>2. overlap' \in BOOLEAN
        BY <2>3, <2>6 DEF MouseDown
      <3> QED BY <1>2, <2>2, <2>6, <3>1, <3>2 DEF MouseDown, history
    <2> QED BY <1>2, <2>4, <2>5, <2>6
  <1>3. CASE ShrinkDisks /\ UNCHANGED <<fCancelled, others, history>>
    <2>1. queue # <<>> => Tail(queue) \in Seq(Messages)
      BY HeadTailProperties
    <2> QED BY <1>3, <2>1 DEF ShrinkDisks, history
  <1>4. ASSUME NEW t \in Threads, Talk(t), UNCHANGED <<others, history>> PROVE OthersInv'
    <2>1. /\ UNCHANGED <<queue, clicks, offering, overlap, others, kills, orphans>>
          /\ fCleanupInProgress' \in BOOLEAN
      BY <1>4 DEF Talk, Start, Select, DeviceNotice, CancelSelection, CleanupSelection,
                  StopOperation, ConfirmShrink, StartShrink, DismissAlert, Return, tray, history
    <2>2. fCancelled' = fCancelled \/ \E b \in BOOLEAN : fCancelled' = [fCancelled EXCEPT ![t] = b]
      BY <1>4 DEF Talk, CancelSelection, CleanupSelection, StopOperation
    <2> QED BY <2>1, <2>2
  <1>5. ASSUME NEW t \in Threads, Fill(t), UNCHANGED <<tray, fCancelled, kills>> PROVE OthersInv'
    <2>1. others' = others /\ orphans' \subseteq orphans
      BY <1>5 DEF Fill, NextVolume, CreateFile, CreateFails, LastFile, FindEntry, RemoveEntry,
                  WriteToFile, DeleteFiles, disk
    <2> QED BY <1>5, <2>1 DEF tray
  <1>6. CASE OthersWrite /\ UNCHANGED <<tray, fCancelled, history>>
    BY <1>6 DEF OthersWrite, tray, history
  <1>7. CASE Deskbar
    <2>1. <<>> \in Seq(Messages) /\ MaxClicks \in Nat /\ MaxKills \in Nat
      BY EmptySeq, CleanupAssumption
    <2>2. /\ queue' = <<>> /\ clicks' = 0 /\ ~ fCleanupInProgress' /\ ~ offering' /\ ~ overlap'
          /\ fCancelled' = [t \in Threads |-> FALSE] /\ others' = others
          /\ kills' = kills + 1 /\ kills < MaxKills /\ orphans' \subseteq Devices
          /\ fCleanupInProgress' \in BOOLEAN /\ offering' \in BOOLEAN /\ overlap' \in BOOLEAN
      BY <1>7 DEF Deskbar, Idle, disk
    <2> QED BY <2>1, <2>2
  <1> QED BY <1>1, <1>2, <1>3, <1>4, <1>5, <1>6, <1>7
    DEF Next, vars, disk, window, Mount, Unmount

CleanupInv == WindowInv /\ WorkInv /\ FilesInv /\ OthersInv

\* The lists of volumes never hold one twice, the files a clean-up has open always fit
\* its array, a file is never longer than MAX_FILE_SIZE, and a new file finds a node:
\* for any number of threads, volumes and files, whatever is mounted or unmounted while
\* a window is open (FillDirectory, MessageReceived of the selection window).
THEOREM CleanupTypes == Spec => []TypeOK
  <1>1. Init => CleanupInv
    <2> SUFFICES ASSUME Init PROVE CleanupInv
      OBVIOUS
    <2>1. /\ MAX_FILES \in Nat \ {0} /\ MAX_FILE_SIZE \in Nat \ {0} /\ MaxClicks \in Nat /\ MaxKills \in Nat
      BY CleanupAssumption
    <2>2. WorkInv
      BY NothingListed DEF Init, WorkInv, ListOnce, Places, Filling
    <2>3. FilesInv
      <3>1. <<>> \in Seq(Nodes) /\ Len(<<>>) = 0
        BY EmptySeq
      <3> QED BY <2>1, <3>1 DEF Init, FilesInv
    <2>4. OthersInv
      <3>1. <<>> \in Seq(Messages)
        BY EmptySeq
      <3>2. /\ fCleanupInProgress = FALSE /\ offering = FALSE /\ overlap = FALSE
            /\ queue = <<>> /\ clicks = 0 /\ fCancelled = [t \in Threads |-> FALSE]
            /\ others \in [Devices -> 0 .. 1] /\ kills = 0 /\ orphans = {}
        BY DEF Init
      <3>3. fCleanupInProgress \in BOOLEAN /\ offering \in BOOLEAN /\ overlap \in BOOLEAN
        BY <3>2, Zenon
      <3>4. /\ queue \in Seq(Messages) /\ clicks \in 0 .. MaxClicks /\ kills \in 0 .. MaxKills
            /\ others \in [Devices -> 0 .. 1] /\ orphans \subseteq Devices
        BY <2>1, <3>1, <3>2
      <3>5. fCancelled \in [Threads -> BOOLEAN]
        BY <3>2
      <3> QED BY <3>3, <3>4, <3>5 DEF OthersInv
    <2> QED BY <2>2, <2>3, <2>4, WindowInit DEF CleanupInv
  <1>2. CleanupInv /\ [Next]_vars => CleanupInv'
    BY WindowStep, WorkStep, FilesStep, OthersStep DEF CleanupInv
  <1>3. CleanupInv => TypeOK
    <2> SUFFICES ASSUME CleanupInv PROVE TypeOK
      OBVIOUS
    <2> USE DEF CleanupInv
    <2>1. /\ fCleanupInProgress \in BOOLEAN /\ offering \in BOOLEAN /\ overlap \in BOOLEAN
          /\ queue \in Seq({"click", "shrink"}) /\ clicks \in 0 .. MaxClicks
          /\ fCancelled \in [Threads -> BOOLEAN] /\ others \in [Devices -> 0 .. 1]
          /\ kills \in 0 .. MaxKills /\ orphans \subseteq Devices
      BY DEF OthersInv, Messages
    <2>2. /\ written \in [Threads -> 0 .. MAX_FILE_SIZE]
          /\ status \in [Threads -> {"B_OK", "B_DEVICE_FULL", "B_INTERRUPTED", "B_ERROR"}]
          /\ entry \in [Devices -> Nodes \cup {NoFile}]
          /\ size \in [Nodes -> 0 .. MAX_FILE_SIZE]
      BY DEF FilesInv
    <2>3. /\ device \in [Devices -> {"absent", "mounted", "gone"}]
          /\ pc \in [Threads -> Filling \cup {"none", "ask", "select", "volume", "alert", "confirm", "shrink"}]
      BY DEF WindowInv, DeviceStates, WorkInv, Places
    <2>4. \A t \in Threads :
            /\ IsInjective(fVolumesList[t]) /\ Range(fVolumesList[t]) \subseteq Devices
            /\ selected[t] \subseteq Range(fVolumesList[t])
            /\ IsInjective(fToCleanup[t]) /\ Range(fToCleanup[t]) \subseteq Devices
            /\ Len(spaceSuckingFiles[t]) <= MAX_FILES
            /\ Range(spaceSuckingFiles[t]) \subseteq Nodes
      BY RangeOfSeq DEF WindowInv, Window, WorkInv, FilesInv, ListOnce
    <2> QED BY <2>1, <2>2, <2>3, <2>4, Zenon DEF TypeOK
  <1> QED BY <1>1, <1>2, <1>3, PTL DEF Spec
=============================================================================
