-------------------------------- MODULE Tray --------------------------------
(***************************************************************************)
(* The Deskbar tray: the three kinds of sharing it turns on and off, and   *)
(* the clipboards it keeps the same.  It is a view, so one looper handles  *)
(* its messages one at a time: what the user picks in its menu, the polls  *)
(* of its message runner, and the notice that the clipboard of Haiku has   *)
(* changed, which its own commits send too.                                *)
(*                                                                         *)
(* External: the users of both clipboards; the host's three GUI settings;  *)
(* the host's clipboard, which offers the guest a text once, after it was  *)
(* copied on the host and until the guest sends one; the Deskbar.  Running *)
(* in VMware is taken for granted, and every copy is a text; CLOCK_POLL,   *)
(* which only sets the clock, and the shrinking of disks are left out.     *)
(***************************************************************************)
EXTENDS Naturals, SequencesExt

CONSTANTS
  Texts,
  NoText,
  MaxMessages,  \* bound on the looper's queue
  MaxCopies     \* bound on the copies the users make

ASSUME TextsAssumption == NoText \notin Texts
ASSUME TrayBounds == MaxMessages \in Nat /\ MaxCopies \in Nat

Sharings == {"mouse", "clip", "timesync"}

VARIABLES
  attached,         \* the view is in the Deskbar's window
  gSettings,        \* what the user chose
  guiSettings,      \* what the host allows
  fClipboardPoller, \* the message runners that exist
  fClockSynchonizer,
  watching,         \* the tray is told when the clipboard changes
  messages,         \* its messages
  guest, host,      \* the texts of the clipboards
  offer,            \* the text the host has for the guest
  copies,
  shared            \* history: every copy was made while sharing was on

sharing == <<gSettings, fClipboardPoller, fClockSynchonizer, watching>>
clipboards == <<guest, host, offer>>
trayVars == <<attached, sharing, guiSettings, messages, clipboards, copies, shared>>

TrayTypeOK ==
  /\ attached \in BOOLEAN
  /\ gSettings \in [Sharings -> BOOLEAN]
  /\ guiSettings \in [Sharings -> BOOLEAN]
  /\ {fClipboardPoller, fClockSynchonizer, watching, shared} \subseteq BOOLEAN
  /\ messages \in Seq(Sharings \cup {"poll", "changed"})
  /\ Len(messages) <= MaxMessages
  /\ {guest, host, offer} \subseteq Texts \cup {NoText}
  /\ copies \in 0 .. MaxCopies

TrayInit ==
  /\ gSettings \in [Sharings -> BOOLEAN]
  /\ guiSettings \in [Sharings -> BOOLEAN]
  /\ attached = FALSE
  /\ fClipboardPoller = FALSE /\ fClockSynchonizer = FALSE /\ watching = FALSE
  /\ messages = <<>>
  /\ guest = NoText /\ host = NoText /\ offer = NoText
  /\ copies = 0 /\ shared = TRUE

-----------------------------------------------------------------------------
(* The sharings.                                                           *)

\* Mutant: the tray goes on watching the clipboard.
SetClipboardSharing_Watches(enable) ==
  /\ fClipboardPoller' = enable
  /\ watching' = (watching \/ enable)

SetClipboardSharing(enable) ==
  /\ fClipboardPoller' = enable
  /\ watching' = enable

SetTimeSynchronization(enable) == fClockSynchonizer' = enable

AttachedToWindow ==
  /\ ~attached /\ attached' = TRUE
  /\ SetClipboardSharing(gSettings["clip"])
  /\ SetTimeSynchronization(gSettings["timesync"])
  /\ UNCHANGED <<gSettings, guiSettings, messages, clipboards, copies, shared>>

\* The user picks an item of the menu.
PickSharing(s) ==
  /\ attached
  /\ Len(messages) < MaxMessages
  /\ messages' = Append(messages, s)
  /\ UNCHANGED <<attached, sharing, guiSettings, clipboards, copies, shared>>

\* MOUSE_SHARING, CLIPBOARD_SHARING and TIMESYNC_HOST turn a setting over, but
\* on only when the host allows it.
Toggle(s) ==
  LET value == ~gSettings[s] /\ guiSettings[s]
  IN  /\ gSettings' = [gSettings EXCEPT ![s] = value]
      /\ IF s = "clip" THEN SetClipboardSharing(value)
         ELSE UNCHANGED <<fClipboardPoller, watching>>
      /\ IF s = "timesync" THEN SetTimeSynchronization(value)
         ELSE UNCHANGED fClockSynchonizer

HostAllows ==
  /\ \E s \in Sharings : guiSettings' = [guiSettings EXCEPT ![s] = ~@]
  /\ UNCHANGED <<attached, sharing, messages, clipboards, copies, shared>>

-----------------------------------------------------------------------------
(* The clipboards.                                                         *)

\* Whoever watches the clipboard of Haiku gets a notice.
Notify(q) == IF watching THEN Append(q, "changed") ELSE q

Copy ==
  /\ copies < MaxCopies /\ copies' = copies + 1
  /\ shared' = (shared /\ fClipboardPoller)

GuestCopies ==
  /\ Copy
  /\ guest' \in Texts
  /\ Len(messages) < MaxMessages
  /\ messages' = Notify(messages)
  /\ UNCHANGED <<attached, sharing, guiSettings, host, offer>>

HostCopies ==
  /\ Copy
  /\ host' \in Texts
  /\ offer' = host'
  /\ UNCHANGED <<attached, sharing, guiSettings, messages, guest>>

\* The message runner, once a second.
PollDue ==
  /\ fClipboardPoller
  /\ Len(messages) < MaxMessages
  /\ messages' = Append(messages, "poll")
  /\ UNCHANGED <<attached, sharing, guiSettings, clipboards, copies, shared>>

\* B_CLIPBOARD_CHANGED: the text goes to the host.
SetHostClipboard ==
  /\ host' = guest
  /\ offer' = NoText
  /\ messages' = Tail(messages)
  /\ UNCHANGED guest

\* Mutant: the text of the host is put in the clipboard without a commit.
GetHostClipboard_NoCommit ==
  /\ offer' = NoText
  /\ messages' = Tail(messages)
  /\ UNCHANGED <<guest, host>>

\* Mutant: the clipboard is committed whether the host has a text or not.
GetHostClipboard_AlwaysCommits ==
  /\ guest' = IF offer = NoText THEN guest ELSE offer
  /\ messages' = Notify(Tail(messages))
  /\ offer' = NoText
  /\ UNCHANGED host

\* CLIPBOARD_POLL: the text of the host, if there is a new one, is committed to
\* the clipboard of Haiku.
GetHostClipboard ==
  /\ guest' = IF offer = NoText THEN guest ELSE offer
  /\ messages' = IF offer = NoText THEN Tail(messages) ELSE Notify(Tail(messages))
  /\ offer' = NoText
  /\ UNCHANGED host

-----------------------------------------------------------------------------

MessageReceived ==
  /\ messages # <<>>
  /\ \/ /\ Head(messages) \in Sharings
        /\ Toggle(Head(messages))
        /\ messages' = Tail(messages)
        /\ UNCHANGED clipboards
     \/ /\ Head(messages) = "changed"
        /\ SetHostClipboard
        /\ UNCHANGED sharing
     \/ /\ Head(messages) = "poll"
        /\ GetHostClipboard
        /\ UNCHANGED sharing
  /\ UNCHANGED <<attached, guiSettings, copies, shared>>

TrayNext ==
  \/ AttachedToWindow \/ MessageReceived
  \/ \E s \in Sharings : PickSharing(s)
  \/ HostAllows \/ GuestCopies \/ HostCopies \/ PollDue

TraySpec == TrayInit /\ [][TrayNext]_trayVars

\* The looper handles its messages and the runner keeps sending, as soon as the
\* bound on the queue lets it.
TrayFairness == WF_trayVars(MessageReceived) /\ SF_trayVars(PollDue)

TrayFairSpec == TraySpec /\ TrayFairness

-----------------------------------------------------------------------------
(* Properties.                                                             *)

\* Nothing is half on: from the moment the tray is attached, the poller, the
\* watching and the clock runner each exist exactly while their setting is on,
\* whatever was picked and however often.
RunnersFollowSettings ==
  attached => /\ fClipboardPoller = gSettings["clip"]
              /\ watching = gSettings["clip"]
              /\ fClockSynchonizer = gSettings["timesync"]

\* The clipboards agree once no text is on its way, when every copy was made
\* while sharing was on: no order of copies, polls, notices and echoes of the
\* tray's own commits leaves the two sides with different texts.
ClipboardsAgree ==
  shared /\ offer = NoText /\ ~Contains(messages, "changed") => guest = host

\* While sharing stays on, texts do not stay on their way for ever: the echoes
\* die out once the users stop copying.
EchoesDieOut ==
  <>[]fClipboardPoller => <>[](offer = NoText /\ ~Contains(messages, "changed"))
=============================================================================
