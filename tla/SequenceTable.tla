---------------------------- MODULE SequenceTable ----------------------------
(***************************************************************************)
(* plugins/OpenMCT/Sequence/components/SequenceTable.vue, the editor of a  *)
(* sequence, with its websocket and the adapter behind it.                 *)
(*                                                                         *)
(* The adapter (modules OpcuaAdapter and SequenceLoad) works on the        *)
(* messages of a connection one by one, in order, and sends one reply for  *)
(* each, without an id.  The table has two flags to tell what a reply that *)
(* carries something is for.  A program is a value here: what SequenceLoad *)
(* keeps of it reads back equal.                                           *)
(***************************************************************************)
EXTENDS Integers, Sequences, FiniteSets

CONSTANTS
  Types,        \* the sequence's possible types
  Programs,     \* contents of the table a user makes
  Valid,        \* those the adapter accepts
  EmptyStep,    \* loadEmpty's table: one step without a duration
  Blank,        \* the table of no step, which only a reply can make
  MaxClicks,    \* bound: clicks on Send and Load
  MaxEdits,     \* bound: edits of the table
  MaxLosses     \* bound: connections lost

ASSUME ProgramsAssumption ==
  /\ Valid \subseteq Programs /\ EmptyStep \in Programs \ Valid /\ Blank \notin Programs
ASSUME TypesAssumption == Types \subseteq {"primary", "redline", "purge"}
ASSUME BoundsAreNat == MaxClicks \in Nat /\ MaxEdits \in Nat /\ MaxLosses \in Nat

VARIABLES
  type,              \* SEQ.type, which never changes
  Sequence,          \* the table
  sendDisabled, downloadRequested, readbackRequested,
  preload,           \* the preload timer: "wait", "again" (once more), "done"
  verdict,           \* the notification shown for the latest Send
  Socket,            \* "connecting", "open" or "closed"
  toAdapter,         \* messages on their way
  toBrowser,         \* replies on their way
  stored,            \* the program the MCS keeps
  sentProgram,       \* history: the table the latest Send sent, or Blank
  undisturbed,       \* history: nothing but the latest Send's replies was awaited
                     \* since it, and the table was not edited
  mishap,            \* history: a message or reply did not get through
  clicks, edits, losses

flags == <<sendDisabled, downloadRequested, readbackRequested>>
wire == <<toAdapter, toBrowser>>
bounds == <<clicks, edits, losses>>
ghosts == <<sentProgram, undisturbed, mishap>>
vars == <<type, Sequence, flags, preload, verdict, Socket, wire, stored, ghosts, bounds>>

Tables == Programs \cup {Blank}

\* Messages: load_sequence with a program (and what belongs to it), download_sequence.
Messages == [cmd : {"load"}, program : Tables] \cup [cmd : {"download"}]
Download == [cmd |-> "download"]

\* Replies by what the table sees: length 0, entries it skips (the null of
\* load_igniters), or a program.
Replies == [length : {0}] \cup [length : {1}, program : Tables]
NoEntry == [length |-> 0]
Carrying(p) == [length |-> 1, program |-> p]

\* mounted(): the socket is being made, the table is loadEmpty's.
Init ==
  /\ type \in Types
  /\ Sequence = EmptyStep
  /\ sendDisabled = FALSE /\ downloadRequested = FALSE /\ readbackRequested = FALSE
  /\ preload = "wait" /\ verdict = "none"
  /\ Socket = "connecting" /\ toAdapter = <<>> /\ toBrowser = <<>>
  /\ stored \in Programs
  /\ sentProgram = Blank /\ undisturbed = FALSE /\ mishap = FALSE
  /\ clicks = 0 /\ edits = 0 /\ losses = 0

-----------------------------------------------------------------------------
\* Socket.send: queued on an open socket, discarded by a closed one.
Transmit(messages) ==
  /\ toAdapter' = IF Socket = "open" THEN toAdapter \o messages ELSE toAdapter
  /\ mishap' = (mishap \/ Socket # "open")
  /\ UNCHANGED toBrowser

Awaited == wire # <<<<>>, <<>>>>

\* A click on Send while the button is enabled.
HandleSend ==
  /\ ~sendDisabled /\ clicks < MaxClicks
  /\ Socket # "connecting"
  /\ sendDisabled' = TRUE /\ readbackRequested' = TRUE
  /\ Transmit(<<[cmd |-> "load", program |-> Sequence], Download>>)
  /\ sentProgram' = Sequence /\ verdict' = "none"
  /\ undisturbed' = (~Awaited /\ ~downloadRequested /\ ~readbackRequested)
  /\ clicks' = clicks + 1
  /\ UNCHANGED <<type, Sequence, downloadRequested, preload, Socket, stored, edits, losses>>

\* send raises InvalidStateError on a connecting socket: requestReadbackSequence
\* is not reached, and the button stays disabled.
HandleSendRaises ==
  /\ ~sendDisabled /\ clicks < MaxClicks
  /\ Socket = "connecting"
  /\ sendDisabled' = TRUE
  /\ sentProgram' = Sequence /\ verdict' = "none" /\ undisturbed' = FALSE
  /\ mishap' = TRUE
  /\ clicks' = clicks + 1
  /\ UNCHANGED <<type, Sequence, downloadRequested, readbackRequested, preload, Socket, wire, stored,
                 edits, losses>>

\* requestDownloadSequence: the flag is set before send, which may raise.
RequestDownload ==
  /\ downloadRequested' = TRUE
  /\ Transmit(<<Download>>)
  /\ undisturbed' = FALSE
  /\ UNCHANGED <<type, Sequence, sendDisabled, readbackRequested, verdict, Socket, stored, sentProgram>>

HandleLoad ==
  /\ clicks < MaxClicks
  /\ clicks' = clicks + 1
  /\ RequestDownload
  /\ UNCHANGED <<preload, edits, losses>>

\* The preload timer finds the socket open.
Preload ==
  /\ preload = "wait" /\ Socket = "open"
  /\ preload' = "again"
  /\ RequestDownload
  /\ UNCHANGED bounds

\* Its next tick stops the timer, and requests the download again.
PreloadAgain ==
  /\ preload = "again"
  /\ preload' = "done"
  /\ IF Socket = "open"
     THEN RequestDownload
     ELSE UNCHANGED <<type, Sequence, flags, verdict, Socket, wire, stored, ghosts>>
  /\ UNCHANGED bounds

\* toggleStep, addStep, deleteStep, the inputs, importSequence.
Edit ==
  /\ edits < MaxEdits
  /\ edits' = edits + 1
  /\ Sequence' \in Programs \ {Sequence}
  /\ undisturbed' = FALSE
  /\ UNCHANGED <<type, flags, preload, verdict, Socket, wire, stored, sentProgram, mishap, clicks, losses>>

-----------------------------------------------------------------------------
\* The adapter takes the next message.
Answer(reply) ==
  /\ toAdapter' = Tail(toAdapter)
  /\ toBrowser' = Append(toBrowser, reply)
  /\ UNCHANGED <<type, Sequence, flags, preload, verdict, Socket, ghosts, bounds>>

NextIs(cmd) == Socket = "open" /\ toAdapter # <<>> /\ Head(toAdapter).cmd = cmd

\* load_igniters, sent along with the primary sequence, adds a null.
LoadReply == IF type = "primary" THEN Carrying(Blank) ELSE NoEntry

\* Mutant: every load answers with an entry that carries nothing.
MutantLoad ==
  /\ NextIs("load")
  /\ Head(toAdapter).program # Blank
  /\ stored' = IF Head(toAdapter).program \in Valid THEN Head(toAdapter).program ELSE stored
  /\ Answer(Carrying(Blank))

AdapterLoad ==
  /\ NextIs("load")
  /\ Head(toAdapter).program # Blank
  /\ stored' = IF Head(toAdapter).program \in Valid THEN Head(toAdapter).program ELSE stored
  /\ Answer(LoadReply)

\* Mutant: a download of a sequence never loaded answers without an entry.
MutantDownload ==
  /\ NextIs("download")
  /\ Answer(IF stored \in Valid THEN Carrying(stored) ELSE NoEntry)
  /\ UNCHANGED stored

AdapterDownload ==
  /\ NextIs("download")
  /\ Answer(Carrying(stored))
  /\ UNCHANGED stored

Disconnect ==
  /\ Socket' = "closed" /\ toAdapter' = <<>> /\ toBrowser' = <<>>
  /\ mishap' = TRUE /\ undisturbed' = FALSE
  /\ UNCHANGED <<type, Sequence, flags, preload, verdict, sentProgram, clicks, edits>>

\* A load without steps ends the adapter (SequenceLoad's LoadRaises).
AdapterRaises ==
  /\ NextIs("load")
  /\ Head(toAdapter).program = Blank
  /\ Disconnect
  /\ UNCHANGED <<stored, losses>>

\* The connection goes.  What the adapter still executes from it comes before
\* this step: the replies are lost either way.
ConnectionLost ==
  /\ Socket = "open" /\ losses < MaxLosses
  /\ losses' = losses + 1
  /\ Disconnect
  /\ UNCHANGED stored

\* The first socket opens, or recreateSockets' interval replaces a dead one.
SocketOpens ==
  /\ Socket # "open"
  /\ Socket' = "open"
  /\ UNCHANGED <<type, Sequence, flags, preload, verdict, wire, stored, ghosts, bounds>>

-----------------------------------------------------------------------------
\* onmessage, by the reply and the flags.
Incoming == Head(toBrowser)

Receive ==
  /\ Socket = "open" /\ toBrowser # <<>>
  /\ toBrowser' = Tail(toBrowser)
  /\ UNCHANGED <<preload, Socket, toAdapter, stored, ghosts, bounds>>

ReplyIgnored ==
  /\ Receive
  /\ Incoming.length = 0 \/ (~downloadRequested /\ ~readbackRequested)
  /\ UNCHANGED <<type, Sequence, flags, verdict>>

ReplyIsDownload ==
  /\ Receive
  /\ Incoming.length # 0
  /\ downloadRequested
  /\ downloadRequested' = FALSE
  /\ Sequence' = Incoming.program
  /\ UNCHANGED <<type, sendDisabled, readbackRequested, verdict>>

\* Mutant: the button is not enabled again after a mismatch.
MutantReadback ==
  /\ Receive
  /\ Incoming.length # 0
  /\ ~downloadRequested /\ readbackRequested
  /\ readbackRequested' = FALSE
  /\ verdict' = IF Incoming.program = Sequence THEN "verified" ELSE "mismatch"
  /\ sendDisabled' = (verdict' = "mismatch")
  /\ UNCHANGED <<type, Sequence, downloadRequested>>

ReplyIsReadback ==
  /\ Receive
  /\ Incoming.length # 0
  /\ ~downloadRequested /\ readbackRequested
  /\ readbackRequested' = FALSE /\ sendDisabled' = FALSE
  /\ verdict' = IF Incoming.program = Sequence THEN "verified" ELSE "mismatch"
  /\ UNCHANGED <<type, Sequence, downloadRequested>>

Adapter == AdapterLoad \/ AdapterDownload \/ AdapterRaises
OnMessage == ReplyIgnored \/ ReplyIsDownload \/ ReplyIsReadback

Next ==
  \/ HandleSend \/ HandleSendRaises \/ HandleLoad \/ Preload \/ PreloadAgain \/ Edit
  \/ AdapterLoad \/ AdapterDownload \/ AdapterRaises
  \/ ConnectionLost \/ SocketOpens
  \/ ReplyIgnored \/ ReplyIsDownload \/ ReplyIsReadback

Spec == Init /\ [][Next]_vars
FairSpec == Spec /\ WF_vars(Adapter) /\ WF_vars(OnMessage)

-----------------------------------------------------------------------------
\* Messages and replies under way that will, or do, carry something.
WillCarry == { i \in DOMAIN toAdapter : toAdapter[i].cmd = "download" \/ type = "primary" }
Carries == { i \in DOMAIN toBrowser : toBrowser[i].length # 0 }

FlagsSet == (IF downloadRequested THEN 1 ELSE 0) + (IF readbackRequested THEN 1 ELSE 0)

\* While nothing gets lost, each flag the table waits with is matched by a reply
\* that will clear it, and the disabled button by the readback flag: however
\* Send, Load and the preload overlap, the table is not left waiting
\* (SequenceTable.vue 529-661, 743-936, 984-998).
FlagsHaveReplies ==
  ~mishap => /\ FlagsSet <= Cardinality(WillCarry) + Cardinality(Carries)
             /\ sendDisabled => readbackRequested

\* Send can be clicked again, unless a message or reply did not get through
\* (SequenceTable.vue 901-903).
SendEnabledAgain == sendDisabled ~> ~sendDisabled \/ mishap

\* A Send of a redline or purge sequence that nothing disturbs gets the verdict
\* the MCS's program deserves (SequenceTable.vue 925-930).
VerdictIsTrue ==
  type # "primary" /\ verdict # "none" /\ undisturbed => (verdict = "verified" <=> stored = sentProgram)

\* "Success: Sequence uploaded and verified." (SequenceTable.vue 927): the MCS has
\* the program that was sent.  A download's reply that comes after the Send replaces the
\* table that was sent, and the next reply is compared with the table.
VerifiedIsReal == verdict = "verified" => stored = sentProgram
=============================================================================
