# Verification of EX-UI

EX-UI is a web interface for rocket test stands: valves, sensors and firing
sequences of a *measurement and control system* (MCS) are shown and commanded
from browsers running NASA OpenMCT with plugins of this repository. This
directory holds TLA+ models of its own core logic, and of three parts of the
netdata agent that is kept in the repository and deployed beside it, the TLC
configurations that check them on small instances, and TLAPS proofs of what
matters most.

* [The system](#the-system) - inventory of components, state and hazards
* [The modules](#the-modules) - what models what
* [The runs](#the-runs) - what TLC checks, bounds, what the violations show
* [Fairness](#fairness)
* [The proofs](#the-proofs)
* [What is not modelled](#what-is-not-modelled) and [the plan](#the-plan)

## The system

```
 browser (OpenMCT + plugins)                 containers                     test stand
 ┌──────────────────────────┐   wss   ┌─────────────────────┐    OPC UA    ┌──────────┐
 │ SequenceTable.vue        │<------->│ adapters/opcua      │<------------>│   MCS    │
 │ ControllTableV2, Calib   │ commands│ client.py           │ nodes        └──────────┘
 │                          │ replies └─────────┬───────────┘
 │                          │                   │ XADD <source>:DATA
 │                          │   wss   ┌─────────▼───────────┐
 │ BackendConnection/plugin │<--------│ Redis ─> DATA/main.py│  telemetry, keepalives
 └──────────────────────────┘         └─────────────────────┘
 start.py: writes the configuration, builds and deploys the containers (docker swarm),
           and, with USENETDATA, a netdata agent that watches the machine

 netdata:  collector threads ──> dictionaries of charts ──> circular buffer ──> parent
           rrdset_done_push                                 sender thread
```

| Component | State | Operations | Hard behaviour |
|---|---|---|---|
| **OPC UA adapter** `adapters/opcua/client.py` | `cmd_queue`, `redis_queue` (128 each), `ws_connections`, `input_configs`, `sequence_configs`; one event loop, four tasks in a TaskGroup | a handler per websocket queues command messages; `command_task` runs them and answers; `opcua_task` polls; `publish_to_redis_task` publishes | any exception ends the process; queues at their limit; replies without an id; commands before the OPC UA session; restarts |
| its **set** command (206-248) | local copies of MCS state and vector | check safe state, toggle the manual trigger, poll five times, write | time of check and of use; toggles that cancel; read-modify-write |
| its **sequence** commands (251-477) | MCS nodes: delay vector, a step (and hold) vector per step | load (a write per node, delays last), download | an end of the process between writes; stale steps behind a shorter program; boundaries |
| its **start, calibration, redline, igniter** commands (479-863) | MCS nodes, `datasource`, the configuration file | write limits, delays, igniters, calibrations, node by node; toggle the trigger of a sequence | values rejected half way; an end of the process between writes; two starts that cancel; the configuration file is overwritten |
| **Sequence editor** `Sequence/components/SequenceTable.vue` | table, `sendDisabled`, `downloadRequested`, `readbackRequested`, a websocket and timers | Send (load, then read back), Load, preload, edits, Start | replies matched by flags; overlap of preload, Load and Send; lost replies |
| **Data API** `BackendAPI/DATA/main.py` | last id per stream, a queue of 128 per browser | read all streams, put into every queue without awaiting, send; keepalives | stalled and closed browsers; order of waiting puts; `$` ids |
| **Backend connection** `BackendConnection/plugin.js` | one websocket, timers, pending request promise | subscribe, request, reconnect | handlers that act on a replaced socket |
| **Control table** `Controll/components/*` | staged transitions, websocket, timers | send staged commands | staged state reset before a send that may fail |
| **TCP adapter** `adapters/tcp/client.py` | like the OPC UA adapter, a serial line | set, get | as above |
| **Start pipeline** `start.py` | progress event, a thread | parse, DNS, swarm, compose, build, push, deploy | the thread exits at any step while the window waits |
| **netdata dictionary** `libnetdata/dictionary/dictionary.c` | a hash index and a list, each with a read/write lock; per item a reference count and a deleted flag; three counters | set, get, dup, release, del, entries, foreach in three modes, garbage collection | counts, flags and counters change by separate atomic instructions; items freed by whoever is last |
| **netdata streaming sender** `streaming/sender.c`, `rrdpush.c` | the buffer and its mutex, the socket, per chart and dimension whether the parent knows it | collectors add definitions and values; the sender connects, sends, reconnects | buffer at its limit; state reset while collectors run; cancelled definitions; a cancelled thread |
| **netdata circular buffer** `libnetdata/circular_buffer` | bytes, two indices, size | add (growing), next, remove | the boundary, wraps, growth of a wrapped ring |
| Other adapters, installers, web server, drawing plugins, vendored OpenMCT, the rest of netdata | - | - | see [below](#what-is-not-modelled) |

What makes them correct, in a sentence each: the adapter answers every queued
message once, in order, with its own entries, and runs commands in order; a set
does not switch a valve in the safe state and does not disturb other valves; a
load leaves either the old program or the new one, or something no more open
than both; the editor's verdict is true and it is never left waiting;
telemetry is neither lost silently, repeated nor reordered; a replaced socket
leaves nothing behind and a view gets a connection again. No thread touches a
dictionary item that was freed, and a foreach misses none; a streaming parent
reads whole messages, the definition of a chart before its values, and
streaming resumes after every failure.

The full list of what is hard to test, each at its line and with the properties
that cover it, is in `PROJECT.json` under `hazards`.

## The modules

| Module | Models | State and actions |
|---|---|---|
| `OpcuaAdapter` | the adapter's process (client.py 20-35, 90-204, 865-966) | one action per stretch of code between two awaits. `process` is "connecting" until `opcua_task` has its session; `HandlerRecv`, `HandlerOverflow`, `HandlerClosedOrTimeout` are the ways an iteration of `websocket_handler` ends; `CommandGet`, `CommandExec`/`CommandIgnored`/`CommandRaises`, `CommandReply`/`CommandReplyFails` are `command_task`; `Poll`/`PollOverflow` and `PublishGet`/`PublishXadd`/`PublishRaises` the telemetry; `Crash` is the end of the TaskGroup, `Start` the restarted container |
| `SetCommand` | `handle_cmd_set` (206-248) | `phase` is the await it is at; between any two, the MCS sees the trigger (`McsSeesTrigger`), changes state (`McsSwitches`) or moves a valve (`McsMoves`) |
| `SequenceStore` | abstract: what loads and downloads promise about a stored program | `Begin`, `Revise` (a step in place), `Commit`, `Abandon` |
| `SequenceLoad` | `handle_cmd_load_sequence` and `handle_cmd_download_sequence` (251-477) | an action per node write (`WriteStep`, `WriteHold`, `WriteRest`, `WriteRestHold`, `WriteDelays`), with `Reject`, `LoadRaises` and `CallRaises`. The refinement mapping to `SequenceStore` is the download itself: `program <- Download` |
| `SequenceTable` | the sequence editor with the connection and the adapter's answers (SequenceTable.vue 225-1018) | clicks, timers, adapter steps and replies; a program is a value, because `SequenceLoad` shows that loads read back. The adapter's part is what `OpcuaAdapter` proves of it: one reply per message, in order |
| `DataApi` | the Data API (main.py) | `XreadCall`, `XreadReturns`, `XreadEmpty` are `redis_task`; `Put`/`PutWaits` a put task's step; `Get`, `SendReturns`, `SendRaises` a handler; `SendKeepalive` `websocket_task` |
| `Reconnect` | how both browser programs replace their sockets (BackendConnection/plugin.js 143-201, ControllTableV2.vue 194-213, 394-456) | a step is a task of the event loop: a timer (`ConnTimeout`, `OpTimeout`), an event of a socket (`Opens`, `Message`, `Fails`, `Aborted`, `CloseEvent`), a view that comes or goes. `client` says which program it is. The specification is `SocketSpec`, made of `SocketInit` and `SocketNext`, so that one module can extend both it and `DataApi` |
| `Dictionary` | netdata's dictionary (dictionary.c 286-297, 560-1032, 1193-1472, 1911-2084) | `pc` is the next atomic instruction of a thread, or locked stretch: `Load`, `Cas`, `CasFails` are item_check_and_acquire, `ReadFlag`, `Decrement`, `Count` item_release, `GcLock`, `GcTry`, `Advance` the collection, `DelCas`, `DelMark`, `Unlink`, `Free` a deletion, `Link` an addition, `Peek`, `Try`, `On` what a foreach does around them |
| `EngineSettings` | load_redlines, load_redline_delays, load_igniters, load_calibs and start_sequence (479-553, 588-699, 768-827), sent by SequenceTable.vue 551-615 and CalibrationTable.vue 154-165 | an action per node write, and per way an iteration of a command's loop ends: `Redline`, `RedlinesEnd`, `RedlineRaises`, `WriteLower`, `WriteUpper`, `WriteTimeout`; `WriteDelays`; `Igniter`, `IgniterRejected`, `IgniterRaises`, `WriteDelay`, `WriteEnabled`; `CalibRow`, `RowSkipped`, `RowRejected`, `WriteOffset`, `WriteSlope`, `Save`; `ReadTrigger`, `WriteTrigger`. `McsLooks` is the MCS's cycle, `Crash` and `Restart` the process |
| `CircularBuffer` | circular_buffer.c | operators: `NewRing`, `Appended`, `Reallocated`, `Removed`, `NextChunk`, `Available`, and `Content`, what the ring holds |
| `StreamSender` | sender.c 33-125, 171-196, 574-656, 736-819, 900-1049 and rrdpush.c 191-406, 577-590, over a `CircularBuffer` | collectors: `Collect`, `Change`, `Lock`, `Define`, `SendValues`, `Cancel`, `Commit`, `Grow`, `Refuse`, `Spawn`; the sender: `Top`, `Zero`, `Connected`, `Flush`, `ResetFlag`, `ResetDims`, `TellCollectors`, `Queue`, `Walk`, `Look`, `Send`, `Check`, `Disconnect`, `Stop`; `ZeroRaced` is the data race of the two |
| `MC*` | values for TLC that a cfg cannot write | - |
| `*_proofs` | theorems and their proofs, a module for each of the above; `Websockets_proofs` has those of `DataApi` and of `Reconnect`, `StreamSender_proofs` also those of `CircularBuffer` | - |

How they fit together: `OpcuaAdapter` keeps commands as kinds; `SetCommand`, `SequenceLoad` and
`EngineSettings` say what they do while it runs them one at a time
(`AppliedInOrder` is what entitles them to model one command after the other);
`SequenceTable` stands on `ReplyOrder` and `Implements`; `DataApi` takes over
where `StreamInOrder` ends, at the Redis stream; `Reconnect` is the browser's
side of that connection, whatever runs on it. `StreamSender` keeps its buffer
in a `CircularBuffer`; the dictionary it walks to find the charts to define is
kept apart: `WalkMissesNothing` is what `Walk` takes from it.

Abstractions that matter:

* Message contents are kinds or model values; keepalives, statistics and
  printing are left out. `Crash` closes all websockets at once (the order in
  which the tasks of a cancelled group end changes nothing the properties see).
* The MCS is not part of the repository. In `SetCommand` it does what it likes
  at any time, also while a toggle is pending, except that it leaves the safe
  state when it acts on an edge of the trigger. In
  `SequenceLoad` it only keeps its nodes.
* `SequenceLoad` has one sequence: the code writes no node of another one, and
  `command_task` runs no two commands at once. Sequences of several instances
  (`redline`, `amount` > 1) differ in node paths only.
* In `SequenceTable`, the timers behind a reconnect are one action
  (`SocketOpens`), enabled whenever the socket is not open; a message the
  adapter executes while the connection dies is executed before it
  (`ConnectionLost`).
* asyncio's queue: a `get` wakes the first waiting put, which runs behind the
  tasks that are ready already; a put that runs before it takes its place, and
  the woken one waits again at the end. This is why `DataApi` keeps `ready`
  apart from `putters`.

* `EngineSettings`: a setting is the number of the message that it comes from.
  Values only matter for whether a command rejects them, and how: a redline is
  not sent, valid, not a number, or without one of its values (which raises); an igniter
  is valid or rejected, or missing (which raises); a row of calibrations is valid or
  not, for a sensor with or without a calibration, with or without nodes. All
  redline sensors have nodes. The steps of the sequences in the same message are `SequenceLoad`'s.
  A restarted container finds the configuration file as it was left, a new one
  as it was deployed.
* `Dictionary`: a step is one atomic instruction on shared memory, or a stretch
  under a lock in which nothing else is shared. The count and the flag that
  item_check_and_acquire reads are one step: the flag is never taken back, so a
  swap that succeeds would have succeeded with both read at once. The writer's
  recursive lock is a mode that is kept (`DropNested`).
* `StreamSender`: a message is one or two units in the ring, so that a partial
  send, a wrap or a full buffer can split a definition. A line carries the
  version of the chart it is about, which tells an old definition from a new
  one. The reset of the indices at line 911 runs without the mutex:
  `ZeroRaced` has the outcomes an interleaved add can produce.
* `Reconnect`: close() of a connection that is not established makes it fail
  (error, then close); of an established one it leads to a close event alone, as
  browsers do. The 1.5 and 2 seconds of the timers appear in one place: the
  failure of an attempt that was given up is reported before the next timer fires.

## The runs

| Run | Shows |
|---|---|
| `adapter_core` | `ReplyOrder`, `ReplyEntries`, `AppliedInOrder`, `NoSampleLost`, `StreamInOrder`, and the liveness `AcceptedIsAnswered` |
| `sequence_load` | `EndHolds`, `OpenOrHold`, and the refinement `Implements` |
| `sequence_table` | `FlagsHaveReplies`, `VerdictIsTrue`, and the liveness `SendEnabledAgain` |
| `set_command` | `WriteFollowsReading`, `TogglesAreSeen`, `OthersKept`, and the liveness `SetEnds` |
| `data_api` | `FetchedWithoutGap`, `InOrderUnlessFull`, `NoPacketLost`, and the liveness `ClosedIsRemoved`, `NewIsFetched` |
| `engine_settings` | `WritesAsDefined`, `EnabledWithDelays`, `MemoryIsMcs`, `EdgeMeansOdd` |
| `reconnect` | `OnlyCurrentIsLive`, `OneTimer`, `NeverSpoiledTwice`, and the liveness `Reconnects` |
| `dictionary` | `NoUseAfterFree`, `RefcountIsHolders`, `IndexedIsUsable`, `CountersExact`, `GarbageIsCounted`, `WalkMissesNothing`, and the liveness `CallsReturn` |
| `stream_sender` | `StreamIsWhole`, `ExposedIsSent`, `ValuesAfterDefinition`, and the liveness `Resumes` |
| `adapter_disconnect` | violated `AdapterSurvives`: a browser that is gone when its answer is sent ends the adapter (client.py 204) |
| `set_in_safe` | violated `NoSwitchingInSafe`: a valve is written in the safe state, against the comment in client.py 229 |
| `false_verified` | violated `VerifiedIsReal`: a download's reply that comes after a Send replaces the table that was sent, and the reply behind it, compared with that, is equal |

Type invariants are proved, and therefore not among the properties of the runs.
Every safety property of a passing run, and the refinement, is proved as well:
the runs show them falsifiable, and the liveness properties.

Each property of a passing run is also shown to be falsifiable: `PROJECT.json`
names, per property, a definition and a plausible wrong version of it
(`Mutant...` in the modules) under which TLC finds the property violated.

### Bounds

* `adapter_core`: two connections with two messages each, a message being
  `<set, download>` (dropped and raising commands both occur before the session
  is up), queues of one slot, two samples, one restart, failing backends.
  One-slot queues make the overflow paths frequent; two connections are what is
  needed for messages of others to be queued in between. The queue sizes are 128 in
  the code: the theorems hold for any.
* `adapter_disconnect`: the same, backends never fail and Redis' queue has room for every sample,
  so that only browsers can end the process.
* `sequence_load`: three step nodes, two valves, holds, a delay vector one
  element shorter than the steps (the shape of the campaign configurations),
  three loads: a program, an interrupted one over it, another. The requests
  cover no step, one, two, all nodes, one too many, an unknown value, a zero
  duration, a missing output. The order of loads is arbitrary.
* `sequence_table`: a primary and a purge sequence, two acceptable programs
  and the empty table, three clicks, one edit, one lost connection, plus the
  preload's two downloads: up to five requests overlap.
* `set_command`: two indexed inputs and one of its own, an unknown key, two sets, two steps of the MCS's own, a
  restart, and the code's five polls.
* `engine_settings`: two redlines, two igniters and three sensors, one of them
  without nodes; two messages of thirteen contents that cover every outcome of each
  command at the first and the last place, and once all together; two starts, one end of the
  process. Two of each make a prefix that is neither empty nor whole; a message
  over what an ended or rejected one left needs two messages.
* `data_api`: one stream with two entries, two browsers, queues of one slot;
  a keepalive is put only into an empty queue (`MaxBacklog`), so three messages
  compete for a slot, enough for a put to wait and to be overtaken. The process
  may end any number of times.

* `reconnect`: both programs, four socket objects alive at a time (an object
  whose close was delivered is used again), at most one connection timer that
  outlived its view when another view goes; everything else is unbounded.
* `dictionary`: two names, two items, two threads. The first sets twice, deletes
  twice and hands one reference over; the second gets, deletes, asks for the
  entries and walks in each mode, so that every pair of acquire, release,
  deletion, collection and walk overlaps.
* `stream_sender`: one chart with one dimension and one collector thread beside
  the sender, a ring of two units that grows to four, two failures (of a
  connection or the thread), one change of the definition. A definition has two
  units and the ring holds three, so it wraps and overflows within a few steps.
  A second collector adds only that one of two finds the sender started already;
  otherwise they exclude each other by the mutex, and a chart belongs to one.
  The safety properties are proved for any number of charts and collectors.

`CHECK_DEADLOCK FALSE` stands in the cfgs whose bounded instances stop
when messages, clicks, loads, polls or calls are used up; `reconnect` and
`stream_sender` never stop.

### What the violations show

`adapter_disconnect`: connect, send, close; the command runs; `ws.send` raises
`ConnectionClosed`, nothing in `command_task` catches it, the TaskGroup ends. A
page closed while its command runs is enough, and every browser loses its
queued commands.

`false_verified`: downloads are requested by Load and by the preload, and nothing
keeps the operator from clicking Send before they are answered. The trace: the table is
the empty one, which the adapter rejects; Load and the preload each request a download; Send is
clicked; the adapter answers both downloads with the MCS's program before it takes the
load. The first answer finds `downloadRequested`, clears it and puts the MCS's program
in the place of the table that was sent (SequenceTable.vue 894-896). The second finds `readbackRequested` and is
compared with the table as it is now (925): both are the MCS's program, and the
operator reads "Success: Sequence uploaded and verified." of a sequence that was never stored. With a
rejected sequence one download is enough, the true readback being the second
answer; with an edited table that the adapter accepts it takes the two, and the table shows the old
program, "verified", while the MCS goes on to store the new one. In the other order
(first answer, then Send) the second answer is compared with what was sent, and reports a mismatch if they
differ.

`set_in_safe`: the state is read once; an abort that comes before the write is
not seen. `WriteFollowsReading` says what the code does guarantee.

Further behaviour of the code that is not a run of its own, but that the models have and a reader should know of:

* The verdict on a primary sequence is wrong by construction: `resp.append(await
  handle_cmd_load_igniters(cmd))` (client.py 198) appends `None`, the reply to Send is
  `[null]`, of `length` 1, which SequenceTable.vue 763 lets through. The operator
  reads "readback mismatch" for a sequence that was stored as sent, and the real
  readback is ignored. This is why `VerdictIsTrue` speaks of redline and purge
  sequences only; `FlagsHaveReplies` and `SendEnabledAgain` hold for all three.
* start_sequence toggles the trigger and waits for nothing. Two starts that the
  adapter runs within a cycle of the MCS (two browsers, or two messages that waited behind
  a set) leave the trigger as it was, and both operators have read "Sequence
  initiated." (SequenceTable.vue 613): `EdgeMeansOdd` says exactly that.
* load_calibs writes the data source alone to the configuration file (client.py 552-553)
  where parse_eq_config expects it in the list `datasources` (97): a process that
  starts again on this file stays down until it gets a new container (`Restart`). Where the file
  is mounted read-only, the open of line 552 raises and ends the process.
* A rejected igniter behind a valid one leaves the valid one's new delay with the old
  enabled values (client.py 797-818): the excuse `cut` of `EnabledWithDelays`, which
  the next load that ends takes back.
* `InOrderUnlessFull` fails without its condition. Once a browser's queue has
  been full, packets may reach it out of order.

Two more things the code does that no document denies, but that a reader of the
netdata sources should know. `rrdpush_send_chart_definition` marks the chart as
exposed (rrdpush.c 211) before rrdset_done_push knows whether there are values;
if no dimension was updated, `sender_cancel` (405) drops the definition and the
mark stays. Until the next change or connection, values of this chart reach a parent that does not know
it: the excuse "cancelled" in `ExposedIsSent` and `ValuesAfterDefinition`. The
comment in rrd.h 484 says of the flag "if set, we have sent this chart definition
to netdata parent". And a collector that passed the check at rrdpush.c 374
before the connection was lost may commit between the flush and the reset of
the charts of the next one: the excuse "stale". Its message is a whole one, as
`StreamIsWhole` says, but of the connection before: the comment at rrdpush.c 535,
"any spurious data is wiped on reconnection", holds of what was in the buffer at
the flush, and not of what is committed behind it.

In `Dictionary`, `GarbageIsCounted` holds only while no deletion overlaps the
flag check of an acquire or release of the same item (history variable
`raced`): then pending_deletion_items is off by one for good, and items are
collected late or the list is searched in vain. Nothing worse: `NoUseAfterFree`
and the other properties hold with and without it.

## Fairness

* `OpcuaAdapter`: weak fairness of `command_task`, `publish_to_redis_task` and
  of a handler that has a message: asyncio runs every ready task, and backend
  calls return or raise. Clients, polls and timeouts are not forced.
* `SetCommand`: weak fairness of the set itself. The MCS is not obliged to
  anything, so `SetEnds` rests on the poll counter alone.
* `EngineSettings` has no liveness property and no fairness: every command is a bounded loop.
* `SequenceTable`: weak fairness of the adapter's step and of `onmessage` while
  the socket is open. Clicks, timers, losses and reconnects are not forced.
* `DataApi`: weak fairness of the reads, the keepalives, the puts, the gets and
  of a send that raises; none of a send that returns: a browser may never
  receive. A process that ended need not come back.

* `Reconnect`: weak fairness of timers, events that are due and the mount; strong
  fairness of a current socket that opens: a backend that is tried again and
  again lets a connection open before its timer at some time.
* `Dictionary`: weak fairness of a call under way and of ending a foreach: the
  scheduler runs every thread. The locks need no more, because they are not
  taken again and again in the bounded instance.
* `StreamSender`: weak fairness of a thread's own steps; strong fairness of what
  needs the mutex, which is held for a stretch without waits, of the attempt to
  connect and of a send: a parent can be reached and reads at some time. Without
  it `Resumes` cannot hold for any code.

## The proofs

Checked by tlapm for every value of the constants, from the modules' named
assumptions only (sizes positive, bounds natural, command lists are sequences,
indexed keys are keys; `None`, which a unit of the ring may be, is not a line;
`"null"`, which the variable of a socket may be, is not a socket; the programs an
editor may send are among those that exist; the rows of a calibration table name
sensors that exist or none).

Each proof has the same outline: an inductive invariant, which holds initially
(`...Init`), is kept by every step, with a case per action (`...Step`), and implies the
property. TLC has checked the invariants before they were proved. In the
following, why each property needs more than itself.

`OpcuaAdapter_proofs`

* `TypeCorrect`: `Spec => []TypeOK`. Inductive as it stands; the other proofs
  use it.
* `TelemetryCorrect`: `StreamInOrder /\ NoSampleLost`, by `SampleInv`: the samples in
  the stream, the one being added and those in the queue are in ascending order across
  the three places, none is above `polled`, and every sample since the start is in one of
  them. The order within the stream alone is not inductive: it
  needs what will be appended to be above what is there, also after a crash,
  when the lost samples leave a hole that is never filled.
* `CommandOrder`: `AppliedInOrder`, by `TicketInv`: tickets ascend through `cmd_queue`, all queued ones
  are above the current one, what was applied is below the current command.
* `ReplyNumbering`: `ReplyOrder`, the longest argument. A message's number must
  follow it through `inbox`, `cmd_queue`, `current` and `replies` per
  connection: `ReplyInv` says that inboxes hold consecutive numbers up to
  `sent`, that the current message is the next to be answered, that queued ones
  ascend without a gap (`NoGapBefore`), and that the inbox goes on where the
  queue ends while the handler runs (`HandlerContinues`). Overflow ends the
  handler, so a number can be missing only at the end of a connection: this is
  the point where dropping a message and going on would break it.
* `EntriesAreOwn`: `ReplyEntries`, by `EntriesInv`: the response command_task is building has one
  entry for each download before `pos`. That a prefix one command longer has at most one download more
  is `OneMoreCommand`, from the library's facts on finite sets.

`SetCommand_proofs`

* `TypeCorrect`: `TypeOK`; the poll counter stays in `1..RetryCounter`.
* `WriteIsGuarded`: `WriteFollowsReading`.
* `EdgesAreSeen`: `TogglesAreSeen`. A set toggles only when it has read the safe
  state. With none of the excuses, the MCS is still there when it toggles, and only
  the edge takes it out, so that the poll reads the manual state with no toggle
  pending: `EdgeInv` says so of the set from its reading to the end of its poll. The excuses are the three ways
  in which a toggle stays pending: a set gave up on it, the adapter ended, or the
  MCS left the safe state by itself, which satisfies the poll as well. They
  are forgotten when a set begins with no toggle pending.
* `OnlyMovesAreLost`: `OthersKept`.

`SequenceLoad_proofs`

* `TypeCorrect`: `TypeOK`, with `HoldIsOfStep` (a hold node is written only for
  a step the MCS has): no write goes past the last node.
* `LastStepHolds`: `EndHolds`; `NeverOpenAndHold`: `OpenOrHold`. Both speak of a
  load that ended, so neither is inductive. `LoadInv` says what the nodes
  written so far hold (`StepsWritten`, `HoldsWritten`), that the last step is
  already among them when its copy is made, and that a sequence without hold
  vectors has its hold nodes closed. What an interrupted load left in the other
  nodes does not matter: the next load that ends has written all of them.
* `LoadsAreStores`: `Implements`, the refinement of `SequenceStore` under
  `program <- Download`. What a download reads is found by its first zero
  duration (`DownloadLen`, a CHOOSE). `ProgramInv` says what makes it a function of the
  nodes: the delay vector is positive from the second up to some step and zero
  behind it (`Profile`; the first duration is not looked at), also in the copy that a load under way is filling
  (`DelaysWritten`), and the last step node has no duration (`LastIsZero`). Then a
  download of `n` steps is the function of the first `n` nodes
  (`ProgramRead`), and each action of the load has one image: `WriteStep`, `WriteRest`,
  `WriteHold` and `WriteRestHold` revise one step inside of the program or stutter
  behind it, `WriteDelays` commits, `Reject` stutters, the failures abandon. That a revised step opens
  nothing that neither program opens needs `LoadInv`: the copy behind
  the last step is a copy of what was written already.

`StreamSender_proofs`, first on the ring: for any ring, `Content` is a queue. `AddedAtTheEnd`,
`RemovedFromTheFront` and `GrowthKeepsContent` say so of the functions of
circular_buffer.c, in any position of the indices; `ChunkIsBeginning`
says that what cbuffer_next_unsafe returns is the front of it. They rest on two
lemmas about positions: the index of the i-th used unit is inside of the
ring, and different units have different indices (`Positions`).

Then on `StreamSender`, for any number of charts, collectors, failures and
changes and any buffer sizes. The invariant is built in layers, each of which
uses those before it:

1. `Placed`: the types, which chart a thread works on, and that the thread at a
   locked place is the one that owns the mutex. `TypeCorrect` needs no more.
2. `Sockets`: in which places the sender has a socket, and when the charts are
   reset; a collector that passed the check for a connection still has one or is
   in `stale`.
3. `Built`: what the thread with the mutex has built is the definition, the
   values, or both, of the chart it works on.
4. `StreamOK`: what was sent is a run of whole messages and the beginning of one,
   which the ring completes. Here the lemmas on the ring are used, and that
   an add either takes a whole build or sets the overflow that ends the connection:
   `StreamStaysWhole`.
5. `Exposed`: a marked chart's current definition is read, in the ring, about to be
   committed, or lost for a reason in `excused`: `ExposureIsTrue`.
6. `Groups`: before each values in the stream there is its definition or an
   excuse, in the stream seen as what the parent read followed by the ring:
   `DefinedBeforeValues`. It is not inductive without `Exposed`, since values
   are built from the mark alone.

`Dictionary_proofs`: all safety properties of `Dictionary`, for any finite set of threads, any names and any
number of items and calls (`ThreadsAssumption`, `BoundsAreNat`). A step has 27
cases, and most properties need the same facts about where a thread is; they
are proved once, in layers (lemma `Consistency`):

1. `Placed`: the types; a thread with a write lock is alone with that lock
   (`Exclusive`); and for each thread (`Flow`) which places its call
   can be at, which locks it has there, how far its foreach is, which
   references it owns and what it points to.
2. `Counting`: a reference count is the number of holders, or `Deleting`, and
   then there are none. A holder is a place in the code, so each step that
   changes the count moves exactly one thread into or out of such a place.
3. `Stored`: the index has an item at most once; the list is what was made, not
   freed and not on its way in or out; what is indexed is neither marked nor
   being deleted; what is freed has the count `Deleting`. The latter is why
   a compare-and-swap that read an old count cannot revive it.
4. `Uses`, of each thread: what it knows of the item it points to without a
   reference (the lock it has keeps it listed, or it has won the count).
5. `OneRemover`: no two threads remove the same item. Without it a
   collection could free what a deletion is about to unlink.

`NothingFreedIsUsed`, `CountsAreTrue` and `FoundIsUsable` follow from the five.
`CountersAreExact` compares what a step adds to and takes from each counter with what it
adds to and takes from the set that the counter counts. `GarbageIsKnown` needs more:
an item that left the index is marked, freed or in a deletion under way
(`Accounted`), a thread that saw the flag of an item releases a marked item
(`SawFlag`), and `pending` is the number of marked items without references less
the releases that are still to count theirs (`Collectible`). `NothingIsMissed`: what a
foreach still owes is in the dictionary (`Owed`), and in the list it comes after
the item the foreach is at (`Ahead`): the list only ever gets longer at its end,
taking an item out keeps the order of the others, and the walker's reference
or lock keeps its own item in the list.

`EngineSettings_proofs`, for any number of redlines, igniters, sensors, messages
and starts. `TypeCorrect` says with the types where a command can be
and what it has found there (`PlaceOK`: a write of a limit is that of a valid or
unsent redline, a write of an offset that of a valid row with nodes).

* `EdgesAreOdd`: `EdgeMeansOdd`. Between its read and its write, a start
  knows the trigger still, since no other command runs.
* `EnabledBelongs`: `EnabledWithDelays`. It says nothing while a load of igniters
  is under way; `EnabledInv` does: the delays before the current igniter are
  the message's, and at the first igniter the old ones are still those of what is enabled.
* `RememberedIsWritten`: `MemoryIsMcs`. `MemoryInv` goes through a limit's three
  writes, a delay's one and a calibration's two: the memory is
  new before the first of them (client.py writes `datasource`, then the
  nodes), so each of them brings one more node in line.
* `WritesAreDefined`: `WritesAsDefined`. `Done` is the number of writes that
  have their turn before the place a command is at, `WrittenInv` that just these
  have been made. A rejected value skips the others of its list: that none was rejected before
  the current place (`ReachedInv`) is what makes the writes defined
  from the message alone the ones that were made.

`SequenceTable_proofs`, for any set of programs and any number of clicks, edits and
lost connections.

* `FlagsAreMatched`: `FlagsHaveReplies`. The invariant counts
  the messages that will be answered with a program and the replies that carry one
  (`Coming`); most of the proof is how the count changes when the wire is
  appended to or taken from (`Hits`): a step of the adapter moves one from one
  side to the other, a reply that is taken clears a flag, if one is set.
* `VerdictIsDeserved`: `VerdictIsTrue`. An undisturbed Send is in one of four
  stages (`LoadPending`, `DownloadPending`, `ReadbackPending`,
  `NothingPending`), each with the exact contents of the wire, and a verdict is
  there only in the last.

`Websockets_proofs`, on `DataApi`, for any number of streams, entries, browsers
and packets and any queue size.

* `NoGapIsRead`: `FetchedWithoutGap`. `FetchedInv`: the saved id is that of the last entry
  read, and a read under way began behind it.
* `OrderIsKept` and `NothingIsLost`: `InOrderUnlessFull` and `NoPacketLost`. What a
  browser received, what is being sent, the queue, the woken puts and the
  waiting ones are five variables; seen as one sequence, the connection's `Path`,
  most steps do not change it. A step adds the newest packet or a
  keepalive, in front of waiting puts; a keepalive that is sent leaves;
  a put that finds no room goes to the end. `PathInv` is what these four changes
  keep: each packet is there once, none that is due is missing, and as long as the
  queue has had room nothing waits and packets ascend. Not the path but only its last
  part is out of order after an overflow, which is why order needs the condition and completeness does not.

On `Reconnect`, for both programs and any finite number of sockets:
`OneSocketIsLive`, `OneTimerRuns` and `SpoiledAtMostOnce` are
`OnlyCurrentIsLive`, `OneTimer` and `NeverSpoiledTwice`, by one invariant
`SocketsInv`. None of them is inductive alone: that a timer which fires belongs to the
current socket needs `TimerInv`, that a new socket meets no live one needs
`LiveInv`, and that a spoiled attempt is not followed by another needs that after one no other
socket is still being given up (`SpoilInv`).

Model-checked only: the liveness properties `AcceptedIsAnswered`,
`SendEnabledAgain`, `SetEnds`, `ClosedIsRemoved`, `NewIsFetched`, `CallsReturn`,
`Reconnects` and `Resumes`: the prover has no ENABLED, so that fairness is out of its
reach. The properties of the three runs that expect a violation are false. No
recursive operator occurs in any module.

## What is not modelled

* Vendored code (`webserver/src`, OpenMCT; most of `adapters/netdata`: an agent of 217,000 lines
  of C, of which three concurrent cores are modelled and the collectors, the
  database, the web server and the health engine are not), the drawing and
  branding plugins, the web server: not this project's logic, or no behaviour
  over time.
* `install.py`, `dev_install.py`: scripts that call package managers and ssh.
* The legacy JavaScript backends and `adapters/opcua_legacy`: replaced by the
  Python processes.
* `start.py`: the start pipeline is ten functions in a row in one thread. sys.exit in it ends
  the thread alone: the window then waits for its event forever, or says "Start
  Complete" (443) when nothing was deployed. One failing step shows this; a model
  would add nothing.
* The calibration table beyond its sending, and the TCP adapter: see the plan.
* One-way adapters (WTW, APRS, locating, benchmark) and video.
* Number formatting, node paths, TLS, the contents of telemetry, OPC UA itself.
* Not yet: see the plan.

## The plan

In order; what the operator relies on first.

1. *Done*: `OpcuaAdapter`, `SequenceStore`/`SequenceLoad` with the refinement,
   `SequenceTable`, `SetCommand`, `DataApi`, `Reconnect`, `EngineSettings`, `Dictionary`,
   `CircularBuffer` and `StreamSender`, all with proofs of their safety properties.
2. Composition: `SequenceTable` for two browsers over `OpcuaAdapter`'s queue, with Start.
3. The calibration table over `EngineSettings`: its edits, and replies that replace them.
4. `TcpAdapter`, as far as it differs from the OPC UA adapter.
5. Proofs: what 2 to 4 state, and shorter proofs of the steps that many invariants share,
   such as a command's in `EngineSettings_proofs`.
