---------------------------- MODULE StreamSender ----------------------------
(***************************************************************************)
(* streaming/sender.c and streaming/rrdpush.c: the collector threads put    *)
(* the definitions and the collected metrics of their charts in a buffer,   *)
(* and the sender thread connects to the parent and sends it the buffer.    *)
(*                                                                         *)
(* A chart has one dimension and is collected by one thread.  A definition  *)
(* is two units in the buffer, its CHART and DIMENSION lines, and a BEGIN,  *)
(* SET, END group is one; they carry the version of the chart they are      *)
(* about, which counts the changes to its definition.  Without compression, *)
(* labels and variables; the version that is negotiated has no TIMESTAMP.   *)
(*                                                                         *)
(* The environment: connections fail, end and stall, the sender thread is   *)
(* cancelled, charts become obsolete.  The pipe of rrdset_done_push only    *)
(* ends a wait of poll early, so it is not modelled.                        *)
(***************************************************************************)
EXTENDS CircularBuffer

CONSTANTS
  Collectors,   \* the collector threads
  Sender,       \* the sender thread
  NumCharts,
  CollectorOf,  \* the thread that collects a chart
  Initial,      \* the initial size of the buffer
  MaxFailures,  \* bound: how often a connection ends or the thread is cancelled
  MaxChanges    \* bound: how often the definition of a chart changes

ASSUME ConstantsAssumption ==
  /\ NumCharts \in Nat \ {0} /\ Initial \in Nat \ {0}
  /\ Initial <= MaxSize /\ MaxFailures \in Nat /\ MaxChanges \in Nat
  /\ CollectorOf \in [1 .. NumCharts -> Collectors] /\ Sender \notin Collectors
  /\ None \notin Collectors \cup {Sender}

Charts == 1 .. NumCharts
Threads == Collectors \cup {Sender}

Versions == 0 .. MaxChanges
Lines == [line : {"CHART", "DIMENSION", "SET"}, chart : Charts, version : Versions]
Line(l, c, v) == [line |-> l, chart |-> c, version |-> v]
Definition(c, v) == <<Line("CHART", c, v), Line("DIMENSION", c, v)>>
Values(c, v) == <<Line("SET", c, v)>>

ASSUME NoneAssumption == None \notin Lines \cup (Charts \X Versions)

VARIABLES
  at,           \* per thread, where it is
  chart,        \* per thread, its chart: of the sender, where dictfe or the reset is
  purpose,      \* per thread, "collect": rrdset_done_push; "push": ..._definition_now
  mutex,        \* sender->mutex: the thread that holds it
  build,        \* sender->build
  ring,         \* sender->buffer
  overflow,     \* sender->overflow
  connected,    \* rrdpush_sender_connected
  collecting,   \* RRDHOST_FLAG_STREAM_COLLECTED_METRICS
  socket,       \* is rrdpush_sender_socket open?
  definitions,  \* sending_definitions_status
  version,      \* per chart, how often its definition has changed
  flag,         \* per chart, RRDSET_FLAG_UPSTREAM_EXPOSED
  dims,         \* per chart, rd->exposed
  parent,       \* what the parent read on this connection: the definitions, as pairs of
                \* chart and version, and the one whose first line was last
  stale,        \* history: collectors that found a connection that has ended since
  excused,      \* history: why a chart's definition need not be on this connection
  failures

conn == <<connected, collecting, socket, parent>>
lockVars == <<mutex, build>>
exposure == <<version, flag, dims>>
ghosts == <<stale, excused>>
vars == <<at, chart, purpose, lockVars, ring, overflow, conn, definitions, exposure, ghosts, failures>>

\* Places in rrdset_done_push and rrdset_push_chart_definition_now, which hold the mutex ...
Locked == {"dims", "values", "commit"}
CollectorPlaces == {"idle", "spawn", "lock"} \cup Locked
\* ... and in rrdpush_sender_thread.
SenderPlaces ==
  {"off", "top", "zero", "connect", "flush", "reset", "resetDims", "ready",
   "defs", "walk", "lock", "look", "wait", "send", "check"} \cup Locked

NewParent == [defined |-> {}, half |-> None]
Excuses == {"cancelled", "refused", "stale"}

Types ==
  /\ at \in [Threads -> CollectorPlaces \cup SenderPlaces]
  /\ chart \in [Threads -> 0 .. NumCharts + 1]
  /\ purpose \in [Threads -> {"collect", "push"}]
  /\ mutex \in Threads \cup {None} /\ build \in Seq(Lines)
  /\ IsRing(ring, Lines) /\ overflow \in BOOLEAN
  /\ connected \in BOOLEAN /\ collecting \in BOOLEAN /\ socket \in BOOLEAN
  /\ definitions \in {"restart", "continue", "done"}
  /\ version \in [Charts -> Versions] /\ flag \in [Charts -> BOOLEAN] /\ dims \in [Charts -> BOOLEAN]
  /\ stale \subseteq Collectors /\ excused \subseteq Excuses \X Charts
  /\ failures \in 0 .. MaxFailures
  /\ \A t \in Threads : at[t] \in Locked <=> mutex = t

TypeOK ==
  /\ Types
  /\ parent \in [defined : SUBSET (Charts \X Versions), half : (Charts \X Versions) \cup {None}]

Init ==
  /\ at = [t \in Threads |-> IF t = Sender THEN "off" ELSE "idle"]
  /\ chart = [t \in Threads |-> 0] /\ purpose = [t \in Threads |-> "push"]
  /\ mutex = None /\ build = <<>>
  /\ ring = NewRing(Initial) /\ overflow = FALSE
  /\ connected = FALSE /\ collecting = FALSE /\ socket = FALSE
  /\ definitions = "restart"
  /\ version = [c \in Charts |-> 0] /\ flag = [c \in Charts |-> FALSE] /\ dims = [c \in Charts |-> FALSE]
  /\ parent = NewParent /\ stale = {} /\ excused = {}
  /\ failures = 0

-----------------------------------------------------------------------------
(* The collector threads.                                                  *)

Goto(t, place) == at' = [at EXCEPT ![t] = place]

\* Mutant: the sender thread is not started again.
NotStartedAgain(t) ==
  /\ Goto(t, IF at[Sender] = "off" /\ failures = 0 THEN "spawn" ELSE "idle")
  /\ stale' = stale \ {t} /\ UNCHANGED excused

\* rrdset_done_push when there is no connection, or its definitions are not sent yet.
NotReady(t) ==
  /\ Goto(t, IF at[Sender] = "off" THEN "spawn" ELSE "idle")
  /\ stale' = stale \ {t} /\ UNCHANGED excused

\* rrdset_done_push: the chart was collected.  While collecting is true, connected is.
Collect(t) ==
  /\ at[t] = "idle" /\ \E c \in Charts : CollectorOf[c] = t /\ chart' = [chart EXCEPT ![t] = c]
  /\ purpose' = [purpose EXCEPT ![t] = "collect"]
  /\ IF connected /\ collecting THEN Goto(t, "lock") /\ UNCHANGED ghosts ELSE NotReady(t)
  /\ UNCHANGED <<lockVars, ring, overflow, conn, definitions, exposure, failures>>

\* The definition changes.  rrdset_is_obsolete pushes it; other changes, and those of a
\* dimension, wait for the chart to be collected.
Change(t) ==
  /\ at[t] = "idle"
  /\ \E c \in Charts :
       /\ CollectorOf[c] = t /\ version[c] < MaxChanges
       /\ version' = [version EXCEPT ![c] = @ + 1] /\ flag' = [flag EXCEPT ![c] = FALSE]
       /\ \/ /\ Goto(t, "lock") /\ chart' = [chart EXCEPT ![t] = c]
             /\ purpose' = [purpose EXCEPT ![t] = "push"] /\ UNCHANGED dims
          \/ dims' = [dims EXCEPT ![c] = FALSE] /\ UNCHANGED <<at, chart, purpose>>
  /\ UNCHANGED <<lockVars, ring, overflow, conn, definitions, ghosts, failures>>

\* rrdpush_sender_thread_spawn, and the start of the thread.
Spawn(t) ==
  /\ at[t] = "spawn" /\ mutex = None
  /\ at' = [at EXCEPT ![t] = "idle", ![Sender] = IF @ = "off" THEN "top" ELSE @]
  /\ IF at[Sender] = "off"
     THEN definitions' = "restart" /\ collecting' = FALSE /\ connected' = FALSE
     ELSE UNCHANGED <<definitions, collecting, connected>>
  /\ UNCHANGED <<chart, purpose, lockVars, ring, overflow, socket, parent, exposure, ghosts, failures>>

-----------------------------------------------------------------------------
(* Building and committing, by collectors and the sender.                  *)

\* sender_start; then need_to_send_chart_definition, and the flag that
\* rrdpush_send_chart_definition sets first.
Lock(t) ==
  /\ at[t] = "lock" /\ mutex = None /\ mutex' = t /\ build' = <<>>
  /\ IF purpose[t] = "collect" /\ flag[chart[t]]
     THEN Goto(t, "values") /\ UNCHANGED flag
     ELSE Goto(t, "dims") /\ flag' = [flag EXCEPT ![chart[t]] = TRUE]
  /\ UNCHANGED <<chart, purpose, ring, overflow, conn, definitions, version, dims, ghosts, failures>>

\* The rest of rrdpush_send_chart_definition: the lines, and the dimension is exposed.
Define(t) ==
  /\ at[t] = "dims" /\ Goto(t, IF purpose[t] = "collect" THEN "values" ELSE "commit")
  /\ dims' = [dims EXCEPT ![chart[t]] = TRUE]
  /\ build' = build \o Definition(chart[t], version[chart[t]])
  /\ UNCHANGED <<chart, purpose, mutex, ring, overflow, conn, definitions, version, flag, ghosts, failures>>

\* The end of sender_commit and sender_cancel, and where the thread goes on.
Unlocked(t) ==
  /\ mutex' = None /\ build' = <<>>
  /\ Goto(t, IF t = Sender THEN "defs" ELSE "idle")
  /\ definitions' = IF t = Sender THEN "continue" ELSE definitions
  /\ stale' = stale \ {t}

Defines == \E i \in DOMAIN build : build[i].line = "CHART"
Excuse(reason, t) == excused' = excused \cup {<<reason, chart[t]>>}

\* rrdpush_send_chart_metrics_nolock with a collected value of an exposed dimension.
SendValues(t) ==
  /\ at[t] = "values" /\ dims[chart[t]] /\ Goto(t, "commit")
  /\ build' = build \o Values(chart[t], version[chart[t]])
  /\ UNCHANGED <<chart, purpose, mutex, ring, overflow, conn, definitions, exposure, ghosts, failures>>

\* ... and without: nothing was collected, or the dimension is to be defined first.
Cancel(t) ==
  /\ at[t] = "values"
  /\ \/ UNCHANGED flag
     \/ ~dims[chart[t]] /\ flag' = [flag EXCEPT ![chart[t]] = FALSE]
  /\ IF Defines THEN Excuse("cancelled", t) ELSE UNCHANGED excused
  /\ Unlocked(t)
  /\ UNCHANGED <<chart, purpose, ring, overflow, conn, version, dims, failures>>

\* The values of a collector whose connection has ended may go out without a definition.
Stray(t) == IF t \in stale /\ ~Defines THEN Excuse("stale", t) ELSE UNCHANGED excused

\* sender_commit: cbuffer_add_unsafe.
Commit(t) ==
  /\ at[t] = "commit" /\ Fits(ring, Len(build))
  /\ ring' = Appended(ring, build)
  /\ Stray(t) /\ Unlocked(t)
  /\ UNCHANGED <<chart, purpose, overflow, conn, exposure, failures>>

Grow(t) ==
  /\ at[t] = "commit" /\ ~Fits(ring, Len(build)) /\ CanGrow(ring)
  /\ ring' = Reallocated(ring)
  /\ UNCHANGED <<at, chart, purpose, lockVars, overflow, conn, definitions, exposure, ghosts, failures>>

\* Mutant: a full buffer goes unnoticed.
RefuseSilently(t) ==
  /\ at[t] = "commit" /\ ~Fits(ring, Len(build)) /\ ~CanGrow(ring)
  /\ IF Defines THEN Excuse("refused", t) ELSE UNCHANGED excused
  /\ Unlocked(t)
  /\ UNCHANGED <<chart, purpose, ring, overflow, conn, exposure, failures>>

Refuse(t) ==
  /\ at[t] = "commit" /\ ~Fits(ring, Len(build)) /\ ~CanGrow(ring)
  /\ overflow' = TRUE
  /\ IF Defines THEN Excuse("refused", t) ELSE UNCHANGED excused
  /\ Unlocked(t)
  /\ UNCHANGED <<chart, purpose, ring, conn, exposure, failures>>

-----------------------------------------------------------------------------
(* The sender thread.                                                      *)

\* rrdpush_sender_thread_close_socket
CloseSocket ==
  /\ collecting' = FALSE /\ connected' = FALSE /\ socket' = FALSE
  /\ stale' = stale \cup {t \in Collectors : /\ at[t] \in Locked \cup {"lock"}
                                             /\ purpose[t] = "collect"}
  /\ UNCHANGED <<parent, excused>>

\* The head of the loop.
Top ==
  /\ at[Sender] = "top"
  /\ IF socket
     THEN /\ Goto(Sender, IF definitions = "done" THEN "look" ELSE "defs")
          /\ UNCHANGED <<definitions, collecting, overflow>>
     ELSE /\ Goto(Sender, "zero")
          /\ definitions' = "restart" /\ collecting' = FALSE /\ overflow' = FALSE
  /\ UNCHANGED <<chart, purpose, lockVars, ring, connected, socket, parent, exposure, ghosts, failures>>

\* Mutant: what is left in the buffer is taken over from the connection before.
ZeroNothing ==
  /\ at[Sender] = "zero" /\ Goto(Sender, "connect")
  /\ UNCHANGED <<chart, purpose, lockVars, ring, overflow, conn, definitions, exposure, ghosts, failures>>

\* The buffer's indices are reset, without the mutex.
Zero ==
  /\ at[Sender] = "zero" /\ Goto(Sender, "connect")
  /\ ring' = [Removed(ring, Used(ring)) EXCEPT !.read = 0, !.write = 0]
  /\ UNCHANGED <<chart, purpose, lockVars, overflow, conn, definitions, exposure, ghosts, failures>>

\* A commit at the same time as the reset of the indices: its new write index was computed
\* before or after the reset, and stored before or after it.  Likewise for a growth.
ZeroRaced(t) ==
  /\ at[Sender] = "zero" /\ at[t] = "commit"
  /\ \/ /\ Fits(ring, Len(build))
        /\ LET added == Appended(ring, build) IN
             \E w \in {0, added.write, Len(build)} : ring' = [added EXCEPT !.read = 0, !.write = w]
        /\ Stray(t) /\ mutex' = None /\ build' = <<>> /\ stale' = stale \ {t}
        /\ at' = [at EXCEPT ![Sender] = "connect", ![t] = "idle"]
     \/ /\ ~Fits(ring, Len(build)) /\ CanGrow(ring) /\ ring' = Reallocated(ring)
        /\ Goto(Sender, "connect") /\ UNCHANGED <<lockVars, ghosts>>
  /\ UNCHANGED <<chart, purpose, overflow, conn, definitions, exposure, failures>>

\* Mutant: the collectors are told before the charts are reset.
ConnectedTooEarly ==
  /\ at[Sender] = "connect" /\ Goto(Sender, "flush")
  /\ socket' = TRUE /\ parent' = NewParent /\ connected' = TRUE /\ collecting' = TRUE
  /\ UNCHANGED <<chart, purpose, lockVars, ring, overflow, definitions, exposure, ghosts, failures>>

\* attempt_to_connect
Connected ==
  /\ at[Sender] = "connect" /\ Goto(Sender, "flush")
  /\ socket' = TRUE /\ parent' = NewParent
  /\ UNCHANGED <<chart, purpose, lockVars, ring, overflow, connected, collecting, definitions, exposure, ghosts, failures>>

NotConnected ==
  /\ at[Sender] = "connect" /\ Goto(Sender, "top")
  /\ UNCHANGED <<chart, purpose, lockVars, ring, overflow, conn, definitions, exposure, ghosts, failures>>

\* rrdpush_sender_thread_data_flush removes one contiguous part ...
Flush ==
  /\ at[Sender] = "flush" /\ mutex = None /\ Goto(Sender, "reset")
  /\ ring' = Removed(ring, NextChunk(ring))
  /\ excused' = {} /\ chart' = [chart EXCEPT ![Sender] = 1]
  /\ UNCHANGED <<purpose, lockVars, overflow, conn, definitions, exposure, stale, failures>>

\* ... and rrdpush_sender_thread_reset_all_charts does not have the mutex.
ResetFlag ==
  /\ at[Sender] = "reset" /\ Goto(Sender, "resetDims")
  /\ flag' = [flag EXCEPT ![chart[Sender]] = FALSE]
  /\ UNCHANGED <<chart, purpose, lockVars, ring, overflow, conn, definitions, version, dims, ghosts, failures>>

ResetDims ==
  /\ at[Sender] = "resetDims" /\ dims' = [dims EXCEPT ![chart[Sender]] = FALSE]
  /\ chart' = [chart EXCEPT ![Sender] = @ + 1]
  /\ Goto(Sender, IF chart[Sender] = NumCharts THEN "ready" ELSE "reset")
  /\ UNCHANGED <<purpose, lockVars, ring, overflow, conn, definitions, version, flag, ghosts, failures>>

TellCollectors ==
  /\ at[Sender] = "ready" /\ Goto(Sender, "top") /\ connected' = TRUE
  /\ UNCHANGED <<chart, purpose, lockVars, ring, overflow, collecting, socket, parent, definitions, exposure, ghosts, failures>>

\* rrdpush_queue_incremental_definitions: one definition at a time, while half of the
\* buffer is free.
Queue ==
  /\ at[Sender] = "defs" /\ mutex = None
  /\ IF connected /\ definitions # "done" /\ Available(ring) > MaxSize \div 2
     THEN /\ Goto(Sender, "walk")
          /\ chart' = [chart EXCEPT ![Sender] = IF definitions = "restart" THEN 0 ELSE @]
     ELSE Goto(Sender, "look") /\ UNCHANGED chart
  /\ UNCHANGED <<purpose, lockVars, ring, overflow, conn, definitions, exposure, ghosts, failures>>

\* rrdpush_incremental_transmission_of_chart_definitions: the next chart that needs it.
Walk ==
  /\ at[Sender] = "walk"
  /\ IF chart[Sender] >= NumCharts
     THEN definitions' = "done" /\ Goto(Sender, "defs") /\ UNCHANGED chart
     ELSE /\ chart' = [chart EXCEPT ![Sender] = @ + 1] /\ UNCHANGED definitions
          /\ IF flag[chart[Sender] + 1] THEN UNCHANGED at ELSE Goto(Sender, "lock")
  /\ UNCHANGED <<purpose, lockVars, ring, overflow, conn, exposure, ghosts, failures>>

\* What there is to send; nothing, and all definitions are queued: the collectors may begin.
Look ==
  /\ at[Sender] = "look" /\ mutex = None
  /\ Goto(Sender, IF NextChunk(ring) > 0 THEN "send" ELSE "wait")
  /\ collecting' = (collecting \/ (NextChunk(ring) = 0 /\ definitions = "done" /\ connected))
  /\ UNCHANGED <<chart, purpose, lockVars, ring, overflow, connected, socket, parent, definitions, exposure, ghosts, failures>>

\* poll: nothing for a second, or something that needs no more than the check for overflow.
PollReturns ==
  /\ at[Sender] \in {"wait", "send"} /\ \E place \in {"top", "check"} : Goto(Sender, place)
  /\ UNCHANGED <<chart, purpose, lockVars, ring, overflow, conn, definitions, exposure, ghosts, failures>>

\* What the parent knows when it has read these units.
Received(sent) ==
  LET About(i) == <<sent[i].chart, sent[i].version>> IN
  [defined |-> parent.defined \cup
                 {About(i) : i \in {j \in DOMAIN sent : sent[j].line = "DIMENSION"}},
   half |-> IF sent[Len(sent)].line = "CHART" THEN About(Len(sent)) ELSE None]

\* attempt_to_send: a part of the contiguous part.
Send ==
  /\ at[Sender] = "send" /\ mutex = None /\ Goto(Sender, "check")
  /\ \E n \in 1 .. NextChunk(ring) :
       /\ ring' = Removed(ring, n)
       /\ parent' = Received(SubSeq(Content(ring), 1, n))
  /\ UNCHANGED <<chart, purpose, lockVars, overflow, connected, collecting, socket, definitions, exposure, ghosts, failures>>

\* Every way in which a connection ends: POLLERR, a send or read that fails, the parent
\* closes it, nothing could be sent for the timeout.
Disconnect ==
  /\ failures < MaxFailures /\ failures' = failures + 1
  /\ \/ at[Sender] \in {"wait", "send"} /\ Goto(Sender, "check")
     \/ at[Sender] = "top" /\ socket /\ UNCHANGED at
  /\ CloseSocket
  /\ UNCHANGED <<chart, purpose, lockVars, ring, overflow, definitions, exposure>>

\* Protection from overflow.
Check ==
  /\ at[Sender] = "check" /\ Goto(Sender, "top")
  /\ IF overflow THEN CloseSocket ELSE UNCHANGED <<conn, ghosts>>
  /\ UNCHANGED <<chart, purpose, lockVars, ring, overflow, definitions, exposure, failures>>

\* rrdpush_sender_thread_stop, at a point of cancellation, and the clean-up of the thread.
Stop ==
  /\ at[Sender] \in {"top", "wait", "send"} /\ mutex = None
  /\ failures < MaxFailures /\ failures' = failures + 1
  /\ Goto(Sender, "off") /\ CloseSocket
  /\ UNCHANGED <<chart, purpose, lockVars, ring, overflow, definitions, exposure>>

-----------------------------------------------------------------------------
CollectorStep(t) == Collect(t) \/ SendValues(t) \/ Cancel(t)
LockedStep(t) == Define(t) \/ Commit(t) \/ Grow(t) \/ Refuse(t)

\* The steps of the sender without and with the mutex.
SenderStep ==
  Top \/ Zero \/ ResetFlag \/ ResetDims \/ TellCollectors \/ Walk \/ Check \/ LockedStep(Sender)
SenderLocks == Flush \/ Queue \/ Look \/ Lock(Sender)

Next ==
  \/ \E t \in Collectors :
       \/ CollectorStep(t) \/ Lock(t) \/ LockedStep(t)
       \/ Change(t) \/ Spawn(t) \/ ZeroRaced(t)
  \/ SenderStep \/ SenderLocks \/ Connected \/ NotConnected \/ PollReturns \/ Send
  \/ Disconnect \/ Stop

Spec == Init /\ [][Next]_vars

\* Threads go on, and get the mutex, which is held for short times, when they try again and
\* again; charts are collected; a parent can be reached and reads at some time.
FairSpec ==
  /\ Spec
  /\ WF_vars(SenderStep) /\ SF_vars(SenderLocks) /\ SF_vars(Connected) /\ SF_vars(Send)
  /\ \A t \in Collectors :
       WF_vars(CollectorStep(t) \/ LockedStep(t)) /\ SF_vars(Lock(t) \/ Spawn(t))

-----------------------------------------------------------------------------
(* Properties.                                                             *)

\* The buffer was flushed for this connection.
Streaming == socket /\ at[Sender] # "flush"

\* A definition is begun by line k of the buffer, or by what the parent read last.
Begins(k, c, v) ==
  IF k = 0 THEN parent.half = <<c, v>> ELSE Content(ring)[k] = Line("CHART", c, v)

\* The parent reads whole messages: what it read and what is in the buffer never holds a part
\* of a message, whatever a full buffer refused, a wrap split or a partial send left over on
\* this connection or the one before.  (A whole message may be of the connection before: that
\* of a collector in stale, which commits it after the flush.)
StreamIsWhole ==
  Streaming =>
    LET s == Content(ring) IN
    /\ \A k \in DOMAIN s : s[k] \in Lines
    /\ \A k \in 0 .. Len(s), c \in Charts, v \in Versions :
         Begins(k, c, v) <=> k < Len(s) /\ s[k + 1] = Line("DIMENSION", c, v)

\* A chart marked as exposed has its current definition on this connection, sent, in the
\* buffer or being built ("if set, we have sent this chart definition to netdata parent"),
\* unless it was cancelled with a group without values, or the full buffer refused it and
\* the sender is about to connect again, which sends all definitions again.
ExposedIsSent ==
  connected => \A c \in Charts :
    flag[c] => \/ <<c, version[c]>> \in parent.defined
               \/ \E k \in 0 .. Used(ring) : Begins(k, c, version[c])
               \/ \E t \in Threads : mutex = t /\ chart[t] = c
               \/ <<"cancelled", c>> \in excused \/ overflow

\* Values come after the definition of their chart that they were collected under, except
\* those of a collector that passed the check for a connection which has ended since, and
\* of a chart whose definition was lost as above.
ValuesAfterDefinition ==
  Streaming =>
    LET s == Content(ring) IN
    \A k \in DOMAIN s : s[k].line = "SET" =>
      \/ <<s[k].chart, s[k].version>> \in parent.defined
      \/ \E j \in 0 .. k - 1 : Begins(j, s[k].chart, s[k].version)
      \/ \E reason \in Excuses : <<reason, s[k].chart>> \in excused

\* Metrics are streamed again after every failure, overflow and stop.
Resumes == []<>collecting

=============================================================================
