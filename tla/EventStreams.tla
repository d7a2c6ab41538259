---------------------------- MODULE EventStreams ----------------------------
(***************************************************************************)
(* What the server tells about the queue while it works: the hub with the  *)
(* progress of each job, which websockets read, and the event bus, from    *)
(* which the auto-enqueue listener of the pool learns of new media items.  *)
(* Neither ever waits: what does not fit a buffer is dropped.              *)
(*                                                                         *)
(* The queue is here by its specification, JobLifecycle: any transaction   *)
(* may run at any time (TranscodeQueue implements TranscodeStore, and that *)
(* JobLifecycle).  What this module adds is what a caller publishes after  *)
(* its transaction, and who is listening.                                  *)
(***************************************************************************)
EXTENDS JobLifecycle, Naturals, Sequences

CONSTANTS
  Clients,     \* websockets of JobProgress
  Publishers,  \* goroutines of the pool, and requests of remote workers
  Ticker,      \* the goroutine of runWorkerMonitor
  NoItem,      \* no media item, and an event that is about none
  HubBuffer,   \* room of a channel of the hub (16)
  BusBuffer    \* room of a channel of the bus (64)

ASSUME StreamAssumption ==
  /\ Ticker \notin Publishers
  /\ NoItem \notin Media
  /\ HubBuffer \in Nat \ {0} /\ BusBuffer \in Nat \ {0}

VARIABLES
  over,       \* history: items of which an end of the job was reported
  telling,    \* publishers between their last write and their last event
  stream,     \* the websockets
  found,      \* items the scanner wrote and has not announced yet
  feed,       \* the listener's channel
  listener,   \* runAutoEnqueueListener
  auto        \* the setting auto_transcode_on_discovery

vars == <<lifecycle, over, telling, stream, found, feed, listener, auto>>

\* After the end of a sub-job the job is read again; a failure is told as it is.
Telling == [by : Publishers \cup {Ticker}, m : Media, pc : {"read", "tell"}, done : BOOLEAN]

\* ended is the status JobProgress read first; missed is a history: the end of the
\* job was published before the channel existed, or did not fit, or was not at all.
Stream == [pc : {"off", "read", "open", "told"}, m : Media \cup {NoItem}, ended : BOOLEAN,
           ch : Seq({"progress", "done"}), gone : BOOLEAN, missed : BOOLEAN]
Closed == [pc |-> "off", m |-> NoItem, ended |-> FALSE, ch |-> <<>>, gone |-> FALSE,
           missed |-> FALSE]

\* The listener is at an event, and then in Enqueue.
ListenerState == [pc : {"off", "idle", "setting", "item", "job",
                        "enqueue", "create", "reset", "mark"},
                  m : Media \cup {NoItem}]
Idle == [pc |-> "idle", m |-> NoItem]
ListenerAt(pc) == listener' = [listener EXCEPT !.pc = pc]

Init ==
  /\ LifecycleInit
  /\ over = {} /\ telling = {} /\ found = {} /\ feed = <<>>
  /\ stream = [c \in Clients |-> Closed]
  /\ listener = [Idle EXCEPT !.pc = "off"]
  /\ auto \in BOOLEAN

Busy(b) == \E u \in telling : u.by = b
JobExists(m) == life[m] # "absent"
IsOver(m) == life[m] \in Over
Reported(S) == over' = over \cup S \cup {m \in Media : life'[m] \in Over}

-----------------------------------------------------------------------------
(* Hub and Bus *)

Subscribed(c, m) == stream[c].pc = "open" /\ stream[c].m = m

\* Mutant: the hub keeps events that its channel has no room for.
PublishAll(m, event) ==
  stream' = [c \in Clients |->
    IF ~Subscribed(c, m) THEN stream[c] ELSE [stream[c] EXCEPT !.ch = Append(@, event)]]

\* Hub.Publish
Publish(m, event) ==
  stream' = [c \in Clients |->
    IF ~Subscribed(c, m) THEN stream[c]
    ELSE IF Len(stream[c].ch) < HubBuffer THEN [stream[c] EXCEPT !.ch = Append(@, event)]
    ELSE [stream[c] EXCEPT !.missed = @ \/ event = "done"]]

\* Bus.Publish, once for each of the events; NoItem stands for those that are not
\* media.created.
Broadcast(events) ==
  feed' = IF listener.pc = "off" THEN feed
          ELSE LET all == feed \o events
               IN SubSeq(all, 1, IF Len(all) < BusBuffer THEN Len(all) ELSE BusBuffer)

-----------------------------------------------------------------------------
(* The transactions of the queue, and what is published after them *)

\* Transactions after which nothing is published.
Silent ==
  /\ Moves \/ \E m \in Media : Deletes(m)
  /\ UNCHANGED <<over, telling, stream, found, feed, listener, auto>>

\* The row of the sub-job may be gone, and the update may fail.
SubJobEnds(m) ==
  \/ Settles(m)
  \/ (JobExists(m) \/ item[m] = "deleted") /\ UNCHANGED lifecycle

ThenReads(b, m) ==
  /\ ~Busy(b)
  /\ telling' = telling \cup {[by |-> b, m |-> m, pc |-> "read", done |-> FALSE]}
ThenTells(b, m) ==
  /\ ~Busy(b)
  /\ telling' = telling \cup {[by |-> b, m |-> m, pc |-> "tell", done |-> TRUE]}

\* process, and UploadSubJobBundle.
SubJobDone(b, m) ==
  /\ SubJobEnds(m)
  /\ Reported({}) /\ ThenReads(b, m)
  /\ UNCHANGED <<stream, found, feed, listener, auto>>

\* fail, and UpdateSubJobProgress with status "failed": whatever becomes of the update
\* (the worker's request may be cancelled), done is told.
SubJobFails(b, m) ==
  /\ SubJobEnds(m)
  /\ Reported({m}) /\ ThenTells(b, m)
  /\ UNCHANGED <<stream, found, feed, listener, auto>>

\* Mutant: the job that failed is not done.
IsDoneOnly(m) == life[m] = "done"

\* Mutant: the job is done with every sub-job that is.
IsDoneAnyway(m) == JobExists(m)

\* What the job's status is taken for: Done, when it is done or failed.
IsDone(m) == IsOver(m)

ReadsJob(u) ==
  /\ u.pc = "read"
  /\ telling' = (telling \ {u}) \cup
       (IF JobExists(u.m) THEN {[u EXCEPT !.pc = "tell", !.done = IsDone(u.m)]} ELSE {})
  /\ UNCHANGED <<lifecycle, over, stream, found, feed, listener, auto>>

\* The manifest or the sidecar of an upload cannot be written, or its request is
\* cancelled: the handler returns and publishes nothing.
UploadBreaksOff(u) ==
  /\ u.pc = "read"
  /\ telling' = telling \ {u}
  /\ stream' = [c \in Clients |-> [stream[c] EXCEPT !.missed = @ \/ Subscribed(c, u.m)]]
  /\ UNCHANGED <<lifecycle, over, found, feed, listener, auto>>

Tells(u) ==
  /\ u.pc = "tell"
  /\ telling' = telling \ {u}
  /\ Publish(u.m, IF u.done THEN "done" ELSE "progress")
  /\ Broadcast(<<NoItem, NoItem>>)
  /\ UNCHANGED <<lifecycle, over, found, listener, auto>>

\* progressFn, and UpdateSubJobProgress of a worker.
TellsProgress(m) ==
  /\ JobExists(m)
  /\ Publish(m, "progress") /\ Broadcast(<<NoItem>>)
  /\ UNCHANGED <<lifecycle, over, telling, found, listener, auto>>

\* runWorkerMonitor tells of every job it requeued something of.
MonitorRequeues ==
  /\ ~Busy(Ticker)
  /\ Moves
  /\ \E S \in SUBSET {m \in Media : JobExists(m)} :
       telling' = telling \cup {[by |-> Ticker, m |-> m, pc |-> "tell", done |-> FALSE] : m \in S}
  /\ UNCHANGED <<over, stream, found, feed, listener, auto>>

-----------------------------------------------------------------------------
(* JobProgress: the job is read, and only then the stream subscribes.       *)

StreamReads(c, m) ==
  /\ stream[c].pc \in {"off", "told"}
  /\ JobExists(m)
  /\ stream' = [stream EXCEPT ![c] = [Closed EXCEPT !.pc = "read", !.m = m, !.ended = IsOver(m)]]
  /\ UNCHANGED <<lifecycle, over, telling, found, feed, listener, auto>>

StreamBegins(c) ==
  LET m == stream[c].m
  IN /\ stream[c].pc = "read"
     /\ stream' = [stream EXCEPT ![c].pc = IF stream[c].ended THEN "told" ELSE "open",
                     ![c].missed = IsOver(m) /\ ~\E u \in telling : u.m = m /\ (u.pc = "read" \/ u.done)]
     /\ UNCHANGED <<lifecycle, over, telling, found, feed, listener, auto>>

StreamSends(c) ==
  LET s == stream[c]
  IN /\ s.pc = "open" /\ s.ch # <<>>
     /\ stream' = [stream EXCEPT ![c] = IF s.gone THEN Closed
                     ELSE [s EXCEPT !.ch = Tail(@),
                                    !.pc = IF Head(s.ch) = "done" THEN "told" ELSE "open"]]
     /\ UNCHANGED <<lifecycle, over, telling, found, feed, listener, auto>>

\* The handler of a hijacked connection notices only when it writes.
ClientLeaves(c) ==
  /\ stream[c].pc = "open" /\ ~stream[c].gone
  /\ stream' = [stream EXCEPT ![c].gone = TRUE]
  /\ UNCHANGED <<lifecycle, over, telling, found, feed, listener, auto>>

-----------------------------------------------------------------------------
(* media.created, and runAutoEnqueueListener                                *)

ScannerWrites(m) ==
  /\ item[m] # "deleted" /\ \E s \in {"none", "done"} : Marks(m, s)
  /\ found' = found \cup {m}
  /\ UNCHANGED <<over, telling, stream, feed, listener, auto>>

ScannerAnnounces(m) ==
  /\ m \in found /\ found' = found \ {m}
  /\ IF item[m] # "deleted" THEN Broadcast(<<m>>) ELSE UNCHANGED feed
  /\ UNCHANGED <<lifecycle, over, telling, stream, listener, auto>>

UpdateSetting ==
  /\ auto' = ~auto
  /\ UNCHANGED <<lifecycle, over, telling, stream, found, feed, listener>>

ListenerSubscribes ==
  /\ listener.pc = "off"
  /\ listener' = Idle
  /\ UNCHANGED <<lifecycle, over, telling, stream, found, feed, auto>>

ListenerTakes ==
  /\ listener.pc = "idle" /\ feed # <<>>
  /\ feed' = Tail(feed)
  /\ listener' = IF Head(feed) = NoItem THEN Idle ELSE [pc |-> "setting", m |-> Head(feed)]
  /\ UNCHANGED <<lifecycle, over, telling, stream, found, auto>>

\* Mutant: the item is expected to be enqueued already.
WantedPending(pc, m) == CASE pc = "setting" -> auto
                          [] pc = "item" -> item[m] = "busy"
                          [] pc = "job" -> ~JobExists(m)

\* What each read has to find for the listener to go on.
Wanted(pc, m) == CASE pc = "setting" -> auto
                   [] pc = "item" -> item[m] = "none"
                   [] pc = "job" -> ~JobExists(m)

ListenerReads ==
  LET pc == listener.pc
  IN /\ pc \in {"setting", "item", "job"}
     /\ IF Wanted(pc, listener.m)
          THEN ListenerAt(CASE pc = "setting" -> "item" [] pc = "item" -> "job" [] OTHER -> "enqueue")
          ELSE listener' = Idle
     /\ UNCHANGED <<lifecycle, over, telling, stream, found, feed, auto>>

\* Enqueue: the item may be gone, or have a bundle by now; a job that waits or runs
\* is left alone.
ListenerEnqueues ==
  LET m == listener.m
  IN /\ listener.pc = "enqueue"
     /\ \/ /\ item[m] # "deleted" /\ life[m] \in {"absent"} \cup Over
           /\ ListenerAt(IF JobExists(m) THEN "reset" ELSE "create")
        \/ /\ item[m] \in {"deleted", "done"} \/ life[m] = "queued"
           /\ listener' = Idle
     /\ UNCHANGED <<lifecycle, over, telling, stream, found, feed, auto>>

ListenerWrites ==
  LET m == listener.m
  IN /\ listener.pc \in {"create", "reset"}
     /\ IF listener.pc = "create" THEN Creates(m) ELSE Requeues(m)
     /\ ListenerAt("mark")
     /\ UNCHANGED <<over, telling, stream, found, feed, auto>>

\* Somebody else was first, or the item is gone.
ListenerFails ==
  LET m == listener.m
  IN /\ \/ listener.pc = "create" /\ (JobExists(m) \/ item[m] = "deleted")
        \/ listener.pc = "reset" /\ ~JobExists(m)
     /\ listener' = Idle
     /\ UNCHANGED <<lifecycle, over, telling, stream, found, feed, auto>>

ListenerMarks ==
  /\ listener.pc = "mark"
  /\ Marks(listener.m, "busy")
  /\ listener' = Idle
  /\ UNCHANGED <<over, telling, stream, found, feed, auto>>

ListenerStep ==
  ListenerTakes \/ ListenerReads \/ ListenerEnqueues \/ ListenerWrites \/ ListenerFails \/ ListenerMarks

-----------------------------------------------------------------------------

\* A crash ends every goroutine and every connection; Pool.Start recovers the jobs.
ServerRestarts ==
  /\ Moves
  /\ telling' = {} /\ found' = {} /\ feed' = <<>>
  /\ stream' = [c \in Clients |-> Closed]
  /\ listener' = [Idle EXCEPT !.pc = "off"]
  /\ UNCHANGED <<over, auto>>

Next ==
  \/ Silent
  \/ \E b \in Publishers, m \in Media : SubJobDone(b, m)
  \/ \E b \in Publishers, m \in Media : SubJobFails(b, m)
  \/ \E u \in telling : ReadsJob(u)
  \/ \E u \in telling : UploadBreaksOff(u)
  \/ \E u \in telling : Tells(u)
  \/ \E m \in Media : TellsProgress(m)
  \/ MonitorRequeues
  \/ \E c \in Clients, m \in Media : StreamReads(c, m)
  \/ \E c \in Clients : StreamBegins(c)
  \/ \E c \in Clients : StreamSends(c)
  \/ \E c \in Clients : ClientLeaves(c)
  \/ \E m \in Media : ScannerWrites(m)
  \/ \E m \in Media : ScannerAnnounces(m)
  \/ UpdateSetting
  \/ ListenerSubscribes
  \/ ListenerTakes
  \/ ListenerReads
  \/ ListenerEnqueues
  \/ ListenerWrites
  \/ ListenerFails
  \/ ListenerMarks
  \/ ServerRestarts

Spec == Init /\ [][Next]_vars

\* A goroutine or handler goes on to its last event, a websocket sends what is in its
\* channel, and the listener runs as long as the server.  Nothing is assumed of the
\* queue, the scanner, the clients, the workers or the administrator.
Fairness ==
  /\ \A b \in Publishers : WF_vars(\E u \in telling : u.by = b /\ (ReadsJob(u) \/ Tells(u)))
  /\ \A c \in Clients : WF_vars(StreamBegins(c) \/ StreamSends(c))
  /\ WF_vars(ListenerStep)

FairSpec == Spec /\ Fairness

-----------------------------------------------------------------------------
(* Properties *)

\* Every variable keeps to its set, what the streams and the listener read included,
\* and no channel holds more than it has room for.
TypeOK ==
  /\ life \in [Media -> JobStatus \cup {"absent"}]
  /\ item \in [Media -> ItemStatus \cup {"deleted"}]
  /\ over \subseteq Media /\ found \subseteq Media
  /\ telling \subseteq Telling
  /\ stream \in [Clients -> Stream]
  /\ \A c \in Clients : Len(stream[c].ch) <= HubBuffer
  /\ feed \in Seq(Media \cup {NoItem}) /\ Len(feed) <= BusBuffer
  /\ listener \in ListenerState
  /\ auto \in BOOLEAN

\* What a client sees of its stream.
View(c) == CASE stream[c].pc = "open" -> <<"open", stream[c].m>>
             [] stream[c].pc = "told" -> <<"done", stream[c].m>>
             [] OTHER -> NoItem

Promise == INSTANCE JobStream
  WITH Jobs <- Media, NoStream <- NoItem, view <- [c \in Clients |-> View(c)]

\* The hub, its publishers and JobProgress keep what a progress stream promises: done
\* is told only when an end of that very job was reported, and once.
KeepsPromise == Promise!JobStreamSpec

\* A stream hangs: its job is over, and it waits for an event.
Hangs(c) == stream[c].pc = "open" /\ stream[c].m # NoItem /\ IsOver(stream[c].m)

\* Somebody will tell that the job is over, or will read it to tell so.
WillTell(m) == \E u \in telling : u.m = m /\ (u.pc = "read" \/ u.done)

\* The end of a job is never lost between those who publish and those who wait: while
\* a stream hangs that missed nothing, "done" is in its channel or a publisher is on
\* its way to it, also when the job was enqueued again and ended a second time.
EndIsOnItsWay ==
  \A c \in Clients :
    Hangs(c) /\ ~stream[c].missed
      => (\E i \in DOMAIN stream[c].ch : stream[c].ch[i] = "done") \/ WillTell(stream[c].m)

\* No stream hangs that subscribed in time and whose channel had room for the end,
\* whoever ends the job, and also when the job is enqueued again in between.
NoStreamHangs == \A c \in Clients : []<>~(Hangs(c) /\ ~stream[c].missed)

\* An item whose media.created is in the listener's channel gets a job, while the
\* setting is on and the item is there and untouched (runAutoEnqueueListener).
AnnouncedIsEnqueued ==
  \A m \in Media :
    (\E i \in DOMAIN feed : feed[i] = m)
      ~> (JobExists(m) \/ item[m] # "none" \/ ~auto \/ listener.pc = "off")
=============================================================================
