--------------------------- MODULE EventStreamsProofs ---------------------------
(***************************************************************************)
(* EventStreams implements JobStream, for any number of media items,       *)
(* clients and publishers and whatever room the channels have: a progress  *)
(* stream tells done only of a job an end of which was reported, and once. *)
(***************************************************************************)
EXTENDS EventStreams, SequenceTheorems, TLAPS

-----------------------------------------------------------------------------
(* The inductive invariant *)

\* A reported end is behind every job that is over, every event that says so, every
\* publisher that will, and every stream that read it.
OverIsReported == \A m \in Media : IsOver(m) => m \in over
TellingReported == \A u \in telling : u.done /\ u.pc = "tell" => u.m \in over
EventsReported ==
  \A c \in Clients : \A i \in 1 .. Len(stream[c].ch) : stream[c].ch[i] = "done" => stream[c].m \in over
StreamsReported ==
  \A c \in Clients :
    /\ stream[c].pc # "off" => stream[c].m \in Media
    /\ stream[c].pc = "read" /\ stream[c].ended => stream[c].m \in over

StreamInv == TypeOK /\ OverIsReported /\ TellingReported /\ EventsReported /\ StreamsReported

-----------------------------------------------------------------------------
(* The queue's own steps keep to its types, and report what they end *)

Items == Media \cup {NoItem}

LifeOK == life \in [Media -> JobStatus \cup {"absent"}] /\ item \in [Media -> ItemStatus \cup {"deleted"}]

LEMMA QueueTyped ==
  ASSUME LifeOK, Moves \/ \E m \in Items : \/ Settles(m) \/ Deletes(m) \/ Creates(m) \/ Requeues(m)
                                           \/ \E s \in ItemStatus : Marks(m, s)
  PROVE  LifeOK'
<1>1. CASE Moves
  BY <1>1 DEF Moves, LifeOK
<1>2. ASSUME NEW m \in Items, Settles(m) \/ Deletes(m) \/ Creates(m) \/ Requeues(m)
                              \/ \E s \in ItemStatus : Marks(m, s)
      PROVE  LifeOK'
  BY <1>2 DEF Settles, Deletes, Creates, Requeues, Marks, LifeOK, JobStatus, ItemStatus
<1>3. QED
  BY <1>1, <1>2

\* Short of the end of a sub-job, no step ends a job.
LEMMA NothingEnds ==
  ASSUME LifeOK, Moves \/ \E m \in Items : \/ Deletes(m) \/ Creates(m) \/ Requeues(m)
                                          \/ \E s \in ItemStatus : Marks(m, s),
         NEW n \in Media, life'[n] \in Over
  PROVE  life[n] \in Over
<1>1. CASE Moves
  BY <1>1 DEF Moves, MayBecome, LifeOK
<1>2. ASSUME NEW m \in Items, Deletes(m) \/ Creates(m) \/ Requeues(m) \/ \E s \in ItemStatus : Marks(m, s)
      PROVE  life[n] \in Over
  BY <1>2 DEF Deletes, Creates, Requeues, Marks, LifeOK, Over
<1>3. QED
  BY <1>1, <1>2

LEMMA OnlySettlingEnds ==
  ASSUME LifeOK, OverIsReported, over \subseteq over',
         Moves \/ \E m \in Items : \/ Deletes(m) \/ Creates(m) \/ Requeues(m)
                                   \/ \E s \in ItemStatus : Marks(m, s)
  PROVE  OverIsReported'
  BY NothingEnds DEF OverIsReported, IsOver

\* A step that leaves the streams alone, and takes no report back.
LEMMA StreamsStay ==
  ASSUME StreamInv, UNCHANGED stream, over \subseteq over'
  PROVE  EventsReported' /\ StreamsReported'
  BY DEF StreamInv, EventsReported, StreamsReported

\* A step that adds nothing to what will be told.
LEMMA TellingStays ==
  ASSUME StreamInv, telling' \subseteq telling, over \subseteq over'
  PROVE  TellingReported'
  BY DEF StreamInv, TellingReported

-----------------------------------------------------------------------------
(* Channels *)

Events == {"progress", "done"}

\* A channel that takes an event holds it and what it held.
LEMMA EventTaken ==
  ASSUME NEW q \in Seq(Events), NEW e \in Events, NEW new, new = Append(q, e)
  PROVE  /\ new \in Seq(Events) /\ Len(new) = Len(q) + 1 /\ Len(q) \in Nat
         /\ \A i \in 1 .. Len(new) : new[i] = e \/ \E j \in 1 .. Len(q) : new[i] = q[j]
<1>1. /\ new \in Seq(Events) /\ Len(new) = Len(q) + 1
      /\ \A i \in 1 .. Len(q) : new[i] = q[i]
      /\ new[Len(q) + 1] = e
  BY AppendProperties
<1>2. Len(q) \in Nat
  BY LenProperties
<1>3. ASSUME NEW i \in 1 .. Len(new)
      PROVE  new[i] = e \/ \E j \in 1 .. Len(q) : new[i] = q[j]
  BY <1>1, <1>2, <1>3
<1>4. QED
  BY <1>1, <1>2, <1>3

LEMMA EventDropped ==
  ASSUME NEW s \in Stream, NEW b \in BOOLEAN, NEW new, new = [s EXCEPT !.missed = b]
  PROVE  /\ new \in Stream /\ new.pc = s.pc /\ new.m = s.m /\ new.ended = s.ended /\ new.ch = s.ch
  BY DEF Stream

\* What is published is told to those who asked for it, and nobody's view changes.
LEMMA Publishing ==
  ASSUME StreamInv, UNCHANGED over, NEW m \in Media, NEW e \in Events,
         e = "done" => m \in over, Publish(m, e)
  PROVE  /\ stream' \in [Clients -> Stream]
         /\ \A c \in Clients : Len(stream'[c].ch) <= HubBuffer
         /\ \A c \in Clients : /\ stream'[c].pc = stream[c].pc /\ stream'[c].m = stream[c].m
                               /\ stream'[c].ended = stream[c].ended
         /\ EventsReported' /\ StreamsReported'
<1>1. ASSUME NEW c \in Clients
      PROVE  /\ stream'[c] \in Stream /\ Len(stream'[c].ch) <= HubBuffer
             /\ stream'[c].pc = stream[c].pc /\ stream'[c].m = stream[c].m
             /\ stream'[c].ended = stream[c].ended
             /\ \A i \in 1 .. Len(stream'[c].ch) : stream'[c].ch[i] = "done" => stream[c].m \in over
  <2>1. /\ stream[c] \in Stream /\ Len(stream[c].ch) <= HubBuffer
        /\ \A i \in 1 .. Len(stream[c].ch) : stream[c].ch[i] = "done" => stream[c].m \in over
    BY DEF StreamInv, TypeOK, EventsReported
  <2>2. PICK old \in Stream : old = stream[c]
    BY <2>1
  <2>3. CASE ~Subscribed(c, m)
    <3>1. stream'[c] = stream[c]
      BY <2>3 DEF Publish
    <3>2. QED
      BY <2>1, <3>1
  <2>4. CASE Subscribed(c, m) /\ Len(stream[c].ch) < HubBuffer
    <3>1. PICK q : q = Append(old.ch, e)
      OBVIOUS
    <3>2. old.ch \in Seq(Events) /\ old.m = m
      BY <2>2, <2>4 DEF Stream, Events, Subscribed
    <3>3. /\ q \in Seq(Events) /\ Len(q) = Len(old.ch) + 1 /\ Len(old.ch) \in Nat
          /\ \A i \in 1 .. Len(q) : q[i] = e \/ \E j \in 1 .. Len(old.ch) : q[i] = old.ch[j]
      BY <3>1, <3>2, EventTaken
    <3>4. PICK new : new = [old EXCEPT !.ch = q]
      OBVIOUS
    <3>5. /\ new \in Stream /\ new.ch = q
          /\ new.pc = old.pc /\ new.m = old.m /\ new.ended = old.ended
      BY <3>3, <3>4 DEF Stream, Events
    <3>6. stream'[c] = new
      BY <2>2, <2>4, <3>1, <3>4 DEF Publish
    <3>7. Len(q) <= HubBuffer
      BY <2>2, <2>4, <3>3, StreamAssumption
    <3>8. ASSUME NEW i \in 1 .. Len(q), q[i] = "done"
          PROVE  m \in over
      <4>1. CASE q[i] = e
        BY <3>8, <4>1
      <4>2. ASSUME NEW j \in 1 .. Len(old.ch), q[i] = old.ch[j]
            PROVE  m \in over
        BY <2>1, <2>2, <3>2, <3>8, <4>2
      <4>3. QED
        BY <3>3, <4>1, <4>2
    <3>9. stream'[c].ch = q /\ stream[c].m = m
      BY <2>2, <3>2, <3>5, <3>6
    <3>10. QED
      BY <2>2, <3>5, <3>6, <3>7, <3>8, <3>9
  <2>5. CASE Subscribed(c, m) /\ ~(Len(stream[c].ch) < HubBuffer)
    <3>1. PICK b \in BOOLEAN : b = (old.missed \/ e = "done")
      BY DEF Stream
    <3>2. PICK new : new = [old EXCEPT !.missed = b]
      OBVIOUS
    <3>3. stream'[c] = new
      BY <2>2, <2>5, <3>1, <3>2 DEF Publish
    <3>4. /\ new \in Stream /\ new.pc = old.pc /\ new.m = old.m /\ new.ended = old.ended
          /\ new.ch = old.ch
      BY <3>2, EventDropped
    <3>5. QED
      BY <2>1, <2>2, <3>3, <3>4
  <2>6. QED
    BY <2>3, <2>4, <2>5
<1>2. stream' \in [Clients -> Stream]
  <2>1. stream' = [c \in Clients |-> stream'[c]]
    BY DEF Publish
  <2>2. QED
    BY <1>1, <2>1
<1>3. EventsReported'
  BY <1>1 DEF EventsReported
<1>4. StreamsReported'
  BY <1>1 DEF StreamInv, StreamsReported
<1>5. QED
  BY <1>1, <1>2, <1>3, <1>4

\* The listener's channel takes what it has room for.
LEMMA Broadcasting ==
  ASSUME TypeOK, NEW new \in Seq(Items), Broadcast(new)
  PROVE  feed' \in Seq(Items) /\ Len(feed') <= BusBuffer
<1>1. feed \in Seq(Items) /\ Len(feed) <= BusBuffer /\ BusBuffer \in Nat
  BY StreamAssumption DEF TypeOK, Items
<1>2. CASE listener.pc = "off"
  BY <1>1, <1>2 DEF Broadcast
<1>3. CASE listener.pc # "off"
  <2>1. PICK old \in Seq(Items) : old = feed
    BY <1>1
  <2>2. PICK all \in Seq(Items) : all = old \o new
    BY ConcatProperties
  <2>3. PICK n \in Nat : n = (IF Len(all) < BusBuffer THEN Len(all) ELSE BusBuffer)
                         /\ n <= Len(all) /\ n <= BusBuffer
    BY <1>1, <2>2, LenProperties
  <2>4. feed' = SubSeq(all, 1, n)
    BY <1>3, <2>1, <2>2, <2>3 DEF Broadcast
  <2>5. \A i \in 1 .. n : all[i] \in Items
    BY <2>2, <2>3, LenProperties, ElementOfSeq
  <2>6. SubSeq(all, 1, n) \in Seq(Items) /\ Len(SubSeq(all, 1, n)) = IF 1 <= n THEN n - 1 + 1 ELSE 0
    BY <2>3, <2>5, SubSeqProperties
  <2>7. QED
    BY <1>1, <2>3, <2>4, <2>6
<1>4. QED
  BY <1>2, <1>3

-----------------------------------------------------------------------------
(* Steps of the queue and of those who publish: the streams stay open *)

Keeps == StreamInv' /\ [Promise!JobStreamNext]_<<over, [c \in Clients |-> View(c)]>>

LEMMA ViewsStay ==
  ASSUME \A c \in Clients : stream'[c].pc = stream[c].pc /\ stream'[c].m = stream[c].m
  PROVE  [c \in Clients |-> View(c)]' = [c \in Clients |-> View(c)]
  BY DEF View

LEMMA StreamsUntouched ==
  ASSUME StreamInv, UNCHANGED stream, over \subseteq over',
         TypeOK', OverIsReported', TellingReported'
  PROVE  Keeps
<1>1. StreamInv'
  BY StreamsStay DEF StreamInv
<1>2. [c \in Clients |-> View(c)]' = [c \in Clients |-> View(c)]
  BY ViewsStay
<1>3. over' \in SUBSET Media /\ over' = over \cup over'
  BY DEF TypeOK
<1>4. Promise!EndReported(over')
  BY <1>2, <1>3 DEF Promise!EndReported
<1>5. QED
  BY <1>1, <1>3, <1>4 DEF Keeps, Promise!JobStreamNext

LEMMA SilentKeeps == ASSUME StreamInv, Silent PROVE Keeps
<1>1. LifeOK /\ LifeOK' /\ OverIsReported'
  BY QueueTyped, OnlySettlingEnds DEF Items, StreamInv, TypeOK, LifeOK, Silent
<1>2. TypeOK'
  BY <1>1 DEF StreamInv, TypeOK, LifeOK, Silent
<1>3. TellingReported'
  BY TellingStays DEF Silent
<1>4. QED
  BY <1>1, <1>2, <1>3, StreamsUntouched DEF Silent

\* Whatever a publisher does at the end of a sub-job, the end of the job is reported.
LEMMA EndingTyped ==
  ASSUME StreamInv, NEW m \in Media, SubJobEnds(m), NEW S \in SUBSET Media, Reported(S)
  PROVE  LifeOK' /\ OverIsReported' /\ over \cup S \subseteq over' /\ over' \subseteq Media
<1>1. LifeOK
  BY DEF StreamInv, TypeOK, LifeOK
<1>2. LifeOK'
  BY <1>1, QueueTyped DEF SubJobEnds, LifeOK, lifecycle, Items
<1>3. OverIsReported'
  BY DEF Reported, OverIsReported, IsOver
<1>4. QED
  BY <1>2, <1>3 DEF Reported, StreamInv, TypeOK

LEMMA SubJobDoneKeeps ==
  ASSUME StreamInv, NEW b \in Publishers, NEW m \in Media, SubJobDone(b, m)
  PROVE  Keeps
<1>1. LifeOK' /\ OverIsReported' /\ over \subseteq over' /\ over' \subseteq Media
  BY EndingTyped DEF SubJobDone
<1>2. [by |-> b, m |-> m, pc |-> "read", done |-> FALSE] \in Telling
  BY DEF Telling
<1>3. TypeOK'
  BY <1>1, <1>2 DEF StreamInv, TypeOK, LifeOK, SubJobDone, ThenReads
<1>4. TellingReported'
  BY <1>1 DEF StreamInv, TellingReported, SubJobDone, ThenReads
<1>5. QED
  BY <1>1, <1>3, <1>4, StreamsUntouched DEF SubJobDone

LEMMA SubJobFailsKeeps ==
  ASSUME StreamInv, NEW b \in Publishers, NEW m \in Media, SubJobFails(b, m)
  PROVE  Keeps
<1>1. LifeOK' /\ OverIsReported' /\ over \cup {m} \subseteq over' /\ over' \subseteq Media
  BY EndingTyped DEF SubJobFails
<1>2. [by |-> b, m |-> m, pc |-> "tell", done |-> TRUE] \in Telling
  BY DEF Telling
<1>3. TypeOK'
  BY <1>1, <1>2 DEF StreamInv, TypeOK, LifeOK, SubJobFails, ThenTells
<1>4. TellingReported'
  BY <1>1 DEF StreamInv, TellingReported, SubJobFails, ThenTells
<1>5. QED
  BY <1>1, <1>3, <1>4, StreamsUntouched DEF SubJobFails

\* A publisher that says done has read that the job is over.
LEMMA ReadsJobKeeps == ASSUME StreamInv, NEW u \in telling, ReadsJob(u) PROVE Keeps
<1>1. UNCHANGED <<lifecycle, over, stream, found, feed, listener, auto>>
  BY DEF ReadsJob
<1>2. PICK old \in Telling : old = u
  BY DEF StreamInv, TypeOK
<1>3. PICK b \in BOOLEAN : b = IsDone(old.m)
  <2>1. IsDone(old.m) \in BOOLEAN
    BY DEF IsDone, IsOver
  <2>2. QED
    BY <2>1
<1>4. PICK new \in Telling : new = [[old EXCEPT !.pc = "tell"] EXCEPT !.done = b]
                             /\ new.m = old.m /\ new.done = b
  <2>1. PICK new : new = [[old EXCEPT !.pc = "tell"] EXCEPT !.done = b]
    OBVIOUS
  <2>2. new \in Telling /\ new.m = old.m /\ new.done = b
    BY <2>1 DEF Telling
  <2>3. QED
    BY <2>1, <2>2
<1>5. telling' \subseteq telling \cup {new}
  BY <1>2, <1>3, <1>4 DEF ReadsJob
<1>6. b => new.m \in over
  BY <1>2, <1>3, <1>4 DEF StreamInv, OverIsReported, IsDone, Telling
<1>7. TypeOK' /\ OverIsReported'
  BY <1>1, <1>5 DEF StreamInv, TypeOK, OverIsReported, IsOver, lifecycle
<1>8. TellingReported'
  BY <1>1, <1>4, <1>5, <1>6 DEF StreamInv, TellingReported
<1>9. QED
  BY <1>1, <1>7, <1>8, StreamsUntouched

LEMMA MonitorKeeps == ASSUME StreamInv, MonitorRequeues PROVE Keeps
<1>1. UNCHANGED <<over, stream, found, feed, listener, auto>> /\ Moves
  BY DEF MonitorRequeues
<1>2. LifeOK' /\ OverIsReported'
  BY <1>1, QueueTyped, OnlySettlingEnds DEF StreamInv, TypeOK, LifeOK
<1>3. PICK S \in SUBSET Media :
        telling' = telling \cup {[by |-> Ticker, m |-> m, pc |-> "tell", done |-> FALSE] : m \in S}
  BY DEF MonitorRequeues
<1>4. \A m \in S : [by |-> Ticker, m |-> m, pc |-> "tell", done |-> FALSE] \in Telling
  BY DEF Telling
<1>5. TypeOK'
  BY <1>1, <1>2, <1>3, <1>4 DEF StreamInv, TypeOK, LifeOK
<1>6. TellingReported'
  BY <1>1, <1>3 DEF StreamInv, TellingReported
<1>7. QED
  BY <1>1, <1>2, <1>5, <1>6, StreamsUntouched

LEMMA ScannerKeeps ==
  ASSUME StreamInv, NEW m \in Media, ScannerWrites(m) \/ ScannerAnnounces(m)
  PROVE  Keeps
<1>1. UNCHANGED <<over, telling, stream, listener, auto>> /\ found' \subseteq Media
  BY DEF ScannerWrites, ScannerAnnounces, StreamInv, TypeOK
<1>2. LifeOK' /\ OverIsReported'
  <2>1. CASE ScannerWrites(m)
    <3>1. \E s \in ItemStatus : Marks(m, s)
      BY <2>1 DEF ScannerWrites, ItemStatus
    <3>2. UNCHANGED over /\ m \in Items /\ LifeOK /\ OverIsReported
      BY <2>1 DEF ScannerWrites, StreamInv, TypeOK, LifeOK, Items
    <3>3. QED
      BY <3>1, <3>2, QueueTyped, OnlySettlingEnds
  <2>2. CASE ScannerAnnounces(m)
    BY <2>2 DEF ScannerAnnounces, StreamInv, TypeOK, LifeOK, OverIsReported, IsOver, lifecycle
  <2>3. QED
    BY <2>1, <2>2
<1>3. feed' \in Seq(Items) /\ Len(feed') <= BusBuffer
  <2>1. CASE UNCHANGED feed
    BY <2>1 DEF StreamInv, TypeOK, Items
  <2>2. CASE Broadcast(<<m>>)
    <3>1. PICK new \in Seq(Items) : new = <<m>>
      <4>1. m \in Items
        BY DEF Items
      <4>2. <<m>> \in Seq(Items)
        BY <4>1
      <4>3. QED
        BY <4>2
    <3>2. TypeOK /\ Broadcast(new)
      BY <2>2, <3>1 DEF StreamInv
    <3>3. QED
      BY <3>2, Broadcasting
  <2>3. QED
    BY <2>1, <2>2 DEF ScannerWrites, ScannerAnnounces
<1>4. TypeOK'
  BY <1>1, <1>2, <1>3 DEF StreamInv, TypeOK, LifeOK, Items
<1>5. TellingReported'
  BY <1>1 DEF StreamInv, TellingReported
<1>6. QED
  BY <1>1, <1>2, <1>4, <1>5, StreamsUntouched

\* The listener is at one item at a time.
LEMMA ListenerGoes ==
  ASSUME listener \in ListenerState, NEW pc \in {"item", "job", "enqueue", "create", "reset", "mark"},
         ListenerAt(pc)
  PROVE  listener' \in ListenerState
  BY DEF ListenerState, ListenerAt

LEMMA ListenerIdle == Idle \in ListenerState
  BY DEF ListenerState, Idle

LEMMA ListenerTakesKeeps == ASSUME StreamInv, ListenerTakes PROVE Keeps
<1>1. UNCHANGED <<lifecycle, over, telling, stream, found, auto>>
  BY DEF ListenerTakes
<1>2. feed \in Seq(Items) /\ feed # <<>> /\ feed' = Tail(feed)
  BY DEF StreamInv, TypeOK, Items, ListenerTakes
<1>3. PICK old \in Seq(Items) : old = feed
  BY <1>2
<1>4. Head(old) \in Items /\ Tail(old) \in Seq(Items) /\ Len(Tail(old)) = Len(old) - 1
  BY <1>2, <1>3, HeadTailProperties
<1>5. Len(old) \in Nat /\ Len(old) <= BusBuffer /\ BusBuffer \in Nat
  BY <1>3, LenProperties, StreamAssumption DEF StreamInv, TypeOK
<1>6. feed' \in Seq(Items) /\ Len(feed') <= BusBuffer
  BY <1>2, <1>3, <1>4, <1>5
<1>7. listener' \in ListenerState
  <2>1. [pc |-> "setting", m |-> Head(old)] \in ListenerState
    BY <1>4 DEF ListenerState, Items
  <2>2. QED
    BY <1>3, <2>1, ListenerIdle DEF ListenerTakes
<1>8. TypeOK' /\ OverIsReported' /\ TellingReported'
  BY <1>1, <1>6, <1>7 DEF StreamInv, TypeOK, OverIsReported, TellingReported, IsOver, lifecycle, Items
<1>9. QED
  BY <1>1, <1>8, StreamsUntouched

\* The other steps of the listener take nothing and tell nothing.
LEMMA ListenerKeeps ==
  ASSUME StreamInv, \/ ListenerReads \/ ListenerEnqueues \/ ListenerWrites \/ ListenerFails
                    \/ ListenerMarks \/ ListenerSubscribes \/ UpdateSetting
  PROVE  Keeps
<1>1. UNCHANGED <<over, telling, stream, found, feed>>
  BY DEF ListenerReads, ListenerEnqueues, ListenerWrites, ListenerFails, ListenerMarks,
         ListenerSubscribes, UpdateSetting
<1>2. listener \in ListenerState /\ listener.m \in Items
  BY DEF StreamInv, TypeOK, ListenerState, Items
<1>3. listener' \in ListenerState
  BY <1>2, ListenerGoes, ListenerIdle
  DEF ListenerReads, ListenerEnqueues, ListenerWrites, ListenerFails, ListenerMarks,
      ListenerSubscribes, UpdateSetting
<1>4. auto' \in BOOLEAN
  BY DEF StreamInv, TypeOK, ListenerReads, ListenerEnqueues, ListenerWrites, ListenerFails,
         ListenerMarks, ListenerSubscribes, UpdateSetting
<1>5. LifeOK' /\ OverIsReported'
  <2>1. CASE UNCHANGED lifecycle
    BY <1>1, <2>1 DEF StreamInv, TypeOK, LifeOK, OverIsReported, IsOver, lifecycle
  <2>2. CASE Creates(listener.m) \/ Requeues(listener.m) \/ Marks(listener.m, "busy")
    BY <1>1, <1>2, <2>2, QueueTyped, OnlySettlingEnds DEF StreamInv, TypeOK, LifeOK, ItemStatus
  <2>3. QED
    BY <2>1, <2>2 DEF ListenerReads, ListenerEnqueues, ListenerWrites, ListenerFails,
                      ListenerMarks, ListenerSubscribes, UpdateSetting
<1>6. TypeOK' /\ TellingReported'
  BY <1>1, <1>3, <1>4, <1>5 DEF StreamInv, TypeOK, LifeOK, TellingReported
<1>7. QED
  BY <1>1, <1>5, <1>6, StreamsUntouched

-----------------------------------------------------------------------------
(* Steps that fill channels: nobody's view changes *)

LEMMA ChannelsKeep ==
  ASSUME StreamInv, UNCHANGED <<lifecycle, over, found, listener, auto>>, telling' \subseteq telling,
         feed' \in Seq(Items), Len(feed') <= BusBuffer,
         stream' \in [Clients -> Stream], \A c \in Clients : Len(stream'[c].ch) <= HubBuffer,
         \A c \in Clients : stream'[c].pc = stream[c].pc /\ stream'[c].m = stream[c].m,
         EventsReported', StreamsReported'
  PROVE  Keeps
<1>1. TypeOK' /\ OverIsReported'
  BY DEF StreamInv, TypeOK, OverIsReported, IsOver, lifecycle, Items
<1>2. TellingReported'
  BY TellingStays
<1>3. [c \in Clients |-> View(c)]' = [c \in Clients |-> View(c)]
  BY ViewsStay
<1>4. QED
  BY <1>1, <1>2, <1>3 DEF Keeps, StreamInv

LEMMA NewsTyped == <<NoItem>> \in Seq(Items) /\ <<NoItem, NoItem>> \in Seq(Items)
<1>1. NoItem \in Items
  BY DEF Items
<1>2. QED
  BY <1>1

LEMMA TellsKeeps == ASSUME StreamInv, NEW u \in telling, Tells(u) PROVE Keeps
<1>1. PICK m \in Media, e \in Events :
        /\ m = u.m /\ e = (IF u.done THEN "done" ELSE "progress")
        /\ e = "done" => m \in over
  BY DEF StreamInv, TypeOK, Telling, TellingReported, Tells, Events
<1>2. Publish(m, e) /\ UNCHANGED over
  BY <1>1 DEF Tells
<1>3. /\ stream' \in [Clients -> Stream]
      /\ \A c \in Clients : Len(stream'[c].ch) <= HubBuffer
      /\ \A c \in Clients : stream'[c].pc = stream[c].pc /\ stream'[c].m = stream[c].m
      /\ EventsReported' /\ StreamsReported'
  BY <1>1, <1>2, Publishing
<1>4. feed' \in Seq(Items) /\ Len(feed') <= BusBuffer
  BY NewsTyped, Broadcasting DEF Tells, StreamInv
<1>5. QED
  BY <1>3, <1>4, ChannelsKeep DEF Tells

LEMMA ProgressKeeps == ASSUME StreamInv, NEW m \in Media, TellsProgress(m) PROVE Keeps
<1>1. PICK e \in Events : e = "progress"
  BY DEF Events
<1>2. Publish(m, e) /\ UNCHANGED over /\ (e = "done" => m \in over)
  BY <1>1 DEF TellsProgress
<1>3. /\ stream' \in [Clients -> Stream]
      /\ \A c \in Clients : Len(stream'[c].ch) <= HubBuffer
      /\ \A c \in Clients : stream'[c].pc = stream[c].pc /\ stream'[c].m = stream[c].m
      /\ EventsReported' /\ StreamsReported'
  BY <1>2, Publishing
<1>4. feed' \in Seq(Items) /\ Len(feed') <= BusBuffer
  BY NewsTyped, Broadcasting DEF TellsProgress, StreamInv
<1>5. QED
  BY <1>3, <1>4, ChannelsKeep DEF TellsProgress

LEMMA BreaksOffKeeps == ASSUME StreamInv, NEW u \in telling, UploadBreaksOff(u) PROVE Keeps
<1>1. ASSUME NEW c \in Clients
      PROVE  /\ stream'[c] \in Stream /\ stream'[c].ch = stream[c].ch
             /\ stream'[c].pc = stream[c].pc /\ stream'[c].m = stream[c].m
             /\ stream'[c].ended = stream[c].ended
  <2>1. PICK old \in Stream : old = stream[c]
    BY DEF StreamInv, TypeOK
  <2>2. PICK b \in BOOLEAN : b = (old.missed \/ Subscribed(c, u.m))
    <3>1. (old.missed \/ Subscribed(c, u.m)) \in BOOLEAN
      BY DEF Subscribed
    <3>2. QED
      BY <3>1
  <2>3. PICK new : new = [old EXCEPT !.missed = b]
    OBVIOUS
  <2>4. stream'[c] = new
    BY <2>1, <2>2, <2>3 DEF UploadBreaksOff
  <2>5. QED
    BY <2>1, <2>3, <2>4, EventDropped
<1>2. stream' \in [Clients -> Stream]
  <2>1. stream' = [c \in Clients |-> stream'[c]]
    BY DEF UploadBreaksOff
  <2>2. QED
    BY <1>1, <2>1
<1>3. \A c \in Clients : Len(stream'[c].ch) <= HubBuffer
  BY <1>1 DEF StreamInv, TypeOK
<1>4. EventsReported' /\ StreamsReported'
  BY <1>1 DEF StreamInv, EventsReported, StreamsReported, UploadBreaksOff
<1>5. feed' \in Seq(Items) /\ Len(feed') <= BusBuffer
  BY DEF StreamInv, TypeOK, Items, UploadBreaksOff
<1>6. QED
  BY <1>1, <1>2, <1>3, <1>4, <1>5, ChannelsKeep DEF UploadBreaksOff

-----------------------------------------------------------------------------
(* Steps of a stream *)

Others == <<lifecycle, over, telling, found, feed, listener, auto>>

\* One stream goes on; its client sees what it is now.
LEMMA OneStream ==
  ASSUME StreamInv, UNCHANGED Others, NEW c \in Clients, NEW new \in Stream,
         stream' = [stream EXCEPT ![c] = new], Len(new.ch) <= HubBuffer,
         new.pc # "off" => new.m \in Media,
         new.pc = "read" /\ new.ended => new.m \in over,
         \A i \in 1 .. Len(new.ch) : new.ch[i] = "done" => new.m \in over
  PROVE  /\ StreamInv'
         /\ \A d \in Clients : d # c => View(d)' = View(d)
         /\ new.pc = "open" => View(c)' = <<"open", new.m>>
         /\ new.pc = "told" => View(c)' = <<"done", new.m>>
         /\ new.pc \notin {"open", "told"} => View(c)' = NoItem
<1>1. stream \in [Clients -> Stream]
  BY DEF StreamInv, TypeOK
<1>2. stream' \in [Clients -> Stream] /\ stream'[c] = new /\ \A d \in Clients : d # c => stream'[d] = stream[d]
  BY <1>1
<1>3. TypeOK'
  BY <1>2 DEF StreamInv, TypeOK, Others, lifecycle
<1>4. OverIsReported' /\ TellingReported'
  BY DEF StreamInv, OverIsReported, TellingReported, IsOver, Others, lifecycle
<1>5. EventsReported'
  <2>1. over' = over
    BY DEF Others
  <2>2. ASSUME NEW d \in Clients, NEW i \in 1 .. Len(stream'[d].ch), stream'[d].ch[i] = "done"
        PROVE  stream'[d].m \in over
    BY <1>2, <2>2 DEF StreamInv, EventsReported
  <2>3. QED
    BY <2>1, <2>2 DEF EventsReported
<1>6. StreamsReported'
  BY <1>2 DEF StreamInv, StreamsReported, Others
<1>7. \A d \in Clients : d # c => View(d)' = View(d)
  BY <1>2 DEF View
<1>8. /\ new.pc = "open" => View(c)' = <<"open", new.m>>
      /\ new.pc = "told" => View(c)' = <<"done", new.m>>
      /\ new.pc \notin {"open", "told"} => View(c)' = NoItem
  BY <1>2 DEF View
<1>9. QED
  BY <1>3, <1>4, <1>5, <1>6, <1>7, <1>8 DEF StreamInv

\* A stream that is closed or reads anew is no stream to its client.
LEMMA Closing ==
  ASSUME NEW c \in Clients, StreamInv', UNCHANGED over,
         \A d \in Clients : d # c => View(d)' = View(d), View(c)' = NoItem
  PROVE  Keeps
<1>1. Promise!Closes({c})
  BY DEF Promise!Closes
<1>2. QED
  BY <1>1 DEF Keeps, Promise!JobStreamNext

LEMMA ClosedIsStream ==
  /\ Closed \in Stream /\ Closed.pc = "off" /\ Closed.ch = <<>> /\ Len(Closed.ch) = 0
  BY DEF Closed, Stream

LEMMA StreamReadsKeeps ==
  ASSUME StreamInv, NEW c \in Clients, NEW m \in Media, StreamReads(c, m)
  PROVE  Keeps
<1>1. PICK b \in BOOLEAN : b = IsOver(m)
  <2>1. IsOver(m) \in BOOLEAN
    BY DEF IsOver
  <2>2. QED
    BY <2>1
<1>2. PICK old \in Stream : old = Closed /\ Len(old.ch) = 0
  BY ClosedIsStream
<1>3. PICK new : new = [[[old EXCEPT !.pc = "read"] EXCEPT !.m = m] EXCEPT !.ended = b]
  OBVIOUS
<1>4. /\ new \in Stream /\ new.pc = "read" /\ new.m = m /\ new.ended = b /\ new.ch = old.ch
      /\ Len(new.ch) = 0
  BY <1>2, <1>3 DEF Stream
<1>5. stream' = [stream EXCEPT ![c] = new] /\ UNCHANGED Others
  BY <1>1, <1>2, <1>3 DEF StreamReads, Others
<1>6. b => m \in over
  BY <1>1 DEF StreamInv, OverIsReported
<1>7. 0 <= HubBuffer
  BY StreamAssumption
<1>8. StreamInv' /\ (\A d \in Clients : d # c => View(d)' = View(d)) /\ View(c)' = NoItem
  <2>1. Len(new.ch) <= HubBuffer /\ \A i \in 1 .. Len(new.ch) : new.ch[i] = "done" => new.m \in over
    BY <1>4, <1>7
  <2>2. new.pc \notin {"off", "open", "told"} /\ new.m \in Media /\ (new.ended => new.m \in over)
    BY <1>4, <1>6
  <2>3. QED
    BY <1>4, <1>5, <2>1, <2>2, OneStream
<1>9. QED
  BY <1>5, <1>8, Closing DEF Others

LEMMA StreamBeginsKeeps ==
  ASSUME StreamInv, NEW c \in Clients, StreamBegins(c)
  PROVE  Keeps
<1>1. PICK old \in Stream : old = stream[c]
  BY DEF StreamInv, TypeOK
<1>2. /\ old.pc = "read" /\ old.m \in Media /\ Len(old.ch) <= HubBuffer
      /\ old.ended => old.m \in over
      /\ \A i \in 1 .. Len(old.ch) : old.ch[i] = "done" => old.m \in over
  BY <1>1 DEF StreamInv, TypeOK, StreamsReported, EventsReported, StreamBegins
<1>3. PICK b \in BOOLEAN :
        b = (IsOver(old.m) /\ ~\E u \in telling : u.m = old.m /\ (u.pc = "read" \/ u.done))
  <2>1. (IsOver(old.m) /\ ~\E u \in telling : u.m = old.m /\ (u.pc = "read" \/ u.done)) \in BOOLEAN
    OBVIOUS
  <2>2. QED
    BY <2>1
<1>4. PICK pc \in {"told", "open"} : pc = IF old.ended THEN "told" ELSE "open"
  OBVIOUS
<1>5. PICK new : new = [[old EXCEPT !.pc = pc] EXCEPT !.missed = b]
  OBVIOUS
<1>6. new \in Stream /\ new.pc = pc /\ new.m = old.m /\ new.ch = old.ch
  BY <1>5 DEF Stream
<1>7. stream' = [stream EXCEPT ![c] = new] /\ UNCHANGED Others
  BY <1>1, <1>3, <1>4, <1>5 DEF StreamBegins, Others
<1>8. /\ StreamInv' /\ (\A d \in Clients : d # c => View(d)' = View(d))
      /\ new.pc = "open" => View(c)' = <<"open", new.m>>
      /\ new.pc = "told" => View(c)' = <<"done", new.m>>
  BY <1>2, <1>6, <1>7, OneStream
<1>9. View(c) = NoItem
  BY <1>1, <1>2 DEF View
<1>10. CASE old.ended
  <2>1. Promise!OpensDone(c, old.m)
    BY <1>2, <1>4, <1>6, <1>7, <1>8, <1>9, <1>10 DEF Promise!OpensDone, Promise!Done, Others
  <2>2. QED
    BY <1>2, <1>8, <2>1 DEF Keeps, Promise!JobStreamNext
<1>11. CASE ~old.ended
  <2>1. Promise!Opens(c, old.m)
    BY <1>2, <1>4, <1>6, <1>7, <1>8, <1>9, <1>11 DEF Promise!Opens, Promise!Open, Others
  <2>2. QED
    BY <1>2, <1>8, <2>1 DEF Keeps, Promise!JobStreamNext
<1>12. QED
  BY <1>10, <1>11

\* The client is told done once: what is open becomes told, and told only closes.
LEMMA StreamSendsKeeps ==
  ASSUME StreamInv, NEW c \in Clients, StreamSends(c)
  PROVE  Keeps
<1>1. PICK old \in Stream : old = stream[c]
  BY DEF StreamInv, TypeOK
<1>2. /\ old.pc = "open" /\ old.ch # <<>> /\ old.m \in Media /\ Len(old.ch) <= HubBuffer
      /\ \A i \in 1 .. Len(old.ch) : old.ch[i] = "done" => old.m \in over
      /\ UNCHANGED Others
  BY <1>1 DEF StreamInv, TypeOK, StreamsReported, EventsReported, StreamSends, Others
<1>3. 0 <= HubBuffer /\ HubBuffer \in Nat
  BY StreamAssumption
<1>4. CASE old.gone
  <2>1. stream' = [stream EXCEPT ![c] = Closed]
    BY <1>1, <1>4 DEF StreamSends
  <2>2. PICK new \in Stream : new = Closed /\ new.pc = "off" /\ Len(new.ch) = 0
    BY ClosedIsStream
  <2>3. StreamInv' /\ (\A d \in Clients : d # c => View(d)' = View(d)) /\ View(c)' = NoItem
    <3>1. Len(new.ch) <= HubBuffer /\ \A i \in 1 .. Len(new.ch) : new.ch[i] = "done" => new.m \in over
      BY <1>3, <2>2
    <3>2. new.pc \notin {"read", "open", "told"}
      BY <2>2
    <3>3. QED
      BY <1>2, <2>1, <2>2, <3>1, <3>2, OneStream
  <2>4. QED
    BY <1>2, <2>3, Closing DEF Others
<1>5. CASE ~old.gone
  <2>1. PICK ch : ch = Tail(old.ch)
    OBVIOUS
  <2>2. old.ch \in Seq(Events) /\ Len(old.ch) \in Nat
    BY LenProperties DEF Stream, Events
  <2>3. /\ ch \in Seq(Events) /\ Len(ch) = Len(old.ch) - 1
        /\ \A i \in 1 .. Len(ch) : ch[i] = old.ch[i + 1]
    BY <1>2, <2>1, <2>2, HeadTailProperties
  <2>4. Head(old.ch) = old.ch[1] /\ 1 \in 1 .. Len(old.ch)
    <3>1. Len(old.ch) # 0
      BY <1>2, <2>2, EmptySeq
    <3>2. QED
      BY <2>2, <3>1
  <2>5. PICK pc \in {"told", "open"} : pc = IF Head(old.ch) = "done" THEN "told" ELSE "open"
    OBVIOUS
  <2>6. PICK new : new = [[old EXCEPT !.ch = ch] EXCEPT !.pc = pc]
    OBVIOUS
  <2>7. new \in Stream /\ new.pc = pc /\ new.m = old.m /\ new.ch = ch
    BY <2>3, <2>6 DEF Stream, Events
  <2>8. stream' = [stream EXCEPT ![c] = new]
    BY <1>1, <1>5, <2>1, <2>5, <2>6 DEF StreamSends
  <2>9. Len(ch) <= HubBuffer /\ \A i \in 1 .. Len(ch) : ch[i] = "done" => old.m \in over
    BY <1>2, <1>3, <2>2, <2>3
  <2>10. /\ StreamInv' /\ (\A d \in Clients : d # c => View(d)' = View(d))
         /\ new.pc = "open" => View(c)' = <<"open", new.m>>
         /\ new.pc = "told" => View(c)' = <<"done", new.m>>
    BY <1>2, <2>7, <2>8, <2>9, OneStream
  <2>11. View(c) = <<"open", old.m>>
    BY <1>1, <1>2 DEF View
  <2>12. CASE pc = "open"
    <3>1. [d \in Clients |-> View(d)]' = [d \in Clients |-> View(d)]
      BY <2>7, <2>10, <2>11, <2>12
    <3>2. QED
      BY <1>2, <2>10, <3>1 DEF Keeps, Others
  <2>13. CASE pc = "told"
    <3>1. old.m \in over
      BY <1>2, <2>4, <2>5, <2>13
    <3>2. Promise!TellsDone(c, old.m)
      BY <1>2, <2>7, <2>10, <2>11, <2>13, <3>1 DEF Promise!TellsDone, Promise!Open, Promise!Done, Others
    <3>3. QED
      BY <1>2, <2>10, <3>2 DEF Keeps, Promise!JobStreamNext
  <2>14. QED
    BY <2>12, <2>13
<1>6. QED
  BY <1>4, <1>5

LEMMA ClientLeavesKeeps ==
  ASSUME StreamInv, NEW c \in Clients, ClientLeaves(c)
  PROVE  Keeps
<1>1. PICK old \in Stream : old = stream[c]
  BY DEF StreamInv, TypeOK
<1>2. /\ old.pc = "open" /\ old.m \in Media /\ Len(old.ch) <= HubBuffer
      /\ \A i \in 1 .. Len(old.ch) : old.ch[i] = "done" => old.m \in over
      /\ UNCHANGED Others
  BY <1>1 DEF StreamInv, TypeOK, StreamsReported, EventsReported, ClientLeaves, Others
<1>3. PICK new : new = [old EXCEPT !.gone = TRUE]
  OBVIOUS
<1>4. new \in Stream /\ new.pc = "open" /\ new.m = old.m /\ new.ch = old.ch
  BY <1>2, <1>3 DEF Stream
<1>5. stream' = [stream EXCEPT ![c] = new]
  BY <1>1, <1>3 DEF ClientLeaves
<1>6. StreamInv' /\ (\A d \in Clients : d # c => View(d)' = View(d)) /\ View(c)' = <<"open", new.m>>
  BY <1>2, <1>4, <1>5, OneStream
<1>7. View(c) = <<"open", new.m>>
  BY <1>1, <1>2, <1>4 DEF View
<1>8. [d \in Clients |-> View(d)]' = [d \in Clients |-> View(d)]
  BY <1>6, <1>7
<1>9. QED
  BY <1>2, <1>6, <1>8 DEF Keeps, Others

LEMMA RestartKeeps == ASSUME StreamInv, ServerRestarts PROVE Keeps
<1>1. LifeOK' /\ OverIsReported'
  BY QueueTyped, OnlySettlingEnds DEF Items, StreamInv, TypeOK, LifeOK, ServerRestarts
<1>2. \A c \in Clients : stream'[c] = Closed
  BY DEF ServerRestarts
<1>3. stream' \in [Clients -> Stream]
  BY ClosedIsStream DEF ServerRestarts
<1>4. listener' \in ListenerState
  BY DEF ServerRestarts, ListenerState, Idle
<1>5. <<>> \in Seq(Media \cup {NoItem}) /\ Len(<<>>) <= BusBuffer /\ 0 <= HubBuffer
  BY StreamAssumption
<1>6. TypeOK'
  BY <1>1, <1>2, <1>3, <1>4, <1>5, ClosedIsStream DEF StreamInv, TypeOK, LifeOK, ServerRestarts
<1>7. TellingReported'
  BY DEF TellingReported, ServerRestarts
<1>8. EventsReported' /\ StreamsReported'
  BY <1>2, ClosedIsStream DEF EventsReported, StreamsReported
<1>9. \A c \in Clients : View(c)' = NoItem
  BY <1>2, ClosedIsStream DEF View
<1>10. Promise!Closes(Clients)
  BY <1>9 DEF Promise!Closes, ServerRestarts
<1>11. QED
  BY <1>1, <1>6, <1>7, <1>8, <1>10 DEF Keeps, StreamInv, Promise!JobStreamNext

-----------------------------------------------------------------------------
(* The theorems *)

LEMMA StreamInit == Init => StreamInv /\ Promise!JobStreamInit
<1> SUFFICES ASSUME Init PROVE StreamInv /\ Promise!JobStreamInit
  OBVIOUS
<1>1. \A c \in Clients : stream[c] = Closed
  BY DEF Init
<1>2. stream \in [Clients -> Stream]
  BY ClosedIsStream DEF Init
<1>3. listener \in ListenerState
  BY DEF Init, ListenerState, Idle
<1>4. <<>> \in Seq(Media \cup {NoItem}) /\ Len(<<>>) <= BusBuffer /\ 0 <= HubBuffer
  BY StreamAssumption
<1>5. LifeOK
  BY DEF Init, LifecycleInit, LifeOK, ItemStatus
<1>6. TypeOK
  BY <1>1, <1>2, <1>3, <1>4, <1>5, ClosedIsStream DEF Init, TypeOK, LifeOK
<1>7. OverIsReported /\ TellingReported
  BY DEF Init, LifecycleInit, OverIsReported, TellingReported, IsOver, Over
<1>8. EventsReported /\ StreamsReported
  BY <1>1, ClosedIsStream DEF EventsReported, StreamsReported
<1>9. Promise!JobStreamInit
  BY <1>1, ClosedIsStream DEF Init, Promise!JobStreamInit, View
<1>10. QED
  BY <1>6, <1>7, <1>8, <1>9 DEF StreamInv

LEMMA StreamStep == StreamInv /\ [Next]_vars => Keeps
<1> SUFFICES ASSUME StreamInv, [Next]_vars PROVE Keeps
  OBVIOUS
<1>1. CASE UNCHANGED vars
  BY <1>1, StreamsUntouched
  DEF vars, StreamInv, TypeOK, OverIsReported, TellingReported, IsOver, lifecycle
<1>2. QED
  BY <1>1, SilentKeeps, SubJobDoneKeeps, SubJobFailsKeeps, ReadsJobKeeps, BreaksOffKeeps, TellsKeeps,
     ProgressKeeps, MonitorKeeps, StreamReadsKeeps, StreamBeginsKeeps, StreamSendsKeeps,
     ClientLeavesKeeps, ScannerKeeps, ListenerTakesKeeps, ListenerKeeps, RestartKeeps
  DEF Next

\* Streams, channels, publishers and the listener keep to their sets, and no channel
\* holds more than it has room for, whatever the buffers' sizes.
THEOREM StreamsTyped == Spec => []TypeOK
<1>1. Init => StreamInv
  BY StreamInit
<1>2. StreamInv /\ [Next]_vars => StreamInv'
  BY StreamStep DEF Keeps
<1>3. StreamInv => TypeOK
  BY DEF StreamInv
<1>4. QED
  BY <1>1, <1>2, <1>3, PTL DEF Spec

\* For any clients, publishers and buffers, the hub, those who publish to it and
\* JobProgress keep the promise of JobStream: done is told of a job only if an end of
\* that job was reported, and once.
THEOREM StreamsKeepPromise == Spec => KeepsPromise
<1>1. Init => StreamInv /\ Promise!JobStreamInit
  BY StreamInit
<1>2. StreamInv /\ [Next]_vars =>
        StreamInv' /\ [Promise!JobStreamNext]_<<over, [c \in Clients |-> View(c)]>>
  BY StreamStep DEF Keeps
<1>3. QED
  BY <1>1, <1>2, PTL DEF Spec, KeepsPromise, Promise!JobStreamSpec

-----------------------------------------------------------------------------
(* The end of a job is never lost on its way to a stream that waits for it *)

\* "done" is in the stream's channel.
Sent(c) == \E i \in DOMAIN stream[c].ch : stream[c].ch[i] = "done"

LEMMA OnItsWay ==
  ASSUME EndIsOnItsWay, NEW c \in Clients, Hangs(c), ~stream[c].missed
  PROVE  Sent(c) \/ WillTell(stream[c].m)
  BY DEF EndIsOnItsWay, Sent

LEMMA IsOnItsWay ==
  ASSUME \A c \in Clients : Hangs(c)' /\ ~stream'[c].missed => Sent(c)' \/ WillTell(stream[c].m)'
  PROVE  EndIsOnItsWay'
  BY DEF EndIsOnItsWay, Sent

\* A stream that is open is about an item.
LEMMA HangsOnItem ==
  ASSUME StreamInv, NEW c \in Clients, Hangs(c)
  PROVE  stream[c].m \in Media
  BY DEF StreamInv, StreamsReported, Hangs

\* A step that leaves the streams alone: who ends a job is going to tell, and who was
\* going to tell of a job that is over still is.
LEMMA StreamsWait ==
  ASSUME StreamInv, EndIsOnItsWay, UNCHANGED stream,
         \A m \in Media : IsOver(m)' => IsOver(m) \/ WillTell(m)',
         \A m \in Media : WillTell(m) /\ IsOver(m)' => WillTell(m)'
  PROVE  EndIsOnItsWay'
<1> SUFFICES ASSUME NEW c \in Clients, Hangs(c)', ~stream'[c].missed
             PROVE  Sent(c)' \/ WillTell(stream[c].m)'
  BY IsOnItsWay
<1>1. PICK m \in Media : m = stream[c].m /\ IsOver(m)'
  BY DEF Hangs, StreamInv, StreamsReported
<1>2. CASE WillTell(m)'
  BY <1>1, <1>2
<1>3. CASE IsOver(m) /\ ~WillTell(m)'
  <2>1. Hangs(c) /\ ~stream[c].missed
    BY <1>1, <1>3 DEF Hangs
  <2>2. Sent(c)
    BY <1>1, <1>3, <2>1, OnItsWay
  <2>3. QED
    BY <2>2 DEF Sent
<1>4. QED
  BY <1>1, <1>2, <1>3

\* Steps that end no job and after which nobody has less to tell.
LEMMA NothingIsLost ==
  ASSUME StreamInv, EndIsOnItsWay, UNCHANGED stream, telling \subseteq telling',
         \/ UNCHANGED lifecycle
         \/ Moves
         \/ \E m \in Items : \/ Deletes(m) \/ Creates(m) \/ Requeues(m)
                             \/ \E s \in ItemStatus : Marks(m, s)
  PROVE  EndIsOnItsWay'
<1>1. \A m \in Media : IsOver(m)' => IsOver(m)
  BY NothingEnds DEF StreamInv, TypeOK, LifeOK, IsOver, lifecycle
<1>2. \A m \in Media : WillTell(m) => WillTell(m)'
  BY DEF WillTell
<1>3. QED
  BY <1>1, <1>2, StreamsWait

LEMMA SubJobDoneWaits ==
  ASSUME StreamInv, EndIsOnItsWay, NEW b \in Publishers, NEW m \in Media, SubJobDone(b, m)
  PROVE  EndIsOnItsWay'
<1>1. PICK new : new = [by |-> b, m |-> m, pc |-> "read", done |-> FALSE]
  OBVIOUS
<1>2. telling' = telling \cup {new} /\ UNCHANGED stream
  BY <1>1 DEF SubJobDone, ThenReads
<1>3. WillTell(m)'
  BY <1>1, <1>2 DEF WillTell
<1>4. ASSUME NEW n \in Media, n # m
      PROVE  life'[n] = life[n]
  BY <1>4 DEF SubJobDone, SubJobEnds, Settles, lifecycle, StreamInv, TypeOK
<1>5. \A n \in Media : IsOver(n)' => IsOver(n) \/ WillTell(n)'
  BY <1>3, <1>4 DEF IsOver
<1>6. \A n \in Media : WillTell(n) => WillTell(n)'
  BY <1>2 DEF WillTell
<1>7. QED
  BY <1>2, <1>5, <1>6, StreamsWait

LEMMA SubJobFailsWaits ==
  ASSUME StreamInv, EndIsOnItsWay, NEW b \in Publishers, NEW m \in Media, SubJobFails(b, m)
  PROVE  EndIsOnItsWay'
<1>1. PICK new : new = [by |-> b, m |-> m, pc |-> "tell", done |-> TRUE]
  OBVIOUS
<1>2. telling' = telling \cup {new} /\ UNCHANGED stream
  BY <1>1 DEF SubJobFails, ThenTells
<1>3. WillTell(m)'
  BY <1>1, <1>2 DEF WillTell
<1>4. ASSUME NEW n \in Media, n # m
      PROVE  life'[n] = life[n]
  BY <1>4 DEF SubJobFails, SubJobEnds, Settles, lifecycle, StreamInv, TypeOK
<1>5. \A n \in Media : IsOver(n)' => IsOver(n) \/ WillTell(n)'
  BY <1>3, <1>4 DEF IsOver
<1>6. \A n \in Media : WillTell(n) => WillTell(n)'
  BY <1>2 DEF WillTell
<1>7. QED
  BY <1>2, <1>5, <1>6, StreamsWait

\* A publisher that reads a job that is over goes on to say so.
LEMMA ReadsJobWaits ==
  ASSUME StreamInv, EndIsOnItsWay, NEW u \in telling, ReadsJob(u)
  PROVE  EndIsOnItsWay'
<1>1. UNCHANGED <<life, stream>>
  BY DEF ReadsJob, lifecycle
<1>2. PICK old \in Telling : old = u
  BY DEF StreamInv, TypeOK
<1>3. ASSUME NEW m \in Media, WillTell(m), IsOver(m)'
      PROVE  WillTell(m)'
  <2>1. IsOver(m)
    BY <1>1, <1>3 DEF IsOver
  <2>2. PICK t \in telling : t.m = m /\ (t.pc = "read" \/ t.done)
    BY <1>3 DEF WillTell
  <2>3. CASE t = u
    <3>1. JobExists(old.m) /\ IsDone(old.m)
      BY <1>2, <2>1, <2>2, <2>3 DEF JobExists, IsDone, IsOver, Over
    <3>2. PICK new : new = [[old EXCEPT !.pc = "tell"] EXCEPT !.done = TRUE]
      OBVIOUS
    <3>3. IsDone(old.m) = TRUE
      BY <3>1 DEF IsDone, IsOver
    <3>4. new \in telling'
      BY <1>2, <3>1, <3>2, <3>3 DEF ReadsJob
    <3>5. new.m = m /\ new.done
      BY <1>2, <2>2, <2>3, <3>2 DEF Telling
    <3>6. QED
      BY <3>4, <3>5 DEF WillTell
  <2>4. CASE t # u
    <3>1. t \in telling'
      BY <2>4 DEF ReadsJob
    <3>2. QED
      BY <2>2, <3>1 DEF WillTell
  <2>5. QED
    BY <2>3, <2>4
<1>4. \A m \in Media : IsOver(m)' => IsOver(m)
  BY <1>1 DEF IsOver
<1>5. QED
  BY <1>1, <1>3, <1>4, StreamsWait

\* The other steps that leave the streams alone.
LEMMA OthersWait ==
  ASSUME StreamInv, EndIsOnItsWay,
         \/ Silent \/ MonitorRequeues \/ UpdateSetting
         \/ \E m \in Media : ScannerWrites(m) \/ ScannerAnnounces(m)
         \/ ListenerSubscribes \/ ListenerStep
  PROVE  EndIsOnItsWay'
<1>1. UNCHANGED stream /\ telling \subseteq telling'
  BY DEF Silent, MonitorRequeues, UpdateSetting, ScannerWrites, ScannerAnnounces,
         ListenerSubscribes, ListenerStep, ListenerTakes, ListenerReads, ListenerEnqueues,
         ListenerWrites, ListenerFails, ListenerMarks
<1>2. listener.m \in Items
  BY DEF StreamInv, TypeOK, ListenerState, Items
<1>3. \/ UNCHANGED lifecycle
      \/ Moves
      \/ \E m \in Items : \/ Deletes(m) \/ Creates(m) \/ Requeues(m)
                          \/ \E s \in ItemStatus : Marks(m, s)
  <2>1. CASE Silent
    BY <2>1 DEF Silent, Items
  <2>2. CASE MonitorRequeues
    BY <2>2 DEF MonitorRequeues
  <2>3. CASE UpdateSetting \/ ListenerSubscribes
    BY <2>3 DEF UpdateSetting, ListenerSubscribes
  <2>4. ASSUME NEW m \in Media, ScannerWrites(m) \/ ScannerAnnounces(m)
        PROVE  UNCHANGED lifecycle \/ \E s \in ItemStatus : Marks(m, s)
    BY <2>4 DEF ScannerWrites, ScannerAnnounces, ItemStatus
  <2>5. CASE ListenerStep
    BY <1>2, <2>5 DEF ListenerStep, ListenerTakes, ListenerReads, ListenerEnqueues,
                      ListenerWrites, ListenerFails, ListenerMarks, ItemStatus
  <2>6. QED
    BY <2>1, <2>2, <2>3, <2>4, <2>5 DEF Items
<1>4. QED
  BY <1>1, <1>3, NothingIsLost

\* A step that ends no job: a stream that hangs did so before, about the same item.
LEMMA StreamHung ==
  ASSUME UNCHANGED life, NEW c \in Clients, Hangs(c)',
         stream'[c].pc = stream[c].pc, stream'[c].m = stream[c].m
  PROVE  Hangs(c)
  BY DEF Hangs, IsOver

\* What the hub makes of an event for one stream: a channel loses nothing, and a stream
\* that asked has the event, or has missed an end.
LEMMA EventGoes ==
  ASSUME StreamInv, NEW m \in Media, NEW e \in Events, Publish(m, e), NEW c \in Clients
  PROVE  /\ stream'[c].pc = stream[c].pc /\ stream'[c].m = stream[c].m
         /\ stream[c].missed => stream'[c].missed
         /\ Sent(c) => Sent(c)'
         /\ Subscribed(c, m) /\ e = "done" => Sent(c)' \/ stream'[c].missed
<1>1. PICK old \in Stream : old = stream[c]
  BY DEF StreamInv, TypeOK
<1>2. CASE ~Subscribed(c, m)
  <2>1. stream'[c] = stream[c]
    BY <1>2 DEF Publish
  <2>2. QED
    BY <1>2, <2>1 DEF Sent
<1>3. CASE Subscribed(c, m) /\ Len(stream[c].ch) < HubBuffer
  <2>1. PICK q : q = Append(old.ch, e)
    OBVIOUS
  <2>2. old.ch \in Seq(Events)
    BY DEF Stream, Events
  <2>3. /\ q \in Seq(Events) /\ Len(q) = Len(old.ch) + 1
        /\ \A i \in 1 .. Len(old.ch) : q[i] = old.ch[i]
        /\ q[Len(old.ch) + 1] = e
    BY <2>1, <2>2, AppendProperties
  <2>4. DOMAIN q = 1 .. Len(q) /\ DOMAIN old.ch = 1 .. Len(old.ch) /\ Len(old.ch) \in Nat
    BY <2>2, <2>3, LenProperties
  <2>5. PICK new : new = [old EXCEPT !.ch = q]
    OBVIOUS
  <2>6. new.pc = old.pc /\ new.m = old.m /\ new.missed = old.missed /\ new.ch = q
    BY <2>5 DEF Stream
  <2>7. stream'[c] = new
    BY <1>1, <1>3, <2>1, <2>5 DEF Publish
  <2>8. ASSUME Sent(c)
        PROVE  Sent(c)'
    <3>1. PICK i \in 1 .. Len(old.ch) : old.ch[i] = "done"
      BY <1>1, <2>4, <2>8 DEF Sent
    <3>2. i \in DOMAIN q /\ q[i] = "done"
      BY <2>3, <2>4, <3>1
    <3>3. QED
      BY <2>6, <2>7, <3>2 DEF Sent
  <2>9. ASSUME e = "done"
        PROVE  Sent(c)'
    <3>1. Len(old.ch) + 1 \in DOMAIN q
      BY <2>3, <2>4
    <3>2. QED
      BY <2>3, <2>6, <2>7, <2>9, <3>1 DEF Sent
  <2>10. QED
    BY <1>1, <2>6, <2>7, <2>8, <2>9
<1>4. CASE Subscribed(c, m) /\ ~(Len(stream[c].ch) < HubBuffer)
  <2>1. PICK b \in BOOLEAN : b = (old.missed \/ e = "done")
    BY DEF Stream
  <2>2. PICK new : new = [old EXCEPT !.missed = b]
    OBVIOUS
  <2>3. stream'[c] = new
    BY <1>1, <1>4, <2>1, <2>2 DEF Publish
  <2>4. new.pc = old.pc /\ new.m = old.m /\ new.ch = old.ch /\ new.missed = b
    BY <2>2 DEF Stream
  <2>5. QED
    BY <1>1, <2>1, <2>3, <2>4 DEF Sent
<1>5. QED
  BY <1>2, <1>3, <1>4

\* A publisher that told of the end of a job leaves it in the channel.
LEMMA TellsWaits ==
  ASSUME StreamInv, EndIsOnItsWay, NEW u \in telling, Tells(u)
  PROVE  EndIsOnItsWay'
<1>1. PICK m \in Media, e \in Events : m = u.m /\ e = (IF u.done THEN "done" ELSE "progress")
  BY DEF StreamInv, TypeOK, Telling, Events
<1>2. Publish(m, e) /\ UNCHANGED life /\ u.pc = "tell" /\ telling' = telling \ {u}
  BY <1>1 DEF Tells, lifecycle
<1> SUFFICES ASSUME NEW c \in Clients, Hangs(c)', ~stream'[c].missed
             PROVE  Sent(c)' \/ WillTell(stream[c].m)'
  BY IsOnItsWay
<1>3. /\ stream'[c].pc = stream[c].pc /\ stream'[c].m = stream[c].m
      /\ stream[c].missed => stream'[c].missed
      /\ Sent(c) => Sent(c)'
      /\ Subscribed(c, m) /\ e = "done" => Sent(c)' \/ stream'[c].missed
  BY <1>1, <1>2, EventGoes
<1>4. Hangs(c)
  BY <1>2, <1>3, StreamHung
<1>5. ASSUME WillTell(stream[c].m), ~Sent(c)'
      PROVE  WillTell(stream[c].m)'
  <2>1. PICK t \in telling : t.m = stream[c].m /\ (t.pc = "read" \/ t.done)
    BY <1>5 DEF WillTell
  <2>2. t # u
    BY <1>1, <1>2, <1>3, <1>4, <1>5, <2>1 DEF Subscribed, Hangs
  <2>3. t \in telling'
    BY <1>2, <2>2
  <2>4. QED
    BY <1>3, <2>1, <2>3 DEF WillTell
<1>6. QED
  BY <1>3, <1>4, <1>5, OnItsWay

LEMMA ProgressWaits ==
  ASSUME StreamInv, EndIsOnItsWay, NEW m \in Media, TellsProgress(m)
  PROVE  EndIsOnItsWay'
<1>1. PICK e \in Events : e = "progress"
  BY DEF Events
<1>2. Publish(m, e) /\ UNCHANGED <<life, telling>>
  BY <1>1 DEF TellsProgress, lifecycle
<1> SUFFICES ASSUME NEW c \in Clients, Hangs(c)', ~stream'[c].missed
             PROVE  Sent(c)' \/ WillTell(stream[c].m)'
  BY IsOnItsWay
<1>3. /\ stream'[c].pc = stream[c].pc /\ stream'[c].m = stream[c].m
      /\ stream[c].missed => stream'[c].missed
      /\ Sent(c) => Sent(c)'
  BY <1>2, EventGoes
<1>4. Hangs(c)
  BY <1>2, <1>3, StreamHung
<1>5. WillTell(stream[c].m) => WillTell(stream[c].m)'
  BY <1>2, <1>3 DEF WillTell
<1>6. QED
  BY <1>3, <1>4, <1>5, OnItsWay

\* A handler that breaks off publishes nothing, and who waits for it has missed the end.
LEMMA BreaksOffWaits ==
  ASSUME StreamInv, EndIsOnItsWay, NEW u \in telling, UploadBreaksOff(u)
  PROVE  EndIsOnItsWay'
<1> SUFFICES ASSUME NEW c \in Clients, Hangs(c)', ~stream'[c].missed
             PROVE  Sent(c)' \/ WillTell(stream[c].m)'
  BY IsOnItsWay
<1>1. PICK old \in Stream : old = stream[c]
  BY DEF StreamInv, TypeOK
<1>2. PICK b \in BOOLEAN : b = (old.missed \/ Subscribed(c, u.m))
  <2>1. (old.missed \/ Subscribed(c, u.m)) \in BOOLEAN
    BY DEF Subscribed
  <2>2. QED
    BY <2>1
<1>3. PICK new : new = [old EXCEPT !.missed = b]
  OBVIOUS
<1>4. stream'[c] = new
  BY <1>1, <1>2, <1>3 DEF UploadBreaksOff
<1>5. new.pc = old.pc /\ new.m = old.m /\ new.ch = old.ch /\ new.missed = b
  BY <1>3 DEF Stream
<1>6. UNCHANGED life /\ telling' = telling \ {u}
  BY DEF UploadBreaksOff, lifecycle
<1>7. Hangs(c) /\ ~stream[c].missed /\ ~Subscribed(c, u.m)
  BY <1>1, <1>2, <1>4, <1>5, <1>6, StreamHung
<1>8. CASE Sent(c)
  BY <1>1, <1>4, <1>5, <1>8 DEF Sent
<1>9. CASE WillTell(stream[c].m)
  <2>1. PICK t \in telling : t.m = stream[c].m /\ (t.pc = "read" \/ t.done)
    BY <1>9 DEF WillTell
  <2>2. t \in telling'
    BY <1>6, <1>7, <2>1 DEF Subscribed, Hangs
  <2>3. QED
    BY <1>1, <1>4, <1>5, <2>1, <2>2 DEF WillTell
<1>10. QED
  BY <1>7, <1>8, <1>9, OnItsWay

\* A step of one stream leaves the others as they are.
LEMMA OneStreamWaits ==
  ASSUME StreamInv, EndIsOnItsWay, UNCHANGED Others, NEW c \in Clients, NEW new,
         stream' = [stream EXCEPT ![c] = new],
         Hangs(c)' /\ ~new.missed => Sent(c)' \/ WillTell(new.m)
  PROVE  EndIsOnItsWay'
<1> SUFFICES ASSUME NEW d \in Clients, Hangs(d)', ~stream'[d].missed
             PROVE  Sent(d)' \/ WillTell(stream[d].m)'
  BY IsOnItsWay
<1>1. stream'[c] = new /\ \A x \in Clients : x # c => stream'[x] = stream[x]
  BY DEF StreamInv, TypeOK
<1>2. UNCHANGED <<life, telling>>
  BY DEF Others, lifecycle
<1>3. CASE d = c
  BY <1>1, <1>2, <1>3 DEF WillTell
<1>4. CASE d # c
  <2>1. Hangs(d) /\ ~stream[d].missed
    BY <1>1, <1>2, <1>4, StreamHung
  <2>2. Sent(d) \/ WillTell(stream[d].m)
    BY <2>1, OnItsWay
  <2>3. QED
    BY <1>1, <1>2, <1>4, <2>2 DEF Sent, WillTell
<1>5. QED
  BY <1>3, <1>4

LEMMA StreamReadsWaits ==
  ASSUME StreamInv, EndIsOnItsWay, NEW c \in Clients, NEW m \in Media, StreamReads(c, m)
  PROVE  EndIsOnItsWay'
<1>1. PICK b : b = IsOver(m)
  OBVIOUS
<1>2. PICK old \in Stream : old = Closed
  BY ClosedIsStream
<1>3. PICK new : new = [[[old EXCEPT !.pc = "read"] EXCEPT !.m = m] EXCEPT !.ended = b]
  OBVIOUS
<1>4. stream' = [stream EXCEPT ![c] = new] /\ UNCHANGED Others
  BY <1>1, <1>2, <1>3 DEF StreamReads, Others
<1>5. new.pc = "read"
  BY <1>3 DEF Stream
<1>6. stream'[c] = new
  BY <1>4 DEF StreamInv, TypeOK
<1>7. ~Hangs(c)'
  BY <1>5, <1>6 DEF Hangs
<1>8. QED
  BY <1>4, <1>7, OneStreamWaits

\* Who subscribes after the end has missed it, unless somebody is yet to tell.
LEMMA StreamBeginsWaits ==
  ASSUME StreamInv, EndIsOnItsWay, NEW c \in Clients, StreamBegins(c)
  PROVE  EndIsOnItsWay'
<1>1. PICK old \in Stream : old = stream[c]
  BY DEF StreamInv, TypeOK
<1>2. PICK b \in BOOLEAN :
        b = (IsOver(old.m) /\ ~\E u \in telling : u.m = old.m /\ (u.pc = "read" \/ u.done))
  <2>1. (IsOver(old.m) /\ ~\E u \in telling : u.m = old.m /\ (u.pc = "read" \/ u.done)) \in BOOLEAN
    OBVIOUS
  <2>2. QED
    BY <2>1
<1>3. PICK pc : pc = IF old.ended THEN "told" ELSE "open"
  OBVIOUS
<1>4. PICK new : new = [[old EXCEPT !.pc = pc] EXCEPT !.missed = b]
  OBVIOUS
<1>5. new.m = old.m /\ new.missed = b
  BY <1>4 DEF Stream
<1>6. stream' = [stream EXCEPT ![c] = new] /\ UNCHANGED Others
  BY <1>1, <1>2, <1>3, <1>4 DEF StreamBegins, Others
<1>7. stream'[c] = new /\ UNCHANGED life
  BY <1>6 DEF StreamInv, TypeOK, Others, lifecycle
<1>8. Hangs(c)' => IsOver(old.m)
  BY <1>5, <1>7 DEF Hangs, IsOver
<1>9. IsOver(old.m) /\ ~b => WillTell(new.m)
  BY <1>2, <1>5 DEF WillTell
<1>10. QED
  BY <1>5, <1>6, <1>8, <1>9, OneStreamWaits

\* What is taken from a channel without ending the stream was not "done".
LEMMA StreamSendsWaits ==
  ASSUME StreamInv, EndIsOnItsWay, NEW c \in Clients, StreamSends(c)
  PROVE  EndIsOnItsWay'
<1>1. PICK old \in Stream : old = stream[c]
  BY DEF StreamInv, TypeOK
<1>2. old.pc = "open" /\ old.ch # <<>> /\ UNCHANGED Others /\ UNCHANGED life
  BY <1>1 DEF StreamSends, Others, lifecycle
<1>3. CASE old.gone
  <2>1. stream' = [stream EXCEPT ![c] = Closed]
    BY <1>1, <1>3 DEF StreamSends
  <2>2. stream'[c] = Closed
    BY <2>1 DEF StreamInv, TypeOK
  <2>3. ~Hangs(c)'
    BY <2>2, ClosedIsStream DEF Hangs
  <2>4. QED
    BY <1>2, <2>1, <2>3, OneStreamWaits
<1>4. CASE ~old.gone
  <2>1. PICK ch : ch = Tail(old.ch)
    OBVIOUS
  <2>2. old.ch \in Seq(Events) /\ Len(old.ch) \in Nat /\ DOMAIN old.ch = 1 .. Len(old.ch)
    BY LenProperties DEF Stream, Events
  <2>3. /\ ch \in Seq(Events) /\ Len(ch) = Len(old.ch) - 1
        /\ \A i \in 1 .. Len(ch) : ch[i] = old.ch[i + 1]
    BY <1>2, <2>1, <2>2, HeadTailProperties
  <2>4. DOMAIN ch = 1 .. Len(ch)
    BY <2>3, LenProperties
  <2>5. PICK pc : pc = IF Head(old.ch) = "done" THEN "told" ELSE "open"
    OBVIOUS
  <2>6. PICK new : new = [[old EXCEPT !.ch = ch] EXCEPT !.pc = pc]
    OBVIOUS
  <2>7. new.pc = pc /\ new.m = old.m /\ new.ch = ch /\ new.missed = old.missed
    BY <2>6 DEF Stream
  <2>8. stream' = [stream EXCEPT ![c] = new]
    BY <1>1, <1>4, <2>1, <2>5, <2>6 DEF StreamSends
  <2>9. stream'[c] = new
    BY <2>8 DEF StreamInv, TypeOK
  <2>10. ASSUME Hangs(c)', ~new.missed
         PROVE  Sent(c)' \/ WillTell(new.m)
    <3>1. Hangs(c) /\ ~stream[c].missed
      BY <1>1, <1>2, <2>7, <2>9, <2>10 DEF Hangs, IsOver
    <3>2. pc = "open"
      BY <2>7, <2>9, <2>10 DEF Hangs
    <3>3. ASSUME Sent(c)
          PROVE  Sent(c)'
      <4>1. PICK i \in 1 .. Len(old.ch) : old.ch[i] = "done"
        BY <1>1, <2>2, <3>3 DEF Sent
      <4>2. i # 1
        BY <2>5, <3>2, <4>1
      <4>3. i - 1 \in 1 .. Len(ch) /\ ch[i - 1] = "done"
        BY <2>2, <2>3, <4>1, <4>2
      <4>4. QED
        BY <2>4, <2>7, <2>9, <4>3 DEF Sent
    <3>4. QED
      BY <1>1, <2>7, <3>1, <3>3, OnItsWay
  <2>11. QED
    BY <1>2, <2>8, <2>10, OneStreamWaits
<1>5. QED
  BY <1>3, <1>4

LEMMA ClientLeavesWaits ==
  ASSUME StreamInv, EndIsOnItsWay, NEW c \in Clients, ClientLeaves(c)
  PROVE  EndIsOnItsWay'
<1>1. PICK old \in Stream : old = stream[c]
  BY DEF StreamInv, TypeOK
<1>2. PICK new : new = [old EXCEPT !.gone = TRUE]
  OBVIOUS
<1>3. new.pc = old.pc /\ new.m = old.m /\ new.ch = old.ch /\ new.missed = old.missed
  BY <1>2 DEF Stream
<1>4. stream' = [stream EXCEPT ![c] = new] /\ UNCHANGED Others /\ UNCHANGED life
  BY <1>1, <1>2 DEF ClientLeaves, Others, lifecycle
<1>5. stream'[c] = new
  BY <1>4 DEF StreamInv, TypeOK
<1>6. ASSUME Hangs(c)', ~new.missed
      PROVE  Sent(c)' \/ WillTell(new.m)
  <2>1. Hangs(c) /\ ~stream[c].missed
    BY <1>1, <1>3, <1>4, <1>5, <1>6, StreamHung
  <2>2. Sent(c) => Sent(c)'
    BY <1>1, <1>3, <1>5 DEF Sent
  <2>3. QED
    BY <1>1, <1>3, <2>1, <2>2, OnItsWay
<1>7. QED
  BY <1>4, <1>6, OneStreamWaits

LEMMA RestartWaits == ASSUME ServerRestarts PROVE EndIsOnItsWay'
<1>1. \A c \in Clients : ~Hangs(c)'
  BY ClosedIsStream DEF ServerRestarts, Hangs
<1>2. QED
  BY <1>1, IsOnItsWay

LEMMA EndStaysOnItsWay == StreamInv /\ EndIsOnItsWay /\ [Next]_vars => EndIsOnItsWay'
<1> SUFFICES ASSUME StreamInv, EndIsOnItsWay, [Next]_vars PROVE EndIsOnItsWay'
  OBVIOUS
<1>1. CASE UNCHANGED vars
  BY <1>1, NothingIsLost DEF vars
<1>2. QED
  BY <1>1, SubJobDoneWaits, SubJobFailsWaits, ReadsJobWaits, OthersWait, TellsWaits, ProgressWaits,
     BreaksOffWaits, StreamReadsWaits, StreamBeginsWaits, StreamSendsWaits, ClientLeavesWaits,
     RestartWaits
  DEF Next, ListenerStep

\* The safety half of NoStreamHangs, for any items, clients, publishers and buffers:
\* while a stream waits for the end of a job that is over, that end is in its channel
\* or with a publisher, unless the stream missed it.
THEOREM StreamsHearOfTheEnd == Spec => []EndIsOnItsWay
<1>1. Init => StreamInv /\ EndIsOnItsWay
  <2>1. Init => \A c \in Clients : ~Hangs(c)
    BY ClosedIsStream DEF Init, Hangs
  <2>2. Init => EndIsOnItsWay
    BY <2>1 DEF EndIsOnItsWay
  <2>3. QED
    BY <2>2, StreamInit
<1>2. StreamInv /\ EndIsOnItsWay /\ [Next]_vars => StreamInv' /\ EndIsOnItsWay'
  BY StreamStep, EndStaysOnItsWay DEF Keeps
<1>3. QED
  BY <1>1, <1>2, PTL DEF Spec
=============================================================================
