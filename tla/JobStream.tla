------------------------------ MODULE JobStream ------------------------------
(***************************************************************************)
(* What the progress stream of a job promises its clients, whatever        *)
(* publishes and however events are buffered, dropped or late: a client is *)
(* told that the job is done only if an end of that job was reported, it   *)
(* is told once, and nothing follows until it opens the stream anew.       *)
(***************************************************************************)
CONSTANTS
  Clients,   \* websockets
  Jobs,
  NoStream   \* a client without a stream

VARIABLES
  over,   \* jobs of which an end was reported
  view    \* what a client has: no stream, one that is open, or a job that is done

JobStreamInit ==
  /\ over = {}
  /\ view = [c \in Clients |-> NoStream]

Open(j) == <<"open", j>>
Done(j) == <<"done", j>>

EndReported(S) == over' = over \cup S /\ UNCHANGED view

Opens(c, j) ==
  /\ view[c] = NoStream
  /\ view' = [view EXCEPT ![c] = Open(j)]
  /\ UNCHANGED over

TellsDone(c, j) ==
  /\ view[c] = Open(j) /\ j \in over
  /\ view' = [view EXCEPT ![c] = Done(j)]
  /\ UNCHANGED over

\* The stream of a job that is over when it is opened is this one event.
OpensDone(c, j) ==
  /\ view[c] = NoStream /\ j \in over
  /\ view' = [view EXCEPT ![c] = Done(j)]
  /\ UNCHANGED over

\* Clients leave, or the server stops.
Closes(S) ==
  /\ view' = [c \in Clients |-> IF c \in S THEN NoStream ELSE view[c]]
  /\ UNCHANGED over

JobStreamNext ==
  \/ \E S \in SUBSET Jobs : EndReported(S)
  \/ \E c \in Clients, j \in Jobs : Opens(c, j) \/ TellsDone(c, j) \/ OpensDone(c, j)
  \/ \E S \in SUBSET Clients : Closes(S)

JobStreamSpec == JobStreamInit /\ [][JobStreamNext]_<<over, view>>
=============================================================================
