----------------------------- MODULE EventStream -----------------------------
(***************************************************************************)
(* The event stream of an MCP session over HTTP (services/api/mcp/src/       *)
(* mcp_http.rs): the session's outbox numbers every frame the server sends   *)
(* on its own and queues it; a GET opens a stream whose thread takes the     *)
(* whole queue, keeps it among the sent frames, and writes it; a client      *)
(* that lost its stream opens another and names the last number it read      *)
(* (Last-Event-ID), so that later sent frames are queued again.  A client    *)
(* that has read nothing has no number to name, and nothing is queued again. *)
(*                                                                           *)
(* A frame is its number.  The outbox is one mutex; writes happen outside    *)
(* it.  A broken connection is noticed only by a failed write, and a write   *)
(* to it may still succeed.  Ended sessions are modelled by Close.           *)
(***************************************************************************)
EXTENDS Naturals, Sequences, FiniteSets, SequencesExt

CONSTANTS MAX_QUEUED,    \* frames queued for a session without a reader
          REPLAY,        \* sent frames kept
          MAX_STREAMS,   \* open streams, less those of other sessions
          MaxFramesOut,  \* frames the server sends
          MaxGets        \* streams opened

ASSUME EventStreamAssumption ==
    /\ MAX_QUEUED \in Nat \ {0} /\ REPLAY \in Nat \ {0} /\ MAX_STREAMS \in Nat \ {0}
    /\ MaxFramesOut \in Nat /\ MaxGets \in Nat \ {0}

VARIABLES
    queue,      \* frames to be sent
    sent,       \* frames sent, the last REPLAY of them
    nextEvent,  \* frames numbered so far
    streamGen,  \* streams opened so far
    pumps,      \* each stream's thread: its state and the batch it writes
    closed,     \* the session has ended
    reading,    \* the stream the client reads, 0 when its connection broke
    lastId,     \* the last frame number the client read, 0 before the first
    seen,       \* the frames it has read
    dropped,    \* frames a limit has pushed out
    missed      \* history: frames sent before a stream opened without Last-Event-ID

esVars == <<queue, sent, nextEvent, streamGen, pumps, closed, reading, lastId, seen, dropped,
            missed>>

NoPump == [st |-> "none", batch |-> <<>>]

\* The last n frames of a sequence, and those before them.
LastWritten(s, n) == IF Len(s) > n THEN SubSeq(s, Len(s) - n + 1, Len(s)) ELSE s
Before(s, n) == IF Len(s) > n THEN ToSet(SubSeq(s, 1, Len(s) - n)) ELSE {}

-----------------------------------------------------------------------------
(* The server.                                                               *)

\* OutWriter::write of a frame that answers no request; past the limit the
\* oldest goes.
Emit ==
    /\ nextEvent < MaxFramesOut /\ ~closed
    /\ nextEvent' = nextEvent + 1
    /\ LET q == Append(queue, nextEvent + 1)
       IN  IF Len(q) > MAX_QUEUED
           THEN queue' = Tail(q) /\ dropped' = dropped \cup {Head(q)}
           ELSE queue' = q /\ dropped' = dropped
    /\ UNCHANGED <<sent, streamGen, pumps, closed, reading, lastId, seen, missed>>

\* The client names the last frame it read.
LastEventId == lastId # 0

\* A slip in stream: a frame the client may have read is skipped too far.
ToResend_Next == SelectSeq(sent, LAMBDA n : n > lastId + 1)

\* The sent frames after Last-Event-ID; none without it.
ToResend == IF LastEventId THEN SelectSeq(sent, LAMBDA n : n > lastId) ELSE <<>>

\* Threads that write a stream, those of broken and superseded ones too.
Streams == Cardinality({g \in 1..MaxGets : pumps[g].st = "on"})

\* GET /mcp: a newer stream supersedes an older one.  At the limit it is refused (503),
\* which changes nothing, and the client tries again.
OpenStream ==
    /\ reading = 0 /\ streamGen < MaxGets /\ ~closed
    /\ Streams < MAX_STREAMS
    /\ missed' = IF LastEventId THEN missed ELSE missed \cup ToSet(sent)
    /\ streamGen' = streamGen + 1
    /\ queue' = ToResend \o queue
    /\ pumps' = [pumps EXCEPT ![streamGen + 1] = [st |-> "on", batch |-> <<>>]]
    /\ reading' = streamGen + 1
    /\ UNCHANGED <<sent, nextEvent, closed, lastId, seen, dropped>>

\* A slip in stream: the generation is read before it is bumped.
Superseded_OffByOne(g) == streamGen # g - 1

\* The stream's generation is not the newest.
Superseded(g) == streamGen # g

\* A slip in pump: the frames kept for a replay are never trimmed.
SentAfter_Untrimmed == sent \o queue

\* The frames taken join those sent.
SentAfter == LastWritten(sent \o queue, REPLAY)

\* pump takes the whole queue, or ends.
PumpTake(g) ==
    /\ pumps[g].st = "on" /\ pumps[g].batch = <<>>
    /\ IF closed \/ Superseded(g)
       THEN /\ pumps' = [pumps EXCEPT ![g] = NoPump]
            /\ UNCHANGED <<queue, sent, dropped>>
       ELSE /\ queue # <<>>
            /\ pumps' = [pumps EXCEPT ![g].batch = queue]
            /\ sent' = SentAfter
            /\ dropped' = dropped \cup Before(sent \o queue, REPLAY)
            /\ queue' = <<>>
    /\ UNCHANGED <<nextEvent, streamGen, closed, reading, lastId, seen, missed>>

\* The write goes through, frame by frame, if the client is still there.
PumpWrite(g) ==
    /\ pumps[g].st = "on" /\ pumps[g].batch # <<>>
    /\ pumps' = [pumps EXCEPT ![g].batch = Tail(@)]
    /\ IF reading = g
       THEN seen' = seen \cup {Head(pumps[g].batch)} /\ lastId' = Head(pumps[g].batch)
       ELSE UNCHANGED <<seen, lastId>>
    /\ UNCHANGED <<queue, sent, nextEvent, streamGen, closed, reading, dropped, missed>>

\* The write fails: the stream ends.
PumpFails(g) ==
    /\ pumps[g].st = "on" /\ reading # g
    /\ pumps' = [pumps EXCEPT ![g] = NoPump]
    /\ UNCHANGED <<queue, sent, nextEvent, streamGen, closed, reading, lastId, seen, dropped, missed>>

\* HttpSession::close (DELETE, or an idle session evicted).
Close ==
    /\ ~closed /\ nextEvent = MaxFramesOut
    /\ closed' = TRUE
    /\ UNCHANGED <<queue, sent, nextEvent, streamGen, pumps, reading, lastId, seen, dropped, missed>>

\* The client's connection breaks; the last it may open stays up.
Break ==
    /\ reading # 0 /\ reading < MaxGets
    /\ reading' = 0
    /\ UNCHANGED <<queue, sent, nextEvent, streamGen, pumps, closed, lastId, seen, dropped, missed>>

-----------------------------------------------------------------------------
EsInit ==
    /\ queue = <<>> /\ sent = <<>> /\ nextEvent = 0 /\ streamGen = 0
    /\ pumps = [g \in 1..MaxGets |-> NoPump]
    /\ closed = FALSE /\ reading = 0 /\ lastId = 0 /\ seen = {} /\ dropped = {} /\ missed = {}

EsNext ==
    \/ Emit \/ OpenStream \/ Close \/ Break
    \/ \E g \in 1..MaxGets : PumpTake(g) \/ PumpWrite(g) \/ PumpFails(g)

EsSpec == EsInit /\ [][EsNext]_esVars

\* A client that lost its stream opens another; the threads run, and the keep-alives of
\* one whose connection broke fail in the end.
EsFairness ==
    /\ WF_esVars(OpenStream)
    /\ \A g \in 1..MaxGets : WF_esVars(PumpTake(g) \/ PumpFails(g)) /\ WF_esVars(PumpWrite(g))

EsLive == EsSpec /\ EsFairness

-----------------------------------------------------------------------------
(* Properties.                                                               *)

\* Type invariant.
EsTypeOK ==
    /\ nextEvent \in 0..MaxFramesOut /\ streamGen \in 0..MaxGets
    /\ ToSet(queue) \subseteq 1..nextEvent /\ ToSet(sent) \subseteq 1..nextEvent
    /\ Len(sent) <= REPLAY
    /\ \A g \in 1..MaxGets : pumps[g].st \in {"none", "on"}
    /\ Streams <= MAX_STREAMS
    /\ reading \in 0..streamGen /\ lastId \in 0..nextEvent /\ seen \subseteq 1..nextEvent

\* A frame the client has not read is still to come, whichever stream broke,
\* was superseded or wrote into the void: it is queued, or being written to the
\* client, or kept where its next Last-Event-ID finds it.  Frames are lost to the two
\* limits, and to a stream that broke before the client had read anything: then it has no
\* Last-Event-ID, and what that stream took is not sent again.
NothingLost ==
    \A n \in 1..nextEvent :
        \/ n \in seen \cup dropped \cup missed \cup ToSet(queue)
        \/ n \in ToSet(sent) /\ n > lastId
        \/ reading # 0 /\ n \in ToSet(pumps[reading].batch)

\* A client that keeps its last stream reads every other frame in the end.
StreamDelivers == <>[](closed \/ 1..nextEvent \subseteq seen \cup dropped \cup missed)

\* What a resumable stream promises its client.
StreamPromise == [](EsTypeOK /\ NothingLost) /\ StreamDelivers
=============================================================================
