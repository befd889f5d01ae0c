---------------------------- MODULE Subscriptions ----------------------------
(***************************************************************************)
(* Durable change subscriptions (kernel/src/event.rs) and their two users:   *)
(* the event feed of notifications/subscribe (mcp dispatcher.rs), whose      *)
(* client acknowledges what it has seen, and the live query of               *)
(* koql/subscribe (mcp tools/live_query.rs), whose own thread re-evaluates   *)
(* the query for every event and acknowledges it.                            *)
(*                                                                           *)
(* One subscription id, of one kind.  An event is [match, result]: whether   *)
(* it passes the feed's filter, and the query's result set in the store it   *)
(* leaves.  A query reads the heads, or an index that follows the journal    *)
(* (find_similar); it may fail, and its result set may change with time, as  *)
(* facts cease to be valid, without an event.  A commit writes its batch,    *)
(* then broadcasts, under the pipe lock; subscribe, replay, ack and          *)
(* broadcast take the event manager's lock, one by one.  A dropped           *)
(* connection leaves its channel and its thread behind until a new subscribe *)
(* replaces the channel.  Frames on a connection stay in order; those in     *)
(* flight are lost with it.                                                  *)
(***************************************************************************)
EXTENDS Naturals, Sequences, TLC

CONSTANTS Results,      \* result sets of the query
          SubKinds,     \* the kinds of subscription: "feed", "live"
          MaxEvs,       \* events committed
          MaxDrops,     \* dropped connections, restarts, failed acks and evaluations, lapses
          MaxUnsubs     \* subscriptions ended

ASSUME SubscriptionsAssumption ==
    /\ SubKinds \subseteq {"feed", "live"}
    /\ MaxEvs \in Nat /\ MaxDrops \in Nat /\ MaxUnsubs \in Nat

VARIABLES
    journal,    \* the events committed
    casting,    \* the event whose commit has not broadcast yet, or 0
    subRow,     \* the stored subscription: its last_seq, or NoSub
    subMem,     \* the event manager's copy of it
    chan,       \* the channel of the active subscription, or NoChan
    conn,       \* the client's connection
    wire,       \* frames written to the connection and not read yet
    orphan,     \* events left in the channel of a replaced live query
    got,        \* events the client has read in this subscription
    view,       \* the result set in the last frame the client has read
    since,      \* last_seq when the subscription was made
    indexed,    \* the query is answered by the index: BM25 text, embeddings
    indexSeq,   \* ... which has applied the events up to here
    drops, unsubs

queryVars == <<indexed, indexSeq>>
subVars == <<journal, casting, subRow, subMem, chan, conn, wire, orphan, got, view,
             since, indexed, indexSeq, drops, unsubs>>

NoSub == 1000
NoChan == <<0>>
QueryError == 1001

\* `at` and `lapsed` are history: the last event in what the last evaluation read, and
\* whether the result set changed since with time.
SubOff(kind) == [kind |-> kind, pc |-> "off", backlog |-> <<>>, snap |-> 0, first |-> 0,
                 answer |-> "none", at |-> 0, lapsed |-> FALSE]

NowSeq == Len(journal)
ResultAt(n) == IF n = 0 THEN 0 ELSE journal[n].result
NowResult == ResultAt(NowSeq)

\* execute_readonly: the heads as they are, or what the index has of them; or an error.
ReadSeq == IF indexed THEN indexSeq ELSE NowSeq
Outcomes == {ResultAt(ReadSeq), QueryError}
Outcome(r) ==
    \/ r = ResultAt(ReadSeq) /\ drops' = drops
    \/ r = QueryError /\ drops < MaxDrops /\ drops' = drops + 1
Evaluated(c, r) == [c EXCEPT !.snap = r, !.at = ReadSeq, !.lapsed = FALSE]

\* EventFilter::matches; a live query's filter passes everything.
Matches(e) == conn.kind = "live" \/ journal[e].match

\* The events after n that pass the filter.
EventsAfter(n) == SelectSeq([i \in 1..(NowSeq - n) |-> n + i], Matches)

-----------------------------------------------------------------------------
(* Commits.                                                                  *)

\* The events, as far as the subscription's kind tells them apart.
SubEvents == IF conn.kind = "feed" THEN [match : BOOLEAN, result : {0}]
             ELSE [match : {TRUE}, result : Results]

\* commit_version writes its batch.
SubCommit(e) ==
    /\ casting = 0 /\ NowSeq < MaxEvs
    /\ journal' = Append(journal, e)
    /\ casting' = NowSeq + 1
    /\ UNCHANGED <<subRow, subMem, chan, conn, wire, orphan, got, view, since, drops, unsubs, queryVars>>

\* The index maintainer applies the next event.
IndexNext ==
    /\ indexed /\ indexSeq < NowSeq
    /\ indexSeq' = indexSeq + 1
    /\ UNCHANGED <<journal, casting, subRow, subMem, chan, conn, wire, orphan, got, view, since,
                   indexed, drops, unsubs>>

\* A fact ceases to be valid (valid_at): the result set changes, and no event says so.
Lapse(r) ==
    /\ conn.kind = "live" /\ conn.pc = "on" /\ journal # <<>> /\ r # NowResult
    /\ drops < MaxDrops /\ drops' = drops + 1
    /\ journal' = [journal EXCEPT ![NowSeq].result = r]
    /\ conn' = [conn EXCEPT !.lapsed = TRUE]
    /\ UNCHANGED <<casting, subRow, subMem, chan, wire, orphan, got, view, since, queryVars, unsubs>>

\* broadcast, to the active channel.
Broadcast ==
    /\ casting # 0
    /\ casting' = 0
    /\ chan' = IF chan # NoChan /\ Matches(casting) THEN Append(chan, casting) ELSE chan
    /\ UNCHANGED <<journal, subRow, subMem, conn, wire, orphan, got, view, since, drops, unsubs, queryVars>>

-----------------------------------------------------------------------------
(* Connecting.                                                               *)

\* A slip in subscribe: a known subscription starts over.
StartSeq_Current == NowSeq

\* A known subscription goes on where it was acknowledged, a new one starts now.
StartSeq == IF subMem # NoSub THEN subMem ELSE NowSeq

\* A slip in subscribe: a known subscription is not made active again.
FreshChannel_NewOnly == IF subMem = NoSub THEN <<>> ELSE NoChan

\* The channel put in `active`, empty.
FreshChannel == <<>>

\* EventManager::subscribe: a new channel, the old one's sender dropped.
Subscribe ==
    /\ conn.pc = "off"
    /\ subRow' = StartSeq /\ subMem' = StartSeq
    /\ since' = IF subMem # NoSub THEN since ELSE StartSeq
    /\ got' = IF subMem # NoSub THEN got ELSE {}
    /\ orphan' = IF conn.kind = "live" /\ chan # NoChan THEN orphan \o chan ELSE orphan
    /\ chan' = FreshChannel
    /\ conn' = [conn EXCEPT !.pc = "subscribed"]
    /\ wire' = <<>>
    /\ UNCHANGED <<journal, casting, view, drops, unsubs, queryVars>>

\* EventManager::replay.
Backlog == EventsAfter(subMem)

\* replay, its events written to the feed or kept for the query's thread.
Replay ==
    /\ conn.pc = "subscribed"
    /\ conn' = [conn EXCEPT !.pc = IF conn.kind = "feed" THEN "on" ELSE "replayed",
                            !.backlog = IF conn.kind = "feed" THEN <<>> ELSE Backlog]
    /\ wire' = IF conn.kind = "feed" THEN wire \o Backlog ELSE wire
    /\ UNCHANGED <<journal, casting, subRow, subMem, chan, orphan, got, view, since, drops, unsubs, queryVars>>

\* The live query's first evaluation; its thread starts, its answer is still
\* to be written.  An error ends it: the channel has no reader, the subscription stays.
FirstEvaluation ==
    /\ conn.pc = "replayed"
    /\ \E r \in Outcomes :
          /\ Outcome(r)
          /\ IF r = QueryError
             THEN conn' = SubOff(conn.kind) /\ chan' = NoChan
             ELSE /\ conn' = [Evaluated(conn, r) EXCEPT !.pc = "on", !.first = r, !.answer = "unsent"]
                  /\ chan' = chan
    /\ UNCHANGED <<journal, casting, subRow, subMem, wire, orphan, got, view, since, unsubs, queryVars>>

\* handle_message writes the answer, with the first result set.
WriteAnswer ==
    /\ conn.answer = "unsent"
    /\ wire' = Append(wire, conn.first)
    /\ conn' = [conn EXCEPT !.answer = "sent"]
    /\ UNCHANGED <<journal, casting, subRow, subMem, chan, orphan, got, view, since, drops, unsubs, queryVars>>

-----------------------------------------------------------------------------
(* The threads behind a connection.                                          *)

\* The feed's thread writes the next event.
FeedNext ==
    /\ conn.kind = "feed" /\ conn.pc = "on" /\ chan \notin {NoChan, <<>>}
    /\ wire' = Append(wire, Head(chan))
    /\ chan' = Tail(chan)
    /\ UNCHANGED <<journal, casting, subRow, subMem, conn, orphan, got, view, since, drops, unsubs, queryVars>>

\* ack, for a subscription that is still there: no check that seq advances.
Acked(seq) == /\ subMem' = IF subMem = NoSub THEN NoSub ELSE seq
              /\ subRow' = IF subMem = NoSub THEN subRow ELSE seq

\* The live query's thread takes the next event, of the backlog and then of the channel: it
\* evaluates the store as it is now, writes a change, an error too, and acknowledges.
LiveNext ==
    /\ conn.kind = "live" /\ conn.pc = "on"
    /\ \E r \in Outcomes :
          /\ Outcome(r)
          /\ wire' = IF r # conn.snap THEN Append(wire, r) ELSE wire
          /\ \/ /\ conn.backlog # <<>>
                /\ conn' = [Evaluated(conn, r) EXCEPT !.backlog = Tail(@)]
                /\ chan' = chan
                /\ Acked(Head(conn.backlog))
             \/ /\ conn.backlog = <<>> /\ chan \notin {NoChan, <<>>}
                /\ conn' = Evaluated(conn, r)
                /\ chan' = Tail(chan)
                /\ Acked(Head(chan))
    /\ UNCHANGED <<journal, casting, orphan, got, view, since, unsubs, queryVars>>

\* The thread of a live query whose client is gone goes on: nobody reads what
\* it writes, yet it acknowledges.
DeadNext ==
    /\ conn.kind = "live" /\ conn.pc = "off" /\ chan \notin {NoChan, <<>>}
    /\ chan' = Tail(chan)
    /\ Acked(Head(chan))
    /\ UNCHANGED <<journal, casting, conn, wire, orphan, got, view, since, drops, unsubs, queryVars>>

\* So does one whose channel was replaced, until it has drained it.
OrphanNext ==
    /\ orphan # <<>>
    /\ orphan' = Tail(orphan)
    /\ Acked(Head(orphan))
    /\ UNCHANGED <<journal, casting, chan, conn, wire, got, view, since, drops, unsubs, queryVars>>

-----------------------------------------------------------------------------
(* The client.                                                               *)

\* It reads the next frame.
ReadFrame ==
    /\ wire # <<>>
    /\ wire' = Tail(wire)
    /\ IF conn.kind = "feed"
       THEN got' = got \cup {Head(wire)} /\ view' = view
       ELSE view' = Head(wire) /\ got' = got
    /\ UNCHANGED <<journal, casting, subRow, subMem, chan, conn, orphan, since, drops, unsubs, queryVars>>

\* It acknowledges an event it has read, in whatever order.
ClientAck(e) ==
    /\ conn.kind = "feed" /\ conn.pc = "on" /\ e \in got /\ subMem # NoSub
    /\ subMem # e
    /\ Acked(e)
    /\ UNCHANGED <<journal, casting, chan, conn, wire, orphan, got, view, since, drops, unsubs, queryVars>>

\* The acknowledgement is in memory, its batch failed.
AckFails(e) ==
    /\ conn.kind = "feed" /\ conn.pc = "on" /\ e \in got /\ subMem # NoSub
    /\ subMem # e /\ drops < MaxDrops
    /\ drops' = drops + 1
    /\ subMem' = e
    /\ UNCHANGED <<journal, casting, subRow, chan, conn, wire, orphan, got, view, since, unsubs, queryVars>>

\* unsubscribe, and the end of an HTTP session.
Unsubscribe ==
    /\ conn.pc = "on" /\ unsubs < MaxUnsubs
    /\ unsubs' = unsubs + 1
    /\ subRow' = NoSub /\ subMem' = NoSub /\ chan' = NoChan
    /\ orphan' = IF conn.kind = "live" /\ chan # NoChan THEN orphan \o chan ELSE orphan
    /\ conn' = SubOff(conn.kind) /\ wire' = <<>>
    /\ UNCHANGED <<journal, casting, got, view, since, drops, queryVars>>

\* The connection drops: what is in flight is lost, the channel stays active.
Drop ==
    /\ conn.pc = "on" /\ drops < MaxDrops
    /\ drops' = drops + 1
    /\ orphan' = orphan \o conn.backlog
    /\ conn' = SubOff(conn.kind) /\ wire' = <<>>
    /\ UNCHANGED <<journal, casting, subRow, subMem, chan, got, view, since, unsubs, queryVars>>

\* The process restarts (EventManager::load): channels and threads are gone, and the index
\* is as of its last checkpoint.
Restart ==
    /\ drops < MaxDrops
    /\ drops' = drops + 1
    /\ casting' = 0
    /\ subMem' = subRow
    /\ chan' = NoChan /\ orphan' = <<>>
    /\ conn' = SubOff(conn.kind) /\ wire' = <<>>
    /\ indexSeq' \in 0..indexSeq
    /\ UNCHANGED <<journal, subRow, got, view, since, indexed, unsubs>>

-----------------------------------------------------------------------------
SubInit ==
    /\ journal = <<>> /\ casting = 0
    /\ subRow = NoSub /\ subMem = NoSub /\ chan = NoChan
    /\ \E kind \in SubKinds : conn = SubOff(kind)
    /\ wire = <<>> /\ orphan = <<>> /\ got = {} /\ view = 0 /\ since = 0
    /\ indexed \in (IF conn.kind = "live" THEN BOOLEAN ELSE {FALSE}) /\ indexSeq = 0
    /\ drops = 0 /\ unsubs = 0

SubNext ==
    \/ \E e \in SubEvents : SubCommit(e)
    \/ Broadcast \/ IndexNext \/ \E r \in Results : Lapse(r)
    \/ Subscribe \/ Replay \/ FirstEvaluation \/ WriteAnswer
    \/ FeedNext \/ LiveNext \/ DeadNext \/ OrphanNext
    \/ ReadFrame \/ \E e \in 1..MaxEvs : ClientAck(e) \/ AckFails(e)
    \/ Unsubscribe \/ Drop \/ Restart

SubSpec == SubInit /\ [][SubNext]_subVars

\* Locks are fair enough, threads run, and a client that lost its connection
\* comes back and reads.
SubFairness ==
    /\ WF_subVars(Broadcast) /\ WF_subVars(Subscribe) /\ WF_subVars(Replay)
    /\ WF_subVars(FirstEvaluation) /\ WF_subVars(WriteAnswer)
    /\ WF_subVars(FeedNext) /\ WF_subVars(LiveNext) /\ WF_subVars(ReadFrame)

SubLive == SubSpec /\ SubFairness

-----------------------------------------------------------------------------
(* Properties.                                                               *)

\* Type invariant.
SubTypeOK ==
    /\ casting \in 0..NowSeq
    /\ subRow \in 0..MaxEvs \cup {NoSub} /\ subMem \in 0..MaxEvs \cup {NoSub}
    /\ conn.kind \in SubKinds /\ conn.pc \in {"off", "subscribed", "replayed", "on"}
    /\ got \subseteq 1..NowSeq /\ since \in 0..NowSeq /\ indexSeq \in 0..NowSeq

\* What a reconnect would not replay, the client has: no matching event at or
\* below the stored acknowledgement was missed, through dropped connections,
\* restarts, failed and late acknowledgements.
AckedWasRead ==
    conn.kind = "feed" /\ subRow # NoSub =>
        \A e \in (since + 1)..NowSeq : e <= subRow /\ Matches(e) => e \in got

\* Every event a feed was subscribed for reaches its client in the end ("a
\* reconnect can replay missed events from the journal", event.rs).
FeedDelivers ==
    <>[](conn.kind = "feed" /\ subRow # NoSub =>
            \A e \in (since + 1)..NowSeq : Matches(e) => e \in got)

\* A live query misses no change: when its thread has nothing left to do, what
\* it last wrote, or its first answer, is the query's result set in the store
\* as it is now (live_query_stream subscribes before it evaluates), or the error of the
\* evaluation.  It is another only where that evaluation read an index that had not applied
\* every event, or where time has changed the result set since: no event follows either, so
\* a quiet live query stays as it is.
LiveCurrent ==
    conn.kind = "live" /\ conn.pc = "on" /\ conn.backlog = <<>> /\ chan = <<>> /\ casting = 0
        => \/ conn.snap \in {NowResult, QueryError}
           \/ indexed /\ conn.at < NowSeq
           \/ conn.lapsed

\* Not so, if only because of those: that the client ends with that result set.
LiveViewCurrent ==
    <>[](conn.kind = "live" => view = NowResult)

\* What a durable subscription and a live query promise their reader.
SubscriptionPromise == [](SubTypeOK /\ AckedWasRead /\ LiveCurrent) /\ FeedDelivers
=============================================================================
