----------------------------- MODULE RetainedLog -----------------------------
(***************************************************************************)
(* The leader's retained log and those who read it: a flush archives the   *)
(* covered prefix of the WAL under rlog/ before it truncates it (db.rs);   *)
(* log_since reads the WAL, the next sequence number and the archive in    *)
(* that order, each under its own lock or none; every connected standby,   *)
(* and the archiver, holds the release of the log at what it has acked     *)
(* (replication.rs, archive.rs): their threads read the slowest ack under  *)
(* its lock and release the log without it.  The commit gate answers a     *)
(* write once some consumer has acked it.                                  *)
(*                                                                         *)
(* A frame is its sequence number.  The leader runs in Sync mode.          *)
(***************************************************************************)
EXTENDS Integers, Sequences, FiniteSets

CONSTANTS
    Standbys,     \* standbys, each with at most one connection
    Archiver,     \* the archiver's hold (a set with at most one member)
    Burns,        \* failed appends on the leader, each burning a number
    MaxRlFrames,    \* bound: numbers handed out
    MaxLinks      \* bound: connections accepted

Consumers == Standbys \cup Archiver

ASSUME RlAssumption ==
    /\ {Burns, MaxRlFrames, MaxLinks} \subseteq Nat
    /\ Standbys \cap Archiver = {}

VARIABLES
    rwal,     \* the WAL
    rfiles,   \* rlog/: a set of sequences of frames, each named by its first
    rnext,    \* next_seq
    covered,  \* the flush in its last phase: the length it truncates to, and its pc
    burnt,    \* failed appends so far
    cons,     \* per consumer: [on, sent, hold, pc, wal, next, names]
    held,     \* per consumer: the set of frames it holds
    frames,   \* every frame the leader ever appended
    flight,   \* per consumer: frames sent and not yet read
    answered, \* the highest seq the gate has let through
    releasing,\* per consumer's thread: the ack it read to release to, and whose it saw
    links

rlVars == <<rwal, rfiles, rnext, covered, burnt, cons, held, frames, flight, answered, releasing, links>>

NoFlushRl == [pc |-> "idle", len |-> 0]
RlIdle == [on |-> FALSE, sent |-> 0, hold |-> 0, pc |-> "idle",
         wal |-> <<>>, next |-> 0, names |-> {}]
NoRelease == [upto |-> 0, counted |-> {}]

RlInit ==
    /\ rwal = <<>> /\ rfiles = {} /\ rnext = 1 /\ covered = NoFlushRl /\ burnt = 0
    /\ cons = [c \in Consumers |-> RlIdle]
    /\ held = [c \in Consumers |-> {}] /\ frames = {} /\ flight = [c \in Consumers |-> <<>>]
    /\ answered = 0 /\ links = 0 /\ releasing = [c \in Consumers |-> NoRelease]

Top(S) == IF S = {} THEN 0 ELSE CHOOSE m \in S : \A s \in S : s <= m

-----------------------------------------------------------------------------
(* The leader's log *)

\* write_at: a frame reaches the WAL; its writer goes on to the gate.
RlWrite ==
    /\ rnext <= MaxRlFrames /\ covered.pc # "truncate"
    /\ rwal' = Append(rwal, rnext) /\ rnext' = rnext + 1
    /\ frames' = frames \cup {rnext}
    /\ UNCHANGED <<rfiles, covered, burnt, cons, held, flight, answered, links, releasing>>

\* The append fails after the number was drawn.
RlBurn ==
    /\ burnt < Burns /\ rnext <= MaxRlFrames
    /\ burnt' = burnt + 1 /\ rnext' = rnext + 1
    /\ UNCHANGED <<rwal, rfiles, covered, cons, held, flight, answered, frames, links, releasing>>

\* flush_phase_a notes how much of the WAL the flush covers.
RlFlushBegin ==
    /\ covered.pc = "idle" /\ rwal # <<>>
    /\ covered' = [pc |-> "archive", len |-> Len(rwal)]
    /\ UNCHANGED <<rwal, rfiles, rnext, burnt, cons, held, flight, answered, frames, links, releasing>>

\* The covered prefix, which the flush's segments replace.
Covered == SubSeq(rwal, 1, covered.len)

\* Publish the covered prefix as the file of its first frame, replacing one of that
\* name.  The WAL lock is kept until the truncate; a crash may come between.
RlArchive ==
    /\ covered.pc = "archive"
    /\ rfiles' = {f \in rfiles : f[1] # Covered[1]} \cup {Covered}
    /\ covered' = [covered EXCEPT !.pc = "truncate"]
    /\ UNCHANGED <<rwal, rnext, burnt, cons, held, flight, answered, frames, links, releasing>>

\* Mutant: the WAL is cut to nothing.
WalAfter_Empty == <<>>

\* Frames appended since the flush began stay in the WAL.
WalAfter == SubSeq(rwal, covered.len + 1, Len(rwal))

RlTruncate ==
    /\ covered.pc = "truncate"
    /\ rwal' = WalAfter
    /\ covered' = NoFlushRl
    /\ UNCHANGED <<rfiles, rnext, burnt, cons, held, flight, answered, frames, links, releasing>>

\* The leader dies and opens again: links and readers are gone, the next number is
\* one more than the newest frame in the WAL or in a segment.
RlRestart ==
    /\ links < MaxLinks /\ links' = links + 1
    /\ cons' = [c \in Consumers |-> RlIdle] /\ flight' = [c \in Consumers |-> <<>>]
    /\ covered' = NoFlushRl /\ rnext' = Top(frames) + 1
    /\ releasing' = [c \in Consumers |-> NoRelease]
    /\ UNCHANGED <<rwal, rfiles, burnt, held, answered, frames>>

\* Acked::slowest: no connected consumer, nothing to release.
Holds(S) == {cons[c].hold : c \in S}
On == {c \in Consumers : cons[c].on}
Slowest == IF On = {} THEN 0 ELSE CHOOSE m \in Holds(On) : \A h \in Holds(On) : m <= h

\* release_log: a file goes when the file after it starts at or below upto + 1.
Releasable(f, upto) ==
    \E g \in rfiles : f[1] < g[1] /\ g[1] <= upto + 1
                      /\ \A h \in rfiles : f[1] < h[1] => g[1] <= h[1]

\* serve_standby's loop and the end of Archiver::pass: the slowest ack is read ...
ReadSlowest(c) ==
    /\ cons[c].on /\ cons[c].pc = "idle" /\ releasing[c] = NoRelease /\ Slowest > 0
    /\ releasing' = [releasing EXCEPT ![c] = [upto |-> Slowest, counted |-> On]]
    /\ UNCHANGED <<rwal, rfiles, rnext, covered, burnt, cons, held, flight, answered, frames, links>>

\* ... and the log released to it, by a thread whose consumer may be gone by then.
Release(c) ==
    /\ releasing[c] # NoRelease
    /\ rfiles' = {f \in rfiles : ~Releasable(f, releasing[c].upto)}
    /\ releasing' = [releasing EXCEPT ![c] = NoRelease]
    /\ UNCHANGED <<rwal, rnext, covered, burnt, cons, held, flight, answered, frames, links>>

-----------------------------------------------------------------------------
(* Readers: serve_standby's loop and Archiver::pass *)

\* Handshake accepted: register at what the consumer holds.  (The archiver holds
\* at 0 while it reads its timeline, which only delays release.)
Connect(c) ==
    /\ ~cons[c].on /\ links < MaxLinks
    /\ links' = links + 1
    /\ cons' = [cons EXCEPT ![c] = [RlIdle EXCEPT !.on = TRUE, !.sent = Top(held[c]),
                                                !.hold = Top(held[c])]]
    /\ flight' = [flight EXCEPT ![c] = <<>>]
    /\ UNCHANGED <<rwal, rfiles, rnext, covered, burnt, held, answered, frames, releasing>>

\* The link ends; a standby's entry leaves the map.
Disconnect(c) ==
    /\ cons[c].on /\ c \in Standbys /\ releasing[c] = NoRelease
    /\ cons' = [cons EXCEPT ![c] = RlIdle] /\ flight' = [flight EXCEPT ![c] = <<>>]
    /\ UNCHANGED <<rwal, rfiles, rnext, covered, burnt, held, answered, frames, links, releasing>>

\* log_since, 1: the WAL, under its lock.  A standby's stream asks only when the
\* head is past what it sent; the archiver asks on every pass.
LogReadWal(c) ==
    /\ cons[c].on /\ cons[c].pc = "idle" /\ releasing[c] = NoRelease /\ covered.pc # "truncate"
    /\ c \in Standbys => rnext - 1 > cons[c].sent
    /\ cons' = [cons EXCEPT ![c].pc = "list", ![c].wal = rwal]
    /\ UNCHANGED <<rwal, rfiles, rnext, covered, burnt, held, flight, answered, frames, links, releasing>>

\* log_since, 2: last_seq, and the names in rlog/.
LogList(c) ==
    /\ cons[c].pc = "list"
    /\ cons' = [cons EXCEPT ![c].pc = "read", ![c].next = rnext,
                            ![c].names = {f[1] : f \in rfiles}]
    /\ UNCHANGED <<rwal, rfiles, rnext, covered, burnt, held, flight, answered, frames, links, releasing>>

\* The contiguous run of frames after `after` in a set of frames; empty when the
\* first of them is missing.
Run(S, after) ==
    LET m == CHOOSE m \in 0 .. Cardinality(S) :
                 /\ \A i \in 1 .. m : after + i \in S
                 /\ after + m + 1 \notin S
    IN  [i \in 1 .. m |-> after + i]

\* The frames log_since has read: every listed file, then the WAL bytes.
Frames(c) ==
    {cons[c].wal[i] : i \in DOMAIN cons[c].wal}
        \cup UNION {{f[i] : i \in DOMAIN f} : f \in {g \in rfiles : g[1] \in cons[c].names}}

\* A listed file was released before it could be read.
Missing(c) == \E n \in cons[c].names : \A f \in rfiles : f[1] # n

\* A frame above the one after which the run must continue, without it: a gap.
Gap(c) ==
    LET after == cons[c].sent
        above == {s \in Frames(c) : s > after}
    IN  IF above = {} THEN after + 1 < cons[c].next
        ELSE \E s \in above : \E t \in after + 1 .. s : t \notin above

\* log_since, 3: the frames go out.
LogSend(c) ==
    /\ cons[c].pc = "read" /\ ~Missing(c) /\ ~Gap(c)
    /\ LET out == Run({s \in Frames(c) : s > cons[c].sent}, cons[c].sent)
       IN  /\ flight' = [flight EXCEPT ![c] = @ \o out]
           /\ cons' = [cons EXCEPT ![c] = [RlIdle EXCEPT !.on = TRUE, !.hold = cons[c].hold,
                                             !.sent = cons[c].sent + Len(out)]]
    /\ UNCHANGED <<rwal, rfiles, rnext, covered, burnt, held, answered, frames, links, releasing>>

\* log_since fails: a snapshot is shipped (a standby re-bootstraps from it and its
\* link ends; the archiver uploads it, moves its hold and goes on).
LogFail(c) ==
    /\ cons[c].pc = "read" /\ (Missing(c) \/ Gap(c))
    /\ held' = [held EXCEPT ![c] = frames]
    /\ flight' = [flight EXCEPT ![c] = <<>>]
    /\ cons' = [cons EXCEPT ![c] =
                   IF c \in Standbys THEN RlIdle
                   ELSE [RlIdle EXCEPT !.on = TRUE, !.sent = rnext - 1, !.hold = rnext - 1]]
    /\ UNCHANGED <<rwal, rfiles, rnext, covered, burnt, answered, frames, links, releasing>>

\* apply_replicated with the frame's number: exactly the next one is applied.
Applies(c, f) == f = Top(held[c]) + 1

\* The consumer reads a frame: applied, or a re-delivery answered Ok, or a hole
\* refused, which ends the link.
Deliver(c) ==
    /\ flight[c] # <<>>
    /\ LET f == Head(flight[c])
       IN  IF Applies(c, f) \/ f <= Top(held[c])
           THEN /\ held' = [held EXCEPT ![c] = IF Applies(c, f) THEN @ \cup {f} ELSE @]
                /\ flight' = [flight EXCEPT ![c] = Tail(@)]
                /\ cons' = cons
           ELSE /\ held' = held
                /\ flight' = [flight EXCEPT ![c] = <<>>]
                /\ cons' = [cons EXCEPT ![c] = RlIdle]
    /\ UNCHANGED <<rwal, rfiles, rnext, covered, burnt, answered, frames, links, releasing>>

\* Mutant: acks are taken from what was sent.
AckOf_Sent(c) == cons[c].sent

\* An ack names a frame the consumer has applied.
AckOf(c) == Top(held[c])

\* poll_acks / hold: the newest ack moves the hold and opens the gate.
Ack(c) ==
    /\ cons[c].on /\ releasing[c] = NoRelease /\ cons[c].hold < AckOf(c)
    /\ cons' = [cons EXCEPT ![c].hold = AckOf(c)]
    /\ answered' = IF c \in Standbys /\ AckOf(c) > answered THEN AckOf(c) ELSE answered
    /\ UNCHANGED <<rwal, rfiles, rnext, covered, burnt, held, flight, frames, links, releasing>>

RlNext ==
    \/ RlWrite \/ RlBurn \/ RlFlushBegin \/ RlArchive \/ RlTruncate \/ RlRestart
    \/ \E c \in Consumers : \/ ReadSlowest(c) \/ Release(c)
                            \/ Connect(c) \/ Disconnect(c) \/ LogReadWal(c) \/ LogList(c)
                            \/ LogSend(c) \/ LogFail(c) \/ Deliver(c) \/ Ack(c)

RlSpec == RlInit /\ [][RlNext]_rlVars

-----------------------------------------------------------------------------
(* Properties *)

RlTypeOK ==
    /\ rwal \in Seq(Nat) /\ {rnext, burnt, answered, links} \subseteq Nat
    /\ \A f \in rfiles : f \in Seq(Nat) \ {<<>>}
    /\ frames \subseteq Nat
    /\ \A c \in Consumers : held[c] \subseteq frames /\ flight[c] \in Seq(Nat)

OnDisk == {rwal[i] : i \in DOMAIN rwal} \cup UNION {{f[i] : i \in DOMAIN f} : f \in rfiles}

\* A frame that a connected consumer has not acked yet does not leave the leader's
\* disk while it stays connected, whatever flushes, kills between archive and
\* truncate, and releases do meanwhile, unless it registered after a thread had read
\* the slowest ack and before that thread released the log (db.rs:2403-2416,
\* replication.rs:595-608).
Lost == OnDisk \ OnDisk'
Unseen(c, s) == \E d \in Consumers : c \notin releasing[d].counted /\ s <= releasing[d].upto
UnackedRetained ==
    \A c \in Consumers : cons[c].on /\ cons'[c].on =>
       \A s \in Lost : s > cons'[c].hold => Unseen(c, s)

\* Every consumer holds all the leader's frames up to its newest, and a write the
\* gate answered is on some standby, through burnt numbers, restarts of the leader,
\* lost links and re-bootstraps (db.rs:1206-1213, replication.rs:418-435).
HeldIsPrefix ==
    /\ \A c \in Consumers : held[c] = {f \in frames : f <= Top(held[c])}
    /\ answered > 0 => \E c \in Standbys : answered \in held[c]

\* A connected consumer that has read the log is never sent back to a snapshot: only
\* "a frame no longer held" is a gap (db.rs:1093-1095).
ConnectedNeverGapped == \A c \in On : cons[c].pc = "read" => ~(Missing(c) \/ Gap(c))

\* What the retained log promises its consumers.
RetainedLogPromise == [][(RlTypeOK /\ HeldIsPrefix)' /\ UnackedRetained]_rlVars
=============================================================================
