---------------------------- MODULE Replication ----------------------------
(***************************************************************************)
(* Log shipping under the lease (services/api/mcp/src/replication.rs, with *)
(* the parts of ha.rs that decide who leads): terms, the term history, the *)
(* handshake that detects a diverged tail, snapshots, semi-synchronous     *)
(* acknowledgements, takeover, restart.                                    *)
(*                                                                         *)
(* A frame is the term it was written under, so a log is a sequence of     *)
(* terms and two logs hold the same frame at an index iff they hold the    *)
(* same term there.  The lease is untimed: a standby may take it over once *)
(* its holder no longer writes, which is what module Lease establishes for *)
(* a store that answers in time.  The log of a node is durable (the engine *)
(* applies replicated frames in Sync mode only).                           *)
(***************************************************************************)
EXTENDS Integers, Sequences

CONSTANTS
  Nodes, None,
  MaxFrames,  \* frames in a log
  MaxTerm,    \* terms
  MaxStops    \* crashes and self-fences

ASSUME ReplicationAssumption ==
  /\ None \notin Nodes
  /\ {MaxFrames, MaxTerm, MaxStops} \subseteq Nat

VARIABLES
  lease,      \* the record: [holder, term, seq]
  log,        \* per node, on disk: the term of each frame
  history,    \* REPL-HISTORY, on disk: (term, first seq) pairs
  term, role, \* REPL-TERM, on disk
  snap,       \* {dir}.rejoin and rejoin.json, on disk: a shipped snapshot
  mode,       \* down, won (a takeover re-executes), lead, fenced, standby
  fol,        \* a standby's Follower thread: whom it follows and how it stands
  acked,      \* a leader's Acked.seq: the highest seq a standby acked
  acks,       \* ghost: the frames whose writers were answered Ok
  recorded,   \* ghost: the log the record's seq stands for
  stops

disk == <<log, history, term, role, snap>>
vars == <<lease, disk, mode, fol, acked, acks, recorded, stops>>

NoLease == [holder |-> None, term |-> 0, seq |-> 0]
NoSnap == [log |-> <<>>, history |-> <<>>, term |-> 0]
Idle == [to |-> None, st |-> "idle"]

Init ==
  /\ lease = NoLease /\ recorded = <<>>
  /\ log = [n \in Nodes |-> <<>>]
  /\ history = [n \in Nodes |-> <<[term |-> 0, first |-> 1]>>]
  /\ term = [n \in Nodes |-> 0]
  /\ role = [n \in Nodes |-> "leader"]
  /\ snap = [n \in Nodes |-> NoSnap]
  /\ mode = [n \in Nodes |-> "down"]
  /\ fol = [n \in Nodes |-> Idle]
  /\ acked = [n \in Nodes |-> 0]
  /\ acks = {} /\ stops = 0

-----------------------------------------------------------------------------
(* The term history.                                                       *)

\* The term a history gives to frame i: its last entry that starts at or before i.
TermAt(h, i) ==
  LET upto == {j \in DOMAIN h : h[j].first <= i}
  IN  IF upto = {} THEN 0 ELSE h[CHOOSE j \in upto : \A k \in upto : k <= j].term

\* Mutant: a known term is enough, wherever it ended.
Diverged_TermOnly(ours, theirs, after) ==
  ~ \E j \in DOMAIN ours : ours[j].term = TermAt(theirs, after)

\* diverged: is a standby with history `theirs' and last frame `after' off the
\* timeline of `ours'?
Diverged(ours, theirs, after) ==
  ~ \E j \in DOMAIN ours :
      /\ ours[j].term = TermAt(theirs, after)
      /\ j < Len(ours) => after < ours[j + 1].first

\* The entries of terms before k, which come first: a history is in the order of its terms.
Earlier(h, k) == SubSeq(h, 1, CHOOSE i \in 0 .. Len(h) : \A j \in DOMAIN h : j <= i <=> h[j].term < k)

\* claim_term: the new term starts after the last frame held.
ClaimedHistory(h, k, last) == Append(Earlier(h, k), [term |-> k, first |-> last + 1])

-----------------------------------------------------------------------------
(* Start-up (begin) and leading.                                           *)

Holder(n, k) == [holder |-> n, term |-> k, seq |-> Len(log[n])]

\* A process of n starts: whoever was linked to the one before it has read the
\* last of the old stream and reconnects.
Severed(n) ==
  [m \in Nodes |-> IF fol[m].to = n /\ fol[m].st = "linked"
                   THEN [fol[m] EXCEPT !.st = "idle"] ELSE fol[m]]

Ready(n) == mode[n] = "down" /\ snap[n] = NoSnap

\* No record: win the first one.
WinFirst(n) ==
  /\ Ready(n) /\ lease = NoLease
  /\ lease' = Holder(n, term[n] + 1) /\ recorded' = log[n]
  /\ UNCHANGED <<disk, mode, fol, acked, acks, stops>>

\* Its own record: claim the directory unless it is claimed at that term.
Claim(n) ==
  /\ Ready(n) /\ lease.holder = n /\ lease.term >= term[n]
  /\ lease.term > term[n] \/ role[n] # "leader"
  /\ history' = [history EXCEPT
                   ![n] = ClaimedHistory(@, lease.term, Len(log[n]))]
  /\ term' = [term EXCEPT ![n] = lease.term]
  /\ role' = [role EXCEPT ![n] = "leader"]
  /\ UNCHANGED <<lease, log, snap, mode, fol, acked, acks, recorded, stops>>

\* Its own record and a claimed directory: resume the lease and serve.
Lead(n) ==
  /\ Ready(n) /\ lease.holder = n
  /\ lease.term = term[n] /\ role[n] = "leader"
  /\ mode' = [mode EXCEPT ![n] = "lead"]
  /\ fol' = Severed(n)
  /\ acked' = [acked EXCEPT ![n] = 0]
  /\ UNCHANGED <<lease, disk, acks, recorded, stops>>

\* Anybody else's record: a standby.
StandBy(n) ==
  /\ Ready(n) /\ lease # NoLease
  /\ lease.holder = n => lease.term < term[n]
  /\ mode' = [mode EXCEPT ![n] = "standby"]
  /\ fol' = Severed(n)
  /\ UNCHANGED <<lease, disk, acked, acks, recorded, stops>>

\* A client write commits on the leader.
Write(n) ==
  /\ mode[n] = "lead" /\ Len(log[n]) < MaxFrames
  /\ log' = [log EXCEPT ![n] = Append(@, term[n])]
  /\ UNCHANGED <<lease, history, term, role, snap, mode, fol, acked, acks, recorded, stops>>

\* A renewal records the head.
Renew(n) ==
  /\ mode[n] = "lead" /\ lease.holder = n
  /\ lease' = [lease EXCEPT !.seq = Len(log[n])] /\ recorded' = log[n]
  /\ UNCHANGED <<disk, mode, fol, acked, acks, stops>>

\* The renewals fail for 2/3 TTL: stop writing, record the role, exit a little later.
Fence(n) ==
  /\ stops < MaxStops /\ mode[n] = "lead"
  /\ stops' = stops + 1
  /\ mode' = [mode EXCEPT ![n] = "fenced"]
  /\ role' = [role EXCEPT ![n] = "fenced"]
  /\ UNCHANGED <<lease, log, history, term, snap, fol, acked, acks, recorded>>

Exit(n) ==
  /\ mode[n] = "fenced"
  /\ mode' = [mode EXCEPT ![n] = "down"]
  /\ fol' = [fol EXCEPT ![n] = Idle]
  /\ UNCHANGED <<lease, disk, acked, acks, recorded, stops>>

Crash(n) ==
  /\ mode[n] # "down" /\ stops < MaxStops
  /\ stops' = stops + 1
  /\ mode' = [mode EXCEPT ![n] = "down"]
  /\ fol' = [fol EXCEPT ![n] = Idle]
  /\ UNCHANGED <<lease, disk, acked, acks, recorded>>

-----------------------------------------------------------------------------
(* A standby: stand_by's poll, the handshake, the stream.                  *)

\* Whom the record tells n to follow.
LeadAddr(n) == IF lease.holder = n THEN None ELSE lease.holder

\* The record names another node than the Follower follows: start a new one.
Poll(n) ==
  /\ mode[n] = "standby" /\ fol[n].to # LeadAddr(n)
  /\ fol' = [fol EXCEPT ![n] = [to |-> LeadAddr(n), st |-> "idle"]]
  /\ UNCHANGED <<lease, disk, mode, acked, acks, recorded, stops>>

\* n's Follower reaches m, which serves the stream.
Hello(n, m) ==
  /\ mode[n] = "standby" /\ fol[n] = [to |-> m, st |-> "idle"]
  /\ mode[m] \in {"lead", "fenced"}

\* A fenced node refuses the handshake: a fatal end, the Follower thread is over.
Refused(n, m) ==
  /\ Hello(n, m) /\ role[m] = "fenced"
  /\ fol' = [fol EXCEPT ![n].st = "dead"]
  /\ UNCHANGED <<lease, disk, mode, acked, acks, recorded, stops>>

OffTimeline(n, m) ==
  \/ Diverged(history[m], history[n], Len(log[n]))
  \/ Len(log[n]) > Len(log[m])

\* Accepted: the standby takes over the leader's history and term, then streams.
Accepted(n, m) ==
  /\ Hello(n, m) /\ role[m] # "fenced" /\ term[n] <= term[m]
  /\ ~ OffTimeline(n, m)
  /\ history' = [history EXCEPT ![n] = history[m]]
  /\ term' = [term EXCEPT ![n] = term[m]]
  /\ role' = [role EXCEPT ![n] = "standby"]
  /\ fol' = [fol EXCEPT ![n].st = "linked"]
  /\ UNCHANGED <<lease, log, snap, mode, acked, acks, recorded, stops>>

\* Mutant: rejoin.json without the term.
Snapshot_NoTerm(n, m) ==
  /\ snap' = [snap EXCEPT ![n] = [log |-> log[m], history |-> history[m]]]
  /\ mode' = [mode EXCEPT ![n] = "down"]
  /\ fol' = [fol EXCEPT ![n] = Idle]
  /\ UNCHANGED <<lease, log, history, term, role, acked, acks, recorded, stops>>

\* A snapshot instead of the stream: it lands beside the directory, is recorded
\* with the leader's term and history, and the standby exits.
Snapshot(n, m) ==
  /\ snap' = [snap EXCEPT ![n] = [log |-> log[m], history |-> history[m],
                                  term |-> term[m]]]
  /\ mode' = [mode EXCEPT ![n] = "down"]
  /\ fol' = [fol EXCEPT ![n] = Idle]
  /\ UNCHANGED <<lease, log, history, term, role, acked, acks, recorded, stops>>

\* Mutant: a diverged standby is refused like a fenced leader's, for good.
Rejected_Fatal(n, m) ==
  /\ Hello(n, m) /\ role[m] # "fenced" /\ term[n] <= term[m]
  /\ OffTimeline(n, m)
  /\ fol' = [fol EXCEPT ![n].st = "dead"]
  /\ UNCHANGED <<lease, disk, mode, acked, acks, recorded, stops>>

Rejected(n, m) ==
  /\ Hello(n, m) /\ role[m] # "fenced" /\ term[n] <= term[m]
  /\ OffTimeline(n, m)
  /\ Snapshot(n, m)

\* The retained log has a gap at the standby's position.
LogGap(n, m) ==
  /\ mode[n] = "standby" /\ mode[m] \in {"lead", "fenced"} /\ fol[n] = [to |-> m, st |-> "linked"]
  /\ Len(log[m]) > Len(log[n])
  /\ Snapshot(n, m)

\* The restart finishes the re-bootstrap before anything else.
FinishRebootstrap(n) ==
  /\ mode[n] = "down" /\ snap[n] # NoSnap
  /\ log' = [log EXCEPT ![n] = snap[n].log]
  /\ history' = [history EXCEPT ![n] = snap[n].history]
  /\ term' = [term EXCEPT ![n] = snap[n].term]
  /\ role' = [role EXCEPT ![n] = "standby"]
  /\ snap' = [snap EXCEPT ![n] = NoSnap]
  /\ fol' = Severed(n)
  /\ UNCHANGED <<lease, mode, acked, acks, recorded, stops>>

\* Mutant: the gate's comparison is off by one.
Answered_OneMore(m, upto) ==
  {[idx |-> i, term |-> log[m][i]] :
      i \in {j \in 1 .. upto + 1 : j <= Len(log[m]) /\ log[m][j] = term[m]}}

\* The writes a leader's gate lets through: its own term's frames up to an acked seq.
Answered(m, upto) ==
  {[idx |-> i, term |-> log[m][i]] :
      i \in {j \in 1 .. upto : j <= Len(log[m]) /\ log[m][j] = term[m]}}

\* The next frame is applied and synced, then acked; the ack may be late or lost
\* (the next one covers it).  A node that has won and not yet re-executed still
\* applies frames, a fenced leader still ships, and what a dead one sent arrives.
Ship(n, m) ==
  /\ mode[n] \in {"standby", "won"} /\ fol[n] = [to |-> m, st |-> "linked"]
  /\ Len(log[n]) < Len(log[m])
  /\ log' = [log EXCEPT ![n] = Append(@, log[m][Len(@) + 1])]
  /\ \/ /\ mode[m] \in {"lead", "fenced"} /\ acked[m] < Len(log'[n])
        /\ acked' = [acked EXCEPT ![m] = Len(log'[n])]
        /\ acks' = acks \cup Answered(m, Len(log'[n]))
     \/ UNCHANGED <<acked, acks>>
  /\ UNCHANGED <<lease, history, term, role, snap, mode, fol, recorded, stops>>

LinkDown(n) ==
  /\ fol[n].st = "linked" /\ mode[n] = "standby"
  /\ fol' = [fol EXCEPT ![n].st = "idle"]
  /\ UNCHANGED <<lease, disk, mode, acked, acks, recorded, stops>>

\* The record lapsed: its holder has stopped writing, this node holds at least
\* the seq the record names.
Eligible(n) == Len(log[n]) >= lease.seq

\* Mutant: the next term of the directory alone.
NextTerm_OfDirectory(n) == term[n] + 1

NextTerm(n) == IF term[n] > lease.term THEN term[n] + 1 ELSE lease.term + 1

TakeOver(n) ==
  /\ mode[n] = "standby" /\ lease # NoLease /\ fol[n].to = LeadAddr(n)
  /\ lease.holder # n => mode[lease.holder] # "lead"
  /\ Eligible(n)
  /\ NextTerm(n) <= MaxTerm
  /\ lease' = Holder(n, NextTerm(n)) /\ recorded' = log[n]
  /\ mode' = [mode EXCEPT ![n] = "won"]
  /\ UNCHANGED <<disk, fol, acked, acks, stops>>

\* reexec: the winner's process is replaced, its Follower with it.
Reexec(n) ==
  /\ mode[n] = "won"
  /\ mode' = [mode EXCEPT ![n] = "down"]
  /\ fol' = [fol EXCEPT ![n] = Idle]
  /\ UNCHANGED <<lease, disk, acked, acks, recorded, stops>>

Next ==
  \E n \in Nodes :
    \/ WinFirst(n) \/ Claim(n) \/ Lead(n) \/ StandBy(n) \/ Write(n) \/ Renew(n)
    \/ Crash(n) \/ Poll(n) \/ FinishRebootstrap(n)
    \/ LinkDown(n) \/ TakeOver(n) \/ Reexec(n)
    \/ \E m \in Nodes : \/ Accepted(n, m) \/ Rejected(n, m)
                        \/ LogGap(n, m) \/ Ship(n, m)

\* The record's store answers every renewal in time.
Spec == Init /\ [][Next]_vars

\* ... or does not: leaders fence themselves and come back.
FencingNext ==
  \/ Next
  \/ \E n \in Nodes : Fence(n) \/ Exit(n) \/ \E m \in Nodes : Refused(n, m)

FencingSpec == Init /\ [][FencingNext]_vars

Handshake(n) == \E m \in Nodes : Refused(n, m) \/ Accepted(n, m) \/ Rejected(n, m)
Stream(n) == \E m \in Nodes : Ship(n, m)

\* A supervisor restarts a node, its threads run, and a link that keeps coming
\* back carries a frame in the end.  Nothing is asked of crashes, self-fences,
\* gaps, takeovers or clients.
Fairness ==
  \A n \in Nodes :
       /\ WF_vars(FinishRebootstrap(n)) /\ WF_vars(StandBy(n)) /\ WF_vars(Poll(n))
       /\ WF_vars(Reexec(n)) /\ WF_vars(Exit(n))
       /\ WF_vars(Handshake(n)) /\ SF_vars(Stream(n))

FairSpec == Spec /\ Fairness
FairFencingSpec == FencingSpec /\ Fairness

-----------------------------------------------------------------------------
(* Properties.                                                             *)

Pair == [term : Nat, first : Nat]

\* Type correctness.
TypeOK ==
  /\ lease \in [holder : Nodes \cup {None}, term : Nat, seq : Nat]
  /\ log \in [Nodes -> Seq(Nat)] /\ recorded \in Seq(Nat)
  /\ history \in [Nodes -> Seq(Pair)]
  /\ term \in [Nodes -> Nat]
  /\ role \in [Nodes -> {"leader", "standby", "fenced"}]
  /\ snap \in [Nodes -> [log : Seq(Nat), history : Seq(Pair), term : Nat]]
  /\ mode \in [Nodes -> {"down", "won", "lead", "fenced", "standby"}]
  /\ fol \in [Nodes -> [to : Nodes \cup {None}, st : {"idle", "linked", "dead"}]]
  /\ acked \in [Nodes -> Nat]
  /\ acks \subseteq [idx : Nat, term : Nat] /\ stops \in Nat

Prefix(s, u) == Len(s) <= Len(u) /\ \A i \in DOMAIN s : s[i] = u[i]

\* The handshake is sound: a standby the leader streams to holds a prefix of the
\* leader's log, so no frame lands on a tail that another leader wrote.
StreamsPrefix ==
  \A n, m \in Nodes : fol[n] = [to |-> m, st |-> "linked"] => Prefix(log[n], log[m])

\* REPL-HISTORY attributes every frame of a directory to the term it was written
\* under, through promotions, handshakes and snapshots.
HistorySound ==
  \A n \in Nodes : \A i \in DOMAIN log[n] : TermAt(history[n], i) = log[n][i]

\* Log matching: logs that hold the same frame agree on everything before it.
SameFrameSamePast ==
  \A n, m \in Nodes : \A i \in DOMAIN log[n] \cap DOMAIN log[m] :
    log[n][i] = log[m][i] => \A j \in 1 .. i : log[n][j] = log[m][j]

\* Under the lease a handshake never meets an older leader: whoever serves the
\* stream is at the newest term of the nodes that follow it, so the handshake's
\* deposal (their_term > term) is never what stops a leader.
LeaderNewest ==
  \A n, m \in Nodes : Hello(n, m) => term[n] <= term[m]

\* With one standby, no write that was answered Ok is missing on a later leader.
AckedSurvives ==
  \A n \in Nodes : mode[n] = "lead" =>
    \A a \in acks : a.idx <= Len(log[n]) /\ log[n][a.idx] = a.term

\* A leader that stays ends up with every other node holding its log, whatever
\* tails they had: each restarts, follows the record's holder, is re-bootstrapped
\* if it must be, and catches up.
StandbysConverge ==
  \A n, m \in Nodes : <>[](mode[m] = "lead") => <>[](log[n] = log[m])

\* "A standby behind it may not take over": whoever wins the record holds the
\* log its last holder recorded.
WinnerHoldsRecorded ==
  [][lease'.holder # lease.holder => Prefix(recorded, log[lease'.holder])]_lease

\* The log matching of two nodes: a stream extends a prefix of the leader's log,
\* two logs that agree on a frame agree on everything before it, and the history
\* that the handshake compares is that of the log.
LogMatching == StreamsPrefix /\ SameFrameSamePast /\ HistorySound
=============================================================================
