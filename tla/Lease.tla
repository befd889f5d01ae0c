------------------------------- MODULE Lease -------------------------------
(***************************************************************************)
(* Automatic failover (services/api/mcp/src/ha.rs): every node runs the    *)
(* same agent against one lease record, which a LeaseStore changes only by *)
(* compare-and-swap on a version.  The module has real time in ticks: the  *)
(* renewer's sleep, a store request's duration, the age of the last        *)
(* successful renewal (from its START) and, on a standby, the time for     *)
(* which the record has been seen unchanged.  Nodes share no clock value,  *)
(* only the rate.                                                          *)
(*                                                                         *)
(* A version is not a number here.  `known[n]' says that the version n     *)
(* remembers is the store's current one, which is all a CAS compares; a    *)
(* write makes every other node's version stale.                           *)
(***************************************************************************)
EXTENDS Integers

CONSTANTS
  Nodes,      \* the nodes of the cluster
  None,       \* the holder of a record that does not exist
  TTL,        \* --ha-ttl-ms in ticks, a multiple of 3
  Timeout,    \* a store request is answered within this: TTL/3 (S3, K8s), 0 (file)
  StartMax,   \* a start (read the record, claim, resume) takes at most this
  ClaimMax,   \* claim_term after a first win (it opens the database) takes at most this
  MaxFaults,  \* store requests that fail
  MaxCrashes, \* nodes that crash
  MaxTerm     \* terms a takeover may reach

ASSUME LeaseAssumption ==
  /\ None \notin Nodes
  /\ TTL \in Nat \ {0} /\ TTL % 3 = 0
  /\ {Timeout, StartMax, ClaimMax, MaxFaults, MaxCrashes, MaxTerm} \subseteq Nat

VARIABLES
  lease,      \* the record in the store: who holds which term
  late,       \* records of abandoned requests that may still land on this version
  pc,         \* where each node's agent is
  req,        \* its CAS: none, sent, landed (done by the store, not yet answered)
  known,      \* is the version it remembers the store's current one?
  want,       \* the term its CAS writes
  t,          \* ticks since its sleep, request or start began
  age,        \* leader: since last_ok started; standby: since it saw this version
  open,       \* nodes whose kernel is open (the renewer's slot is set)
  term, role, \* REPL-TERM, on disk
  faults, crashes

node == <<pc, req, want, t, age, open>>
disk == <<term, role>>
vars == <<lease, late, pc, req, known, want, t, age, open, term, role,
          faults, crashes>>

NoLease == [holder |-> None, term |-> 0]
Rec(n, k) == [holder |-> n, term |-> k]

PCs == {"down", "begin", "winning", "claiming", "holding", "resuming",
        "lead", "renewing", "standby", "exiting"}

\* The agent waits for the store's answer to a compare-and-swap.
Calling(n) == pc[n] \in {"winning", "resuming", "renewing"}

\* A leader's renewer runs; its kernel may still be opening.
Leading(n) == pc[n] \in {"lead", "renewing"}

\* The kernel of n is open and its engine is not fenced: client writes commit.
Writes(n) == n \in open /\ (Leading(n) \/ pc[n] = "exiting")

Init ==
  /\ lease = NoLease /\ late = {}
  /\ pc = [n \in Nodes |-> "down"]
  /\ req = [n \in Nodes |-> "none"]
  /\ known = [n \in Nodes |-> FALSE]
  /\ want = [n \in Nodes |-> 0]
  /\ t = [n \in Nodes |-> 0]
  /\ age = [n \in Nodes |-> 0]
  /\ open = {}
  /\ term = [n \in Nodes |-> 0]
  /\ role = [n \in Nodes |-> "leader"]   \* no REPL-TERM file: term 0, leader
  /\ faults = 0 /\ crashes = 0

-----------------------------------------------------------------------------
(* Steps every action is made of.                                          *)

\* n goes to p and starts a new timer.
Goto(n, p) ==
  /\ pc' = [pc EXCEPT ![n] = p]
  /\ t' = [t EXCEPT ![n] = 0]

\* The process of n ends: its memory is gone.
Stop(n) ==
  /\ Goto(n, "down")
  /\ req' = [req EXCEPT ![n] = "none"]
  /\ want' = [want EXCEPT ![n] = 0]
  /\ age' = [age EXCEPT ![n] = 0]
  /\ open' = open \ {n}

\* The store replaces the record: only `by' may hold the new version.
Put(r, by) ==
  /\ lease' = r
  /\ late' = {}
  /\ known' = [m \in Nodes |-> m = by]

Forget(n) == known' = [known EXCEPT ![n] = FALSE]

\* n sends a CAS for term k, expecting the version it has just read.
Send(n, p, k) ==
  /\ Goto(n, p)
  /\ req' = [req EXCEPT ![n] = "sent"]
  /\ want' = [want EXCEPT ![n] = k]

\* An unanswered request of n may stay in flight after n has given up on it.
Abandon(n) ==
  IF req[n] = "sent" /\ known[n]
  THEN late' \in {late, late \cup {Rec(n, want[n])}}
  ELSE late' = late

Fault == faults < MaxFaults /\ faults' = faults + 1

-----------------------------------------------------------------------------
(* Start-up: begin, try_win, resume.                                       *)

Start(n) ==
  /\ pc[n] = "down"
  /\ Goto(n, "begin")
  /\ UNCHANGED <<lease, late, req, known, want, age, open, disk, faults, crashes>>

\* Mutant: the first term is computed the wrong way round.
BeginFree_Previous(n) ==
  /\ pc[n] = "begin" /\ lease = NoLease
  /\ Send(n, "winning", term[n] - 1)
  /\ known' = [known EXCEPT ![n] = TRUE]
  /\ UNCHANGED <<lease, late, age, open, disk, faults, crashes>>

\* begin, no record: one CAS for the next term, expecting none.
BeginFree(n) ==
  /\ pc[n] = "begin" /\ lease = NoLease
  /\ Send(n, "winning", term[n] + 1)
  /\ known' = [known EXCEPT ![n] = TRUE]
  /\ UNCHANGED <<lease, late, age, open, disk, faults, crashes>>

\* begin, its own record: claim the directory at the record's term if needed.
BeginOwn(n) ==
  /\ pc[n] = "begin"
  /\ lease.holder = n /\ lease.term >= term[n]
  /\ pc' = [pc EXCEPT ![n] = "holding"]
  /\ known' = [known EXCEPT ![n] = TRUE]
  /\ want' = [want EXCEPT ![n] = lease.term]
  /\ term' = [term EXCEPT ![n] = lease.term]
  /\ role' = [role EXCEPT ![n] = "leader"]
  /\ UNCHANGED <<lease, late, req, t, age, open, faults, crashes>>

\* resume: the CAS renewal of the record that begin read.
Resume(n) ==
  /\ pc[n] = "holding"
  /\ Send(n, "resuming", want[n])
  /\ UNCHANGED <<lease, late, known, age, open, disk, faults, crashes>>

\* begin, somebody else's record: a standby that has seen no version yet.
BeginOther(n) ==
  /\ pc[n] = "begin"
  /\ lease # NoLease /\ ~ (lease.holder = n /\ lease.term >= term[n])
  /\ Goto(n, "standby")
  /\ Forget(n)
  /\ UNCHANGED <<lease, late, req, want, age, open, disk, faults, crashes>>

-----------------------------------------------------------------------------
(* A compare-and-swap: the store, then the answer.                         *)

\* Mutant: the store writes without comparing versions.
Land_Unchecked(n) ==
  /\ Calling(n) /\ req[n] = "sent"
  /\ Put(Rec(n, want[n]), n)
  /\ req' = [req EXCEPT ![n] = "landed"]
  /\ UNCHANGED <<pc, want, t, age, open, disk, faults, crashes>>

\* The store compares the version the request expects, then writes.
Land(n) ==
  /\ Calling(n) /\ req[n] = "sent" /\ known[n]
  /\ Put(Rec(n, want[n]), n)
  /\ req' = [req EXCEPT ![n] = "landed"]
  /\ UNCHANGED <<pc, want, t, age, open, disk, faults, crashes>>

\* An abandoned request reaches the store before any other write.
LandLate ==
  /\ \E r \in late : Put(r, None)
  /\ UNCHANGED <<node, disk, faults, crashes>>

\* Ok: last_ok is the time the request STARTED.
Ok(n) ==
  /\ Calling(n) /\ req[n] = "landed"
  /\ Goto(n, IF pc[n] = "winning" THEN "claiming" ELSE "lead")
  /\ age' = [age EXCEPT ![n] = t[n]]
  /\ req' = [req EXCEPT ![n] = "none"]
  /\ UNCHANGED <<lease, late, known, want, open, disk, faults, crashes>>

\* try_win after its CAS: claim_term opens the database, then the renewer starts.
Claim(n) ==
  /\ pc[n] = "claiming"
  /\ Goto(n, "lead")
  /\ term' = [term EXCEPT ![n] = want[n]]
  /\ role' = [role EXCEPT ![n] = "leader"]
  /\ UNCHANGED <<lease, late, req, known, want, age, open, faults, crashes>>

\* The kernel opens and its storage admin surface fills the renewer's slot.
OpenKernel(n) ==
  /\ n \notin open /\ (Leading(n) \/ pc[n] = "exiting")
  /\ open' = open \cup {n}
  /\ UNCHANGED <<lease, late, pc, req, known, want, t, age, disk, faults, crashes>>

\* fence: stop writes if the kernel is open, record the role, read the store
\* for a hint (an unanswered read waits out its timeout), exit.
Fence(n) ==
  /\ role' = [role EXCEPT ![n] = "fenced"]
  /\ term' = term
  /\ IF n \in open
     THEN Stop(n)
     ELSE /\ Goto(n, "exiting")
          /\ req' = [req EXCEPT ![n] = "none"]
          /\ UNCHANGED <<want, age, open>>

Exit(n) ==
  /\ pc[n] = "exiting"
  /\ Stop(n) /\ Forget(n)
  /\ UNCHANGED <<lease, late, disk, faults, crashes>>

\* Back to begin's loop after a CAS that did not succeed.
Again(n) ==
  /\ Goto(n, "begin")
  /\ req' = [req EXCEPT ![n] = "none"]
  /\ UNCHANGED <<want, age, open, disk>>

\* Mutant: a leader takes a conflict for a failure that may pass.
Conflict_Retried(n) ==
  /\ Calling(n) /\ req[n] = "sent" /\ ~ known[n]
  /\ IF pc[n] = "renewing"
     THEN /\ Goto(n, "lead")
          /\ req' = [req EXCEPT ![n] = "none"]
          /\ UNCHANGED <<want, age, open, disk>>
     ELSE Again(n)
  /\ UNCHANGED <<lease, late, known, faults, crashes>>

\* Conflict: a leader fences itself, a starting node decides again.
Conflict(n) ==
  /\ Calling(n) /\ req[n] = "sent" /\ ~ known[n]
  /\ IF pc[n] = "renewing" THEN Fence(n) ELSE Again(n)
  /\ UNCHANGED <<lease, late, known, faults, crashes>>

\* Mutant: the leader holds on for the TTL its standbys wait for.
Overdue_AtTTL(n) == age[n] >= TTL

\* The renewer looks at the fence deadline only here, after a failed request.
Overdue(n) == age[n] >= (2 * TTL) \div 3

\* Other: the request failed or timed out, whether or not it landed.
Fail(n) ==
  /\ Calling(n) /\ Fault
  /\ IF pc[n] # "renewing" THEN Again(n)
     ELSE IF Overdue(n) THEN Fence(n)
     ELSE /\ Goto(n, "lead")
          /\ req' = [req EXCEPT ![n] = "none"]
          /\ UNCHANGED <<want, age, open, disk>>
  /\ Abandon(n)
  /\ known' = [known EXCEPT ![n] = @ /\ req[n] = "sent"]
  /\ UNCHANGED <<lease, crashes>>

\* renew: after a sleep of TTL/3.
Renew(n) ==
  /\ pc[n] = "lead" /\ t[n] = TTL \div 3
  /\ Send(n, "renewing", want[n])
  /\ UNCHANGED <<lease, late, known, age, open, disk, faults, crashes>>

-----------------------------------------------------------------------------
(* stand_by: poll, follow, take over.                                      *)

\* Mutant: every poll restarts the wait, changed record or not.
Poll_Restarts(n) ==
  /\ pc[n] = "standby"
  /\ known' = [known EXCEPT ![n] = TRUE]
  /\ age' = [age EXCEPT ![n] = 0]
  /\ UNCHANGED <<lease, late, pc, req, want, t, open, disk, faults, crashes>>

\* A changed version restarts the wait.
Poll(n) ==
  /\ pc[n] = "standby" /\ ~ known[n]
  /\ known' = [known EXCEPT ![n] = TRUE]
  /\ age' = [age EXCEPT ![n] = 0]
  /\ UNCHANGED <<lease, late, pc, req, want, t, open, disk, faults, crashes>>

\* Follow the node the record names: a standby takes over its term.
Follow(n, m) ==
  /\ pc[n] = "standby" /\ Writes(m) /\ role[m] # "fenced"
  /\ known[n] => lease.holder = m
  /\ term[m] >= term[n]
  /\ term' = [term EXCEPT ![n] = term[m]]
  /\ role' = [role EXCEPT ![n] = "standby"]
  /\ UNCHANGED <<lease, late, node, known, faults, crashes>>

\* Mutant: half a TTL is taken for a lapsed lease.
Stale_Early(n) == pc[n] = "standby" /\ known[n] /\ age[n] >= TTL \div 2

\* The record has not changed for a full TTL of n's clock.
Stale(n) == pc[n] = "standby" /\ known[n] /\ age[n] >= TTL

\* Mutant: the next term of the directory, not of the record.
NextTerm_OfDirectory(n) == term[n] + 1

NextTerm(n) == IF term[n] > lease.term THEN term[n] + 1 ELSE lease.term + 1

\* win: the CAS lands and is answered; the process re-executes into begin.
TakeOver(n) ==
  /\ Stale(n) /\ NextTerm(n) <= MaxTerm
  /\ Put(Rec(n, NextTerm(n)), None)
  /\ Goto(n, "begin")
  /\ age' = [age EXCEPT ![n] = 0]
  /\ UNCHANGED <<req, want, open, disk, faults, crashes>>

\* win without an answer: the CAS landed, or is still in flight; n polls on.
TakeOverUnanswered(n) ==
  /\ Stale(n) /\ NextTerm(n) <= MaxTerm
  /\ Fault
  /\ \/ Put(Rec(n, NextTerm(n)), None)
     \/ /\ late' = late \cup {Rec(n, NextTerm(n))}
        /\ UNCHANGED <<lease, known>>
  /\ UNCHANGED <<node, disk, crashes>>

-----------------------------------------------------------------------------
(* Crashes and time.                                                       *)

Crash(n) ==
  /\ pc[n] # "down" /\ crashes < MaxCrashes
  /\ crashes' = crashes + 1
  /\ Stop(n) /\ Forget(n)
  /\ Abandon(n)
  /\ UNCHANGED <<lease, disk, faults>>

\* How long n may stay where it is; a timer that has run out must act first.
Limit(n) ==
  CASE pc[n] \in {"begin", "holding"} -> StartMax
    [] Calling(n) \/ pc[n] = "exiting" -> Timeout
    [] pc[n] = "claiming" -> ClaimMax
    [] pc[n] = "lead" -> TTL \div 3
    [] OTHER -> TTL + 1

\* Ages are compared with TTL and 2/3 TTL only: they saturate past it.
MaxAge == 2 * TTL

Tick ==
  /\ \A n \in Nodes : t[n] < Limit(n)
  /\ t' = [n \in Nodes |-> IF pc[n] \in {"down", "standby"} THEN 0 ELSE t[n] + 1]
  /\ age' = [n \in Nodes |->
       IF \/ pc[n] \in {"down", "begin", "winning", "holding", "resuming"}
          \/ age[n] = MaxAge \/ Stale(n)
       THEN age[n] ELSE age[n] + 1]
  /\ UNCHANGED <<lease, late, pc, req, known, want, open, disk, faults, crashes>>

Steps(n) ==
  \/ Start(n) \/ BeginFree(n) \/ BeginOwn(n) \/ Resume(n) \/ BeginOther(n)
  \/ Land(n) \/ Ok(n) \/ Claim(n) \/ Exit(n) \/ Conflict(n) \/ Renew(n)
  \/ Poll(n) \/ TakeOver(n)

Next ==
  \/ \E n \in Nodes : \/ Steps(n) \/ OpenKernel(n)
                      \/ Fail(n) \/ TakeOverUnanswered(n) \/ Crash(n)
                      \/ \E m \in Nodes : Follow(n, m)
  \/ LandLate
  \/ Tick

Spec == Init /\ [][Next]_vars

\* The supervisor restarts what exits, threads run, time passes.  Faults and
\* crashes are never forced, nor is following or the landing of what was lost.
Fairness ==
  /\ \A n \in Nodes : WF_vars(Steps(n)) /\ WF_vars(OpenKernel(n))
  /\ WF_vars(Tick)

FairSpec == Spec /\ Fairness

-----------------------------------------------------------------------------
(* Properties.                                                             *)

\* Type correctness.
TypeOK ==
  /\ lease \in [holder : Nodes \cup {None}, term : Nat]
  /\ late \in SUBSET [holder : Nodes, term : Nat]
  /\ pc \in [Nodes -> PCs]
  /\ req \in [Nodes -> {"none", "sent", "landed"}]
  /\ known \in [Nodes -> BOOLEAN]
  /\ want \in [Nodes -> Nat] /\ t \in [Nodes -> Nat] /\ age \in [Nodes -> Nat]
  /\ open \in SUBSET Nodes
  /\ term \in [Nodes -> Nat]
  /\ role \in [Nodes -> {"leader", "standby", "fenced"}]
  /\ faults \in Nat /\ crashes \in Nat

\* The directory of n was claimed at its term: n wrote, or may yet write, under it.
Claimed(n) == role[n] # "standby" /\ term[n] > 0

\* The lease term is the replication term: no two directories, of running,
\* restarting or dead nodes, are ever claimed at one term (begin, try_win,
\* claim_term and the store's CAS together).
OneWriterPerTerm ==
  \A m, n \in Nodes : Claimed(m) /\ Claimed(n) /\ term[m] = term[n] => m = n

\* The margin of ha.rs's timing argument, as the code keeps it: the fence deadline is looked
\* at after a failed request only, so a leader that took ClaimMax to claim may write that much
\* past 2/3 TTL.  Once a standby has seen the record unchanged for longer, no other node
\* commits writes.
MarginKept ==
  \A n, m \in Nodes :
    (pc[n] = "standby" /\ known[n] /\ age[n] > (2 * TTL) \div 3 + ClaimMax /\ m # n)
      => ~ Writes(m)

\* The inductive invariant behind OneWriterPerTerm.  A term belongs to the
\* node whose directory was claimed at it, to the one whose first CAS for it
\* has landed and which is about to claim it, and to the holder of the record.
Pending(n) == (pc[n] = "winning" /\ req[n] = "landed") \/ pc[n] = "claiming"

Owns(n, k) ==
  \/ Claimed(n) /\ term[n] = k
  \/ Pending(n) /\ want[n] = k
  \/ lease.holder = n /\ lease.term = k

RecordOK == lease = NoLease \/ (lease.holder \in Nodes /\ lease.term > 0)

OneOwner ==
  \A m, n \in Nodes, k \in 0 .. lease.term : Owns(m, k) /\ Owns(n, k) => m = n

\* Nothing is claimed, and no directory has seen a term, above the record's.
TermsBelow ==
  \A n \in Nodes : /\ term[n] <= lease.term
                   /\ Pending(n) => want[n] <= lease.term

\* A CAS that can still succeed writes a new term or renews its own record.
CallsValid ==
  \A n \in Nodes :
    /\ req[n] = "sent" => Calling(n)
    /\ known[n] => /\ pc[n] = "winning" /\ req[n] = "sent" => want[n] > lease.term
                   /\ (Pending(n) \/ Leading(n) \/ pc[n] \in {"holding", "resuming"})
                        => lease = Rec(n, want[n])

LateValid == \A r \in late : r.term > lease.term \/ r = lease

\* Whoever may fence itself has claimed its directory.
LeadersClaimed ==
  \A n \in Nodes :
    Leading(n) \/ pc[n] \in {"holding", "resuming"} => role[n] # "standby"

\* Every term has one owner, from its first CAS on: what the compare-and-swap,
\* the claim and the restart after a takeover establish together.
TermsOwned ==
  /\ RecordOK /\ OneOwner /\ TermsBelow
  /\ CallsValid /\ LateValid /\ LeadersClaimed

\* "A node writes only while it holds the lease" (ha.rs, module doc): whoever
\* can still commit a write is the holder of the record.
WritesHoldLease == \A n \in Nodes : Writes(n) => lease.holder = n

\* A record never disappears or goes back, and changes hands only with a
\* newer term, whatever requests land late.
LeaseAdvances ==
  [][ \/ lease' = lease
      \/ lease'.term > lease.term ]_lease

\* A leader whose record was taken does not write for ever: its renewer's
\* next CAS conflicts and fences it.
DeposedStops ==
  \A n \in Nodes : (Writes(n) /\ lease.holder # n) ~> ~ Writes(n)

\* Once faults and crashes are over, some node holds the record and serves
\* writes for ever.
LeaderReturns ==
  <>[](\E n \in Nodes : Writes(n) /\ lease.holder = n)

\* Writes are the record holder's, and have stopped a margin before a takeover.
HolderWrites == WritesHoldLease /\ MarginKept
=============================================================================
