------------------------------- MODULE Claims -------------------------------
(***************************************************************************)
(* Claims on tasks (ops.rs claim_task, release_task, handoff_task): a lease *)
(* kept in two extensions of the task's head, `claim_holder` and            *)
(* `claim_until`, in wall-clock time.                                       *)
(*                                                                          *)
(* Every operation runs under the pipe lock; a handoff is two commits and   *)
(* may be cut off between them.  Other writers update the task meanwhile:   *)
(* remember carries the two extensions forward, transact replaces them      *)
(* (kernel.rs).  `claim_until` is computed in 64 unsigned bits and stored   *)
(* in 64 signed ones.                                                       *)
(***************************************************************************)
EXTENDS Naturals, FiniteSets

CONSTANTS Tasks, Agents, NoAgent,
          Leases,         \* lease lengths asked for
          SignedMax, UnsignedMax,
          MaxClaimTime, MaxClaimFaults

ASSUME ClaimsAssumption ==
    /\ NoAgent \notin Agents /\ Leases \subseteq Nat \ {0}
    /\ SignedMax \in Nat /\ UnsignedMax = 2 * SignedMax + 1
    /\ MaxClaimTime \in Nat /\ MaxClaimFaults \in Nat

VARIABLES
    wall,
    claim,      \* task to its two extensions, holder and until
    invalid,    \* tasks invalidated
    belief,     \* agent and task to the end of the lease it was told
    handoffs,   \* handoffs made: claims moved, and records of them
    claimFaults

claimVars == <<wall, claim, invalid, belief, handoffs, claimFaults>>

Unclaimed == [holder |-> NoAgent, until |-> 0]

\* The cast to i64: what does not fit is negative, and read back as no end.
StoredUntil(until) == IF until <= SignedMax THEN until ELSE 0

Believes(a, t, until) == [belief EXCEPT ![a][t] = until]

-----------------------------------------------------------------------------
\* A slip in claim_task: only a claim of one's own is looked at.
Conflict_Never(a, t) == FALSE

\* Another agent's claim is live.
ClaimConflict(a, t) == claim[t].holder # a /\ claim[t].until > wall

ClaimTask(a, t, lease) ==
    /\ t \notin invalid /\ ~ClaimConflict(a, t)
    /\ wall + lease <= UnsignedMax                      \* checked_add
    /\ claim' = [claim EXCEPT ![t] = [holder |-> a, until |-> StoredUntil(wall + lease)]]
    /\ belief' = Believes(a, t, wall + lease)
    /\ UNCHANGED <<wall, invalid, handoffs, claimFaults>>

ReleaseTask(a, t) ==
    /\ claim[t].holder = a
    /\ claim' = [claim EXCEPT ![t] = Unclaimed]
    /\ belief' = Believes(a, t, 0)
    /\ UNCHANGED <<wall, invalid, handoffs, claimFaults>>

\* The claim moves, the end of the lease is kept, and a record is written;
\* the second commit may fail, or never be made.
HandoffTask(a, b, t, recorded) ==
    /\ claim[t].holder = a
    /\ IF recorded THEN UNCHANGED claimFaults
       ELSE claimFaults < MaxClaimFaults /\ claimFaults' = claimFaults + 1
    /\ claim' = [claim EXCEPT ![t].holder = b]
    /\ belief' = [Believes(a, t, 0) EXCEPT ![b][t] = claim[t].until]
    /\ handoffs' = [moved |-> handoffs.moved \cup {<<a, b, t>>},
                    recorded |-> IF recorded THEN handoffs.recorded \cup {<<a, b, t>>}
                                 ELSE handoffs.recorded]
    /\ UNCHANGED <<wall, invalid>>

\* A slip in remember_locked: no extension is carried forward.
Carried_None(t) == Unclaimed

\* remember: the kernel's extensions are carried forward.
Carried(t) == claim[t]

RememberTask(t) ==
    /\ claim' = [claim EXCEPT ![t] = Carried(t)]
    /\ UNCHANGED <<wall, invalid, belief, handoffs, claimFaults>>

\* transact: the request's extensions replace the head's.
TransactTask(t) ==
    /\ claim' = [claim EXCEPT ![t] = Unclaimed]
    /\ UNCHANGED <<wall, invalid, belief, handoffs, claimFaults>>

InvalidateTask(t) ==
    /\ t \notin invalid /\ invalid' = invalid \cup {t}
    /\ UNCHANGED <<wall, claim, belief, handoffs, claimFaults>>

WallTick ==
    /\ wall < MaxClaimTime /\ wall' = wall + 1
    /\ UNCHANGED <<claim, invalid, belief, handoffs, claimFaults>>

WallStepsBack ==
    /\ claimFaults < MaxClaimFaults /\ claimFaults' = claimFaults + 1
    /\ wall > 0 /\ wall' = wall - 1
    /\ UNCHANGED <<claim, invalid, belief, handoffs>>

-----------------------------------------------------------------------------
ClaimsInit ==
    /\ wall = 0 /\ claim = [t \in Tasks |-> Unclaimed] /\ invalid = {}
    /\ belief = [a \in Agents |-> [t \in Tasks |-> 0]]
    /\ handoffs = [moved |-> {}, recorded |-> {}] /\ claimFaults = 0

ClaimsNext ==
    \/ \E t \in Tasks :
          \/ \E a \in Agents :
                \/ \E lease \in Leases : ClaimTask(a, t, lease)
                \/ ReleaseTask(a, t)
                \/ \E b \in Agents, r \in BOOLEAN : HandoffTask(a, b, t, r)
          \/ RememberTask(t) \/ InvalidateTask(t)
    \/ WallTick

ClaimsSpec == ClaimsInit /\ [][ClaimsNext]_claimVars

\* Other writers update the tasks through transact, and the clock may be set
\* back: what claims promise does not hold then.
DisturbedNext == ClaimsNext \/ (\E t \in Tasks : TransactTask(t)) \/ WallStepsBack

DisturbedSpec == ClaimsInit /\ [][DisturbedNext]_claimVars

-----------------------------------------------------------------------------
(* Properties.                                                              *)

\* Type invariant.
ClaimsTypeOK ==
    /\ wall \in Nat /\ invalid \subseteq Tasks
    /\ \A t \in Tasks : claim[t].holder \in Agents \cup {NoAgent} /\ claim[t].until \in 0..SignedMax
    /\ handoffs.recorded \subseteq handoffs.moved

\* "exactly one claimant wins": no two agents have each been told of a lease on
\* one task that has not ended, through renewals, handoffs, updates of the task
\* and the passing of time.
OneClaimant ==
    \A t \in Tasks : \A a, b \in Agents :
        belief[a][t] > wall /\ belief[b][t] > wall => a = b

\* A lease an agent was told of is the one the task carries until it ends: it can
\* renew, release or hand it over.
BelievedHeld ==
    \A t \in Tasks, a \in Agents :
        belief[a][t] > wall => claim[t] = [holder |-> a, until |-> belief[a][t]]

\* What claims promise.
ClaimsSafe == ClaimsTypeOK /\ OneClaimant /\ BelievedHeld

\* "the claim moves to `to` ... and an aikoql:handoff KO records who/what/why".
HandoffRecorded == handoffs.recorded = handoffs.moved

\* "Only the live holder releases", "an expired or foreign claim is rejected".
LiveRelease ==
    [][\A t \in Tasks : claim[t].holder # NoAgent /\ claim'[t].holder = NoAgent
                            => claim[t].until > wall]_claimVars
=============================================================================
