---------------------------- MODULE Lease_proofs ----------------------------
(***************************************************************************)
(* Theorems about Lease, for every set of nodes, every TTL, request        *)
(* timeout and bound.                                                      *)
(***************************************************************************)
EXTENDS Lease, TLAPS

-----------------------------------------------------------------------------
(* Types *)

LEMMA TypeInit == Init => TypeOK
BY LeaseAssumption DEF Init, TypeOK, NoLease, PCs

LEMMA TypeNext == TypeOK /\ [Next]_vars => TypeOK'
<1>. SUFFICES ASSUME TypeOK, [Next]_vars PROVE TypeOK'
  OBVIOUS
<1>. USE DEF TypeOK
<1>1. ASSUME NEW n \in Nodes, Start(n) PROVE TypeOK'
  BY <1>1 DEF Start, Goto, disk, PCs
<1>2. ASSUME NEW n \in Nodes, BeginFree(n) PROVE TypeOK'
  BY <1>2 DEF BeginFree, Send, Goto, disk, PCs
<1>3. ASSUME NEW n \in Nodes, BeginOwn(n) PROVE TypeOK'
  BY <1>3 DEF BeginOwn, PCs
<1>4. ASSUME NEW n \in Nodes, Resume(n) PROVE TypeOK'
  BY <1>4 DEF Resume, Send, Goto, disk, PCs
<1>5. ASSUME NEW n \in Nodes, BeginOther(n) PROVE TypeOK'
  BY <1>5 DEF BeginOther, Goto, Forget, disk, PCs
<1>6. ASSUME NEW n \in Nodes, Land(n) PROVE TypeOK'
  BY <1>6 DEF Land, Put, Rec, disk, PCs
<1>7. ASSUME NEW n \in Nodes, Ok(n) PROVE TypeOK'
  BY <1>7 DEF Ok, Goto, disk, PCs
<1>8. ASSUME NEW n \in Nodes, Claim(n) PROVE TypeOK'
  BY <1>8 DEF Claim, Goto, PCs
<1>9. ASSUME NEW n \in Nodes, Exit(n) PROVE TypeOK'
  BY <1>9 DEF Exit, Stop, Goto, Forget, disk, PCs
<1>10. ASSUME NEW n \in Nodes, Conflict(n) PROVE TypeOK'
  BY <1>10 DEF Conflict, Fence, Stop, Again, Goto, disk, PCs
<1>11. ASSUME NEW n \in Nodes, Renew(n) PROVE TypeOK'
  BY <1>11 DEF Renew, Send, Goto, disk, PCs
<1>12. ASSUME NEW n \in Nodes, Poll(n) PROVE TypeOK'
  BY <1>12 DEF Poll, disk, PCs
<1>13. ASSUME NEW n \in Nodes, TakeOver(n) PROVE TypeOK'
  BY <1>13 DEF TakeOver, Put, Rec, Goto, NextTerm, disk, PCs
<1>14. ASSUME NEW n \in Nodes, OpenKernel(n) PROVE TypeOK'
  BY <1>14 DEF OpenKernel, disk, PCs
<1>15. ASSUME NEW n \in Nodes, Fail(n) PROVE TypeOK'
  BY <1>15 DEF Fail, Fault, Abandon, Again, Fence, Stop, Goto, Rec, disk, PCs
<1>16. ASSUME NEW n \in Nodes, TakeOverUnanswered(n) PROVE TypeOK'
  <2>1. NextTerm(n) \in Nat
    BY DEF NextTerm
  <2>2. UNCHANGED <<pc, req, want, t, age, open, term, role, crashes>> /\ faults' \in Nat
    BY <1>16 DEF TakeOverUnanswered, Fault, node, disk
  <2>3. CASE Put(Rec(n, NextTerm(n)), None)
    BY <2>1, <2>2, <2>3 DEF Put, Rec
  <2>4. CASE late' = late \cup {Rec(n, NextTerm(n))} /\ UNCHANGED <<lease, known>>
    BY <2>1, <2>2, <2>4 DEF Rec
  <2>. QED  BY <1>16, <2>3, <2>4 DEF TakeOverUnanswered
<1>17. ASSUME NEW n \in Nodes, Crash(n) PROVE TypeOK'
  BY <1>17 DEF Crash, Stop, Goto, Forget, Abandon, Rec, disk, PCs
<1>18. ASSUME NEW n \in Nodes, NEW m \in Nodes, Follow(n, m) PROVE TypeOK'
  BY <1>18 DEF Follow, node
<1>19. ASSUME LandLate PROVE TypeOK'
  BY <1>19 DEF LandLate, Put, node, disk
<1>20. ASSUME Tick PROVE TypeOK'
  BY <1>20 DEF Tick, disk
<1>21. CASE UNCHANGED vars
  BY <1>21 DEF vars
<1>. QED
  BY <1>1, <1>2, <1>3, <1>4, <1>5, <1>6, <1>7, <1>8, <1>9, <1>10, <1>11,
     <1>12, <1>13, <1>14, <1>15, <1>16, <1>17, <1>18, <1>19, <1>20, <1>21
  DEF Next, Steps

\* Every state the failover agents and the lease store reach is well formed.
THEOREM LeaseTypeCorrect == Spec => []TypeOK
BY TypeInit, TypeNext, PTL DEF Spec

-----------------------------------------------------------------------------
(* Every term has one owner *)

LEMMA OwnedInit == Init => TermsOwned
BY LeaseAssumption
DEF Init, TermsOwned, RecordOK, OneOwner, TermsBelow, CallsValid, LateValid,
    LeadersClaimed, Owns, Claimed, Pending, Leading, NoLease

\* What the store writes is a new term or the record itself: ownership holds on.
LEMMA PutOwned ==
  ASSUME TypeOK, TermsOwned, NEW n \in Nodes, NEW k \in Nat,
         lease' = Rec(n, k), late' = {}, UNCHANGED disk,
         k > lease.term \/ lease = Rec(n, k),
         \A m \in Nodes : Pending(m)' => \/ Pending(m) /\ want'[m] = want[m]
                                         \/ m = n /\ want'[m] = k
  PROVE  RecordOK' /\ OneOwner' /\ TermsBelow' /\ LateValid'
<1>. USE LeaseAssumption DEF TypeOK, TermsOwned, Rec, disk
<1>1. k > 0 /\ lease.term <= k
  BY DEF RecordOK, NoLease
<1>2. RecordOK'
  BY <1>1 DEF RecordOK
<1>3. \A m \in Nodes : Claimed(m)' => Claimed(m) /\ term[m] <= lease.term
  BY DEF Claimed, TermsBelow
<1>4. TermsBelow'
  BY <1>1 DEF TermsBelow
<1>5. \A m \in Nodes, j \in Nat : Owns(m, j)' => (Owns(m, j) /\ j <= lease.term) \/ (m = n /\ j = k)
  BY <1>3 DEF Owns, TermsBelow
<1>6. \A m \in Nodes : Owns(m, k) /\ k <= lease.term => m = n
  <2>1. CASE k > lease.term
    BY <2>1
  <2>2. CASE lease = Rec(n, k)
    BY <2>2 DEF OneOwner, Owns
  <2>. QED  BY <2>1, <2>2
<1>7. OneOwner'
  BY <1>5, <1>6 DEF OneOwner
<1>8. LateValid'
  BY DEF LateValid
<1>. QED  BY <1>2, <1>4, <1>7, <1>8

\* A step that leaves the record alone and claims nothing keeps every owner.
LEMMA QuietOwned ==
  ASSUME TypeOK, TermsOwned, lease' = lease, term' = term,
         \A m \in Nodes : Claimed(m)' => Claimed(m),
         \A m \in Nodes : Pending(m)' => Pending(m) /\ want'[m] = want[m]
  PROVE  RecordOK' /\ OneOwner' /\ TermsBelow'
<1>. USE DEF TypeOK, TermsOwned
<1>1. \A m \in Nodes, j \in Nat : Owns(m, j)' => Owns(m, j)
  BY DEF Owns
<1>2. OneOwner'
  BY <1>1 DEF OneOwner
<1>. QED  BY <1>2 DEF RecordOK, TermsBelow, NoLease

\* A request that its node gives up on can still land only as it could before.
LEMMA AbandonValid ==
  ASSUME TypeOK, TermsOwned, NEW n \in Nodes, lease' = lease, Abandon(n)
  PROVE  LateValid'
<1>1. \A r \in late' : r \in late \/ (r = Rec(n, want[n]) /\ req[n] = "sent" /\ known[n])
  BY DEF Abandon
<1>2. req[n] = "sent" /\ known[n] => want[n] > lease.term \/ Rec(n, want[n]) = lease
  BY DEF TermsOwned, CallsValid, Calling, Leading
<1>3. Rec(n, want[n]).term = want[n]
  BY DEF Rec
<1>. QED  BY <1>1, <1>2, <1>3 DEF TermsOwned, LateValid

LEMMA OwnedNext == TypeOK /\ TermsOwned /\ [Next]_vars => TermsOwned'
<1>. SUFFICES ASSUME TypeOK, TermsOwned, [Next]_vars PROVE TermsOwned'
  OBVIOUS
<1>. USE LeaseAssumption DEF TypeOK, TermsOwned, RecordOK, OneOwner, TermsBelow, CallsValid,
     LateValid, LeadersClaimed, Owns, Claimed, Pending, Leading, Calling, Rec, NoLease
<1>1. ASSUME NEW n \in Nodes, Start(n) PROVE TermsOwned'
  BY <1>1 DEF Start, Goto, disk
<1>2. ASSUME NEW n \in Nodes, BeginFree(n) PROVE TermsOwned'
  BY <1>2 DEF BeginFree, Send, Goto, disk
<1>3. ASSUME NEW n \in Nodes, BeginOwn(n) PROVE TermsOwned'
  BY <1>3 DEF BeginOwn
<1>4. ASSUME NEW n \in Nodes, Resume(n) PROVE TermsOwned'
  BY <1>4 DEF Resume, Send, Goto, disk
<1>5. ASSUME NEW n \in Nodes, BeginOther(n) PROVE TermsOwned'
  BY <1>5 DEF BeginOther, Goto, Forget, disk
<1>6. ASSUME NEW n \in Nodes, Land(n) PROVE TermsOwned'
  <2>1. want[n] > lease.term \/ lease = Rec(n, want[n])
    BY <1>6 DEF Land
  <2>2. lease' = Rec(n, want[n]) /\ late' = {} /\ UNCHANGED disk
    BY <1>6 DEF Land, Put
  <2>3. \A m \in Nodes : Pending(m)' => \/ Pending(m) /\ want'[m] = want[m]
                                        \/ m = n /\ want'[m] = want[n]
    BY <1>6 DEF Land
  <2>4. RecordOK' /\ OneOwner' /\ TermsBelow' /\ LateValid'
    <3>1. want[n] \in Nat
      OBVIOUS
    <3>. QED  BY ONLY TypeOK, TermsOwned, <2>1, <2>2, <2>3, <3>1, PutOwned
  <2>5. CallsValid'
    BY <1>6 DEF Land, Put
  <2>6. LeadersClaimed'
    BY <1>6 DEF Land, disk
  <2>. QED  BY <2>4, <2>5, <2>6
<1>7. ASSUME NEW n \in Nodes, Ok(n) PROVE TermsOwned'
  BY <1>7 DEF Ok, Goto, disk
<1>8. ASSUME NEW n \in Nodes, Claim(n) PROVE TermsOwned'
  BY <1>8 DEF Claim, Goto
<1>9. ASSUME NEW n \in Nodes, Exit(n) PROVE TermsOwned'
  BY <1>9 DEF Exit, Stop, Goto, Forget, disk
<1>10. ASSUME NEW n \in Nodes, Conflict(n) PROVE TermsOwned'
  <2>1. lease' = lease /\ term' = term
    BY <1>10 DEF Conflict, Fence, Stop, Again, Goto, disk
  <2>2. \A m \in Nodes : Claimed(m)' => Claimed(m)
    BY <1>10 DEF Conflict, Fence, Stop, Again, Goto, disk
  <2>3. \A m \in Nodes : Pending(m)' => Pending(m) /\ want'[m] = want[m]
    BY <1>10 DEF Conflict, Fence, Stop, Again, Goto, disk
  <2>4. RecordOK' /\ OneOwner' /\ TermsBelow'
    BY <2>1, <2>2, <2>3, QuietOwned
  <2>5. CallsValid'
    BY <1>10 DEF Conflict, Fence, Stop, Again, Goto, disk
  <2>6. LateValid'
    BY <1>10 DEF Conflict
  <2>7. LeadersClaimed'
    BY <1>10 DEF Conflict, Fence, Stop, Again, Goto, disk
  <2>. QED  BY <2>4, <2>5, <2>6, <2>7
<1>11. ASSUME NEW n \in Nodes, Renew(n) PROVE TermsOwned'
  BY <1>11 DEF Renew, Send, Goto, disk
<1>12. ASSUME NEW n \in Nodes, Poll(n) PROVE TermsOwned'
  BY <1>12 DEF Poll, disk
<1>13. ASSUME NEW n \in Nodes, TakeOver(n) PROVE TermsOwned'
  <2>1. NextTerm(n) \in Nat /\ NextTerm(n) > lease.term
    BY DEF NextTerm
  <2>2. lease' = Rec(n, NextTerm(n)) /\ late' = {} /\ UNCHANGED disk
    BY <1>13 DEF TakeOver, Put
  <2>3. \A m \in Nodes : Pending(m)' => Pending(m) /\ want'[m] = want[m]
    BY <1>13 DEF TakeOver, Goto
  <2>4. RecordOK' /\ OneOwner' /\ TermsBelow' /\ LateValid'
    BY <2>1, <2>2, <2>3, PutOwned
  <2>5. CallsValid'
    BY <1>13 DEF TakeOver, Put, Goto, Stale
  <2>6. LeadersClaimed'
    BY <1>13 DEF TakeOver, Goto, disk
  <2>. QED  BY <2>4, <2>5, <2>6
<1>14. ASSUME NEW n \in Nodes, OpenKernel(n) PROVE TermsOwned'
  BY <1>14 DEF OpenKernel, disk
<1>15. ASSUME NEW n \in Nodes, Fail(n) PROVE TermsOwned'
  <2>1. lease' = lease /\ term' = term
    BY <1>15 DEF Fail, Fence, Stop, Again, Goto, disk
  <2>2. \A m \in Nodes : Claimed(m)' => Claimed(m)
    BY <1>15 DEF Fail, Fence, Stop, Again, Goto, disk
  <2>3. \A m \in Nodes : Pending(m)' => Pending(m) /\ want'[m] = want[m]
    BY <1>15 DEF Fail, Fence, Stop, Again, Goto, disk
  <2>4. RecordOK' /\ OneOwner' /\ TermsBelow'
    BY <2>1, <2>2, <2>3, QuietOwned
  <2>5. CallsValid'
    BY <1>15 DEF Fail, Fence, Stop, Again, Goto, disk
  <2>6. LateValid'
    BY <1>15, <2>1, AbandonValid DEF Fail
  <2>7. LeadersClaimed'
    BY <1>15 DEF Fail, Fence, Stop, Again, Goto, disk
  <2>. QED  BY <2>4, <2>5, <2>6, <2>7
<1>16. ASSUME NEW n \in Nodes, TakeOverUnanswered(n) PROVE TermsOwned'
  <2>1. NextTerm(n) \in Nat /\ NextTerm(n) > lease.term
    BY DEF NextTerm
  <2>2. UNCHANGED <<pc, req, want, term, role>> /\ UNCHANGED disk
    BY <1>16 DEF TakeOverUnanswered, node, disk
  <2>3. CASE Put(Rec(n, NextTerm(n)), None)
    <3>1. RecordOK' /\ OneOwner' /\ TermsBelow' /\ LateValid'
      <4>1. lease' = Rec(n, NextTerm(n)) /\ late' = {}
        BY <2>3 DEF Put
      <4>2. \A m \in Nodes : Pending(m)' => Pending(m) /\ want'[m] = want[m]
        BY <2>2
      <4>. QED  BY <2>1, <2>2, <4>1, <4>2, PutOwned
    <3>2. CallsValid' /\ LeadersClaimed'
      BY <2>2, <2>3 DEF Put
    <3>. QED  BY <3>1, <3>2
  <2>4. CASE late' = late \cup {Rec(n, NextTerm(n))} /\ UNCHANGED <<lease, known>>
    <3>1. LateValid'
      BY <2>1, <2>4
    <3>2. RecordOK' /\ OneOwner' /\ TermsBelow' /\ CallsValid' /\ LeadersClaimed'
      BY <2>2, <2>4
    <3>. QED  BY <3>1, <3>2
  <2>. QED  BY <1>16, <2>3, <2>4 DEF TakeOverUnanswered
<1>17. ASSUME NEW n \in Nodes, Crash(n) PROVE TermsOwned'
  <2>1. lease' = lease /\ term' = term
    BY <1>17 DEF Crash, Stop, Goto, Forget, disk
  <2>2. \A m \in Nodes : Claimed(m)' => Claimed(m)
    BY <1>17 DEF Crash, Stop, Goto, Forget, disk
  <2>3. \A m \in Nodes : Pending(m)' => Pending(m) /\ want'[m] = want[m]
    BY <1>17 DEF Crash, Stop, Goto, Forget, disk
  <2>4. RecordOK' /\ OneOwner' /\ TermsBelow'
    BY <2>1, <2>2, <2>3, QuietOwned
  <2>5. CallsValid'
    BY <1>17 DEF Crash, Stop, Goto, Forget, disk
  <2>6. LateValid'
    BY <1>17, <2>1, AbandonValid DEF Crash
  <2>7. LeadersClaimed'
    BY <1>17 DEF Crash, Stop, Goto, Forget, disk
  <2>. QED  BY <2>4, <2>5, <2>6, <2>7
<1>18. ASSUME NEW n \in Nodes, NEW m \in Nodes, Follow(n, m) PROVE TermsOwned'
  BY <1>18 DEF Follow, node
<1>19. ASSUME LandLate PROVE TermsOwned'
  <2>1. PICK r \in late : Put(r, None)
    BY <1>19 DEF LandLate
  <2>2. r.holder \in Nodes /\ r.term \in Nat /\ r = Rec(r.holder, r.term)
    OBVIOUS
  <2>3. UNCHANGED <<pc, req, want, term, role>> /\ UNCHANGED disk
    BY <1>19 DEF LandLate, node, disk
  <2>4. RecordOK' /\ OneOwner' /\ TermsBelow' /\ LateValid'
    <3>1. r.term > lease.term \/ lease = Rec(r.holder, r.term)
      BY <2>2
    <3>2. lease' = Rec(r.holder, r.term) /\ late' = {}
      BY <2>1, <2>2 DEF Put
    <3>3. \A m \in Nodes : Pending(m)' => Pending(m) /\ want'[m] = want[m]
      BY <2>3
    <3>. QED  BY <2>2, <2>3, <3>1, <3>2, <3>3, PutOwned
  <2>5. CallsValid' /\ LeadersClaimed'
    BY <2>1, <2>3 DEF Put
  <2>. QED  BY <2>4, <2>5
<1>20. ASSUME Tick PROVE TermsOwned'
  BY <1>20 DEF Tick, disk
<1>21. CASE UNCHANGED vars
  BY <1>21 DEF vars
<1>. QED
  BY <1>1, <1>2, <1>3, <1>4, <1>5, <1>6, <1>7, <1>8, <1>9, <1>10, <1>11,
     <1>12, <1>13, <1>14, <1>15, <1>16, <1>17, <1>18, <1>19, <1>20, <1>21
  DEF Next, Steps

\* From its first compare-and-swap on, every term has one owner.
THEOREM TermsAlwaysOwned == Spec => []TermsOwned
BY OwnedInit, OwnedNext, LeaseTypeCorrect, PTL DEF Spec

\* No two directories are ever claimed at one term, however requests are lost,
\* land late or are answered out of time, and however nodes crash and restart.
THEOREM TermsHaveOneWriter == Spec => []OneWriterPerTerm
<1>1. TypeOK /\ TermsOwned => OneWriterPerTerm
  <2>. SUFFICES ASSUME TypeOK, TermsOwned, NEW m \in Nodes, NEW n \in Nodes,
                       Claimed(m), Claimed(n), term[m] = term[n]
                PROVE  m = n
    BY DEF OneWriterPerTerm
  <2>1. term[n] \in 0 .. lease.term
    BY DEF TypeOK, TermsOwned, TermsBelow
  <2>2. Owns(m, term[n]) /\ Owns(n, term[n])
    BY DEF Owns
  <2>. QED  BY <2>1, <2>2 DEF TermsOwned, OneOwner
<1>. QED  BY <1>1, TermsAlwaysOwned, LeaseTypeCorrect, PTL

\* The record never goes back and changes hands only with a newer term.
THEOREM LeaseAlwaysAdvances == Spec => LeaseAdvances
<1>1. TypeOK /\ TermsOwned /\ [Next]_vars
        => [lease' = lease \/ lease'.term > lease.term]_lease
  <2>. SUFFICES ASSUME TypeOK, TermsOwned, [Next]_vars
                PROVE  lease' = lease \/ lease'.term > lease.term
    OBVIOUS
  <2>1. ASSUME NEW n \in Nodes, Land(n) PROVE lease' = lease \/ lease'.term > lease.term
    BY <2>1 DEF Land, Put, Rec, Calling, TypeOK, TermsOwned, CallsValid, Leading
  <2>2. ASSUME NEW n \in Nodes, TakeOver(n) \/ TakeOverUnanswered(n)
        PROVE  lease' = lease \/ lease'.term > lease.term
    BY <2>2 DEF TakeOver, TakeOverUnanswered, Put, Rec, NextTerm, TypeOK
  <2>3. ASSUME LandLate PROVE lease' = lease \/ lease'.term > lease.term
    BY <2>3 DEF LandLate, Put, TermsOwned, LateValid
  <2>4. CASE UNCHANGED vars
    BY <2>4 DEF vars
  <2>. QED
    BY <2>1, <2>2, <2>3, <2>4
    DEF Next, Steps, Start, BeginFree, BeginOwn, Resume, BeginOther, Ok, Claim, Exit,
        Conflict, Renew, Poll, OpenKernel, Fail, Crash, Follow, Tick
<1>. QED  BY <1>1, TermsAlwaysOwned, LeaseTypeCorrect, PTL DEF Spec, LeaseAdvances
-----------------------------------------------------------------------------
(* Only the holder writes, and stops in time *)

\* A third of the TTL: the renewer's sleep.
Third == TTL \div 3

\* The store answers at once and the first claim takes less than two thirds of the TTL.
Prompt == Timeout = 0 /\ ClaimMax < 2 * Third

\* n's CAS has landed, and n has not fenced itself, given up or stopped since.
Live(n) == \/ pc[n] \in {"claiming", "lead", "renewing", "exiting"}
           \/ Calling(n) /\ req[n] = "landed"

\* Ages at which a sleep of the renewer may begin: after a success or a claim, or after one
\* failure that was not overdue.
SleepAge(a) == a \in Nat /\ (a <= ClaimMax \/ (Third <= a /\ a <= Third + ClaimMax /\ a < 2 * Third))

\* The clock of a live node: no time passes during a request.
ClockInv ==
  \A n \in Nodes :
    /\ Calling(n) \/ pc[n] = "exiting" => t[n] = 0
    /\ pc[n] = "claiming" => age[n] = t[n] /\ t[n] <= ClaimMax
    /\ pc[n] = "lead" => t[n] <= Third /\ SleepAge(age[n] - t[n])
    /\ pc[n] \in {"renewing", "exiting"} => SleepAge(age[n] - Third)

\* A standby has seen the record unchanged for no longer than a live node's last success.
SeenInv ==
  \A n, m \in Nodes :
    pc[n] = "standby" /\ known[n] /\ Live(m) =>
      age[n] <= IF Calling(m) /\ req[m] = "landed" THEN 0 ELSE age[m]

\* Whoever is live holds the record, and nothing that may still land takes it away.
HoldInv ==
  /\ \A n \in Nodes : Live(n) => lease.holder = n
  /\ \A n \in Nodes : known[n] /\ pc[n] = "winning" /\ req[n] = "sent" => lease = NoLease
  /\ \A r \in late : r = lease \/ \A n \in Nodes : ~ Live(n)

TimeInv == ClockInv /\ SeenInv /\ HoldInv

LEMMA Thirds == /\ Third \in Nat /\ Third >= 1 /\ TTL = 3 * Third
                /\ TTL \div 3 = Third /\ (2 * TTL) \div 3 = 2 * Third
BY LeaseAssumption DEF Third

LEMMA ClockNext ==
  ASSUME Prompt, TypeOK, ClockInv, [Next]_vars
  PROVE  ClockInv'
<1>. USE Thirds, LeaseAssumption
     DEF Prompt, TypeOK, ClockInv, Calling, SleepAge
<1>1. ASSUME NEW n \in Nodes, Start(n) PROVE ClockInv'
  BY <1>1 DEF Start, Goto
<1>2. ASSUME NEW n \in Nodes, BeginFree(n) PROVE ClockInv'
  BY <1>2 DEF BeginFree, Send, Goto
<1>3. ASSUME NEW n \in Nodes, BeginOwn(n) PROVE ClockInv'
  BY <1>3 DEF BeginOwn
<1>4. ASSUME NEW n \in Nodes, Resume(n) PROVE ClockInv'
  BY <1>4 DEF Resume, Send, Goto
<1>5. ASSUME NEW n \in Nodes, BeginOther(n) PROVE ClockInv'
  BY <1>5 DEF BeginOther, Goto, Forget
<1>6. ASSUME NEW n \in Nodes, Land(n) PROVE ClockInv'
  BY <1>6 DEF Land, Put
<1>7. ASSUME NEW n \in Nodes, Ok(n) PROVE ClockInv'
  BY <1>7 DEF Ok, Goto
<1>8. ASSUME NEW n \in Nodes, Claim(n) PROVE ClockInv'
  BY <1>8 DEF Claim, Goto
<1>9. ASSUME NEW n \in Nodes, Exit(n) PROVE ClockInv'
  BY <1>9 DEF Exit, Stop, Goto, Forget
<1>10. ASSUME NEW n \in Nodes, Conflict(n) PROVE ClockInv'
  BY <1>10 DEF Conflict, Fence, Stop, Again, Goto
<1>11. ASSUME NEW n \in Nodes, Renew(n) PROVE ClockInv'
  BY <1>11 DEF Renew, Send, Goto
<1>12. ASSUME NEW n \in Nodes, Poll(n) PROVE ClockInv'
  BY <1>12 DEF Poll
<1>13. ASSUME NEW n \in Nodes, TakeOver(n) PROVE ClockInv'
  BY <1>13 DEF TakeOver, Put, Goto, Stale
<1>14. ASSUME NEW n \in Nodes, OpenKernel(n) PROVE ClockInv'
  BY <1>14 DEF OpenKernel
<1>15. ASSUME NEW n \in Nodes, Fail(n) PROVE ClockInv'
  BY <1>15 DEF Fail, Overdue, Fence, Stop, Again, Goto
<1>16. ASSUME NEW n \in Nodes, TakeOverUnanswered(n) PROVE ClockInv'
  BY <1>16 DEF TakeOverUnanswered, Put, Stale, node
<1>17. ASSUME NEW n \in Nodes, Crash(n) PROVE ClockInv'
  BY <1>17 DEF Crash, Stop, Goto, Forget
<1>18. ASSUME NEW n \in Nodes, NEW m \in Nodes, Follow(n, m) PROVE ClockInv'
  BY <1>18 DEF Follow, node
<1>19. ASSUME LandLate PROVE ClockInv'
  BY <1>19 DEF LandLate, Put, node
<1>20. ASSUME Tick PROVE ClockInv'
  <2>1. \A n \in Nodes : t[n] < Limit(n) /\ pc' = pc
    BY <1>20 DEF Tick
  <2>2. \A n \in Nodes : ~ Calling(n) /\ pc[n] # "exiting"
    BY <2>1 DEF Limit
  <2>3. \A n \in Nodes : /\ pc[n] = "claiming" => t[n] < ClaimMax
                         /\ pc[n] = "lead" => t[n] < Third
    BY <2>1 DEF Limit
  <2>4. \A n \in Nodes : pc[n] \in {"claiming", "lead"} =>
          t'[n] = t[n] + 1 /\ age'[n] = age[n] + 1
    BY <1>20, <2>3 DEF Tick, MaxAge, Stale
  <2>5. ASSUME NEW n \in Nodes, pc[n] = "lead" PROVE age'[n] - t'[n] = age[n] - t[n]
    BY <2>4, <2>5
  <2>. QED  BY <2>1, <2>2, <2>3, <2>4, <2>5
<1>21. CASE UNCHANGED vars
  BY <1>21 DEF vars
<1>. QED
  BY <1>1, <1>2, <1>3, <1>4, <1>5, <1>6, <1>7, <1>8, <1>9, <1>10, <1>11,
     <1>12, <1>13, <1>14, <1>15, <1>16, <1>17, <1>18, <1>19, <1>20, <1>21 DEF Next, Steps

LEMMA SeenNext ==
  ASSUME Prompt, TypeOK, ClockInv, SeenInv, [Next]_vars
  PROVE  SeenInv'
<1>. USE Thirds, LeaseAssumption
     DEF Prompt, TypeOK, ClockInv, SeenInv, Calling, SleepAge, Live
<1>1. ASSUME NEW n \in Nodes, Start(n) PROVE SeenInv'
  BY <1>1 DEF Start, Goto
<1>2. ASSUME NEW n \in Nodes, BeginFree(n) PROVE SeenInv'
  BY <1>2 DEF BeginFree, Send, Goto
<1>3. ASSUME NEW n \in Nodes, BeginOwn(n) PROVE SeenInv'
  BY <1>3 DEF BeginOwn
<1>4. ASSUME NEW n \in Nodes, Resume(n) PROVE SeenInv'
  BY <1>4 DEF Resume, Send, Goto
<1>5. ASSUME NEW n \in Nodes, BeginOther(n) PROVE SeenInv'
  BY <1>5 DEF BeginOther, Goto, Forget
<1>6. ASSUME NEW n \in Nodes, Land(n) PROVE SeenInv'
  BY <1>6 DEF Land, Put
<1>7. ASSUME NEW n \in Nodes, Ok(n) PROVE SeenInv'
  BY <1>7 DEF Ok, Goto
<1>8. ASSUME NEW n \in Nodes, Claim(n) PROVE SeenInv'
  BY <1>8 DEF Claim, Goto
<1>9. ASSUME NEW n \in Nodes, Exit(n) PROVE SeenInv'
  BY <1>9 DEF Exit, Stop, Goto, Forget
<1>10. ASSUME NEW n \in Nodes, Conflict(n) PROVE SeenInv'
  BY <1>10 DEF Conflict, Fence, Stop, Again, Goto
<1>11. ASSUME NEW n \in Nodes, Renew(n) PROVE SeenInv'
  BY <1>11 DEF Renew, Send, Goto
<1>12. ASSUME NEW n \in Nodes, Poll(n) PROVE SeenInv'
  BY <1>12 DEF Poll
<1>13. ASSUME NEW n \in Nodes, TakeOver(n) PROVE SeenInv'
  BY <1>13 DEF TakeOver, Put, Goto, Stale
<1>14. ASSUME NEW n \in Nodes, OpenKernel(n) PROVE SeenInv'
  BY <1>14 DEF OpenKernel
<1>15. ASSUME NEW n \in Nodes, Fail(n) PROVE SeenInv'
  BY <1>15 DEF Fail, Overdue, Fence, Stop, Again, Goto
<1>16. ASSUME NEW n \in Nodes, TakeOverUnanswered(n) PROVE SeenInv'
  BY <1>16 DEF TakeOverUnanswered, Put, Stale, node
<1>17. ASSUME NEW n \in Nodes, Crash(n) PROVE SeenInv'
  BY <1>17 DEF Crash, Stop, Goto, Forget
<1>18. ASSUME NEW n \in Nodes, NEW m \in Nodes, Follow(n, m) PROVE SeenInv'
  BY <1>18 DEF Follow, node
<1>19. ASSUME LandLate PROVE SeenInv'
  BY <1>19 DEF LandLate, Put, node
<1>20. ASSUME Tick PROVE SeenInv'
  <2>1. \A n \in Nodes : ~ Calling(n) /\ pc[n] # "exiting"
    BY <1>20 DEF Tick, Limit
  <2>2. \A m \in Nodes : Live(m) => age'[m] = age[m] + 1
    BY <1>20, <2>1 DEF Tick, MaxAge, Stale, Live
  <2>3. \A n \in Nodes : age'[n] <= age[n] + 1
    BY <1>20 DEF Tick
  <2>4. pc' = pc /\ known' = known /\ req' = req
    BY <1>20 DEF Tick
  <2>5. \A m \in Nodes : Live(m)' => Live(m)
    BY <2>4 DEF Live
  <2>6. ASSUME NEW n \in Nodes, NEW m \in Nodes, pc[n] = "standby", known[n], Live(m)
        PROVE  age'[n] <= age'[m]
    <3>1. age[n] <= age[m] /\ age[n] \in Nat /\ age[m] \in Nat /\ age'[n] \in Nat
      BY <1>20, <2>1, <2>6 DEF Tick
    <3>. QED  BY <2>2, <2>3, <2>6, <3>1
  <2>7. \A m \in Nodes : ~ Calling(m)'
    BY <2>1, <2>4
  <2>. QED  BY ONLY <2>4, <2>5, <2>6, <2>7 DEF SeenInv
<1>21. CASE UNCHANGED vars
  BY <1>21 DEF vars
<1>. QED
  BY <1>1, <1>2, <1>3, <1>4, <1>5, <1>6, <1>7, <1>8, <1>9, <1>10, <1>11,
     <1>12, <1>13, <1>14, <1>15, <1>16, <1>17, <1>18, <1>19, <1>20, <1>21 DEF Next, Steps

\* A live node's last success is less than a TTL old.
LEMMA LiveAge ==
  ASSUME Prompt, TypeOK, ClockInv, NEW m \in Nodes, Live(m), ~ (Calling(m) /\ req[m] = "landed")
  PROVE  age[m] < TTL /\ age[m] <= 2 * Third + ClaimMax
BY Thirds, LeaseAssumption DEF Prompt, TypeOK, ClockInv, Live, Calling, SleepAge

\* So a standby that may take over finds nobody alive.
LEMMA StaleAlone ==
  ASSUME Prompt, TypeOK, ClockInv, SeenInv, NEW n \in Nodes, Stale(n)
  PROVE  \A m \in Nodes : ~ Live(m)
<1>1. age[n] >= TTL /\ TTL > 0 /\ age[n] \in Nat /\ TTL \in Nat
  BY LeaseAssumption DEF Stale, TypeOK
<1>2. ASSUME NEW m \in Nodes, Live(m) PROVE FALSE
  <2>1. CASE Calling(m) /\ req[m] = "landed"
    BY <1>1, <1>2, <2>1 DEF SeenInv, Stale
  <2>2. CASE ~ (Calling(m) /\ req[m] = "landed")
    <3>1. age[m] < TTL /\ age[m] \in Nat
      BY <1>2, <2>2, LiveAge DEF TypeOK
    <3>2. age[n] <= age[m]
      BY <1>2, <2>2 DEF SeenInv, Stale
    <3>. QED  BY <1>1, <3>1, <3>2
  <2>. QED  BY <2>1, <2>2
<1>. QED  BY <1>2

\* A request that can still succeed renews the record, or finds nobody alive.
LEMMA SentHolds ==
  ASSUME TypeOK, TermsOwned, HoldInv, NEW n \in Nodes, Calling(n), req[n] = "sent", known[n]
  PROVE  Rec(n, want[n]) = lease \/ \A m \in Nodes : ~ Live(m)
BY LeaseAssumption DEF TermsOwned, CallsValid, HoldInv, Calling, Leading, NoLease

LEMMA HoldNext ==
  ASSUME Prompt, TypeOK, TermsOwned, ClockInv, SeenInv, HoldInv, [Next]_vars
  PROVE  HoldInv'
<1>. USE Thirds, LeaseAssumption
     DEF TypeOK, HoldInv, Calling, Live
<1>1. ASSUME NEW n \in Nodes, Start(n) PROVE HoldInv'
  BY <1>1 DEF Start, Goto
<1>2. ASSUME NEW n \in Nodes, BeginFree(n) PROVE HoldInv'
  BY <1>2 DEF BeginFree, Send, Goto
<1>3. ASSUME NEW n \in Nodes, BeginOwn(n) PROVE HoldInv'
  BY <1>3 DEF BeginOwn
<1>4. ASSUME NEW n \in Nodes, Resume(n) PROVE HoldInv'
  BY <1>4 DEF Resume, Send, Goto
<1>5. ASSUME NEW n \in Nodes, BeginOther(n) PROVE HoldInv'
  BY <1>5 DEF BeginOther, Goto, Forget
<1>6. ASSUME NEW n \in Nodes, Land(n) PROVE HoldInv'
  <2>1. \A m \in Nodes : Live(m) => m = n
    BY <1>6 DEF Land, TermsOwned, CallsValid, Leading, Rec, NoLease
  <2>2. \A m \in Nodes : Live(m)' => m = n
    BY <1>6, <2>1 DEF Land, Live
  <2>. QED  BY <1>6, <2>2 DEF Land, Put, Rec
<1>7. ASSUME NEW n \in Nodes, Ok(n) PROVE HoldInv'
  BY <1>7 DEF Ok, Goto
<1>8. ASSUME NEW n \in Nodes, Claim(n) PROVE HoldInv'
  BY <1>8 DEF Claim, Goto
<1>9. ASSUME NEW n \in Nodes, Exit(n) PROVE HoldInv'
  BY <1>9 DEF Exit, Stop, Goto, Forget
<1>10. ASSUME NEW n \in Nodes, Conflict(n) PROVE HoldInv'
  BY <1>10 DEF Conflict, Fence, Stop, Again, Goto
<1>11. ASSUME NEW n \in Nodes, Renew(n) PROVE HoldInv'
  BY <1>11 DEF Renew, Send, Goto
<1>12. ASSUME NEW n \in Nodes, Poll(n) PROVE HoldInv'
  BY <1>12 DEF Poll
<1>13. ASSUME NEW n \in Nodes, TakeOver(n) PROVE HoldInv'
  <2>1. \A m \in Nodes : ~ Live(m)
    BY <1>13, StaleAlone DEF TakeOver, TimeInv
  <2>2. \A m \in Nodes : ~ Live(m)'
    BY <1>13, <2>1 DEF TakeOver, Goto, Live
  <2>. QED  BY <1>13, <2>2 DEF TakeOver, Put
<1>14. ASSUME NEW n \in Nodes, OpenKernel(n) PROVE HoldInv'
  BY <1>14 DEF OpenKernel
<1>15. ASSUME NEW n \in Nodes, Fail(n) PROVE HoldInv'
  <2>1. late' \in {late, late \cup {Rec(n, want[n])}} /\ (late' # late => req[n] = "sent" /\ known[n])
    BY <1>15 DEF Fail, Abandon
  <2>2. req[n] = "sent" /\ known[n] => Rec(n, want[n]) = lease \/ \A m \in Nodes : ~ Live(m)
    BY <1>15, SentHolds DEF Fail
  <2>3. lease' = lease /\ \A m \in Nodes : Live(m)' => Live(m)
    BY <1>15 DEF Fail, Fence, Stop, Again, Goto, Live
  <2>4. \A m \in Nodes : known'[m] /\ pc'[m] = "winning" /\ req'[m] = "sent" => lease = NoLease
    BY <1>15 DEF Fail, Fence, Stop, Again, Goto
  <2>. QED  BY <2>1, <2>2, <2>3, <2>4
<1>16. ASSUME NEW n \in Nodes, TakeOverUnanswered(n) PROVE HoldInv'
  <2>1. \A m \in Nodes : ~ Live(m)
    BY <1>16, StaleAlone DEF TakeOverUnanswered, TimeInv
  <2>2. \A m \in Nodes : ~ Live(m)'
    BY <1>16, <2>1 DEF TakeOverUnanswered, node, Live
  <2>3. \A m \in Nodes : known'[m] /\ pc'[m] = "winning" /\ req'[m] = "sent" => lease' = NoLease
    BY <1>16 DEF TakeOverUnanswered, Put, node
  <2>. QED  BY <2>2, <2>3
<1>17. ASSUME NEW n \in Nodes, Crash(n) PROVE HoldInv'
  <2>1. late' \in {late, late \cup {Rec(n, want[n])}} /\ (late' # late => req[n] = "sent" /\ known[n])
    BY <1>17 DEF Crash, Abandon
  <2>2. req[n] = "sent" /\ known[n] => Rec(n, want[n]) = lease \/ \A m \in Nodes : ~ Live(m)
    BY SentHolds DEF TermsOwned, CallsValid
  <2>3. lease' = lease /\ \A m \in Nodes : Live(m)' => Live(m)
    BY <1>17 DEF Crash, Stop, Goto, Live
  <2>4. \A m \in Nodes : known'[m] /\ pc'[m] = "winning" /\ req'[m] = "sent" => lease = NoLease
    BY <1>17 DEF Crash, Stop, Goto, Forget
  <2>. QED  BY <2>1, <2>2, <2>3, <2>4
<1>18. ASSUME NEW n \in Nodes, NEW m \in Nodes, Follow(n, m) PROVE HoldInv'
  BY <1>18 DEF Follow, node
<1>19. ASSUME LandLate PROVE HoldInv'
  <2>1. PICK r \in late : lease' = r /\ late' = {} /\ known' = [m \in Nodes |-> m = None]
    BY <1>19 DEF LandLate, Put
  <2>2. \A m \in Nodes : ~ known'[m]
    BY <2>1
  <2>3. pc' = pc /\ req' = req /\ \A m \in Nodes : Live(m)' <=> Live(m)
    BY <1>19 DEF LandLate, node, Live
  <2>4. \A m \in Nodes : Live(m) => lease' = lease
    BY <2>1
  <2>. QED  BY <2>1, <2>2, <2>3, <2>4
<1>20. ASSUME Tick PROVE HoldInv'
  BY <1>20 DEF Tick, Limit
<1>21. CASE UNCHANGED vars
  BY <1>21 DEF vars
<1>. QED
  BY <1>1, <1>2, <1>3, <1>4, <1>5, <1>6, <1>7, <1>8, <1>9, <1>10, <1>11,
     <1>12, <1>13, <1>14, <1>15, <1>16, <1>17, <1>18, <1>19, <1>20, <1>21 DEF Next, Steps

LEMMA TimeInit == Init => TimeInv
BY LeaseAssumption
DEF Init, TimeInv, ClockInv, SeenInv, HoldInv, Live, Calling, NoLease

LEMMA TimeNext ==
  ASSUME Prompt
  PROVE  TypeOK /\ TermsOwned /\ TimeInv /\ [Next]_vars => TimeInv'
BY ClockNext, SeenNext, HoldNext DEF TimeInv

\* With a store that answers at once (the file store) and a first claim within two thirds of
\* the TTL, whoever can commit a write holds the record, and writes have stopped a margin before
\* anyone may take over, whatever requests fail or land late and whoever crashes (ha.rs: renew,
\* fence, stand_by).
THEOREM HolderAloneWrites ==
  ASSUME Prompt
  PROVE  Spec => []HolderWrites
<1>1. TypeOK /\ TimeInv => HolderWrites
  <2>. SUFFICES ASSUME TypeOK, TimeInv PROVE WritesHoldLease /\ MarginKept
    BY DEF HolderWrites
  <2>1. \A m \in Nodes : Writes(m) => Live(m)
    BY DEF Writes, Live, Leading
  <2>2. WritesHoldLease
    BY <2>1 DEF WritesHoldLease, TimeInv, HoldInv
  <2>3. ASSUME NEW n \in Nodes, NEW m \in Nodes, pc[n] = "standby", known[n], Writes(m)
        PROVE  ~ (age[n] > (2 * TTL) \div 3 + ClaimMax)
    <3>1. CASE Calling(m) /\ req[m] = "landed"
      BY <2>1, <2>3, <3>1, Thirds, LeaseAssumption DEF TypeOK, TimeInv, SeenInv
    <3>2. CASE ~ (Calling(m) /\ req[m] = "landed")
      <4>1. age[m] <= 2 * Third + ClaimMax
        BY <2>1, <2>3, <3>2, LiveAge DEF TimeInv
      <4>2. age[n] <= age[m]
        BY <2>1, <2>3, <3>2 DEF TimeInv, SeenInv
      <4>. QED  BY <4>1, <4>2, Thirds, LeaseAssumption DEF TypeOK
    <3>. QED  BY <3>1, <3>2
  <2>. QED  BY <2>2, <2>3 DEF MarginKept
<1>. QED  BY <1>1, TimeInit, TimeNext, TermsAlwaysOwned, LeaseTypeCorrect, PTL DEF Spec
=============================================================================
