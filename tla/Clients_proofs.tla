---------------------------- MODULE Clients_proofs ----------------------------
(***************************************************************************)
(* Theorems about what callers hold, tokens and claims, and about the       *)
(* threads that work beside them: the compactor's signal, class-B jobs, the  *)
(* consolidation job, the index maintainer and live queries.                 *)
(***************************************************************************)
EXTENDS Clients, CompactorSignal, Jobs, Consolidation, IndexMaintainer,
        Subscriptions, FiniteSetTheorems, WellFoundedInduction, TLAPS

-----------------------------------------------------------------------------
(* Claims *)

\* The end of every lease fits the 64 signed bits it is stored in.
LeasesFit == \A l \in Leases : MaxClaimTime + l <= SignedMax

Claim == [holder : Agents \cup {NoAgent}, until : 0 .. SignedMax]

ClaimTypes ==
    /\ wall \in 0 .. MaxClaimTime /\ invalid \subseteq Tasks
    /\ claim \in [Tasks -> Claim] /\ belief \in [Agents -> [Tasks -> Nat]]
    /\ handoffs.recorded \subseteq handoffs.moved

\* Inductive: what an agent was told is what the task carries.
ClaimInv == ClaimTypes /\ BelievedHeld

LEMMA ClaimInvInit == ClaimsInit => ClaimInv
BY ClaimsAssumption DEF ClaimsInit, ClaimInv, ClaimTypes, Claim, Unclaimed, BelievedHeld

LEMMA ClaimInvNext == ASSUME LeasesFit, ClaimInv, [ClaimsNext]_claimVars PROVE ClaimInv'
<1>0. ClaimTypes /\ BelievedHeld /\ SignedMax \in Nat /\ MaxClaimTime \in Nat /\ wall \in Nat
  BY ClaimsAssumption DEF ClaimInv, ClaimTypes
<1>1. ASSUME NEW t \in Tasks, NEW a \in Agents, NEW l \in Leases, ClaimTask(a, t, l) PROVE ClaimInv'
  <2>. DEFINE c == [holder |-> a, until |-> wall + l]
  <2>1. wall + l \in 0 .. SignedMax /\ wall + l \in Nat
    BY <1>0, ClaimsAssumption DEF LeasesFit, ClaimTypes
  <2>2. /\ claim' = [claim EXCEPT ![t] = c] /\ c \in Claim
        /\ belief' = [belief EXCEPT ![a] = [belief[a] EXCEPT ![t] = wall + l]]
        /\ UNCHANGED <<wall, invalid, handoffs>>
    BY <1>1, <2>1 DEF ClaimTask, StoredUntil, Believes, Claim
  <2>. HIDE DEF c
  <2>3. ClaimTypes'
    BY <1>0, <2>1, <2>2 DEF ClaimTypes
  <2>4. ASSUME NEW u \in Tasks, NEW b \in Agents, belief'[b][u] > wall'
        PROVE  claim'[u] = [holder |-> b, until |-> belief'[b][u]]
    <3>1. CASE u = t /\ b = a
      BY <1>0, <2>2, <3>1 DEF ClaimTypes, c
    <3>2. CASE u = t /\ b # a
      <4>1. belief[b][t] > wall /\ claim[t] = [holder |-> b, until |-> belief[b][t]]
        BY <1>0, <2>2, <2>4, <3>2 DEF ClaimTypes, BelievedHeld
      <4>. QED  BY <1>1, <3>2, <4>1 DEF ClaimTask, ClaimConflict
    <3>3. CASE u # t
      BY <1>0, <2>2, <2>4, <3>3 DEF ClaimTypes, BelievedHeld
    <3>. QED  BY <3>1, <3>2, <3>3
  <2>. QED  BY <2>3, <2>4 DEF ClaimInv, BelievedHeld
<1>2. ASSUME NEW t \in Tasks, NEW a \in Agents, ReleaseTask(a, t) PROVE ClaimInv'
  <2>2. /\ claim' = [claim EXCEPT ![t] = Unclaimed] /\ Unclaimed \in Claim /\ claim[t].holder = a
        /\ belief' = [belief EXCEPT ![a] = [belief[a] EXCEPT ![t] = 0]]
        /\ UNCHANGED <<wall, invalid, handoffs>>
    BY <1>0, <1>2 DEF ReleaseTask, Believes, Claim, Unclaimed
  <2>3. ClaimTypes'
    BY <1>0, <2>2 DEF ClaimTypes
  <2>4. ASSUME NEW u \in Tasks, NEW b \in Agents, belief'[b][u] > wall'
        PROVE  claim'[u] = [holder |-> b, until |-> belief'[b][u]]
    <3>1. CASE u = t
      <4>1. b # a
        BY <1>0, <2>2, <2>4, <3>1 DEF ClaimTypes
      <4>2. belief[b][t] > wall /\ claim[t] = [holder |-> b, until |-> belief[b][t]]
        BY <1>0, <2>2, <2>4, <3>1, <4>1 DEF ClaimTypes, BelievedHeld
      <4>. QED  BY <2>2, <4>1, <4>2
    <3>3. CASE u # t
      BY <1>0, <2>2, <2>4, <3>3 DEF ClaimTypes, BelievedHeld
    <3>. QED  BY <3>1, <3>3
  <2>. QED  BY <2>3, <2>4 DEF ClaimInv, BelievedHeld
<1>3. ASSUME NEW t \in Tasks, NEW a \in Agents, NEW b \in Agents, NEW r \in BOOLEAN,
             HandoffTask(a, b, t, r)
      PROVE  ClaimInv'
  <2>. DEFINE c == [holder |-> b, until |-> claim[t].until]
              given == [belief EXCEPT ![a] = [belief[a] EXCEPT ![t] = 0]]
  <2>1. claim[t] \in Claim /\ claim[t].until \in 0 .. SignedMax /\ claim[t].holder = a
    BY <1>0, <1>3 DEF ClaimTypes, Claim, HandoffTask
  <2>2. c \in Claim /\ claim' = [claim EXCEPT ![t] = c]
    <3>1. claim' = [claim EXCEPT ![t] = [claim[t] EXCEPT !.holder = b]]
      BY <1>3 DEF HandoffTask
    <3>2. [claim[t] EXCEPT !.holder = b] = c
      BY <2>1 DEF Claim
    <3>. QED  BY <2>1, <3>1, <3>2 DEF Claim
  <2>3. /\ belief' = [given EXCEPT ![b] = [given[b] EXCEPT ![t] = claim[t].until]]
        /\ UNCHANGED <<wall, invalid>>
    BY <1>3 DEF HandoffTask, Believes
  <2>4. given \in [Agents -> [Tasks -> Nat]]
        /\ \A x \in Agents, u \in Tasks : given[x][u] = IF x = a /\ u = t THEN 0 ELSE belief[x][u]
    BY <1>0 DEF ClaimTypes
  <2>. HIDE DEF given, c
  <2>5. /\ belief' \in [Agents -> [Tasks -> Nat]]
        /\ \A x \in Agents, u \in Tasks :
              belief'[x][u] = IF x = b /\ u = t THEN claim[t].until ELSE given[x][u]
    BY <1>0, <2>1, <2>3, <2>4
  <2>6. handoffs'.recorded \subseteq handoffs'.moved
    BY <1>0, <1>3 DEF HandoffTask, ClaimTypes
  <2>7. ClaimTypes'
    BY <1>0, <2>2, <2>3, <2>5, <2>6 DEF ClaimTypes
  <2>8. ASSUME NEW u \in Tasks, NEW x \in Agents, belief'[x][u] > wall'
        PROVE  claim'[u] = [holder |-> x, until |-> belief'[x][u]]
    <3>1. CASE u = t /\ x = b
      BY <1>0, <2>2, <2>5, <3>1 DEF ClaimTypes, c
    <3>2. CASE u = t /\ x # b
      <4>1. x # a /\ belief[x][t] > wall
        BY <1>0, <2>3, <2>4, <2>5, <2>8, <3>2
      <4>2. claim[t] = [holder |-> x, until |-> belief[x][t]]
        BY <1>0, <4>1 DEF BelievedHeld
      <4>. QED  BY <2>1, <4>1, <4>2
    <3>3. CASE u # t
      <4>1. belief'[x][u] = belief[x][u] /\ claim'[u] = claim[u]
        BY <1>0, <2>2, <2>4, <2>5, <3>3 DEF ClaimTypes
      <4>. QED  BY <1>0, <2>3, <2>8, <4>1 DEF BelievedHeld
    <3>. QED  BY <3>1, <3>2, <3>3
  <2>. QED  BY <2>7, <2>8 DEF ClaimInv, BelievedHeld
<1>4. ASSUME NEW t \in Tasks, RememberTask(t) PROVE ClaimInv'
  <2>1. UNCHANGED <<claim, wall, belief, invalid, handoffs>>
    BY <1>0, <1>4 DEF RememberTask, Carried, ClaimTypes
  <2>. QED  BY <1>0, <2>1 DEF ClaimInv, ClaimTypes, BelievedHeld
<1>5. ASSUME NEW t \in Tasks, InvalidateTask(t) PROVE ClaimInv'
  BY <1>0, <1>5 DEF InvalidateTask, ClaimInv, ClaimTypes, BelievedHeld
<1>6. ASSUME WallTick PROVE ClaimInv'
  <2>1. ClaimTypes'
    BY <1>0, <1>6 DEF WallTick, ClaimTypes
  <2>2. \A t \in Tasks, a \in Agents : belief[a][t] > wall + 1 => belief[a][t] > wall
    BY <1>0 DEF ClaimTypes
  <2>3. BelievedHeld'
    BY <1>0, <1>6, <2>2 DEF WallTick, BelievedHeld
  <2>. QED  BY <2>1, <2>3 DEF ClaimInv
<1>7. ASSUME UNCHANGED claimVars PROVE ClaimInv'
  BY <1>0, <1>7 DEF claimVars, ClaimInv, ClaimTypes, BelievedHeld
<1>. QED  BY <1>1, <1>2, <1>3, <1>4, <1>5, <1>6, <1>7 DEF ClaimsNext

LEMMA ClaimInvSafe == ClaimInv => ClaimsSafe
<1>. SUFFICES ASSUME ClaimInv PROVE ClaimsSafe
  OBVIOUS
<1>1. ClaimsTypeOK
  BY ClaimsAssumption DEF ClaimInv, ClaimTypes, Claim, ClaimsTypeOK
<1>2. OneClaimant
  <2>1. SUFFICES ASSUME NEW t \in Tasks, NEW a \in Agents, NEW b \in Agents,
                        belief[a][t] > wall, belief[b][t] > wall
                 PROVE  a = b
    BY DEF OneClaimant
  <2>2. claim[t] = [holder |-> a, until |-> belief[a][t]] /\ claim[t] = [holder |-> b, until |-> belief[b][t]]
    BY <2>1 DEF ClaimInv, BelievedHeld
  <2>. QED  BY <2>2
<1>. QED  BY <1>1, <1>2 DEF ClaimInv, ClaimsSafe

\* Whatever agents claim, renew, release and hand over, and whoever updates the tasks through
\* remember meanwhile (ops.rs), a lease an agent was told of is the one the task carries until it
\* ends, and no two agents hold one task; for leases whose end fits 64 signed bits, with a clock
\* that does not step back.
THEOREM ClaimsAreHeld == ASSUME LeasesFit PROVE ClaimsSpec => []ClaimsSafe
BY ClaimInvInit, ClaimInvNext, ClaimInvSafe, PTL DEF ClaimsSpec

-----------------------------------------------------------------------------
(* Grants *)

\* What a thread may be doing under the issuing lock.
Issue == [at : {"issue"}, sign : SignIns, old : SUBSET Grants]
Written == [at : {"written"}, sign : SignIns, new : Grants]
Entry == [sign : SignIns, expires : Nat]

GrTypes ==
    /\ grClock \in Nat /\ nextTok \in Nat \ {0}
    /\ flows \subseteq Entry /\ codes \subseteq Entry /\ callbacks \subseteq SignIns
    /\ store \subseteq Grants /\ standby \subseteq Grants
    /\ issuing \in [GrThreads -> {Idle} \cup Issue \cup Written]
    /\ codesOf \in [SignIns -> {0, 1}] /\ held \in [SignIns -> {NoGrant} \cup Grants]

\* A sign-in is on its way to its code in one place at most, and has its code once.
StageInv ==
    /\ \A f \in flows : f.sign \in begun /\ codesOf[f.sign] = 0 /\ f.sign \notin callbacks
    /\ \A f, h \in flows : f.sign = h.sign => f = h
    /\ \A s \in callbacks : s \in begun /\ codesOf[s] = 0
    /\ \A c \in codes : c.sign \in begun /\ codesOf[c.sign] = 1
    /\ \A c, d \in codes : c.sign = d.sign => c = d
    /\ \A s \in SignIns \ begun : codesOf[s] = 0

\* No token of s is in a store or about to be.
Tokenless(s) ==
    /\ \A g \in store \cup standby : g.sign # s
    /\ \A th \in GrThreads : issuing[th].at # "idle" => issuing[th].sign # s

\* A sign-in has no token before its code is taken.
CodeInv ==
    /\ \A s \in SignIns : codesOf[s] = 0 => Tokenless(s)
    /\ \A c \in codes : Tokenless(c.sign)

\* One thread at a time issues, and what it replaces is all there is to replace.
LockInv ==
    /\ \A th, u \in GrThreads : issuing[th].at # "idle" /\ issuing[u].at # "idle" => th = u
    /\ \A th \in GrThreads : issuing[th].at = "issue" =>
          /\ \A g \in store : g.kind = "refresh" /\ g.sign = issuing[th].sign => g \in issuing[th].old
          /\ \A g \in issuing[th].old : g.sign = issuing[th].sign
    /\ \A th \in GrThreads : issuing[th].at = "written" =>
          issuing[th].new \in store /\ issuing[th].new.sign = issuing[th].sign
          /\ issuing[th].new.kind = "refresh"

\* One refresh token for each sign-in.
Single(S) == \A g, h \in S : g.kind = "refresh" /\ h.kind = "refresh" /\ g.sign = h.sign => g = h

IsWritten(s) == \E th \in GrThreads : issuing[th].at = "written" /\ issuing[th].sign = s

\* With a commit gate, the token a client was answered is on both nodes until a rotation of it
\* is written.
HeldInv ==
    \A s \in SignIns : held[s] # NoGrant =>
        /\ held[s].sign = s
        /\ Gated /\ s \notin unanswered /\ held[s].expires > grClock =>
              IsWritten(s) \/ (held[s] \in store /\ held[s] \in standby)

GrInv == GrTypes /\ StageInv /\ CodeInv /\ LockInv /\ Single(store) /\ Single(standby) /\ HeldInv

LEMMA Shapes ==
  \A x \in {Idle} \cup Issue \cup Written :
      /\ x = Idle <=> x.at = "idle"
      /\ x.at = "issue" <=> x \in Issue
      /\ x.at = "written" <=> x \in Written
BY DEF Idle, Issue, Written

LEMMA GrInvInit == GrInit => GrInv
<1>. SUFFICES ASSUME GrInit PROVE GrInv
  OBVIOUS
<1>. USE DEF GrInit
<1>1. GrTypes
  BY DEF GrTypes
<1>2. StageInv
  BY DEF StageInv
<1>3. CodeInv /\ LockInv
  BY DEF CodeInv, LockInv, Tokenless, Idle
<1>4. Single(store) /\ Single(standby) /\ HeldInv
  BY DEF Single, HeldInv
<1>. QED  BY <1>1, <1>2, <1>3, <1>4 DEF GrInv

\* A step that touches no token keeps what is said of tokens.
LEMMA GrSame ==
  ASSUME GrInv, UNCHANGED <<grClock, store, standby, issuing, held, unanswered>>
  PROVE  /\ LockInv' /\ Single(store)' /\ Single(standby)' /\ HeldInv'
         /\ \A s \in SignIns : Tokenless(s)' <=> Tokenless(s)
<1>1. LockInv'
  BY DEF GrInv, LockInv
<1>2. Single(store)' /\ Single(standby)'
  BY DEF GrInv, Single
<1>3. HeldInv'
  BY DEF GrInv, HeldInv, IsWritten
<1>4. \A s \in SignIns : Tokenless(s)' <=> Tokenless(s)
  BY DEF Tokenless
<1>. QED  BY <1>1, <1>2, <1>3, <1>4

\* A sign-in is given its code.
LEMMA GrIssueCode ==
  ASSUME GrInv, NEW s \in SignIns, IssueCode(s), codesOf[s] = 0, begun' = begun \cup {s},
         flows' = flows, \A f \in flows : f.sign # s, callbacks' = callbacks \ {s},
         UNCHANGED <<grClock, store, standby, issuing, held, unanswered, nextTok>>
  PROVE  GrInv'
<1>. DEFINE c == [sign |-> s, expires |-> grClock + CodeTtl]
<1>0. GrTypes /\ StageInv /\ CodeInv
  BY DEF GrInv
<1>1. c \in Entry /\ c.sign = s
  BY <1>0, GrantsAssumption DEF Entry, GrTypes
<1>2. codes' \subseteq codes \cup {c} /\ codesOf' = [codesOf EXCEPT ![s] = 1]
  BY <1>0 DEF IssueCode, CodesAfter, Unexpired, GrTypes
<1>. HIDE DEF c
<1>3. GrTypes'
  BY <1>0, <1>1, <1>2 DEF GrTypes
<1>4. \A x \in codes : x.sign # s
  BY <1>0 DEF StageInv, GrTypes
<1>5. StageInv'
  BY <1>0, <1>1, <1>2, <1>4 DEF StageInv, GrTypes, Entry
<1>6. CodeInv'
  <2>1. \A x \in SignIns : Tokenless(x)' <=> Tokenless(x)
    BY GrSame
  <2>2. Tokenless(s)
    BY <1>0 DEF CodeInv
  <2>3. \A x \in codes : x.sign \in SignIns
    BY <1>0 DEF GrTypes, Entry
  <2>4. \A x \in SignIns : codesOf'[x] = 0 => Tokenless(x)'
    BY <1>0, <1>2, <2>1 DEF CodeInv, GrTypes
  <2>5. \A x \in codes' : Tokenless(x.sign)'
    BY <1>0, <1>1, <1>2, <2>1, <2>2, <2>3 DEF CodeInv
  <2>. QED  BY <2>4, <2>5 DEF CodeInv
<1>. QED  BY <1>3, <1>5, <1>6, GrSame DEF GrInv

\* The sign-in's other steps: flows and callbacks.
LEMMA GrFront ==
  ASSUME GrInv,
         \/ \E s \in SignIns : RedirectToIdp(s) \/ CallbackFail(s)
         \/ \E f \in flows : CallbackTake(f)
         \/ \E s \in SignIns : ChangeLogin(s)
  PROVE  GrInv'
<1>0. GrTypes /\ StageInv /\ CodeInv
  BY DEF GrInv
<1>1. UNCHANGED <<grClock, store, standby, issuing, held, unanswered, nextTok, codes, codesOf>>
  BY DEF RedirectToIdp, CallbackFail, CallbackTake, ChangeLogin
<1>2. GrTypes' /\ StageInv'
  <2>1. ASSUME NEW s \in SignIns, RedirectToIdp(s) PROVE GrTypes' /\ StageInv'
    <3>. DEFINE f == [sign |-> s, expires |-> grClock + CodeTtl]
    <3>1. f \in Entry /\ f.sign = s
      BY <1>0, GrantsAssumption DEF Entry, GrTypes
    <3>2. /\ flows' \subseteq flows \cup {f} /\ s \notin begun /\ begun' = begun \cup {s}
          /\ UNCHANGED callbacks
      BY <2>1 DEF RedirectToIdp, Unexpired
    <3>. HIDE DEF f
    <3>3. GrTypes'
      BY <1>0, <1>1, <3>1, <3>2 DEF GrTypes
    <3>4. codesOf[s] = 0 /\ s \notin callbacks /\ \A h \in flows : h.sign # s
      BY <1>0, <3>2 DEF StageInv
    <3>5. StageInv'
      BY <1>0, <1>1, <3>1, <3>2, <3>4 DEF StageInv
    <3>. QED  BY <3>3, <3>5
  <2>2. ASSUME NEW s \in SignIns, CallbackFail(s) PROVE GrTypes' /\ StageInv'
    BY <1>0, <1>1, <2>2 DEF CallbackFail, GrTypes, StageInv
  <2>3. ASSUME NEW f \in flows, CallbackTake(f) PROVE GrTypes' /\ StageInv'
    <3>1. /\ flows' = flows \ {f} /\ callbacks' \subseteq callbacks \cup {f.sign} /\ UNCHANGED begun
          /\ f.sign \in SignIns
      BY <1>0, <2>3 DEF CallbackTake, FlowsAfterTake, GrTypes, Entry
    <3>2. GrTypes'
      BY <1>0, <1>1, <3>1 DEF GrTypes
    <3>3. StageInv'
      BY <1>0, <1>1, <3>1 DEF StageInv
    <3>. QED  BY <3>2, <3>3
  <2>4. ASSUME NEW s \in SignIns, ChangeLogin(s) PROVE GrTypes' /\ StageInv'
    BY <1>0, <1>1, <2>4 DEF ChangeLogin, GrTypes, StageInv
  <2>. QED  BY <2>1, <2>2, <2>3, <2>4
<1>3. CodeInv'
  <2>1. \A c \in codes : c.sign \in SignIns
    BY <1>0 DEF GrTypes, Entry
  <2>. QED  BY <1>0, <1>1, <2>1, GrSame DEF CodeInv
<1>. QED  BY <1>1, <1>2, <1>3, GrSame DEF GrInv

\* A thread takes the issuing lock with what it will replace.
LEMMA GrBegin ==
  ASSUME GrInv, NEW th \in GrThreads, NEW i \in Issue, MayIssue,
         issuing' = [issuing EXCEPT ![th] = i], codes' \subseteq codes,
         \A g \in store : g.kind = "refresh" /\ g.sign = i.sign => g \in i.old,
         \A g \in i.old : g.sign = i.sign, codesOf[i.sign] = 1, \A c \in codes' : c.sign # i.sign,
         UNCHANGED <<grClock, flows, callbacks, store, standby, nextTok, begun, codesOf, held, unanswered>>
  PROVE  GrInv'
<1>0. GrTypes /\ StageInv /\ CodeInv /\ LockInv /\ HeldInv /\ Single(store) /\ Single(standby)
  BY DEF GrInv
<1>1. \A u \in GrThreads : issuing[u] = Idle /\ issuing[u].at = "idle"
  BY DEF MayIssue, Idle
<1>2. i.at = "issue"
  BY DEF Issue
<1>3. GrTypes'
  BY <1>0 DEF GrTypes
<1>4. StageInv'
  BY <1>0 DEF StageInv
<1>5. /\ issuing'[th] = i
      /\ \A u \in GrThreads : u # th => issuing'[u] = issuing[u]
  BY <1>0 DEF GrTypes
<1>6. CodeInv'
  <2>1. \A x \in SignIns : Tokenless(x) /\ x # i.sign => Tokenless(x)'
    BY <1>5 DEF Tokenless
  <2>2. \A c \in codes : c.sign \in SignIns
    BY <1>0 DEF GrTypes, Entry
  <2>. QED  BY <1>0, <2>1, <2>2 DEF CodeInv
<1>7. LockInv'
  BY <1>1, <1>2, <1>5 DEF LockInv
<1>8. HeldInv'
  BY <1>0, <1>1 DEF HeldInv, IsWritten
<1>. QED  BY <1>0, <1>3, <1>4, <1>6, <1>7, <1>8 DEF GrInv, Single

LEMMA GrTokenCode ==
  ASSUME GrInv, NEW th \in GrThreads, NEW c \in codes, NEW m \in BOOLEAN, TokenCode(th, c, m)
  PROVE  GrInv'
<1>. DEFINE i == [at |-> "issue", sign |-> c.sign, old |-> {}]
<1>0. GrTypes /\ StageInv /\ CodeInv /\ c.sign \in SignIns /\ codes' = codes \ {c} /\ MayIssue
      /\ UNCHANGED <<grClock, flows, callbacks, store, standby, nextTok, begun, codesOf, held, unanswered>>
  BY DEF GrInv, GrTypes, Entry, TokenCode
<1>1. CASE issuing' = issuing
  <2>1. GrTypes' /\ StageInv'
    BY <1>0, <1>1 DEF GrTypes, StageInv
  <2>2. CodeInv'
    <3>1. \A x \in codes : x.sign \in SignIns
      BY <1>0 DEF GrTypes, Entry
    <3>. QED  BY <1>0, <1>1, <3>1, GrSame DEF CodeInv
  <2>. QED  BY <1>0, <1>1, <2>1, <2>2, GrSame DEF GrInv
<1>2. CASE issuing' = [issuing EXCEPT ![th] = i]
  <2>1. i \in Issue /\ i.sign = c.sign /\ i.old = {}
    BY <1>0 DEF Issue
  <2>2. \A g \in store : g.sign # c.sign
    BY <1>0 DEF CodeInv, Tokenless
  <2>3. codesOf[c.sign] = 1 /\ \A d \in codes' : d.sign # c.sign
    BY <1>0 DEF StageInv
  <2>. HIDE DEF i
  <2>. QED  BY <1>0, <1>2, <2>1, <2>2, <2>3, GrBegin
<1>. QED  BY <1>1, <1>2 DEF TokenCode

LEMMA GrTokenRefresh ==
  ASSUME GrInv, NEW th \in GrThreads, NEW g \in store, TokenRefresh(th, g)
  PROVE  GrInv'
<1>. DEFINE i == [at |-> "issue", sign |-> g.sign, old |-> {g}]
<1>0. GrTypes /\ StageInv /\ CodeInv /\ Single(store) /\ g \in Grants /\ g.sign \in SignIns
      /\ g.kind = "refresh"
  BY DEF GrInv, GrTypes, Grants, TokenRefresh
<1>1. i \in Issue /\ i.sign = g.sign /\ i.old = {g}
  BY <1>0 DEF Issue
<1>2. codesOf[g.sign] = 1 /\ \A d \in codes : d.sign # g.sign
  BY <1>0 DEF CodeInv, Tokenless, GrTypes
<1>3. \A h \in store : h.kind = "refresh" /\ h.sign = g.sign => h \in i.old
  BY <1>0, <1>1 DEF Single
<1>4. MayIssue /\ issuing' = [issuing EXCEPT ![th] = i]
      /\ UNCHANGED <<grClock, flows, callbacks, codes, store, standby, nextTok, begun, codesOf, held, unanswered>>
  BY DEF TokenRefresh
<1>. HIDE DEF i
<1>5. /\ \A h \in store : h.kind = "refresh" /\ h.sign = i.sign => h \in i.old
      /\ \A h \in i.old : h.sign = i.sign
      /\ codesOf[i.sign] = 1 /\ codes' \subseteq codes /\ \A d \in codes' : d.sign # i.sign
  BY <1>1, <1>2, <1>3, <1>4
<1>. QED  BY <1>1, <1>4, <1>5, GrBegin

\* The new pair is one refresh token and one access token.
LEMMA PairIs ==
  ASSUME GrTypes, NEW s \in SignIns, nextTok <= MaxTokens
  PROVE  /\ Pair(s, nextTok) \subseteq Grants /\ \A g \in Pair(s, nextTok) : g.sign = s
         /\ \E n \in Pair(s, nextTok) :
               /\ n.kind = "refresh" /\ (CHOOSE g \in Pair(s, nextTok) : g.kind = "refresh") = n
               /\ \A g \in Pair(s, nextTok) : g.kind = "refresh" => g = n
<1>. DEFINE a == [kind |-> "access", tok |-> nextTok, sign |-> s, expires |-> grClock + AccessTtl]
            r == [kind |-> "refresh", tok |-> nextTok, sign |-> s, expires |-> grClock + RefreshTtl]
<1>1. nextTok \in 1 .. MaxTokens /\ grClock + AccessTtl \in Nat /\ grClock + RefreshTtl \in Nat
  BY GrantsAssumption DEF GrTypes
<1>2. a \in Grants /\ r \in Grants /\ a.sign = s /\ r.sign = s /\ a.kind = "access" /\ r.kind = "refresh"
  BY <1>1 DEF Grants
<1>3. Pair(s, nextTok) = {a, r}
  BY DEF Pair
<1>. HIDE DEF a, r
<1>. QED  BY <1>2, <1>3

LEMMA GrTokenWrite == ASSUME GrInv, NEW th \in GrThreads, TokenWrite(th) PROVE GrInv'
<1>. DEFINE i == issuing[th]
            P == Pair(i.sign, nextTok)
<1>0. GrTypes /\ StageInv /\ CodeInv /\ LockInv /\ HeldInv /\ Single(store) /\ Single(standby)
      /\ i.at = "issue" /\ nextTok <= MaxTokens
      /\ UNCHANGED <<grClock, flows, callbacks, codes, standby, begun, codesOf, held, unanswered>>
  BY DEF GrInv, TokenWrite
<1>1. i \in Issue /\ i.sign \in SignIns
  <2>1. i \in {Idle} \cup Issue \cup Written
    BY <1>0 DEF GrTypes
  <2>2. i \in Issue
    BY <1>0, <2>1, Shapes
  <2>. QED  BY <2>2 DEF Issue
<1>2. PICK n \in P : /\ n.kind = "refresh" /\ (CHOOSE g \in P : g.kind = "refresh") = n
                     /\ \A g \in P : g.kind = "refresh" => g = n
  BY <1>0, <1>1, PairIs
<1>3. P \subseteq Grants /\ \A g \in P : g.sign = i.sign
  BY <1>0, <1>1, PairIs
<1>. DEFINE w == [at |-> "written", sign |-> i.sign, new |-> n]
<1>4. /\ store' = (store \ i.old) \cup P /\ nextTok' = nextTok + 1
      /\ issuing' = [issuing EXCEPT ![th] = w]
  BY <1>2 DEF TokenWrite, Rotated
<1>5. w \in Written /\ w.at = "written" /\ w.sign = i.sign /\ w.new = n /\ n.sign = i.sign
  BY <1>1, <1>2, <1>3 DEF Written
<1>. HIDE DEF P, w
<1>6. GrTypes'
  BY <1>0, <1>3, <1>4, <1>5 DEF GrTypes
<1>7. StageInv'
  BY <1>0 DEF StageInv
<1>8. /\ issuing'[th] = w
      /\ \A u \in GrThreads : u # th => issuing'[u] = issuing[u] /\ issuing[u].at = "idle"
  BY <1>0, <1>4 DEF GrTypes, LockInv
<1>9. CodeInv'
  <2>1. \A x \in SignIns : Tokenless(x) => Tokenless(x)'
    <3>1. ASSUME NEW x \in SignIns, Tokenless(x) PROVE Tokenless(x)'
      <4>1. i.sign # x /\ \A g \in store \cup standby : g.sign # x
        BY <1>0, <3>1 DEF Tokenless
      <4>. QED  BY <1>0, <1>3, <1>4, <1>5, <1>8, <4>1 DEF Tokenless
    <3>. QED  BY <3>1
  <2>2. \A c \in codes : c.sign \in SignIns
    BY <1>0 DEF GrTypes, Entry
  <2>. QED  BY <1>0, <2>1, <2>2 DEF CodeInv
<1>10. LockInv'
  BY <1>2, <1>4, <1>5, <1>8 DEF LockInv
<1>11. Single(store)'
  <2>1. \A g \in store : g.kind = "refresh" /\ g.sign = i.sign => g \in i.old
    BY <1>0 DEF LockInv
  <2>. QED  BY <1>0, <1>2, <1>3, <1>4, <2>1 DEF Single
<1>12. HeldInv'
  <2>1. SUFFICES ASSUME NEW s \in SignIns, held[s] # NoGrant, held[s].sign = s, Gated,
                        s \notin unanswered, held[s].expires > grClock
                 PROVE  IsWritten(s)' \/ (held[s] \in store' /\ held[s] \in standby)
    BY <1>0 DEF HeldInv
  <2>2. CASE s = i.sign
    BY <1>5, <1>8, <2>2 DEF IsWritten
  <2>3. CASE s # i.sign
    <3>1. ~IsWritten(s)
      BY <1>0, <1>8 DEF IsWritten
    <3>2. held[s] \notin i.old
      BY <1>0, <2>1, <2>3 DEF LockInv
    <3>. QED  BY <1>0, <1>4, <2>1, <3>1, <3>2 DEF HeldInv
  <2>. QED  BY <2>2, <2>3
<1>. QED  BY <1>0, <1>6, <1>7, <1>9, <1>10, <1>11, <1>12 DEF GrInv, Single

\* The threads of `done` leave the lock: a token in a store stays or has expired.
LEMMA GrLeave ==
  ASSUME GrInv, NEW done \in SUBSET GrThreads,
         \A th \in done : issuing'[th] = Idle,
         \A th \in GrThreads \ done : issuing'[th] = issuing[th],
         issuing' \in [GrThreads -> {Idle} \cup Issue \cup Written],
         store' \subseteq store \cup standby, standby' = standby,
         \A th \in GrThreads \ done : issuing[th].at = "idle"
  PROVE  LockInv' /\ (\A x \in SignIns : Tokenless(x) => Tokenless(x)')
<1>1. \A th \in GrThreads : issuing'[th].at = "idle"
  BY DEF Idle
<1>2. LockInv'
  BY <1>1 DEF LockInv
<1>3. ASSUME NEW x \in SignIns, Tokenless(x) PROVE Tokenless(x)'
  BY <1>1, <1>3 DEF Tokenless
<1>. QED  BY <1>2, <1>3

LEMMA GrTokenAnswer ==
  ASSUME GrInv, NEW th \in GrThreads, NEW d \in BOOLEAN, TokenAnswer(th, d)
  PROVE  GrInv'
<1>. DEFINE i == issuing[th]
<1>0. GrTypes /\ StageInv /\ CodeInv /\ LockInv /\ HeldInv /\ Single(store) /\ Single(standby)
      /\ i.at = "written" /\ (Gated => i.new \in standby)
      /\ UNCHANGED <<grClock, flows, callbacks, codes, standby, nextTok, begun, codesOf>>
  BY DEF GrInv, TokenAnswer
<1>1. i \in Written /\ i.sign \in SignIns /\ i.new \in Grants
  <2>1. i \in {Idle} \cup Issue \cup Written
    BY <1>0 DEF GrTypes
  <2>2. i \in Written
    BY <1>0, <2>1, Shapes
  <2>. QED  BY <2>2 DEF Written
<1>2. i.new \in store /\ i.new.sign = i.sign
  BY <1>0 DEF LockInv
<1>3. /\ store' \subseteq store /\ \A g \in store : g.expires > grClock => g \in store'
      /\ issuing' = [issuing EXCEPT ![th] = Idle]
      /\ held' = IF d THEN [held EXCEPT ![i.sign] = i.new] ELSE held
      /\ unanswered' = IF d THEN unanswered ELSE unanswered \cup {i.sign}
  <2>1. \A g \in store : g.expires > grClock => ~ Swept(g)
    BY <1>0 DEF Swept, GrTypes, Grants
  <2>. QED  BY <2>1 DEF TokenAnswer
<1>4. /\ issuing'[th] = Idle
      /\ \A u \in GrThreads : u # th => issuing'[u] = issuing[u] /\ issuing[u].at = "idle"
      /\ issuing' \in [GrThreads -> {Idle} \cup Issue \cup Written]
  BY <1>0, <1>3 DEF GrTypes, LockInv
<1>5. GrTypes'
  BY <1>0, <1>1, <1>3, <1>4 DEF GrTypes
<1>6. StageInv'
  BY <1>0 DEF StageInv
<1>7. Single(store)' /\ Single(standby)'
  BY <1>0, <1>3 DEF Single
<1>8. LockInv' /\ \A x \in SignIns : Tokenless(x) => Tokenless(x)'
  <2>. DEFINE done == {th}
  <2>1. /\ done \in SUBSET GrThreads /\ \A u \in done : issuing'[u] = Idle
        /\ \A u \in GrThreads \ done : issuing'[u] = issuing[u] /\ issuing[u].at = "idle"
    BY <1>4
  <2>. HIDE DEF done
  <2>. QED  BY <1>0, <1>3, <1>4, <1>7, <2>1, GrLeave
<1>9. CodeInv'
  <2>1. \A c \in codes : c.sign \in SignIns
    BY <1>0 DEF GrTypes, Entry
  <2>. QED  BY <1>0, <1>8, <2>1 DEF CodeInv
<1>10. HeldInv'
  <2>1. ASSUME NEW s \in SignIns, s = i.sign, held'[s] # NoGrant PROVE
           /\ held'[s].sign = s
           /\ Gated /\ s \notin unanswered' /\ held'[s].expires > grClock =>
                 held'[s] \in store' /\ held'[s] \in standby
    BY <1>0, <1>1, <1>2, <1>3, <2>1 DEF GrTypes, HeldInv
  <2>2. ASSUME NEW s \in SignIns, s # i.sign, held'[s] # NoGrant PROVE
           /\ held'[s].sign = s
           /\ Gated /\ s \notin unanswered' /\ held'[s].expires > grClock =>
                 held'[s] \in store' /\ held'[s] \in standby
    <3>1. held'[s] = held[s] /\ (s \notin unanswered' => s \notin unanswered)
      BY <1>0, <1>1, <1>3, <2>2 DEF GrTypes
    <3>2. ~IsWritten(s)
      BY <1>0, <1>4, <2>2 DEF IsWritten
    <3>. QED  BY <1>0, <1>3, <2>2, <3>1, <3>2 DEF HeldInv
  <2>. QED  BY <1>0, <2>1, <2>2 DEF HeldInv
<1>. QED  BY <1>5, <1>6, <1>7, <1>8, <1>9, <1>10 DEF GrInv

\* A write refused by the store, or by the gate after it landed.
LEMMA GrTokenRefused == ASSUME GrInv, NEW th \in GrThreads, TokenRefused(th) PROVE GrInv'
<1>. DEFINE i == issuing[th]
<1>0. GrTypes /\ StageInv /\ CodeInv /\ LockInv /\ HeldInv /\ Single(store) /\ Single(standby)
      /\ i.at # "idle" /\ unanswered \subseteq unanswered'
      /\ (i.at = "written" => i.sign \in unanswered')
      /\ issuing' = [issuing EXCEPT ![th] = Idle]
      /\ UNCHANGED <<grClock, flows, callbacks, codes, store, standby, nextTok, begun, codesOf, held>>
  BY DEF GrInv, TokenRefused
<1>1. /\ issuing'[th] = Idle
      /\ \A u \in GrThreads : u # th => issuing'[u] = issuing[u] /\ issuing[u].at = "idle"
      /\ issuing' \in [GrThreads -> {Idle} \cup Issue \cup Written]
  BY <1>0 DEF GrTypes, LockInv
<1>2. GrTypes'
  BY <1>0, <1>1 DEF GrTypes
<1>3. StageInv' /\ Single(store)' /\ Single(standby)'
  BY <1>0 DEF StageInv, Single
<1>4. LockInv' /\ \A x \in SignIns : Tokenless(x) => Tokenless(x)'
  <2>. DEFINE done == {th}
  <2>1. /\ done \in SUBSET GrThreads /\ \A u \in done : issuing'[u] = Idle
        /\ \A u \in GrThreads \ done : issuing'[u] = issuing[u] /\ issuing[u].at = "idle"
    BY <1>1
  <2>. HIDE DEF done
  <2>. QED  BY <1>0, <1>1, <2>1, GrLeave
<1>5. CodeInv'
  <2>1. \A c \in codes : c.sign \in SignIns
    BY <1>0 DEF GrTypes, Entry
  <2>. QED  BY <1>0, <1>4, <2>1 DEF CodeInv
<1>6. HeldInv'
  <2>1. \A s \in SignIns : IsWritten(s) => s \in unanswered'
    BY <1>0, <1>1 DEF IsWritten
  <2>. QED  BY <1>0, <2>1 DEF HeldInv
<1>. QED  BY <1>2, <1>3, <1>4, <1>5, <1>6 DEF GrInv

\* A process starts over, here or on the standby.
LEMMA GrStartOver == ASSUME GrInv, GrCrash \/ Failover PROVE GrInv'
<1>0. GrTypes /\ StageInv /\ CodeInv /\ LockInv /\ HeldInv /\ Single(store) /\ Single(standby)
      /\ StartOver /\ (store' = store \/ store' = standby)
      /\ UNCHANGED <<grClock, standby, nextTok, begun, codesOf, held>>
  BY DEF GrInv, GrCrash, Failover
<1>1. /\ flows' = {} /\ callbacks' = {} /\ codes' = {} /\ unanswered \subseteq unanswered'
      /\ \A th \in GrThreads : issuing[th].at = "written" => issuing[th].sign \in unanswered'
      /\ issuing' = [th \in GrThreads |-> Idle]
  BY <1>0 DEF StartOver
<1>2. GrTypes'
  BY <1>0, <1>1 DEF GrTypes
<1>3. StageInv' /\ Single(store)' /\ Single(standby)'
  BY <1>0, <1>1 DEF StageInv, Single
<1>4. \A th \in GrThreads : issuing'[th].at = "idle"
  BY <1>1 DEF Idle
<1>5. LockInv'
  BY <1>4 DEF LockInv
<1>6. CodeInv'
  BY <1>0, <1>1, <1>4 DEF CodeInv, Tokenless
<1>7. HeldInv'
  <2>1. \A s \in SignIns : IsWritten(s) => s \in unanswered'
    BY <1>1 DEF IsWritten
  <2>. QED  BY <1>0, <1>1, <2>1 DEF HeldInv
<1>. QED  BY <1>2, <1>3, <1>5, <1>6, <1>7 DEF GrInv

LEMMA GrShip == ASSUME GrInv, Ship PROVE GrInv'
<1>0. GrTypes /\ StageInv /\ CodeInv /\ LockInv /\ HeldInv /\ Single(store)
      /\ standby' = store
      /\ UNCHANGED <<grClock, flows, callbacks, codes, store, issuing, nextTok, begun, codesOf, held, unanswered>>
  BY DEF GrInv, Ship
<1>1. GrTypes' /\ StageInv'
  BY <1>0 DEF GrTypes, StageInv
<1>2. LockInv' /\ Single(store)' /\ Single(standby)'
  BY <1>0 DEF LockInv, Single
<1>3. CodeInv'
  BY <1>0 DEF CodeInv, Tokenless
<1>4. HeldInv'
  BY <1>0 DEF HeldInv, IsWritten
<1>. QED  BY <1>1, <1>2, <1>3, <1>4 DEF GrInv

LEMMA GrTicks == ASSUME GrInv, GrTick PROVE GrInv'
<1>0. GrTypes /\ StageInv /\ CodeInv /\ LockInv /\ HeldInv /\ Single(store) /\ Single(standby)
      /\ grClock' = grClock + 1 /\ grClock \in Nat
      /\ UNCHANGED <<flows, callbacks, codes, store, standby, issuing, nextTok, begun, codesOf, held, unanswered>>
  BY DEF GrInv, GrTick, GrTypes
<1>1. GrTypes' /\ StageInv'
  BY <1>0 DEF GrTypes, StageInv
<1>2. LockInv' /\ Single(store)' /\ Single(standby)'
  BY <1>0 DEF LockInv, Single
<1>3. CodeInv'
  BY <1>0 DEF CodeInv, Tokenless
<1>4. HeldInv'
  <2>1. \A s \in SignIns : held[s] # NoGrant => held[s].expires \in Nat
    BY <1>0 DEF GrTypes, Grants
  <2>2. \A s \in SignIns : held[s] # NoGrant /\ held[s].expires > grClock + 1 => held[s].expires > grClock
    BY <1>0, <2>1
  <2>3. \A s \in SignIns : IsWritten(s)' <=> IsWritten(s)
    BY <1>0 DEF IsWritten
  <2>. QED  BY <1>0, <2>2, <2>3 DEF HeldInv
<1>. QED  BY <1>1, <1>2, <1>3, <1>4 DEF GrInv

LEMMA GrInvNext == ASSUME GrInv, [GrNext]_grVars PROVE GrInv'
<1>0. GrTypes /\ StageInv /\ CodeInv
  BY DEF GrInv
<1>1. ASSUME NEW s \in SignIns, Authorize(s) PROVE GrInv'
  <2>1. /\ s \notin begun /\ begun' = begun \cup {s} /\ IssueCode(s) /\ flows' = flows
        /\ UNCHANGED <<callbacks, grClock, store, standby, issuing, held, unanswered, nextTok>>
    BY <1>1 DEF Authorize
  <2>2. codesOf[s] = 0 /\ s \notin callbacks /\ \A f \in flows : f.sign # s
    BY <1>0, <2>1 DEF StageInv
  <2>3. callbacks' = callbacks \ {s}
    BY <2>1, <2>2
  <2>. QED  BY <2>1, <2>2, <2>3, GrIssueCode
<1>2. ASSUME NEW s \in SignIns, CallbackFinish(s) PROVE GrInv'
  <2>1. /\ s \in callbacks /\ callbacks' = callbacks \ {s} /\ IssueCode(s)
        /\ UNCHANGED <<flows, begun, grClock, store, standby, issuing, held, unanswered, nextTok>>
    BY <1>2 DEF CallbackFinish
  <2>2. codesOf[s] = 0 /\ s \in begun /\ \A f \in flows : f.sign # s
    BY <1>0, <2>1 DEF StageInv
  <2>3. begun' = begun \cup {s}
    BY <2>1, <2>2
  <2>. QED  BY <2>1, <2>2, <2>3, GrIssueCode
<1>3. CASE UNCHANGED grVars
  <2>1. UNCHANGED <<grClock, store, standby, issuing, held, unanswered, nextTok, flows, callbacks, codes, begun, codesOf>>
    BY <1>3 DEF grVars
  <2>2. GrTypes' /\ StageInv'
    BY <1>0, <2>1 DEF GrTypes, StageInv
  <2>3. CodeInv'
    BY <1>0, <2>1 DEF CodeInv, Tokenless
  <2>. QED  BY <2>1, <2>2, <2>3, GrSame DEF GrInv
<1>. QED  BY <1>1, <1>2, <1>3, GrFront, GrTokenCode, GrTokenRefresh, GrTokenWrite, GrTokenAnswer,
             GrTokenRefused, GrStartOver, GrShip, GrTicks DEF GrNext

LEMMA GrInvSafe ==
  ASSUME GrInv
  PROVE  GrTypeOK /\ OneRefresh /\ OneCode /\ (Gated => SignInSurvives)
<1>0. GrTypes /\ StageInv /\ CodeInv /\ LockInv /\ HeldInv /\ Single(store)
  BY DEF GrInv
<1>1. GrTypeOK
  <2>1. \A th \in GrThreads : issuing[th].at \in {"idle", "issue", "written"}
    <3>1. \A x \in {Idle} \cup Issue \cup Written : x.at \in {"idle", "issue", "written"}
      BY DEF Idle, Issue, Written
    <3>. QED  BY <1>0, <3>1 DEF GrTypes
  <2>2. {e.sign : e \in flows \cup codes} \cup callbacks \subseteq begun
    BY <1>0 DEF StageInv
  <2>. QED  BY <1>0, <2>1, <2>2 DEF GrTypeOK, GrTypes
<1>2. OneRefresh
  BY <1>0 DEF Single, OneRefresh
<1>3. OneCode
  BY <1>0 DEF GrTypes, OneCode
<1>4. Gated => SignInSurvives
  BY <1>0 DEF HeldInv, SignInSurvives, IsWritten
<1>. QED  BY <1>1, <1>2, <1>3, <1>4

\* The token endpoint (oauth.rs), with a commit gate or without: whatever codes and tokens are
\* presented again, through concurrent requests, refused writes, crashes and failovers, a sign-in
\* is given one code and has at most one refresh token.
THEOREM OneGrantEach == GrSpec => [](GrTypeOK /\ OneRefresh /\ OneCode)
BY GrInvInit, GrInvNext, GrInvSafe, PTL DEF GrSpec

-----------------------------------------------------------------------------
\* What callers hold from one request to the next stays theirs, with a commit gate and leases
\* whose end fits: the newest refresh token a client was answered stays good through crashes and
\* failovers (oauth.rs), and a claim an agent was told of is the task's until it ends (ops.rs).
THEOREM ClientsAreSafe == ASSUME Gated, LeasesFit PROVE ClientsSpec => []ClientsSafe
<1>1. ClientsInit => GrInv /\ ClaimInv
  BY GrInvInit, ClaimInvInit DEF ClientsInit
<1>2. GrInv /\ ClaimInv /\ [ClientsNext]_clientVars => GrInv' /\ ClaimInv'
  BY GrInvNext, ClaimInvNext DEF ClientsNext, clientVars
<1>3. GrInv /\ ClaimInv => ClientsSafe
  BY GrInvSafe, ClaimInvSafe DEF ClientsSafe, GrantsSafe
<1>. QED  BY <1>1, <1>2, <1>3, PTL DEF ClientsSpec

-----------------------------------------------------------------------------
(* The compactor's signal *)

\* Until Drop starts, the compactor sleeps only between a test that found the flag
\* clear and the next kick, and then it is the only thread notify_one can choose.
NoLostKick ==
    dpc = "open" =>
        /\ ~shutdown
        /\ "compactor" \in sigWait => cpc = "park" /\ ~pending
        /\ cpc = "park" /\ ~pending => sigWait \subseteq {"compactor"}

\* Inductive: one condition variable serves the compactor and the writers held at the
\* bound, and notify_one still reaches the compactor.
SigInv == SigTypeOK /\ NoLostKick

LEMMA SigInvInit == SigInit => SigInv
<1>. SUFFICES ASSUME SigInit PROVE SigInv
  OBVIOUS
<1>1. SigTypeOK
  BY DEF SigInit, SigTypeOK
<1>2. NoLostKick
  BY DEF SigInit, NoLostKick
<1>. QED  BY <1>1, <1>2 DEF SigInv

LEMMA SigWriterStep ==
    ASSUME SigInv, NEW w \in SigWriters, SigWriter(w) PROVE SigInv'
<1>. USE SigAssumption DEF SigInv
<1>1. CASE SigWrite(w)
  <2>1. l0' \in Nat /\ l0Writes' \in Nat
    BY <1>1 DEF SigWrite, SigTypeOK
  <2>. QED  BY <1>1, <2>1 DEF SigWrite, SigTypeOK, NoLostKick
<1>2. CASE WriterGate(w)
  BY <1>2 DEF WriterGate, SigTypeOK, NoLostKick
<1>3. CASE Kick(w)
  <2>1. sigWait' \subseteq sigWait
    BY <1>3 DEF Kick, NotifyOne
  <2>2. dpc = "open" => "compactor" \notin sigWait'
    <3>. SUFFICES ASSUME dpc = "open", "compactor" \in sigWait PROVE "compactor" \notin sigWait'
      BY <2>1
    <3>1. sigWait = {"compactor"}
      BY DEF NoLostKick
    <3>. QED  BY <1>3, <3>1 DEF Kick, NotifyOne
  <2>3. SigTypeOK'
    BY <1>3, <2>1 DEF Kick, SigTypeOK
  <2>. QED  BY <1>3, <2>1, <2>2, <2>3 DEF Kick, NoLostKick
<1>4. CASE WaitIdle(w)
  <2>1. SigTypeOK'
    BY <1>4 DEF WaitIdle, SigTypeOK
  <2>2. /\ sigWait' \subseteq sigWait \cup {w} /\ (sigWait' = sigWait \/ pending)
        /\ w # "compactor" /\ UNCHANGED <<pending, shutdown, cpc, dpc>>
    BY <1>4 DEF WaitIdle
  <2>. QED  BY <2>1, <2>2 DEF NoLostKick
<1>. QED  BY <1>1, <1>2, <1>3, <1>4 DEF SigWriter

LEMMA SigCompactorStep == ASSUME SigInv, Compactor PROVE SigInv'
<1>. USE SigAssumption DEF SigInv
<1>1. CASE WaitKick
  BY <1>1 DEF WaitKick, SigTypeOK, NoLostKick
<1>2. CASE CompactorGate
  BY <1>2 DEF CompactorGate, SigTypeOK, NoLostKick
<1>3. CASE CompactorMerge
  BY <1>3 DEF CompactorMerge, SigTypeOK, NoLostKick
<1>4. CASE CompactorClear
  BY <1>4 DEF CompactorClear, ClearsPending, SigTypeOK, NoLostKick
<1>5. CASE CompactorNotify
  BY <1>5 DEF CompactorNotify, SigTypeOK, NoLostKick
<1>. QED  BY <1>1, <1>2, <1>3, <1>4, <1>5 DEF Compactor

LEMMA SigInvNext == ASSUME SigInv, [SigNext]_sigVars PROVE SigInv'
<1>1. CASE Compactor
  BY <1>1, SigCompactorStep
<1>2. CASE SigDrop
  BY <1>2 DEF SigDrop, DropFlag, DropClear, DropNotify, DropJoin, Woken, SigInv, SigTypeOK, NoLostKick
<1>3. CASE \E w \in SigWriters : SigWriter(w)
  BY <1>3, SigWriterStep
<1>4. CASE UNCHANGED sigVars
  BY <1>4 DEF sigVars, SigInv, SigTypeOK, NoLostKick
<1>. QED  BY <1>1, <1>2, <1>3, <1>4 DEF SigNext

\* No wakeup of the compactor is lost (db.rs, CompactorSignal::kick and wait_kick):
\* however writers, the compactor and held writers race on the one condition variable,
\* a pending kick never finds the compactor asleep before Drop.  For any number of
\* writers, any bounds and any trigger; that held writers return is left to TLC.
THEOREM NoKickLost == SigSpec => [](SigTypeOK /\ KickWakes)
<1>1. SigInv => SigTypeOK /\ KickWakes
  BY DEF SigInv, NoLostKick, KickWakes
<1>. QED  BY <1>1, SigInvInit, SigInvNext, PTL DEF SigSpec

-----------------------------------------------------------------------------
(* Jobs *)

SomeInput == Inputs \cup {NoInput}
Statuses == {"none", "Running", "Completed", "Failed"}
Rows == [status : Statuses, input : SomeInput]
Submits == [pc : {"idle", "load", "cas", "write", "insert", "start"}, input : SomeInput, cur : Int,
            id : JobIds \cup {NoJob}]
JobWorkers == [pc : {"none", "run", "evict"}, status : Statuses, input : SomeInput]

JobsTypes ==
    /\ jobRow \in [JobIds -> Rows] /\ jobRes \in [JobIds -> SomeInput]
    /\ byHash \in [Inputs -> JobIds \cup {NoJob}] /\ nextId \in 0 .. MaxJobs /\ running \in Int
    /\ sub \in [Submitters -> Submits] /\ worker \in [JobIds -> JobWorkers] /\ jobFaults \in Nat

Admitted == {s \in Submitters : sub[s].pc \in {"write", "insert", "start"}}
AtWork == {i \in JobIds : worker[i].pc # "none"}

\* A submit that has written its row owns an id below the counter that no worker has.
SubmitOwns(s) ==
    /\ sub[s].pc # "idle" => sub[s].input \in Inputs
    /\ IF sub[s].pc \in {"insert", "start"}
       THEN /\ sub[s].id \in JobIds /\ sub[s].id < nextId /\ worker[sub[s].id].pc = "none"
            /\ jobRow[sub[s].id] = [status |-> "Running", input |-> sub[s].input]
       ELSE sub[s].id = NoJob

\* Two of them never share it.
OwnIds == \A s, t \in Submitters : s # t /\ sub[s].id = sub[t].id => sub[s].id = NoJob

\* A worker's row is the one it was started for, until its own last write.
WorkerOwns(i) ==
    worker[i].pc # "none" =>
        /\ i < nextId /\ worker[i].input \in Inputs /\ jobRow[i].input = worker[i].input
        /\ worker[i].pc = "run" => jobRow[i].status = "Running"
        /\ worker[i].pc = "evict" /\ jobRow[i].status = "Failed" => worker[i].status = "Failed"
        /\ worker[i].pc = "evict" /\ jobRow[i].status = "Running" => jobFaults > 0

Bounded == Cardinality(Admitted) + Cardinality(AtWork) <= running /\ running <= MaxRunning

\* Inductive: what the four properties need is who owns an id.
JobsInv ==
    /\ JobsTypes
    /\ \A s \in Submitters : SubmitOwns(s)
    /\ OwnIds
    /\ \A i \in JobIds : WorkerOwns(i)
    /\ Bounded /\ CompletedHasResult /\ FailedRetries /\ RunningIsAlive

LEMMA JobsNaturals ==
    /\ MaxRunning \in Nat /\ MaxJobs \in Nat /\ MaxJobFaults \in Nat /\ NoJob = -1 /\ NoJob \notin JobIds
    /\ JobIds \subseteq Nat /\ NoInput \notin Inputs
BY JobsAssumption DEF JobIds, NoJob, NoInput

LEMMA CountsAre ==
    /\ IsFiniteSet(Admitted) /\ IsFiniteSet(AtWork)
    /\ Cardinality(Admitted) \in Nat /\ Cardinality(AtWork) \in Nat
<1>1. IsFiniteSet(JobIds)
  BY JobsNaturals, FS_Interval DEF JobIds
<1>2. Admitted \in SUBSET Submitters /\ AtWork \in SUBSET JobIds
  BY DEF Admitted, AtWork
<1>3. IsFiniteSet(Admitted) /\ IsFiniteSet(AtWork)
  BY <1>1, <1>2, JobsAssumption, FS_Subset
<1>. QED  BY <1>3, FS_CardinalityType

\* A submit's step gives it a slot, takes it away or neither.
LEMMA SubmitCounts ==
    ASSUME JobsTypes, NEW s \in Submitters, NEW x \in Submits, sub' = [sub EXCEPT ![s] = x]
    PROVE  Cardinality(Admitted') = Cardinality(Admitted)
             + (IF x.pc \in {"write", "insert", "start"} THEN 1 ELSE 0)
             - (IF sub[s].pc \in {"write", "insert", "start"} THEN 1 ELSE 0)
<1>. DEFINE busy == {"write", "insert", "start"}
<1>1. \A t \in Submitters : sub'[t] = IF t = s THEN x ELSE sub[t]
  BY DEF JobsTypes
<1>2. PICK A, B : A = Admitted /\ B = Admitted'
  OBVIOUS
<1>3. IsFiniteSet(A) /\ Cardinality(A) \in Nat
  BY <1>2, CountsAre
<1>4. s \in A <=> sub[s].pc \in busy
  BY <1>2 DEF Admitted
<1>5. CASE x.pc \in busy /\ sub[s].pc \notin busy
  <2>1. B = A \cup {s}
    BY <1>1, <1>2, <1>5 DEF Admitted
  <2>2. Cardinality(A \cup {s}) = Cardinality(A) + 1
    BY <1>3, <1>4, <1>5, FS_AddElement
  <2>. QED  BY <1>2, <1>3, <1>5, <2>1, <2>2
<1>6. CASE x.pc \notin busy /\ sub[s].pc \in busy
  <2>1. B = A \ {s}
    BY <1>1, <1>2, <1>6 DEF Admitted
  <2>2. Cardinality(A \ {s}) = Cardinality(A) - 1
    BY <1>3, <1>4, <1>6, FS_RemoveElement
  <2>. QED  BY <1>2, <1>3, <1>6, <2>1, <2>2
<1>7. CASE x.pc \in busy <=> sub[s].pc \in busy
  <2>1. B = A
    BY <1>1, <1>2, <1>7 DEF Admitted
  <2>. QED  BY <1>2, <1>3, <1>7, <2>1
<1>. QED  BY <1>5, <1>6, <1>7

\* So does a worker's.
LEMMA WorkerCounts ==
    ASSUME JobsTypes, NEW i \in JobIds, NEW x \in JobWorkers, worker' = [worker EXCEPT ![i] = x]
    PROVE  Cardinality(AtWork') = Cardinality(AtWork)
             + (IF x.pc # "none" THEN 1 ELSE 0) - (IF worker[i].pc # "none" THEN 1 ELSE 0)
<1>1. \A j \in JobIds : worker'[j] = IF j = i THEN x ELSE worker[j]
  BY DEF JobsTypes
<1>2. PICK A, B : A = AtWork /\ B = AtWork'
  OBVIOUS
<1>3. IsFiniteSet(A) /\ Cardinality(A) \in Nat
  BY <1>2, CountsAre
<1>4. i \in A <=> worker[i].pc # "none"
  BY <1>2 DEF AtWork
<1>5. CASE x.pc # "none" /\ worker[i].pc = "none"
  <2>1. B = A \cup {i}
    BY <1>1, <1>2, <1>5 DEF AtWork
  <2>2. Cardinality(A \cup {i}) = Cardinality(A) + 1
    BY <1>3, <1>4, <1>5, FS_AddElement
  <2>. QED  BY <1>2, <1>3, <1>5, <2>1, <2>2
<1>6. CASE x.pc = "none" /\ worker[i].pc # "none"
  <2>1. B = A \ {i}
    BY <1>1, <1>2, <1>6 DEF AtWork
  <2>2. Cardinality(A \ {i}) = Cardinality(A) - 1
    BY <1>3, <1>4, <1>6, FS_RemoveElement
  <2>. QED  BY <1>2, <1>3, <1>6, <2>1, <2>2
<1>7. CASE x.pc # "none" <=> worker[i].pc # "none"
  <2>1. B = A
    BY <1>1, <1>2, <1>7 DEF AtWork
  <2>. QED  BY <1>2, <1>3, <1>7, <2>1
<1>. QED  BY <1>5, <1>6, <1>7

LEMMA JobsInvInit == JobsInit => JobsInv
<1>. SUFFICES ASSUME JobsInit PROVE JobsInv
  OBVIOUS
<1>. USE JobsNaturals DEF JobsInit
<1>1. NoRow \in Rows /\ SubIdle \in Submits /\ NoWorker \in JobWorkers
  BY DEF NoRow, Rows, Statuses, SomeInput, SubIdle, Submits, NoWorker, JobWorkers
<1>2. JobsTypes
  BY <1>1 DEF JobsTypes, SomeInput
<1>3. Admitted = {} /\ AtWork = {}
  BY DEF Admitted, AtWork, SubIdle, NoWorker
<1>4. Bounded
  BY <1>3, FS_EmptySet DEF Bounded
<1>5. \A s \in Submitters : SubmitOwns(s)
  BY DEF SubmitOwns, SubIdle
<1>6. OwnIds
  BY DEF OwnIds, SubIdle
<1>7. \A i \in JobIds : WorkerOwns(i)
  BY DEF WorkerOwns, NoWorker
<1>8. CompletedHasResult /\ FailedRetries /\ RunningIsAlive
  BY DEF CompletedHasResult, FailedRetries, RunningIsAlive, NoRow
<1>. QED  BY <1>2, <1>4, <1>5, <1>6, <1>7, <1>8 DEF JobsInv

\* The slots of a submit that has no row yet.
Slots(pc) == IF pc = "write" THEN 1 ELSE 0

\* A submit's step that leaves the rows, the workers and the dedup table alone.
LEMMA BeforeRow ==
    ASSUME JobsInv, NEW s \in Submitters, NEW x \in Submits, sub' = [sub EXCEPT ![s] = x],
           sub[s].pc \notin {"insert", "start"}, x.pc \notin {"insert", "start"}, x.id = NoJob,
           x.pc # "idle" => x.input \in Inputs, UNCHANGED <<jobRow, jobRes, byHash, worker>>,
           nextId' \in {nextId, nextId + 1}, nextId' <= MaxJobs, jobFaults' \in {jobFaults, jobFaults + 1},
           running' = running + Slots(x.pc) - Slots(sub[s].pc),
           running' <= MaxRunning
    PROVE  JobsInv'
<1>0. /\ JobsTypes /\ OwnIds /\ Bounded /\ CompletedHasResult /\ FailedRetries /\ RunningIsAlive
      /\ nextId \in Nat /\ running \in Int /\ jobFaults \in Nat
      /\ jobRow' = jobRow /\ jobRes' = jobRes /\ byHash' = byHash /\ worker' = worker
  BY JobsNaturals DEF JobsInv, JobsTypes
<1>1. \A t \in Submitters : sub'[t] = IF t = s THEN x ELSE sub[t]
  BY <1>0 DEF JobsTypes
<1>2. /\ nextId' \in 0 .. MaxJobs /\ nextId <= nextId' /\ jobFaults' \in Nat /\ jobFaults <= jobFaults'
      /\ running' \in Int
  BY <1>0, JobsNaturals
<1>3. JobsTypes'
  BY <1>0, <1>2 DEF JobsTypes
<1>4. sub[s].id = NoJob
  BY DEF JobsInv, SubmitOwns
<1>5. ASSUME NEW t \in Submitters PROVE SubmitOwns(t)'
  <2>1. CASE t = s
    BY <1>1, <2>1 DEF SubmitOwns
  <2>2. CASE t # s
    <3>1. SubmitOwns(t) /\ sub'[t] = sub[t] /\ sub[t].id \in JobIds \cup {NoJob}
      BY <1>0, <1>1, <2>2 DEF JobsInv, JobsTypes, Submits
    <3>2. \A i \in JobIds : i < nextId => i < nextId'
      BY <1>0, <1>2, JobsNaturals
    <3>. QED  BY <1>0, <3>1, <3>2 DEF SubmitOwns
  <2>. QED  BY <2>1, <2>2
<1>6. OwnIds'
  BY <1>0, <1>1 DEF OwnIds
<1>7. ASSUME NEW i \in JobIds PROVE WorkerOwns(i)'
  <2>1. WorkerOwns(i) /\ (i < nextId => i < nextId') /\ (jobFaults > 0 => jobFaults' > 0)
    BY <1>0, <1>2, JobsNaturals DEF JobsInv
  <2>. QED  BY <1>0, <2>1 DEF WorkerOwns
<1>8. Bounded'
  <2>1. Cardinality(Admitted') = Cardinality(Admitted) + Slots(x.pc) - Slots(sub[s].pc)
    BY <1>0, SubmitCounts DEF Slots
  <2>2. AtWork' = AtWork
    BY <1>0 DEF AtWork
  <2>3. Slots(x.pc) \in Int /\ Slots(sub[s].pc) \in Int
    BY DEF Slots
  <2>. QED  BY <1>0, <2>1, <2>2, <2>3, CountsAre DEF Bounded
<1>9. CompletedHasResult' /\ FailedRetries'
  BY <1>0 DEF CompletedHasResult, FailedRetries
<1>10. RunningIsAlive'
  <2>. SUFFICES ASSUME NEW i \in JobIds, jobRow'[i].status = "Running"
                PROVE  \/ worker'[i].pc # "none" \/ jobFaults' > 0
                       \/ \E t \in Submitters : sub'[t].id = i
    BY DEF RunningIsAlive
  <2>1. \/ worker[i].pc # "none" \/ jobFaults > 0 \/ \E t \in Submitters : sub[t].id = i
    BY <1>0 DEF RunningIsAlive
  <2>2. ASSUME NEW t \in Submitters, sub[t].id = i PROVE sub'[t].id = i
    BY <1>1, <1>4, <2>2, JobsNaturals
  <2>3. jobFaults > 0 => jobFaults' > 0
    BY <1>0, <1>2
  <2>. QED  BY <1>0, <2>1, <2>2, <2>3
<1>. QED  BY <1>3, <1>5, <1>6, <1>7, <1>8, <1>9, <1>10 DEF JobsInv

LEMMA AdmissionStep ==
    ASSUME JobsInv, NEW s \in Submitters,
           \/ \E h \in Inputs : SubmitCheck(s, h)
           \/ SubmitLoad(s) \/ SubmitCas(s)
    PROVE  JobsInv'
<1>0. /\ sub[s] \in Submits /\ SubmitOwns(s) /\ running \in Int /\ nextId \in 0 .. MaxJobs /\ running <= MaxRunning
      /\ jobFaults \in Nat
  BY DEF JobsInv, JobsTypes, Bounded
<1>1. /\ SubIdle \in Submits /\ SubIdle.pc = "idle" /\ SubIdle.id = NoJob
      /\ MaxRunning \in Nat /\ MaxJobs \in Nat
  BY JobsNaturals DEF SubIdle, Submits, SomeInput
<1>2. nextId \in Nat /\ nextId <= MaxJobs
  BY <1>0, <1>1
<1>3. running + 0 - 0 = running /\ running + 1 - 0 = running + 1 /\ running <= MaxRunning
  BY <1>0
<1>4. ASSUME NEW h \in Inputs, SubmitCheck(s, h) PROVE JobsInv'
  <2>1. PICK x : x = [SubIdle EXCEPT !.pc = "load", !.input = h]
    OBVIOUS
  <2>2. x \in Submits /\ x.pc = "load" /\ x.id = NoJob /\ x.input = h
    BY <1>1, <2>1 DEF Submits, SubIdle, SomeInput
  <2>3. /\ sub' = [sub EXCEPT ![s] = x] /\ running' = running
        /\ sub[s].pc = "idle" /\ UNCHANGED <<jobRow, jobRes, byHash, worker, nextId, jobFaults>>
    BY <1>1, <1>4, <2>1 DEF SubmitCheck
  <2>. QED  BY <1>2, <1>3, <2>2, <2>3, BeforeRow DEF Slots
<1>5. CASE SubmitLoad(s)
  <2>1. PICK x : x = [sub[s] EXCEPT !.pc = "cas", !.cur = running]
    OBVIOUS
  <2>2. x \in Submits /\ x.pc = "cas" /\ x.id = NoJob /\ x.input \in Inputs
    BY <1>0, <1>5, <2>1 DEF Submits, SubmitLoad, SubmitOwns
  <2>3. /\ sub' = [sub EXCEPT ![s] = x] /\ running' = running
        /\ sub[s].pc = "load" /\ UNCHANGED <<jobRow, jobRes, byHash, worker, nextId, jobFaults>>
    BY <1>0, <1>5, <2>1 DEF SubmitLoad
  <2>. QED  BY <1>2, <1>3, <2>2, <2>3, BeforeRow DEF Slots
<1>6. CASE SubmitCas(s)
  <2>0. /\ sub[s].id = NoJob /\ sub[s].input \in Inputs
        /\ sub[s].pc = "cas" /\ UNCHANGED <<jobRow, jobRes, byHash, worker, nextId, jobFaults>>
    BY <1>0, <1>6 DEF SubmitCas, SubmitOwns
  <2>1. CASE sub' = [sub EXCEPT ![s] = SubIdle] /\ running' = running
    BY <1>1, <1>2, <1>3, <2>0, <2>1, BeforeRow DEF Slots
  <2>2. CASE sub[s].cur < MaxRunning /\ CasWins(s) /\ sub' = [sub EXCEPT ![s].pc = "write"] /\ running' = running + 1
    <3>1. PICK x : x = [sub[s] EXCEPT !.pc = "write"]
      OBVIOUS
    <3>2. x \in Submits /\ x.pc = "write" /\ x.id = NoJob /\ x.input \in Inputs
      BY <1>0, <2>0, <3>1 DEF Submits
    <3>3. sub' = [sub EXCEPT ![s] = x] /\ running' <= MaxRunning
      BY <1>0, <1>1, <2>2, <3>1 DEF CasWins
    <3>. QED  BY <1>2, <1>3, <2>0, <2>2, <3>2, <3>3, BeforeRow DEF Slots
  <2>3. CASE sub' = [sub EXCEPT ![s].cur = running] /\ running' = running
    <3>1. PICK x : x = [sub[s] EXCEPT !.cur = running]
      OBVIOUS
    <3>2. x \in Submits /\ x.pc = "cas" /\ x.id = NoJob /\ x.input \in Inputs
      BY <1>0, <1>6, <2>0, <3>1 DEF Submits, SubmitCas
    <3>3. sub' = [sub EXCEPT ![s] = x]
      BY <2>3, <3>1
    <3>. QED  BY <1>2, <1>3, <2>0, <2>3, <3>2, <3>3, BeforeRow DEF Slots
  <2>. QED  BY <1>6, <2>1, <2>2, <2>3 DEF SubmitCas
<1>. QED  BY <1>4, <1>5, <1>6

LEMMA WriteStep == ASSUME JobsInv, NEW s \in Submitters, SubmitWrite(s) PROVE JobsInv'
<1>0. /\ JobsTypes /\ OwnIds /\ Bounded /\ CompletedHasResult /\ FailedRetries /\ RunningIsAlive
      /\ sub[s] \in Submits /\ running \in Int /\ nextId \in Nat /\ jobFaults \in Nat
      /\ sub[s].pc = "write" /\ nextId < MaxJobs /\ nextId' = nextId + 1
      /\ sub[s].input \in Inputs /\ sub[s].id = NoJob
  <2>1. JobsTypes /\ SubmitOwns(s) /\ sub[s].pc = "write"
    BY DEF JobsInv, SubmitWrite
  <2>2. sub[s] \in Submits /\ running \in Int /\ nextId \in Nat /\ jobFaults \in Nat
    BY <2>1, JobsNaturals DEF JobsTypes
  <2>. QED  BY <2>1, <2>2 DEF JobsInv, SubmitOwns, SubmitWrite
<1>1. UNCHANGED <<jobRes, byHash, worker>> /\ nextId' \in 0 .. MaxJobs /\ nextId \in JobIds /\ nextId' \in Nat
  BY <1>0, JobsNaturals DEF SubmitWrite, JobIds
<1>2. CASE JobFault /\ running' = running - 1 /\ sub' = [sub EXCEPT ![s] = SubIdle] /\ jobRow' = jobRow
  <2>1. /\ SubIdle \in Submits /\ SubIdle.pc = "idle" /\ SubIdle.id = NoJob
    BY JobsNaturals DEF SubIdle, Submits, SomeInput
  <2>2. /\ jobFaults' \in {jobFaults, jobFaults + 1} /\ nextId' <= MaxJobs /\ running + 0 - 1 = running'
        /\ running' <= MaxRunning
    BY <1>0, <1>2, JobsNaturals DEF JobFault, Bounded
  <2>. QED  BY <1>0, <1>1, <1>2, <2>1, <2>2, BeforeRow DEF Slots
<1>3. CASE /\ jobRow' = [jobRow EXCEPT ![nextId] = [status |-> "Running", input |-> sub[s].input]]
           /\ sub' = [sub EXCEPT ![s].pc = "insert", ![s].id = nextId]
           /\ UNCHANGED <<running, jobFaults>>
  <2>1. PICK x, r, n : /\ x = [sub[s] EXCEPT !.pc = "insert", !.id = nextId] /\ n = nextId
                       /\ r = [status |-> "Running", input |-> sub[s].input]
    OBVIOUS
  <2>2. /\ x \in Submits /\ x.pc = "insert" /\ x.id = n /\ x.input = sub[s].input
        /\ r \in Rows /\ r.status = "Running" /\ r.input = sub[s].input /\ n \in JobIds /\ n = nextId
    BY <1>0, <1>1, <2>1 DEF Submits, Rows, Statuses, SomeInput
  <2>3. jobRow' = [jobRow EXCEPT ![n] = r] /\ sub' = [sub EXCEPT ![s] = x]
    BY <1>3, <2>1
  <2>4. /\ \A t \in Submitters : sub'[t] = IF t = s THEN x ELSE sub[t]
        /\ \A i \in JobIds : jobRow'[i] = IF i = n THEN r ELSE jobRow[i]
    BY <1>0, <2>2, <2>3 DEF JobsTypes
  <2>5. JobsTypes'
    <3>1. jobRow' \in [JobIds -> Rows] /\ sub' \in [Submitters -> Submits]
      BY <1>0, <2>2, <2>3 DEF JobsTypes
    <3>. QED  BY <1>0, <1>1, <1>3, <3>1 DEF JobsTypes
  <2>6. \A i \in JobIds : i < nextId => i # n /\ i < nextId'
    BY <1>0, <2>2, JobsNaturals
  <2>7. worker[n].pc = "none"
    BY <2>2, JobsNaturals DEF JobsInv, WorkerOwns
  <2>8. ASSUME NEW t \in Submitters PROVE SubmitOwns(t)'
    <3>1. CASE t = s
      <4>1. n < nextId'
        BY <1>0, <2>2
      <4>2. sub'[t] = x /\ x.input \in Inputs /\ worker'[n].pc = "none" /\ jobRow'[n] = r
        BY <1>0, <1>1, <2>2, <2>4, <2>7, <3>1
      <4>3. r = [status |-> "Running", input |-> x.input]
        BY <2>1, <2>2
      <4>. QED  BY <2>2, <4>1, <4>2, <4>3 DEF SubmitOwns
    <3>2. CASE t # s
      <4>1. SubmitOwns(t) /\ sub'[t] = sub[t]
        BY <2>4, <3>2 DEF JobsInv
      <4>. QED  BY <1>1, <2>4, <2>6, <4>1 DEF SubmitOwns
    <3>. QED  BY <3>1, <3>2
  <2>9. \A t \in Submitters : sub[t].id # n
    <3>1. ASSUME NEW t \in Submitters PROVE sub[t].id # n
      <4>1. SubmitOwns(t)
        BY DEF JobsInv
      <4>. QED  BY <2>2, <2>6, <4>1, JobsNaturals DEF SubmitOwns
    <3>. QED  BY <3>1
  <2>10. OwnIds'
    BY <1>0, <2>2, <2>4, <2>9 DEF OwnIds
  <2>11. ASSUME NEW i \in JobIds PROVE WorkerOwns(i)'
    <3>1. WorkerOwns(i)
      BY DEF JobsInv
    <3>. QED  BY <1>1, <1>3, <2>4, <2>6, <2>7, <3>1 DEF WorkerOwns
  <2>12. Bounded'
    <3>1. Cardinality(Admitted') = Cardinality(Admitted) + 1 - 1
      BY <1>0, <2>2, <2>3, SubmitCounts
    <3>2. AtWork' = AtWork
      BY <1>1 DEF AtWork
    <3>. QED  BY <1>0, <1>3, <3>1, <3>2, CountsAre DEF Bounded
  <2>13. CompletedHasResult'
    BY <1>0, <1>1, <2>2, <2>4 DEF CompletedHasResult
  <2>14. FailedRetries'
    BY <1>0, <1>1, <2>2, <2>4 DEF FailedRetries
  <2>15. RunningIsAlive'
    <3>. SUFFICES ASSUME NEW i \in JobIds, jobRow'[i].status = "Running"
                  PROVE  \/ worker'[i].pc # "none" \/ jobFaults' > 0
                         \/ \E t \in Submitters : sub'[t].id = i
      BY DEF RunningIsAlive
    <3>1. CASE i = n
      BY <2>2, <2>4, <3>1
    <3>2. CASE i # n
      <4>1. \/ worker[i].pc # "none" \/ jobFaults > 0 \/ \E t \in Submitters : sub[t].id = i
        BY <1>0, <2>4, <3>2 DEF RunningIsAlive
      <4>2. \A t \in Submitters : sub[t].id = i => sub'[t].id = i
        BY <1>0, <2>4, JobsNaturals
      <4>. QED  BY <1>1, <1>3, <4>1, <4>2
    <3>. QED  BY <3>1, <3>2
  <2>. QED  BY <2>5, <2>8, <2>10, <2>11, <2>12, <2>13, <2>14, <2>15 DEF JobsInv
<1>. QED  BY <1>2, <1>3 DEF SubmitWrite

LEMMA InsertStep == ASSUME JobsInv, NEW s \in Submitters, SubmitInsert(s) PROVE JobsInv'
<1>0. /\ JobsTypes /\ OwnIds /\ Bounded /\ CompletedHasResult /\ FailedRetries /\ RunningIsAlive
      /\ sub[s] \in Submits /\ SubmitOwns(s) /\ sub[s].pc = "insert" /\ running \in Int
      /\ UNCHANGED <<jobRow, jobRes, nextId, running, worker, jobFaults>>
  BY DEF JobsInv, JobsTypes, SubmitInsert
<1>1. PICK x, h, n : x = [sub[s] EXCEPT !.pc = "start"] /\ h = sub[s].input /\ n = sub[s].id
  OBVIOUS
<1>2. /\ x \in Submits /\ x.pc = "start" /\ x.id = sub[s].id /\ x.input = sub[s].input
      /\ h \in Inputs /\ n \in JobIds /\ jobRow[n].status = "Running"
  BY <1>0, <1>1 DEF Submits, SubmitOwns
<1>3. sub' = [sub EXCEPT ![s] = x] /\ byHash' = [byHash EXCEPT ![h] = n]
  BY <1>1 DEF SubmitInsert
<1>4. \A t \in Submitters : sub'[t] = IF t = s THEN x ELSE sub[t]
  BY <1>0, <1>3 DEF JobsTypes
<1>5. JobsTypes'
  BY <1>0, <1>2, <1>3 DEF JobsTypes
<1>6. ASSUME NEW t \in Submitters PROVE SubmitOwns(t)'
  <2>1. SubmitOwns(t)
    BY DEF JobsInv
  <2>. QED  BY <1>0, <1>2, <1>4, <2>1 DEF SubmitOwns
<1>7. \A t \in Submitters : sub'[t].id = sub[t].id
  BY <1>2, <1>4
<1>8. OwnIds' /\ RunningIsAlive'
  BY <1>0, <1>7 DEF OwnIds, RunningIsAlive
<1>9. ASSUME NEW i \in JobIds PROVE WorkerOwns(i)'
  <2>1. WorkerOwns(i)
    BY DEF JobsInv
  <2>. QED  BY <1>0, <2>1 DEF WorkerOwns
<1>10. Bounded'
  <2>1. Cardinality(Admitted') = Cardinality(Admitted) + 1 - 1
    BY <1>0, <1>2, <1>3, SubmitCounts
  <2>2. AtWork' = AtWork
    BY <1>0 DEF AtWork
  <2>. QED  BY <1>0, <2>1, <2>2, CountsAre DEF Bounded
<1>11. CompletedHasResult'
  BY <1>0 DEF CompletedHasResult
<1>12. FailedRetries'
  <2>. SUFFICES ASSUME NEW g \in Inputs, NEW i \in JobIds, byHash'[g] = i,
                       jobRow'[i] = [status |-> "Failed", input |-> g]
                PROVE  worker'[i].pc = "evict"
    BY DEF FailedRetries
  <2>1. i # n
    BY <1>0, <1>2
  <2>2. byHash[g] = i
    BY <1>0, <1>3, <2>1 DEF JobsTypes
  <2>. QED  BY <1>0, <2>2 DEF FailedRetries
<1>. QED  BY <1>5, <1>6, <1>8, <1>9, <1>10, <1>11, <1>12 DEF JobsInv

LEMMA StartStep == ASSUME JobsInv, NEW s \in Submitters, SubmitStart(s) PROVE JobsInv'
<1>0. /\ JobsTypes /\ OwnIds /\ Bounded /\ CompletedHasResult /\ FailedRetries /\ RunningIsAlive
      /\ sub[s] \in Submits /\ SubmitOwns(s) /\ sub[s].pc = "start" /\ running \in Int
      /\ UNCHANGED <<jobRow, jobRes, byHash, nextId, running, jobFaults>>
  BY DEF JobsInv, JobsTypes, SubmitStart
<1>1. PICK w, n : w = [NoWorker EXCEPT !.pc = "run", !.input = sub[s].input] /\ n = sub[s].id
  OBVIOUS
<1>2. /\ w \in JobWorkers /\ w.pc = "run" /\ w.input = sub[s].input /\ sub[s].input \in Inputs
      /\ n \in JobIds /\ n < nextId /\ worker[n].pc = "none"
      /\ jobRow[n] = [status |-> "Running", input |-> sub[s].input]
  BY <1>0, <1>1 DEF JobWorkers, NoWorker, SubmitOwns, Statuses, SomeInput
<1>3. sub' = [sub EXCEPT ![s] = SubIdle] /\ worker' = [worker EXCEPT ![n] = w]
  BY <1>1 DEF SubmitStart
<1>4. SubIdle \in Submits /\ SubIdle.pc = "idle" /\ SubIdle.id = NoJob
  BY JobsNaturals DEF SubIdle, Submits, SomeInput
<1>5. /\ \A t \in Submitters : sub'[t] = IF t = s THEN SubIdle ELSE sub[t]
      /\ \A i \in JobIds : worker'[i] = IF i = n THEN w ELSE worker[i]
  BY <1>0, <1>2, <1>3 DEF JobsTypes
<1>6. JobsTypes'
  BY <1>0, <1>2, <1>3, <1>4 DEF JobsTypes
<1>7. ASSUME NEW t \in Submitters PROVE SubmitOwns(t)'
  <2>1. CASE t = s
    BY <1>4, <1>5, <2>1 DEF SubmitOwns
  <2>2. CASE t # s
    <3>1. SubmitOwns(t) /\ sub'[t] = sub[t]
      BY <1>5, <2>2 DEF JobsInv
    <3>2. sub[t].id # n
      BY <1>0, <1>1, <1>2, <2>2, JobsNaturals DEF OwnIds
    <3>. QED  BY <1>0, <1>5, <3>1, <3>2 DEF SubmitOwns
  <2>. QED  BY <2>1, <2>2
<1>8. OwnIds'
  BY <1>0, <1>4, <1>5 DEF OwnIds
<1>9. ASSUME NEW i \in JobIds PROVE WorkerOwns(i)'
  <2>1. WorkerOwns(i)
    BY DEF JobsInv
  <2>2. CASE i = n
    BY <1>0, <1>2, <1>5, <2>2 DEF WorkerOwns
  <2>3. CASE i # n
    BY <1>0, <1>5, <2>1, <2>3 DEF WorkerOwns
  <2>. QED  BY <2>2, <2>3
<1>10. Bounded'
  <2>1. Cardinality(Admitted') = Cardinality(Admitted) + 0 - 1
    BY <1>0, <1>3, <1>4, SubmitCounts
  <2>2. Cardinality(AtWork') = Cardinality(AtWork) + 1 - 0
    BY <1>0, <1>2, <1>3, WorkerCounts
  <2>. QED  BY <1>0, <2>1, <2>2, CountsAre DEF Bounded
<1>11. CompletedHasResult'
  BY <1>0 DEF CompletedHasResult
<1>12. FailedRetries'
  BY <1>0, <1>2, <1>5 DEF FailedRetries
<1>13. RunningIsAlive'
  <2>. SUFFICES ASSUME NEW i \in JobIds, jobRow'[i].status = "Running"
                PROVE  \/ worker'[i].pc # "none" \/ jobFaults' > 0
                       \/ \E t \in Submitters : sub'[t].id = i
    BY DEF RunningIsAlive
  <2>1. CASE i = n
    BY <1>2, <1>5, <2>1
  <2>2. CASE i # n
    <3>1. \/ worker[i].pc # "none" \/ jobFaults > 0 \/ \E t \in Submitters : sub[t].id = i
      BY <1>0 DEF RunningIsAlive
    <3>2. \A t \in Submitters : sub[t].id = i => sub'[t].id = i
      BY <1>1, <1>5, <2>2
    <3>. QED  BY <1>0, <1>5, <2>2, <3>1, <3>2
  <2>. QED  BY <2>1, <2>2
<1>. QED  BY <1>6, <1>7, <1>8, <1>9, <1>10, <1>11, <1>12, <1>13 DEF JobsInv

LEMMA AbortStep == ASSUME JobsInv, NEW s \in Submitters, SubmitAbort(s) PROVE JobsInv'
<1>0. /\ JobsTypes /\ OwnIds /\ Bounded /\ CompletedHasResult /\ FailedRetries /\ RunningIsAlive
      /\ sub[s] \in Submits /\ SubmitOwns(s) /\ sub[s].pc = "start" /\ running \in Int /\ jobFaults \in Nat
      /\ UNCHANGED <<jobRes, nextId, worker>> /\ jobFaults' = jobFaults + 1 /\ running' = running - 1
      /\ sub' = [sub EXCEPT ![s] = SubIdle]
  BY DEF JobsInv, JobsTypes, SubmitAbort, JobFault, SlotsAfterAbort
<1>1. PICK h, n : h = sub[s].input /\ n = sub[s].id
  OBVIOUS
<1>2. /\ h \in Inputs /\ n \in JobIds /\ worker[n].pc = "none" /\ jobRow[n].status = "Running"
      /\ byHash' = [byHash EXCEPT ![h] = NoJob] /\ jobRow' \in {jobRow, [jobRow EXCEPT ![n] = NoRow]}
  BY <1>0, <1>1 DEF SubmitOwns, SubmitAbort
<1>3. /\ SubIdle \in Submits /\ SubIdle.pc = "idle" /\ SubIdle.id = NoJob
      /\ NoRow \in Rows /\ NoRow.status = "none"
  BY JobsNaturals DEF SubIdle, Submits, SomeInput, NoRow, Rows, Statuses
<1>4. /\ \A t \in Submitters : sub'[t] = IF t = s THEN SubIdle ELSE sub[t]
      /\ \A i \in JobIds : i # n => jobRow'[i] = jobRow[i]
      /\ jobRow'[n].status \in {"none", "Running"}
      /\ \A g \in Inputs : byHash'[g] \in {byHash[g], NoJob}
  BY <1>0, <1>2, <1>3 DEF JobsTypes
<1>5. JobsTypes'
  <2>1. jobRow' \in [JobIds -> Rows] /\ sub' \in [Submitters -> Submits]
    BY <1>0, <1>2, <1>3 DEF JobsTypes
  <2>2. byHash' \in [Inputs -> JobIds \cup {NoJob}] /\ running' \in Int /\ jobFaults' \in Nat
    BY <1>0, <1>2 DEF JobsTypes
  <2>. QED  BY <1>0, <2>1, <2>2 DEF JobsTypes
<1>6. ASSUME NEW t \in Submitters PROVE SubmitOwns(t)'
  <2>1. CASE t = s
    BY <1>3, <1>4, <2>1 DEF SubmitOwns
  <2>2. CASE t # s
    <3>1. SubmitOwns(t) /\ sub'[t] = sub[t]
      BY <1>4, <2>2 DEF JobsInv
    <3>2. sub[t].id # n
      BY <1>0, <1>1, <1>2, <2>2, JobsNaturals DEF OwnIds
    <3>. QED  BY <1>0, <1>4, <3>1, <3>2 DEF SubmitOwns
  <2>. QED  BY <2>1, <2>2
<1>7. OwnIds'
  BY <1>0, <1>3, <1>4 DEF OwnIds
<1>8. ASSUME NEW i \in JobIds PROVE WorkerOwns(i)'
  <2>1. WorkerOwns(i) /\ jobFaults' > 0
    BY <1>0 DEF JobsInv
  <2>. QED  BY <1>0, <1>2, <1>4, <2>1 DEF WorkerOwns
<1>9. Bounded'
  <2>1. Cardinality(Admitted') = Cardinality(Admitted) + 0 - 1
    BY <1>0, <1>3, SubmitCounts
  <2>2. AtWork' = AtWork
    BY <1>0 DEF AtWork
  <2>. QED  BY <1>0, <2>1, <2>2, CountsAre, JobsNaturals DEF Bounded
<1>10. CompletedHasResult'
  BY <1>0, <1>2, <1>4 DEF CompletedHasResult
<1>11. FailedRetries'
  <2>. SUFFICES ASSUME NEW g \in Inputs, NEW i \in JobIds, byHash'[g] = i,
                       jobRow'[i] = [status |-> "Failed", input |-> g]
                PROVE  worker'[i].pc = "evict"
    BY DEF FailedRetries
  <2>1. i # n /\ jobRow'[i] = jobRow[i]
    BY <1>4
  <2>2. byHash[g] = i
    BY <1>4, JobsNaturals
  <2>. QED  BY <1>0, <2>1, <2>2 DEF FailedRetries
<1>12. RunningIsAlive'
  <2>1. jobFaults' > 0
    BY <1>0
  <2>. QED  BY <2>1 DEF RunningIsAlive
<1>. QED  BY <1>5, <1>6, <1>7, <1>8, <1>9, <1>10, <1>11, <1>12 DEF JobsInv

LEMMA FinishStep == ASSUME JobsInv, NEW i \in JobIds, WorkerFinish(i) PROVE JobsInv'
<1>0. /\ JobsTypes /\ OwnIds /\ Bounded /\ CompletedHasResult /\ FailedRetries /\ RunningIsAlive
      /\ worker[i] \in JobWorkers /\ worker[i].pc = "run" /\ WorkerOwns(i) /\ jobRow[i] \in Rows
      /\ running \in Int /\ jobFaults \in Nat /\ UNCHANGED <<byHash, nextId, running, sub>>
  BY DEF JobsInv, JobsTypes, WorkerFinish
<1>1. /\ i < nextId /\ worker[i].input \in Inputs /\ jobRow[i].input = worker[i].input
      /\ jobRow[i].status = "Running" /\ jobRow[i] # NoRow
  BY <1>0 DEF WorkerOwns, NoRow
<1>2. PICK ok \in BOOLEAN, status \in {"Completed", "Failed"} :
        /\ status = IF ok THEN "Completed" ELSE "Failed"
        /\ worker' = [worker EXCEPT ![i].pc = "evict", ![i].status = status]
        /\ \/ /\ jobRow' = [jobRow EXCEPT ![i].status = status]
              /\ jobRes' = ResultLanded(i, ok) /\ jobFaults' = jobFaults
           \/ JobFault /\ UNCHANGED <<jobRow, jobRes>>
  BY <1>1 DEF WorkerFinish
<1>3. PICK w, r : /\ w = [worker[i] EXCEPT !.pc = "evict", !.status = status]
                  /\ r = [jobRow[i] EXCEPT !.status = status]
  OBVIOUS
<1>4. /\ w \in JobWorkers /\ w.pc = "evict" /\ w.status = status /\ w.input = worker[i].input
      /\ r \in Rows /\ r.status = status /\ r.input = worker[i].input /\ status \in {"Completed", "Failed"}
  BY <1>0, <1>1, <1>2, <1>3 DEF JobWorkers, Rows, Statuses
<1>5. worker' = [worker EXCEPT ![i] = w]
  BY <1>2, <1>3
<1>6. \/ /\ jobRow' = [jobRow EXCEPT ![i] = r] /\ jobFaults' = jobFaults
         /\ jobRes' = jobRes \/ (jobRes' = [jobRes EXCEPT ![i] = worker[i].input])
         /\ status = "Completed" => jobRes' = [jobRes EXCEPT ![i] = worker[i].input]
      \/ jobFaults' = jobFaults + 1 /\ UNCHANGED <<jobRow, jobRes>>
  BY <1>2, <1>3 DEF ResultLanded, JobFault
<1>7. /\ \A j \in JobIds : worker'[j] = IF j = i THEN w ELSE worker[j]
      /\ \A j \in JobIds : j # i => jobRow'[j] = jobRow[j] /\ jobRes'[j] = jobRes[j]
      /\ jobFaults' \in Nat /\ jobFaults <= jobFaults'
      /\ jobRow'[i].input = worker[i].input
      /\ \/ jobRow'[i].status = "Running" /\ jobFaults' > 0
         \/ /\ jobRow'[i].status = status
            /\ status = "Completed" => jobRes'[i] = worker[i].input
  <2>1. \A j \in JobIds : worker'[j] = IF j = i THEN w ELSE worker[j]
    BY <1>0, <1>5 DEF JobsTypes
  <2>2. \A j \in JobIds : j # i => jobRow'[j] = jobRow[j] /\ jobRes'[j] = jobRes[j]
    BY <1>0, <1>6 DEF JobsTypes
  <2>3. jobFaults' \in Nat /\ jobFaults <= jobFaults'
    BY <1>0, <1>6
  <2>4. CASE jobRow' = [jobRow EXCEPT ![i] = r] /\ (status = "Completed" => jobRes' = [jobRes EXCEPT ![i] = worker[i].input])
    BY <1>0, <1>4, <2>1, <2>2, <2>3, <2>4 DEF JobsTypes
  <2>5. CASE jobFaults' = jobFaults + 1 /\ UNCHANGED <<jobRow, jobRes>>
    BY <1>0, <1>1, <2>1, <2>2, <2>3, <2>5
  <2>. QED  BY <1>6, <2>4, <2>5
<1>8. JobsTypes'
  <2>1. worker' \in [JobIds -> JobWorkers] /\ jobRow' \in [JobIds -> Rows]
    BY <1>0, <1>4, <1>5, <1>6 DEF JobsTypes
  <2>2. jobRes' \in [JobIds -> SomeInput]
    BY <1>0, <1>1, <1>6 DEF JobsTypes, SomeInput
  <2>. QED  BY <1>0, <1>7, <2>1, <2>2 DEF JobsTypes
<1>9. ASSUME NEW t \in Submitters PROVE SubmitOwns(t)'
  <2>1. SubmitOwns(t)
    BY DEF JobsInv
  <2>2. sub[t].pc \in {"insert", "start"} => sub[t].id # i
    BY <1>0, <2>1 DEF SubmitOwns
  <2>. QED  BY <1>0, <1>7, <2>1, <2>2 DEF SubmitOwns
<1>10. OwnIds'
  BY <1>0 DEF OwnIds
<1>11. ASSUME NEW j \in JobIds PROVE WorkerOwns(j)'
  <2>1. CASE j = i
    BY <1>0, <1>1, <1>4, <1>7, <2>1 DEF WorkerOwns
  <2>2. CASE j # i
    <3>1. WorkerOwns(j) /\ (jobFaults > 0 => jobFaults' > 0)
      BY <1>0, <1>7 DEF JobsInv
    <3>. QED  BY <1>0, <1>7, <2>2, <3>1 DEF WorkerOwns
  <2>. QED  BY <2>1, <2>2
<1>12. Bounded'
  <2>1. Cardinality(AtWork') = Cardinality(AtWork) + 1 - 1
    BY <1>0, <1>4, <1>5, WorkerCounts
  <2>2. Admitted' = Admitted
    BY <1>0 DEF Admitted
  <2>. QED  BY <1>0, <2>1, <2>2, CountsAre DEF Bounded
<1>13. CompletedHasResult'
  BY <1>0, <1>7 DEF CompletedHasResult
<1>14. FailedRetries'
  BY <1>0, <1>4, <1>7 DEF FailedRetries
<1>15. RunningIsAlive'
  <2>. SUFFICES ASSUME NEW j \in JobIds, jobRow'[j].status = "Running"
                PROVE  \/ worker'[j].pc # "none" \/ jobFaults' > 0
                       \/ \E t \in Submitters : sub'[t].id = j
    BY DEF RunningIsAlive
  <2>1. CASE j = i
    BY <1>4, <1>7, <2>1
  <2>2. CASE j # i
    <3>1. \/ worker[j].pc # "none" \/ jobFaults > 0 \/ \E t \in Submitters : sub[t].id = j
      BY <1>0, <1>7, <2>2 DEF RunningIsAlive
    <3>2. jobFaults > 0 => jobFaults' > 0
      BY <1>0, <1>7
    <3>. QED  BY <1>0, <1>7, <2>2, <3>1, <3>2
  <2>. QED  BY <2>1, <2>2
<1>. QED  BY <1>8, <1>9, <1>10, <1>11, <1>12, <1>13, <1>14, <1>15 DEF JobsInv

LEMMA EndStep == ASSUME JobsInv, NEW i \in JobIds, WorkerEnd(i) PROVE JobsInv'
<1>0. /\ JobsTypes /\ OwnIds /\ Bounded /\ CompletedHasResult /\ FailedRetries /\ RunningIsAlive
      /\ worker[i].pc = "evict" /\ WorkerOwns(i) /\ running \in Int
      /\ UNCHANGED <<jobRow, jobRes, nextId, sub, jobFaults>> /\ running' = running - 1
      /\ worker' = [worker EXCEPT ![i] = NoWorker] /\ byHash' = ByHashAfter(i)
  BY DEF JobsInv, JobsTypes, WorkerEnd
<1>1. NoWorker \in JobWorkers /\ NoWorker.pc = "none"
  BY DEF NoWorker, JobWorkers, Statuses, SomeInput
<1>2. \A j \in JobIds : worker'[j] = IF j = i THEN NoWorker ELSE worker[j]
  BY <1>0 DEF JobsTypes
<1>3. /\ jobRow[i].input \in Inputs /\ jobRow[i] # NoRow
  BY <1>0, JobsNaturals DEF WorkerOwns, NoRow
<1>4. /\ byHash' \in [Inputs -> JobIds \cup {NoJob}]
      /\ \A g \in Inputs : byHash'[g] \in {byHash[g], NoJob}
      /\ jobRow[i].status = "Failed" => byHash'[jobRow[i].input] = NoJob
  BY <1>0, <1>3 DEF JobsTypes, ByHashAfter, WorkerOwns
<1>5. JobsTypes'
  <2>1. worker' \in [JobIds -> JobWorkers] /\ running' \in Int
    BY <1>0, <1>1 DEF JobsTypes
  <2>. QED  BY <1>0, <1>4, <2>1 DEF JobsTypes
<1>6. ASSUME NEW t \in Submitters PROVE SubmitOwns(t)'
  <2>1. SubmitOwns(t)
    BY DEF JobsInv
  <2>. QED  BY <1>0, <1>1, <1>2, <2>1 DEF SubmitOwns
<1>7. OwnIds' /\ CompletedHasResult'
  BY <1>0 DEF OwnIds, CompletedHasResult
<1>8. ASSUME NEW j \in JobIds PROVE WorkerOwns(j)'
  <2>1. WorkerOwns(j)
    BY DEF JobsInv
  <2>. QED  BY <1>0, <1>1, <1>2, <2>1 DEF WorkerOwns
<1>9. Bounded'
  <2>1. Cardinality(AtWork') = Cardinality(AtWork) + 0 - 1
    BY <1>0, <1>1, WorkerCounts
  <2>2. Admitted' = Admitted
    BY <1>0 DEF Admitted
  <2>. QED  BY <1>0, <2>1, <2>2, CountsAre, JobsNaturals DEF Bounded
<1>10. FailedRetries'
  <2>. SUFFICES ASSUME NEW g \in Inputs, NEW j \in JobIds, byHash'[g] = j,
                       jobRow'[j] = [status |-> "Failed", input |-> g]
                PROVE  worker'[j].pc = "evict"
    BY DEF FailedRetries
  <2>1. byHash[g] = j /\ j # NoJob
    BY <1>4, JobsNaturals
  <2>2. j # i
    BY <1>0, <1>4, <2>1
  <2>. QED  BY <1>0, <1>2, <2>1, <2>2 DEF FailedRetries
<1>11. RunningIsAlive'
  <2>1. jobRow[i].status = "Running" => jobFaults > 0
    BY <1>0 DEF WorkerOwns
  <2>. QED  BY <1>0, <1>2, <2>1 DEF RunningIsAlive
<1>. QED  BY <1>5, <1>6, <1>7, <1>8, <1>9, <1>10, <1>11 DEF JobsInv

\* A set of ids has a largest one.
LEMMA LastId == ASSUME NEW U \in SUBSET JobIds, U # {} PROVE \E i \in U : \A j \in U : j <= i
<1>. DEFINE T == {MaxJobs - i : i \in U}
<1>1. \A i \in U : i \in Nat /\ MaxJobs - i \in Nat
  BY JobsNaturals DEF JobIds
<1>2. T \in SUBSET Nat /\ T # {}
  BY <1>1
<1>. HIDE DEF T
<1>3. PICK x \in T : \A y \in T : ~ (<<y, x>> \in OpToRel(<, Nat))
  BY <1>2, WFMin, NatLessThanWellFounded
<1>4. \A y \in T : ~ (y < x)
  BY <1>2, <1>3 DEF OpToRel
<1>5. PICK i \in U : x = MaxJobs - i
  BY DEF T
<1>6. ASSUME NEW j \in U PROVE j <= i
  <2>1. ~ (MaxJobs - j < MaxJobs - i)
    BY <1>4, <1>5 DEF T
  <2>. QED  BY <1>1, <2>1, JobsNaturals
<1>. QED  BY <1>6

LEMMA RestartStep == ASSUME JobsInv, JobsRestart PROVE JobsInv'
<1>. DEFINE rows == [i \in JobIds |-> RecoveredRow(jobRow[i])]
            known(h) == {i \in JobIds : rows[i].input = h /\ rows[i].status # "Failed"}
            last(h) == CHOOSE i \in known(h) : \A j \in known(h) : j <= i
<1>0. /\ JobsTypes /\ CompletedHasResult /\ jobRow' = rows /\ running' = 0 /\ UNCHANGED <<jobRes, jobFaults>>
      /\ byHash' = [h \in Inputs |-> IF known(h) = {} THEN NoJob ELSE last(h)]
      /\ nextId' = NextIdAtOpen(jobRow) /\ sub' = [s \in Submitters |-> SubIdle]
      /\ worker' = [i \in JobIds |-> NoWorker]
  BY DEF JobsInv, JobsRestart
<1>1. ASSUME NEW i \in JobIds
      PROVE  /\ rows[i] \in Rows /\ rows[i].status # "Running"
             /\ rows[i].status = "Completed" => rows[i] = jobRow[i]
  <2>1. jobRow[i] \in Rows
    BY <1>0 DEF JobsTypes
  <2>. QED  BY <2>1 DEF RecoveredRow, Rows, Statuses
<1>2. \A h \in Inputs : known(h) # {} => last(h) \in known(h)
  <2>1. ASSUME NEW h \in Inputs, known(h) # {} PROVE last(h) \in known(h)
    <3>1. \E i \in known(h) : \A j \in known(h) : j <= i
      BY <2>1, LastId
    <3>. QED  BY <3>1
  <2>. QED  BY <2>1
<1>3. nextId' \in 0 .. MaxJobs
  <2>. DEFINE U == {i \in JobIds : jobRow[i] # NoRow}
  <2>1. NextIdAtOpen(jobRow) = IF U = {} THEN 0 ELSE CHOOSE i \in U : \A j \in U : j <= i
    BY DEF NextIdAtOpen
  <2>2. U # {} => \E i \in U : \A j \in U : j <= i
    BY LastId
  <2>3. NextIdAtOpen(jobRow) \in JobIds \cup {0}
    BY <2>1, <2>2
  <2>. QED  BY <1>0, <2>3, JobsNaturals DEF JobIds
<1>. HIDE DEF rows
<1>4. \A h \in Inputs : known(h) \subseteq JobIds
  OBVIOUS
<1>5. \A h \in Inputs : \A i \in known(h) : rows[i].status # "Failed"
  OBVIOUS
<1>. HIDE DEF known, last
<1>6. /\ SubIdle \in Submits /\ SubIdle.pc = "idle" /\ SubIdle.id = NoJob
      /\ NoWorker \in JobWorkers /\ NoWorker.pc = "none"
  BY JobsNaturals DEF SubIdle, Submits, SomeInput, NoWorker, JobWorkers, Statuses
<1>7. JobsTypes'
  <2>1. jobRow' \in [JobIds -> Rows]
    BY <1>0, <1>1 DEF rows
  <2>2. byHash' \in [Inputs -> JobIds \cup {NoJob}]
    BY <1>0, <1>2, <1>4
  <2>3. sub' \in [Submitters -> Submits] /\ worker' \in [JobIds -> JobWorkers]
    BY <1>0, <1>6
  <2>. QED  BY <1>0, <1>3, <2>1, <2>2, <2>3 DEF JobsTypes
<1>8. \A s \in Submitters : SubmitOwns(s)'
  BY <1>0, <1>6 DEF SubmitOwns
<1>9. OwnIds'
  BY <1>0, <1>6 DEF OwnIds
<1>10. \A i \in JobIds : WorkerOwns(i)'
  BY <1>0, <1>6 DEF WorkerOwns
<1>11. Bounded'
  <2>1. Admitted' = {} /\ AtWork' = {}
    BY <1>0, <1>6 DEF Admitted, AtWork
  <2>. QED  BY <1>0, <2>1, FS_EmptySet, JobsNaturals DEF Bounded
<1>12. CompletedHasResult' /\ RunningIsAlive'
  BY <1>0, <1>1 DEF CompletedHasResult, RunningIsAlive
<1>13. FailedRetries'
  <2>. SUFFICES ASSUME NEW g \in Inputs, NEW i \in JobIds, byHash'[g] = i,
                       jobRow'[i] = [status |-> "Failed", input |-> g]
                PROVE  FALSE
    BY DEF FailedRetries
  <2>1. i \in known(g)
    BY <1>0, <1>2, JobsNaturals
  <2>. QED  BY <1>0, <1>5, <2>1
<1>. QED  BY <1>7, <1>8, <1>9, <1>10, <1>11, <1>12, <1>13 DEF JobsInv

LEMMA JobsInvNext == ASSUME JobsInv, [JobsNext]_jobVars PROVE JobsInv'
<1>1. ASSUME NEW s \in Submitters, \/ \E h \in Inputs : SubmitCheck(s, h)
                                   \/ SubmitLoad(s) \/ SubmitCas(s) \/ SubmitWrite(s)
                                   \/ SubmitInsert(s) \/ SubmitStart(s) \/ SubmitAbort(s)
      PROVE  JobsInv'
  BY <1>1, AdmissionStep, WriteStep, InsertStep, StartStep, AbortStep
<1>2. ASSUME UNCHANGED <<jobRow, jobRes, byHash, nextId, running, sub, worker, jobFaults>>
      PROVE  JobsInv'
  <2>1. JobsTypes' /\ OwnIds'
    BY <1>2 DEF JobsInv, JobsTypes, OwnIds
  <2>2. \A s \in Submitters : SubmitOwns(s)'
    BY <1>2 DEF JobsInv, SubmitOwns
  <2>3. \A i \in JobIds : WorkerOwns(i)'
    BY <1>2 DEF JobsInv, WorkerOwns
  <2>4. Bounded'
    <3>1. Admitted' = Admitted /\ AtWork' = AtWork
      BY <1>2 DEF Admitted, AtWork
    <3>. QED  BY <1>2, <3>1 DEF JobsInv, Bounded
  <2>5. CompletedHasResult' /\ FailedRetries' /\ RunningIsAlive'
    BY <1>2 DEF JobsInv, CompletedHasResult, FailedRetries, RunningIsAlive
  <2>. QED  BY <2>1, <2>2, <2>3, <2>4, <2>5 DEF JobsInv
<1>3. ASSUME NEW i \in JobIds, WorkerFinish(i) \/ WorkerEnd(i) \/ ApproveJob(i) PROVE JobsInv'
  BY <1>2, <1>3, FinishStep, EndStep DEF ApproveJob
<1>4. CASE JobsRestart
  BY <1>4, RestartStep
<1>5. CASE UNCHANGED jobVars
  BY <1>2, <1>5 DEF jobVars
<1>. QED  BY <1>1, <1>3, <1>4, <1>5 DEF JobsNext

\* What submits and workers may rely on (jobs.rs, submit, finish and recover_with), for
\* any number of submitters, inputs, jobs, faults and restarts: never more jobs than the
\* limit, a Completed row has the result of its own input, the dedup table never answers
\* with a failed job, and no row stays Running without someone to finish it.  That slots
\* come back is left to TLC.
THEOREM JobsKept ==
    JobsSpec => [](JobsTypeOK /\ AdmissionBound /\ CompletedHasResult /\ FailedRetries /\ RunningIsAlive)
<1>1. JobsInv => JobsTypeOK /\ AdmissionBound /\ CompletedHasResult /\ FailedRetries /\ RunningIsAlive
  <2>. SUFFICES ASSUME JobsInv PROVE JobsTypeOK /\ AdmissionBound
    BY DEF JobsInv
  <2>1. JobsTypeOK
    BY DEF JobsInv, JobsTypes, JobsTypeOK, Rows, Statuses, SomeInput, JobWorkers
  <2>2. AdmissionBound
    BY DEF JobsInv, Bounded, Admitted, AtWork, AdmissionBound
  <2>. QED  BY <2>1, <2>2
<1>. QED  BY <1>1, JobsInvInit, JobsInvNext, PTL DEF JobsSpec

-----------------------------------------------------------------------------
(* Consolidation *)

Memory == [st : {"none", "live", "demoted", "gone", "erased"}, grp : Groups, old : BOOLEAN]
ConJobs == [pc : {"idle", "scan", "pick", "merge", "decay", "refresh", "demote"}, head : Nat,
            scan : [Ids -> Memory], pair : SUBSET Ids, taken : SUBSET Ids, left : SUBSET Ids]

\* The memories merged away.
Sources == UNION {d.from : d \in derived}

\* Of the memories C, M came from merges and S went into them.  Every merge takes two and
\* gives one: what clients wrote is what is left plus the number of merges.
Balanced(C, M, S) ==
    /\ M \subseteq C /\ S \subseteq C /\ C \subseteq Ids
    /\ Cardinality(C \ M) = Cardinality(C \ S) + Cardinality(M)

ConTypes ==
    /\ mem \in [Ids -> Memory] /\ recalled \subseteq Ids
    /\ derived \subseteq [to : Ids, from : SUBSET Ids]
    /\ jhead \in Nat /\ jwater \in 0 .. jhead
    /\ job \in ConJobs /\ job.head <= jhead

\* The pair a run is about to merge is still unmerged.
PairFree ==
    job.pc = "merge" =>
        \E a, b \in Ids : a # b /\ job.pair = {a, b} /\ a \notin Sources /\ b \notin Sources

\* Inductive: the count of merges is what keeps the ids in their range.
ConInv ==
    /\ ConTypes /\ PairFree /\ SourceOnce
    /\ Balanced(Created, Merged, Sources) /\ Cardinality(Created \ Merged) <= MaxMemories

LEMMA IdsFinite == IsFiniteSet(Ids) /\ Cardinality(Ids) = 2 * MaxMemories
<1>1. MaxMemories \in Nat /\ 2 * MaxMemories \in Nat
  BY ConsolidationAssumption
<1>2. IsFiniteSet(1 .. 2 * MaxMemories) /\ Cardinality(1 .. 2 * MaxMemories) =
        IF 1 > 2 * MaxMemories THEN 0 ELSE 2 * MaxMemories - 1 + 1
  BY <1>1, FS_Interval
<1>. QED  BY <1>1, <1>2 DEF Ids

LEMMA BalancedFinite ==
    ASSUME NEW C, NEW M, NEW S, Balanced(C, M, S)
    PROVE  /\ IsFiniteSet(C) /\ IsFiniteSet(M) /\ IsFiniteSet(C \ M) /\ IsFiniteSet(C \ S)
           /\ Cardinality(M) \in Nat /\ Cardinality(C \ M) \in Nat /\ Cardinality(C \ S) \in Nat
           /\ Cardinality(C) \in Nat
<1>1. IsFiniteSet(C)
  BY IdsFinite, FS_Subset DEF Balanced
<1>2. M \in SUBSET C /\ C \ M \in SUBSET C /\ C \ S \in SUBSET C
  BY DEF Balanced
<1>3. IsFiniteSet(M) /\ IsFiniteSet(C \ M) /\ IsFiniteSet(C \ S)
  BY <1>1, <1>2, FS_Subset
<1>. QED  BY <1>1, <1>3, FS_CardinalityType

\* Another memory of a client's.
LEMMA BalancedAdd ==
    ASSUME NEW C, NEW M, NEW S, Balanced(C, M, S), NEW f \in Ids \ C
    PROVE  /\ Balanced(C \cup {f}, M, S)
           /\ Cardinality((C \cup {f}) \ M) = Cardinality(C \ M) + 1
<1>0. M \subseteq C /\ S \subseteq C /\ C \subseteq Ids
  BY DEF Balanced
<1>1. (C \cup {f}) \ M = (C \ M) \cup {f} /\ (C \cup {f}) \ S = (C \ S) \cup {f}
  BY <1>0
<1>2. /\ Cardinality((C \ M) \cup {f}) = Cardinality(C \ M) + 1
      /\ Cardinality((C \ S) \cup {f}) = Cardinality(C \ S) + 1
  BY BalancedFinite, FS_AddElement
<1>3. /\ Cardinality((C \cup {f}) \ M) = Cardinality(C \ M) + 1
      /\ Cardinality((C \cup {f}) \ S) = Cardinality(C \ S) + 1
  BY <1>1, <1>2, Zenon
<1>4. /\ Cardinality(C \ M) = Cardinality(C \ S) + Cardinality(M)
      /\ Cardinality(M) \in Nat /\ Cardinality(C \ S) \in Nat
  BY BalancedFinite DEF Balanced
<1>5. Cardinality((C \cup {f}) \ M) = Cardinality((C \cup {f}) \ S) + Cardinality(M)
  BY ONLY <1>3, <1>4
<1>6. M \subseteq C \cup {f} /\ S \subseteq C \cup {f} /\ C \cup {f} \subseteq Ids
  BY <1>0
<1>. QED  BY <1>3, <1>5, <1>6, Zenon DEF Balanced

\* A merge of two.
LEMMA BalancedMerge ==
    ASSUME NEW C, NEW M, NEW S, Balanced(C, M, S), NEW f \in Ids \ C,
           NEW a \in C \ S, NEW b \in C \ S, a # b
    PROVE  /\ Balanced(C \cup {f}, M \cup {f}, S \cup {a, b})
           /\ (C \cup {f}) \ (M \cup {f}) = C \ M
<1>0. M \subseteq C /\ S \subseteq C /\ C \subseteq Ids
  BY DEF Balanced
<1>1. /\ (C \cup {f}) \ (M \cup {f}) = C \ M
      /\ (C \cup {f}) \ (S \cup {a, b}) = (((C \ S) \ {a}) \ {b}) \cup {f}
  BY <1>0
<1>2. IsFiniteSet((C \ S) \ {a}) /\ Cardinality((C \ S) \ {a}) = Cardinality(C \ S) - 1
  BY BalancedFinite, FS_RemoveElement
<1>3. b \in (C \ S) \ {a}
  OBVIOUS
<1>4. /\ IsFiniteSet(((C \ S) \ {a}) \ {b})
      /\ Cardinality(((C \ S) \ {a}) \ {b}) = Cardinality((C \ S) \ {a}) - 1
  BY <1>2, <1>3, FS_RemoveElement
<1>5. Cardinality((((C \ S) \ {a}) \ {b}) \cup {f}) = Cardinality(((C \ S) \ {a}) \ {b}) + 1
  BY <1>4, FS_AddElement
<1>6. Cardinality(M \cup {f}) = Cardinality(M) + 1
  BY <1>0, BalancedFinite, FS_AddElement
<1>7. /\ Cardinality(C \ M) = Cardinality(C \ S) + Cardinality(M)
      /\ Cardinality(M) \in Nat /\ Cardinality(C \ S) \in Nat
  BY BalancedFinite DEF Balanced
<1>8. /\ Cardinality((C \cup {f}) \ (M \cup {f})) = Cardinality(C \ M)
      /\ Cardinality((C \cup {f}) \ (S \cup {a, b})) = Cardinality(((C \ S) \ {a}) \ {b}) + 1
  BY <1>1, <1>5, Zenon
<1>9. Cardinality((C \cup {f}) \ (M \cup {f})) =
        Cardinality((C \cup {f}) \ (S \cup {a, b})) + Cardinality(M \cup {f})
  BY ONLY <1>2, <1>4, <1>6, <1>7, <1>8
<1>10. M \cup {f} \subseteq C \cup {f} /\ S \cup {a, b} \subseteq C \cup {f} /\ C \cup {f} \subseteq Ids
  BY <1>0
<1>. QED  BY <1>1, <1>9, <1>10, Zenon DEF Balanced

\* An id is left while clients have written fewer than their bound, or two can be merged.
LEMMA IdLeft ==
    ASSUME NEW C, NEW M, NEW S, Balanced(C, M, S), Cardinality(C \ M) <= MaxMemories,
           Cardinality(C \ M) < MaxMemories \/ Cardinality(C \ S) > 0
    PROVE  Ids \ C # {}
<1>. SUFFICES ASSUME Ids \ C = {} PROVE FALSE
  OBVIOUS
<1>1. C = Ids /\ M \subseteq C
  BY DEF Balanced
<1>2. Cardinality(C) = 2 * MaxMemories
  BY <1>1, IdsFinite
<1>3. C = (C \ M) \cup M /\ (C \ M) \cap M = {}
  BY <1>1
<1>4. Cardinality((C \ M) \cup M) = Cardinality(C \ M) + Cardinality(M) - Cardinality((C \ M) \cap M)
  BY BalancedFinite, FS_Union
<1>5. Cardinality((C \ M) \cap M) = 0
  BY <1>3, FS_EmptySet
<1>6. Cardinality(C) = Cardinality((C \ M) \cup M)
  BY <1>3, Zenon
<1>7. Cardinality(C \ M) \in Nat /\ Cardinality(M) \in Nat
  BY BalancedFinite
<1>8. Cardinality(C) = Cardinality(C \ M) + Cardinality(M)
  BY ONLY <1>4, <1>5, <1>6, <1>7
<1>9. /\ Cardinality(C \ M) = Cardinality(C \ S) + Cardinality(M) /\ MaxMemories \in Nat
      /\ Cardinality(M) \in Nat /\ Cardinality(C \ M) \in Nat /\ Cardinality(C \ S) \in Nat
  BY BalancedFinite, ConsolidationAssumption DEF Balanced
<1>. QED  BY <1>2, <1>8, <1>9

LEMMA ConInvInit == ConInit => ConInv
<1>. SUFFICES ASSUME ConInit PROVE ConInv
  OBVIOUS
<1>1. Absent \in Memory /\ Unread \in [Ids -> Memory] /\ JobIdle \in ConJobs
  BY ConsolidationAssumption DEF Absent, Unread, Memory, JobIdle, ConJobs
<1>2. ConTypes
  BY <1>1 DEF ConInit, ConTypes, Unread, JobIdle
<1>3. Created = {} /\ Merged = {} /\ Sources = {}
  BY DEF ConInit, Created, Merged, Sources, Absent
<1>4. Cardinality({}) = 0 /\ {} \ {} = {}
  BY FS_EmptySet
<1>5. Balanced({}, {}, {}) /\ Cardinality({} \ {}) <= MaxMemories
  BY <1>4, ConsolidationAssumption DEF Balanced
<1>6. PairFree /\ SourceOnce
  BY DEF ConInit, JobIdle, PairFree, SourceOnce
<1>. QED  BY <1>2, <1>3, <1>5, <1>6, Zenon DEF ConInv

\* A step that neither creates a memory nor merges.
LEMMA ConQuiet ==
    ASSUME ConInv, ConTypes', PairFree', Created' = Created, derived' = derived
    PROVE  ConInv'
<1>1. Merged' = Merged /\ Sources' = Sources
  BY DEF Merged, Sources
<1>2. SourceOnce'
  BY DEF ConInv, SourceOnce
<1>3. Balanced(Created', Merged', Sources') /\ Cardinality(Created' \ Merged') <= MaxMemories
  BY <1>1, Zenon DEF ConInv
<1>. QED  BY <1>2, <1>3, Zenon DEF ConInv

\* A new version of a memory that is there.
LEMMA NewVersion ==
    ASSUME ConTypes, NEW k \in Ids, NEW r \in Memory, mem[k].st # "none", r.st # "none",
           mem' = [mem EXCEPT ![k] = r]
    PROVE  mem' \in [Ids -> Memory] /\ Created' = Created
<1>1. mem' \in [Ids -> Memory] /\ \A j \in Ids : mem'[j] = IF j = k THEN r ELSE mem[j]
  BY DEF ConTypes
<1>. QED  BY <1>1 DEF Created

\* The pair stays free while no merge lands and the thread does not start one.
LEMMA PairStays ==
    ASSUME PairFree, derived' = derived, job' = job \/ job'.pc # "merge"
    PROVE  PairFree'
<1>1. Sources' = Sources
  BY DEF Sources
<1>. QED  BY <1>1 DEF PairFree

LEMMA FreshIdIs ==
    ASSUME ConInv, \/ Cardinality(Created \ Merged) < MaxMemories
                   \/ Cardinality(Created \ Sources) > 0
    PROVE  FreshId \in Ids \ Created
<1>1. Ids \ Created # {}
  BY IdLeft DEF ConInv
<1>. QED  BY <1>1 DEF FreshId

LEMMA RememberStep == ASSUME ConInv, NEW g \in Groups, RememberNote(g) PROVE ConInv'
<1>1. PICK f : f = FreshId
  OBVIOUS
<1>2. f \in Ids \ Created
  BY <1>1, FreshIdIs DEF RememberNote
<1>3. PICK r : r = [st |-> "live", grp |-> g, old |-> FALSE]
  OBVIOUS
<1>4. r \in Memory /\ r.st = "live"
  BY <1>3 DEF Memory
<1>5. /\ mem' = [mem EXCEPT ![f] = r] /\ jhead' = jhead + 1
      /\ UNCHANGED <<derived, recalled, jwater, job, touches>>
  BY <1>1, <1>3 DEF RememberNote
<1>6. ConTypes /\ PairFree /\ SourceOnce
  BY DEF ConInv
<1>7. mem' \in [Ids -> Memory] /\ \A j \in Ids : mem'[j] = IF j = f THEN r ELSE mem[j]
  BY <1>2, <1>4, <1>5, <1>6 DEF ConTypes
<1>8. Created' = Created \cup {f}
  BY <1>2, <1>4, <1>7 DEF Created
<1>9. ConTypes'
  <2>1. jhead \in Nat /\ jwater \in 0 .. jhead /\ job \in ConJobs /\ job.head \in Nat /\ job.head <= jhead
    BY <1>6 DEF ConTypes, ConJobs
  <2>2. jhead' \in Nat /\ jwater' \in 0 .. jhead' /\ job'.head <= jhead'
    BY <1>5, <2>1
  <2>. QED  BY <1>5, <1>6, <1>7, <2>2 DEF ConTypes
<1>10. PairFree'
  BY <1>5, <1>6, PairStays
<1>11. SourceOnce'
  BY <1>5, <1>6 DEF SourceOnce
<1>12. Merged' = Merged /\ Sources' = Sources
  BY <1>5 DEF Merged, Sources
<1>13. /\ Balanced(Created \cup {f}, Merged, Sources)
       /\ Cardinality((Created \cup {f}) \ Merged) = Cardinality(Created \ Merged) + 1
  BY <1>2, BalancedAdd DEF ConInv
<1>14. Cardinality(Created \ Merged) \in Nat /\ Cardinality(Created \ Merged) < MaxMemories /\ MaxMemories \in Nat
  BY BalancedFinite, ConsolidationAssumption DEF ConInv, RememberNote
<1>15. Cardinality((Created \cup {f}) \ Merged) <= MaxMemories
  BY ONLY <1>13, <1>14
<1>16. Balanced(Created', Merged', Sources') /\ Cardinality(Created' \ Merged') <= MaxMemories
  BY <1>8, <1>12, <1>13, <1>15, Zenon
<1>. QED  BY <1>9, <1>10, <1>11, <1>16, Zenon DEF ConInv

LEMMA MergeStep == ASSUME ConInv, JobMerge PROVE ConInv'
<1>0. ConTypes /\ PairFree /\ SourceOnce
  BY DEF ConInv
<1>1. CASE \E k \in job.pair : ~Stored(k)
  <2>1. job' = JobIdle /\ UNCHANGED <<mem, derived, recalled, jhead, jwater, touches>>
    BY <1>1 DEF JobMerge, Failed
  <2>2. JobIdle \in ConJobs /\ JobIdle.head = 0 /\ JobIdle.pc = "idle"
    BY ConsolidationAssumption DEF JobIdle, ConJobs, Unread, Absent, Memory
  <2>3. ConTypes'
    BY <1>0, <2>1, <2>2 DEF ConTypes
  <2>4. PairFree' /\ Created' = Created
    BY <1>0, <2>1, <2>2, PairStays DEF Created
  <2>. QED  BY <2>1, <2>3, <2>4, ConQuiet
<1>2. CASE ~ \E k \in job.pair : ~Stored(k)
  <2>1. PICK a \in Ids, b \in Ids : a # b /\ job.pair = {a, b} /\ a \notin Sources /\ b \notin Sources
    BY <1>0 DEF PairFree, JobMerge
  <2>2. a \in Created \ Sources /\ b \in Created \ Sources
    BY <1>2, <2>1 DEF Stored, Created
  <2>3. PICK f : f = FreshId
    OBVIOUS
  <2>4. f \in Ids \ Created
    <3>1. Cardinality(Created \ Sources) # 0 /\ Cardinality(Created \ Sources) \in Nat
      BY <2>2, BalancedFinite, FS_EmptySet DEF ConInv
    <3>. QED  BY <2>3, <3>1, FreshIdIs
  <2>5. PICK r : \E k \in job.pair : r = [st |-> "live", grp |-> mem[k].grp, old |-> FALSE] /\ mem' = [mem EXCEPT ![f] = r]
    BY <1>2, <2>3 DEF JobMerge
  <2>6. r \in Memory /\ r.st = "live" /\ mem' = [mem EXCEPT ![f] = r]
    <3>1. PICK k \in job.pair : r = [st |-> "live", grp |-> mem[k].grp, old |-> FALSE] /\ mem' = [mem EXCEPT ![f] = r]
      BY <2>5
    <3>2. k \in Ids /\ mem[k] \in Memory
      BY <1>0, <2>1 DEF ConTypes
    <3>. QED  BY <3>1, <3>2 DEF Memory
  <2>7. PICK n : n = [to |-> f, from |-> {a, b}]
    OBVIOUS
  <2>8. /\ derived' = derived \cup {n} /\ jhead' = jhead + 1 /\ UNCHANGED <<recalled, jwater>>
        /\ job' = [job EXCEPT !.pc = "decay", !.pair = {}]
    BY <1>2, <2>1, <2>3, <2>7 DEF JobMerge
  <2>9. n.to = f /\ n.from = {a, b} /\ n \in [to : Ids, from : SUBSET Ids]
    BY <2>1, <2>4, <2>7
  <2>10. mem' \in [Ids -> Memory] /\ \A j \in Ids : mem'[j] = IF j = f THEN r ELSE mem[j]
    BY <1>0, <2>4, <2>6 DEF ConTypes
  <2>11. Created' = Created \cup {f}
    BY <2>4, <2>6, <2>10 DEF Created
  <2>12. ConTypes'
    <3>1. jhead \in Nat /\ jwater \in 0 .. jhead /\ job \in ConJobs /\ job.head \in Nat /\ job.head <= jhead
      BY <1>0 DEF ConTypes, ConJobs
    <3>2. job' \in ConJobs /\ job'.head = job.head /\ job'.pc = "decay"
      BY <2>8, <3>1 DEF ConJobs
    <3>3. jhead' \in Nat /\ jwater' \in 0 .. jhead' /\ job'.head <= jhead'
      BY <2>8, <3>1, <3>2
    <3>4. derived' \subseteq [to : Ids, from : SUBSET Ids]
      BY <1>0, <2>8, <2>9 DEF ConTypes
    <3>. QED  BY <1>0, <2>8, <2>10, <3>2, <3>3, <3>4 DEF ConTypes
  <2>13. PairFree'
    <3>1. job'.pc = "decay"
      BY <1>0, <2>8 DEF ConTypes, ConJobs
    <3>. QED  BY <3>1 DEF PairFree
  <2>14. SourceOnce'
    <3>1. \A d \in derived : d.from \cap n.from = {}
      BY <2>1, <2>9 DEF Sources
    <3>. QED  BY <1>0, <2>8, <3>1 DEF SourceOnce
  <2>15. Merged' = Merged \cup {f} /\ Sources' = Sources \cup {a, b}
    BY <2>8, <2>9 DEF Merged, Sources
  <2>16. /\ Balanced(Created \cup {f}, Merged \cup {f}, Sources \cup {a, b})
         /\ (Created \cup {f}) \ (Merged \cup {f}) = Created \ Merged
    BY <2>1, <2>2, <2>4, BalancedMerge DEF ConInv
  <2>17. Balanced(Created', Merged', Sources') /\ Cardinality(Created' \ Merged') <= MaxMemories
    BY <2>11, <2>15, <2>16, Zenon DEF ConInv
  <2>. QED  BY <2>12, <2>13, <2>14, <2>17, Zenon DEF ConInv
<1>. QED  BY <1>1, <1>2

\* What clients do to a memory that is there, and the clock.
LEMMA ClientStep ==
    ASSUME ConInv, NEW k \in Ids,
           \/ \E g \in Groups : Rewrite(k, g)
           \/ \E how \in {"gone", "erased"} : ForgetNote(k, how)
           \/ Recall(k) \/ Aged(k)
    PROVE  ConInv'
<1>0. /\ ConTypes /\ PairFree /\ mem[k] \in Memory /\ jhead \in Nat /\ jwater \in 0 .. jhead
      /\ job.head \in Nat /\ job.head <= jhead
  BY DEF ConInv, ConTypes, ConJobs
<1>1. ASSUME NEW r \in Memory, mem[k].st # "none", r.st # "none", mem' = [mem EXCEPT ![k] = r],
             jhead' \in {jhead, jhead + 1}, UNCHANGED <<derived, recalled, jwater, job>>
      PROVE  ConInv'
  <2>1. mem' \in [Ids -> Memory] /\ Created' = Created
    BY <1>0, <1>1, NewVersion
  <2>2. jhead' \in Nat /\ jwater' \in 0 .. jhead' /\ job'.head <= jhead'
    BY <1>0, <1>1
  <2>3. ConTypes'
    BY <1>0, <1>1, <2>1, <2>2 DEF ConTypes
  <2>. QED  BY <1>0, <1>1, <2>1, <2>3, PairStays, ConQuiet
<1>2. ASSUME NEW g \in Groups, Rewrite(k, g) PROVE ConInv'
  <2>1. PICK r : r = [mem[k] EXCEPT !.grp = g, !.old = FALSE]
    OBVIOUS
  <2>2. r \in Memory /\ r.st = "live" /\ mem[k].st = "live" /\ mem' = [mem EXCEPT ![k] = r]
    BY <1>0, <1>2, <2>1 DEF Rewrite, Memory
  <2>. QED  BY <1>1, <1>2, <2>2 DEF Rewrite
<1>3. ASSUME NEW how \in {"gone", "erased"}, ForgetNote(k, how) PROVE ConInv'
  <2>1. PICK r : r = [mem[k] EXCEPT !.st = how]
    OBVIOUS
  <2>2. r \in Memory /\ r.st = how /\ mem[k].st = "live" /\ mem' = [mem EXCEPT ![k] = r]
    BY <1>0, <1>3, <2>1 DEF ForgetNote, Memory
  <2>. QED  BY <1>1, <1>3, <2>2 DEF ForgetNote
<1>4. CASE Recall(k)
  <2>1. recalled' \subseteq Ids /\ UNCHANGED <<mem, derived, jhead, jwater, job>>
    BY <1>0, <1>4 DEF Recall, ConTypes
  <2>2. ConTypes' /\ Created' = Created
    BY <1>0, <2>1 DEF ConTypes, Created
  <2>. QED  BY <1>0, <2>1, <2>2, PairStays, ConQuiet
<1>5. CASE Aged(k)
  <2>1. PICK r : r = [mem[k] EXCEPT !.old = TRUE]
    OBVIOUS
  <2>2. r \in Memory /\ r.st = mem[k].st /\ mem[k].st # "none" /\ mem' = [mem EXCEPT ![k] = r]
    BY <1>0, <1>5, <2>1 DEF Aged, Stored, Memory
  <2>. QED  BY <1>1, <1>5, <2>2 DEF Aged
<1>. QED  BY <1>2, <1>3, <1>4, <1>5

\* A step of the job's thread that writes no merge.
LEMMA JobQuiet ==
    ASSUME ConInv, derived' = derived, mem' \in [Ids -> Memory], Created' = Created,
           recalled' \subseteq Ids, jhead' \in {jhead, jhead + 1}, jwater' \in {jwater, job.head},
           job' \in ConJobs, job'.head \in {0, job.head, jhead}, PairFree'
    PROVE  ConInv'
<1>1. jhead \in Nat /\ jwater \in 0 .. jhead /\ job.head \in Nat /\ job.head <= jhead
  BY DEF ConInv, ConTypes, ConJobs
<1>2. jhead' \in Nat /\ jwater' \in 0 .. jhead' /\ job'.head <= jhead'
  BY <1>1
<1>3. ConTypes'
  BY <1>2 DEF ConInv, ConTypes
<1>. QED  BY <1>3, ConQuiet

LEMMA JobStep == ASSUME ConInv, ConJob PROVE ConInv'
<1>0. /\ ConTypes /\ PairFree /\ mem \in [Ids -> Memory] /\ job \in ConJobs /\ job.head \in Nat
      /\ jhead \in Nat /\ recalled \subseteq Ids /\ job.left \subseteq Ids
  BY DEF ConInv, ConTypes, ConJobs
<1>1. JobIdle \in ConJobs /\ JobIdle.head = 0 /\ JobIdle.pc = "idle" /\ Unread \in [Ids -> Memory]
  BY ConsolidationAssumption DEF JobIdle, ConJobs, Unread, Absent, Memory
<1>2. ASSUME UNCHANGED mem PROVE Created' = Created
  BY <1>2 DEF Created
<1>3. ASSUME Failed PROVE ConInv'
  <2>1. PairFree'
    BY <1>0, <1>1, <1>3, PairStays DEF Failed
  <2>. QED  BY <1>0, <1>1, <1>2, <1>3, <2>1, JobQuiet DEF Failed
<1>4. CASE JobWake
  <2>1. job' \in ConJobs /\ job'.head = jhead /\ job'.pc = "scan"
    BY <1>0, <1>1, <1>4 DEF JobWake, ConJobs
  <2>2. PairFree'
    BY <1>0, <1>4, <2>1, PairStays DEF JobWake
  <2>. QED  BY <1>0, <1>2, <1>4, <2>1, <2>2, JobQuiet DEF JobWake
<1>5. CASE JobScan
  <2>1. job' \in ConJobs /\ job'.head = job.head /\ job'.pc = "pick"
    BY <1>0, <1>5 DEF JobScan, ConJobs
  <2>2. PairFree'
    BY <1>0, <1>5, <2>1, PairStays DEF JobScan
  <2>. QED  BY <1>0, <1>2, <1>5, <2>1, <2>2, JobQuiet DEF JobScan
<1>6. CASE JobPick
  <2>. DEFINE pairs == {p \in Ids \X Ids : p[1] < p[2] /\ IsMergeable(p[1], p[2], job.scan)}
  <2>1. UNCHANGED <<mem, derived, recalled, jhead, jwater, touches>>
    BY <1>6 DEF JobPick
  <2>2. CASE job' = [job EXCEPT !.pc = "decay", !.scan = Unread]
    <3>1. job' \in ConJobs /\ job'.head = job.head /\ job'.pc = "decay"
      BY <1>0, <1>1, <2>2 DEF ConJobs
    <3>2. PairFree'
      BY <1>0, <2>1, <3>1, PairStays
    <3>. QED  BY <1>0, <1>2, <2>1, <3>1, <3>2, JobQuiet
  <2>3. ASSUME NEW p \in pairs, job' = [job EXCEPT !.pc = "merge", !.pair = {p[1], p[2]}, !.scan = Unread]
        PROVE  ConInv'
    <3>0. p \in Ids \X Ids /\ p[1] < p[2] /\ IsMergeable(p[1], p[2], job.scan)
      BY <2>3
    <3>1. p[1] \in Ids /\ p[2] \in Ids /\ p[1] # p[2] /\ ~IsSource(p[1]) /\ ~IsSource(p[2])
      BY <3>0 DEF IsMergeable
    <3>2. job' \in ConJobs /\ job'.head = job.head /\ job'.pair = {p[1], p[2]}
      BY <1>0, <1>1, <2>3, <3>1 DEF ConJobs
    <3>3. p[1] \notin Sources /\ p[2] \notin Sources
      BY <3>1 DEF IsSource, Sources
    <3>4. Sources' = Sources
      BY <2>1 DEF Sources
    <3>5. PairFree'
      BY <3>1, <3>2, <3>3, <3>4 DEF PairFree
    <3>. QED  BY <1>0, <1>2, <2>1, <3>2, <3>5, JobQuiet
  <2>. QED  BY <1>6, <2>2, <2>3 DEF JobPick
<1>7. CASE JobMerge
  BY <1>7, MergeStep
<1>8. CASE JobTake
  <2>1. job' \in ConJobs /\ job'.head = job.head /\ job'.pc = "refresh"
    BY <1>0, <1>8 DEF JobTake, ConJobs
  <2>2. PairFree'
    BY <1>0, <1>8, <2>1, PairStays DEF JobTake
  <2>. QED  BY <1>0, <1>2, <1>8, <2>1, <2>2, JobQuiet DEF JobTake
<1>9. ASSUME NEW k \in job.left, Stored(k), NEW r \in Memory, r.st # "none", job.pc # "merge",
             (mem' = [mem EXCEPT ![k] = r] /\ jhead' = jhead + 1) \/ UNCHANGED <<mem, jhead>>,
             job' = [job EXCEPT !.left = job.left \ {k}], UNCHANGED <<derived, recalled, jwater>>
      PROVE  ConInv'
  <2>1. k \in Ids /\ mem[k].st # "none"
    BY <1>0, <1>9 DEF Stored
  <2>2. mem' \in [Ids -> Memory] /\ Created' = Created
    BY <1>0, <1>2, <1>9, <2>1, NewVersion
  <2>3. job' \in ConJobs /\ job'.head = job.head /\ job'.pc = job.pc
    BY <1>0, <1>9 DEF ConJobs
  <2>4. PairFree'
    BY <1>0, <1>9, <2>3, PairStays
  <2>. QED  BY <1>0, <1>9, <2>2, <2>3, <2>4, JobQuiet
<1>10. CASE JobRefresh
  <2>1. PICK k \in job.left :
          IF ~Stored(k) THEN Failed
          ELSE /\ (mem' = [mem EXCEPT ![k].old = FALSE] /\ jhead' = jhead + 1) \/ UNCHANGED <<mem, jhead>>
               /\ job' = [job EXCEPT !.left = @ \ {k}] /\ UNCHANGED <<derived, recalled, jwater, touches>>
    BY <1>10 DEF JobRefresh
  <2>2. CASE ~Stored(k)
    BY <1>3, <2>1, <2>2
  <2>3. CASE Stored(k)
    <3>1. PICK r : r = [mem[k] EXCEPT !.old = FALSE]
      OBVIOUS
    <3>2. r \in Memory /\ r.st = mem[k].st /\ r.st # "none"
      BY <1>0, <2>3, <3>1 DEF Memory, Stored
    <3>. QED  BY <1>9, <1>10, <2>1, <2>3, <3>1, <3>2 DEF JobRefresh
  <2>. QED  BY <2>2, <2>3
<1>11. CASE JobDecayScan
  <2>1. PICK S \in SUBSET {k \in Ids : IsStale(k)} : job' = [job EXCEPT !.pc = "demote", !.left = S]
    BY <1>11 DEF JobDecayScan
  <2>2. job' \in ConJobs /\ job'.head = job.head /\ job'.pc = "demote"
    BY <1>0, <2>1 DEF ConJobs
  <2>3. PairFree'
    BY <1>0, <1>11, <2>2, PairStays DEF JobDecayScan
  <2>. QED  BY <1>0, <1>2, <1>11, <2>2, <2>3, JobQuiet DEF JobDecayScan
<1>12. CASE JobDemote
  <2>1. PICK k \in job.left :
          IF ~Stored(k) \/ mem[k].st = "demoted" THEN Failed
          ELSE /\ mem' = [mem EXCEPT ![k].st = IF @ = "live" THEN "demoted" ELSE @, ![k].old = FALSE]
               /\ jhead' = jhead + 1 /\ job' = [job EXCEPT !.left = @ \ {k}]
               /\ UNCHANGED <<derived, recalled, jwater, touches>>
    BY <1>12 DEF JobDemote
  <2>2. CASE ~Stored(k) \/ mem[k].st = "demoted"
    BY <1>3, <2>1, <2>2
  <2>3. CASE ~(~Stored(k) \/ mem[k].st = "demoted")
    <3>1. PICK r : r = [mem[k] EXCEPT !.st = IF mem[k].st = "live" THEN "demoted" ELSE mem[k].st, !.old = FALSE]
      OBVIOUS
    <3>2. k \in Ids /\ mem[k] \in Memory
      BY <1>0
    <3>3. r \in Memory /\ r.st # "none"
      BY <2>3, <3>1, <3>2 DEF Memory, Stored
    <3>4. mem' = [mem EXCEPT ![k] = r]
      BY <1>0, <2>1, <2>3, <3>1, <3>2 DEF Memory
    <3>. QED  BY <1>9, <1>12, <2>1, <2>3, <3>3, <3>4 DEF JobDemote
  <2>. QED  BY <2>2, <2>3
<1>13. CASE JobDone
  <2>1. PairFree'
    BY <1>0, <1>1, <1>13, PairStays DEF JobDone
  <2>. QED  BY <1>0, <1>1, <1>2, <1>13, <2>1, JobQuiet DEF JobDone, WaterAfter
<1>. QED  BY <1>4, <1>5, <1>6, <1>7, <1>8, <1>10, <1>11, <1>12, <1>13 DEF ConJob

LEMMA ConInvNext == ASSUME ConInv, [ConNext \/ JobRestart]_conVars PROVE ConInv'
<1>1. CASE \E g \in Groups : RememberNote(g)
  BY <1>1, RememberStep
<1>2. CASE \E k \in Ids : \/ \E g \in Groups : Rewrite(k, g)
                          \/ \E how \in {"gone", "erased"} : ForgetNote(k, how)
                          \/ Recall(k) \/ Aged(k)
  BY <1>2, ClientStep
<1>3. CASE ConJob
  BY <1>3, JobStep
<1>4. CASE JobRestart
  <2>1. JobIdle \in ConJobs /\ JobIdle.head = 0 /\ JobIdle.pc = "idle"
    BY ConsolidationAssumption DEF JobIdle, ConJobs, Unread, Absent, Memory
  <2>2. ConTypes'
    BY <1>4, <2>1 DEF JobRestart, ConInv, ConTypes
  <2>3. PairFree' /\ Created' = Created
    BY <1>4, <2>1, PairStays DEF JobRestart, ConInv, Created
  <2>. QED  BY <1>4, <2>2, <2>3, ConQuiet DEF JobRestart
<1>5. CASE UNCHANGED conVars
  <2>1. ConTypes'
    BY <1>5 DEF conVars, ConInv, ConTypes
  <2>2. PairFree' /\ Created' = Created
    BY <1>5, PairStays DEF conVars, ConInv, Created
  <2>. QED  BY <1>5, <2>1, <2>2, ConQuiet DEF conVars
<1>. QED  BY <1>1, <1>2, <1>3, <1>4, <1>5 DEF ConNext

\* A memory is a source of at most one merge (consolidation.rs, is_mergeable and merge):
\* whatever clients write, rewrite or forget between the job's scan, its choice of a pair
\* and its commit, and however often the process restarts, no merge is repeated; and
\* merges stay fewer than the memories clients wrote, so the ids never run out.
THEOREM MergedOnce == ConSpec \/ RestartingSpec => [](ConTypeOK /\ SourceOnce)
<1>1. ConInv => ConTypeOK /\ SourceOnce
  BY DEF ConInv, ConTypes, ConTypeOK, Memory
<1>2. [ConNext]_conVars => [ConNext \/ JobRestart]_conVars
  OBVIOUS
<1>. QED  BY <1>1, <1>2, ConInvInit, ConInvNext, PTL DEF ConSpec, RestartingSpec

-----------------------------------------------------------------------------
(* The index maintainer *)

Event == [obj : Objs, val : Vals \cup {Nil}]
IxRecords == [row : {"none", "Building", "Ready", "Dropping"}, reg : {"none", "Building", "Ready", "Dropping"},
              map : Contents, stamp : Nat, over : Nat, gen : Nat]
Reseeds == [step : {"idle", "begun", "scan"}, h0 : Nat, gen : Nat]
Maintainers == [pc : {"off", "fresh", "cut", "replay", "run", "dead"}, resumed : BOOLEAN, from : Nat,
                recv : Nat, live : BOOLEAN, pend : Seq(Nat), todo : Nat, pos : Nat, gen : Nat,
                failed : BOOLEAN]
Lookups == [step : {"idle", "tail"}, val : Vals \cup {Nil}, tail : SUBSET Objs, head : Nat, quiet : BOOLEAN]

MtTypes ==
    /\ log \in Seq(Event) /\ ann \in Contents
    /\ ix \in IxRecords /\ ix.stamp <= JournalHead /\ ix.over <= JournalHead
    /\ reseed \in [{"ddl", "mt"} -> Reseeds] /\ \A c \in {"ddl", "mt"} : reseed[c].h0 <= JournalHead
    /\ mt \in Maintainers /\ mt.from <= JournalHead /\ mt.recv <= JournalHead
    /\ water \in 0 .. JournalHead
    /\ ckpt \in [full : BOOLEAN, water : Nat, ann : Contents] /\ ckpt.water <= JournalHead
    /\ tmp \in [step : {"none", "water", "copied"}, water : Nat, ann : Contents] /\ tmp.water <= JournalHead
    /\ q \in Lookups /\ q.head <= JournalHead

\* The newest event of an object in the journal J, and what it holds.
EventsIn(J, o) == {i \in 1 .. Len(J) : J[i].obj = o}
LastIn(J, o) == IF EventsIn(J, o) = {} THEN 0 ELSE Max(EventsIn(J, o))
HeadIn(J, o) == IF LastIn(J, o) = 0 THEN Nil ELSE J[LastIn(J, o)].val

\* The contents m hold the newest value of every object whose events are all up to n.
Exact(J, m, n) == \A o \in Objs : LastIn(J, o) <= n => m[o] = HeadIn(J, o)

\* The event before the first one that is pending, or to be replayed.
Behind ==
    CASE mt.pc = "off" -> IF ckpt.full THEN ckpt.water ELSE 0
      [] mt.pc \in {"fresh", "dead"} -> 0
      [] mt.pc \in {"cut", "replay"} -> mt.from
      [] mt.pc = "run" -> water

\* What is pending follows it without a gap, whatever was received twice or skipped.
PendInv ==
    /\ \A i \in 1 .. Len(mt.pend) : mt.pend[i] = Behind + i
    /\ Behind + Len(mt.pend) <= JournalHead
    /\ mt.pos <= mt.todo /\ mt.todo <= Len(mt.pend)
    /\ mt.pc \notin {"replay", "run"} => mt.pend = <<>>
    /\ mt.pc = "cut" => ~mt.live /\ (~mt.resumed => mt.from = 0)
    /\ mt.pc = "replay" => ~mt.live /\ mt.todo > 0 /\ mt.recv <= mt.from + Len(mt.pend)
    /\ mt.pc = "run" => /\ mt.todo > 0 => mt.todo = Len(mt.pend)
                        /\ water + Len(mt.pend) = IF mt.from <= mt.recv THEN mt.recv ELSE mt.from
                        /\ mt.live => mt.from <= mt.recv

\* The vector and text indexes, and the checkpoint they are resumed from.
AnnInv ==
    /\ mt.pc \in {"cut", "replay", "run"} => Exact(log, ann, Behind + mt.pos)
    /\ ckpt.full => Exact(log, ckpt.ann, ckpt.water)
    /\ tmp.step # "none" => mt.pc = "run"
    /\ tmp.step = "water" => tmp.water <= water
    /\ tmp.step = "copied" => Exact(log, tmp.ann, tmp.water)

\* Rebuilds: one of a declaration is of the index that is there; one of a starting
\* maintainer ends before the replay.
ReseedInv ==
    /\ reseed["ddl"].step # "idle" => reseed["ddl"].gen = ix.gen /\ ix.reg \in {"Building", "Ready"}
    /\ ix.reg = "Building" => ix.row \in {"Building", "Ready"}
    /\ ix.reg \in {"none", "Ready", "Dropping"} => ix.row = ix.reg
    /\ reseed["mt"].step # "idle" => mt.pc = "cut" /\ mt.resumed

\* The property index has been filled once.
Seeded == ix.reg # "none" /\ (ix.reg = "Building" => reseed["ddl"].step = "idle")

\* What the property index holds: nothing of an object without events; of a filled one
\* everything its stamp covers until the maintainer starts to apply, what has been
\* replayed or scanned at the cut, what has been applied after it; and a batch that began
\* before the index was declared is covered by its scan.
IxInv ==
    /\ Exact(log, ix.map, 0)
    /\ ix.stamp <= ix.over \/ ix.stamp <= Behind
    /\ Seeded =>
        /\ mt.pc = "off" \/ (mt.pc = "cut" /\ mt.resumed) => Exact(log, ix.map, ix.stamp)
        /\ mt.pc = "cut" /\ (reseed["mt"].step = "idle" \/ reseed["mt"].gen # ix.gen)
            => Exact(log, ix.map, mt.from)
        /\ mt.pc \in {"replay", "run"} => Exact(log, ix.map, Behind + mt.pos)
        /\ mt.pc \in {"replay", "run"} /\ mt.gen # ix.gen => Exact(log, ix.map, Behind + mt.todo)

\* A quiet lookup: no reseed and no second application reaches what it does not patch.
LookupInv ==
    /\ q.step = "tail" => ix.reg \in {"Ready", "Dropping"}
    /\ q.step = "tail" /\ q.quiet =>
        /\ ix.over <= Behind + mt.pos
        /\ \A c \in {"ddl", "mt"} : reseed[c].step # "scan"
        /\ \A o \in Objs : LastIn(log, o) <= q.head /\ o \notin q.tail => LastIn(log, o) <= ix.stamp

MtInv == MtTypes /\ PendInv /\ AnnInv /\ ReseedInv /\ IxInv /\ LookupInv

-----------------------------------------------------------------------------
(* The journal and contents that are exact *)

\* A set of journal positions has a last one.
LEMMA LastPosition ==
    ASSUME NEW n \in Nat, NEW U \in SUBSET (1 .. n), U # {} PROVE \E i \in U : \A j \in U : i >= j
<1>. DEFINE T == {n - i : i \in U}
<1>1. \A i \in U : i \in Nat /\ n - i \in Nat
  OBVIOUS
<1>2. T \in SUBSET Nat /\ T # {}
  BY <1>1
<1>. HIDE DEF T
<1>3. PICK x \in T : \A y \in T : ~ (<<y, x>> \in OpToRel(<, Nat))
  BY <1>2, WFMin, NatLessThanWellFounded
<1>4. \A y \in T : ~ (y < x)
  BY <1>2, <1>3 DEF OpToRel
<1>5. PICK i \in U : x = n - i
  BY DEF T
<1>6. ASSUME NEW j \in U PROVE i >= j
  <2>1. ~ (n - j < n - i)
    BY <1>4, <1>5 DEF T
  <2>. QED  BY <1>1, <2>1
<1>. QED  BY <1>6

LEMMA LastIs ==
    ASSUME NEW J \in Seq(Event), NEW o \in Objs
    PROVE  /\ LastIn(J, o) \in 0 .. Len(J) /\ Len(J) \in Nat
           /\ LastIn(J, o) > 0 => J[LastIn(J, o)].obj = o /\ J[LastIn(J, o)] \in Event
           /\ \A i \in 1 .. Len(J) : J[i].obj = o => i <= LastIn(J, o)
<1>0. Len(J) \in Nat /\ \A i \in 1 .. Len(J) : J[i] \in Event
  OBVIOUS
<1>1. PICK U : U = EventsIn(J, o)
  OBVIOUS
<1>2. U \in SUBSET (1 .. Len(J)) /\ \A i \in 1 .. Len(J) : i \in U <=> J[i].obj = o
  BY <1>1 DEF EventsIn
<1>3. CASE U = {}
  <2>1. LastIn(J, o) = 0
    BY <1>1, <1>3 DEF LastIn
  <2>. QED  BY <1>0, <1>2, <1>3, <2>1
<1>4. CASE U # {}
  <2>1. \E i \in U : \A j \in U : i >= j
    BY <1>0, <1>2, <1>4, LastPosition
  <2>2. Max(U) \in U /\ \A j \in U : Max(U) >= j
    BY <2>1 DEF Max
  <2>3. LastIn(J, o) = Max(U)
    BY <1>1, <1>4 DEF LastIn
  <2>4. PICK k : k = LastIn(J, o)
    OBVIOUS
  <2>5. k \in U /\ \A j \in U : k >= j
    BY <2>2, <2>3, <2>4
  <2>6. k \in 1 .. Len(J)
    BY <1>2, <2>5
  <2>7. \A i \in 1 .. Len(J) : J[i].obj = o => i <= k
    BY <1>2, <2>5
  <2>8. J[k].obj = o /\ J[k] \in Event
    BY <1>0, <1>2, <2>5, <2>6
  <2>. QED  BY <1>0, <2>4, <2>6, <2>7, <2>8
<1>. QED  BY <1>3, <1>4

\* The last event of an object is known by being its own and the last.
LEMMA LastByBounds ==
    ASSUME NEW J \in Seq(Event), NEW o \in Objs, NEW k \in 1 .. Len(J), J[k].obj = o,
           \A i \in 1 .. Len(J) : J[i].obj = o => i <= k
    PROVE  LastIn(J, o) = k
<1>1. PICK l : l = LastIn(J, o)
  OBVIOUS
<1>2. l \in 0 .. Len(J) /\ Len(J) \in Nat /\ (l > 0 => J[l].obj = o) /\ k <= l
  BY <1>1, LastIs
<1>3. l \in 1 .. Len(J) /\ l <= k
  BY <1>2
<1>. QED  BY <1>1, <1>2, <1>3

LEMMA HeadIs == ASSUME NEW J \in Seq(Event), NEW o \in Objs PROVE HeadIn(J, o) \in Vals \cup {Nil}
<1>1. LastIn(J, o) \in 0 .. Len(J) /\ Len(J) \in Nat /\ (LastIn(J, o) > 0 => J[LastIn(J, o)] \in Event)
  BY LastIs
<1>. QED  BY <1>1 DEF HeadIn, Event

\* A commit changes the last event of its own object only.
LEMMA LastAfterCommit ==
    ASSUME NEW J \in Seq(Event), NEW e \in Event, NEW o \in Objs, LastIn(Append(J, e), o) <= Len(J)
    PROVE  LastIn(Append(J, e), o) = LastIn(J, o) /\ HeadIn(Append(J, e), o) = HeadIn(J, o)
<1>1. PICK K : K = Append(J, e)
  OBVIOUS
<1>2. /\ K \in Seq(Event) /\ Len(K) = Len(J) + 1 /\ Len(J) \in Nat
      /\ \A i \in 1 .. Len(J) : K[i] = J[i]
  BY <1>1
<1>3. /\ LastIn(K, o) \in 0 .. Len(K) /\ LastIn(J, o) \in 0 .. Len(J)
      /\ LastIn(K, o) > 0 => K[LastIn(K, o)].obj = o
      /\ LastIn(J, o) > 0 => J[LastIn(J, o)].obj = o
      /\ \A i \in 1 .. Len(K) : K[i].obj = o => i <= LastIn(K, o)
      /\ \A i \in 1 .. Len(J) : J[i].obj = o => i <= LastIn(J, o)
  BY <1>2, LastIs
<1>4. PICK k, j : k = LastIn(K, o) /\ j = LastIn(J, o)
  OBVIOUS
<1>5. k \in 0 .. Len(J) /\ j \in 0 .. Len(J)
  BY <1>1, <1>2, <1>3, <1>4
<1>6. k > 0 => k <= j
  BY <1>2, <1>3, <1>4, <1>5
<1>7. j > 0 => j <= k
  BY <1>2, <1>3, <1>4, <1>5
<1>8. k = j
  BY <1>2, <1>5, <1>6, <1>7
<1>9. HeadIn(K, o) = HeadIn(J, o)
  BY <1>2, <1>4, <1>5, <1>8 DEF HeadIn
<1>. QED  BY <1>1, <1>4, <1>8, <1>9

\* It is beyond every n the journal had.
LEMMA ExactAfterCommit ==
    ASSUME NEW J \in Seq(Event), NEW e \in Event, NEW m, NEW n \in Nat, n <= Len(J), Exact(J, m, n)
    PROVE  Exact(Append(J, e), m, n)
<1>1. ASSUME NEW o \in Objs, LastIn(Append(J, e), o) <= n PROVE m[o] = HeadIn(Append(J, e), o)
  <2>1. LastIn(Append(J, e), o) \in Nat /\ Len(J) \in Nat
    <3>1. Append(J, e) \in Seq(Event)
      OBVIOUS
    <3>2. LastIn(Append(J, e), o) \in 0 .. Len(Append(J, e)) /\ Len(Append(J, e)) \in Nat
      BY <3>1, LastIs
    <3>. QED  BY <3>2
  <2>2. LastIn(Append(J, e), o) <= Len(J)
    BY <1>1, <2>1
  <2>3. LastIn(Append(J, e), o) = LastIn(J, o) /\ HeadIn(Append(J, e), o) = HeadIn(J, o)
    BY <2>2, LastAfterCommit
  <2>. QED  BY <1>1, <2>3 DEF Exact
<1>. QED  BY <1>1 DEF Exact

\* Applying the next event.
LEMMA ExactAfterApply ==
    ASSUME NEW J \in Seq(Event), NEW m \in Contents, NEW n \in Nat, n < Len(J), Exact(J, m, n)
    PROVE  /\ Exact(J, [m EXCEPT ![J[n + 1].obj] = J[n + 1].val], n + 1)
           /\ [m EXCEPT ![J[n + 1].obj] = J[n + 1].val] \in Contents
<1>1. PICK p, v, r : p = J[n + 1].obj /\ v = J[n + 1].val /\ r = [m EXCEPT ![p] = v]
  OBVIOUS
<1>2. Len(J) \in Nat /\ n + 1 \in 1 .. Len(J) /\ J[n + 1] \in Event /\ p \in Objs /\ v \in Vals \cup {Nil}
  <2>1. n + 1 \in 1 .. Len(J) /\ Len(J) \in Nat
    OBVIOUS
  <2>2. J[n + 1] \in Event
    BY <2>1
  <2>. QED  BY <1>1, <2>1, <2>2 DEF Event
<1>3. r \in Contents /\ r[p] = v /\ \A o \in Objs : o # p => r[o] = m[o]
  BY <1>1, <1>2 DEF Contents
<1>4. ASSUME NEW o \in Objs, LastIn(J, o) <= n + 1 PROVE r[o] = HeadIn(J, o)
  <2>1. /\ LastIn(J, o) \in 0 .. Len(J)
        /\ LastIn(J, o) > 0 => J[LastIn(J, o)].obj = o
        /\ \A i \in 1 .. Len(J) : J[i].obj = o => i <= LastIn(J, o)
    BY LastIs
  <2>2. PICK k : k = LastIn(J, o)
    OBVIOUS
  <2>3. CASE o = p
    <3>1. k = n + 1
      BY <1>1, <1>2, <1>4, <2>1, <2>2, <2>3
    <3>2. HeadIn(J, o) = v
      BY <1>1, <1>2, <2>2, <3>1 DEF HeadIn
    <3>. QED  BY <1>3, <2>3, <3>2
  <2>4. CASE o # p
    <3>1. k # n + 1
      BY <1>1, <1>2, <2>1, <2>2, <2>4
    <3>2. LastIn(J, o) <= n
      BY <1>2, <1>4, <2>1, <2>2, <3>1
    <3>. QED  BY <1>3, <2>4, <3>2 DEF Exact
  <2>. QED  BY <2>3, <2>4
<1>5. Exact(J, r, n + 1)
  BY <1>4 DEF Exact
<1>. QED  BY <1>1, <1>3, <1>5

LEMMA ExactLess ==
    ASSUME NEW J \in Seq(Event), NEW m, NEW n \in Nat, NEW k \in Nat, k <= n, Exact(J, m, n)
    PROVE  Exact(J, m, k)
<1>1. ASSUME NEW o \in Objs, LastIn(J, o) <= k PROVE m[o] = HeadIn(J, o)
  <2>1. LastIn(J, o) \in Nat
    BY LastIs
  <2>. QED  BY <1>1, <2>1 DEF Exact
<1>. QED  BY <1>1 DEF Exact

\* The heads themselves are exact everywhere, and nothing is exact of no events.
LEMMA HeadsExact ==
    ASSUME log \in Seq(Event)
    PROVE  /\ Heads = [o \in Objs |-> HeadIn(log, o)] /\ Heads \in Contents
           /\ \A n : Exact(log, Heads, n)
           /\ Bare \in Contents /\ Exact(log, Bare, 0)
           /\ \A o \in Objs : LastOf(o) = LastIn(log, o)
<1>1. \A o \in Objs : LastOf(o) = LastIn(log, o)
  BY DEF LastOf, LastIn, EventsOf, EventsIn, JournalHead
<1>2. Heads = [o \in Objs |-> HeadIn(log, o)]
  BY <1>1 DEF Heads, HeadIn
<1>3. Heads \in Contents
  BY <1>2, HeadIs DEF Contents
<1>4. ASSUME NEW n PROVE Exact(log, Heads, n)
  BY <1>2 DEF Exact
<1>5. Bare \in Contents
  BY DEF Bare, Contents
<1>6. ASSUME NEW o \in Objs, LastIn(log, o) <= 0 PROVE Bare[o] = HeadIn(log, o)
  <2>1. LastIn(log, o) = 0
    BY <1>6, LastIs
  <2>. QED  BY <2>1 DEF Bare, HeadIn
<1>. QED  BY <1>1, <1>2, <1>3, <1>4, <1>5, <1>6 DEF Exact

-----------------------------------------------------------------------------
(* The maintainer's steps *)

\* Positions inside a batch are positions of the journal.
LEMMA UpTo ==
    ASSUME NEW a \in Nat, NEW t \in Nat, NEW k \in Nat, NEW h \in Nat, t <= k, a + k <= h
    PROVE  a + t \in Nat /\ a + t <= h
  OBVIOUS

LEMMA MtNaturals ==
    ASSUME MtTypes
    PROVE  /\ JournalHead \in Nat /\ water \in Nat /\ Behind \in Nat
           /\ mt.from \in Nat /\ mt.recv \in Nat /\ mt.todo \in Nat /\ mt.pos \in Nat /\ mt.gen \in Nat
           /\ mt.pend \in Seq(Nat) /\ Len(mt.pend) \in Nat
           /\ mt.pc \in {"off", "fresh", "cut", "replay", "run", "dead"}
           /\ ix.stamp \in Nat /\ ix.over \in Nat /\ ix.gen \in Nat /\ ix.map \in Contents
           /\ ckpt.water \in Nat /\ ckpt.ann \in Contents /\ tmp.water \in Nat /\ tmp.ann \in Contents
           /\ q.head \in Nat
<1>1. JournalHead \in Nat /\ water \in Nat
  BY DEF MtTypes, JournalHead
<1>2. /\ mt.from \in Nat /\ mt.recv \in Nat /\ mt.todo \in Nat /\ mt.pos \in Nat /\ mt.gen \in Nat
      /\ mt.pend \in Seq(Nat) /\ mt.pc \in {"off", "fresh", "cut", "replay", "run", "dead"}
  BY DEF MtTypes, Maintainers
<1>3. /\ ix.stamp \in Nat /\ ix.over \in Nat /\ ix.gen \in Nat /\ ix.map \in Contents
      /\ ckpt.water \in Nat /\ ckpt.ann \in Contents /\ tmp.water \in Nat /\ tmp.ann \in Contents
      /\ q.head \in Nat
  BY DEF MtTypes, IxRecords, Lookups
<1>4. Behind \in Nat
  BY <1>1, <1>2, <1>3 DEF Behind
<1>. QED  BY <1>1, <1>2, <1>3, <1>4

\* The next event the maintainer applies, in the terms of the invariant.
LEMMA NextEventIs == ASSUME MtTypes, PendInv PROVE NextEvent = Behind + mt.pos + 1
<1>0. /\ mt.from \in Nat /\ mt.recv \in Nat /\ mt.todo \in Nat /\ mt.pos \in Nat /\ Behind \in Nat
      /\ mt.pend \in Seq(Nat) /\ Len(mt.pend) \in Nat /\ water \in Nat
      /\ mt.pc \in {"off", "fresh", "cut", "replay", "run", "dead"} /\ ckpt.water \in Nat
  BY MtNaturals
<1>1. CASE mt.pc \notin {"replay", "run"}
  <2>1. mt.pend = <<>> /\ mt.pos <= mt.todo /\ mt.todo <= Len(mt.pend)
    BY <1>1 DEF PendInv
  <2>2. mt.pos = 0
    BY <1>0, <2>1
  <2>. QED  BY <1>0, <1>1, <2>2 DEF NextEvent, Behind
<1>2. CASE mt.pc \in {"replay", "run"} /\ mt.pend # <<>>
  <2>0. Len(mt.pend) > 0 /\ mt.pos <= Len(mt.pend)
    BY <1>0, <1>2 DEF PendInv
  <2>1. \A i \in 1 .. Len(mt.pend) : mt.pend[i] = Behind + i
    BY DEF PendInv
  <2>2. CASE mt.pos < Len(mt.pend)
    <3>1. mt.pos + 1 \in 1 .. Len(mt.pend)
      BY <1>0, <2>2
    <3>2. mt.pend[mt.pos + 1] = Behind + (mt.pos + 1)
      BY <2>1, <3>1
    <3>3. NextEvent = mt.pend[mt.pos + 1]
      BY <1>2, <2>2 DEF NextEvent
    <3>. QED  BY <1>0, <3>2, <3>3
  <2>3. CASE ~ (mt.pos < Len(mt.pend))
    <3>1. mt.pos = Len(mt.pend) /\ Len(mt.pend) \in 1 .. Len(mt.pend)
      BY <1>0, <2>0, <2>3
    <3>2. mt.pend[Len(mt.pend)] = Behind + Len(mt.pend)
      BY <2>1, <3>1
    <3>3. NextEvent = mt.pend[Len(mt.pend)] + 1
      BY <1>2, <2>3 DEF NextEvent
    <3>. QED  BY <1>0, <3>1, <3>2, <3>3
  <2>. QED  BY <2>2, <2>3
<1>3. CASE mt.pc \in {"replay", "run"} /\ mt.pend = <<>>
  <2>1. mt.pos = 0 /\ mt.todo = 0 /\ Len(mt.pend) = 0
    BY <1>0, <1>3 DEF PendInv
  <2>2. mt.pc = "run"
    BY <1>3, <2>1 DEF PendInv
  <2>3. Behind = water /\ water = IF mt.from <= mt.recv THEN mt.recv ELSE mt.from
    BY <1>0, <2>1, <2>2 DEF PendInv, Behind
  <2>4. Max({mt.recv, mt.from}) = IF mt.from <= mt.recv THEN mt.recv ELSE mt.from
    BY <1>0 DEF Max
  <2>5. NextEvent = Max({mt.recv, mt.from}) + 1
    BY <1>3, <2>2 DEF NextEvent
  <2>. QED  BY <1>0, <2>1, <2>3, <2>4, <2>5
<1>. QED  BY <1>1, <1>2, <1>3

\* Steps that leave the maintainer, and then the contents and checkpoints, alone.
LEMMA PendSame ==
    ASSUME PendInv, UNCHANGED <<log, mt, water, ckpt>> PROVE PendInv' /\ Behind' = Behind
<1>1. Behind' = Behind /\ JournalHead' = JournalHead
  BY DEF Behind, JournalHead
<1>. QED  BY <1>1 DEF PendInv

LEMMA AnnSame ==
    ASSUME AnnInv, UNCHANGED <<log, mt, water, ckpt, ann, tmp>> PROVE AnnInv'
<1>1. Behind' = Behind
  BY DEF Behind
<1>. QED  BY <1>1 DEF AnnInv

LEMMA MtInvInit == MtInit => MtInv
<1>. SUFFICES ASSUME MtInit PROVE MtInv
  OBVIOUS
<1>. USE DEF MtInit
<1>1. log \in Seq(Event) /\ JournalHead = 0
  BY DEF JournalHead
<1>2. Bare \in Contents /\ Exact(log, Bare, 0)
  BY <1>1, HeadsExact
<1>3. Off \in Maintainers /\ NoReseed \in Reseeds /\ NoLookup \in Lookups
  BY DEF Off, Maintainers, NoReseed, Reseeds, NoLookup, Lookups
<1>4. ix \in IxRecords /\ ix.stamp = 0 /\ ix.over = 0 /\ ix.map = Bare /\ ix.reg \in {"none", "Ready"} /\ ix.row = ix.reg
  BY <1>2 DEF IxRecords
<1>5. MtTypes
  BY <1>1, <1>2, <1>3, <1>4 DEF MtTypes, NoCkpt, NoTmp, Off, NoReseed, NoLookup
<1>6. Behind = 0 /\ mt.pc = "off" /\ mt.pend = <<>> /\ mt.todo = 0 /\ mt.pos = 0
  BY DEF Behind, Off, NoCkpt
<1>7. PendInv
  BY <1>1, <1>6 DEF PendInv
<1>8. AnnInv
  BY <1>6 DEF AnnInv, NoCkpt, NoTmp
<1>9. ReseedInv
  BY <1>4 DEF ReseedInv, NoReseed
<1>10. IxInv
  BY <1>2, <1>4, <1>6 DEF IxInv
<1>11. LookupInv
  BY DEF LookupInv, NoLookup
<1>. QED  BY <1>5, <1>7, <1>8, <1>9, <1>10, <1>11 DEF MtInv

LEMMA CommitEventStep == ASSUME MtInv, NEW o \in Objs, CommitEvent(o) PROVE MtInv'
<1>1. PICK v \in Vals \cup {Nil} : log' = Append(log, [obj |-> o, val |-> v])
  BY DEF CommitEvent
<1>2. PICK e : e = [obj |-> o, val |-> v]
  OBVIOUS
<1>3. /\ UNCHANGED <<ann, ix, reseed, mt, water, ckpt, tmp, q>> /\ log' = Append(log, e) /\ e \in Event
  BY <1>1, <1>2 DEF CommitEvent, Event
<1>4. /\ MtTypes /\ PendInv /\ AnnInv /\ ReseedInv /\ IxInv /\ LookupInv /\ log \in Seq(Event)
  BY DEF MtInv, MtTypes
<1>5. /\ JournalHead \in Nat /\ water \in Nat /\ Behind \in Nat /\ mt.from \in Nat /\ mt.recv \in Nat
      /\ mt.todo \in Nat /\ mt.pos \in Nat /\ Len(mt.pend) \in Nat /\ ix.stamp \in Nat /\ ix.over \in Nat
      /\ ckpt.water \in Nat /\ tmp.water \in Nat /\ q.head \in Nat
  BY <1>4, MtNaturals
<1>6. JournalHead' = JournalHead + 1 /\ log' \in Seq(Event) /\ JournalHead = Len(log)
  BY <1>3, <1>4 DEF JournalHead
<1>7. Behind' = Behind
  BY <1>3 DEF Behind
<1>8. MtTypes'
  <2>1. \A n \in Nat : n <= JournalHead => n <= JournalHead'
    BY <1>5, <1>6
  <2>2. /\ ix'.stamp <= JournalHead' /\ ix'.over <= JournalHead' /\ mt'.from <= JournalHead'
        /\ mt'.recv <= JournalHead' /\ ckpt'.water <= JournalHead' /\ tmp'.water <= JournalHead'
        /\ q'.head <= JournalHead'
    BY <1>3, <1>4, <1>5, <2>1 DEF MtTypes
  <2>3. water' \in 0 .. JournalHead'
    BY <1>3, <1>4, <1>5, <1>6 DEF MtTypes
  <2>4. \A c \in {"ddl", "mt"} : reseed'[c].h0 <= JournalHead'
    BY <1>3, <1>4, <2>1 DEF MtTypes, Reseeds
  <2>. QED  BY <1>3, <1>4, <1>6, <2>2, <2>3, <2>4 DEF MtTypes
<1>9. PendInv'
  BY <1>3, <1>4, <1>5, <1>6, <1>7 DEF PendInv
<1>10. ASSUME NEW m, NEW n \in Nat, n <= JournalHead, Exact(log, m, n) PROVE Exact(log', m, n)
  BY <1>3, <1>4, <1>6, <1>10, ExactAfterCommit
<1>11. /\ Behind + mt.pos <= JournalHead /\ Behind + mt.todo <= JournalHead
       /\ Behind + mt.pos \in Nat /\ Behind + mt.todo \in Nat
  <2>1. mt.pos <= mt.todo /\ mt.todo <= Len(mt.pend) /\ Behind + Len(mt.pend) <= JournalHead
    BY <1>4 DEF PendInv
  <2>2. mt.pos <= Len(mt.pend)
    BY <1>5, <2>1
  <2>. QED  BY <1>5, <2>1, <2>2, UpTo, Zenon
<1>12. ckpt.water <= JournalHead /\ tmp.water <= JournalHead /\ ix.stamp <= JournalHead /\ mt.from <= JournalHead
       /\ q.head <= JournalHead
  BY <1>4 DEF MtTypes
<1>13. AnnInv'
  BY <1>3, <1>4, <1>5, <1>7, <1>10, <1>11, <1>12 DEF AnnInv
<1>14. ReseedInv'
  BY <1>3, <1>4 DEF ReseedInv
<1>15. IxInv'
  <2>1. Seeded' = Seeded
    BY <1>3 DEF Seeded
  <2>2. 0 \in Nat /\ 0 <= JournalHead
    BY <1>5
  <2>. QED  BY <1>3, <1>4, <1>5, <1>7, <1>10, <1>11, <1>12, <2>1, <2>2 DEF IxInv
<1>16. LookupInv'
  <2>1. ASSUME NEW p \in Objs, LastIn(log', p) <= q.head PROVE LastIn(log', p) = LastIn(log, p)
    <3>1. LastIn(log', p) \in 0 .. Len(log')
      BY <1>6, LastIs
    <3>2. LastIn(log', p) \in Nat
      BY <1>6, <3>1
    <3>3. LastIn(log', p) <= Len(log)
      BY <1>5, <1>6, <1>12, <2>1, <3>2
    <3>. QED  BY <1>3, <1>4, <3>3, LastAfterCommit
  <2>. QED  BY <1>3, <1>4, <1>7, <2>1 DEF LookupInv
<1>. QED  BY <1>8, <1>9, <1>13, <1>14, <1>15, <1>16 DEF MtInv

\* Steps of the declared index beside the maintainer.
LEMMA IxBeside ==
    ASSUME MtInv, UNCHANGED <<log, ann, mt, water, ckpt, tmp>>,
           ix' \in IxRecords, ix'.stamp <= JournalHead, ix'.over <= JournalHead,
           reseed' \in [{"ddl", "mt"} -> Reseeds], \A c \in {"ddl", "mt"} : reseed'[c].h0 <= JournalHead,
           q' \in Lookups, q'.head <= JournalHead, ReseedInv', IxInv', LookupInv'
    PROVE  MtInv'
<1>1. JournalHead' = JournalHead
  BY DEF JournalHead
<1>2. MtTypes'
  BY <1>1 DEF MtInv, MtTypes
<1>. QED  BY <1>2, PendSame, AnnSame DEF MtInv

LEMMA CreateIndexStep == ASSUME MtInv, CreateIndex PROVE MtInv'
<1>0. /\ MtTypes /\ PendInv /\ ReseedInv /\ IxInv /\ LookupInv /\ ix \in IxRecords /\ JournalHead \in Nat
      /\ ix.gen \in Nat /\ Behind \in Nat /\ log \in Seq(Event) /\ q \in Lookups /\ q.head <= JournalHead
      /\ reseed \in [{"ddl", "mt"} -> Reseeds] /\ \A c \in {"ddl", "mt"} : reseed[c].h0 <= JournalHead
  BY MtNaturals DEF MtInv, MtTypes
<1>1. Bare \in Contents /\ Exact(log, Bare, 0)
  BY <1>0, HeadsExact
<1>2. /\ UNCHANGED <<log, ann, mt, water, ckpt, tmp, q>> /\ ix.row = "none"
      /\ ix' = [row |-> "Building", reg |-> "Building", map |-> Bare, stamp |-> 0, over |-> 0, gen |-> ix.gen + 1]
  BY DEF CreateIndex
<1>3. ix.reg = "none" /\ q.step # "tail"
  BY <1>0, <1>2 DEF ReseedInv, IxRecords, LookupInv
<1>4. /\ ix' \in IxRecords /\ ix'.reg = "Building" /\ ix'.row = "Building" /\ ix'.map = Bare
      /\ ix'.stamp = 0 /\ ix'.over = 0 /\ ix'.gen = ix.gen + 1
  BY <1>0, <1>1, <1>2 DEF IxRecords
<1>5. PICK r : r = [step |-> "begun", h0 |-> JournalHead, gen |-> ix.gen + 1]
  OBVIOUS
<1>6. r \in Reseeds /\ r.step = "begun" /\ r.h0 = JournalHead /\ r.gen = ix.gen + 1
  BY <1>0, <1>5 DEF Reseeds
<1>7. reseed' = [reseed EXCEPT !["ddl"] = r]
  BY <1>5 DEF CreateIndex, RebuildStart
<1>8. reseed' \in [{"ddl", "mt"} -> Reseeds] /\ reseed'["ddl"] = r /\ reseed'["mt"] = reseed["mt"]
  BY <1>0, <1>6, <1>7
<1>9. \A c \in {"ddl", "mt"} : reseed'[c].h0 <= JournalHead
  BY <1>0, <1>6, <1>8
<1>10. ~Seeded' /\ Behind' = Behind
  BY <1>2, <1>4, <1>6, <1>8 DEF Seeded, Behind
<1>11. ReseedInv'
  BY <1>0, <1>2, <1>4, <1>6, <1>8 DEF ReseedInv
<1>12. IxInv'
  BY <1>1, <1>2, <1>4, <1>10 DEF IxInv
<1>13. LookupInv'
  BY <1>2, <1>3 DEF LookupInv
<1>. QED  BY <1>0, <1>2, <1>4, <1>8, <1>9, <1>11, <1>12, <1>13, IxBeside

LEMMA RebuildIndexStep == ASSUME MtInv, RebuildIndex PROVE MtInv'
<1>0. /\ MtTypes /\ PendInv /\ ReseedInv /\ IxInv /\ LookupInv /\ ix \in IxRecords /\ JournalHead \in Nat
      /\ ix.gen \in Nat /\ q \in Lookups /\ q.head <= JournalHead /\ ix.stamp <= JournalHead /\ ix.over <= JournalHead
      /\ reseed \in [{"ddl", "mt"} -> Reseeds] /\ \A c \in {"ddl", "mt"} : reseed[c].h0 <= JournalHead
  BY MtNaturals DEF MtInv, MtTypes
<1>1. PICK r : r = RebuildStart("Ready", ix.stamp, ix.gen)
  OBVIOUS
<1>2. r \in Reseeds /\ r.step \in {"idle", "begun"} /\ r.h0 <= JournalHead /\ (r.step = "begun" => r.gen = ix.gen)
  BY <1>0, <1>1 DEF RebuildStart, NoReseed, Reseeds
<1>3. /\ UNCHANGED <<log, ann, ix, mt, water, ckpt, tmp, q>> /\ ix.reg = "Ready"
      /\ reseed' = [reseed EXCEPT !["ddl"] = r]
  BY <1>1 DEF RebuildIndex
<1>4. reseed' \in [{"ddl", "mt"} -> Reseeds] /\ reseed'["ddl"] = r /\ reseed'["mt"] = reseed["mt"]
  BY <1>0, <1>2, <1>3
<1>5. \A c \in {"ddl", "mt"} : reseed'[c].h0 <= JournalHead
  BY <1>0, <1>2, <1>4
<1>6. Seeded' /\ Seeded /\ Behind' = Behind
  BY <1>3 DEF Seeded, Behind
<1>7. ReseedInv'
  BY <1>0, <1>2, <1>3, <1>4 DEF ReseedInv
<1>8. IxInv'
  BY <1>0, <1>3, <1>4, <1>6 DEF IxInv
<1>9. LookupInv'
  BY <1>0, <1>2, <1>3, <1>4, <1>6 DEF LookupInv
<1>. QED  BY <1>0, <1>3, <1>4, <1>5, <1>7, <1>8, <1>9, IxBeside

LEMMA InvalidateStep == ASSUME MtInv, NEW c \in {"ddl", "mt"}, InvalidateStamp(c) PROVE MtInv'
<1>0. /\ MtTypes /\ PendInv /\ ReseedInv /\ IxInv /\ LookupInv /\ ix \in IxRecords /\ JournalHead \in Nat
      /\ ix.gen \in Nat /\ q \in Lookups /\ q.head <= JournalHead /\ ix.stamp <= JournalHead /\ ix.over <= JournalHead
      /\ reseed \in [{"ddl", "mt"} -> Reseeds] /\ \A d \in {"ddl", "mt"} : reseed[d].h0 <= JournalHead
      /\ ix.over \in Nat
  BY MtNaturals DEF MtInv, MtTypes
<1>1. /\ UNCHANGED <<log, ann, mt, water, ckpt, tmp>> /\ reseed[c].step = "begun"
      /\ ix' = IF reseed[c].gen = ix.gen THEN [ix EXCEPT !.stamp = 0] ELSE ix
      /\ reseed' = [reseed EXCEPT ![c].step = "scan"] /\ q' = [q EXCEPT !.quiet = FALSE]
  BY DEF InvalidateStamp
<1>2. /\ ix' \in IxRecords /\ ix'.stamp \in {0, ix.stamp} /\ ix'.over = ix.over /\ ix'.map = ix.map
      /\ ix'.row = ix.row /\ ix'.reg = ix.reg /\ ix'.gen = ix.gen
  BY <1>0, <1>1 DEF IxRecords
<1>3. /\ reseed' \in [{"ddl", "mt"} -> Reseeds]
      /\ \A d \in {"ddl", "mt"} : /\ reseed'[d].h0 = reseed[d].h0 /\ reseed'[d].gen = reseed[d].gen
                                  /\ reseed'[d].step = "idle" <=> reseed[d].step = "idle"
  BY <1>0, <1>1 DEF Reseeds
<1>4. q' \in Lookups /\ q'.head = q.head /\ q'.step = q.step /\ q'.quiet = FALSE
  BY <1>0, <1>1 DEF Lookups
<1>5. Seeded' = Seeded /\ Behind' = Behind
  BY <1>1, <1>2, <1>3 DEF Seeded, Behind
<1>6. ReseedInv'
  BY <1>0, <1>1, <1>2, <1>3 DEF ReseedInv
<1>7. IxInv'
  BY <1>0, <1>1, <1>2, <1>3, <1>5 DEF IxInv
<1>8. LookupInv'
  BY <1>0, <1>2, <1>4 DEF LookupInv
<1>9. ix'.stamp <= JournalHead /\ ix'.over <= JournalHead
  BY <1>0, <1>2
<1>. QED  BY <1>0, <1>1, <1>2, <1>3, <1>4, <1>6, <1>7, <1>8, <1>9, IxBeside

LEMMA ScanStep == ASSUME MtInv, NEW c \in {"ddl", "mt"}, ScanHeads(c) PROVE MtInv'
<1>0. /\ MtTypes /\ PendInv /\ ReseedInv /\ IxInv /\ LookupInv /\ ix \in IxRecords /\ JournalHead \in Nat
      /\ ix.gen \in Nat /\ q \in Lookups /\ q.head <= JournalHead /\ ix.stamp <= JournalHead /\ ix.over <= JournalHead
      /\ reseed \in [{"ddl", "mt"} -> Reseeds] /\ \A d \in {"ddl", "mt"} : reseed[d].h0 <= JournalHead
      /\ log \in Seq(Event) /\ Behind \in Nat /\ reseed[c].h0 \in Nat
  BY MtNaturals DEF MtInv, MtTypes, Reseeds
<1>1. /\ UNCHANGED <<log, ann, mt, water, ckpt, tmp, q>> /\ reseed[c].step = "scan"
      /\ ix' = IF reseed[c].gen = ix.gen
               THEN [ix EXCEPT !.map = Heads, !.stamp = reseed[c].h0, !.over = reseed[c].h0] ELSE ix
      /\ reseed' = [reseed EXCEPT ![c] = NoReseed]
  BY DEF ScanHeads
<1>2. NoReseed \in Reseeds /\ NoReseed.step = "idle" /\ NoReseed.h0 = 0
  BY DEF NoReseed, Reseeds
<1>3. /\ reseed' \in [{"ddl", "mt"} -> Reseeds]
      /\ \A d \in {"ddl", "mt"} : reseed'[d] = IF d = c THEN NoReseed ELSE reseed[d]
  BY <1>0, <1>1, <1>2
<1>4. \A d \in {"ddl", "mt"} : reseed'[d].h0 <= JournalHead
  BY <1>0, <1>2, <1>3
<1>5. Behind' = Behind
  BY <1>1 DEF Behind
<1>6. CASE reseed[c].gen = ix.gen
  <2>1. Heads \in Contents /\ \A n : Exact(log, Heads, n)
    BY <1>0, HeadsExact
  <2>2. /\ ix' \in IxRecords /\ ix'.map = Heads /\ ix'.stamp = reseed[c].h0 /\ ix'.over = reseed[c].h0
        /\ ix'.row = ix.row /\ ix'.reg = ix.reg /\ ix'.gen = ix.gen
    BY <1>0, <1>1, <1>6, <2>1 DEF IxRecords
  <2>3. ReseedInv'
    BY <1>0, <1>1, <1>2, <1>3, <2>2 DEF ReseedInv
  <2>4. IxInv'
    BY <1>0, <1>1, <2>1, <2>2 DEF IxInv
  <2>5. LookupInv'
    BY <1>0, <1>1, <2>2 DEF LookupInv
  <2>6. ix'.stamp <= JournalHead /\ ix'.over <= JournalHead
    BY <1>0, <2>2
  <2>. QED  BY <1>0, <1>1, <1>3, <1>4, <2>2, <2>3, <2>4, <2>5, <2>6, IxBeside
<1>7. CASE reseed[c].gen # ix.gen
  <2>1. ix' = ix /\ c = "mt"
    BY <1>0, <1>1, <1>7 DEF ReseedInv
  <2>2. ReseedInv'
    BY <1>0, <1>1, <1>2, <1>3, <2>1 DEF ReseedInv
  <2>3. Seeded' = Seeded
    BY <1>3, <2>1 DEF Seeded
  <2>4. IxInv'
    BY <1>0, <1>1, <1>3, <1>5, <1>7, <2>1, <2>3 DEF IxInv
  <2>5. LookupInv'
    BY <1>0, <1>1, <1>2, <1>3, <1>5, <2>1 DEF LookupInv
  <2>. QED  BY <1>0, <1>1, <1>3, <1>4, <2>1, <2>2, <2>4, <2>5, IxBeside
<1>. QED  BY <1>6, <1>7

LEMMA ReadyDropStep == ASSUME MtInv, IndexReady \/ DropIndex PROVE MtInv'
<1>0. /\ MtTypes /\ PendInv /\ ReseedInv /\ IxInv /\ LookupInv /\ ix \in IxRecords /\ JournalHead \in Nat
      /\ q \in Lookups /\ q.head <= JournalHead /\ ix.stamp <= JournalHead /\ ix.over <= JournalHead
      /\ reseed \in [{"ddl", "mt"} -> Reseeds] /\ \A d \in {"ddl", "mt"} : reseed[d].h0 <= JournalHead
      /\ log \in Seq(Event) /\ Behind \in Nat
  BY MtNaturals DEF MtInv, MtTypes
<1>1. UNCHANGED <<log, ann, reseed, mt, water, ckpt, tmp, q>>
  BY DEF IndexReady, DropIndex
<1>2. Behind' = Behind
  BY <1>1 DEF Behind
<1>3. ASSUME NEW r, NEW g, ix' = [ix EXCEPT !.row = r, !.reg = g], Seeded,
             r \in {"none", "Building", "Ready", "Dropping"}, g \in {"Building", "Ready", "Dropping"},
             reseed["ddl"].step = "idle", q.step = "tail" => g \in {"Ready", "Dropping"},
             g = "Building" => r \in {"Building", "Ready"}, g # "Building" => r = g
      PROVE  MtInv'
  <2>1. /\ ix' \in IxRecords /\ ix'.map = ix.map /\ ix'.stamp = ix.stamp /\ ix'.over = ix.over
        /\ ix'.row = r /\ ix'.reg = g /\ ix'.gen = ix.gen
    BY <1>0, <1>3 DEF IxRecords
  <2>2. ReseedInv'
    BY <1>0, <1>1, <1>3, <2>1 DEF ReseedInv
  <2>3. IxInv'
    BY <1>0, <1>1, <1>2, <1>3, <2>1 DEF IxInv
  <2>4. LookupInv'
    BY <1>0, <1>1, <1>2, <1>3, <2>1 DEF LookupInv
  <2>. QED  BY <1>0, <1>1, <2>1, <2>2, <2>3, <2>4, IxBeside
<1>4. CASE IndexReady
  <2>1. ix.reg = "Building" /\ reseed["ddl"].step = "idle" /\ q.step # "tail" /\ Seeded /\ ix.row \in {"Building", "Ready"}
    BY <1>0, <1>4 DEF IndexReady, LookupInv, Seeded, ReseedInv
  <2>2. CASE ix.row = "Building"
    <3>1. ix' = [ix EXCEPT !.row = "Ready", !.reg = "Building"]
      BY <1>0, <1>4, <2>1, <2>2 DEF IndexReady, IxRecords
    <3>. QED  BY <1>3, <2>1, <3>1
  <2>3. CASE ix.row = "Ready"
    <3>1. ix' = [ix EXCEPT !.row = "Ready", !.reg = "Ready"]
      BY <1>0, <1>4, <2>1, <2>3 DEF IndexReady, IxRecords
    <3>. QED  BY <1>3, <2>1, <3>1
  <2>. QED  BY <2>1, <2>2, <2>3
<1>5. CASE /\ ix.reg = "Ready" /\ reseed["ddl"].step = "idle"
           /\ ix' = [ix EXCEPT !.row = "Dropping", !.reg = "Dropping"]
  BY <1>3, <1>5 DEF Seeded
<1>6. CASE /\ ix.reg = "Dropping" /\ q.step = "idle"
           /\ ix' = [ix EXCEPT !.row = "none", !.reg = "none", !.map = Bare, !.stamp = 0, !.over = 0]
  <2>1. Bare \in Contents /\ Exact(log, Bare, 0)
    BY <1>0, HeadsExact
  <2>2. /\ ix' \in IxRecords /\ ix'.map = Bare /\ ix'.stamp = 0 /\ ix'.over = 0
        /\ ix'.row = "none" /\ ix'.reg = "none" /\ ix'.gen = ix.gen
    BY <1>0, <1>6, <2>1 DEF IxRecords
  <2>3. ReseedInv'
    BY <1>0, <1>1, <1>6, <2>2 DEF ReseedInv
  <2>4. ~Seeded'
    BY <2>2 DEF Seeded
  <2>5. IxInv'
    BY <1>1, <2>1, <2>2, <2>4 DEF IxInv
  <2>6. LookupInv'
    BY <1>1, <1>6 DEF LookupInv
  <2>. QED  BY <1>0, <1>1, <2>2, <2>3, <2>5, <2>6, IxBeside
<1>. QED  BY <1>4, <1>5, <1>6 DEF DropIndex

\* Steps of the maintainer: the declared index keeps its rebuilds, the journal its events.
LEMMA MtBeside ==
    ASSUME MtInv, UNCHANGED log,
           ann' \in Contents, ix' \in IxRecords, ix'.stamp <= JournalHead, ix'.over <= JournalHead,
           reseed' \in [{"ddl", "mt"} -> Reseeds], \A c \in {"ddl", "mt"} : reseed'[c].h0 <= JournalHead,
           mt' \in Maintainers, mt'.from <= JournalHead, mt'.recv <= JournalHead, water' \in 0 .. JournalHead,
           ckpt' \in [full : BOOLEAN, water : Nat, ann : Contents], ckpt'.water <= JournalHead,
           tmp' \in [step : {"none", "water", "copied"}, water : Nat, ann : Contents], tmp'.water <= JournalHead,
           q' \in Lookups, q'.head <= JournalHead,
           PendInv', AnnInv', ReseedInv', IxInv', LookupInv'
    PROVE  MtInv'
<1>1. JournalHead' = JournalHead
  BY DEF JournalHead
<1>2. MtTypes'
  BY <1>1 DEF MtInv, MtTypes
<1>. QED  BY <1>2 DEF MtInv

LEMMA MtStartStep == ASSUME MtInv, MtStart PROVE MtInv'
<1>0. /\ MtTypes /\ PendInv /\ AnnInv /\ ReseedInv /\ IxInv /\ LookupInv /\ ix \in IxRecords /\ JournalHead \in Nat
      /\ q \in Lookups /\ q.head <= JournalHead /\ ix.stamp <= JournalHead /\ ix.over <= JournalHead
      /\ reseed \in [{"ddl", "mt"} -> Reseeds] /\ \A d \in {"ddl", "mt"} : reseed[d].h0 <= JournalHead
      /\ log \in Seq(Event) /\ Behind \in Nat /\ ix.stamp \in Nat /\ ix.gen \in Nat /\ water \in 0 .. JournalHead
      /\ ckpt \in [full : BOOLEAN, water : Nat, ann : Contents] /\ ckpt.water <= JournalHead
      /\ tmp \in [step : {"none", "water", "copied"}, water : Nat, ann : Contents] /\ tmp.water <= JournalHead
      /\ ckpt.water \in Nat /\ ckpt.ann \in Contents
  BY MtNaturals DEF MtInv, MtTypes
<1>1. PICK re \in BOOLEAN : re = (ckpt.full /\ mt.pc = "off")
  OBVIOUS
<1>2. PICK r : r = RebuildStart(ix.reg, ix.stamp, ix.gen)
  OBVIOUS
<1>3. PICK f : f = IF re THEN ckpt.water ELSE 0
  OBVIOUS
<1>4. /\ UNCHANGED <<log, ix, water, ckpt, tmp>> /\ mt.pc \in {"off", "fresh"}
      /\ mt' = [Subscribed(Off) EXCEPT !.pc = "cut", !.resumed = re, !.from = f]
      /\ ann' = (IF re THEN ckpt.ann ELSE Bare)
      /\ reseed' = (IF re /\ ix.reg # "none" THEN [reseed EXCEPT !["mt"] = r] ELSE reseed)
      /\ q' = [q EXCEPT !.quiet = FALSE]
  BY <1>1, <1>2, <1>3 DEF MtStart
<1>5. /\ mt' \in Maintainers /\ mt'.pc = "cut" /\ mt'.resumed = re /\ mt'.from = f /\ mt'.recv = JournalHead
      /\ mt'.live = FALSE /\ mt'.pend = <<>> /\ mt'.todo = 0 /\ mt'.pos = 0 /\ f \in Nat /\ f <= JournalHead
  <2>1. f \in Nat /\ f <= JournalHead
    BY <1>0, <1>3
  <2>2. mt' = [pc |-> "cut", resumed |-> re, from |-> f, recv |-> JournalHead, live |-> FALSE, pend |-> <<>>,
               todo |-> 0, pos |-> 0, gen |-> 0, failed |-> FALSE]
    BY <1>4 DEF Subscribed, Off
  <2>3. <<>> \in Seq(Nat)
    OBVIOUS
  <2>. QED  BY <1>0, <2>1, <2>2, <2>3 DEF Maintainers
<1>6. /\ r \in Reseeds /\ r.h0 <= JournalHead /\ (r.step = "idle" => ix.stamp = JournalHead)
      /\ (r.step # "idle" => r.gen = ix.gen)
  BY <1>0, <1>2 DEF RebuildStart, NoReseed, Reseeds
<1>7. /\ reseed' \in [{"ddl", "mt"} -> Reseeds] /\ reseed'["ddl"] = reseed["ddl"]
      /\ reseed'["mt"] = IF re /\ ix.reg # "none" THEN r ELSE reseed["mt"]
      /\ \A c \in {"ddl", "mt"} : reseed'[c].h0 <= JournalHead
  BY <1>0, <1>4, <1>6
<1>8. q' \in Lookups /\ q'.head = q.head /\ q'.step = q.step /\ q'.quiet = FALSE
  BY <1>0, <1>4 DEF Lookups
<1>9. Behind' = f /\ Behind = f
  BY <1>1, <1>3, <1>4, <1>5 DEF Behind
<1>10. Bare \in Contents /\ Exact(log, Bare, 0)
  BY <1>0, HeadsExact
<1>11. JournalHead' = JournalHead /\ Seeded' = Seeded
  BY <1>4, <1>7 DEF JournalHead, Seeded
<1>12. PendInv'
  BY <1>0, <1>3, <1>5, <1>9, <1>11 DEF PendInv
<1>13. AnnInv'
  <2>1. Exact(log, ann', f + 0)
    <3>1. f + 0 = f
      BY <1>5
    <3>2. CASE re
      BY <1>0, <1>1, <1>3, <1>4, <3>1, <3>2 DEF AnnInv
    <3>3. CASE ~re
      BY <1>3, <1>4, <1>10, <3>1, <3>3
    <3>. QED  BY <3>2, <3>3
  <2>. QED  BY <1>0, <1>4, <1>5, <1>9, <2>1 DEF AnnInv
<1>14. ReseedInv'
  <2>1. reseed["mt"].step = "idle"
    BY <1>0, <1>4 DEF ReseedInv, Reseeds
  <2>. QED  BY <1>0, <1>4, <1>5, <1>7, <2>1 DEF ReseedInv
<1>15. IxInv'
  <2>1. ASSUME Seeded, re PROVE Exact(log, ix.map, ix.stamp)
    BY <1>0, <1>1, <2>1 DEF IxInv
  <2>2. ASSUME Seeded, reseed'["mt"].step = "idle" \/ reseed'["mt"].gen # ix.gen PROVE Exact(log, ix.map, f)
    <3>1. CASE re
      <4>1. reseed'["mt"] = r
        BY <1>7, <2>2, <3>1 DEF Seeded
      <4>2. ix.stamp = JournalHead
        BY <1>6, <2>2, <4>1
      <4>. QED  BY <1>0, <1>5, <2>1, <2>2, <3>1, <4>2, ExactLess
    <3>2. CASE ~re
      BY <1>0, <1>3, <3>2 DEF IxInv
    <3>. QED  BY <3>1, <3>2
  <2>. QED  BY <1>0, <1>4, <1>5, <1>9, <1>11, <2>1, <2>2 DEF IxInv
<1>16. LookupInv'
  BY <1>0, <1>4, <1>8 DEF LookupInv
<1>17. ann' \in Contents
  BY <1>0, <1>4, <1>10
<1>. QED  BY <1>0, <1>4, <1>5, <1>7, <1>8, <1>12, <1>13, <1>14, <1>15, <1>16, <1>17, MtBeside

\* The smaller of a batch and what is left.
LEMMA BatchOf ==
    ASSUME NEW n \in Nat
    PROVE  /\ Min({MaintainerBatch, n}) \in Nat /\ Min({MaintainerBatch, n}) <= n
           /\ n > 0 => Min({MaintainerBatch, n}) > 0
<1>1. MaintainerBatch \in Nat /\ MaintainerBatch > 0
  BY MaintainerAssumption
<1>2. PICK T : T = {MaintainerBatch, n}
  OBVIOUS
<1>3. \E x \in T : \A y \in T : x <= y
  BY <1>1, <1>2
<1>4. Min(T) \in T /\ \A y \in T : Min(T) <= y
  BY <1>3 DEF Min
<1>. QED  BY <1>1, <1>2, <1>4

LEMMA MtCutStep == ASSUME MtInv, MtCut PROVE MtInv'
<1>0. /\ MtTypes /\ PendInv /\ AnnInv /\ ReseedInv /\ IxInv /\ LookupInv /\ ix \in IxRecords /\ JournalHead \in Nat
      /\ q \in Lookups /\ q.head <= JournalHead /\ ix.stamp <= JournalHead /\ ix.over <= JournalHead
      /\ reseed \in [{"ddl", "mt"} -> Reseeds] /\ \A d \in {"ddl", "mt"} : reseed[d].h0 <= JournalHead
      /\ log \in Seq(Event) /\ Behind \in Nat /\ ix.stamp \in Nat /\ ix.gen \in Nat /\ water \in 0 .. JournalHead
      /\ ckpt \in [full : BOOLEAN, water : Nat, ann : Contents] /\ ckpt.water <= JournalHead
      /\ tmp \in [step : {"none", "water", "copied"}, water : Nat, ann : Contents] /\ tmp.water <= JournalHead
      /\ ann \in Contents
      /\ mt \in Maintainers /\ mt.from <= JournalHead /\ mt.recv <= JournalHead /\ mt.from \in Nat /\ mt.recv \in Nat
      /\ mt.pos \in Nat /\ mt.todo \in Nat /\ mt.pend \in Seq(Nat) /\ Len(mt.pend) \in Nat
  BY MtNaturals DEF MtInv, MtTypes
<1>1. PICK E : E = Interval(mt.from, JournalHead)
  OBVIOUS
<1>2. /\ UNCHANGED <<log, ann, ix, reseed, ckpt, tmp, q>> /\ mt.pc = "cut" /\ reseed["mt"].step = "idle"
      /\ mt' = [mt EXCEPT !.pc = IF E = <<>> THEN "run" ELSE "replay",
                          !.pend = E, !.todo = Min({MaintainerBatch, Len(E)}), !.gen = ix.gen]
      /\ water' = IF mt'.pc = "run" THEN mt.from ELSE water
  BY <1>1 DEF MtCut
<1>3. PICK n \in Nat : n = JournalHead - mt.from
  BY <1>0
<1>4. E = [i \in 1 .. n |-> mt.from + i]
  <2>1. (IF JournalHead > mt.from THEN JournalHead - mt.from ELSE 0) = n
    BY <1>0, <1>3
  <2>. QED  BY <1>1, <2>1 DEF Interval
<1>5. E \in Seq(Nat) /\ Len(E) = n /\ (\A i \in 1 .. n : E[i] = mt.from + i) /\ (E = <<>> <=> n = 0)
  <2>1. \A i \in 1 .. n : mt.from + i \in Nat
    <3>1. mt.from \in Nat
      BY <1>0
    <3>. QED  BY ONLY <3>1
  <2>2. E \in [1 .. n -> Nat]
    BY <1>4, <2>1
  <2>3. E \in Seq(Nat) /\ Len(E) = n
    BY <2>2
  <2>. QED  BY <1>4, <2>3
<1>6. PICK t : t = Min({MaintainerBatch, n})
  OBVIOUS
<1>7. t \in Nat /\ t <= n /\ (n > 0 => t > 0)
  BY <1>6, BatchOf
<1>8. mt.pos = 0 /\ ~mt.live /\ Behind = mt.from
  <2>1. mt.pend = <<>> /\ mt.pos <= mt.todo /\ mt.todo <= Len(mt.pend) /\ ~mt.live
    BY <1>0, <1>2 DEF PendInv
  <2>2. Len(mt.pend) = 0
    BY <2>1
  <2>3. mt.pos = 0
    BY <1>0, <2>1, <2>2
  <2>. QED  BY <1>2, <2>1, <2>3 DEF Behind
<1>9. /\ mt' \in Maintainers /\ mt'.pc = (IF n = 0 THEN "run" ELSE "replay") /\ mt'.pend = E /\ mt'.todo = t
      /\ mt'.pos = 0 /\ mt'.from = mt.from /\ mt'.recv = mt.recv /\ mt'.live = FALSE /\ mt'.gen = ix.gen
  <2>1. mt' = [mt EXCEPT !.pc = IF n = 0 THEN "run" ELSE "replay", !.pend = E, !.todo = t, !.gen = ix.gen]
    BY <1>2, <1>5, <1>6
  <2>2. mt \in Maintainers /\ ix.gen \in Nat /\ E \in Seq(Nat) /\ t \in Nat /\ n \in Nat /\ mt.pos = 0 /\ ~mt.live
    BY <1>0, <1>5, <1>7, <1>8
  <2>. QED  BY ONLY <2>1, <2>2 DEF Maintainers
<1>10. Behind' = mt.from /\ JournalHead' = JournalHead /\ water' = (IF n = 0 THEN mt.from ELSE water)
       /\ water' \in 0 .. JournalHead
  <2>1. water' = (IF n = 0 THEN mt.from ELSE water) /\ water' \in 0 .. JournalHead
    BY <1>0, <1>2, <1>9
  <2>. QED  BY <1>2, <1>9, <2>1 DEF Behind, JournalHead
<1>11. PendInv'
  <2>1. \A i \in 1 .. Len(mt'.pend) : mt'.pend[i] = Behind' + i
    BY <1>5, <1>9, <1>10
  <2>2. Behind' + Len(mt'.pend) <= JournalHead' /\ mt'.pos <= mt'.todo /\ mt'.todo <= Len(mt'.pend)
    BY <1>0, <1>3, <1>5, <1>7, <1>9, <1>10
  <2>3. CASE n = 0
    <3>1. mt.from = JournalHead
      BY <1>0, <1>3, <2>3
    <3>2. mt.from + n = IF mt.from <= mt.recv THEN mt.recv ELSE mt.from
      BY <1>0, <2>3, <3>1
    <3>3. ~ (t > 0)
      BY <1>7, <2>3
    <3>. QED  BY <1>5, <1>9, <1>10, <2>1, <2>2, <2>3, <3>2, <3>3 DEF PendInv
  <2>4. CASE n > 0
    <3>1. mt.recv <= mt.from + n /\ t > 0 /\ n # 0
      <4>1. /\ mt.recv <= JournalHead /\ mt.from <= JournalHead /\ mt.from \in Nat /\ mt.recv \in Nat
            /\ JournalHead \in Nat /\ n \in Nat /\ n = JournalHead - mt.from /\ n > 0 /\ t > 0
        BY <1>0, <1>3, <1>7, <2>4
      <4>. QED  BY ONLY <4>1
    <3>. QED  BY <1>5, <1>9, <2>1, <2>2, <3>1 DEF PendInv
  <2>. QED  BY <2>3, <2>4
<1>12. AnnInv'
  <2>1. Exact(log, ann, mt.from + 0)
    BY <1>0, <1>2, <1>8 DEF AnnInv
  <2>2. tmp.step = "none"
    BY <1>0, <1>2 DEF AnnInv
  <2>. QED  BY <1>0, <1>2, <1>9, <1>10, <2>1, <2>2 DEF AnnInv
<1>13. ReseedInv'
  BY <1>0, <1>2 DEF ReseedInv
<1>14. IxInv'
  <2>1. Seeded' = Seeded
    BY <1>2 DEF Seeded
  <2>2. Seeded => Exact(log, ix.map, mt.from + 0)
    BY <1>0, <1>2 DEF IxInv
  <2>. QED  BY <1>0, <1>2, <1>8, <1>9, <1>10, <2>1, <2>2 DEF IxInv
<1>15. LookupInv'
  BY <1>0, <1>2, <1>8, <1>9, <1>10 DEF LookupInv
<1>. QED  BY <1>0, <1>2, <1>9, <1>10, <1>11, <1>12, <1>13, <1>14, <1>15, MtBeside

\* What the steps of a working maintainer start from.
LEMMA Working ==
    ASSUME MtInv
    PROVE  /\ MtTypes /\ PendInv /\ AnnInv /\ ReseedInv /\ IxInv /\ LookupInv /\ log \in Seq(Event)
           /\ ann \in Contents /\ ix \in IxRecords /\ ix.stamp <= JournalHead /\ ix.over <= JournalHead
           /\ reseed \in [{"ddl", "mt"} -> Reseeds] /\ \A d \in {"ddl", "mt"} : reseed[d].h0 <= JournalHead
           /\ mt \in Maintainers /\ mt.from <= JournalHead /\ mt.recv <= JournalHead /\ water \in 0 .. JournalHead
           /\ ckpt \in [full : BOOLEAN, water : Nat, ann : Contents] /\ ckpt.water <= JournalHead
           /\ tmp \in [step : {"none", "water", "copied"}, water : Nat, ann : Contents]
           /\ tmp.water <= JournalHead /\ q \in Lookups /\ q.head <= JournalHead
  BY DEF MtInv, MtTypes

LEMMA MtReceiveStep == ASSUME MtInv, MtReceive PROVE MtInv'
<1>0. PendInv /\ AnnInv /\ ReseedInv /\ IxInv /\ LookupInv /\ mt \in Maintainers /\ MtTypes
  BY Working
<1>1. /\ JournalHead \in Nat /\ water \in Nat /\ mt.from \in Nat /\ mt.recv \in Nat /\ mt.todo \in Nat
      /\ mt.pos \in Nat /\ mt.pend \in Seq(Nat) /\ Len(mt.pend) \in Nat
  BY <1>0, MtNaturals
<1>2. /\ UNCHANGED <<log, ann, ix, reseed, water, ckpt, tmp, q>> /\ mt.pc = "run" /\ mt.todo = 0
      /\ mt.recv < JournalHead /\ mt' = Taken(mt, mt.recv + 1)
  BY DEF MtReceive
<1>3. /\ mt.pos = 0 /\ Behind = water /\ (mt.live => mt.from <= mt.recv)
      /\ water + Len(mt.pend) = (IF mt.from <= mt.recv THEN mt.recv ELSE mt.from)
      /\ \A i \in 1 .. Len(mt.pend) : mt.pend[i] = water + i
      /\ water + Len(mt.pend) <= JournalHead
  BY <1>0, <1>1, <1>2 DEF PendInv, Behind
<1>4. JournalHead' = JournalHead /\ Seeded' = Seeded
  BY <1>2 DEF JournalHead, Seeded
<1>5. /\ mt' \in Maintainers /\ mt'.pc = "run" /\ mt'.from = mt.from /\ mt'.todo = 0 /\ mt'.pos = 0
      /\ mt'.gen = mt.gen /\ mt'.recv = mt.recv + 1 /\ mt'.recv <= JournalHead
      /\ PendInv' /\ Behind' = Behind
  <2>1. CASE ~mt.live /\ mt.recv + 1 <= mt.from
    <3>1. mt' = [mt EXCEPT !.recv = mt.recv + 1]
      BY <1>2, <2>1 DEF Taken
    <3>2. /\ mt' \in Maintainers /\ mt'.pc = "run" /\ mt'.from = mt.from /\ mt'.todo = 0 /\ mt'.pos = 0
          /\ mt'.gen = mt.gen /\ mt'.recv = mt.recv + 1 /\ mt'.pend = mt.pend /\ mt'.live = mt.live
      BY <1>0, <1>1, <1>2, <1>3, <3>1 DEF Maintainers
    <3>3. Behind' = Behind /\ Behind' = water
      BY <1>2, <1>3, <3>2 DEF Behind
    <3>4. water + Len(mt.pend) = (IF mt.from <= mt.recv + 1 THEN mt.recv + 1 ELSE mt.from)
      BY <1>1, <1>3, <2>1
    <3>5. /\ water + Len(mt.pend) <= JournalHead /\ 0 <= 0 /\ 0 <= Len(mt.pend) /\ ~ (0 > 0)
          /\ mt.live => mt.from <= mt.recv + 1
      BY <1>1, <1>3
    <3>6. PendInv'
      BY <1>2, <1>3, <1>4, <3>2, <3>3, <3>4, <3>5 DEF PendInv
    <3>. QED  BY <1>1, <1>2, <3>2, <3>3, <3>6
  <2>2. CASE ~ (~mt.live /\ mt.recv + 1 <= mt.from)
    <3>1. PICK P : P = Append(mt.pend, mt.recv + 1)
      OBVIOUS
    <3>2. mt' = [mt EXCEPT !.recv = mt.recv + 1, !.live = TRUE, !.pend = P]
      BY <1>0, <1>2, <2>2, <3>1 DEF Taken, Maintainers
    <3>3. mt.from <= mt.recv /\ water + Len(mt.pend) = mt.recv
      BY <1>1, <1>3, <2>2
    <3>4. /\ P \in Seq(Nat) /\ Len(P) = Len(mt.pend) + 1
          /\ \A i \in 1 .. Len(P) : P[i] = IF i <= Len(mt.pend) THEN mt.pend[i] ELSE mt.recv + 1
      BY <1>1, <3>1
    <3>5. /\ mt' \in Maintainers /\ mt'.pc = "run" /\ mt'.from = mt.from /\ mt'.todo = 0 /\ mt'.pos = 0
          /\ mt'.gen = mt.gen /\ mt'.recv = mt.recv + 1 /\ mt'.pend = P
      <4>1. mt.recv + 1 \in Nat
        BY <1>1
      <4>. QED  BY <1>0, <1>2, <1>3, <3>2, <3>4, <4>1 DEF Maintainers
    <3>6. Behind' = Behind /\ Behind' = water
      BY <1>2, <1>3, <3>5 DEF Behind
    <3>7. \A i \in 1 .. Len(P) : P[i] = water + i
      <4>1. ASSUME NEW i \in 1 .. Len(P) PROVE P[i] = water + i
        <5>1. CASE i <= Len(mt.pend)
          <6>1. i \in 1 .. Len(mt.pend)
            BY <1>1, <3>4, <5>1
          <6>. QED  BY <1>3, <3>4, <5>1, <6>1
        <5>2. CASE ~ (i <= Len(mt.pend))
          <6>1. i = Len(mt.pend) + 1
            <7>1. i \in Nat /\ i <= Len(mt.pend) + 1 /\ ~ (i <= Len(mt.pend)) /\ Len(mt.pend) \in Nat
              BY <1>1, <3>4, <5>2
            <7>. QED  BY ONLY <7>1
          <6>2. P[i] = mt.recv + 1
            BY <3>4, <5>2
          <6>. QED  BY <1>1, <3>3, <6>1, <6>2
        <5>. QED  BY <5>1, <5>2
      <4>. QED  BY <4>1
    <3>8. /\ water + Len(P) = (IF mt.from <= mt.recv + 1 THEN mt.recv + 1 ELSE mt.from)
          /\ water + Len(P) <= JournalHead /\ 0 <= Len(P) /\ mt.from <= mt.recv + 1
      <4>1. /\ water \in Nat /\ mt.from \in Nat /\ mt.recv \in Nat /\ JournalHead \in Nat /\ Len(mt.pend) \in Nat
            /\ mt.from <= mt.recv /\ water + Len(mt.pend) = mt.recv /\ Len(P) = Len(mt.pend) + 1
            /\ mt.recv < JournalHead
        BY <1>1, <1>2, <3>3, <3>4
      <4>. QED  BY ONLY <4>1
    <3>9. PendInv'
      BY <1>2, <1>4, <3>5, <3>6, <3>7, <3>8 DEF PendInv
    <3>. QED  BY <1>1, <1>2, <3>5, <3>6, <3>9
  <2>. QED  BY <2>1, <2>2
<1>6. AnnInv'
  BY <1>0, <1>2, <1>3, <1>5 DEF AnnInv
<1>7. ReseedInv'
  BY <1>0, <1>2, <1>5 DEF ReseedInv
<1>8. IxInv'
  BY <1>0, <1>2, <1>3, <1>4, <1>5 DEF IxInv
<1>9. LookupInv'
  BY <1>0, <1>2, <1>3, <1>5 DEF LookupInv
<1>. QED  BY <1>2, <1>5, <1>6, <1>7, <1>8, <1>9, Working, MtBeside

LEMMA MtDrainStep == ASSUME MtInv, MtDrain PROVE MtInv'
<1>0. PendInv /\ AnnInv /\ ReseedInv /\ IxInv /\ LookupInv /\ mt \in Maintainers /\ MtTypes
  BY Working
<1>1. /\ JournalHead \in Nat /\ water \in Nat /\ mt.from \in Nat /\ mt.recv \in Nat /\ mt.todo \in Nat
      /\ mt.pos \in Nat /\ mt.pend \in Seq(Nat) /\ Len(mt.pend) \in Nat /\ ix.gen \in Nat
  BY <1>0, MtNaturals
<1>2. /\ UNCHANGED <<log, ann, ix, reseed, water, ckpt, tmp, q>> /\ mt.pc = "run" /\ mt.todo = 0
      /\ mt' = [mt EXCEPT !.todo = Len(mt.pend), !.pos = 0, !.gen = ix.gen]
  BY DEF MtDrain
<1>3. mt.pos = 0
  BY <1>0, <1>1, <1>2 DEF PendInv
<1>4. JournalHead' = JournalHead /\ Seeded' = Seeded
  BY <1>2 DEF JournalHead, Seeded
<1>5. /\ mt' \in Maintainers /\ mt'.pc = "run" /\ mt'.from = mt.from /\ mt'.todo = Len(mt.pend) /\ mt'.pos = 0
      /\ mt'.gen = ix.gen /\ mt'.recv = mt.recv /\ mt'.pend = mt.pend /\ mt'.live = mt.live
  BY <1>0, <1>1, <1>2 DEF Maintainers
<1>6. Behind' = Behind
  BY <1>2, <1>5 DEF Behind
<1>7. PendInv'
  BY <1>0, <1>1, <1>2, <1>4, <1>5, <1>6 DEF PendInv
<1>8. AnnInv'
  BY <1>0, <1>2, <1>3, <1>5, <1>6 DEF AnnInv
<1>9. ReseedInv'
  BY <1>0, <1>2, <1>5 DEF ReseedInv
<1>10. IxInv'
  BY <1>0, <1>2, <1>3, <1>4, <1>5, <1>6 DEF IxInv
<1>11. LookupInv'
  BY <1>0, <1>2, <1>3, <1>5, <1>6 DEF LookupInv
<1>. QED  BY <1>2, <1>5, <1>7, <1>8, <1>9, <1>10, <1>11, Working, MtBeside

\* An event that is applied is of an object that has one.
LEMMA ExactNone ==
    ASSUME NEW J \in Seq(Event), NEW m \in Contents, NEW i \in 1 .. Len(J), Exact(J, m, 0)
    PROVE  Exact(J, [m EXCEPT ![J[i].obj] = J[i].val], 0)
<1>1. PICK p, v, r : p = J[i].obj /\ v = J[i].val /\ r = [m EXCEPT ![p] = v]
  OBVIOUS
<1>2. ASSUME NEW o \in Objs, LastIn(J, o) <= 0 PROVE r[o] = HeadIn(J, o)
  <2>1. Len(J) \in Nat /\ LastIn(J, o) \in 0 .. Len(J) /\ (J[i].obj = o => i <= LastIn(J, o))
    BY LastIs
  <2>2. o # p
    BY <1>1, <1>2, <2>1
  <2>3. r[o] = m[o]
    BY <1>1, <2>2 DEF Contents
  <2>. QED  BY <1>2, <2>3 DEF Exact
<1>. QED  BY <1>1, <1>2 DEF Exact

LEMMA MtApplyStep == ASSUME MtInv, MtApply PROVE MtInv'
<1>0. /\ PendInv /\ AnnInv /\ ReseedInv /\ IxInv /\ LookupInv /\ mt \in Maintainers /\ MtTypes
      /\ log \in Seq(Event) /\ ann \in Contents /\ ix \in IxRecords /\ ix.stamp <= JournalHead /\ ix.over <= JournalHead
  BY Working
<1>1. /\ JournalHead \in Nat /\ water \in Nat /\ mt.from \in Nat /\ mt.recv \in Nat /\ mt.todo \in Nat
      /\ mt.pos \in Nat /\ mt.pend \in Seq(Nat) /\ Len(mt.pend) \in Nat /\ ix.gen \in Nat /\ Behind \in Nat
      /\ ix.map \in Contents /\ ix.over \in Nat
  BY <1>0, MtNaturals
<1>2. PICK n \in Nat : n = Behind + mt.pos
  BY <1>1
<1>3. /\ UNCHANGED <<log, reseed, water, ckpt, tmp, q>> /\ mt.pc \in {"replay", "run"} /\ mt.pos < mt.todo
      /\ mt' = [mt EXCEPT !.pos = mt.pos + 1]
  BY <1>0 DEF MtApply, Maintainers
<1>4. /\ mt.pos + 1 \in 1 .. Len(mt.pend) /\ mt.pend[mt.pos + 1] = n + 1 /\ n < JournalHead
      /\ n + 1 <= Behind + mt.todo
  <2>1. mt.pos + 1 \in 1 .. Len(mt.pend) /\ Behind + Len(mt.pend) <= JournalHead
    <3>1. mt.todo <= Len(mt.pend) /\ Behind + Len(mt.pend) <= JournalHead
      BY <1>0 DEF PendInv
    <3>2. mt.pos < mt.todo /\ mt.pos \in Nat /\ mt.todo \in Nat /\ Len(mt.pend) \in Nat
      BY <1>1, <1>3
    <3>3. mt.pos + 1 \in 1 .. Len(mt.pend)
      BY ONLY <3>1, <3>2
    <3>. QED  BY <3>1, <3>3
  <2>2. mt.pend[mt.pos + 1] = Behind + (mt.pos + 1)
    BY <1>0, <2>1 DEF PendInv
  <2>3. n < JournalHead /\ n + 1 <= Behind + mt.todo /\ Behind + (mt.pos + 1) = n + 1
    <3>1. /\ mt.pos < mt.todo /\ mt.pos \in Nat /\ mt.todo \in Nat /\ Behind \in Nat /\ n = Behind + mt.pos
          /\ Len(mt.pend) \in Nat /\ JournalHead \in Nat /\ mt.pos + 1 <= Len(mt.pend)
          /\ Behind + Len(mt.pend) <= JournalHead
      BY <1>1, <1>2, <1>3, <2>1
    <3>2. PICK a, p, k, h : a = Behind /\ p = mt.pos /\ k = Len(mt.pend) /\ h = JournalHead
      OBVIOUS
    <3>3. Behind + mt.pos < JournalHead
      <4>1. a \in Nat /\ p \in Nat /\ k \in Nat /\ h \in Nat /\ p + 1 <= k /\ a + k <= h
        BY <3>1, <3>2, Zenon
      <4>2. a + p < h
        BY ONLY <4>1
      <4>. QED  BY <3>2, <4>2, Zenon
    <3>4. n + 1 <= Behind + mt.todo /\ Behind + (mt.pos + 1) = n + 1
      <4>1. /\ mt.pos < mt.todo /\ mt.pos \in Nat /\ mt.todo \in Nat /\ Behind \in Nat /\ n = Behind + mt.pos
        BY <3>1
      <4>. QED  BY ONLY <4>1
    <3>. QED  BY <3>1, <3>3, <3>4
  <2>. QED  BY <2>1, <2>2, <2>3
<1>5. PICK e : e = log[n + 1]
  OBVIOUS
<1>6. /\ ann' = [ann EXCEPT ![e.obj] = e.val]
      /\ ix' = IF mt.gen = ix.gen /\ ix.reg # "none" THEN [ix EXCEPT !.map[e.obj] = e.val] ELSE ix
  BY <1>4, <1>5 DEF MtApply
<1>7. /\ mt' \in Maintainers /\ mt'.pc = mt.pc /\ mt'.from = mt.from /\ mt'.todo = mt.todo /\ mt'.pos = mt.pos + 1
      /\ mt'.gen = mt.gen /\ mt'.recv = mt.recv /\ mt'.pend = mt.pend /\ mt'.live = mt.live
  <2>1. mt.pos + 1 \in Nat
    BY <1>1
  <2>. QED  BY <1>0, <1>3, <2>1 DEF Maintainers
<1>8. Behind' = Behind /\ JournalHead' = JournalHead /\ Behind' + mt'.pos = n + 1 /\ JournalHead = Len(log)
  <2>1. Behind' = Behind /\ JournalHead' = JournalHead
    BY <1>3, <1>7 DEF Behind, JournalHead
  <2>. QED  BY <1>1, <1>2, <1>7, <2>1 DEF JournalHead
<1>9. PendInv'
  BY <1>0, <1>1, <1>3, <1>7, <1>8 DEF PendInv
<1>10. ann' \in Contents /\ Exact(log, ann', n + 1)
  <2>1. Exact(log, ann, n)
    BY <1>0, <1>2, <1>3 DEF AnnInv
  <2>. QED  BY <1>0, <1>4, <1>5, <1>6, <1>8, <2>1, ExactAfterApply
<1>11. AnnInv'
  BY <1>0, <1>3, <1>7, <1>8, <1>10 DEF AnnInv
<1>12. ReseedInv' /\ ix' \in IxRecords /\ IxInv' /\ ix'.stamp = ix.stamp /\ ix'.over = ix.over /\ ix'.reg = ix.reg
  <2>1. CASE mt.gen = ix.gen /\ ix.reg # "none"
    <3>1. PICK r : r = [ix.map EXCEPT ![e.obj] = e.val]
      OBVIOUS
    <3>2. ix' = [ix EXCEPT !.map = r]
      BY <1>0, <1>6, <2>1, <3>1 DEF IxRecords
    <3>3. n + 1 \in 1 .. Len(log)
      BY <1>4, <1>8, <1>1
    <3>4. Exact(log, ix.map, 0)
      BY <1>0 DEF IxInv
    <3>5. Exact(log, r, 0)
      BY <1>0, <1>1, <1>5, <3>1, <3>3, <3>4, ExactNone
    <3>6. r \in Contents
      <4>1. e \in Event
        BY <1>0, <1>5, <3>3
      <4>. QED  BY <1>1, <3>1, <4>1 DEF Contents, Event
    <3>7. /\ ix' \in IxRecords /\ ix'.map = r /\ ix'.stamp = ix.stamp /\ ix'.over = ix.over /\ ix'.row = ix.row
          /\ ix'.reg = ix.reg /\ ix'.gen = ix.gen
      BY <1>0, <3>2, <3>6 DEF IxRecords
    <3>8. Seeded' = Seeded
      BY <1>3, <3>7 DEF Seeded
    <3>9. Seeded => Exact(log, r, n + 1)
      <4>1. Seeded => Exact(log, ix.map, n)
        BY <1>0, <1>2, <1>3 DEF IxInv
      <4>. QED  BY <1>0, <1>1, <1>4, <1>5, <1>8, <3>1, <4>1, ExactAfterApply
    <3>10. IxInv'
      BY <1>0, <1>3, <1>7, <1>8, <2>1, <3>5, <3>7, <3>8, <3>9 DEF IxInv
    <3>11. ReseedInv'
      BY <1>0, <1>3, <1>7, <3>7 DEF ReseedInv
    <3>. QED  BY <3>7, <3>10, <3>11
  <2>2. CASE ~ (mt.gen = ix.gen /\ ix.reg # "none")
    <3>1. ix' = ix
      BY <1>6, <2>2
    <3>2. Seeded' = Seeded
      BY <1>3, <3>1 DEF Seeded
    <3>3. ReseedInv'
      BY <1>0, <1>3, <1>7, <3>1 DEF ReseedInv
    <3>4. Seeded => Exact(log, ix.map, Behind + mt.todo)
      BY <1>0, <1>3, <2>2 DEF IxInv, Seeded
    <3>5. Seeded => Exact(log, ix.map, n + 1)
      <4>1. n + 1 \in Nat /\ Behind + mt.todo \in Nat
        BY <1>1
      <4>. QED  BY <1>0, <1>4, <3>4, <4>1, ExactLess
    <3>6. IxInv'
      BY <1>0, <1>3, <1>7, <1>8, <3>1, <3>2, <3>4, <3>5 DEF IxInv
    <3>. QED  BY <1>0, <3>1, <3>3, <3>6
  <2>. QED  BY <2>1, <2>2
<1>13. LookupInv'
  <2>1. ix.over <= n => ix.over <= n + 1
    BY <1>1
  <2>. QED  BY <1>0, <1>2, <1>3, <1>8, <1>12, <2>1 DEF LookupInv
<1>14. ix'.stamp <= JournalHead /\ ix'.over <= JournalHead
  BY <1>0, <1>12
<1>15. mt'.from <= JournalHead /\ mt'.recv <= JournalHead
  BY <1>7, Working
<1>. QED  BY <1>3, <1>7, <1>9, <1>10, <1>11, <1>12, <1>13, <1>14, <1>15, Working, MtBeside

\* What is left of a run of events when the first t are done.
LEMMA RestOf ==
    ASSUME NEW P \in Seq(Nat), NEW a \in Nat, NEW t \in Nat, t <= Len(P), \A i \in 1 .. Len(P) : P[i] = a + i
    PROVE  \E R \in Seq(Nat) : /\ R = SubSeq(P, t + 1, Len(P)) /\ Len(R) = Len(P) - t
                               /\ R = <<>> <=> Len(P) - t = 0
                               /\ \A i \in 1 .. Len(P) - t : R[i] = a + t + i
<1>1. PICK k \in Nat : k = Len(P)
  OBVIOUS
<1>2. PICK l \in Nat : l = k - t
  <2>1. t <= k
    BY <1>1
  <2>2. k - t \in Nat
    BY ONLY <2>1, k \in Nat, t \in Nat
  <2>. QED  BY <2>2
<1>3. PICK R : R = SubSeq(P, t + 1, k)
  OBVIOUS
<1>4. R \in Seq(Nat) /\ Len(R) = l /\ \A i \in 1 .. l : R[i] = P[i + t]
  <2>1. t + 1 \in Nat /\ k \in Nat /\ P \in Seq(Nat)
    BY <1>1
  <2>2. \A i \in (t + 1) .. k : i \in 1 .. k
    BY <1>1
  <2>3. R = [i \in 1 .. l |-> P[i + t]]
    <3>1. R = [i \in 1 .. (k - (t + 1) + 1) |-> P[i + (t + 1) - 1]]
      BY <1>3
    <3>2. k - (t + 1) + 1 = l /\ \A i \in 1 .. l : i + (t + 1) - 1 = i + t
      BY <1>1, <1>2
    <3>. QED  BY <3>1, <3>2
  <2>4. ASSUME NEW i \in 1 .. l PROVE P[i + t] \in Nat
    <3>1. i + t \in 1 .. Len(P)
      BY <1>1, <1>2
    <3>. QED  BY <3>1
  <2>5. R \in [1 .. l -> Nat]
    BY <2>3, <2>4
  <2>6. R \in Seq(Nat) /\ Len(R) = l
    BY <2>5
  <2>. QED  BY <2>3, <2>6
<1>5. ASSUME NEW i \in 1 .. l PROVE R[i] = a + t + i
  <2>1. i + t \in 1 .. Len(P)
    BY <1>1, <1>2
  <2>2. R[i] = a + (i + t)
    BY <1>4, <2>1
  <2>. QED  BY <2>2
<1>6. R = <<>> <=> l = 0
  BY <1>4
<1>. QED  BY <1>1, <1>2, <1>3, <1>4, <1>5, <1>6

LEMMA MtBatchDoneStep == ASSUME MtInv, MtBatchDone PROVE MtInv'
<1>0. /\ PendInv /\ AnnInv /\ ReseedInv /\ IxInv /\ LookupInv /\ mt \in Maintainers /\ MtTypes
      /\ log \in Seq(Event) /\ ix \in IxRecords /\ ix.stamp <= JournalHead /\ ix.over <= JournalHead
      /\ mt.from <= JournalHead /\ mt.recv <= JournalHead
  BY Working
<1>1. /\ JournalHead \in Nat /\ water \in Nat /\ mt.from \in Nat /\ mt.recv \in Nat /\ mt.todo \in Nat
      /\ mt.pos \in Nat /\ mt.pend \in Seq(Nat) /\ Len(mt.pend) \in Nat /\ ix.gen \in Nat /\ Behind \in Nat
      /\ ix.stamp \in Nat /\ ix.over \in Nat /\ q.head \in Nat
  BY <1>0, MtNaturals
<1>2. PICK n, l, t \in Nat : n = Behind + mt.todo /\ l = Len(mt.pend) - mt.todo /\ t = mt.todo
  <2>1. mt.todo <= Len(mt.pend)
    BY <1>0 DEF PendInv
  <2>2. Len(mt.pend) - mt.todo \in Nat /\ Behind + mt.todo \in Nat
    BY <1>1, <2>1
  <2>. QED  BY <1>1, <2>2
<1>3. PICK R : R = SubSeq(mt.pend, mt.todo + 1, Len(mt.pend))
  OBVIOUS
<1>4. mt.pc \in {"replay", "run"} /\ t > 0 /\ mt.pos = t /\ t <= Len(mt.pend) /\ t \in 1 .. Len(mt.pend)
  <2>1. mt.pc \in {"replay", "run"} /\ mt.todo > 0 /\ mt.pos = mt.todo /\ mt.todo <= Len(mt.pend)
    BY <1>0 DEF MtBatchDone, PendInv
  <2>. QED  BY <1>1, <1>2, <2>1
<1>5. mt.pend[mt.todo] = n /\ Behind + Len(mt.pend) <= JournalHead /\ \A i \in 1 .. Len(mt.pend) : mt.pend[i] = Behind + i
  BY <1>0, <1>2, <1>4 DEF PendInv
<1>6. R \in Seq(Nat) /\ Len(R) = l /\ (R = <<>> <=> l = 0) /\ \A i \in 1 .. l : R[i] = n + i
  <2>1. mt.todo <= Len(mt.pend) /\ Behind + mt.todo = n
    BY <1>2, <1>4
  <2>2. /\ R \in Seq(Nat) /\ Len(R) = Len(mt.pend) - mt.todo /\ (R = <<>> <=> Len(mt.pend) - mt.todo = 0)
        /\ \A i \in 1 .. Len(mt.pend) - mt.todo : R[i] = Behind + mt.todo + i
    <3>1. \A i \in 1 .. Len(mt.pend) : mt.pend[i] = Behind + i
      BY <1>5
    <3>2. PICK P, a : P = mt.pend /\ a = Behind
      OBVIOUS
    <3>3. /\ P \in Seq(Nat) /\ a \in Nat /\ t \in Nat /\ t <= Len(P) /\ t = mt.todo
          /\ \A i \in 1 .. Len(P) : P[i] = a + i
      BY <1>1, <1>2, <2>1, <3>1, <3>2
    <3>4. \E S \in Seq(Nat) : /\ S = SubSeq(P, t + 1, Len(P)) /\ Len(S) = Len(P) - t
                              /\ S = <<>> <=> Len(P) - t = 0
                              /\ \A i \in 1 .. Len(P) - t : S[i] = a + t + i
      BY ONLY <3>3, RestOf
    <3>5. R = SubSeq(P, t + 1, Len(P))
      BY <1>3, <3>2, <3>3
    <3>6. /\ R \in Seq(Nat) /\ Len(R) = Len(P) - t /\ (R = <<>> <=> Len(P) - t = 0)
          /\ \A i \in 1 .. Len(P) - t : R[i] = a + t + i
      BY <3>4, <3>5, Zenon
    <3>. QED  BY <3>2, <3>3, <3>6, Zenon
  <2>. QED  BY <1>2, <2>2
<1>7. PICK b : b = Min({MaintainerBatch, l})
  OBVIOUS
<1>8. b \in Nat /\ b <= l /\ (l > 0 => b > 0)
  BY <1>7, BatchOf
<1>9. /\ UNCHANGED <<log, ann, reseed, ckpt, tmp, q>>
      /\ ix' = (IF mt.gen = ix.gen /\ ix.reg # "none" THEN [ix EXCEPT !.stamp = n] ELSE ix)
      /\ mt' = [mt EXCEPT !.pc = IF l = 0 THEN "run" ELSE "replay", !.pend = R, !.pos = 0, !.failed = FALSE,
                          !.todo = IF l = 0 THEN 0 ELSE b,
                          !.from = IF mt.pc = "replay" THEN n ELSE mt.from, !.gen = ix.gen]
      /\ water' = (IF l = 0 THEN n ELSE water)
  BY <1>0, <1>3, <1>5, <1>6, <1>7 DEF MtBatchDone, BatchStamp, Maintainers
<1>10. mt.pc = "run" => l = 0 /\ Behind = water
  <2>1. mt.pc = "run" => mt.todo = Len(mt.pend) /\ Behind = water
    BY <1>0, <1>2, <1>4 DEF PendInv, Behind
  <2>. QED  BY <1>1, <1>2, <2>1
<1>11. n <= JournalHead /\ Behind <= n /\ n + l <= JournalHead /\ n + l = Behind + Len(mt.pend)
  <2>1. /\ Behind \in Nat /\ mt.todo \in Nat /\ Len(mt.pend) \in Nat /\ JournalHead \in Nat
        /\ n = Behind + mt.todo /\ l = Len(mt.pend) - mt.todo /\ l \in Nat
        /\ Behind + Len(mt.pend) <= JournalHead
    BY <1>1, <1>2, <1>5
  <2>2. mt.todo <= Len(mt.pend)
    BY <1>0 DEF PendInv
  <2>3. PICK a, k, h : a = Behind /\ k = Len(mt.pend) /\ h = JournalHead
    OBVIOUS
  <2>4. /\ a \in Nat /\ t \in Nat /\ k \in Nat /\ h \in Nat /\ t <= k /\ a + k <= h
        /\ n = a + t /\ l = k - t
    BY <1>2, <2>1, <2>2, <2>3, Zenon
  <2>5. n <= h /\ a <= n /\ n + l <= h /\ n + l = a + k
    BY ONLY <2>4
  <2>. QED  BY <2>3, <2>5, Zenon
<1>12. PICK f \in Nat : f = IF mt.pc = "replay" THEN n ELSE mt.from
  BY <1>1, <1>2
<1>13. PICK u \in Nat : u = IF l = 0 THEN 0 ELSE b
  BY <1>8
<1>14. /\ mt' \in Maintainers /\ mt'.pc = (IF l = 0 THEN "run" ELSE "replay") /\ mt'.pend = R /\ mt'.pos = 0
       /\ mt'.todo = u /\ mt'.from = f /\ mt'.gen = ix.gen /\ mt'.recv = mt.recv /\ mt'.live = mt.live
  BY <1>0, <1>1, <1>6, <1>9, <1>12, <1>13 DEF Maintainers
<1>15. Behind' = n /\ JournalHead' = JournalHead /\ water' \in 0 .. JournalHead /\ f <= JournalHead
       /\ Behind' + mt'.pos = n
  <2>1. Behind' = n
    BY <1>4, <1>9, <1>10, <1>12, <1>14 DEF Behind
  <2>2. water' \in 0 .. JournalHead
    <3>1. water \in 0 .. JournalHead
      BY Working
    <3>. QED  BY <1>1, <1>2, <1>9, <1>11, <3>1
  <2>3. n + 0 = n
    BY <1>2
  <2>. QED  BY <1>0, <1>9, <1>11, <1>12, <1>14, <2>1, <2>2, <2>3 DEF JournalHead
<1>16. PendInv'
  <2>1. \A i \in 1 .. Len(mt'.pend) : mt'.pend[i] = Behind' + i
    BY <1>6, <1>14, <1>15
  <2>2. Behind' + Len(mt'.pend) <= JournalHead' /\ mt'.pos <= mt'.todo /\ mt'.todo <= Len(mt'.pend)
    <3>1. n + l <= JournalHead /\ 0 <= u /\ u <= l
      BY <1>2, <1>8, <1>11, <1>13
    <3>. QED  BY <1>6, <1>14, <1>15, <3>1
  <2>3. CASE l = 0
    <3>1. u = 0 /\ ~ (u > 0) /\ water' = n
      BY <1>9, <1>13, <2>3
    <3>2. (mt.live => f <= mt.recv) /\ n + l = IF f <= mt.recv THEN mt.recv ELSE f
      <4>1. CASE mt.pc = "run"
        <5>1. /\ mt.live => mt.from <= mt.recv
              /\ Behind + Len(mt.pend) = IF mt.from <= mt.recv THEN mt.recv ELSE mt.from
          BY <1>0, <1>10, <4>1 DEF PendInv
        <5>2. f = mt.from
          BY <1>12, <4>1
        <5>. QED  BY <1>11, <5>1, <5>2
      <4>2. CASE mt.pc = "replay"
        <5>1. ~mt.live /\ mt.recv <= mt.from + Len(mt.pend) /\ Behind = mt.from
          BY <1>0, <4>2 DEF PendInv, Behind
        <5>2. f = n /\ mt.recv <= n + l
          BY <1>11, <1>12, <4>2, <5>1
        <5>. QED  BY <1>1, <1>2, <2>3, <5>1, <5>2
      <4>. QED  BY <1>4, <4>1, <4>2
    <3>. QED  BY <1>6, <1>14, <2>1, <2>2, <2>3, <3>1, <3>2 DEF PendInv
  <2>4. CASE l # 0
    <3>1. mt.pc = "replay" /\ f = n /\ u > 0
      BY <1>2, <1>4, <1>8, <1>10, <1>12, <1>13, <2>4
    <3>2. ~mt.live /\ mt.recv <= mt.from + Len(mt.pend) /\ Behind = mt.from
      BY <1>0, <3>1 DEF PendInv, Behind
    <3>3. mt.recv <= f + l
      BY <1>11, <3>1, <3>2
    <3>. QED  BY <1>6, <1>14, <2>1, <2>2, <2>4, <3>1, <3>2, <3>3 DEF PendInv
  <2>. QED  BY <2>3, <2>4
<1>17. Behind + mt.pos = n
  BY <1>2, <1>4
<1>18. AnnInv'
  <2>1. Exact(log, ann, n)
    BY <1>0, <1>4, <1>17 DEF AnnInv
  <2>2. tmp.step # "none" => mt.pc = "run" /\ l = 0
    BY <1>0, <1>10 DEF AnnInv
  <2>3. tmp.step = "water" => tmp.water <= water /\ water' = n /\ water <= n
    BY <1>0, <1>9, <1>10, <1>11, <2>2 DEF AnnInv
  <2>4. tmp.step = "water" => tmp.water <= water'
    <3>1. tmp.water \in Nat
      BY <1>0, MtNaturals
    <3>. QED  BY <1>1, <1>2, <2>3, <3>1
  <2>. QED  BY <1>0, <1>9, <1>14, <1>15, <2>1, <2>2, <2>4 DEF AnnInv
<1>19. /\ ix' \in IxRecords /\ ix'.map = ix.map /\ ix'.over = ix.over /\ ix'.row = ix.row /\ ix'.reg = ix.reg
       /\ ix'.gen = ix.gen /\ ix'.stamp \in {ix.stamp, n}
  BY <1>0, <1>2, <1>9 DEF IxRecords
<1>20. ReseedInv'
  BY <1>0, <1>4, <1>9, <1>19 DEF ReseedInv
<1>21. IxInv'
  <2>1. Seeded' = Seeded
    BY <1>9, <1>19 DEF Seeded
  <2>2. ix'.stamp <= ix'.over \/ ix'.stamp <= n
    <3>1. ix.stamp <= ix.over \/ ix.stamp <= Behind
      BY <1>0 DEF IxInv
    <3>2. ix.stamp <= Behind => ix.stamp <= n
      BY <1>1, <1>2, <1>11
    <3>. QED  BY <1>2, <1>19, <3>1, <3>2
  <2>3. Seeded => Exact(log, ix.map, n)
    BY <1>0, <1>4, <1>17 DEF IxInv
  <2>4. Exact(log, ix.map, 0)
    BY <1>0 DEF IxInv
  <2>. QED  BY <1>9, <1>14, <1>15, <1>19, <2>1, <2>2, <2>3, <2>4 DEF IxInv
<1>22. LookupInv'
  <2>1. CASE q.step = "tail" /\ q.quiet
    <3>1. /\ ix.over <= n /\ \A c \in {"ddl", "mt"} : reseed[c].step # "scan"
          /\ \A o \in Objs : LastIn(log, o) <= q.head /\ o \notin q.tail => LastIn(log, o) <= ix.stamp
          /\ ix.reg \in {"Ready", "Dropping"}
      BY <1>0, <1>17, <2>1 DEF LookupInv
    <3>2. ix.stamp <= n
      <4>1. ix.stamp <= ix.over \/ ix.stamp <= Behind
        BY <1>0 DEF IxInv
      <4>2. ix.stamp \in Nat /\ ix.over \in Nat /\ Behind \in Nat /\ n \in Nat /\ Behind <= n /\ ix.over <= n
        BY <1>1, <1>2, <1>11, <3>1
      <4>. QED  BY ONLY <4>1, <4>2
    <3>3. ASSUME NEW o \in Objs, LastIn(log, o) <= q.head, o \notin q.tail PROVE LastIn(log, o) <= ix'.stamp
      <4>1. LastIn(log, o) \in Nat /\ LastIn(log, o) <= ix.stamp
        BY <1>0, <3>1, <3>3, LastIs
      <4>. QED  BY <1>1, <1>2, <1>19, <3>2, <4>1
    <3>. QED  BY <1>9, <1>15, <1>19, <2>1, <3>1, <3>3 DEF LookupInv
  <2>2. CASE ~ (q.step = "tail" /\ q.quiet)
    BY <1>0, <1>9, <1>19, <2>2 DEF LookupInv
  <2>. QED  BY <2>1, <2>2
<1>23. ix'.stamp <= JournalHead /\ ix'.over <= JournalHead /\ mt'.from <= JournalHead /\ mt'.recv <= JournalHead
  BY <1>0, <1>11, <1>14, <1>15, <1>19
<1>. QED  BY <1>9, <1>14, <1>15, <1>16, <1>18, <1>19, <1>20, <1>21, <1>22, <1>23, Working, MtBeside

LEMMA MtErrorStep == ASSUME MtInv, MtError PROVE MtInv'
<1>0. /\ PendInv /\ AnnInv /\ ReseedInv /\ IxInv /\ LookupInv /\ mt \in Maintainers /\ MtTypes
      /\ log \in Seq(Event) /\ ix \in IxRecords /\ ix.stamp <= JournalHead /\ ix.over <= JournalHead
      /\ mt.from <= JournalHead /\ mt.recv <= JournalHead /\ q \in Lookups /\ q.head <= JournalHead
      /\ reseed \in [{"ddl", "mt"} -> Reseeds]
  BY Working
<1>1. /\ JournalHead \in Nat /\ water \in Nat /\ mt.from \in Nat /\ mt.recv \in Nat /\ mt.todo \in Nat
      /\ mt.pos \in Nat /\ mt.pend \in Seq(Nat) /\ Len(mt.pend) \in Nat /\ ix.gen \in Nat /\ Behind \in Nat
      /\ ix.stamp \in Nat /\ ix.over \in Nat /\ q.head \in Nat
  BY <1>0, MtNaturals
<1>2. /\ UNCHANGED <<log, ann, reseed, water, ckpt, tmp>> /\ mt.todo > 0 /\ mt.pos < mt.todo
      /\ mt' = AfterError(mt) /\ ix' = (IF mt.pc = "replay" THEN [ix EXCEPT !.over = ix.stamp] ELSE ix)
      /\ q' = [q EXCEPT !.quiet = q.quiet /\ ~Overtaken']
  BY <1>0 DEF MtError, Lookups
<1>3. Len(mt.pend) > 0 /\ mt.pc \in {"replay", "run"}
  <2>1. mt.todo <= Len(mt.pend) /\ (mt.pc \notin {"replay", "run"} => Len(mt.pend) = 0)
    BY <1>0 DEF PendInv
  <2>2. Len(mt.pend) \in Nat /\ mt.todo \in Nat /\ mt.todo > 0
    BY <1>1, <1>2
  <2>. QED  BY ONLY <2>1, <2>2
<1>4. q' \in Lookups /\ q'.step = q.step /\ q'.tail = q.tail /\ q'.head = q.head /\ (q'.quiet <=> q.quiet /\ ~Overtaken')
  BY <1>0, <1>2 DEF Lookups
<1>5. JournalHead' = JournalHead
  BY <1>2 DEF JournalHead
<1>6. CASE mt.pc = "run"
  <2>1. mt' = [mt EXCEPT !.failed = TRUE, !.todo = 0, !.pos = 0] /\ ix' = ix
    BY <1>2, <1>6 DEF AfterError
  <2>2. /\ mt' \in Maintainers /\ mt'.pc = "run" /\ mt'.from = mt.from /\ mt'.todo = 0 /\ mt'.pos = 0
        /\ mt'.gen = mt.gen /\ mt'.recv = mt.recv /\ mt'.pend = mt.pend /\ mt'.live = mt.live
    BY <1>0, <1>6, <2>1 DEF Maintainers
  <2>3. Behind' = Behind /\ Behind' + mt'.pos = Behind /\ Behind' + mt'.todo = Behind
    <3>1. Behind' = Behind
      BY <1>2, <1>6, <2>2 DEF Behind
    <3>. QED  BY <1>1, <2>2, <3>1
  <2>4. PendInv'
    BY <1>0, <1>1, <1>2, <1>5, <1>6, <2>2, <2>3 DEF PendInv
  <2>5. ASSUME NEW m, Exact(log, m, Behind + mt.pos) PROVE Exact(log, m, Behind)
    <3>1. Behind + mt.pos \in Nat /\ Behind <= Behind + mt.pos
      BY <1>1
    <3>. QED  BY <1>0, <1>1, <2>5, <3>1, ExactLess
  <2>6. AnnInv'
    BY <1>0, <1>2, <1>6, <2>2, <2>3, <2>5 DEF AnnInv
  <2>7. ReseedInv'
    BY <1>0, <1>2, <1>6, <2>1, <2>2 DEF ReseedInv
  <2>8. Seeded' = Seeded
    BY <1>2, <2>1 DEF Seeded
  <2>9. IxInv'
    BY <1>0, <1>2, <1>6, <2>1, <2>2, <2>3, <2>5, <2>8 DEF IxInv
  <2>10. NextEvent' = Behind + 1
    <3>1. mt'.pend # <<>> /\ mt'.pos < Len(mt'.pend) /\ mt'.pos + 1 = 1
      BY <1>1, <1>3, <2>2
    <3>2. NextEvent' = mt'.pend[1]
      BY <2>2, <3>1 DEF NextEvent
    <3>3. 1 \in 1 .. Len(mt.pend)
      BY <1>1, <1>3
    <3>4. mt.pend[1] = Behind + 1
      BY <1>0, <3>3 DEF PendInv
    <3>. QED  BY <2>2, <3>2, <3>4
  <2>11. ~Overtaken' => ix.over <= Behind
    BY <1>1, <2>1, <2>10 DEF Overtaken
  <2>12. LookupInv'
    BY <1>0, <1>2, <1>4, <2>1, <2>3, <2>11 DEF LookupInv
  <2>. QED  BY <1>0, <1>2, <1>4, <2>1, <2>2, <2>4, <2>6, <2>7, <2>9, <2>12, Working, MtBeside
<1>7. CASE mt.pc = "replay"
  <2>1. PICK p \in {"fresh", "dead"} : mt' = [Off EXCEPT !.pc = p]
    BY <1>2, <1>7 DEF AfterError
  <2>2. /\ mt' \in Maintainers /\ mt'.pc = p /\ mt'.from = 0 /\ mt'.todo = 0 /\ mt'.pos = 0
        /\ mt'.recv = 0 /\ mt'.pend = <<>>
    <3>1. <<>> \in Seq(Nat)
      OBVIOUS
    <3>. QED  BY <2>1, <3>1 DEF Off, Maintainers
  <2>3. /\ ix' \in IxRecords /\ ix'.map = ix.map /\ ix'.over = ix.stamp /\ ix'.stamp = ix.stamp /\ ix'.row = ix.row
        /\ ix'.reg = ix.reg /\ ix'.gen = ix.gen
    BY <1>0, <1>2, <1>7 DEF IxRecords
  <2>4. Behind' = 0
    BY <2>2 DEF Behind
  <2>5. PendInv'
    BY <1>1, <1>5, <2>2, <2>4 DEF PendInv
  <2>6. AnnInv'
    BY <1>0, <1>2, <1>7, <2>2 DEF AnnInv
  <2>7. ReseedInv'
    BY <1>0, <1>2, <1>7, <2>2, <2>3 DEF ReseedInv
  <2>8. IxInv'
    BY <1>0, <1>1, <1>2, <2>2, <2>3 DEF IxInv
  <2>9. NextEvent' = 1
    BY <2>2 DEF NextEvent
  <2>10. ~Overtaken' => ix'.over <= 0 + 0
    BY <1>1, <2>3, <2>9 DEF Overtaken
  <2>11. LookupInv'
    BY <1>0, <1>2, <1>4, <2>2, <2>3, <2>4, <2>10 DEF LookupInv
  <2>12. mt'.from <= JournalHead /\ mt'.recv <= JournalHead
    BY <1>1, <2>2
  <2>. QED  BY <1>0, <1>2, <1>4, <2>2, <2>3, <2>5, <2>6, <2>7, <2>8, <2>11, <2>12, Working, MtBeside
<1>. QED  BY <1>3, <1>6, <1>7

LEMMA CheckpointStep == ASSUME MtInv, Checkpoint PROVE MtInv'
<1>0. /\ PendInv /\ AnnInv /\ ReseedInv /\ IxInv /\ LookupInv /\ MtTypes /\ log \in Seq(Event)
      /\ ann \in Contents /\ water \in 0 .. JournalHead
      /\ ckpt \in [full : BOOLEAN, water : Nat, ann : Contents] /\ ckpt.water <= JournalHead
      /\ tmp \in [step : {"none", "water", "copied"}, water : Nat, ann : Contents] /\ tmp.water <= JournalHead
  BY Working
<1>1. /\ JournalHead \in Nat /\ water \in Nat /\ mt.pos \in Nat /\ Behind \in Nat /\ tmp.water \in Nat
      /\ tmp.ann \in Contents
  BY <1>0, MtNaturals
<1>2. UNCHANGED <<log, ann, ix, reseed, mt, water, q>> /\ mt.pc = "run"
  BY DEF Checkpoint
<1>3. Behind' = Behind /\ Behind = water /\ JournalHead' = JournalHead /\ Seeded' = Seeded
  BY <1>2 DEF Behind, JournalHead, Seeded
<1>4. PendInv' /\ ReseedInv' /\ IxInv' /\ LookupInv'
  <2>1. PendInv'
    BY <1>0, <1>2, <1>3 DEF PendInv
  <2>2. ReseedInv'
    BY <1>0, <1>2 DEF ReseedInv
  <2>3. IxInv'
    BY <1>0, <1>2, <1>3 DEF IxInv
  <2>4. LookupInv'
    BY <1>0, <1>2, <1>3 DEF LookupInv
  <2>. QED  BY <2>1, <2>2, <2>3, <2>4
<1>5. Exact(log, ann, water + mt.pos)
  BY <1>0, <1>2, <1>3 DEF AnnInv
<1>6. Bare \in Contents /\ 0 <= JournalHead
  BY <1>0, <1>1, HeadsExact
<1>7. /\ AnnInv' /\ ckpt' \in [full : BOOLEAN, water : Nat, ann : Contents] /\ ckpt'.water <= JournalHead
      /\ tmp' \in [step : {"none", "water", "copied"}, water : Nat, ann : Contents] /\ tmp'.water <= JournalHead
  <2>1. CASE tmp.step = "none" /\ tmp' = [tmp EXCEPT !.step = "water", !.water = TmpWater] /\ UNCHANGED ckpt
    <3>1. TmpWater = water
      BY <2>1 DEF TmpWater
    <3>2. tmp' = [step |-> "water", water |-> water, ann |-> tmp.ann]
      BY <1>0, <2>1, <3>1
    <3>3. water <= water /\ water <= JournalHead
      BY <1>0, <1>1
    <3>4. tmp'.step = "water" /\ tmp'.water = water /\ ckpt' = ckpt
      <4>1. tmp'.step = "water" /\ tmp'.water = water
        BY <3>2
      <4>2. ckpt' = ckpt
        BY <2>1
      <4>. QED  BY <4>1, <4>2
    <3>5. AnnInv'
      BY <1>0, <1>2, <1>3, <3>3, <3>4 DEF AnnInv
    <3>6. tmp' \in [step : {"none", "water", "copied"}, water : Nat, ann : Contents]
      BY <1>1, <3>2
    <3>. QED  BY <1>0, <3>3, <3>4, <3>5, <3>6
  <2>2. CASE tmp.step = "water" /\ tmp' = [tmp EXCEPT !.step = "copied", !.ann = ann] /\ ckpt' = NoCkpt
    <3>1. tmp' = [step |-> "copied", water |-> tmp.water, ann |-> ann]
      BY <1>0, <2>2
    <3>2. tmp.water <= water
      BY <1>0, <2>2 DEF AnnInv
    <3>3. tmp.water <= water + mt.pos /\ water + mt.pos \in Nat
      BY <1>1, <3>2
    <3>4. Exact(log, ann, tmp.water)
      BY <1>0, <1>1, <1>5, <3>3, ExactLess
    <3>5. ckpt' \in [full : BOOLEAN, water : Nat, ann : Contents] /\ ckpt'.water = 0 /\ ckpt'.full = FALSE
      BY <1>6, <2>2 DEF NoCkpt
    <3>6. AnnInv'
      BY <1>0, <1>2, <1>3, <3>1, <3>4, <3>5 DEF AnnInv
    <3>. QED  BY <1>0, <1>1, <1>6, <3>1, <3>5, <3>6
  <2>3. CASE /\ tmp.step = "copied" /\ ckpt' = [full |-> TRUE, water |-> TmpWater, ann |-> tmp.ann]
             /\ tmp' = NoTmp
    <3>1. ckpt' = [full |-> TRUE, water |-> tmp.water, ann |-> tmp.ann]
      BY <2>3 DEF TmpWater
    <3>2. tmp' \in [step : {"none", "water", "copied"}, water : Nat, ann : Contents]
          /\ tmp'.water = 0 /\ tmp'.step = "none"
      BY <1>6, <2>3 DEF NoTmp
    <3>3. AnnInv'
      BY <1>0, <1>2, <1>3, <2>3, <3>1, <3>2 DEF AnnInv
    <3>. QED  BY <1>0, <1>1, <1>6, <3>1, <3>2, <3>3
  <2>. QED  BY <2>1, <2>2, <2>3 DEF Checkpoint
<1>. QED  BY <1>2, <1>4, <1>7, Working, MtBeside

LEMMA MtCrashStep == ASSUME MtInv, MtCrash PROVE MtInv'
<1>0. /\ AnnInv /\ ReseedInv /\ MtTypes /\ log \in Seq(Event) /\ ix \in IxRecords
      /\ ckpt \in [full : BOOLEAN, water : Nat, ann : Contents] /\ ckpt.water <= JournalHead
  BY Working
<1>1. JournalHead \in Nat /\ ckpt.water \in Nat /\ ix.gen \in Nat
  BY <1>0, MtNaturals
<1>2. /\ UNCHANGED <<log, ckpt>> /\ ann' = Bare /\ ix' = LoadedIndex
      /\ reseed' = [c \in {"ddl", "mt"} |-> NoReseed]
      /\ mt' = Off /\ water' = 0 /\ tmp' = NoTmp /\ q' = NoLookup
  BY DEF MtCrash
<1>3. /\ Bare \in Contents /\ Exact(log, Bare, 0) /\ Heads \in Contents /\ \A n : Exact(log, Heads, n)
  BY <1>0, HeadsExact
<1>4. /\ ix' \in IxRecords /\ ix'.row = ix'.reg /\ ix'.reg \in {"none", "Ready"} /\ ix'.stamp = ix'.over
      /\ ix'.stamp \in {0, JournalHead} /\ Exact(log, ix'.map, 0) /\ Exact(log, ix'.map, ix'.stamp)
  <2>1. CASE ix.row \in {"none", "Dropping"}
    <3>1. ix' = [ix EXCEPT !.row = "none", !.reg = "none", !.map = Bare, !.stamp = 0, !.over = 0]
      BY <1>2, <2>1 DEF LoadedIndex
    <3>. QED  BY <1>0, <1>3, <3>1 DEF IxRecords
  <2>2. CASE ix.row = "Building"
    <3>1. ix' = [ix EXCEPT !.row = "Ready", !.reg = "Ready", !.map = Heads, !.stamp = JournalHead, !.over = JournalHead]
      BY <1>2, <2>2 DEF LoadedIndex
    <3>2. /\ ix' \in IxRecords /\ ix'.row = "Ready" /\ ix'.reg = "Ready" /\ ix'.map = Heads
          /\ ix'.stamp = JournalHead /\ ix'.over = JournalHead
      BY <1>0, <1>1, <1>3, <3>1 DEF IxRecords
    <3>. QED  BY <1>3, <3>2
  <2>3. CASE ix.row = "Ready"
    <3>1. ix' = [ix EXCEPT !.reg = "Ready", !.map = Bare, !.stamp = 0, !.over = 0]
      BY <1>2, <2>3 DEF LoadedIndex
    <3>. QED  BY <1>0, <1>3, <2>3, <3>1 DEF IxRecords
  <2>. QED  BY <1>0, <2>1, <2>2, <2>3 DEF IxRecords
<1>5. /\ mt' \in Maintainers /\ mt'.pc = "off" /\ mt'.from = 0 /\ mt'.todo = 0 /\ mt'.pos = 0
      /\ mt'.recv = 0 /\ mt'.pend = <<>>
  <2>1. <<>> \in Seq(Nat)
    OBVIOUS
  <2>. QED  BY <1>2, <2>1 DEF Off, Maintainers
<1>6. Behind' \in Nat /\ Behind' <= JournalHead
  <2>1. Behind' = IF ckpt.full THEN ckpt.water ELSE 0
    BY <1>2, <1>5 DEF Behind
  <2>. QED  BY <1>0, <1>1, <2>1
<1>7. JournalHead' = JournalHead
  BY <1>2 DEF JournalHead
<1>8. PendInv'
  <2>1. Len(mt'.pend) = 0 /\ \A i \in 1 .. Len(mt'.pend) : mt'.pend[i] = Behind' + i
    BY <1>5
  <2>2. Behind' + Len(mt'.pend) <= JournalHead'
    BY <1>6, <1>7, <2>1
  <2>. QED  BY <1>5, <2>1, <2>2 DEF PendInv
<1>9. AnnInv'
  BY <1>0, <1>2, <1>5 DEF AnnInv, NoTmp
<1>10. ReseedInv'
  BY <1>2, <1>4 DEF ReseedInv, NoReseed
<1>11. IxInv'
  <2>1. ix'.stamp <= ix'.over
    BY <1>1, <1>4
  <2>. QED  BY <1>2, <1>4, <1>5, <2>1 DEF IxInv
<1>12. LookupInv'
  BY <1>2 DEF LookupInv, NoLookup
<1>13. ix'.stamp <= JournalHead /\ ix'.over <= JournalHead
  BY <1>1, <1>4
<1>14. reseed' \in [{"ddl", "mt"} -> Reseeds] /\ \A c \in {"ddl", "mt"} : reseed'[c].h0 <= JournalHead
  BY <1>1, <1>2 DEF NoReseed, Reseeds
<1>15. /\ tmp' \in [step : {"none", "water", "copied"}, water : Nat, ann : Contents] /\ tmp'.water <= JournalHead
       /\ q' \in Lookups /\ q'.head <= JournalHead
  BY <1>1, <1>2, <1>3 DEF NoTmp, NoLookup, Lookups
<1>16. water' \in 0 .. JournalHead /\ ann' \in Contents /\ mt'.from <= JournalHead /\ mt'.recv <= JournalHead
  BY <1>1, <1>2, <1>3, <1>5
<1>. QED  BY <1>0, <1>2, <1>4, <1>5, <1>8, <1>9, <1>10, <1>11, <1>12, <1>13, <1>14, <1>15, <1>16, MtBeside

\* The tail is read before the rows, so what is not in it the stamp covers.
LEMMA LookupTailStep == ASSUME MtInv, NEW v \in Vals, LookupTail(v) PROVE MtInv'
<1>0. /\ PendInv /\ AnnInv /\ ReseedInv /\ IxInv /\ LookupInv /\ MtTypes /\ log \in Seq(Event)
      /\ reseed \in [{"ddl", "mt"} -> Reseeds]
  BY Working
<1>1. /\ JournalHead \in Nat /\ mt.pos \in Nat /\ Behind \in Nat /\ ix.stamp \in Nat /\ ix.over \in Nat
  BY <1>0, MtNaturals
<1>2. PICK w \in BOOLEAN : w = (~Overtaken /\ \A c \in DOMAIN reseed : reseed[c].step # "scan")
  OBVIOUS
<1>3. /\ UNCHANGED <<log, ann, ix, reseed, mt, water, ckpt, tmp>> /\ ix.reg = "Ready"
      /\ q' = [step |-> "tail", val |-> v, tail |-> Unapplied, head |-> JournalHead, quiet |-> w]
  BY <1>2 DEF LookupTail
<1>4. Unapplied \in SUBSET Objs
  <2>1. ASSUME NEW i \in ix.stamp + 1 .. JournalHead PROVE log[i].obj \in Objs
    <3>1. i \in 1 .. Len(log)
      BY <1>1 DEF JournalHead
    <3>2. log[i] \in Event
      BY <1>0, <3>1
    <3>. QED  BY <3>2 DEF Event
  <2>. QED  BY <2>1 DEF Unapplied
<1>5. q' \in Lookups /\ q'.tail = Unapplied /\ q'.head = JournalHead /\ q'.quiet = w
  BY <1>1, <1>2, <1>3, <1>4 DEF Lookups
<1>6. w => ix.over <= Behind + mt.pos /\ \A c \in {"ddl", "mt"} : reseed[c].step # "scan"
  <2>1. NextEvent = Behind + mt.pos + 1
    BY <1>0, NextEventIs
  <2>2. ~Overtaken => ix.over <= Behind + mt.pos
    BY <1>1, <2>1 DEF Overtaken
  <2>3. DOMAIN reseed = {"ddl", "mt"}
    BY <1>0
  <2>. QED  BY <1>2, <2>2, <2>3
<1>7. ASSUME NEW o \in Objs, o \notin Unapplied PROVE LastIn(log, o) <= ix.stamp
  <2>1. PICK k : k = LastIn(log, o)
    OBVIOUS
  <2>2. k \in 0 .. JournalHead /\ (k > 0 => log[k].obj = o)
    BY <1>0, <2>1, LastIs DEF JournalHead
  <2>3. CASE k > ix.stamp
    <3>1. k \in ix.stamp + 1 .. JournalHead /\ k > 0
      BY <1>1, <2>2, <2>3
    <3>. QED  BY <1>7, <2>2, <3>1 DEF Unapplied
  <2>. QED  BY <1>1, <2>1, <2>2, <2>3
<1>8. Behind' = Behind /\ Seeded' = Seeded
  BY <1>3 DEF Behind, Seeded
<1>9. LookupInv'
  BY <1>3, <1>5, <1>6, <1>7, <1>8 DEF LookupInv
<1>10. ReseedInv' /\ IxInv'
  <2>1. ReseedInv'
    BY <1>0, <1>3 DEF ReseedInv
  <2>2. IxInv'
    BY <1>0, <1>3, <1>8 DEF IxInv
  <2>. QED  BY <2>1, <2>2
<1>11. q'.head <= JournalHead
  BY <1>1, <1>5
<1>. QED  BY <1>3, <1>5, <1>9, <1>10, <1>11, Working, IxBeside

LEMMA LookupScanStep == ASSUME MtInv, LookupScan PROVE MtInv'
<1>0. ReseedInv /\ IxInv /\ MtTypes
  BY Working
<1>1. JournalHead \in Nat
  BY <1>0, MtNaturals
<1>2. UNCHANGED <<log, ann, ix, reseed, mt, water, ckpt, tmp>> /\ q' = NoLookup
  BY DEF LookupScan
<1>3. Behind' = Behind /\ Seeded' = Seeded
  BY <1>2 DEF Behind, Seeded
<1>4. LookupInv' /\ q' \in Lookups /\ q'.head <= JournalHead
  BY <1>1, <1>2 DEF LookupInv, NoLookup, Lookups
<1>5. ReseedInv'
  BY <1>0, <1>2 DEF ReseedInv
<1>6. IxInv'
  BY <1>0, <1>2, <1>3 DEF IxInv
<1>. QED  BY <1>2, <1>4, <1>5, <1>6, Working, IxBeside

LEMMA MtInvNext == MtInv /\ [MtNext]_mtVars => MtInv'
<1>. SUFFICES ASSUME MtInv, [MtNext]_mtVars PROVE MtInv'
  OBVIOUS
<1>1. CASE UNCHANGED mtVars
  <2>1. UNCHANGED <<log, ann, ix, reseed, mt, water, ckpt, tmp, q>>
    BY <1>1 DEF mtVars
  <2>2. Behind' = Behind /\ Seeded' = Seeded
    BY <2>1 DEF Behind, Seeded
  <2>3. LookupInv' /\ ReseedInv'
    BY <2>1, <2>2, Working DEF LookupInv, ReseedInv
  <2>4. IxInv'
    BY <2>1, <2>2, Working DEF IxInv
  <2>. QED  BY <2>1, <2>3, <2>4, Working, IxBeside
<1>. QED  BY <1>1, CommitEventStep, CreateIndexStep, RebuildIndexStep, ReadyDropStep, InvalidateStep, ScanStep,
             MtStartStep, MtCutStep, MtReceiveStep, MtDrainStep, MtApplyStep, MtBatchDoneStep, MtErrorStep,
             CheckpointStep, MtCrashStep, LookupTailStep, LookupScanStep DEF MtNext

\* An index that has been filled, and that no reseed has put ahead of the maintainer, is
\* exact at its stamp.
LEMMA IxExact == ASSUME MtInv, Seeded, ix.over <= Behind + mt.pos PROVE Exact(log, ix.map, ix.stamp)
<1>0. PendInv /\ IxInv /\ MtTypes /\ log \in Seq(Event)
  BY Working
<1>1. /\ mt.pos \in Nat /\ mt.todo \in Nat /\ Behind \in Nat /\ ix.stamp \in Nat /\ ix.over \in Nat
      /\ mt.from \in Nat /\ Len(mt.pend) \in Nat /\ mt.pc \in {"off", "fresh", "cut", "replay", "run", "dead"}
  BY <1>0, MtNaturals
<1>2. ix.stamp <= Behind + mt.pos
  <2>1. ix.stamp <= ix.over \/ ix.stamp <= Behind
    BY <1>0 DEF IxInv
  <2>. QED  BY <1>1, <2>1
<1>3. Exact(log, ix.map, 0)
  BY <1>0 DEF IxInv
<1>4. CASE mt.pc = "off" \/ (mt.pc = "cut" /\ mt.resumed)
  BY <1>0, <1>4 DEF IxInv
<1>5. CASE mt.pc \in {"fresh", "dead"} \/ (mt.pc = "cut" /\ ~mt.resumed)
  <2>1. mt.pend = <<>> /\ mt.pos <= mt.todo /\ mt.todo <= Len(mt.pend) /\ Behind = 0
    BY <1>0, <1>5 DEF PendInv, Behind
  <2>2. Len(mt.pend) = 0
    BY <2>1
  <2>3. ix.stamp = 0
    BY <1>1, <1>2, <2>1, <2>2
  <2>. QED  BY <1>3, <2>3
<1>6. CASE mt.pc \in {"replay", "run"}
  <2>1. Exact(log, ix.map, Behind + mt.pos)
    BY <1>0, <1>6 DEF IxInv
  <2>2. Behind + mt.pos \in Nat
    BY <1>1
  <2>. QED  BY <1>0, <1>1, <1>2, <2>1, <2>2, ExactLess
<1>. QED  BY <1>1, <1>4, <1>5, <1>6

\* What the indexes hold: the property index everything its stamp covers, unless a reseed
\* has put it ahead of the maintainer, and the vector and text indexes everything up to
\* the water mark (property.rs rebuild, the maintainer's loop in scheduler/src/lib.rs).
THEOREM IndexesExact == MtSpec => [](MtTypeOK /\ StampExact /\ WaterExact)
<1>1. MtInv => MtTypeOK /\ StampExact /\ WaterExact
  <2>. SUFFICES ASSUME MtInv PROVE MtTypeOK /\ StampExact /\ WaterExact
    OBVIOUS
  <2>0. PendInv /\ AnnInv /\ MtTypes /\ log \in Seq(Event)
    BY Working
  <2>1. /\ mt.pos \in Nat /\ mt.todo \in Nat /\ Behind \in Nat /\ ix.stamp \in Nat /\ ix.over \in Nat
        /\ JournalHead \in Nat /\ water \in Nat /\ Len(mt.pend) \in Nat /\ ckpt.water \in Nat
        /\ ix.map \in Contents /\ ckpt.ann \in Contents
        /\ mt.pc \in {"off", "fresh", "cut", "replay", "run", "dead"}
    BY <2>0, MtNaturals
  <2>2. /\ Heads = [o \in Objs |-> HeadIn(log, o)] /\ \A o \in Objs : LastOf(o) = LastIn(log, o)
    BY <2>0, HeadsExact
  <2>3. MtTypeOK
    <3>1. ASSUME NEW i \in 1 .. Len(mt.pend) PROVE mt.pend[i] \in 1 .. JournalHead
      <4>1. mt.pend[i] = Behind + i /\ Behind + Len(mt.pend) <= JournalHead
        BY <2>0 DEF PendInv
      <4>. QED  BY <2>1, <4>1
    <3>2. ix.stamp \in 0 .. JournalHead /\ ckpt.water \in 0 .. JournalHead /\ water \in 0 .. JournalHead
      BY <2>0, <2>1 DEF MtTypes
    <3>3. ann \in Contents /\ ix.row \in {"none", "Building", "Ready", "Dropping"}
      BY <2>0 DEF MtTypes, IxRecords
    <3>4. mt.pos <= mt.todo /\ mt.todo <= Len(mt.pend)
      BY <2>0 DEF PendInv
    <3>. QED  BY <2>0, <2>1, <3>1, <3>2, <3>3, <3>4 DEF MtTypeOK, Event
  <2>4. ASSUME ix.reg = "Ready", ~Overtaken PROVE \A o \in Objs : LastOf(o) <= ix.stamp => ix.map[o] = Heads[o]
    <3>1. NextEvent = Behind + mt.pos + 1
      BY <2>0, NextEventIs
    <3>2. ix.over <= Behind + mt.pos
      BY <2>1, <2>4, <3>1 DEF Overtaken
    <3>3. Exact(log, ix.map, ix.stamp)
      BY <2>4, <3>2, IxExact DEF Seeded
    <3>. QED  BY <2>2, <3>3 DEF Exact
  <2>5. ASSUME mt.pc = "run" PROVE \A o \in Objs : LastOf(o) <= water => ann[o] = Heads[o]
    <3>1. Exact(log, ann, water + mt.pos)
      BY <2>0, <2>5 DEF AnnInv, Behind
    <3>2. water + mt.pos \in Nat /\ water <= water + mt.pos
      BY <2>1
    <3>3. Exact(log, ann, water)
      BY <2>0, <2>1, <3>1, <3>2, ExactLess
    <3>. QED  BY <2>2, <3>3 DEF Exact
  <2>. QED  BY <2>3, <2>4, <2>5 DEF StampExact, WaterExact
<1>. QED  BY <1>1, MtInvInit, MtInvNext, PTL DEF MtSpec

\* An equality lookup that no reseed and no second application falls into misses no
\* object that held the value all along, however far the index lags behind the journal
\* (patched_eq in runtime/src/cbo.rs).
THEOREM LookupsMissNothing == MtSpec => LookupComplete
<1>1. MtInv /\ [MtNext]_mtVars =>
         [LookupScan /\ q.quiet =>
             {o \in Objs : LastOf(o) <= q.head /\ Heads[o] = q.val} \subseteq Answered]_mtVars
  <2>. SUFFICES ASSUME MtInv, LookupScan, q.quiet,
                       NEW o \in Objs, LastOf(o) <= q.head, Heads[o] = q.val, o \notin q.tail
                PROVE  ix.map[o] = q.val
    BY DEF Answered
  <2>0. LookupInv /\ log \in Seq(Event) /\ q.step = "tail"
    BY Working DEF LookupScan
  <2>1. LastOf(o) = LastIn(log, o) /\ Heads[o] = HeadIn(log, o)
    BY <2>0, HeadsExact
  <2>2. Seeded /\ ix.over <= Behind + mt.pos /\ LastIn(log, o) <= ix.stamp
    BY <2>0, <2>1 DEF LookupInv, Seeded
  <2>3. Exact(log, ix.map, ix.stamp)
    BY <2>2, IxExact
  <2>. QED  BY <2>1, <2>2, <2>3 DEF Exact
<1>. QED  BY <1>1, MtInvInit, MtInvNext, PTL DEF MtSpec, LookupComplete

-----------------------------------------------------------------------------
(* Live queries *)

EventNumbers == Nat \ {0}
ConnFields == {"kind", "pc", "backlog", "snap", "first", "answer", "at", "lapsed"}
StoredEvent == [match : BOOLEAN, result : Results \cup {0}]

\* What a live query shows needs no other evaluation: it is current, or the evaluation
\* failed, read an index that was behind, or was overtaken by time.
Settled ==
    \/ conn.snap \in {NowResult, QueryError}
    \/ indexed /\ conn.at < NowSeq
    \/ conn.lapsed

\* A live query that is open has its channel, and an evaluation that is out of date has an
\* event in it, or one whose broadcast is still to come.  Inductive, whatever the backlog
\* holds: each of its events only evaluates the query once more.
SubInv ==
    /\ casting \in Nat /\ journal \in Seq(StoredEvent) /\ indexSeq \in Nat /\ indexSeq <= NowSeq
    /\ DOMAIN conn = ConnFields /\ (chan = NoChan \/ chan \in Seq(EventNumbers))
    /\ conn.kind = "live" =>
        /\ conn.pc # "off" => chan \in Seq(EventNumbers)
        /\ conn.pc = "on" /\ ~Settled => casting # 0 \/ chan # <<>>

\* A channel of events is not the one that stands for none.
LEMMA NoChanIs == NoChan \notin Seq(EventNumbers) /\ NoChan # <<>> /\ <<>> \in Seq(EventNumbers)
<1>1. NoChan \notin Seq(EventNumbers)
  <2>. SUFFICES ASSUME NoChan \in Seq(EventNumbers) PROVE FALSE
    OBVIOUS
  <2>1. NoChan[1] \in EventNumbers
    BY DEF NoChan
  <2>. QED  BY <2>1 DEF NoChan, EventNumbers
<1>. QED  BY <1>1 DEF NoChan

LEMMA SubInvInit == SubInit => SubInv
<1>. SUFFICES ASSUME SubInit PROVE SubInv
  OBVIOUS
<1>1. PICK kind \in SubKinds : conn = SubOff(kind)
  BY DEF SubInit
<1>2. DOMAIN conn = ConnFields /\ conn.pc = "off"
  BY <1>1 DEF SubOff, ConnFields
<1>3. NowSeq = 0
  BY DEF SubInit, NowSeq
<1>. QED  BY <1>2, <1>3 DEF SubInit, SubInv

\* Steps that change neither the journal nor what is to be broadcast, nor the last evaluation.
LEMMA SubBeside ==
    ASSUME SubInv, UNCHANGED <<journal, casting, chan, indexed>>, DOMAIN conn' = ConnFields,
           indexSeq' \in Nat, indexSeq' <= NowSeq, conn'.kind = conn.kind,
           \/ conn'.pc = "off"
           \/ /\ conn'.pc = conn.pc /\ conn'.snap = conn.snap /\ conn'.at = conn.at
              /\ conn'.lapsed = conn.lapsed
    PROVE  SubInv'
<1>1. NowResult' = NowResult /\ NowSeq' = NowSeq
  BY DEF NowResult, NowSeq, ResultAt
<1>. QED  BY <1>1 DEF SubInv, Settled

\* An evaluation settles what the query shows.
LEMMA Evaluates ==
    ASSUME SubInv, UNCHANGED <<journal, casting, indexed, indexSeq>>, NEW r \in Outcomes,
           DOMAIN conn' = ConnFields, conn'.kind = conn.kind, conn'.snap = r, conn'.at = ReadSeq,
           chan' \in Seq(EventNumbers)
    PROVE  SubInv'
<1>0. NowSeq \in Nat /\ indexSeq \in Nat /\ indexSeq <= NowSeq
  BY DEF SubInv, NowSeq
<1>1. NowResult' = NowResult /\ NowSeq' = NowSeq
  BY DEF NowResult, NowSeq, ResultAt
<1>2. CASE r = QueryError
  BY <1>0, <1>1, <1>2 DEF SubInv, Settled
<1>3. CASE r = ResultAt(ReadSeq) /\ ReadSeq = NowSeq
  <2>1. r = NowResult
    BY <1>3 DEF NowResult
  <2>. QED  BY <1>0, <1>1, <2>1 DEF SubInv, Settled
<1>4. CASE ReadSeq # NowSeq
  <2>1. indexed /\ ReadSeq = indexSeq
    BY <1>4 DEF ReadSeq
  <2>2. conn'.at < NowSeq
    BY <1>0, <1>4, <2>1
  <2>. QED  BY <1>0, <1>1, <2>1, <2>2 DEF SubInv, Settled
<1>. QED  BY <1>2, <1>3, <1>4 DEF Outcomes

LEMMA SubOffIs ==
    ASSUME SubInv, conn' = SubOff(conn.kind)
    PROVE  DOMAIN conn' = ConnFields /\ conn'.pc = "off" /\ conn'.kind = conn.kind
BY DEF SubOff, ConnFields

LEMMA SubInvNext == SubInv /\ [SubNext]_subVars => SubInv'
<1>. SUFFICES ASSUME SubInv, [SubNext]_subVars PROVE SubInv'
  OBVIOUS
<1>0. /\ casting \in Nat /\ journal \in Seq(StoredEvent) /\ NowSeq \in Nat
      /\ indexSeq \in Nat /\ indexSeq <= NowSeq
      /\ DOMAIN conn = ConnFields /\ (chan = NoChan \/ chan \in Seq(EventNumbers))
  BY DEF SubInv, NowSeq
<1>a. UNCHANGED journal => NowSeq' = NowSeq
  BY DEF NowSeq
<1>1. ASSUME NEW e \in SubEvents, SubCommit(e) PROVE SubInv'
  <2>1. /\ casting' = NowSeq + 1 /\ UNCHANGED <<chan, conn, indexSeq>> /\ journal' = Append(journal, e)
    BY <1>1 DEF SubCommit, queryVars
  <2>2. e \in StoredEvent
    BY DEF SubEvents, StoredEvent
  <2>3. journal' \in Seq(StoredEvent) /\ NowSeq' = NowSeq + 1
    BY <1>0, <2>1, <2>2 DEF NowSeq
  <2>4. casting' \in Nat /\ casting' # 0 /\ indexSeq' <= NowSeq'
    BY <1>0, <2>1, <2>3
  <2>. QED  BY <1>0, <2>1, <2>3, <2>4 DEF SubInv
<1>2. CASE Broadcast
  <2>1. /\ casting # 0 /\ casting' = 0 /\ UNCHANGED <<journal, conn, indexSeq, indexed>>
        /\ chan' = IF chan # NoChan /\ Matches(casting) THEN Append(chan, casting) ELSE chan
    BY <1>2 DEF Broadcast, queryVars
  <2>2. chan # NoChan => chan \in Seq(EventNumbers) /\ casting \in EventNumbers
    BY <1>0, <2>1 DEF EventNumbers
  <2>3. chan # NoChan => Append(chan, casting) \in Seq(EventNumbers) /\ Append(chan, casting) # <<>>
    <3>. SUFFICES ASSUME chan # NoChan
                  PROVE  Append(chan, casting) \in Seq(EventNumbers) /\ Append(chan, casting) # <<>>
      OBVIOUS
    <3>1. chan \in Seq(EventNumbers) /\ casting \in EventNumbers
      BY <2>2
    <3>2. Append(chan, casting) \in Seq(EventNumbers) /\ Len(Append(chan, casting)) = Len(chan) + 1
      BY <3>1
    <3>3. Len(chan) \in Nat /\ Len(<<>>) = 0
      BY <3>1
    <3>. QED  BY <3>2, <3>3
  <2>4. CASE conn.kind = "live" /\ conn.pc # "off"
    <3>1. chan \in Seq(EventNumbers) /\ chan # NoChan
      BY <2>4, NoChanIs DEF SubInv
    <3>2. chan' = Append(chan, casting)
      BY <2>1, <2>4, <3>1 DEF Matches
    <3>. QED  BY <1>0, <1>a, <2>1, <2>3, <3>1, <3>2 DEF SubInv
  <2>5. CASE ~ (conn.kind = "live" /\ conn.pc # "off")
    <3>1. chan' = NoChan \/ chan' \in Seq(EventNumbers)
      BY <1>0, <2>1, <2>3
    <3>. QED  BY <1>0, <1>a, <2>1, <2>5, <3>1 DEF SubInv
  <2>. QED  BY <2>4, <2>5
<1>3. CASE Subscribe
  <2>1. /\ chan' = <<>> /\ conn' = [conn EXCEPT !.pc = "subscribed"]
        /\ UNCHANGED <<journal, casting, indexSeq>>
    BY <1>3 DEF Subscribe, FreshChannel, queryVars
  <2>2. DOMAIN conn' = ConnFields /\ conn'.pc = "subscribed"
    BY <1>0, <2>1 DEF ConnFields
  <2>. QED  BY <1>0, <1>a, <2>1, <2>2, NoChanIs DEF SubInv
<1>4. CASE Replay
  <2>1. /\ UNCHANGED <<journal, casting, chan, indexSeq>> /\ conn.pc = "subscribed"
        /\ conn' = [conn EXCEPT !.pc = IF conn.kind = "feed" THEN "on" ELSE "replayed",
                                !.backlog = IF conn.kind = "feed" THEN <<>> ELSE Backlog]
    BY <1>4 DEF Replay, queryVars
  <2>2. DOMAIN conn' = ConnFields /\ conn'.kind = conn.kind /\ (conn.kind = "live" => conn'.pc = "replayed")
    BY <1>0, <2>1 DEF ConnFields
  <2>. QED  BY <1>0, <1>a, <2>1, <2>2 DEF SubInv
<1>5. CASE FirstEvaluation
  <2>1. /\ UNCHANGED <<journal, casting, indexed, indexSeq>> /\ conn.pc = "replayed"
    BY <1>5 DEF FirstEvaluation, queryVars
  <2>2. PICK r \in Outcomes :
           IF r = QueryError
           THEN conn' = SubOff(conn.kind) /\ chan' = NoChan
           ELSE /\ conn' = [Evaluated(conn, r) EXCEPT !.pc = "on", !.first = r, !.answer = "unsent"]
                /\ chan' = chan
    BY <1>5 DEF FirstEvaluation
  <2>3. CASE r = QueryError
    BY <1>0, <1>a, <2>1, <2>2, <2>3, SubOffIs DEF SubInv
  <2>4. CASE r # QueryError
    <3>1. /\ DOMAIN conn' = ConnFields /\ conn'.kind = conn.kind /\ conn'.snap = r
          /\ conn'.at = ReadSeq /\ chan' = chan
      BY <1>0, <2>2, <2>4 DEF Evaluated, ConnFields
    <3>2. CASE conn.kind = "live"
      <4>1. chan' \in Seq(EventNumbers)
        BY <2>1, <3>1, <3>2 DEF SubInv
      <4>. QED  BY <2>1, <3>1, <4>1, Evaluates
    <3>3. CASE conn.kind # "live"
      BY <1>0, <1>a, <2>1, <3>1, <3>3 DEF SubInv
    <3>. QED  BY <3>2, <3>3
  <2>. QED  BY <2>3, <2>4
<1>6. CASE WriteAnswer
  <2>1. UNCHANGED <<journal, casting, chan, indexed, indexSeq>> /\ conn' = [conn EXCEPT !.answer = "sent"]
    BY <1>6 DEF WriteAnswer, queryVars
  <2>2. /\ DOMAIN conn' = ConnFields /\ conn'.kind = conn.kind /\ conn'.pc = conn.pc
        /\ conn'.snap = conn.snap /\ conn'.at = conn.at /\ conn'.lapsed = conn.lapsed
    BY <1>0, <2>1 DEF ConnFields
  <2>. QED  BY <1>0, <2>1, <2>2, SubBeside
<1>7. CASE FeedNext
  <2>1. /\ UNCHANGED <<journal, casting, conn, indexSeq>> /\ conn.kind = "feed"
        /\ chan \notin {NoChan, <<>>} /\ chan' = Tail(chan)
    BY <1>7 DEF FeedNext, queryVars
  <2>2. chan' \in Seq(EventNumbers)
    BY <1>0, <2>1
  <2>. QED  BY <1>0, <1>a, <2>1, <2>2 DEF SubInv
<1>8. CASE LiveNext
  <2>1. UNCHANGED <<journal, casting, indexed, indexSeq>> /\ conn.kind = "live" /\ conn.pc = "on"
    BY <1>8 DEF LiveNext, queryVars
  <2>2. PICK r \in Outcomes :
           \/ conn' = [Evaluated(conn, r) EXCEPT !.backlog = Tail(@)] /\ chan' = chan
           \/ conn' = Evaluated(conn, r) /\ chan \notin {NoChan, <<>>} /\ chan' = Tail(chan)
    BY <1>8 DEF LiveNext
  <2>3. DOMAIN conn' = ConnFields /\ conn'.kind = conn.kind /\ conn'.snap = r /\ conn'.at = ReadSeq
    BY <1>0, <2>2 DEF Evaluated, ConnFields
  <2>4. chan' \in Seq(EventNumbers)
    <3>1. chan \in Seq(EventNumbers)
      BY <2>1 DEF SubInv
    <3>2. chan # <<>> => Tail(chan) \in Seq(EventNumbers)
      BY <3>1
    <3>. QED  BY ONLY <2>2, <3>1, <3>2
  <2>. QED  BY <2>1, <2>3, <2>4, Evaluates
<1>9. CASE DeadNext
  <2>1. /\ UNCHANGED <<journal, casting, conn, indexSeq>> /\ conn.pc = "off"
        /\ chan \notin {NoChan, <<>>} /\ chan' = Tail(chan)
    BY <1>9 DEF DeadNext, queryVars
  <2>2. chan' \in Seq(EventNumbers)
    BY <1>0, <2>1
  <2>. QED  BY <1>0, <1>a, <2>1, <2>2 DEF SubInv
<1>10. CASE OrphanNext \/ ReadFrame \/ \E e \in 1 .. MaxEvs : ClientAck(e) \/ AckFails(e)
  <2>1. UNCHANGED <<journal, casting, chan, conn, indexed, indexSeq>>
    BY <1>10 DEF OrphanNext, ReadFrame, ClientAck, AckFails, queryVars
  <2>. QED  BY <1>0, <2>1, SubBeside
<1>11. CASE Unsubscribe \/ Drop
  <2>1. /\ UNCHANGED <<journal, casting, indexSeq>> /\ conn' = SubOff(conn.kind)
        /\ chan' \in {chan, NoChan}
    BY <1>11 DEF Unsubscribe, Drop, queryVars
  <2>. QED  BY <1>0, <1>a, <2>1, SubOffIs DEF SubInv
<1>12. CASE Restart
  <2>1. /\ UNCHANGED journal /\ casting' = 0 /\ conn' = SubOff(conn.kind) /\ chan' = NoChan
        /\ indexSeq' \in 0 .. indexSeq
    BY <1>12 DEF Restart
  <2>2. indexSeq' \in Nat /\ indexSeq' <= NowSeq
    BY <1>0, <2>1
  <2>. QED  BY <1>0, <1>a, <2>1, <2>2, SubOffIs DEF SubInv
<1>13. CASE IndexNext
  <2>1. UNCHANGED <<journal, casting, chan, conn, indexed>> /\ indexSeq' = indexSeq + 1 /\ indexSeq < NowSeq
    BY <1>13 DEF IndexNext
  <2>2. indexSeq' \in Nat /\ indexSeq' <= NowSeq
    BY <1>0, <2>1
  <2>. QED  BY <1>0, <2>1, <2>2, SubBeside
<1>14. ASSUME NEW r \in Results, Lapse(r) PROVE SubInv'
  <2>1. /\ UNCHANGED <<casting, chan, indexSeq>> /\ journal # <<>>
        /\ journal' = [journal EXCEPT ![NowSeq].result = r] /\ conn' = [conn EXCEPT !.lapsed = TRUE]
    BY <1>14 DEF Lapse, queryVars
  <2>2. /\ DOMAIN conn' = ConnFields /\ conn'.kind = conn.kind /\ conn'.pc = conn.pc /\ conn'.lapsed
    BY <1>0, <2>1 DEF ConnFields
  <2>3. NowSeq \in 1 .. Len(journal) /\ journal[NowSeq] \in StoredEvent
    BY <1>0, <2>1 DEF NowSeq
  <2>4. PICK d : d = [journal[NowSeq] EXCEPT !.result = r]
    OBVIOUS
  <2>5. d \in StoredEvent
    BY <2>3, <2>4 DEF StoredEvent
  <2>6. journal' = [journal EXCEPT ![NowSeq] = d]
    BY <2>1, <2>4
  <2>7. journal' \in Seq(StoredEvent) /\ Len(journal') = Len(journal)
    BY <1>0, <2>3, <2>5, <2>6
  <2>. QED  BY <1>0, <2>1, <2>2, <2>7 DEF SubInv, NowSeq, Settled
<1>15. CASE UNCHANGED subVars
  <2>1. UNCHANGED <<journal, casting, chan, conn, indexed, indexSeq>>
    BY <1>15 DEF subVars
  <2>. QED  BY <1>0, <2>1, SubBeside
<1>. QED  BY <1>1, <1>2, <1>3, <1>4, <1>5, <1>6, <1>7, <1>8, <1>9, <1>10, <1>11, <1>12, <1>13, <1>14,
             <1>15 DEF SubNext

\* A live query misses no change (live_query_stream in tools/live_query.rs, which
\* subscribes before it evaluates): when its thread has nothing left to do, its last
\* evaluation is of the store as it is now, whatever commits fell between its
\* subscription, the replay and the first evaluation, unless it failed, read an index that
\* was behind the journal, or was overtaken by time.
THEOREM LiveQueriesCurrent == SubSpec => []LiveCurrent
<1>1. SubInv => LiveCurrent
  BY DEF SubInv, LiveCurrent, Settled
<1>. QED  BY <1>1, SubInvInit, SubInvNext, PTL DEF SubSpec

===============================================================================
