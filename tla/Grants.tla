------------------------------- MODULE Grants -------------------------------
(***************************************************************************)
(* Sign-ins over HTTP (oauth.rs, the flow registry of session.rs, the IdP   *)
(* callback of http.rs): a sign-in gets an authorization code, kept in      *)
(* memory; the code is exchanged once for an access and a refresh token,    *)
(* kept in the store; a refresh token is rotated at each use.               *)
(*                                                                          *)
(* A token is a number, a code or a flow state is named by its sign-in.  A  *)
(* request may present any code or token ever handed out, as often as it    *)
(* likes.  `store` is what the leader holds, `standby` what its standby     *)
(* holds; with a commit gate a write waits for the standby and, when that   *)
(* times out, is refused although it is in the store (db.rs, sync_gate).    *)
(***************************************************************************)
EXTENDS Naturals, FiniteSets

CONSTANTS SignIns, GrThreads,
          Gated,          \* the leader has a commit gate
          CodeTtl, AccessTtl, RefreshTtl, SweepEvery,
          MaxGrTime, MaxTokens, MaxGrFaults

ASSUME GrantsAssumption ==
    /\ Gated \in BOOLEAN
    /\ {CodeTtl, AccessTtl, RefreshTtl, SweepEvery} \subseteq Nat \ {0}
    /\ {MaxGrTime, MaxTokens, MaxGrFaults} \subseteq Nat

VARIABLES
    grClock,
    flows,      \* SSO flows: [sign, expires]
    callbacks,  \* flows taken, their code with the identity provider
    codes,      \* authorization codes: [sign, expires]
    store,      \* grants: [kind, tok, sign, expires]
    standby,
    issuing,    \* thread to what it is doing under the `issuing` lock
    issued,     \* tokens issued by this process
    nextTok,
    begun,      \* sign-ins begun
    codesOf,    \* sign-in to the number of codes it was given
    held,       \* sign-in to the newest grant its client was answered
    unanswered, \* sign-ins one of whose rotations landed and was not answered
    unknown,    \* sign-ins whose login is gone
    grFaults

grVars == <<grClock, flows, callbacks, codes, store, standby, issuing, issued, nextTok,
            begun, codesOf, held, unanswered, unknown, grFaults>>

Idle == [at |-> "idle"]
NoGrant == [tok |-> 0]
Grants == [kind : {"access", "refresh"}, tok : 1..MaxTokens, sign : SignIns, expires : Nat]

GrFault == grFaults < MaxGrFaults /\ grFaults' = grFaults + 1
Unexpired(S) == {e \in S : e.expires > grClock}

-----------------------------------------------------------------------------
(* Signing in.                                                              *)

\* The password form (authorize), or finish_sso: a code, and the expired go.
CodesAfter(s) == Unexpired(codes) \cup {[sign |-> s, expires |-> grClock + CodeTtl]}

IssueCode(s) ==
    /\ codes' = CodesAfter(s)
    /\ codesOf' = [codesOf EXCEPT ![s] = @ + 1]

Authorize(s) ==
    /\ s \notin begun \cup unknown /\ begun' = begun \cup {s}
    /\ IssueCode(s)
    /\ UNCHANGED <<grClock, flows, callbacks, store, standby, issuing, issued, nextTok,
                   held, unanswered, unknown, grFaults>>

\* redirect_to_idp: OidcFlows::begin.
RedirectToIdp(s) ==
    /\ s \notin begun /\ begun' = begun \cup {s}
    /\ flows' = Unexpired(flows) \cup {[sign |-> s, expires |-> grClock + CodeTtl]}
    /\ UNCHANGED <<grClock, callbacks, codes, store, standby, issuing, issued, nextTok,
                   codesOf, held, unanswered, unknown, grFaults>>

\* A slip in OidcFlows::take: the state is looked up and stays.
FlowsAfterTake_Kept(f) == flows

\* OidcFlows::take: single use.
FlowsAfterTake(f) == flows \ {f}

CallbackTake(f) ==
    /\ f \in flows
    /\ flows' = FlowsAfterTake(f)
    /\ callbacks' = IF f.expires > grClock THEN callbacks \cup {f.sign} ELSE callbacks
    /\ UNCHANGED <<grClock, codes, store, standby, issuing, issued, nextTok, begun, codesOf,
                   held, unanswered, unknown, grFaults>>

\* The provider has answered: the user is upserted and the sign-in resumed.
CallbackFinish(s) ==
    /\ s \in callbacks /\ callbacks' = callbacks \ {s}
    /\ unknown' = unknown \ {s}
    /\ IssueCode(s)
    /\ UNCHANGED <<grClock, flows, store, standby, issuing, issued, nextTok, begun, held,
                   unanswered, grFaults>>

CallbackFail(s) ==
    /\ s \in callbacks /\ callbacks' = callbacks \ {s} /\ GrFault
    /\ UNCHANGED <<grClock, flows, codes, store, standby, issuing, issued, nextTok, begun,
                   codesOf, held, unanswered, unknown>>

-----------------------------------------------------------------------------
(* The token endpoint.                                                      *)

\* A slip in token: no lock around an issuance.
MayIssue_Always == TRUE

\* The issuing lock: one issuance at a time.
MayIssue == \A th \in GrThreads : issuing[th] = Idle

\* A code is taken before it is checked; `matches` is the rest of the request
\* (client, redirect, verifier, resource).
TokenCode(th, c, matches) ==
    /\ issuing[th] = Idle /\ MayIssue
    /\ c \in codes /\ codes' = codes \ {c}
    /\ issuing' = IF c.expires > grClock /\ matches
                  THEN [issuing EXCEPT ![th] = [at |-> "issue", sign |-> c.sign, old |-> {}]]
                  ELSE issuing
    /\ UNCHANGED <<grClock, flows, callbacks, store, standby, issued, nextTok, begun, codesOf,
                   held, unanswered, unknown, grFaults>>

\* A refresh token is read; a request that does not match changes nothing.
TokenRefresh(th, g) ==
    /\ issuing[th] = Idle /\ MayIssue
    /\ g \in store /\ g.kind = "refresh"
    /\ g.expires > grClock /\ g.sign \notin unknown
    /\ issuing' = [issuing EXCEPT ![th] = [at |-> "issue", sign |-> g.sign, old |-> {g}]]
    /\ UNCHANGED <<grClock, flows, callbacks, codes, store, standby, issued, nextTok, begun,
                   codesOf, held, unanswered, unknown, grFaults>>

\* The grants of the new pair.
Pair(s, t) == {[kind |-> "access", tok |-> t, sign |-> s, expires |-> grClock + AccessTtl],
               [kind |-> "refresh", tok |-> t, sign |-> s, expires |-> grClock + RefreshTtl]}

\* A slip in token: the old token is left to expire.
Rotated_Kept(i) == store \cup Pair(i.sign, nextTok)

\* The batch: the old refresh token dies when the new pair is born.
Rotated(i) == (store \ i.old) \cup Pair(i.sign, nextTok)

\* The batch is in the store; with a gate the thread now waits for the standby.
TokenWrite(th) ==
    /\ issuing[th].at = "issue" /\ nextTok <= MaxTokens
    /\ store' = Rotated(issuing[th])
    /\ nextTok' = nextTok + 1
    /\ issuing' = [issuing EXCEPT ![th] = [at |-> "written", sign |-> issuing[th].sign,
                                           new |-> CHOOSE g \in Pair(issuing[th].sign, nextTok) :
                                                       g.kind = "refresh"]]
    /\ UNCHANGED <<grClock, flows, callbacks, codes, standby, issued, begun, codesOf, held,
                   unanswered, unknown, grFaults>>

\* A slip in sweep: the lifetime of an access token for both.
Swept_ByAccess(g) == g.expires <= grClock + (RefreshTtl - AccessTtl)

\* sweep deletes the expired.
Swept(g) == g.expires <= grClock

\* The answer, after a sweep now and then (whose own failure is ignored); it
\* may be lost on its way.
TokenAnswer(th, delivered) ==
    LET i == issuing[th]
        sweeps == (issued + 1) % SweepEvery = 0
    IN
    /\ i.at = "written" /\ (Gated => i.new \in standby)
    /\ IF delivered THEN UNCHANGED grFaults ELSE GrFault
    /\ issued' = issued + 1
    /\ store' = IF sweeps THEN {g \in store : ~Swept(g)} ELSE store
    /\ held' = IF delivered THEN [held EXCEPT ![i.sign] = i.new] ELSE held
    /\ unanswered' = IF delivered THEN unanswered ELSE unanswered \cup {i.sign}
    /\ issuing' = [issuing EXCEPT ![th] = Idle]
    /\ UNCHANGED <<grClock, flows, callbacks, codes, standby, nextTok, begun, codesOf, unknown>>

\* write_batch returns an error: before the batch is in the store (a code is
\* gone all the same), or from the gate, after.
TokenRefused(th) ==
    /\ GrFault
    /\ \/ issuing[th].at = "issue" /\ UNCHANGED unanswered
       \/ /\ issuing[th].at = "written" /\ Gated
          /\ unanswered' = unanswered \cup {issuing[th].sign}
    /\ issuing' = [issuing EXCEPT ![th] = Idle]
    /\ UNCHANGED <<grClock, flows, callbacks, codes, store, standby, issued, nextTok, begun,
                   codesOf, held, unknown>>

-----------------------------------------------------------------------------
(* The node.                                                                *)

Ship ==
    /\ standby # store /\ standby' = store
    /\ UNCHANGED <<grClock, flows, callbacks, codes, store, issuing, issued, nextTok, begun,
                   codesOf, held, unanswered, unknown, grFaults>>

\* A process starts over: what is in memory is gone, and what was written
\* under the lock is not answered.
StartOver ==
    /\ GrFault
    /\ flows' = {} /\ callbacks' = {} /\ codes' = {} /\ issued' = 0
    /\ issuing' = [th \in GrThreads |-> Idle]
    /\ unanswered' = unanswered \cup {issuing[th].sign : th \in {x \in GrThreads : issuing[x].at = "written"}}

GrCrash ==
    /\ StartOver
    /\ UNCHANGED <<grClock, store, standby, nextTok, begun, codesOf, held, unknown>>

\* The standby takes over with what it has.
Failover ==
    /\ StartOver /\ store' = standby
    /\ UNCHANGED <<grClock, standby, nextTok, begun, codesOf, held, unknown>>

\* A login is removed from the configuration, or comes back.
ChangeLogin(s) ==
    /\ GrFault
    /\ unknown' = IF s \in unknown THEN unknown \ {s} ELSE unknown \cup {s}
    /\ UNCHANGED <<grClock, flows, callbacks, codes, store, standby, issuing, issued, nextTok,
                   begun, codesOf, held, unanswered>>

GrTick ==
    /\ grClock < MaxGrTime /\ grClock' = grClock + 1
    /\ UNCHANGED <<flows, callbacks, codes, store, standby, issuing, issued, nextTok, begun,
                   codesOf, held, unanswered, unknown, grFaults>>

-----------------------------------------------------------------------------
GrInit ==
    /\ grClock = 0 /\ flows = {} /\ callbacks = {} /\ codes = {}
    /\ store = {} /\ standby = {}
    /\ issuing = [th \in GrThreads |-> Idle] /\ issued = 0 /\ nextTok = 1
    /\ begun = {} /\ codesOf = [s \in SignIns |-> 0] /\ held = [s \in SignIns |-> NoGrant]
    /\ unanswered = {} /\ unknown = {} /\ grFaults = 0

GrNext ==
    \/ \E s \in SignIns : Authorize(s) \/ RedirectToIdp(s) \/ CallbackFinish(s) \/ CallbackFail(s)
    \/ \E f \in flows : CallbackTake(f)
    \/ \E th \in GrThreads :
          \/ \E c \in codes, m \in BOOLEAN : TokenCode(th, c, m)
          \/ \E g \in store : TokenRefresh(th, g)
          \/ TokenWrite(th) \/ TokenRefused(th)
          \/ \E d \in BOOLEAN : TokenAnswer(th, d)
    \/ Ship \/ GrCrash \/ Failover \/ GrTick
    \/ \E s \in SignIns : ChangeLogin(s)

GrSpec == GrInit /\ [][GrNext]_grVars

-----------------------------------------------------------------------------
(* Properties.                                                              *)

\* Type invariant.
GrTypeOK ==
    /\ store \subseteq Grants /\ standby \subseteq Grants
    /\ {e.sign : e \in flows \cup codes} \cup callbacks \subseteq begun
    /\ \A th \in GrThreads : issuing[th].at \in {"idle", "issue", "written"}

\* A sign-in has one refresh token in the store at most, whatever is presented
\* twice, however a request ends and whichever node goes on: "a refresh token
\* cannot rotate twice", "a crash leaves one of the two, never both".
OneRefresh ==
    \A g, h \in store : g.kind = "refresh" /\ h.kind = "refresh" /\ g.sign = h.sign => g = h

\* A sign-in is given one code: a callback that comes twice resumes it once.
OneCode == \A s \in SignIns : codesOf[s] <= 1

\* "a sign-in survives restarts and failovers": the newest refresh token its
\* client was answered is good until it expires, unless a later rotation landed
\* without an answer.
SignInSurvives ==
    \A s \in SignIns \ unanswered :
        held[s] # NoGrant /\ held[s].expires > grClock =>
            held[s] \in store \/ \E th \in GrThreads : issuing[th].at = "written" /\ issuing[th].sign = s

\* What the token endpoint promises.
GrantsSafe == GrTypeOK /\ OneRefresh /\ OneCode /\ SignInSurvives
=============================================================================
