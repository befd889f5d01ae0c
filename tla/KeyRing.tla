------------------------------- MODULE KeyRing -------------------------------
(***************************************************************************)
(* Key rotation (kernel/src/security/keyring.rs, envelope.rs, kms.rs and the *)
(* data-key rows kept by transaction/kernel.rs).  A master key (KEK) held by *)
(* the key manager wraps the store's data key, in the file <dek> and during  *)
(* a rotation in <dek>.next, and every tenant's data key (DEK), in rows of   *)
(* the store.  A wrap authenticates only under the KEK that made it.         *)
(*                                                                           *)
(* KEKs are numbered in the order they are minted; a tenant's DEK is its     *)
(* generation (0, then 1 after a roll).  A set of wraps is a function from   *)
(* tenants to [kek, gen].  Rotation holds the creation guard throughout; the *)
(* writer is one thread (the pipe lock).  ErrorSteps are the steps of a      *)
(* rotation that may return an error, with or without having taken effect;   *)
(* FirstTenants have a data key from the start.                              *)
(***************************************************************************)
EXTENDS Naturals

CONSTANTS Tenants, FirstTenants, ErrorSteps,
          MaxKeks,      \* KEKs minted
          MaxKeyFaults  \* errors and crashes

\* No KEK at all.
NoKek == 1000

ASSUME KeyRingAssumption ==
    /\ FirstTenants \subseteq Tenants /\ ErrorSteps \subseteq 2..6
    /\ MaxKeks \in Nat /\ MaxKeks < NoKek /\ MaxKeyFaults \in Nat

VARIABLES
    kms,        \* the KEK the key manager holds
    dekFile,    \* the KEK that wraps <dek>
    nextFile,   \* the KEK that wraps <dek>.next, or NoKek
    rows,       \* the store's rows: deks, prev, and their next generations
    env,        \* the Envelope in memory: kek, DEKs, previous DEKs, wraps
    ring,       \* "down", "keyed" (KeyRing::open done), "open", "refused"
    rot,        \* a rotation under way: its step and its KEK
    wr,         \* a write with an encrypted field, between its steps
    sealed,     \* ciphertexts committed: pairs of tenant and generation
    minted, keyFaults

keyVars == <<kms, dekFile, nextFile, rows, env, ring, rot, wr, sealed, minted, keyFaults>>

NoWraps == [t \in {} |-> NoKek]
NoDek == [present |-> FALSE, wraps |-> NoWraps]
Present(w) == [present |-> TRUE, wraps |-> w]
RowOf(w) == IF w = NoWraps THEN NoDek ELSE Present(w)
NoRotation == [step |-> 0, kek |-> 0]
NoWrite == [step |-> "idle", tenant |-> "none", gen |-> 0]
NoEnv == [kek |-> 0, deks |-> NoWraps, prev |-> NoWraps, wraps |-> NoWraps]

\* The creation mutex is free: no rotation is running.
CreationFree == rot.step = 0

\* A map with one more entry.
WithKey(f, t, v) == [x \in DOMAIN f \cup {t} |-> IF x = t THEN v ELSE f[x]]

\* encrypt under a KEK: a set of data keys as wraps.
WrapAll(deks, k) == [t \in DOMAIN deks |-> [kek |-> k, gen |-> deks[t]]]

\* unwrap: the data keys in a set of wraps.
KeysOf(w) == [t \in DOMAIN w |-> w[t].gen]

\* unwraps_all: every wrap authenticates under k.
UnwrapsAll(w, k) == \A t \in DOMAIN w : w[t].kek = k

-----------------------------------------------------------------------------
(* Writing an encrypted field (remember_locked).                             *)

\* tenant_key: an existing data key, or a new one made under the guard.
EncryptField(t) ==
    /\ ring = "open" /\ wr.step = "idle"
    /\ t \in DOMAIN env.deks \/ CreationFree
    /\ LET gen == IF t \in DOMAIN env.deks THEN env.deks[t] ELSE 0
       IN  /\ wr' = [step |-> "persist", tenant |-> t, gen |-> gen]
           /\ env' = IF t \in DOMAIN env.deks THEN env
                     ELSE [env EXCEPT !.deks = WithKey(@, t, 0),
                                      !.wraps = WithKey(@, t, [kek |-> env.kek, gen |-> 0])]
    /\ UNCHANGED <<kms, dekFile, nextFile, rows, ring, rot, sealed, minted, keyFaults>>

\* A slip in remember_locked: the wraps are persisted without the guard.
MayPersist_Always == TRUE

\* The wraps are read and written under the creation guard.
MayPersist == CreationFree

\* The wraps are durable before the object.
PersistDeks ==
    /\ wr.step = "persist" /\ MayPersist
    /\ rows' = [rows EXCEPT !.deks = Present(env.wraps)]
    /\ wr' = [wr EXCEPT !.step = "commit"]
    /\ UNCHANGED <<kms, dekFile, nextFile, env, ring, rot, sealed, minted, keyFaults>>

CommitField ==
    /\ wr.step = "commit"
    /\ sealed' = sealed \cup {<<wr.tenant, wr.gen>>}
    /\ wr' = NoWrite
    /\ UNCHANGED <<kms, dekFile, nextFile, rows, env, ring, rot, minted, keyFaults>>

-----------------------------------------------------------------------------
(* KeyRing::rotate_steps.                                                    *)

\* Step 1: a new KEK, in memory only.
Mint ==
    /\ ring = "open" /\ rot.step = 0 /\ minted < MaxKeks
    /\ minted' = minted + 1
    /\ rot' = [step |-> 1, kek |-> minted + 1]
    /\ UNCHANGED <<kms, dekFile, nextFile, rows, env, ring, wr, sealed, keyFaults>>

\* What each later step writes.
Wrote2 == nextFile' = rot.kek /\ UNCHANGED <<kms, dekFile, rows, env>>

\* persist_next_deks: both generations under the new KEK.
NextRows == [rows EXCEPT !.next = Present(WrapAll(env.deks, rot.kek)),
                         !.prevNext = RowOf(WrapAll(env.prev, rot.kek))]
Wrote3 == rows' = NextRows /\ UNCHANGED <<kms, dekFile, nextFile, env>>

\* KMS install, the commit point.
Wrote4 == kms' = rot.kek /\ UNCHANGED <<dekFile, nextFile, rows, env>>

\* promote_next_deks: one batch.
Promoted(w, p) == [deks |-> Present(w), prev |-> RowOf(p), next |-> NoDek, prevNext |-> NoDek]
Wrote5 == /\ rows' = Promoted(WrapAll(env.deks, rot.kek), WrapAll(env.prev, rot.kek))
          /\ UNCHANGED <<kms, dekFile, nextFile, env>>

\* A slip in adopt: the wraps in memory stay those of the old KEK.
Adopt_KekOnly == /\ env' = [env EXCEPT !.kek = rot.kek]
                 /\ UNCHANGED <<kms, dekFile, nextFile, rows>>

\* adopt: the envelope in memory.
Adopt == /\ env' = [env EXCEPT !.kek = rot.kek, !.wraps = WrapAll(env.deks, rot.kek)]
         /\ UNCHANGED <<kms, dekFile, nextFile, rows>>

\* .next renamed over the file.
Wrote6 == /\ dekFile' = nextFile /\ nextFile' = NoKek
          /\ UNCHANGED <<kms, rows, env>>

\* A slip in rotate_steps: the KMS is told before the wraps are durable.
StepOrder_KmsFirst == <<4, 2, 3, 5, 7, 6>>

\* The order of the steps: file, rows, KMS, promotion, adoption (7), rename.
StepOrder == <<2, 3, 4, 5, 7, 6>>

Wrote(s) == CASE s = 2 -> Wrote2 [] s = 3 -> Wrote3 [] s = 4 -> Wrote4
              [] s = 5 -> Wrote5 [] s = 7 -> Adopt [] s = 6 -> Wrote6

RotateStep ==
    /\ rot.step \in 1..6
    /\ Wrote(StepOrder[rot.step])
    /\ rot' = IF rot.step = 6 THEN NoRotation ELSE [rot EXCEPT !.step = @ + 1]
    /\ UNCHANGED <<ring, wr, sealed, minted, keyFaults>>

\* A step returns an error, its write made or not: rotate returns, the guard
\* is released, the process goes on.
RotateError ==
    /\ rot.step \in 1..6 /\ StepOrder[rot.step] \in ErrorSteps
    /\ keyFaults < MaxKeyFaults
    /\ \/ Wrote(StepOrder[rot.step])
       \/ UNCHANGED <<kms, dekFile, nextFile, rows, env>>
    /\ rot' = NoRotation
    /\ keyFaults' = keyFaults + 1
    /\ UNCHANGED <<ring, wr, sealed, minted>>

\* roll_field_deks, offline: both generations in one batch, once; then every
\* object's newest version is committed again under the new one.
RollDeks ==
    /\ ring = "open" /\ CreationFree /\ wr.step = "idle" /\ env.wraps # NoWraps
    /\ LET fresh == [t \in DOMAIN env.deks |-> 1]
           first == ~rows.prev.present
       IN  /\ rows' = IF first
                      THEN [rows EXCEPT !.prev = Present(env.wraps),
                                        !.deks = Present(WrapAll(fresh, env.kek))]
                      ELSE rows
           /\ env' = IF first
                     THEN [env EXCEPT !.prev = env.deks, !.deks = fresh,
                                      !.wraps = WrapAll(fresh, env.kek)]
                     ELSE env
           /\ \E s \in SUBSET {p[1] : p \in sealed} :
                 sealed' = sealed \cup {<<t, env'.deks[t]>> : t \in s \cap DOMAIN env'.prev}
    /\ UNCHANGED <<kms, dekFile, nextFile, ring, rot, wr, minted, keyFaults>>

-----------------------------------------------------------------------------
(* Crash and open.                                                           *)

KeyCrash ==
    /\ ring # "refused" /\ keyFaults < MaxKeyFaults
    /\ keyFaults' = keyFaults + 1
    /\ ring' = "down" /\ env' = NoEnv /\ rot' = NoRotation /\ wr' = NoWrite
    /\ UNCHANGED <<kms, dekFile, nextFile, rows, sealed, minted>>

\* KeyRing::open: a .next that authenticates is promoted, another is removed;
\* the file must then unwrap.
OpenRing ==
    /\ ring = "down"
    /\ dekFile' = IF nextFile = kms THEN nextFile ELSE dekFile
    /\ nextFile' = NoKek
    /\ ring' = IF dekFile' = kms THEN "keyed" ELSE "refused"
    /\ UNCHANGED <<kms, rows, env, rot, wr, sealed, minted, keyFaults>>

\* with_field_encryption chooses the rows: a next generation whose wraps all
\* authenticate is promoted, another is deleted.
ChosenRows ==
    IF rows.next.present /\ UnwrapsAll(rows.next.wraps, kms)
    THEN Promoted(rows.next.wraps, rows.prevNext.wraps)
    ELSE [rows EXCEPT !.next = NoDek, !.prevNext = NoDek]

\* ... and loads both generations; a wrap of another KEK refuses the open.
Loads(r) == UnwrapsAll(r.deks.wraps, kms) /\ UnwrapsAll(r.prev.wraps, kms)

OpenDeks ==
    /\ ring = "keyed"
    /\ rows' = ChosenRows
    /\ ring' = IF Loads(ChosenRows) THEN "open" ELSE "refused"
    /\ env' = [kek |-> kms, deks |-> KeysOf(rows'.deks.wraps),
               prev |-> KeysOf(rows'.prev.wraps), wraps |-> rows'.deks.wraps]
    /\ UNCHANGED <<kms, dekFile, nextFile, rot, wr, sealed, minted, keyFaults>>

-----------------------------------------------------------------------------
KeyInit ==
    /\ kms = 0 /\ dekFile = 0 /\ nextFile = NoKek
    /\ LET deks == [t \in FirstTenants |-> 0]
       IN  /\ rows = [deks |-> RowOf(WrapAll(deks, 0)), prev |-> NoDek,
                      next |-> NoDek, prevNext |-> NoDek]
           /\ env = [kek |-> 0, deks |-> deks, prev |-> NoWraps, wraps |-> WrapAll(deks, 0)]
    /\ ring = "open" /\ rot = NoRotation /\ wr = NoWrite
    /\ sealed = {} /\ minted = 0 /\ keyFaults = 0

KeyNext ==
    \/ \E t \in Tenants : EncryptField(t)
    \/ PersistDeks \/ CommitField
    \/ Mint \/ RotateStep \/ RotateError \/ RollDeks
    \/ KeyCrash \/ OpenRing \/ OpenDeks

KeySpec == KeyInit /\ [][KeyNext]_keyVars

-----------------------------------------------------------------------------
(* Properties.                                                               *)

\* Type invariant.
KeyTypeOK ==
    /\ kms \in 0..MaxKeks /\ dekFile \in 0..MaxKeks /\ nextFile \in 0..MaxKeks \cup {NoKek}
    /\ ring \in {"down", "keyed", "open", "refused"}
    /\ rot.step \in 0..6 /\ wr.step \in {"idle", "persist", "commit"}
    /\ \A w \in {env.wraps, rows.deks.wraps, rows.prev.wraps, rows.next.wraps} :
          DOMAIN w \subseteq Tenants /\ \A t \in DOMAIN w : w[t].kek \in 0..MaxKeks
    /\ sealed \subseteq Tenants \X {0, 1}

\* Whenever the process is killed, the next open finds the store's key: the KEK
\* the key manager holds wraps <dek> or <dek>.next ("Rotation is crash-safe by
\* generations", keyring.rs).
StoreKeyOpens == ring # "refused" /\ kms \in {dekFile, nextFile}

\* Whenever the process is killed, the next open has a data key for every
\* committed ciphertext, the newest or a historical one: through rotations cut
\* off anywhere, tenants created beside them, and a roll (envelope.rs,
\* with_field_encryption).
FieldsReadable ==
    /\ Loads(ChosenRows)
    /\ \A p \in sealed :
          \/ p[1] \in DOMAIN ChosenRows.deks.wraps /\ ChosenRows.deks.wraps[p[1]].gen = p[2]
          \/ p[1] \in DOMAIN ChosenRows.prev.wraps /\ ChosenRows.prev.wraps[p[1]].gen = p[2]

\* Between rotations the old KEK unwraps nothing current (keyring.rs): the
\* file, the rows and the envelope are all under the KEK the manager holds.
OneKek ==
    ring = "open" /\ rot.step = 0 =>
        /\ dekFile = kms /\ env.kek = kms
        /\ UnwrapsAll(rows.deks.wraps, kms) /\ UnwrapsAll(rows.prev.wraps, kms)
        /\ UnwrapsAll(env.wraps, kms)

\* What rotations and rolls keep at every crash.
KeysSafe == KeyTypeOK /\ StoreKeyOpens /\ FieldsReadable /\ OneKek
=============================================================================
