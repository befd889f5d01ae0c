-------------------------- MODULE Replication_proofs --------------------------
(***************************************************************************)
(* Theorems about log shipping: its types and its terms for every number   *)
(* of nodes and with self-fences; log matching and the survival of acked   *)
(* writes for two nodes under a lease whose store answers in time.         *)
(***************************************************************************)
EXTENDS Replication, WellFoundedInduction, TLAPS

-----------------------------------------------------------------------------
(* Term histories *)

\* The terms of a history grow.
Growing(h) == \A i, j \in DOMAIN h : i < j => h[i].term < h[j].term

\* A set of naturals has a least element: induction, as a fact about sets.
LEMMA Least == ASSUME NEW T \in SUBSET Nat, T # {} PROVE \E x \in T : \A y \in T : ~ (y < x)
<1>1. PICK x \in T : \A y \in T : ~ (<<y, x>> \in OpToRel(<, Nat))
  BY WFMin, NatLessThanWellFounded
<1>2. \A y \in T : <<y, x>> \in OpToRel(<, Nat) <=> y < x
  BY DEF OpToRel
<1>. QED  BY <1>1, <1>2

\* The entries before a term are a prefix of the history.
LEMMA EarlierIs ==
  ASSUME NEW h \in Seq(Pair), Growing(h), NEW k \in Nat
  PROVE  \E i \in 0 .. Len(h) : /\ Earlier(h, k) = SubSeq(h, 1, i)
                                /\ \A j \in DOMAIN h : j <= i <=> h[j].term < k
<1>. DEFINE Late == {j \in 1 .. Len(h) : ~ (h[j].term < k)} \cup {Len(h) + 1}
            Cut(i) == \A j \in DOMAIN h : j <= i <=> h[j].term < k
<1>1. Len(h) \in Nat /\ DOMAIN h = 1 .. Len(h) /\ \A j \in DOMAIN h : h[j] \in Pair /\ h[j].term \in Nat
  <2>1. Len(h) \in Nat /\ DOMAIN h = 1 .. Len(h) /\ \A j \in DOMAIN h : h[j] \in Pair
    OBVIOUS
  <2>. QED  BY <2>1 DEF Pair
<1>2. PICK x \in Late : \A y \in Late : ~ (y < x)
  <2>1. Late \in SUBSET Nat /\ Late # {}
    BY <1>1
  <2>. HIDE DEF Late
  <2>. QED  BY <2>1, Least
<1>3. x \in 1 .. Len(h) + 1 /\ x - 1 \in 0 .. Len(h)
  BY <1>1, <1>2
<1>4. Cut(x - 1)
  <2>1. SUFFICES ASSUME NEW j \in 1 .. Len(h) PROVE j <= x - 1 <=> h[j].term < k
    BY <1>1
  <2>2. ASSUME j <= x - 1 PROVE h[j].term < k
    BY <1>1, <1>2, <1>3, <2>2
  <2>3. ASSUME j > x - 1 PROVE ~ (h[j].term < k)
    <3>1. x \in 1 .. Len(h) /\ ~ (h[x].term < k)
      BY <1>1, <1>2, <1>3, <2>3
    <3>2. x = j \/ x < j
      BY <1>3, <2>3
    <3>3. x < j => h[x].term < h[j].term
      BY <1>1, <3>1 DEF Growing
    <3>. QED  BY <1>1, <3>1, <3>2, <3>3
  <2>. QED  BY <1>1, <1>3, <2>2, <2>3
<1>5. \E i \in 0 .. Len(h) : Cut(i)
  BY <1>3, <1>4
<1>. DEFINE c == CHOOSE i \in 0 .. Len(h) : Cut(i)
<1>6. c \in 0 .. Len(h) /\ Cut(c)
  BY <1>5
<1>7. Earlier(h, k) = SubSeq(h, 1, c)
  BY DEF Earlier
<1>. QED  BY <1>6, <1>7

\* A claim writes a history whose last term is the one claimed.
LEMMA ClaimedIs ==
  ASSUME NEW h \in Seq(Pair), Growing(h), NEW k \in Nat, NEW last \in Nat
  PROVE  /\ ClaimedHistory(h, k, last) \in Seq(Pair) /\ Growing(ClaimedHistory(h, k, last))
         /\ (\A j \in DOMAIN h : h[j].term < k) => ClaimedHistory(h, k, last) = Append(h, [term |-> k, first |-> last + 1])
<1>1. PICK i \in 0 .. Len(h) : /\ Earlier(h, k) = SubSeq(h, 1, i)
                               /\ \A j \in DOMAIN h : j <= i <=> h[j].term < k
  BY EarlierIs
<1>. DEFINE e == SubSeq(h, 1, i)
            c == ClaimedHistory(h, k, last)
<1>2. e \in Seq(Pair) /\ Len(e) = i /\ \A j \in 1 .. i : e[j] = h[j]
  BY <1>1
<1>3. [term |-> k, first |-> last + 1] \in Pair
  BY DEF Pair
<1>4. c = Append(e, [term |-> k, first |-> last + 1])
  BY <1>1 DEF ClaimedHistory
<1>5. c \in Seq(Pair) /\ Len(c) = i + 1 /\ (\A j \in 1 .. i : c[j] = h[j]) /\ c[i + 1].term = k
  BY <1>2, <1>3, <1>4
<1>6. Growing(c)
  <2>1. SUFFICES ASSUME NEW a \in 1 .. i + 1, NEW b \in 1 .. i + 1, a < b PROVE c[a].term < c[b].term
    BY <1>5 DEF Growing
  <2>2. a \in 1 .. i /\ a \in DOMAIN h
    BY <2>1, <1>1
  <2>3. CASE b = i + 1
    BY <1>1, <1>5, <2>2, <2>3
  <2>4. CASE b # i + 1
    BY <1>1, <1>5, <2>1, <2>2, <2>4 DEF Growing
  <2>. QED  BY <2>3, <2>4
<1>7. ASSUME \A j \in DOMAIN h : h[j].term < k PROVE e = h
  <2>1. i = Len(h)
    <3>1. CASE Len(h) = 0
      BY <1>1, <3>1
    <3>2. CASE Len(h) # 0
      <4>1. Len(h) \in DOMAIN h
        BY <3>2
      <4>. QED  BY <1>1, <1>7, <4>1
    <3>. QED  BY <3>1, <3>2
  <2>. QED  BY <1>2, <2>1
<1>. HIDE DEF e, c
<1>. QED  BY <1>4, <1>5, <1>6, <1>7 DEF e, c
-----------------------------------------------------------------------------
(* Types and terms, with self-fences *)

TypeInv == TypeOK /\ \A n \in Nodes : Growing(history[n]) /\ Growing(snap[n].history)

\* No node is ahead of the record, whoever leads is at its term, and whoever is followed is not
\* behind its followers.
NewestInv ==
  /\ \A n \in Nodes : term[n] <= lease.term /\ snap[n].term <= lease.term
  /\ \A n \in Nodes : mode[n] = "lead" => lease.holder = n
  /\ \A n \in Nodes : mode[n] \in {"lead", "fenced"} /\ lease.holder = n => term[n] = lease.term
  /\ \A n \in Nodes : mode[n] \in {"down", "lead", "fenced"} => fol[n].to = None
  /\ \A n, m \in Nodes : mode[n] = "standby" /\ mode[m] \in {"lead", "fenced"} /\ fol[n].to = m
        => term[n] <= term[m]

LEMMA TypeInit == Init => TypeInv /\ NewestInv
<1>. SUFFICES ASSUME Init PROVE TypeInv /\ NewestInv
  OBVIOUS
<1>1. <<[term |-> 0, first |-> 1]>> \in Seq(Pair) /\ <<>> \in Seq(Pair) /\ <<>> \in Seq(Nat)
  BY DEF Pair
<1>2. Growing(<<[term |-> 0, first |-> 1]>>) /\ Growing(<<>>)
  BY DEF Growing
<1>3. TypeOK
  BY <1>1 DEF Init, TypeOK, NoLease, NoSnap, Idle
<1>4. TypeInv
  BY <1>2, <1>3 DEF TypeInv, Init, NoSnap
<1>5. NewestInv
  BY ReplicationAssumption DEF Init, NewestInv, NoLease, NoSnap, Idle
<1>. QED  BY <1>4, <1>5

\* What TypeOK says of the values at a node.
LEMMA Typed ==
  ASSUME TypeOK
  PROVE  /\ None \notin Nodes /\ lease.holder \in Nodes \cup {None} /\ lease.term \in Nat /\ lease.seq \in Nat
         /\ \A n \in Nodes :
              /\ log[n] \in Seq(Nat) /\ Len(log[n]) \in Nat /\ DOMAIN log[n] = 1 .. Len(log[n])
              /\ \A i \in DOMAIN log[n] : log[n][i] \in Nat
              /\ history[n] \in Seq(Pair) /\ Len(history[n]) \in Nat /\ DOMAIN history[n] = 1 .. Len(history[n])
              /\ \A j \in DOMAIN history[n] : history[n][j].term \in Nat /\ history[n][j].first \in Nat
              /\ term[n] \in Nat
              /\ snap[n].log \in Seq(Nat) /\ Len(snap[n].log) \in Nat /\ DOMAIN snap[n].log = 1 .. Len(snap[n].log)
         /\ DOMAIN log = Nodes /\ DOMAIN history = Nodes /\ DOMAIN term = Nodes /\ DOMAIN role = Nodes
         /\ DOMAIN snap = Nodes /\ DOMAIN mode = Nodes /\ DOMAIN fol = Nodes
<1>1. /\ None \notin Nodes /\ lease.holder \in Nodes \cup {None} /\ lease.term \in Nat /\ lease.seq \in Nat
      /\ DOMAIN log = Nodes /\ DOMAIN history = Nodes /\ DOMAIN term = Nodes /\ DOMAIN role = Nodes
      /\ DOMAIN snap = Nodes /\ DOMAIN mode = Nodes /\ DOMAIN fol = Nodes
  BY ReplicationAssumption DEF TypeOK
<1>2. ASSUME NEW n \in Nodes
      PROVE  /\ log[n] \in Seq(Nat) /\ history[n] \in Seq(Pair) /\ term[n] \in Nat /\ snap[n].log \in Seq(Nat)
  BY DEF TypeOK
<1>3. ASSUME NEW h \in Seq(Pair)
      PROVE  Len(h) \in Nat /\ DOMAIN h = 1 .. Len(h) /\ \A j \in DOMAIN h : h[j].term \in Nat /\ h[j].first \in Nat
  <2>1. Len(h) \in Nat /\ DOMAIN h = 1 .. Len(h) /\ \A j \in DOMAIN h : h[j] \in Pair
    BY <1>3
  <2>. QED  BY <2>1 DEF Pair
<1>4. ASSUME NEW l \in Seq(Nat)
      PROVE  Len(l) \in Nat /\ DOMAIN l = 1 .. Len(l) /\ \A i \in DOMAIN l : l[i] \in Nat
  BY <1>4
<1>. QED  BY <1>1, <1>2, <1>3, <1>4

LEMMA StatusTyped ==
  ASSUME NEW f \in [Nodes -> [to : Nodes \cup {None}, st : {"idle", "linked", "dead"}]], NEW n \in Nodes,
         NEW x \in {"idle", "linked", "dead"}
  PROVE  [f EXCEPT ![n].st = x] \in [Nodes -> [to : Nodes \cup {None}, st : {"idle", "linked", "dead"}]]
OBVIOUS

LEMMA SeveredIs ==
  ASSUME TypeOK, NEW n \in Nodes
  PROVE  /\ Severed(n) \in [Nodes -> [to : Nodes \cup {None}, st : {"idle", "linked", "dead"}]]
         /\ \A m \in Nodes : /\ Severed(n)[m].to = fol[m].to
                             /\ Severed(n)[m].st = "linked" => Severed(n)[m] = fol[m] /\ fol[m].to # n
<1>. DEFINE F == [to : Nodes \cup {None}, st : {"idle", "linked", "dead"}]
<1>1. \A m \in Nodes : fol[m] \in F
  BY DEF TypeOK
<1>2. \A m \in Nodes : [fol[m] EXCEPT !.st = "idle"] \in F /\ [fol[m] EXCEPT !.st = "idle"].to = fol[m].to
                      /\ [fol[m] EXCEPT !.st = "idle"].st = "idle"
  BY ONLY <1>1
<1>3. \A m \in Nodes : Severed(n)[m] = IF fol[m].to = n /\ fol[m].st = "linked"
                                     THEN [fol[m] EXCEPT !.st = "idle"] ELSE fol[m]
  BY DEF Severed
<1>4. \A m \in Nodes : Severed(n)[m] \in F
  BY <1>1, <1>2, <1>3
<1>5. Severed(n) \in [Nodes -> F]
  <2>1. Severed(n) = [m \in Nodes |-> Severed(n)[m]]
    BY DEF Severed
  <2>. QED  BY ONLY <1>4, <2>1
<1>6. \A m \in Nodes : /\ Severed(n)[m].to = fol[m].to
                       /\ Severed(n)[m].st = "linked" => Severed(n)[m] = fol[m] /\ fol[m].to # n
  BY <1>2, <1>3
<1>. QED  BY <1>5, <1>6

LEMMA TypeStep == ASSUME TypeInv, [FencingNext]_vars PROVE TypeInv'
<1>0. TypeOK /\ (\A n \in Nodes : Growing(history[n]) /\ Growing(snap[n].history)) /\ None \notin Nodes
  BY ReplicationAssumption DEF TypeInv
<1>00. /\ \A x \in Nodes : log[x] \in Seq(Nat) /\ Len(log[x]) \in Nat /\ history[x] \in Seq(Pair) /\ term[x] \in Nat
       /\ fol \in [Nodes -> [to : Nodes \cup {None}, st : {"idle", "linked", "dead"}]] /\ lease.term \in Nat
  <2>1. fol \in [Nodes -> [to : Nodes \cup {None}, st : {"idle", "linked", "dead"}]]
    BY <1>0 DEF TypeOK
  <2>. QED  BY <1>0, <2>1, Typed
<1>. USE DEF TypeOK, disk
<1>1. ASSUME NEW n \in Nodes, WinFirst(n) PROVE TypeInv'
  <2>1. lease' \in [holder : Nodes \cup {None}, term : Nat, seq : Nat] /\ recorded' \in Seq(Nat)
    <3>1. log[n] \in Seq(Nat) /\ Len(log[n]) \in Nat /\ term[n] + 1 \in Nat
      BY ONLY <1>00, n \in Nodes
    <3>. QED  BY <1>1, <3>1 DEF WinFirst, Holder
  <2>. QED  BY <1>0, <1>1, <2>1 DEF WinFirst, TypeInv
<1>2. ASSUME NEW n \in Nodes, Claim(n) PROVE TypeInv'
  <2>1. /\ ClaimedHistory(history[n], lease.term, Len(log[n])) \in Seq(Pair)
        /\ Growing(ClaimedHistory(history[n], lease.term, Len(log[n])))
    <3>1. history[n] \in Seq(Pair) /\ lease.term \in Nat /\ Len(log[n]) \in Nat
      BY ONLY <1>00, n \in Nodes
    <3>. QED  BY <1>0, <3>1, ClaimedIs
  <2>. QED  BY <1>0, <1>2, <2>1 DEF Claim, TypeInv
<1>3. ASSUME NEW n \in Nodes, Lead(n) PROVE TypeInv'
  BY <1>0, <1>3, SeveredIs DEF Lead, TypeInv
<1>4. ASSUME NEW n \in Nodes, StandBy(n) PROVE TypeInv'
  BY <1>0, <1>4, SeveredIs DEF StandBy, TypeInv
<1>5. ASSUME NEW n \in Nodes, Write(n) PROVE TypeInv'
  <2>1. Append(log[n], term[n]) \in Seq(Nat)
    BY <1>0
  <2>. QED  BY <1>0, <1>5, <2>1 DEF Write, TypeInv
<1>6. ASSUME NEW n \in Nodes, Renew(n) PROVE TypeInv'
  <2>1. lease \in [holder : Nodes \cup {None}, term : Nat, seq : Nat] /\ log[n] \in Seq(Nat) /\ Len(log[n]) \in Nat
    BY <1>0
  <2>2. lease' = [lease EXCEPT !.seq = Len(log[n])] /\ recorded' = log[n]
    BY <1>6 DEF Renew
  <2>3. lease' \in [holder : Nodes \cup {None}, term : Nat, seq : Nat]
    BY ONLY <2>1, <2>2
  <2>. QED  BY <1>0, <1>6, <2>1, <2>2, <2>3 DEF Renew, TypeInv
<1>7. ASSUME NEW n \in Nodes, Crash(n) \/ Reexec(n) \/ Exit(n) PROVE TypeInv'
  <2>1. /\ mode' = [mode EXCEPT ![n] = "down"] /\ fol' = [fol EXCEPT ![n] = Idle] /\ stops' \in Nat
        /\ UNCHANGED <<lease, disk, acked, acks, recorded>>
    <3>1. CASE Crash(n)
      BY <1>0, <3>1 DEF Crash
    <3>2. CASE Reexec(n)
      BY <1>0, <3>2 DEF Reexec
    <3>3. CASE Exit(n)
      BY <1>0, <3>3 DEF Exit
    <3>. QED  BY <1>7, <3>1, <3>2, <3>3
  <2>2. fol' \in [Nodes -> [to : Nodes \cup {None}, st : {"idle", "linked", "dead"}]] /\ mode' \in [Nodes -> {"down", "won", "lead", "fenced", "standby"}]
    BY <1>0, <2>1 DEF Idle
  <2>. QED  BY <1>0, <2>1, <2>2 DEF TypeInv
<1>8. ASSUME NEW n \in Nodes, Poll(n) \/ LinkDown(n) PROVE TypeInv'
  <2>1. fol' \in [Nodes -> [to : Nodes \cup {None}, st : {"idle", "linked", "dead"}]]
    <3>1. CASE Poll(n)
      BY <1>0, <3>1 DEF Poll, LeadAddr
    <3>2. CASE LinkDown(n)
      <4>1. fol' = [fol EXCEPT ![n].st = "idle"]
        BY <3>2 DEF LinkDown
      <4>. QED  BY ONLY <1>00, <4>1, n \in Nodes, StatusTyped
    <3>. QED  BY <1>8, <3>1, <3>2
  <2>2. UNCHANGED <<lease, disk, mode, acked, acks, recorded, stops>>
    BY <1>8 DEF Poll, LinkDown
  <2>. QED  BY <1>0, <2>1, <2>2 DEF TypeInv
<1>9. ASSUME NEW n \in Nodes, FinishRebootstrap(n) PROVE TypeInv'
  <2>1. NoSnap \in [log : Seq(Nat), history : Seq(Pair), term : Nat] /\ Growing(NoSnap.history)
    BY DEF NoSnap, Growing
  <2>2. snap[n].log \in Seq(Nat) /\ snap[n].history \in Seq(Pair) /\ snap[n].term \in Nat /\ Growing(snap[n].history)
    BY <1>0
  <2>3. fol' \in [Nodes -> [to : Nodes \cup {None}, st : {"idle", "linked", "dead"}]]
    BY <1>0, <1>9, SeveredIs DEF FinishRebootstrap
  <2>4. TypeOK'
    BY <1>0, <1>9, <2>1, <2>2, <2>3 DEF FinishRebootstrap
  <2>5. \A x \in Nodes : Growing(history'[x]) /\ Growing(snap'[x].history)
    BY <1>0, <1>9, <2>1, <2>2 DEF FinishRebootstrap
  <2>. QED  BY <2>4, <2>5 DEF TypeInv
<1>10. ASSUME NEW n \in Nodes, TakeOver(n) PROVE TypeInv'
  <2>1. lease' \in [holder : Nodes \cup {None}, term : Nat, seq : Nat] /\ recorded' \in Seq(Nat) /\ mode' \in [Nodes -> {"down", "won", "lead", "fenced", "standby"}]
    BY <1>0, <1>10 DEF TakeOver, Holder, NextTerm
  <2>. QED  BY <1>0, <1>10, <2>1 DEF TakeOver, TypeInv
<1>11. ASSUME NEW n \in Nodes, NEW m \in Nodes, Accepted(n, m) PROVE TypeInv'
  <2>1. fol' \in [Nodes -> [to : Nodes \cup {None}, st : {"idle", "linked", "dead"}]]
    <3>1. fol' = [fol EXCEPT ![n].st = "linked"]
      BY <1>11 DEF Accepted
    <3>. QED  BY ONLY <1>00, <3>1, n \in Nodes, StatusTyped
  <2>2. history' \in [Nodes -> Seq(Pair)] /\ term' \in [Nodes -> Nat] /\ role' \in [Nodes -> {"leader", "standby", "fenced"}]
    BY <1>0, <1>11 DEF Accepted
  <2>. QED  BY <1>0, <1>11, <2>1, <2>2 DEF Accepted, TypeInv
<1>12. ASSUME NEW n \in Nodes, NEW m \in Nodes, Snapshot(n, m) PROVE TypeInv'
  BY <1>0, <1>12 DEF Snapshot, TypeInv, Idle
<1>13. ASSUME NEW n \in Nodes, NEW m \in Nodes, Ship(n, m) PROVE TypeInv'
  <2>1. /\ log \in [Nodes -> Seq(Nat)] /\ log[n] \in Seq(Nat) /\ log[m] \in Seq(Nat)
        /\ term[m] \in Nat /\ acked \in [Nodes -> Nat] /\ acks \subseteq [idx : Nat, term : Nat]
    BY <1>0
  <2>2. Len(log[n]) < Len(log[m]) /\ log' = [log EXCEPT ![n] = Append(log[n], log[m][Len(log[n]) + 1])]
    BY <1>13 DEF Ship
  <2>3. log[m][Len(log[n]) + 1] \in Nat
    BY ONLY <2>1, <2>2
  <2>4. log' \in [Nodes -> Seq(Nat)] /\ Len(log'[n]) \in Nat
    BY ONLY <2>1, <2>2, <2>3, n \in Nodes
  <2>5. Answered(m, Len(log'[n])) \subseteq [idx : Nat, term : Nat]
    <3>1. \A i \in 1 .. Len(log'[n]) : i \in Nat /\ (i <= Len(log[m]) => log[m][i] \in Nat)
      BY ONLY <2>1, <2>4
    <3>. QED  BY ONLY <3>1 DEF Answered
  <2>6. acked' \in [Nodes -> Nat] /\ acks' \subseteq [idx : Nat, term : Nat]
    <3>1. \/ acked' = [acked EXCEPT ![m] = Len(log'[n])] /\ acks' = acks \cup Answered(m, Len(log'[n]))
          \/ UNCHANGED <<acked, acks>>
      BY <1>13 DEF Ship
    <3>. QED  BY ONLY <2>1, <2>4, <2>5, <3>1, m \in Nodes
  <2>. QED  BY <1>0, <1>13, <2>4, <2>6 DEF Ship, TypeInv
<1>14. ASSUME NEW n \in Nodes, Fence(n) PROVE TypeInv'
  <2>1. mode' \in [Nodes -> {"down", "won", "lead", "fenced", "standby"}] /\ role' \in [Nodes -> {"leader", "standby", "fenced"}] /\ stops' \in Nat
    <3>1. mode' = [mode EXCEPT ![n] = "fenced"] /\ role' = [role EXCEPT ![n] = "fenced"] /\ stops' = stops + 1
      BY <1>14 DEF Fence
    <3>2. /\ mode \in [Nodes -> {"down", "won", "lead", "fenced", "standby"}]
          /\ role \in [Nodes -> {"leader", "standby", "fenced"}] /\ stops \in Nat
      BY <1>0
    <3>. QED  BY ONLY <3>1, <3>2
  <2>. QED  BY <1>0, <1>14, <2>1 DEF Fence, TypeInv
<1>15. ASSUME NEW n \in Nodes, NEW m \in Nodes, Refused(n, m) PROVE TypeInv'
  <2>1. fol' \in [Nodes -> [to : Nodes \cup {None}, st : {"idle", "linked", "dead"}]]
    <3>1. fol' = [fol EXCEPT ![n].st = "dead"]
      BY <1>15 DEF Refused
    <3>. QED  BY ONLY <1>00, <3>1, n \in Nodes, StatusTyped
  <2>. QED  BY <1>0, <1>15, <2>1 DEF Refused, TypeInv
<1>16. CASE UNCHANGED vars
  BY <1>0, <1>16 DEF vars, TypeInv
<1>. QED
  BY <1>1, <1>2, <1>3, <1>4, <1>5, <1>6, <1>7, <1>8, <1>9, <1>10, <1>11, <1>12, <1>13, <1>14,
     <1>15, <1>16 DEF FencingNext, Next, Rejected, LogGap

LEMMA NewestStep == ASSUME TypeInv, NewestInv, [FencingNext]_vars PROVE NewestInv'
<1>0. /\ TypeOK /\ NewestInv /\ None \notin Nodes
      /\ lease.term \in Nat /\ lease.holder \in Nodes \cup {None} /\ term \in [Nodes -> Nat]
      /\ mode \in [Nodes -> {"down", "won", "lead", "fenced", "standby"}]
      /\ fol \in [Nodes -> [to : Nodes \cup {None}, st : {"idle", "linked", "dead"}]]
      /\ \A n \in Nodes : snap[n].term \in Nat /\ fol[n].to \in Nodes \cup {None}
      /\ DOMAIN snap = Nodes
  BY ReplicationAssumption DEF TypeInv, TypeOK
<1>. USE DEF disk
<1>1. ASSUME NEW n \in Nodes, WinFirst(n) PROVE NewestInv'
  BY <1>0, <1>1 DEF WinFirst, NewestInv, Holder, NoLease, Ready
<1>2. ASSUME NEW n \in Nodes, Claim(n) PROVE NewestInv'
  <2>1. mode[n] = "down" /\ term' = [term EXCEPT ![n] = lease.term] /\ UNCHANGED <<lease, snap, mode, fol>>
    BY <1>2 DEF Claim, Ready
  <2>. QED  BY <1>0, <2>1 DEF NewestInv
<1>3. ASSUME NEW n \in Nodes, Lead(n) PROVE NewestInv'
  <2>1. /\ mode[n] = "down" /\ lease.holder = n /\ lease.term = term[n] /\ mode' = [mode EXCEPT ![n] = "lead"]
        /\ UNCHANGED <<lease, disk>> /\ \A x \in Nodes : fol'[x].to = fol[x].to
    BY <1>0, <1>3, SeveredIs DEF Lead, Ready
  <2>. QED  BY <1>0, <2>1 DEF NewestInv
<1>4. ASSUME NEW n \in Nodes, StandBy(n) PROVE NewestInv'
  <2>1. /\ mode[n] = "down" /\ mode' = [mode EXCEPT ![n] = "standby"]
        /\ UNCHANGED <<lease, disk>> /\ \A x \in Nodes : fol'[x].to = fol[x].to
    BY <1>0, <1>4, SeveredIs DEF StandBy, Ready
  <2>. QED  BY <1>0, <2>1 DEF NewestInv
<1>5. ASSUME NEW n \in Nodes, Write(n) PROVE NewestInv'
  BY <1>0, <1>5 DEF Write, NewestInv
<1>6. ASSUME NEW n \in Nodes, Renew(n) PROVE NewestInv'
  <2>1. lease'.holder = lease.holder /\ lease'.term = lease.term
    BY <1>0, <1>6 DEF Renew
  <2>. QED  BY <1>0, <1>6, <2>1 DEF Renew, NewestInv
<1>7. ASSUME NEW n \in Nodes, mode' = [mode EXCEPT ![n] = "down"], fol' = [fol EXCEPT ![n] = Idle],
             UNCHANGED <<lease, term>>, \A x \in Nodes : snap'[x].term <= lease.term
      PROVE  NewestInv'
  BY <1>0, <1>7 DEF NewestInv, Idle
<1>8. ASSUME NEW n \in Nodes, Crash(n) \/ Reexec(n) \/ Exit(n) PROVE NewestInv'
  <2>1. CASE Crash(n)
    BY <1>0, <1>7, <2>1 DEF Crash, NewestInv
  <2>2. CASE Reexec(n)
    BY <1>0, <1>7, <2>2 DEF Reexec, NewestInv
  <2>3. CASE Exit(n)
    BY <1>0, <1>7, <2>3 DEF Exit, NewestInv
  <2>. QED  BY <1>8, <2>1, <2>2, <2>3
<1>9. ASSUME NEW n \in Nodes, Poll(n) PROVE NewestInv'
  <2>1. /\ mode[n] = "standby" /\ UNCHANGED <<lease, disk, mode>>
        /\ \A x \in Nodes : fol'[x].to = IF x = n THEN LeadAddr(n) ELSE fol[x].to
    BY <1>0, <1>9 DEF Poll
  <2>. QED  BY <1>0, <2>1 DEF LeadAddr, NewestInv
<1>10. ASSUME NEW n \in Nodes, LinkDown(n) PROVE NewestInv'
  <2>1. UNCHANGED <<lease, disk, mode>> /\ \A x \in Nodes : fol'[x].to = fol[x].to
    BY <1>0, <1>10 DEF LinkDown
  <2>. QED  BY <1>0, <2>1 DEF NewestInv
<1>11. ASSUME NEW n \in Nodes, FinishRebootstrap(n) PROVE NewestInv'
  <2>1. /\ mode[n] = "down" /\ UNCHANGED <<lease, mode>> /\ \A x \in Nodes : fol'[x].to = fol[x].to
        /\ term' = [term EXCEPT ![n] = snap[n].term] /\ snap' = [snap EXCEPT ![n] = NoSnap]
    BY <1>0, <1>11, SeveredIs DEF FinishRebootstrap
  <2>2. \A x \in Nodes : term'[x] <= lease.term /\ snap'[x].term <= lease.term
    BY <1>0, <2>1 DEF NewestInv, NoSnap
  <2>. QED  BY <1>0, <2>1, <2>2 DEF NewestInv
<1>12. ASSUME NEW n \in Nodes, TakeOver(n) PROVE NewestInv'
  <2>1. /\ mode[n] = "standby" /\ lease'.holder = n /\ lease'.term \in Nat /\ lease'.term > lease.term
        /\ lease.holder # n => mode[lease.holder] # "lead"
        /\ mode' = [mode EXCEPT ![n] = "won"] /\ UNCHANGED <<disk, fol>>
    BY <1>0, <1>12 DEF TakeOver, Holder, NextTerm
  <2>. QED  BY <1>0, <2>1 DEF NewestInv
<1>13. ASSUME NEW n \in Nodes, NEW m \in Nodes, Accepted(n, m) PROVE NewestInv'
  <2>1. /\ mode[n] = "standby" /\ fol[n].to = m /\ UNCHANGED <<lease, snap, mode>>
        /\ term' = [term EXCEPT ![n] = term[m]] /\ \A x \in Nodes : fol'[x].to = fol[x].to
    BY <1>0, <1>13 DEF Accepted, Hello
  <2>. QED  BY <1>0, <2>1 DEF NewestInv
<1>14. ASSUME NEW n \in Nodes, NEW m \in Nodes, Snapshot(n, m) PROVE NewestInv'
  <2>1. \A x \in Nodes : snap'[x].term <= lease.term
    BY <1>0, <1>14 DEF Snapshot, NewestInv
  <2>. QED  BY <1>7, <1>14, <2>1 DEF Snapshot
<1>15. ASSUME NEW n \in Nodes, NEW m \in Nodes, Ship(n, m) PROVE NewestInv'
  BY <1>0, <1>15 DEF Ship, NewestInv
<1>16. ASSUME NEW n \in Nodes, Fence(n) PROVE NewestInv'
  BY <1>0, <1>16 DEF Fence, NewestInv
<1>17. ASSUME NEW n \in Nodes, NEW m \in Nodes, Refused(n, m) PROVE NewestInv'
  <2>1. UNCHANGED <<lease, disk, mode>> /\ \A x \in Nodes : fol'[x].to = fol[x].to
    BY <1>0, <1>17 DEF Refused
  <2>. QED  BY <1>0, <2>1 DEF NewestInv
<1>18. CASE UNCHANGED vars
  BY <1>0, <1>18 DEF vars, NewestInv
<1>. QED
  BY <1>1, <1>2, <1>3, <1>4, <1>5, <1>6, <1>8, <1>9, <1>10, <1>11, <1>12, <1>13, <1>14,
     <1>15, <1>16, <1>17, <1>18 DEF FencingNext, Next, Rejected, LogGap

\* Every variable keeps its type, for any set of nodes and with self-fences.
THEOREM ReplicationTypes == FencingSpec => []TypeOK
<1>1. FencingSpec => []TypeInv
  BY TypeInit, TypeStep, PTL DEF FencingSpec
<1>2. TypeInv => TypeOK
  BY DEF TypeInv
<1>. QED  BY <1>1, <1>2, PTL

\* Whoever serves the stream is at the newest term of the nodes that follow it, for any number of
\* nodes, with self-fences: no handshake deposes the leader the lease names (serve_standby).
THEOREM LeaderAlwaysNewest == FencingSpec => []LeaderNewest
<1>1. FencingSpec => [](TypeInv /\ NewestInv)
  BY TypeInit, TypeStep, NewestStep, PTL DEF FencingSpec
<1>2. NewestInv => LeaderNewest
  <2>1. ASSUME NewestInv, NEW n \in Nodes, NEW m \in Nodes, Hello(n, m) PROVE term[n] <= term[m]
    <3>1. mode[n] = "standby" /\ mode[m] \in {"lead", "fenced"} /\ fol[n].to = m
      BY <2>1 DEF Hello
    <3>. QED  BY <2>1, <3>1 DEF NewestInv
  <2>. QED  BY <2>1 DEF LeaderNewest
<1>. QED  BY <1>1, <1>2, PTL

-----------------------------------------------------------------------------
(* Log matching of two nodes: the invariant *)

TwoNodes == \A a, b, c \in Nodes : a = b \/ a = c \/ b = c

\* The holder of the record, and whether it has claimed its directory at the record's term.
H == lease.holder
Claimed == H \in Nodes /\ term[H] = lease.term

ModeInv ==
  /\ lease.holder = None => lease = NoLease
  /\ \A n \in Nodes :
       /\ mode[n] # "fenced" /\ role[n] # "fenced"
       /\ mode[n] = "lead" => H = n /\ term[n] = lease.term /\ snap[n] = NoSnap
       /\ mode[n] = "standby" => H \in Nodes /\ H # n /\ snap[n] = NoSnap
       /\ mode[n] = "won" => snap[n] = NoSnap /\ (H = n => term[n] < lease.term)
       /\ H = n => lease.term > 0 /\ lease.seq <= Len(log[n]) /\ (term[n] = lease.term => role[n] = "leader")

\* A term is new until its holder claims it.
TermInv ==
  \A n \in Nodes :
    /\ term[n] <= lease.term
    /\ H \in Nodes /\ term[H] < lease.term => term[n] < lease.term
    /\ \A j \in DOMAIN history[n] : history[n][j].term <= term[n]

Ordered(h) ==
  /\ Len(h) > 0 /\ h[1] = [term |-> 0, first |-> 1]
  /\ \A i, j \in DOMAIN h : i < j => h[i].term < h[j].term /\ h[i].first <= h[j].first

\* Two histories that have a term have it from the same frame on.
HistInv ==
  /\ \A n \in Nodes : Ordered(history[n])
  /\ Claimed => history[H][Len(history[H])].term = lease.term
  /\ \A n, m \in Nodes : \A i \in DOMAIN history[n], j \in DOMAIN history[m] :
       history[n][i].term = history[m][j].term => history[n][i].first = history[m][j].first

\* Whatever was written under the record's term is in its holder's log.
LeaderHas ==
  Claimed => \A n \in Nodes : \A i \in DOMAIN log[n] :
    log[n][i] = lease.term => i \in DOMAIN log[H] /\ log[H][i] = lease.term

Fits(h, len) == \A j \in DOMAIN h : h[j].first <= len + 1

\* The terms of a history begin inside the log or just after it; the history a standby took over
\* may be ahead of its log, but not of the seq the record asks of its next holder.
FitInv ==
  /\ \A n \in Nodes : \A j \in DOMAIN history[n] :
       history[n][j].first <= Len(log[n]) + 1 \/ (H # n /\ history[n][j].first <= lease.seq + 1)
  /\ H \in Nodes => \A n \in Nodes \ {H} :
       /\ \A j \in DOMAIN history[H] : history[H][j].first <= Len(log[n]) + 1 \/ history[H][j].first <= lease.seq + 1
       /\ term[H] < lease.term => Len(log[H]) <= Len(log[n]) \/ Len(log[H]) <= lease.seq

\* A stream extends a prefix of the log of the holder, or of the one before it.
LinkInv ==
  \A n, m \in Nodes : fol[n] = [to |-> m, st |-> "linked"] =>
    /\ n # m /\ mode[n] \in {"standby", "won"} /\ mode[m] \in {"lead", "down"} /\ snap[m] = NoSnap
    /\ term[n] = term[m] /\ history[n] = history[m] /\ Prefix(log[n], log[m])
    /\ (H = m /\ term[m] = lease.term) \/ (H = n /\ mode[n] = "won")

Holds(l) == \A a \in acks : a.idx \in DOMAIN l /\ l[a.idx] = a.term

\* A shipped snapshot is of the holder.
SnapInv ==
  \A n \in Nodes : snap[n] # NoSnap =>
    /\ mode[n] = "down" /\ Claimed /\ H # n
    /\ snap[n].term = term[H] /\ snap[n].history = history[H] /\ Prefix(snap[n].log, log[H])
    /\ Fits(snap[n].history, Len(snap[n].log)) /\ Holds(snap[n].log)

LogInv == SameFrameSamePast /\ HistorySound
AckInv == \A n \in Nodes : Holds(log[n])

MatchInv ==
  /\ TypeOK /\ ModeInv /\ TermInv /\ HistInv /\ LogInv /\ LeaderHas
  /\ FitInv /\ LinkInv /\ SnapInv /\ AckInv

-----------------------------------------------------------------------------
(* Logs and histories *)

LEMMA Greatest ==
  ASSUME NEW N \in Nat, NEW T \in SUBSET (1 .. N), T # {}
  PROVE  \E x \in T : \A y \in T : y <= x
<1>. DEFINE U == {N - t : t \in T}
<1>0. \A t \in T : t \in Nat /\ N - t \in Nat
  <2>1. \A t \in 1 .. N : t \in Nat /\ N - t \in Nat
    OBVIOUS
  <2>. QED  BY <2>1
<1>1. U \in SUBSET Nat /\ U # {}
  BY <1>0
<1>2. PICK u \in U : \A v \in U : ~ (v < u)
  <2>. HIDE DEF U
  <2>. QED  BY <1>1, Least
<1>3. PICK x \in T : u = N - x
  BY <1>2
<1>4. \A y \in T : ~ (N - y < N - x)
  BY <1>2, <1>3
<1>5. \A y \in T : y <= x
  BY <1>0, <1>4
<1>. QED  BY <1>5

\* The entry a frame belongs to is the last that does not start after it.
LEMMA TermAtUnique ==
  ASSUME NEW h \in Seq(Pair), NEW i \in Nat, NEW j \in DOMAIN h, h[j].first <= i,
         \A k \in DOMAIN h : k > j => ~ (h[k].first <= i)
  PROVE  TermAt(h, i) = h[j].term
<1>. DEFINE upto == {k \in DOMAIN h : h[k].first <= i}
<1>1. j \in upto /\ \A k \in upto : k <= j
  <2>1. DOMAIN h = 1 .. Len(h) /\ Len(h) \in Nat
    OBVIOUS
  <2>. QED  BY <2>1
<1>2. \A k \in upto : k \in Nat
  OBVIOUS
<1>3. (CHOOSE x \in upto : \A k \in upto : k <= x) = j
  <2>. HIDE DEF upto
  <2>1. \A x \in upto : (\A k \in upto : k <= x) => x = j
    BY <1>1, <1>2
  <2>. QED  BY <1>1, <2>1
<1>. QED  BY <1>1, <1>3 DEF TermAt

LEMMA TermAtIs ==
  ASSUME NEW h \in Seq(Pair), Ordered(h), NEW i \in Nat, i > 0
  PROVE  \E j \in DOMAIN h : /\ h[j].first <= i /\ TermAt(h, i) = h[j].term
                             /\ \A k \in DOMAIN h : k > j => ~ (h[k].first <= i)
<1>. DEFINE upto == {k \in DOMAIN h : h[k].first <= i}
<1>1. Len(h) \in Nat /\ DOMAIN h = 1 .. Len(h) /\ Len(h) > 0 /\ h[1].first = 1
  BY DEF Ordered
<1>2. upto \in SUBSET (1 .. Len(h)) /\ 1 \in upto
  BY <1>1
<1>3. PICK j \in upto : \A k \in upto : k <= j
  <2>. HIDE DEF upto
  <2>. QED  BY <1>1, <1>2, Greatest
<1>4. j \in DOMAIN h /\ h[j].first <= i /\ \A k \in DOMAIN h : k > j => ~ (h[k].first <= i)
  BY <1>1, <1>3
<1>5. TermAt(h, i) = h[j].term
  BY <1>4, TermAtUnique
<1>. QED  BY <1>4, <1>5

\* No frame is of a newer term than its node.
LEMMA LogTerms ==
  ASSUME MatchInv, NEW n \in Nodes, NEW i \in DOMAIN log[n]
  PROVE  log[n][i] <= term[n]
<1>1. TypeOK /\ TermInv /\ Ordered(history[n]) /\ TermAt(history[n], i) = log[n][i]
  BY DEF MatchInv, HistInv, LogInv, HistorySound
<1>2. history[n] \in Seq(Pair) /\ i \in Nat /\ i > 0
  BY <1>1, Typed
<1>3. PICK j \in DOMAIN history[n] : TermAt(history[n], i) = history[n][j].term
  BY <1>1, <1>2, TermAtIs
<1>. QED  BY <1>1, <1>3 DEF TermInv

\* The handshake is sound: the histories agree on where a term begins, so a standby whose last
\* frame is of a term the leader had, and had not left before that frame, holds the same frame there.
LEMMA HandshakeSound ==
  ASSUME MatchInv, NEW n \in Nodes, NEW m \in Nodes, ~ OffTimeline(n, m)
  PROVE  Prefix(log[n], log[m])
<1>0. TypeOK /\ HistInv /\ LogInv /\ Ordered(history[n]) /\ Ordered(history[m])
  BY DEF MatchInv, HistInv
<1>a. PICK a \in Nat : a = Len(log[n])
  BY <1>0, Typed
<1>1. /\ DOMAIN log[n] = 1 .. a /\ Len(log[m]) \in Nat /\ DOMAIN log[m] = 1 .. Len(log[m])
      /\ history[n] \in Seq(Pair) /\ history[m] \in Seq(Pair)
      /\ Len(history[m]) \in Nat /\ DOMAIN history[m] = 1 .. Len(history[m])
      /\ \A j \in DOMAIN history[m] : history[m][j].first \in Nat
  BY <1>0, <1>a, Typed
<1>2. a <= Len(log[m]) /\ ~ Diverged(history[m], history[n], a)
  BY <1>a, <1>1 DEF OffTimeline
<1>3. CASE a = 0
  BY <1>a, <1>1, <1>2, <1>3 DEF Prefix
<1>4. CASE a # 0
  <2>1. a \in DOMAIN log[n] /\ a \in DOMAIN log[m] /\ a > 0
    BY <1>1, <1>2, <1>4
  <2>2. TermAt(history[n], a) = log[n][a] /\ TermAt(history[m], a) = log[m][a]
    BY <1>0, <2>1 DEF LogInv, HistorySound
  <2>3. PICK i \in DOMAIN history[n] :
           /\ history[n][i].first <= a /\ TermAt(history[n], a) = history[n][i].term
           /\ \A k \in DOMAIN history[n] : k > i => ~ (history[n][k].first <= a)
    <3>1. history[n] \in Seq(Pair) /\ Ordered(history[n]) /\ a \in Nat /\ a > 0
      BY <1>0, <1>1, <2>1
    <3>. QED  BY ONLY <3>1, TermAtIs
  <2>4. PICK j \in DOMAIN history[m] : /\ history[m][j].term = TermAt(history[n], a)
                                       /\ j < Len(history[m]) => a < history[m][j + 1].first
    BY <1>2 DEF Diverged
  <2>5. history[m][j].first <= a
    BY <1>0, <2>3, <2>4 DEF HistInv
  <2>6. ASSUME NEW k \in DOMAIN history[m], k > j PROVE ~ (history[m][k].first <= a)
    <3>1. j + 1 \in DOMAIN history[m] /\ a < history[m][j + 1].first
      BY <1>1, <2>4, <2>6
    <3>2. history[m][j + 1].first <= history[m][k].first
      <4>1. CASE k = j + 1
        BY <1>1, <3>1, <4>1
      <4>2. CASE k # j + 1
        BY <1>0, <1>1, <2>6, <3>1, <4>2 DEF Ordered
      <4>. QED  BY <4>1, <4>2
    <3>. QED  BY <1>1, <3>1, <3>2
  <2>7. TermAt(history[m], a) = history[m][j].term
    BY <1>1, <2>5, <2>6, TermAtUnique
  <2>8. log[n][a] = log[m][a]
    BY <2>2, <2>4, <2>7
  <2>9. \A k \in 1 .. a : log[n][k] = log[m][k]
    BY <1>0, <2>1, <2>8 DEF LogInv, SameFrameSamePast
  <2>. QED  BY <1>a, <1>1, <1>2, <2>9 DEF Prefix
<1>. QED  BY <1>3, <1>4

\* A log replaced by a prefix of another matches what the other matches.
LEMMA PrefixMatches ==
  ASSUME TypeOK, LogInv, NEW n \in Nodes, NEW m \in Nodes, NEW l \in Seq(Nat), Prefix(l, log[m]),
         log' = [log EXCEPT ![n] = l]
  PROVE  SameFrameSamePast' /\ \A i \in DOMAIN l : TermAt(history[m], i) = l[i]
<1>0. /\ DOMAIN log = Nodes /\ DOMAIN l = 1 .. Len(l) /\ Len(l) \in Nat
      /\ \A x \in Nodes : DOMAIN log[x] = 1 .. Len(log[x]) /\ Len(log[x]) \in Nat
  BY Typed
<1>1. \A i \in DOMAIN l : i \in DOMAIN log[m] /\ l[i] = log[m][i]
  BY <1>0 DEF Prefix
<1>2. \A x \in Nodes : log'[x] = IF x = n THEN l ELSE log[x]
  BY <1>0
<1>3. \A x, y \in Nodes : \A i \in DOMAIN log[x] \cap DOMAIN log[y] :
        log[x][i] = log[y][i] => \A j \in 1 .. i : log[x][j] = log[y][j]
  BY DEF LogInv, SameFrameSamePast
<1>4. SUFFICES ASSUME NEW x \in Nodes, NEW y \in Nodes, NEW i \in DOMAIN log'[x] \cap DOMAIN log'[y],
                      log'[x][i] = log'[y][i], NEW j \in 1 .. i
               PROVE  log'[x][j] = log'[y][j]
  BY <1>1 DEF SameFrameSamePast, LogInv, HistorySound
<1>5. i \in DOMAIN l => j \in DOMAIN l
  BY <1>0, <1>4
<1>6. CASE x = n /\ y # n
  BY <1>1, <1>2, <1>3, <1>4, <1>5, <1>6
<1>7. CASE x # n /\ y = n
  BY <1>1, <1>2, <1>3, <1>4, <1>5, <1>7
<1>8. CASE x # n /\ y # n
  BY <1>2, <1>3, <1>4, <1>8
<1>. QED  BY <1>6, <1>7, <1>8

\* Steps that change neither the record nor a directory nor the answers given.
LEMMA QuietKept ==
  ASSUME MatchInv, UNCHANGED <<lease, disk, acks>>
  PROVE  TermInv' /\ HistInv' /\ LogInv' /\ LeaderHas' /\ FitInv' /\ AckInv'
<1>0. /\ TermInv /\ HistInv /\ LogInv /\ LeaderHas /\ FitInv /\ AckInv
      /\ UNCHANGED <<lease, log, history, term, role, snap, acks>>
  BY DEF MatchInv, disk
<1>1. TermInv' /\ HistInv'
  BY <1>0 DEF TermInv, HistInv, H, Claimed
<1>2. LogInv'
  BY <1>0 DEF LogInv, SameFrameSamePast, HistorySound
<1>3. LeaderHas' /\ FitInv'
  BY <1>0 DEF LeaderHas, FitInv, H, Claimed
<1>4. AckInv'
  BY <1>0 DEF AckInv, Holds
<1>. QED  BY <1>1, <1>2, <1>3, <1>4

\* A record won by a node that holds the seq it names.
LEMMA LeaseTaken ==
  ASSUME MatchInv, NEW n \in Nodes, NEW k \in Nat, k > lease.term, lease.seq <= Len(log[n]),
         lease' = Holder(n, k), UNCHANGED <<disk, acks>>
  PROVE  TermInv' /\ HistInv' /\ LogInv' /\ LeaderHas' /\ FitInv' /\ AckInv'
<1>0. /\ TypeOK /\ TermInv /\ HistInv /\ LogInv /\ FitInv /\ AckInv
      /\ UNCHANGED <<log, history, term, role, snap, acks>>
  BY DEF MatchInv, disk
<1>1. lease'.holder = n /\ lease'.term = k /\ lease'.seq = Len(log[n])
  BY DEF Holder
<1>2. /\ lease.term \in Nat /\ lease.seq \in Nat
      /\ \A x \in Nodes : /\ Len(log[x]) \in Nat /\ term[x] \in Nat
                          /\ \A j \in DOMAIN history[x] : history[x][j].first \in Nat
  BY <1>0, Typed
<1>3. \A x \in Nodes : term[x] < k
  BY <1>0, <1>2 DEF TermInv
<1>4. TermInv'
  BY <1>0, <1>1, <1>2, <1>3 DEF TermInv, H
<1>5. HistInv' /\ LeaderHas'
  BY <1>0, <1>1, <1>2, <1>3 DEF HistInv, LeaderHas, Claimed, H
<1>6. LogInv'
  BY <1>0 DEF LogInv, SameFrameSamePast, HistorySound
<1>7. AckInv'
  BY <1>0 DEF AckInv, Holds
<1>8. \A j \in DOMAIN history[n] : history[n][j].first <= Len(log[n]) + 1
  BY <1>0, <1>2 DEF FitInv
<1>9. \A x \in Nodes : \A j \in DOMAIN history[x] :
        history[x][j].first <= Len(log[x]) + 1 \/ (n # x /\ history[x][j].first <= Len(log[n]) + 1)
  BY <1>0, <1>2, <1>8 DEF FitInv
<1>10. FitInv'
  BY <1>0, <1>1, <1>2, <1>8, <1>9 DEF FitInv, H
<1>. QED  BY <1>4, <1>5, <1>6, <1>7, <1>10

-----------------------------------------------------------------------------
(* The steps of a process that leave the directories alone *)

Link(m) == [to |-> m, st |-> "linked"]

LEMMA QuietKeeps ==
  ASSUME MatchInv, TypeOK', ModeInv', UNCHANGED <<lease, disk, acks>>,
         \A x, y \in Nodes : fol'[x] = Link(y) =>
             fol[x] = Link(y) /\ mode'[x] = mode[x] /\ mode'[y] \in {mode[y], "down"},
         \A x \in Nodes : snap[x] # NoSnap => mode'[x] = "down"
  PROVE  MatchInv'
<1>0. LinkInv /\ SnapInv /\ UNCHANGED <<lease, log, history, term, role, snap, acks>>
  BY DEF MatchInv, disk
<1>1. TermInv' /\ HistInv' /\ LogInv' /\ LeaderHas' /\ FitInv' /\ AckInv'
  BY QuietKept
<1>2. LinkInv'
  <2>1. SUFFICES ASSUME NEW x \in Nodes, NEW y \in Nodes, fol'[x] = Link(y)
                 PROVE  /\ x # y /\ mode'[x] \in {"standby", "won"} /\ mode'[y] \in {"lead", "down"} /\ snap[y] = NoSnap
                        /\ term[x] = term[y] /\ history[x] = history[y] /\ Prefix(log[x], log[y])
                        /\ (H = y /\ term[y] = lease.term) \/ (H = x /\ mode'[x] = "won")
    BY <1>0 DEF LinkInv, Link, H
  <2>2. fol[x] = Link(y) /\ mode'[x] = mode[x] /\ mode'[y] \in {mode[y], "down"}
    BY <2>1
  <2>. QED  BY <1>0, <2>2 DEF LinkInv, Link
<1>3. SnapInv'
  BY <1>0 DEF SnapInv, Claimed, H, Holds
<1>. QED  BY <1>1, <1>2, <1>3 DEF MatchInv

LEMMA StartKeeps == ASSUME MatchInv, TypeOK', NEW n \in Nodes, Lead(n) \/ StandBy(n) PROVE MatchInv'
<1>0. /\ TypeOK /\ ModeInv /\ TermInv /\ LinkInv /\ SnapInv /\ mode[n] = "down" /\ snap[n] = NoSnap
      /\ UNCHANGED <<lease, log, history, term, role, snap, acks>> /\ fol' = Severed(n)
      /\ \/ /\ mode' = [mode EXCEPT ![n] = "lead"]
            /\ lease.holder = n /\ lease.term = term[n] /\ role[n] = "leader"
         \/ /\ mode' = [mode EXCEPT ![n] = "standby"]
            /\ lease # NoLease /\ (lease.holder = n => lease.term < term[n])
  BY DEF MatchInv, disk, Lead, StandBy, Ready
<1>1. DOMAIN mode = Nodes /\ lease.holder \in Nodes \cup {None} /\ term[n] \in Nat /\ lease.term \in Nat
  BY <1>0, Typed
<1>2. ModeInv'
  <2>1. mode' = [mode EXCEPT ![n] = "standby"] /\ mode' # [mode EXCEPT ![n] = "lead"] => H \in Nodes /\ H # n
    BY <1>0, <1>1 DEF ModeInv, TermInv, H
  <2>. QED  BY <1>0, <1>1, <2>1 DEF ModeInv, H
<1>3. ASSUME NEW x \in Nodes, NEW y \in Nodes, fol'[x] = Link(y)
      PROVE  fol[x] = Link(y) /\ mode'[x] = mode[x] /\ mode'[y] \in {mode[y], "down"}
  <2>1. fol'[x].st = "linked" /\ fol'[x].to = y
    BY <1>3 DEF Link
  <2>2. fol[x] = Link(y) /\ y # n
    BY <1>0, <1>3, <2>1, SeveredIs
  <2>3. mode[x] # "down"
    BY <1>0, <2>2 DEF LinkInv, Link
  <2>. QED  BY <1>0, <1>1, <2>2, <2>3
<1>4. \A x \in Nodes : snap[x] # NoSnap => mode'[x] = "down"
  BY <1>0, <1>1 DEF SnapInv
<1>. QED  BY <1>0, <1>2, <1>3, <1>4, QuietKeeps DEF disk

LEMMA StopKeeps ==
  ASSUME MatchInv, TypeOK', NEW n \in Nodes, Crash(n) \/ Reexec(n) \/ Poll(n) \/ LinkDown(n)
  PROVE  MatchInv'
<1>0. /\ TypeOK /\ ModeInv /\ LinkInv /\ SnapInv
      /\ UNCHANGED <<lease, log, history, term, role, snap, acks>>
      /\ mode' = mode \/ mode' = [mode EXCEPT ![n] = "down"]
      /\ fol'[n].st # "linked" /\ \A x \in Nodes \ {n} : fol'[x] = fol[x]
  <2>1. TypeOK /\ ModeInv /\ LinkInv /\ SnapInv /\ fol \in [Nodes -> [to : Nodes \cup {None}, st : {"idle", "linked", "dead"}]]
    BY DEF MatchInv, TypeOK
  <2>2. CASE Crash(n)
    BY <2>1, <2>2 DEF Crash, Idle, disk
  <2>3. CASE Reexec(n)
    BY <2>1, <2>3 DEF Reexec, Idle, disk
  <2>4. CASE Poll(n)
    BY <2>1, <2>4 DEF Poll, disk
  <2>5. CASE LinkDown(n)
    BY <2>1, <2>5 DEF LinkDown, disk
  <2>. QED  BY <2>2, <2>3, <2>4, <2>5
<1>1. DOMAIN mode = Nodes
  BY <1>0, Typed
<1>2. ModeInv'
  BY <1>0, <1>1 DEF ModeInv, H
<1>3. ASSUME NEW x \in Nodes, NEW y \in Nodes, fol'[x] = Link(y)
      PROVE  fol[x] = Link(y) /\ mode'[x] = mode[x] /\ mode'[y] \in {mode[y], "down"}
  <2>1. fol'[x].st = "linked"
    BY <1>3 DEF Link
  <2>2. x # n /\ fol'[x] = fol[x]
    BY <1>0, <2>1
  <2>. QED  BY <1>0, <1>1, <1>3, <2>2
<1>4. \A x \in Nodes : snap[x] # NoSnap => mode'[x] = "down"
  BY <1>0, <1>1 DEF SnapInv
<1>. QED  BY <1>0, <1>2, <1>3, <1>4, QuietKeeps DEF disk

-----------------------------------------------------------------------------
(* The record *)

LEMMA WinFirstKeeps == ASSUME MatchInv, TypeOK', NEW n \in Nodes, WinFirst(n) PROVE MatchInv'
<1>0. /\ TypeOK /\ ModeInv /\ TermInv /\ LinkInv /\ SnapInv /\ lease = NoLease
      /\ lease' = Holder(n, term[n] + 1) /\ UNCHANGED <<disk, mode, fol, acks>>
  BY DEF MatchInv, WinFirst
<1>1. /\ None \notin Nodes /\ H = None /\ lease.term = 0 /\ lease.seq = 0
      /\ \A x \in Nodes : term[x] = 0 /\ Len(log[x]) \in Nat
  BY <1>0, Typed DEF NoLease, H, TermInv
<1>2. TermInv' /\ HistInv' /\ LogInv' /\ LeaderHas' /\ FitInv' /\ AckInv'
  <2>1. term[n] + 1 \in Nat /\ term[n] + 1 > lease.term /\ lease.seq <= Len(log[n])
    BY <1>1
  <2>. QED  BY <1>0, <2>1, LeaseTaken
<1>3. lease'.holder = n /\ lease'.term = 1 /\ lease'.seq = Len(log[n])
  BY <1>0, <1>1 DEF Holder
<1>4. UNCHANGED <<log, history, term, role, snap, mode, fol, acks>>
  BY <1>0 DEF disk
<1>5. ModeInv'
  BY <1>0, <1>1, <1>3, <1>4 DEF ModeInv, H
<1>6. LinkInv' /\ SnapInv'
  <2>1. \A x, y \in Nodes : fol[x] # [to |-> y, st |-> "linked"]
    BY <1>0, <1>1 DEF LinkInv
  <2>2. \A x \in Nodes : snap[x] = NoSnap
    BY <1>0, <1>1 DEF SnapInv, Claimed
  <2>. QED  BY <1>4, <2>1, <2>2 DEF LinkInv, SnapInv
<1>. QED  BY <1>2, <1>5, <1>6 DEF MatchInv

LEMMA TakeOverKeeps == ASSUME TwoNodes, MatchInv, TypeOK', NEW n \in Nodes, TakeOver(n) PROVE MatchInv'
<1>0. /\ TypeOK /\ ModeInv /\ TermInv /\ LinkInv /\ SnapInv /\ mode[n] = "standby"
      /\ lease.holder # n => mode[lease.holder] # "lead"
      /\ lease' = Holder(n, NextTerm(n)) /\ Eligible(n)
      /\ mode' = [mode EXCEPT ![n] = "won"] /\ UNCHANGED <<disk, fol, acks>>
  BY DEF MatchInv, TakeOver
<1>1. /\ H \in Nodes /\ H # n /\ DOMAIN mode = Nodes /\ None \notin Nodes
      /\ lease.term \in Nat /\ term[n] \in Nat /\ term[n] <= lease.term /\ NextTerm(n) = lease.term + 1
      /\ \A x \in Nodes : term[x] \in Nat /\ term[x] <= lease.term /\ Len(log[x]) \in Nat
  BY <1>0, Typed DEF H, ModeInv, TermInv, NextTerm
<1>2. TermInv' /\ HistInv' /\ LogInv' /\ LeaderHas' /\ FitInv' /\ AckInv'
  <2>1. NextTerm(n) \in Nat /\ NextTerm(n) > lease.term /\ lease.seq <= Len(log[n])
    BY <1>0, <1>1, Typed DEF Eligible
  <2>. QED  BY <1>0, <2>1, LeaseTaken
<1>3. lease'.holder = n /\ lease'.term = lease.term + 1 /\ lease'.seq = Len(log[n])
  BY <1>0, <1>1 DEF Holder
<1>4. UNCHANGED <<log, history, term, role, snap, fol, acks>>
  BY <1>0 DEF disk
<1>5. ModeInv'
  <2>1. \A x \in Nodes : mode[x] # "lead"
    BY <1>0, <1>1 DEF ModeInv, H
  <2>. QED  BY <1>0, <1>1, <1>3, <1>4, <2>1 DEF ModeInv, H
<1>6. LinkInv'
  <2>1. SUFFICES ASSUME NEW x \in Nodes, NEW y \in Nodes, fol[x] = [to |-> y, st |-> "linked"]
                 PROVE  /\ x # y /\ mode'[x] \in {"standby", "won"} /\ mode'[y] \in {"lead", "down"} /\ snap[y] = NoSnap
                        /\ term[x] = term[y] /\ history[x] = history[y] /\ Prefix(log[x], log[y])
                        /\ n = x /\ mode'[x] = "won"
    BY <1>3, <1>4 DEF LinkInv, H
  <2>2. /\ x # y /\ mode[y] \in {"lead", "down"} /\ snap[y] = NoSnap
        /\ term[x] = term[y] /\ history[x] = history[y] /\ Prefix(log[x], log[y])
    BY <1>0, <2>1 DEF LinkInv
  <2>3. y # n /\ x = n
    BY <1>0, <2>2 DEF TwoNodes
  <2>. QED  BY <1>0, <1>1, <2>2, <2>3
<1>7. SnapInv'
  <2>1. \A x \in Nodes : snap[x] = NoSnap
    BY <1>0, <1>1 DEF SnapInv, TwoNodes
  <2>. QED  BY <1>4, <2>1 DEF SnapInv
<1>. QED  BY <1>2, <1>5, <1>6, <1>7 DEF MatchInv

LEMMA RenewKeeps == ASSUME MatchInv, TypeOK', NEW n \in Nodes, Renew(n) PROVE MatchInv'
<1>0. /\ TypeOK /\ ModeInv /\ TermInv /\ HistInv /\ LogInv /\ LeaderHas /\ FitInv /\ LinkInv /\ SnapInv /\ AckInv
      /\ H = n /\ mode[n] = "lead" /\ term[n] = lease.term
      /\ UNCHANGED <<log, history, term, role, snap, mode, fol, acks>>
  BY DEF MatchInv, Renew, disk, H, ModeInv
<1>1. lease'.holder = lease.holder /\ lease'.term = lease.term /\ lease'.seq = Len(log[n])
  BY <1>0 DEF Renew, TypeOK
<1>2. /\ lease.seq \in Nat /\ lease.term \in Nat /\ None \notin Nodes
      /\ \A x \in Nodes : /\ Len(log[x]) \in Nat
                          /\ \A j \in DOMAIN history[x] : history[x][j].first \in Nat
  BY <1>0, Typed
<1>3. ModeInv'
  BY <1>0, <1>1, <1>2 DEF ModeInv, H
<1>4. TermInv' /\ HistInv' /\ LeaderHas'
  BY <1>0, <1>1 DEF TermInv, HistInv, LeaderHas, Claimed, H
<1>5. LogInv' /\ AckInv'
  BY <1>0 DEF LogInv, SameFrameSamePast, HistorySound, AckInv, Holds
<1>6. FitInv'
  <2>1. lease.seq <= Len(log[n])
    BY <1>0 DEF ModeInv
  <2>2. \A x \in Nodes : \A j \in DOMAIN history[x] :
          history[x][j].first <= Len(log[x]) + 1 \/ (n # x /\ history[x][j].first <= Len(log[n]) + 1)
    BY <1>0, <1>2, <2>1 DEF FitInv
  <2>3. \A x \in Nodes \ {n} : \A j \in DOMAIN history[n] :
          history[n][j].first <= Len(log[x]) + 1 \/ history[n][j].first <= Len(log[n]) + 1
    BY <1>0, <1>2, <2>1 DEF FitInv
  <2>. QED  BY <1>0, <1>1, <1>2, <2>2, <2>3 DEF FitInv, H
<1>7. LinkInv' /\ SnapInv'
  BY <1>0, <1>1 DEF LinkInv, SnapInv, Claimed, H, Holds
<1>. QED  BY <1>3, <1>4, <1>5, <1>6, <1>7 DEF MatchInv

-----------------------------------------------------------------------------
(* The directories *)

\* A claim: the term is new, so are its entry and its frames.
LEMMA ClaimKeeps == ASSUME MatchInv, TypeOK', NEW n \in Nodes, Claim(n) PROVE MatchInv'
<1>0. /\ TypeOK /\ ModeInv /\ TermInv /\ HistInv /\ LogInv /\ FitInv /\ LinkInv /\ SnapInv /\ AckInv
      /\ H = n /\ mode[n] = "down" /\ snap[n] = NoSnap
      /\ UNCHANGED <<lease, log, snap, mode, fol, acks>>
      /\ history' = [history EXCEPT ![n] = ClaimedHistory(history[n], lease.term, Len(log[n]))]
      /\ term' = [term EXCEPT ![n] = lease.term] /\ role' = [role EXCEPT ![n] = "leader"]
  BY DEF MatchInv, Claim, Ready, H
<1>1. /\ None \notin Nodes /\ lease.term \in Nat /\ lease.seq \in Nat /\ DOMAIN term = Nodes /\ DOMAIN role = Nodes /\ DOMAIN history = Nodes
      /\ \A x \in Nodes :
           /\ Len(log[x]) \in Nat /\ DOMAIN log[x] = 1 .. Len(log[x]) /\ (\A i \in DOMAIN log[x] : log[x][i] \in Nat)
           /\ history[x] \in Seq(Pair) /\ Len(history[x]) \in Nat /\ DOMAIN history[x] = 1 .. Len(history[x])
           /\ \A j \in DOMAIN history[x] : history[x][j].term \in Nat /\ history[x][j].first \in Nat
           /\ term[x] \in Nat
  BY <1>0, Typed
<1>2. term[n] < lease.term
  BY <1>0, <1>1 DEF Claim, ModeInv, TermInv
<1>3. \A x \in Nodes : term[x] < lease.term /\ \A j \in DOMAIN history[x] : history[x][j].term < lease.term
  BY <1>0, <1>1, <1>2 DEF TermInv
<1>. DEFINE e == [term |-> lease.term, first |-> Len(log[n]) + 1]
            h == Append(history[n], e)
<1>4. ClaimedHistory(history[n], lease.term, Len(log[n])) = h
  <2>1. Growing(history[n])
    BY <1>0 DEF HistInv, Ordered, Growing
  <2>. QED  BY <1>1, <1>3, <2>1, ClaimedIs
<1>5. /\ h \in Seq(Pair) /\ Len(h) = Len(history[n]) + 1 /\ DOMAIN h = 1 .. Len(history[n]) + 1
      /\ h[Len(history[n]) + 1] = e /\ \A j \in DOMAIN history[n] : h[j] = history[n][j]
  <2>1. e \in Pair
    BY <1>1 DEF Pair
  <2>. QED  BY <1>1, <2>1
<1>6. e.term = lease.term /\ e.first = Len(log[n]) + 1
  OBVIOUS
<1>. HIDE DEF e, h
<1>7. \A x \in Nodes :
        /\ history'[x] = IF x = n THEN h ELSE history[x]
        /\ term'[x] = IF x = n THEN lease.term ELSE term[x]
        /\ role'[x] = IF x = n THEN "leader" ELSE role[x]
  BY <1>0, <1>1, <1>4
<1>8. ASSUME NEW j \in DOMAIN h
      PROVE  (j \in DOMAIN history[n] /\ h[j] = history[n][j]) \/ (j = Len(history[n]) + 1 /\ h[j] = e)
  <2>1. CASE j = Len(history[n]) + 1
    BY <1>5, <2>1
  <2>2. CASE j # Len(history[n]) + 1
    <3>1. j \in DOMAIN history[n]
      BY <1>1, <1>5, <2>2
    <3>. QED  BY <1>5, <3>1
  <2>. QED  BY <2>1, <2>2
<1>9. ModeInv'
  BY <1>0, <1>1, <1>7 DEF ModeInv, H
<1>10. TermInv'
  <2>1. ASSUME NEW j \in DOMAIN h PROVE h[j].term <= lease.term
    <3>1. \A i \in DOMAIN history[n] : history[n][i].term < lease.term /\ history[n][i].term \in Nat
      BY <1>1, <1>3
    <3>2. lease.term \in Nat
      BY <1>1
    <3>. QED  BY ONLY <1>6, <1>8, <2>1, <3>1, <3>2
  <2>. QED  BY <1>0, <1>1, <1>3, <1>7, <2>1 DEF TermInv, H
<1>11. \A j \in DOMAIN history[n] : history[n][j].first <= Len(log[n]) + 1
  BY <1>0 DEF FitInv
<1>12. HistInv'
  <2>1. Ordered(h)
    <3>1. Ordered(history[n])
      BY <1>0 DEF HistInv
    <3>2. Len(h) > 0 /\ h[1] = [term |-> 0, first |-> 1]
      BY <1>1, <1>5, <3>1 DEF Ordered
    <3>3. ASSUME NEW i \in DOMAIN h, NEW j \in DOMAIN h, i < j PROVE h[i].term < h[j].term /\ h[i].first <= h[j].first
      <4>1. i \in DOMAIN history[n] /\ h[i] = history[n][i]
        BY <1>1, <1>5, <1>8, <3>3
      <4>2. CASE j \in DOMAIN history[n] /\ h[j] = history[n][j]
        BY <3>1, <3>3, <4>1, <4>2 DEF Ordered
      <4>3. CASE h[j] = e
        BY <1>3, <1>6, <1>11, <4>1, <4>3
      <4>. QED  BY <1>8, <4>2, <4>3
    <3>. QED  BY <3>2, <3>3 DEF Ordered
  <2>2. ASSUME NEW x \in Nodes, NEW y \in Nodes, NEW i \in DOMAIN history'[x], NEW j \in DOMAIN history'[y],
               history'[x][i].term = history'[y][j].term
        PROVE  history'[x][i].first = history'[y][j].first
    <3>1. (i \in DOMAIN history[x] /\ history'[x][i] = history[x][i]) \/ (x = n /\ history'[x][i] = e)
      BY <1>7, <1>8
    <3>2. (j \in DOMAIN history[y] /\ history'[y][j] = history[y][j]) \/ (y = n /\ history'[y][j] = e)
      BY <1>7, <1>8
    <3>3. CASE i \in DOMAIN history[x] /\ history'[x][i] = history[x][i] /\ j \in DOMAIN history[y] /\ history'[y][j] = history[y][j]
      BY <1>0, <2>2, <3>3 DEF HistInv
    <3>4. CASE i \in DOMAIN history[x] /\ history'[x][i] = history[x][i] /\ history'[y][j] = e
      BY <1>1, <1>3, <1>6, <2>2, <3>4
    <3>5. CASE j \in DOMAIN history[y] /\ history'[y][j] = history[y][j] /\ history'[x][i] = e
      BY <1>1, <1>3, <1>6, <2>2, <3>5
    <3>. QED  BY <3>1, <3>2, <3>3, <3>4, <3>5
  <2>3. Claimed' => history'[H'][Len(history'[H'])].term = lease'.term
    BY <1>0, <1>5, <1>6, <1>7 DEF Claimed, H
  <2>. QED  BY <1>0, <1>7, <2>1, <2>2, <2>3 DEF HistInv
<1>13. LogInv'
  <2>1. SameFrameSamePast'
    BY <1>0 DEF LogInv, SameFrameSamePast
  <2>2. ASSUME NEW i \in DOMAIN log[n] PROVE TermAt(h, i) = log[n][i]
    <3>1. i \in Nat /\ i > 0 /\ i <= Len(log[n]) /\ TermAt(history[n], i) = log[n][i] /\ Ordered(history[n])
      BY <1>0, <1>1 DEF LogInv, HistorySound, HistInv
    <3>2. PICK j \in DOMAIN history[n] :
             /\ history[n][j].first <= i /\ TermAt(history[n], i) = history[n][j].term
             /\ \A k \in DOMAIN history[n] : k > j => ~ (history[n][k].first <= i)
      <4>1. history[n] \in Seq(Pair)
        BY <1>1
      <4>. QED  BY ONLY <3>1, <4>1, TermAtIs
    <3>3. j \in DOMAIN h /\ h[j] = history[n][j]
      BY <1>1, <1>5
    <3>4. ASSUME NEW k \in DOMAIN h, k > j PROVE ~ (h[k].first <= i)
      BY <1>1, <1>6, <1>8, <3>1, <3>2, <3>4
    <3>5. TermAt(h, i) = h[j].term
      BY <1>5, <3>1, <3>2, <3>3, <3>4, TermAtUnique
    <3>. QED  BY <3>1, <3>2, <3>3, <3>5
  <2>3. HistorySound'
    BY <1>0, <1>7, <2>2 DEF LogInv, HistorySound
  <2>. QED  BY <2>1, <2>3 DEF LogInv
<1>14. LeaderHas'
  <2>1. \A x \in Nodes : \A i \in DOMAIN log[x] : log[x][i] # lease.term
    BY <1>1, <1>3, LogTerms
  <2>. QED  BY <1>0, <2>1 DEF LeaderHas, Claimed, H
<1>15. FitInv'
  <2>1. \A j \in DOMAIN h : h[j].first <= Len(log[n]) + 1
    BY <1>1, <1>6, <1>8, <1>11
  <2>2. ASSUME NEW x \in Nodes \ {n}, NEW j \in DOMAIN h
        PROVE  h[j].first <= Len(log[x]) + 1 \/ h[j].first <= lease.seq + 1
    <3>1. Len(log[n]) <= Len(log[x]) \/ Len(log[n]) <= lease.seq
      BY <1>0, <1>2 DEF FitInv
    <3>2. CASE h[j] = e
      BY <1>1, <1>6, <3>1, <3>2
    <3>3. CASE j \in DOMAIN history[n] /\ h[j] = history[n][j]
      BY <1>0, <3>3 DEF FitInv
    <3>. QED  BY <1>8, <3>2, <3>3
  <2>. QED  BY <1>0, <1>1, <1>7, <2>1, <2>2 DEF FitInv, H
<1>16. LinkInv'
  <2>1. ASSUME NEW x \in Nodes, NEW y \in Nodes, fol[x] = [to |-> y, st |-> "linked"] PROVE FALSE
    <3>1. mode[x] \in {"standby", "won"} /\ ((H = y /\ term[y] = lease.term) \/ H = x)
      BY <1>0, <2>1 DEF LinkInv
    <3>. QED  BY <1>0, <1>1, <1>2, <3>1
  <2>. QED  BY <1>0, <2>1 DEF LinkInv
<1>17. SnapInv'
  <2>1. \A x \in Nodes : snap[x] = NoSnap
    BY <1>0, <1>1, <1>2 DEF SnapInv, Claimed
  <2>. QED  BY <1>0, <2>1 DEF SnapInv
<1>18. AckInv'
  BY <1>0 DEF AckInv, Holds
<1>. QED  BY <1>9, <1>10, <1>12, <1>13, <1>14, <1>15, <1>16, <1>17, <1>18 DEF MatchInv

\* A write of the leader: nobody else has a frame of its term that it has not.
LEMMA WriteKeeps == ASSUME MatchInv, TypeOK', NEW n \in Nodes, Write(n) PROVE MatchInv'
<1>0. /\ TypeOK /\ ModeInv /\ TermInv /\ HistInv /\ LogInv /\ LeaderHas /\ FitInv /\ LinkInv /\ SnapInv /\ AckInv
      /\ H = n /\ mode[n] = "lead" /\ term[n] = lease.term
      /\ UNCHANGED <<lease, history, term, role, snap, mode, fol, acks>>
      /\ log' = [log EXCEPT ![n] = Append(log[n], lease.term)]
  BY DEF MatchInv, Write, H, ModeInv
<1>1. /\ None \notin Nodes /\ lease.term \in Nat /\ lease.seq \in Nat /\ DOMAIN log = Nodes
      /\ \A x \in Nodes :
           /\ log[x] \in Seq(Nat) /\ Len(log[x]) \in Nat /\ DOMAIN log[x] = 1 .. Len(log[x])
           /\ snap[x].log \in Seq(Nat) /\ Len(snap[x].log) \in Nat /\ DOMAIN snap[x].log = 1 .. Len(snap[x].log)
           /\ history[x] \in Seq(Pair) /\ Len(history[x]) \in Nat /\ DOMAIN history[x] = 1 .. Len(history[x])
           /\ \A j \in DOMAIN history[x] : history[x][j].first \in Nat
  BY <1>0, Typed
<1>. DEFINE l == Append(log[n], lease.term)
<1>2. /\ l \in Seq(Nat) /\ Len(l) = Len(log[n]) + 1 /\ DOMAIN l = 1 .. Len(log[n]) + 1
      /\ l[Len(log[n]) + 1] = lease.term /\ \A i \in DOMAIN log[n] : i \in DOMAIN l /\ l[i] = log[n][i]
  BY <1>1
<1>3. \A x \in Nodes : log'[x] = IF x = n THEN l ELSE log[x]
  BY <1>0, <1>1
<1>. HIDE DEF l
<1>4. \A i \in DOMAIN l : i \in DOMAIN log[n] \/ i = Len(log[n]) + 1
  BY <1>1, <1>2
<1>5. \A s : Prefix(s, log[n]) /\ Len(s) \in Nat /\ DOMAIN s = 1 .. Len(s) => Prefix(s, l)
  <2>1. ASSUME NEW s, Prefix(s, log[n]), Len(s) \in Nat, DOMAIN s = 1 .. Len(s) PROVE Prefix(s, l)
    <3>1. Len(s) <= Len(l)
      BY <1>1, <1>2, <2>1 DEF Prefix
    <3>2. \A i \in DOMAIN s : i \in DOMAIN log[n] /\ s[i] = log[n][i]
      BY <1>1, <2>1 DEF Prefix
    <3>. QED  BY <1>2, <3>1, <3>2 DEF Prefix
  <2>. QED  BY <2>1
<1>6. ModeInv'
  BY <1>0, <1>1, <1>2, <1>3 DEF ModeInv, H
<1>7. TermInv' /\ HistInv'
  BY <1>0 DEF TermInv, HistInv, H, Claimed
<1>8. ASSUME NEW x \in Nodes, x # n, NEW i \in DOMAIN log[x], log[x][i] = lease.term
      PROVE  i \in DOMAIN log[n] /\ log[n][i] = lease.term
  BY <1>0, <1>8 DEF LeaderHas, Claimed
<1>9. SameFrameSamePast'
  <2>1. \A x, y \in Nodes : \A i \in DOMAIN log[x] \cap DOMAIN log[y] :
          log[x][i] = log[y][i] => \A j \in 1 .. i : log[x][j] = log[y][j]
    BY <1>0 DEF LogInv, SameFrameSamePast
  <2>2. ASSUME NEW x \in Nodes, x # n, NEW i \in DOMAIN l \cap DOMAIN log[x], l[i] = log[x][i], NEW j \in 1 .. i
        PROVE  l[j] = log[x][j]
    <3>1. i \in DOMAIN log[n]
      <4>1. CASE i = Len(log[n]) + 1
        BY <1>2, <1>8, <2>2, <4>1
      <4>. QED  BY <1>4, <4>1
    <3>2. j \in DOMAIN log[n]
      BY <1>1, <3>1
    <3>. QED  BY <1>2, <2>1, <2>2, <3>1, <3>2
  <2>3. SUFFICES ASSUME NEW x \in Nodes, NEW y \in Nodes, NEW i \in DOMAIN log'[x] \cap DOMAIN log'[y],
                        log'[x][i] = log'[y][i], NEW j \in 1 .. i
                 PROVE  log'[x][j] = log'[y][j]
    BY DEF SameFrameSamePast
  <2>4. CASE x = n /\ y # n
    BY <1>3, <2>2, <2>3, <2>4
  <2>5. CASE x # n /\ y = n
    BY <1>3, <2>2, <2>3, <2>5
  <2>6. CASE x # n /\ y # n
    BY <1>3, <2>1, <2>3, <2>6
  <2>. QED  BY <2>4, <2>5, <2>6
<1>10. HistorySound'
  <2>1. PICK k \in Nat : k = Len(history[n])
    BY <1>1
  <2>2. Ordered(history[n]) /\ k \in DOMAIN history[n] /\ history[n][k].term = lease.term
    BY <1>0, <1>1, <2>1 DEF HistInv, Ordered, Claimed
  <2>3. history[n][k].first <= Len(log[n]) + 1
    BY <1>0, <2>2 DEF FitInv
  <2>4. TermAt(history[n], Len(log[n]) + 1) = lease.term
    <3>1. PICK i \in Nat : i = Len(log[n]) + 1
      BY <1>1
    <3>2. \A j \in DOMAIN history[n] : j > k => ~ (history[n][j].first <= i)
      BY <1>1, <2>1
    <3>3. TermAt(history[n], i) = history[n][k].term
      BY <1>1, <2>2, <2>3, <3>1, <3>2, TermAtUnique
    <3>. QED  BY <2>2, <3>1, <3>3
  <2>5. ASSUME NEW i \in DOMAIN l PROVE TermAt(history[n], i) = l[i]
    <3>1. CASE i \in DOMAIN log[n]
      BY <1>0, <1>2, <3>1 DEF LogInv, HistorySound
    <3>2. CASE i = Len(log[n]) + 1
      BY <1>2, <2>4, <3>2
    <3>. QED  BY <1>4, <3>1, <3>2
  <2>6. SUFFICES ASSUME NEW x \in Nodes, NEW i \in DOMAIN log'[x] PROVE TermAt(history[x], i) = log'[x][i]
    BY <1>0 DEF HistorySound
  <2>7. CASE x = n
    BY <1>3, <2>5, <2>6, <2>7
  <2>8. CASE x # n
    BY <1>0, <1>3, <2>6, <2>8 DEF LogInv, HistorySound
  <2>. QED  BY <2>7, <2>8
<1>11. LeaderHas'
  <2>1. ASSUME NEW x \in Nodes, NEW i \in DOMAIN log'[x], log'[x][i] = lease.term
        PROVE  i \in DOMAIN l /\ l[i] = lease.term
    <3>1. CASE x = n
      BY <1>3, <2>1, <3>1
    <3>2. CASE x # n
      BY <1>2, <1>3, <1>8, <2>1, <3>2
    <3>. QED  BY <3>1, <3>2
  <2>2. H' = n /\ log'[n] = l /\ lease' = lease
    BY <1>0, <1>3 DEF H
  <2>. QED  BY <2>1, <2>2 DEF LeaderHas
<1>12. FitInv'
  <2>1. \A x \in Nodes : Len(log'[x]) \in Nat /\ Len(log[x]) <= Len(log'[x])
    <3>1. Len(l) \in Nat /\ Len(log[n]) <= Len(l)
      BY <1>1, <1>2
    <3>2. \A x \in Nodes : Len(log[x]) \in Nat /\ Len(log[x]) <= Len(log[x])
      BY <1>1
    <3>. QED  BY <1>3, <3>1, <3>2
  <2>2. \A x \in Nodes : \A j \in DOMAIN history[x] :
          history[x][j].first <= Len(log'[x]) + 1 \/ (H # x /\ history[x][j].first <= lease.seq + 1)
    <3>1. ASSUME NEW x \in Nodes, NEW j \in DOMAIN history[x]
          PROVE  history[x][j].first <= Len(log'[x]) + 1 \/ (H # x /\ history[x][j].first <= lease.seq + 1)
      <4>1. history[x][j].first <= Len(log[x]) + 1 \/ (H # x /\ history[x][j].first <= lease.seq + 1)
        BY <1>0 DEF FitInv
      <4>2. history[x][j].first \in Nat /\ Len(log[x]) \in Nat /\ Len(log'[x]) \in Nat /\ Len(log[x]) <= Len(log'[x])
        BY <1>1, <2>1
      <4>. QED  BY ONLY <4>1, <4>2
    <3>. QED  BY <3>1
  <2>3. \A x \in Nodes \ {n} : \A j \in DOMAIN history[n] :
          history[n][j].first <= Len(log'[x]) + 1 \/ history[n][j].first <= lease.seq + 1
    BY <1>0, <1>1, <2>1 DEF FitInv
  <2>. QED  BY <1>0, <1>1, <2>2, <2>3 DEF FitInv, H
<1>13. LinkInv'
  <2>1. SUFFICES ASSUME NEW x \in Nodes, NEW y \in Nodes, fol[x] = [to |-> y, st |-> "linked"]
                 PROVE  /\ x # y /\ mode[x] \in {"standby", "won"} /\ mode[y] \in {"lead", "down"} /\ snap[y] = NoSnap
                        /\ term[x] = term[y] /\ history[x] = history[y] /\ Prefix(log'[x], log'[y])
                        /\ (H = y /\ term[y] = lease.term) \/ (H = x /\ mode[x] = "won")
    BY <1>0 DEF LinkInv, H
  <2>2. /\ x # y /\ mode[x] \in {"standby", "won"} /\ mode[y] \in {"lead", "down"} /\ snap[y] = NoSnap
        /\ term[x] = term[y] /\ history[x] = history[y] /\ Prefix(log[x], log[y])
        /\ (H = y /\ term[y] = lease.term) \/ (H = x /\ mode[x] = "won")
    BY <1>0, <2>1 DEF LinkInv
  <2>3. x # n /\ Prefix(log'[x], log'[y])
    BY <1>0, <1>1, <1>3, <1>5, <2>2
  <2>. QED  BY <2>2, <2>3
<1>14. SnapInv'
  <2>1. ASSUME NEW x \in Nodes, snap[x] # NoSnap PROVE Prefix(snap[x].log, l)
    <3>1. Prefix(snap[x].log, log[n])
      BY <1>0, <2>1 DEF SnapInv
    <3>. QED  BY <1>1, <1>5, <3>1
  <2>. QED  BY <1>0, <1>3, <2>1 DEF SnapInv, Claimed, H, Holds
<1>15. AckInv'
  BY <1>0, <1>2, <1>3 DEF AckInv, Holds
<1>. QED  BY <1>6, <1>7, <1>9, <1>10, <1>11, <1>12, <1>13, <1>14, <1>15 DEF MatchInv, LogInv

-----------------------------------------------------------------------------
(* The handshake, the snapshot and the stream *)

\* The holder's history at a node that holds a prefix of its log.
LEMMA AcceptedKeeps ==
  ASSUME TwoNodes, MatchInv, TypeOK', NEW n \in Nodes, NEW m \in Nodes, Accepted(n, m)
  PROVE  MatchInv'
<1>0. /\ TypeOK /\ ModeInv /\ TermInv /\ HistInv /\ LogInv /\ LeaderHas /\ FitInv /\ LinkInv /\ SnapInv /\ AckInv
      /\ mode[n] = "standby" /\ mode[m] \in {"lead", "fenced"} /\ fol[n] = [to |-> m, st |-> "idle"]
      /\ UNCHANGED <<lease, log, snap, mode, acks>>
      /\ history' = [history EXCEPT ![n] = history[m]] /\ term' = [term EXCEPT ![n] = term[m]]
      /\ role' = [role EXCEPT ![n] = "standby"] /\ fol' = [fol EXCEPT ![n].st = "linked"]
  BY DEF MatchInv, Accepted, Hello
<1>1. /\ None \notin Nodes /\ DOMAIN history = Nodes /\ DOMAIN term = Nodes /\ DOMAIN role = Nodes /\ DOMAIN fol = Nodes
      /\ lease.term \in Nat /\ \A x \in Nodes : term[x] \in Nat
  BY <1>0, Typed
<1>2. mode[m] = "lead" /\ H = m /\ term[m] = lease.term /\ n # m /\ snap[m] = NoSnap /\ snap[n] = NoSnap
  BY <1>0 DEF ModeInv
<1>3. \A x \in Nodes :
        /\ history'[x] = IF x = n THEN history[m] ELSE history[x]
        /\ term'[x] = IF x = n THEN term[m] ELSE term[x]
        /\ role'[x] = IF x = n THEN "standby" ELSE role[x]
        /\ x # n => fol'[x] = fol[x]
  BY <1>0, <1>1
<1>4. Prefix(log[n], log[m])
  BY HandshakeSound DEF Accepted
<1>5. ModeInv'
  BY <1>0, <1>2, <1>3 DEF ModeInv, H
<1>6. TermInv'
  BY <1>0, <1>1, <1>2, <1>3 DEF TermInv, H
<1>7. HistInv'
  BY <1>0, <1>2, <1>3 DEF HistInv, H, Claimed
<1>8. LogInv'
  <2>1. SameFrameSamePast'
    BY <1>0 DEF LogInv, SameFrameSamePast
  <2>2. \A i \in DOMAIN log[n] : i \in DOMAIN log[m] /\ log[n][i] = log[m][i]
    <3>1. /\ Len(log[n]) \in Nat /\ DOMAIN log[n] = 1 .. Len(log[n])
          /\ Len(log[m]) \in Nat /\ DOMAIN log[m] = 1 .. Len(log[m])
      BY <1>0, Typed
    <3>. QED  BY <1>4, <3>1 DEF Prefix
  <2>3. SUFFICES ASSUME NEW x \in Nodes, NEW i \in DOMAIN log[x] PROVE TermAt(history'[x], i) = log[x][i]
    BY <1>0, <2>1 DEF LogInv, HistorySound
  <2>4. CASE x = n
    BY <1>0, <1>3, <2>2, <2>3, <2>4 DEF LogInv, HistorySound
  <2>5. CASE x # n
    BY <1>0, <1>3, <2>3, <2>5 DEF LogInv, HistorySound
  <2>. QED  BY <2>4, <2>5
<1>9. LeaderHas'
  BY <1>0, <1>2, <1>3 DEF LeaderHas, H, Claimed
<1>10. FitInv'
  <2>1. \A j \in DOMAIN history[m] : history[m][j].first <= Len(log[n]) + 1 \/ history[m][j].first <= lease.seq + 1
    BY <1>0, <1>2 DEF FitInv
  <2>. QED  BY <1>0, <1>2, <1>3, <2>1 DEF FitInv, H
<1>11. LinkInv'
  <2>1. SUFFICES ASSUME NEW x \in Nodes, NEW y \in Nodes, fol'[x] = [to |-> y, st |-> "linked"]
                 PROVE  /\ x # y /\ mode[x] \in {"standby", "won"} /\ mode[y] \in {"lead", "down"} /\ snap[y] = NoSnap
                        /\ term'[x] = term'[y] /\ history'[x] = history'[y] /\ Prefix(log[x], log[y])
                        /\ (H = y /\ term'[y] = lease.term) \/ (H = x /\ mode[x] = "won")
    BY <1>0 DEF LinkInv, H
  <2>2. CASE x = n
    <3>1. fol'[n].to = fol[n].to
      BY <1>0, <1>1
    <3>2. y = m
      BY <1>0, <2>1, <2>2, <3>1
    <3>. QED  BY <1>0, <1>2, <1>3, <1>4, <2>2, <3>2
  <2>3. CASE x # n
    <3>1. fol[x] = [to |-> y, st |-> "linked"]
      BY <1>3, <2>1, <2>3
    <3>2. x # y /\ mode[y] # "standby"
      BY <1>0, <3>1 DEF LinkInv
    <3>3. FALSE
      BY <1>0, <2>3, <3>2 DEF TwoNodes
    <3>. QED  BY <3>3
  <2>. QED  BY <2>2, <2>3
<1>12. SnapInv'
  <2>1. \A x \in Nodes : snap[x] = NoSnap
    BY <1>2 DEF TwoNodes
  <2>. QED  BY <1>0, <2>1 DEF SnapInv
<1>13. AckInv'
  BY <1>0 DEF AckInv, Holds
<1>. QED  BY <1>5, <1>6, <1>7, <1>8, <1>9, <1>10, <1>11, <1>12, <1>13 DEF MatchInv

LEMMA SnapshotKeeps ==
  ASSUME MatchInv, TypeOK', NEW n \in Nodes, NEW m \in Nodes, mode[n] = "standby",
         mode[m] \in {"lead", "fenced"}, Snapshot(n, m)
  PROVE  MatchInv'
<1>0. /\ TypeOK /\ ModeInv /\ TermInv /\ HistInv /\ LogInv /\ LeaderHas /\ FitInv /\ LinkInv /\ SnapInv /\ AckInv
      /\ UNCHANGED <<lease, log, history, term, role, acks>>
      /\ snap' = [snap EXCEPT ![n] = [log |-> log[m], history |-> history[m], term |-> term[m]]]
      /\ mode' = [mode EXCEPT ![n] = "down"] /\ fol' = [fol EXCEPT ![n] = Idle]
  BY DEF MatchInv, Snapshot
<1>1. DOMAIN snap = Nodes /\ DOMAIN mode = Nodes /\ DOMAIN fol = Nodes /\ None \notin Nodes /\ Len(log[m]) \in Nat
  BY <1>0, Typed
<1>2. H = m /\ term[m] = lease.term /\ n # m
  BY <1>0 DEF ModeInv
<1>3. /\ snap'[n].log = log[m] /\ snap'[n].history = history[m] /\ snap'[n].term = term[m]
      /\ mode'[n] = "down" /\ fol'[n].st # "linked"
      /\ \A x \in Nodes \ {n} : snap'[x] = snap[x] /\ mode'[x] = mode[x] /\ fol'[x] = fol[x]
  BY <1>0, <1>1 DEF Idle
<1>4. ModeInv'
  BY <1>0, <1>3 DEF ModeInv, H
<1>5. TermInv' /\ HistInv'
  BY <1>0 DEF TermInv, HistInv, H, Claimed
<1>6. LogInv'
  BY <1>0 DEF LogInv, SameFrameSamePast, HistorySound
<1>7. LeaderHas' /\ FitInv'
  BY <1>0 DEF LeaderHas, FitInv, H, Claimed
<1>8. AckInv'
  BY <1>0 DEF AckInv, Holds
<1>9. LinkInv'
  <2>1. SUFFICES ASSUME NEW x \in Nodes, NEW y \in Nodes, fol'[x] = [to |-> y, st |-> "linked"]
                 PROVE  /\ x # y /\ mode'[x] \in {"standby", "won"} /\ mode'[y] \in {"lead", "down"} /\ snap'[y] = NoSnap
                        /\ term[x] = term[y] /\ history[x] = history[y] /\ Prefix(log[x], log[y])
                        /\ (H = y /\ term[y] = lease.term) \/ (H = x /\ mode'[x] = "won")
    BY <1>0 DEF LinkInv, H
  <2>2. x # n /\ fol[x] = [to |-> y, st |-> "linked"]
    BY <1>3, <2>1
  <2>3. /\ x # y /\ mode[x] \in {"standby", "won"} /\ mode[y] \in {"lead", "down"} /\ snap[y] = NoSnap
        /\ term[x] = term[y] /\ history[x] = history[y] /\ Prefix(log[x], log[y])
        /\ (H = y /\ term[y] = lease.term) \/ (H = x /\ mode[x] = "won")
    BY <1>0, <2>2 DEF LinkInv
  <2>. QED  BY <1>3, <2>2, <2>3
<1>10. SnapInv'
  <2>1. Claimed' /\ H' = m
    BY <1>0, <1>2 DEF Claimed, H
  <2>2. Prefix(log[m], log[m]) /\ Fits(history[m], Len(log[m])) /\ Holds(log[m])
    BY <1>0, <1>1, <1>2 DEF Prefix, Fits, FitInv, AckInv
  <2>3. ASSUME NEW x \in Nodes, snap'[x] # NoSnap
        PROVE  /\ mode'[x] = "down" /\ m # x
               /\ snap'[x].term = term[m] /\ snap'[x].history = history[m] /\ Prefix(snap'[x].log, log[m])
               /\ Fits(snap'[x].history, Len(snap'[x].log)) /\ Holds(snap'[x].log)
    <3>1. CASE x = n
      BY <1>2, <1>3, <2>2, <3>1
    <3>2. CASE x # n
      BY <1>0, <1>2, <1>3, <2>3, <3>2 DEF SnapInv
    <3>. QED  BY <3>1, <3>2
  <2>. QED  BY <1>0, <2>1, <2>3 DEF SnapInv, Holds
<1>. QED  BY <1>4, <1>5, <1>6, <1>7, <1>8, <1>9, <1>10 DEF MatchInv

\* The snapshot takes the place of the directory.
LEMMA FinishKeeps == ASSUME MatchInv, TypeOK', NEW n \in Nodes, FinishRebootstrap(n) PROVE MatchInv'
<1>0. /\ TypeOK /\ ModeInv /\ TermInv /\ HistInv /\ LogInv /\ LeaderHas /\ FitInv /\ LinkInv /\ SnapInv /\ AckInv
      /\ mode[n] = "down" /\ snap[n] # NoSnap /\ UNCHANGED <<lease, mode, acks>>
      /\ log' = [log EXCEPT ![n] = snap[n].log] /\ history' = [history EXCEPT ![n] = snap[n].history]
      /\ term' = [term EXCEPT ![n] = snap[n].term] /\ role' = [role EXCEPT ![n] = "standby"]
      /\ snap' = [snap EXCEPT ![n] = NoSnap] /\ fol' = Severed(n)
  BY DEF MatchInv, FinishRebootstrap
<1>1. /\ None \notin Nodes /\ DOMAIN log = Nodes /\ DOMAIN history = Nodes /\ DOMAIN term = Nodes
      /\ DOMAIN role = Nodes /\ DOMAIN snap = Nodes /\ lease.term \in Nat /\ lease.seq \in Nat
      /\ \A x \in Nodes :
           /\ Len(log[x]) \in Nat /\ DOMAIN log[x] = 1 .. Len(log[x]) /\ term[x] \in Nat
           /\ snap[x].log \in Seq(Nat) /\ Len(snap[x].log) \in Nat /\ DOMAIN snap[x].log = 1 .. Len(snap[x].log)
           /\ \A j \in DOMAIN history[x] : history[x][j].first \in Nat
  BY <1>0, Typed
<1>2. /\ H \in Nodes /\ term[H] = lease.term /\ H # n
      /\ snap[n].term = term[H] /\ snap[n].history = history[H] /\ Prefix(snap[n].log, log[H])
      /\ Fits(history[H], Len(snap[n].log)) /\ Holds(snap[n].log)
  BY <1>0 DEF SnapInv, Claimed
<1>3. \A x \in Nodes :
        /\ log'[x] = IF x = n THEN snap[n].log ELSE log[x]
        /\ history'[x] = IF x = n THEN history[H] ELSE history[x]
        /\ term'[x] = IF x = n THEN term[H] ELSE term[x]
        /\ role'[x] = IF x = n THEN "standby" ELSE role[x]
        /\ snap'[x] = IF x = n THEN NoSnap ELSE snap[x]
  BY <1>0, <1>1, <1>2
<1>4. H' = H /\ Claimed /\ Claimed'
  BY <1>0, <1>2, <1>3 DEF H, Claimed
<1>5. \A i \in DOMAIN snap[n].log : i \in DOMAIN log[H] /\ snap[n].log[i] = log[H][i]
  BY <1>1, <1>2 DEF Prefix
<1>6. ModeInv'
  BY <1>0, <1>2, <1>3, <1>4 DEF ModeInv, H
<1>7. TermInv'
  BY <1>0, <1>1, <1>2, <1>3, <1>4 DEF TermInv
<1>8. HistInv'
  BY <1>0, <1>2, <1>3, <1>4 DEF HistInv
<1>9. LogInv'
  <2>1. SameFrameSamePast' /\ \A i \in DOMAIN snap[n].log : TermAt(history[H], i) = snap[n].log[i]
    <3>1. PICK l \in Seq(Nat) : l = snap[n].log
      BY <1>1
    <3>2. PICK m \in Nodes : m = H
      BY <1>2
    <3>3. Prefix(l, log[m]) /\ log' = [log EXCEPT ![n] = l]
      BY <1>0, <1>2, <3>1, <3>2
    <3>4. SameFrameSamePast' /\ \A i \in DOMAIN l : TermAt(history[m], i) = l[i]
      BY <1>0, <3>3, PrefixMatches
    <3>. QED  BY <3>1, <3>2, <3>4
  <2>2. SUFFICES ASSUME NEW x \in Nodes, NEW i \in DOMAIN log'[x] PROVE TermAt(history'[x], i) = log'[x][i]
    BY <2>1 DEF LogInv, HistorySound
  <2>3. CASE x = n
    BY <1>3, <2>1, <2>2, <2>3
  <2>4. CASE x # n
    BY <1>0, <1>3, <2>2, <2>4 DEF LogInv, HistorySound
  <2>. QED  BY <2>3, <2>4
<1>10. LeaderHas'
  <2>1. ASSUME NEW x \in Nodes, NEW i \in DOMAIN log'[x], log'[x][i] = lease.term
        PROVE  i \in DOMAIN log[H] /\ log[H][i] = lease.term
    <3>1. CASE x = n
      BY <1>3, <1>5, <2>1, <3>1
    <3>2. CASE x # n
      BY <1>0, <1>3, <1>4, <2>1, <3>2 DEF LeaderHas
    <3>. QED  BY <3>1, <3>2
  <2>2. log'[H'] = log[H] /\ lease' = lease
    BY <1>0, <1>2, <1>3, <1>4
  <2>. QED  BY <2>1, <2>2 DEF LeaderHas
<1>11. FitInv'
  <2>1. ASSUME NEW x \in Nodes, NEW j \in DOMAIN history'[x]
        PROVE  history'[x][j].first <= Len(log'[x]) + 1 \/ (H # x /\ history'[x][j].first <= lease.seq + 1)
    <3>1. CASE x = n
      BY <1>2, <1>3, <2>1, <3>1 DEF Fits
    <3>2. CASE x # n
      BY <1>0, <1>3, <2>1, <3>2 DEF FitInv
    <3>. QED  BY <3>1, <3>2
  <2>2. ASSUME NEW x \in Nodes \ {H}, NEW j \in DOMAIN history[H]
        PROVE  history[H][j].first <= Len(log'[x]) + 1 \/ history[H][j].first <= lease.seq + 1
    <3>1. CASE x = n
      BY <1>2, <1>3, <2>2, <3>1 DEF Fits
    <3>2. CASE x # n
      BY <1>0, <1>2, <1>3, <2>2, <3>2 DEF FitInv
    <3>. QED  BY <3>1, <3>2
  <2>3. history'[H'] = history[H] /\ term'[H'] = lease.term /\ lease' = lease
    BY <1>0, <1>2, <1>3, <1>4
  <2>. QED  BY <1>1, <1>4, <2>1, <2>2, <2>3 DEF FitInv
<1>12. LinkInv'
  <2>1. SUFFICES ASSUME NEW x \in Nodes, NEW y \in Nodes, fol'[x] = [to |-> y, st |-> "linked"]
                 PROVE  /\ x # y /\ mode[x] \in {"standby", "won"} /\ mode[y] \in {"lead", "down"} /\ snap'[y] = NoSnap
                        /\ term'[x] = term'[y] /\ history'[x] = history'[y] /\ Prefix(log'[x], log'[y])
                        /\ (H = y /\ term'[y] = lease.term) \/ (H = x /\ mode[x] = "won")
    BY <1>0, <1>4 DEF LinkInv
  <2>2. fol'[x].st = "linked" /\ fol'[x].to = y
    BY <2>1
  <2>3. fol[x] = [to |-> y, st |-> "linked"] /\ y # n
    BY <1>0, <2>1, <2>2, SeveredIs
  <2>4. /\ x # y /\ mode[x] \in {"standby", "won"} /\ mode[y] \in {"lead", "down"} /\ snap[y] = NoSnap
        /\ term[x] = term[y] /\ history[x] = history[y] /\ Prefix(log[x], log[y])
        /\ (H = y /\ term[y] = lease.term) \/ (H = x /\ mode[x] = "won")
    BY <1>0, <2>3 DEF LinkInv
  <2>5. x # n
    BY <1>0, <2>4
  <2>. QED  BY <1>3, <2>3, <2>4, <2>5
<1>13. SnapInv'
  <2>1. ASSUME NEW x \in Nodes, snap'[x] # NoSnap
        PROVE  /\ mode[x] = "down" /\ H # x /\ snap'[x] = snap[x]
               /\ snap[x].term = term[H] /\ snap[x].history = history[H] /\ Prefix(snap[x].log, log[H])
               /\ Fits(snap[x].history, Len(snap[x].log)) /\ Holds(snap[x].log)
    BY <1>0, <1>3, <2>1 DEF SnapInv
  <2>2. history'[H'] = history[H] /\ term'[H'] = term[H] /\ log'[H'] = log[H]
    BY <1>2, <1>3, <1>4
  <2>. QED  BY <1>0, <1>4, <2>1, <2>2 DEF SnapInv, Holds
<1>14. AckInv'
  BY <1>0, <1>2, <1>3 DEF AckInv, Holds
<1>. QED  BY <1>6, <1>7, <1>8, <1>9, <1>10, <1>11, <1>12, <1>13, <1>14 DEF MatchInv

\* A frame of the stream: the next one of the log it is a prefix of.
LEMMA ShipKeeps ==
  ASSUME TwoNodes, MatchInv, TypeOK', NEW n \in Nodes, NEW m \in Nodes, Ship(n, m)
  PROVE  MatchInv'
<1>0. /\ TypeOK /\ ModeInv /\ TermInv /\ HistInv /\ LogInv /\ LeaderHas /\ FitInv /\ LinkInv /\ SnapInv /\ AckInv
      /\ fol[n] = [to |-> m, st |-> "linked"] /\ Len(log[n]) < Len(log[m])
      /\ log' = [log EXCEPT ![n] = Append(log[n], log[m][Len(log[n]) + 1])]
      /\ acks' = acks \/ acks' = acks \cup Answered(m, Len(log'[n]))
      /\ UNCHANGED <<lease, history, term, role, snap, mode, fol>>
  BY DEF MatchInv, Ship
<1>1. /\ None \notin Nodes /\ DOMAIN log = Nodes /\ lease.term \in Nat /\ lease.seq \in Nat
      /\ \A x \in Nodes :
           /\ log[x] \in Seq(Nat) /\ Len(log[x]) \in Nat /\ DOMAIN log[x] = 1 .. Len(log[x]) /\ term[x] \in Nat
           /\ \A i \in DOMAIN log[x] : log[x][i] \in Nat
           /\ \A j \in DOMAIN history[x] : history[x][j].first \in Nat
  BY <1>0, Typed
<1>2. /\ n # m /\ mode[n] \in {"standby", "won"} /\ mode[m] \in {"lead", "down"} /\ snap[m] = NoSnap
      /\ term[n] = term[m] /\ history[n] = history[m] /\ Prefix(log[n], log[m])
      /\ (H = m /\ term[m] = lease.term) \/ (H = n /\ mode[n] = "won")
  BY <1>0 DEF LinkInv
<1>3. H = n => term[n] < lease.term
  BY <1>0, <1>2 DEF ModeInv
<1>4. \A x \in Nodes : x = n \/ x = m
  BY <1>2 DEF TwoNodes
<1>5. \A x \in Nodes : snap[x] = NoSnap
  <2>1. snap[n] = NoSnap
    BY <1>0, <1>2 DEF SnapInv
  <2>. QED  BY <1>2, <1>4, <2>1
<1>6. PICK l \in Seq(Nat) : l = Append(log[n], log[m][Len(log[n]) + 1])
  <2>1. Len(log[n]) + 1 \in DOMAIN log[m]
    BY <1>0, <1>1
  <2>2. log[m][Len(log[n]) + 1] \in Nat /\ log[n] \in Seq(Nat)
    BY <1>1, <2>1
  <2>3. Append(log[n], log[m][Len(log[n]) + 1]) \in Seq(Nat)
    BY ONLY <2>2
  <2>. QED  BY ONLY <2>3
<1>7. /\ Len(l) = Len(log[n]) + 1 /\ Len(l) \in Nat /\ DOMAIN l = 1 .. Len(l) /\ Len(l) <= Len(log[m])
      /\ \A i \in DOMAIN l : i \in DOMAIN log[m] /\ l[i] = log[m][i]
      /\ \A i \in DOMAIN log[n] : i \in DOMAIN l /\ l[i] = log[n][i]
  <2>1. Len(l) = Len(log[n]) + 1 /\ DOMAIN l = 1 .. Len(log[n]) + 1 /\ l[Len(log[n]) + 1] = log[m][Len(log[n]) + 1]
        /\ \A i \in 1 .. Len(log[n]) : l[i] = log[n][i]
    BY <1>1, <1>6
  <2>2. \A i \in 1 .. Len(log[n]) : log[n][i] = log[m][i]
    BY <1>1, <1>2 DEF Prefix
  <2>3. \A i \in DOMAIN l : i \in 1 .. Len(log[n]) \/ i = Len(log[n]) + 1
    BY <1>1, <2>1
  <2>4. \A i \in DOMAIN l : l[i] = log[m][i]
    BY <2>1, <2>2, <2>3
  <2>5. Len(l) \in Nat /\ DOMAIN l = 1 .. Len(l) /\ Len(l) <= Len(log[m])
    BY <1>0, <1>1, <2>1
  <2>6. DOMAIN l \subseteq DOMAIN log[m] /\ DOMAIN log[n] \subseteq DOMAIN l
    <3>1. /\ DOMAIN log[n] = 1 .. Len(log[n]) /\ Len(log[n]) \in Nat
          /\ DOMAIN log[m] = 1 .. Len(log[m]) /\ Len(log[m]) \in Nat
      BY <1>1
    <3>. QED  BY ONLY <2>1, <2>5, <3>1
  <2>7. \A i \in DOMAIN log[n] : l[i] = log[n][i]
    BY <1>1, <2>1
  <2>. QED  BY <2>1, <2>4, <2>5, <2>6, <2>7
<1>8. Prefix(l, log[m]) /\ log' = [log EXCEPT ![n] = l] /\ log'[n] = l /\ log'[m] = log[m]
  BY <1>0, <1>1, <1>2, <1>6, <1>7 DEF Prefix
<1>9. ModeInv'
  BY <1>0, <1>1, <1>2, <1>3, <1>4, <1>7, <1>8 DEF ModeInv, H
<1>10. TermInv' /\ HistInv'
  BY <1>0 DEF TermInv, HistInv, H, Claimed
<1>11. LogInv'
  <2>1. SameFrameSamePast' /\ \A i \in DOMAIN l : TermAt(history[m], i) = l[i]
    <3>1. TypeOK /\ LogInv /\ Prefix(l, log[m]) /\ log' = [log EXCEPT ![n] = l]
      BY <1>0, <1>8
    <3>. QED  BY ONLY <3>1, n \in Nodes, m \in Nodes, l \in Seq(Nat), PrefixMatches
  <2>2. HistorySound'
    BY <1>0, <1>2, <1>4, <1>8, <2>1 DEF LogInv, HistorySound
  <2>. QED  BY <2>1, <2>2 DEF LogInv
<1>12. LeaderHas'
  <2>1. SUFFICES ASSUME Claimed, NEW x \in Nodes, NEW i \in DOMAIN log'[x], log'[x][i] = lease.term
                 PROVE  i \in DOMAIN log'[H] /\ log'[H][i] = lease.term
    BY <1>0 DEF LeaderHas, Claimed, H
  <2>2. H = m
    BY <1>1, <1>2, <1>3, <2>1 DEF Claimed
  <2>. QED  BY <1>4, <1>7, <1>8, <2>1, <2>2
<1>13. FitInv'
  <2>1. \A x \in Nodes : Len(log'[x]) \in Nat /\ Len(log[x]) <= Len(log'[x])
    BY <1>1, <1>4, <1>7, <1>8
  <2>2. ASSUME NEW x \in Nodes, NEW j \in DOMAIN history[x]
        PROVE  history[x][j].first <= Len(log'[x]) + 1 \/ (H # x /\ history[x][j].first <= lease.seq + 1)
    <3>1. history[x][j].first <= Len(log[x]) + 1 \/ (H # x /\ history[x][j].first <= lease.seq + 1)
      BY <1>0 DEF FitInv
    <3>. QED  BY <1>1, <2>1, <3>1
  <2>3. ASSUME H \in Nodes, NEW x \in Nodes \ {H}, NEW j \in DOMAIN history[H]
        PROVE  history[H][j].first <= Len(log'[x]) + 1 \/ history[H][j].first <= lease.seq + 1
    <3>1. history[H][j].first <= Len(log[x]) + 1 \/ history[H][j].first <= lease.seq + 1
      BY <1>0, <2>3 DEF FitInv
    <3>. QED  BY <1>1, <2>1, <2>3, <3>1
  <2>4. ASSUME H \in Nodes, NEW x \in Nodes \ {H}, term[H] < lease.term
        PROVE  Len(log'[H]) <= Len(log'[x]) \/ Len(log'[H]) <= lease.seq
    <3>1. H = n /\ x = m
      BY <1>1, <1>2, <1>4, <2>4
    <3>. QED  BY <1>7, <1>8, <3>1
  <2>. QED  BY <1>0, <2>2, <2>3, <2>4 DEF FitInv, H
<1>14. LinkInv'
  <2>1. SUFFICES ASSUME NEW x \in Nodes, NEW y \in Nodes, fol[x] = [to |-> y, st |-> "linked"]
                 PROVE  /\ x # y /\ mode[x] \in {"standby", "won"} /\ mode[y] \in {"lead", "down"} /\ snap[y] = NoSnap
                        /\ term[x] = term[y] /\ history[x] = history[y] /\ Prefix(log'[x], log'[y])
                        /\ (H = y /\ term[y] = lease.term) \/ (H = x /\ mode[x] = "won")
    BY <1>0 DEF LinkInv, H
  <2>2. /\ x # y /\ mode[x] \in {"standby", "won"} /\ mode[y] \in {"lead", "down"} /\ snap[y] = NoSnap
        /\ term[x] = term[y] /\ history[x] = history[y]
        /\ (H = y /\ term[y] = lease.term) \/ (H = x /\ mode[x] = "won")
    BY <1>0, <2>1 DEF LinkInv
  <2>3. x = n /\ y = m
    BY <1>2, <1>4, <2>2
  <2>. QED  BY <1>8, <2>2, <2>3
<1>15. SnapInv'
  BY <1>0, <1>5 DEF SnapInv
<1>16. AckInv'
  <2>1. SUFFICES ASSUME NEW x \in Nodes, NEW a \in acks' PROVE a.idx \in DOMAIN log'[x] /\ log'[x][a.idx] = a.term
    BY DEF AckInv, Holds
  <2>2. CASE a \in acks
    <3>1. /\ a.idx \in DOMAIN log[n] /\ log[n][a.idx] = a.term
          /\ a.idx \in DOMAIN log[m] /\ log[m][a.idx] = a.term
      BY <1>0, <2>2 DEF AckInv, Holds
    <3>. QED  BY <1>4, <1>7, <1>8, <3>1
  <2>3. CASE a \in Answered(m, Len(l))
    <3>1. a.idx \in 1 .. Len(l) /\ a.term = log[m][a.idx]
      BY <2>3 DEF Answered
    <3>. QED  BY <1>4, <1>7, <1>8, <3>1
  <2>. QED  BY <1>0, <1>8, <2>2, <2>3
<1>. QED  BY <1>9, <1>10, <1>11, <1>12, <1>13, <1>14, <1>15, <1>16 DEF MatchInv

-----------------------------------------------------------------------------
(* Log matching of two nodes: the theorems *)

LEMMA MatchInit == Init => MatchInv
<1>. SUFFICES ASSUME Init PROVE MatchInv
  OBVIOUS
<1>1. TypeOK
  BY TypeInit DEF TypeInv
<1>2. /\ lease = [holder |-> None, term |-> 0, seq |-> 0] /\ None \notin Nodes /\ acks = {}
      /\ \A n \in Nodes : /\ log[n] = <<>> /\ history[n] = <<[term |-> 0, first |-> 1]>> /\ term[n] = 0
                          /\ role[n] = "leader" /\ snap[n] = NoSnap /\ mode[n] = "down" /\ fol[n].st = "idle"
  BY ReplicationAssumption DEF Init, NoLease, Idle
<1>3. ModeInv /\ LeaderHas /\ LinkInv /\ SnapInv /\ AckInv
  BY <1>2 DEF ModeInv, LeaderHas, LinkInv, SnapInv, AckInv, Holds, Claimed, H, NoLease
<1>4. TermInv /\ FitInv
  BY <1>2 DEF TermInv, FitInv, H
<1>5. HistInv
  BY <1>2 DEF HistInv, Ordered, Claimed, H
<1>6. LogInv
  BY <1>2 DEF LogInv, SameFrameSamePast, HistorySound
<1>. QED  BY <1>1, <1>3, <1>4, <1>5, <1>6 DEF MatchInv

\* Every step of two nodes keeps the invariant.
LEMMA MatchNext == ASSUME TwoNodes, TypeInv, MatchInv, [Next]_vars PROVE TypeInv' /\ MatchInv'
<1>1. TypeInv' /\ TypeOK'
  <2>1. [FencingNext]_vars
    BY DEF FencingNext
  <2>. QED  BY <2>1, TypeStep DEF TypeInv
<1>2. CASE UNCHANGED vars
  <2>1. UNCHANGED <<lease, disk, acks>> /\ mode' = mode /\ fol' = fol
    BY <1>2 DEF vars
  <2>2. ModeInv' /\ \A x \in Nodes : snap[x] # NoSnap => mode'[x] = "down"
    BY <2>1 DEF MatchInv, ModeInv, SnapInv, H, disk
  <2>. QED  BY <1>1, <2>1, <2>2, QuietKeeps
<1>3. ASSUME NEW n \in Nodes,
             \/ WinFirst(n) \/ Claim(n) \/ Lead(n) \/ StandBy(n) \/ Write(n) \/ Renew(n)
             \/ Crash(n) \/ Poll(n) \/ FinishRebootstrap(n)
             \/ LinkDown(n) \/ TakeOver(n) \/ Reexec(n)
      PROVE  MatchInv'
  BY <1>1, <1>3, WinFirstKeeps, ClaimKeeps, StartKeeps, WriteKeeps, RenewKeeps, StopKeeps,
     FinishKeeps, TakeOverKeeps
<1>4. ASSUME NEW n \in Nodes, NEW m \in Nodes,
             Accepted(n, m) \/ Rejected(n, m) \/ LogGap(n, m) \/ Ship(n, m)
      PROVE  MatchInv'
  <2>1. Rejected(n, m) \/ LogGap(n, m) => mode[n] = "standby" /\ mode[m] \in {"lead", "fenced"} /\ Snapshot(n, m)
    BY DEF Rejected, LogGap, Hello
  <2>. QED  BY <1>1, <1>4, <2>1, AcceptedKeeps, SnapshotKeeps, ShipKeeps
<1>. QED  BY <1>1, <1>2, <1>3, <1>4 DEF Next

LEMMA MatchAlways == ASSUME TwoNodes PROVE Spec => []MatchInv
<1>1. Init => TypeInv /\ MatchInv
  BY TypeInit, MatchInit
<1>2. TypeInv /\ MatchInv /\ [Next]_vars => (TypeInv /\ MatchInv)'
  BY MatchNext
<1>. QED  BY <1>1, <1>2, PTL DEF Spec

\* Of two nodes under a lease whose store answers in time, whatever crashes, links and clients do:
\* a stream only extends a prefix of the leader's log, logs that hold the same frame agree on
\* everything before it, and REPL-HISTORY names the term of every frame (diverged, claim_term).
THEOREM LogsAlwaysMatch == ASSUME TwoNodes PROVE Spec => []LogMatching
<1>1. MatchInv => LogMatching
  BY DEF MatchInv, LogMatching, LogInv, LinkInv, StreamsPrefix
<1>. QED  BY <1>1, MatchAlways, PTL

\* Of two nodes under such a lease, a write answered Ok after the standby's ack is in the log of
\* every later leader (Acked, sync_gate).
THEOREM AckedAlwaysSurvives == ASSUME TwoNodes PROVE Spec => []AckedSurvives
<1>1. MatchInv => AckedSurvives
  <2>1. SUFFICES ASSUME MatchInv, NEW n \in Nodes, NEW a \in acks PROVE a.idx <= Len(log[n]) /\ log[n][a.idx] = a.term
    BY DEF AckedSurvives
  <2>2. a.idx \in DOMAIN log[n] /\ log[n][a.idx] = a.term
    BY <2>1 DEF MatchInv, AckInv, Holds
  <2>3. DOMAIN log[n] = 1 .. Len(log[n]) /\ Len(log[n]) \in Nat
    BY <2>1, Typed DEF MatchInv
  <2>. QED  BY <2>2, <2>3
<1>. QED  BY <1>1, MatchAlways, PTL
===============================================================================
