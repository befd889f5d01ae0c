------------------------------- MODULE KvStore -------------------------------
(***************************************************************************)
(* What the storage engine promises its caller: a map from keys to values  *)
(* that survives the process.  A batch is submitted, and is later either   *)
(* committed whole or cut off by a crash; a crash keeps a prefix of the    *)
(* batches still in flight, each whole, and nothing that was committed is  *)
(* ever undone.  Memtables, segments, the WAL, flush, compaction and       *)
(* recovery do not appear: they must be invisible.                         *)
(***************************************************************************)
EXTENDS Integers, Sequences

CONSTANTS Keys, Batches

VARIABLES
    kv,       \* the durable map; 0 is "absent"
    inflight, \* submitted and unanswered batches, in submission order: [id, ops]
    count     \* batches submitted so far; a put writes its batch's number

Init ==
    /\ kv = [k \in Keys |-> 0]
    /\ inflight = <<>>
    /\ count = 0

\* The map once the first n batches in flight have taken effect.
After(n) ==
    [k \in Keys |->
        LET touch == {i \in 1 .. n : k \in DOMAIN inflight[i].ops}
        IN  IF touch = {} THEN kv[k]
            ELSE LET i == CHOOSE i \in touch : \A j \in touch : j <= i
                 IN  IF inflight[i].ops[k] = "put" THEN inflight[i].id ELSE 0]

Submit(b) ==
    /\ count' = count + 1
    /\ inflight' = Append(inflight, [id |-> count', ops |-> b])
    /\ UNCHANGED kv

\* A batch is refused without effect.
Refuse ==
    /\ inflight = <<>>
    /\ count' = count + 1
    /\ UNCHANGED <<kv, inflight>>

Commit ==
    /\ inflight # <<>>
    /\ kv' = After(Len(inflight))
    /\ inflight' = <<>>
    /\ UNCHANGED count

\* The process dies: a prefix of the batches in flight has taken effect.
Cut ==
    /\ inflight # <<>>
    /\ \E n \in 0 .. Len(inflight) : kv' = After(n)
    /\ inflight' = <<>>
    /\ UNCHANGED count

Next == (\E b \in Batches : Submit(b)) \/ Refuse \/ Commit \/ Cut

Spec == Init /\ [][Next]_<<kv, inflight, count>>
=============================================================================
