----------------------------- MODULE BlockCache -----------------------------
(***************************************************************************)
(* The bounded block cache shared by the segment readers of a store         *)
(* (storage/aikoql-v2/src/cache.rs) and the read path that fills it         *)
(* (segment.rs, block_raw).                                                 *)
(*                                                                          *)
(* A hit only stamps the entry, so the nodes of the min-heap that orders    *)
(* evictions go stale: a node carries the stamp its key had when pushed.    *)
(* Eviction pops the least node and compares it with the live entry.        *)
(* Readers look a block up, read it from the file outside the lock and then *)
(* insert it, so two of them may insert the same block.                     *)
(*                                                                          *)
(* The heap is kept as a sequence of nodes in no particular order; its pop  *)
(* removes a node of least stamp.                                           *)
(***************************************************************************)
EXTENDS Naturals, FiniteSets, Sequences, SequencesExt, FiniteSetsExt

CONSTANTS Blocks,          \* (reader id, block index) pairs
          Small,           \* the blocks of one unit; the others take two
          CacheCap,        \* the cache's capacity in units
          CacheReaders,
          MaxClock         \* bound: touches

ASSUME CacheAssumption ==
    /\ Small \subseteq Blocks
    /\ {CacheCap, MaxClock} \subseteq Nat

VARIABLES entries,         \* the cached blocks, each with its last stamp
          heap,            \* the nodes of the eviction heap
          clock, cbytes,
          fetching         \* the block each reader is reading from the file

cacheVars == <<entries, heap, clock, cbytes, fetching>>

Size(b) == IF b \in Small THEN 1 ELSE 2
NoBlock == "none"
NodeOf(g, b) == [gen |-> g, key |-> b]

CacheInit ==
    /\ entries = [b \in {} |-> 0] /\ heap = <<>> /\ clock = 0 /\ cbytes = 0
    /\ fetching = [r \in CacheReaders |-> NoBlock]

-----------------------------------------------------------------------------
Without(es, b) == [x \in DOMAIN es \ {b} |-> es[x]]
WithStamp(es, b, g) == [x \in DOMAIN es \cup {b} |-> IF x = b THEN g ELSE es[x]]

\* The positions heap_pop may take from (nodes of one stamp are of one key).
LeastNodes(hp) == {i \in 1..Len(hp) : \A j \in 1..Len(hp) : hp[i].gen <= hp[j].gen}

\* What a popped node that its entry has outlived leaves in the heap: a node
\* with the live stamp.
Restale(hp, es, n) == Append(hp, NodeOf(es[n.key], n.key))

\* The entry was not touched since the node was pushed.
Untouched_Ignored(s, n) == TRUE
Untouched(s, n) == s.es[n.key] = n.gen

\* One round of evict_for on the state [es, hp, by].
EvictOne(s) ==
    LET i == CHOOSE i \in LeastNodes(s.hp) : TRUE
        n == s.hp[i]
        rest == RemoveAt(s.hp, i)
    IN  IF n.key \notin DOMAIN s.es THEN [s EXCEPT !.hp = rest]
        ELSE IF Untouched(s, n)
             THEN [es |-> Without(s.es, n.key), hp |-> rest, by |-> s.by - Size(n.key)]
             ELSE [s EXCEPT !.hp = Restale(rest, s.es, n)]

\* evict_for: until the block fits or the heap is exhausted. A node is popped
\* at most twice (stale, then current), so 2 * Len(heap) rounds are enough.
EvictFor(s0, needed) ==
    LET Round(s, i) == IF s.by + needed > CacheCap /\ s.hp # <<>> THEN EvictOne(s) ELSE s
    IN  FoldLeft(Round, s0, [i \in 1..(2 * Len(s0.hp)) |-> i])

\* insert's last step: a heap more than twice the map is rebuilt from it.
HeapOf(es) == SetToSeq({NodeOf(es[b], b) : b \in DOMAIN es})
HeapAfter(hp, es) == IF Len(hp) > 2 * Cardinality(DOMAIN es) THEN HeapOf(es) ELSE hp

\* What insert gives back for a block that another reader has cached since.
Replaced_Counted(b) == [es |-> Without(entries, b), hp |-> heap, by |-> cbytes]
Replaced(b) ==
    [es |-> Without(entries, b), hp |-> heap,
     by |-> IF b \in DOMAIN entries THEN cbytes - Size(b) ELSE cbytes]

-----------------------------------------------------------------------------
\* block_raw: the lookup. A hit stamps the entry and returns; a miss goes on
\* to read the file.
HitStamp_Reset(b) == WithStamp(entries, b, 0)
HitStamp(b) == WithStamp(entries, b, clock + 1)

CacheHit(r, b) ==
    /\ fetching[r] = NoBlock /\ b \in DOMAIN entries /\ clock < MaxClock
    /\ clock' = clock + 1
    /\ entries' = HitStamp(b)
    /\ UNCHANGED <<heap, cbytes, fetching>>

CacheMiss(r, b) ==
    /\ fetching[r] = NoBlock /\ b \notin DOMAIN entries
    /\ fetching' = [fetching EXCEPT ![r] = b]
    /\ UNCHANGED <<entries, heap, clock, cbytes>>

\* The read or its checksum fails: nothing is cached.
CacheReadFails(r) ==
    /\ fetching[r] # NoBlock
    /\ fetching' = [fetching EXCEPT ![r] = NoBlock]
    /\ UNCHANGED <<entries, heap, clock, cbytes>>

\* insert, under the lock: a block bigger than the cache is not cached.
CacheInsert(r) ==
    LET b == fetching[r]
        s == EvictFor(Replaced(b), Size(b))
        es == WithStamp(s.es, b, clock + 1)
    IN  /\ b # NoBlock /\ clock < MaxClock
        /\ fetching' = [fetching EXCEPT ![r] = NoBlock]
        /\ IF Size(b) > CacheCap
           THEN UNCHANGED <<entries, heap, clock, cbytes>>
           ELSE /\ clock' = clock + 1
                /\ cbytes' = s.by + Size(b)
                /\ entries' = es
                /\ heap' = HeapAfter(Append(s.hp, NodeOf(clock + 1, b)), es)

CacheNext ==
    \E r \in CacheReaders :
        \/ \E b \in Blocks : CacheHit(r, b) \/ CacheMiss(r, b)
        \/ CacheReadFails(r)
        \/ CacheInsert(r)

CacheSpec == CacheInit /\ [][CacheNext]_cacheVars

-----------------------------------------------------------------------------
CacheTypeOK ==
    /\ DOMAIN entries \subseteq Blocks /\ \A b \in DOMAIN entries : entries[b] \in 1..MaxClock
    /\ heap \in Seq([gen : 1..MaxClock, key : Blocks])
    /\ clock \in 0..MaxClock /\ cbytes \in Nat
    /\ fetching \in [CacheReaders -> Blocks \cup {NoBlock}]

\* The capacity is hard and the count exact, whichever readers inserted the
\* same block: every cached block keeps a node, so the loop never runs out of
\* nodes while blocks are cached.
WithinCap ==
    /\ cbytes = MapThenSumSet(Size, DOMAIN entries)
    /\ cbytes <= CacheCap

\* An insertion evicts in the order of the last touch, although hits leave
\* the heap as it was: what it drops was touched before all that it keeps.
EvictsOldest ==
    \A v \in DOMAIN entries \ DOMAIN entries', k \in DOMAIN entries \cap DOMAIN entries' :
        entries[k] = entries'[k] => entries[v] < entries[k]

\* What the block cache promises: its bound, and the least recently used goes first.
BlockCachePromise == [][(CacheTypeOK /\ WithinCap)' /\ EvictsOldest]_cacheVars
=============================================================================
