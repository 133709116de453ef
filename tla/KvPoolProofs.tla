----------------------------- MODULE KvPoolProofs -----------------------------
(***************************************************************************)
(* The pool of idle blocks keeps its two indexes, its queue and its        *)
(* counter consistent, whatever sequence of operations it sees.  The four  *)
(* properties are inductive together: the counter needs that hashes are    *)
(* parked once, the indexes that a block in hand is not parked.            *)
(***************************************************************************)
EXTENDS KvPool, FiniteSetTheorems, SequenceTheorems, TLAPS

PoolInv == PoolTypeOK /\ IndexesAgree /\ NothingLost /\ Counted

(* A set that hs enumerates without repetition. *)
LEMMA DistinctElements ==
  ASSUME NEW n \in Nat, NEW hs, NEW S, \A i, j \in 1..n : hs[i] = hs[j] => i = j,
         \A i \in 1..n : hs[i] \in S, \A h \in S : \E i \in 1..n : h = hs[i]
  PROVE  IsFiniteSet(S) /\ Cardinality(S) = n
  <1> DEFINE f == [i \in 1..n |-> hs[i]]
  <1>1. IsFiniteSet(1..n) /\ Cardinality(1..n) = n
    BY FS_Interval
  <1>2. f \in Bijection(1..n, S)
    BY DEF Bijection, Injection, Surjection, IsInjective
  <1> QED
    BY <1>1, <1>2, FS_Bijection DEF ExistsBijection

(* As many hashes as keys, when no two keys have the same hash. *)
LEMMA DistinctHashes ==
  ASSUME NEW ks, IsFiniteSet(ks), NEW S,
         \A k, l \in ks : k.sequence_hash = l.sequence_hash => k = l,
         \A k \in ks : k.sequence_hash \in S, \A h \in S : \E k \in ks : h = k.sequence_hash
  PROVE  IsFiniteSet(S) /\ Cardinality(S) = Cardinality(ks)
  <1> DEFINE f == [k \in ks |-> k.sequence_hash]
  <1>1. f \in Bijection(ks, S)
    BY DEF Bijection, Injection, Surjection, IsInjective
  <1> QED
    BY <1>1, FS_Bijection DEF ExistsBijection

(* The keys of parked blocks differ in their hashes, and are finitely many. *)
LEMMA KeysFinite ==
  ASSUME PoolInv
  PROVE  /\ IsFiniteSet(Parked) /\ IsFiniteSet(priority_set)
         /\ \A h \in Parked : KeyAt(h).sequence_hash = h
         /\ \A k \in priority_set : k.sequence_hash \in Parked /\ KeyAt(k.sequence_hash) = k
  <1>1. IsFiniteSet(Parked)
    BY FS_Subset, PoolAssumption DEF PoolInv, PoolTypeOK
  <1>2. \A h \in Parked : KeyAt(h).sequence_hash = h
    BY DEF PoolInv, IndexesAgree, KeyAt, key_of
  <1>3. \A k \in priority_set : k.sequence_hash \in Parked /\ KeyAt(k.sequence_hash) = k
    BY <1>2 DEF PoolInv, IndexesAgree
  <1> DEFINE f == [h \in Parked |-> KeyAt(h)]
  <1>4. f \in Bijection(Parked, priority_set)
    BY <1>2, <1>3 DEF Bijection, Injection, Surjection, IsInjective, PoolInv, IndexesAgree
  <1> QED
    BY <1>1, <1>2, <1>3, <1>4, FS_Bijection DEF ExistsBijection

-------------------------------------------------------------------------------
(* What match_blocks and take_blocks have in common: the blocks under the     *)
(* hashes of R, and the first u of the queue, move to UniqueBlocks.           *)
Removes(R, u) ==
  /\ lookup_map' = Without(R) /\ priority_set' = priority_set \ {KeyAt(h) : h \in R}
  /\ uninitialized_set' = SubSeq(uninitialized_set, u + 1, Len(uninitialized_set))
  /\ unique' = unique \cup {lookup_map[h] : h \in R} \cup {uninitialized_set[i] : i \in 1..u}
  /\ available_blocks' = available_blocks - (u + Cardinality(R))
  /\ UNCHANGED <<block, return_tick, total_blocks, outside, thrown>>

LEMMA Removal ==
  ASSUME PoolInv, NEW R \in SUBSET Parked, NEW u \in 0..Len(uninitialized_set), Removes(R, u)
  PROVE  PoolInv'
  <1> DEFINE q == uninitialized_set
             m == Len(q) - u
  <1>1. /\ q \in Seq(Blocks) /\ Len(q) \in Nat /\ m \in Nat /\ u \in Nat
        /\ q' \in Seq(Blocks) /\ Len(q') = m
        /\ \A i \in 1..m : q'[i] = q[u + i]
    <2>1. q \in Seq(Blocks) /\ Len(q) \in Nat /\ m \in Nat /\ u \in Nat
      BY DEF PoolInv, PoolTypeOK
    <2>2. q' = SubSeq(q, u + 1, Len(q))
      BY DEF Removes
    <2>3. u + 1 \in 1..Len(q) + 1 /\ Len(q) \in u..Len(q)
      BY <2>1
    <2> QED
      BY <2>1, <2>2, <2>3, SubSeqProperties
  <1>2. /\ Parked' = Parked \ R
        /\ \A h \in Parked \ R : lookup_map'[h] = lookup_map[h] /\ KeyAt(h)' = KeyAt(h)
        /\ lookup_map' \in [Parked' -> Blocks]
    BY DEF Removes, Without, Parked, KeyAt, PoolInv, PoolTypeOK
  <1>3. PoolTypeOK'
    <2>1. unique' \subseteq Blocks
      BY <1>1 DEF PoolInv, PoolTypeOK, Removes
    <2>2. available_blocks' \in Int
      <3>1. Cardinality(R) \in Nat
        BY KeysFinite, FS_Subset, FS_CardinalityType
      <3> QED
        BY <3>1, <1>1 DEF PoolInv, PoolTypeOK, Removes
    <2> QED
      BY Zenon, <1>1, <1>2, <2>1, <2>2 DEF PoolInv, PoolTypeOK, Removes, KvBlock
  <1>4. IndexesAgree'
    <2>1. priority_set' = {KeyAt(h) : h \in Parked \ R}
      BY ZenonT(30), KeysFinite DEF PoolInv, IndexesAgree, Removes
    <2> QED
      BY Zenon, <1>2, <2>1 DEF PoolInv, IndexesAgree, Removes
  <1>5. NothingLost'
    <2>1. InLookup' = InLookup \ {lookup_map[h] : h \in R}
      BY <1>2, KeysFinite DEF InLookup, KeyAt, key_of
    <2>2. InQueue' = InQueue \ {q[i] : i \in 1..u}
      <3>1. \A i, j \in 1..Len(q) : q[i] = q[j] => i = j
        BY DEF PoolInv, NothingLost
      <3>2. InQueue' = {q[u + i] : i \in 1..m}
        BY Zenon, <1>1 DEF InQueue
      <3>3. {q[u + i] : i \in 1..m} \subseteq InQueue \ {q[i] : i \in 1..u}
        BY <1>1, <3>1 DEF InQueue
      <3>4. ASSUME NEW i \in 1..Len(q), q[i] \notin {q[j] : j \in 1..u}
            PROVE  q[i] \in {q[u + j] : j \in 1..m}
        <4>1. i - u \in 1..m /\ q[i] = q[u + (i - u)]
          BY <1>1, <3>4
        <4> QED
          BY <4>1
      <3> QED
        BY ZenonT(30), <3>2, <3>3, <3>4 DEF InQueue
    <2>3. /\ {lookup_map[h] : h \in R} \subseteq InLookup
          /\ {q[i] : i \in 1..u} \subseteq InQueue
      BY <1>1 DEF InLookup, InQueue
    <2>4. \A i, j \in 1..Len(q') : q'[i] = q'[j] => i = j
      <3>1. \A i \in 1..m : u + i \in 1..Len(q)
        BY <1>1
      <3> QED
        BY <1>1, <3>1 DEF PoolInv, NothingLost
    <2>5. /\ outside' = outside
          /\ unique' = unique \cup {lookup_map[h] : h \in R} \cup {q[i] : i \in 1..u}
      BY DEF Removes
    <2> DEFINE A == {lookup_map[h] : h \in R}
               B == {q[i] : i \in 1..u}
    <2> HIDE DEF A, B, q
    <2> QED
      BY Zenon, <2>1, <2>2, <2>3, <2>4, <2>5 DEF PoolInv, NothingLost, A, B, q
  <1>6. Counted'
    <2>1. Cardinality(Parked \ R) = Cardinality(Parked) - Cardinality(R)
      <3>1. Parked \cap R = R
        OBVIOUS
      <3> QED
        BY ZenonT(30), <3>1, KeysFinite, FS_Difference
    <2>2. Cardinality(Parked) \in Nat /\ Cardinality(R) \in Nat
      BY KeysFinite, FS_Subset, FS_CardinalityType
    <2>3. /\ available_blocks = Cardinality(Parked) + Len(q)
          /\ available_blocks' = available_blocks - (u + Cardinality(R))
      BY DEF PoolInv, Counted, Removes
    <2> HIDE DEF q
    <2> QED
      BY <1>1, <1>2, <2>1, <2>2, <2>3 DEF Counted, q
  <1> QED
    BY <1>3, <1>4, <1>5, <1>6 DEF PoolInv

-------------------------------------------------------------------------------
(* What insert and return_block have in common: b, which was not parked, is   *)
(* parked with the state rec.                                                 *)
Parks(b, rec) ==
  /\ insert_locked(b, rec)
  /\ unique' = unique \ {b} /\ outside' = outside \ {b}
  /\ available_blocks' = available_blocks + 1
  /\ return_tick' \in 0..MaxTick /\ total_blocks' \in Nat /\ thrown' = thrown

LEMMA Parking ==
  ASSUME PoolInv, NEW b \in unique \cup outside, NEW rec \in KvBlock, Parks(b, rec)
  PROVE  PoolInv'
  <1> DEFINE q == uninitialized_set
             h == rec.sequence_hash
  <1>1. /\ b \in Blocks /\ b \notin InLookup /\ b \notin InQueue
        /\ block' = [block EXCEPT ![b] = rec] /\ block' \in [Blocks -> KvBlock] /\ block'[b] = rec
        /\ \A x \in Parked : lookup_map[x] # b /\ block'[lookup_map[x]] = block[lookup_map[x]]
    BY DEF PoolInv, PoolTypeOK, NothingLost, InLookup, Parks, insert_locked, InsertUnless
  <1>2. /\ unique' \subseteq Blocks /\ outside' \subseteq Blocks /\ thrown' \in BOOLEAN
        /\ available_blocks' \in Int /\ return_tick' \in 0..MaxTick /\ total_blocks' \in Nat
    BY DEF PoolInv, PoolTypeOK, Parks
  <1>3. q \in Seq(Blocks) /\ Len(q) \in Nat /\ \A i \in 1..Len(q) : q[i] \in InQueue
    BY DEF PoolInv, PoolTypeOK, InQueue
  <1>4. CASE h = 0 \/ h \in Parked
    <2>1. q' = Append(q, b) /\ lookup_map' = lookup_map /\ priority_set' = priority_set
      BY <1>4 DEF Parks, insert_locked, InsertUnless
    <2>2. /\ q' \in Seq(Blocks) /\ Len(q') = Len(q) + 1 /\ q'[Len(q) + 1] = b
          /\ \A i \in 1..Len(q) : q'[i] = q[i]
      BY <1>1, <1>3, <2>1, AppendProperties
    <2>3. PoolTypeOK'
      BY <1>1, <1>2, <2>1, <2>2 DEF PoolInv, PoolTypeOK, Parked, KvBlock
    <2>4. IndexesAgree'
      <3>1. \A x \in Parked : KeyAt(x)' = KeyAt(x)
        BY <1>1, <2>1 DEF KeyAt, key_of
      <3> QED
        BY <1>1, <2>1, <3>1 DEF PoolInv, IndexesAgree, Parks, Parked
    <2>5. NothingLost'
      <3>1. InLookup' = InLookup
        BY <2>1 DEF InLookup, Parked
      <3>2. InQueue' = InQueue \cup {b}
        <4>1. 1..Len(q) + 1 = 1..Len(q) \cup {Len(q) + 1}
          BY <1>3
        <4> HIDE DEF q
        <4> QED
          BY <2>2, <4>1 DEF InQueue, q
      <3>3. \A i, j \in 1..Len(q') : q'[i] = q'[j] => i = j
        <4>1. \A i \in 1..Len(q') : i \in 1..Len(q) \/ i = Len(q) + 1
          BY <1>3, <2>2
        <4>2. \A i, j \in 1..Len(q) : q[i] = q[j] => i = j
          BY DEF PoolInv, NothingLost
        <4> HIDE DEF q
        <4> QED
          BY <1>1, <1>3, <2>2, <4>1, <4>2
      <3> QED
        BY <1>1, <3>1, <3>2, <3>3 DEF PoolInv, NothingLost, Parks
    <2>6. Counted'
      <3>1. Cardinality(Parked) \in Nat /\ Parked' = Parked
        BY <2>1, KeysFinite, FS_CardinalityType DEF Parked
      <3> QED
        BY <1>3, <2>2, <3>1 DEF PoolInv, Counted, Parks
    <2> QED
      BY <2>3, <2>4, <2>5, <2>6 DEF PoolInv
  <1>5. CASE h \notin Parked /\ h # 0
    <2>1. /\ q' = q /\ lookup_map' = With(h, b) /\ priority_set' = priority_set \cup {rec}
          /\ h \in Hashes
      BY <1>5 DEF Parks, insert_locked, InsertUnless, key_of, KvBlock
    <2>2. /\ Parked' = Parked \cup {h} /\ lookup_map'[h] = b
          /\ \A x \in Parked : lookup_map'[x] = lookup_map[x]
          /\ lookup_map' \in [Parked' -> Blocks]
      BY <1>1, <1>5, <2>1 DEF With, Parked, PoolInv, PoolTypeOK
    <2>3. PoolTypeOK'
      BY <1>1, <1>2, <1>3, <2>1, <2>2 DEF PoolInv, PoolTypeOK, KvBlock
    <2>4. IndexesAgree'
      <3>1. KeyAt(h)' = rec /\ \A x \in Parked : KeyAt(x)' = KeyAt(x)
        BY <1>1, <2>2 DEF KeyAt, key_of
      <3>2. \A x \in Parked' : block'[lookup_map'[x]].sequence_hash = x
        BY <1>1, <2>2 DEF PoolInv, IndexesAgree
      <3> QED
        BY <2>1, <2>2, <3>1, <3>2 DEF PoolInv, IndexesAgree, Parks
    <2>5. NothingLost'
      <3>1. InLookup' = InLookup \cup {b}
        BY <2>2 DEF InLookup
      <3>2. InQueue' = InQueue
        BY <2>1 DEF InQueue
      <3> QED
        BY <1>1, <2>1, <3>1, <3>2 DEF PoolInv, NothingLost, Parks
    <2>6. Counted'
      <3>1. /\ Cardinality(Parked) \in Nat
            /\ Cardinality(Parked \cup {h}) = Cardinality(Parked) + 1
        BY <1>5, KeysFinite, FS_CardinalityType, FS_AddElement
      <3> QED
        BY <1>3, <2>1, <2>2, <3>1 DEF PoolInv, Counted, Parks
    <2> QED
      BY <2>3, <2>4, <2>5, <2>6 DEF PoolInv
  <1> QED
    BY <1>4, <1>5

-------------------------------------------------------------------------------
(* What a holder does with its block does not concern the pool. *)
LEMMA Holding ==
  ASSUME PoolInv, NEW b \in Blocks,
         take(b) \/ \E h \in Hashes \cup {0} : update_token_block(b, h)
  PROVE  PoolInv'
  <1>1. CASE take(b)
    <2>1. PoolTypeOK'
      BY <1>1 DEF PoolInv, PoolTypeOK, take, Parked, KvBlock
    <2>2. IndexesAgree' /\ Counted'
      BY <1>1 DEF PoolInv, IndexesAgree, Counted, take, Parked, KeyAt
    <2>3. NothingLost'
      BY <1>1 DEF PoolInv, NothingLost, InLookup, InQueue, take, Parked
    <2> QED
      BY <2>1, <2>2, <2>3 DEF PoolInv
  <1>2. ASSUME NEW h \in Hashes \cup {0}, update_token_block(b, h)
        PROVE  PoolInv'
    <2>1. /\ block' \in [Blocks -> KvBlock]
          /\ \A x \in Parked : block'[lookup_map[x]] = block[lookup_map[x]]
      BY <1>2 DEF PoolInv, PoolTypeOK, NothingLost, InLookup, update_token_block, KvBlock
    <2>2. UNCHANGED <<lookup_map, priority_set, uninitialized_set, return_tick, available_blocks,
                      total_blocks, unique, outside, thrown>>
      BY <1>2 DEF update_token_block
    <2>3. PoolTypeOK'
      BY <2>1, <2>2 DEF PoolInv, PoolTypeOK, Parked, KvBlock
    <2>4. IndexesAgree' /\ Counted'
      BY <2>1, <2>2 DEF PoolInv, IndexesAgree, Counted, Parked, KeyAt, key_of
    <2>5. NothingLost'
      BY <2>2 DEF PoolInv, NothingLost, InLookup, InQueue, Parked
    <2> QED
      BY <2>3, <2>4, <2>5 DEF PoolInv
  <1> QED
    BY <1>1, <1>2

(* A new priority is all that changes of the block. *)
LEMMA Repriced ==
  ASSUME NEW rec \in KvBlock, NEW p \in Priorities
  PROVE  /\ [rec EXCEPT !.priority = p] \in KvBlock
         /\ [rec EXCEPT !.priority = p].sequence_hash = rec.sequence_hash
  BY DEF KvBlock

LEMMA Prioritizing ==
  ASSUME PoolInv, NEW S \in SUBSET Parked, NEW f \in [S -> Priorities], update_priorities(f)
  PROVE  PoolInv'
  <1>1. UNCHANGED <<lookup_map, uninitialized_set, return_tick, available_blocks, total_blocks,
                    unique, outside, thrown>>
    BY DEF update_priorities
  <1>2. \A h \in Parked : block[lookup_map[h]].sequence_hash = h /\ lookup_map[h] \in Blocks
    BY DEF PoolInv, IndexesAgree, PoolTypeOK
  <1>3. /\ block' \in [Blocks -> KvBlock]
        /\ \A h \in Parked : block'[lookup_map[h]].sequence_hash = h
        /\ \A h \in Parked \ S : block'[lookup_map[h]] = block[lookup_map[h]]
    <2>1. /\ DOMAIN f = S /\ DOMAIN block' = Blocks
          /\ block' = [b \in Blocks |-> block'[b]]
      BY DEF update_priorities
    <2>2. ASSUME NEW b \in Blocks, \A h \in S : lookup_map[h] # b
          PROVE  block'[b] = block[b] /\ block'[b] \in KvBlock
      BY <2>2 DEF update_priorities, PoolInv, PoolTypeOK
    <2>3. ASSUME NEW h \in S
          PROVE  /\ block'[lookup_map[h]] \in KvBlock
                 /\ block'[lookup_map[h]].sequence_hash = h
      <3>1. block'[lookup_map[h]] = [block[lookup_map[h]] EXCEPT !.priority = f[h]]
        BY <1>2 DEF update_priorities
      <3>2. block[lookup_map[h]] \in KvBlock /\ f[h] \in Priorities
        BY <1>2 DEF PoolInv, PoolTypeOK
      <3> QED
        BY <1>2, <3>1, <3>2, Repriced
    <2>4. ASSUME NEW h \in Parked \ S PROVE block'[lookup_map[h]] = block[lookup_map[h]]
      <3>1. \A x \in S : lookup_map[x] # lookup_map[h]
        BY <1>2
      <3> QED
        BY <1>2, <2>2, <3>1
    <2>5. \A b \in Blocks : block'[b] \in KvBlock
      BY <2>2, <2>3
    <2> QED
      BY <1>2, <2>1, <2>3, <2>4, <2>5
  <1>4. /\ \A h \in Parked : KeyAt(h)' = block'[lookup_map[h]]
        /\ \A h \in Parked \ S : KeyAt(h)' = KeyAt(h)
    BY <1>1, <1>3 DEF KeyAt, key_of
  <1>6. priority_set' = {KeyAt(h)' : h \in Parked}
    <2>1. priority_set' = (priority_set \ {KeyAt(h) : h \in S}) \cup {KeyAt(h)' : h \in S}
      BY <1>1 DEF update_priorities, KeyAt
    <2>2. priority_set \ {KeyAt(h) : h \in S} = {KeyAt(h) : h \in Parked \ S}
      BY KeysFinite DEF PoolInv, IndexesAgree
    <2> QED
      BY <1>4, <2>1, <2>2
  <1>7. PoolTypeOK'
    <2>1. priority_set' \subseteq KvBlock
      BY <1>2, <1>3, <1>4, <1>6
    <2> QED
      BY <1>1, <1>3, <2>1 DEF PoolInv, PoolTypeOK, Parked, KvBlock
  <1>8. IndexesAgree' /\ Counted'
    BY <1>1, <1>3, <1>6 DEF PoolInv, IndexesAgree, Counted, Parked, KeyAt, key_of
  <1>9. NothingLost'
    BY <1>1 DEF PoolInv, NothingLost, InLookup, InQueue, Parked
  <1> QED
    BY <1>7, <1>8, <1>9 DEF PoolInv

LEMMA Concatenated ==
  ASSUME NEW S, NEW s \in Seq(S), NEW t \in Seq(S), NEW r, r = s \o t
  PROVE  /\ r \in Seq(S) /\ Len(r) = Len(s) + Len(t)
         /\ \A i \in 1..Len(s) : r[i] = s[i]
         /\ \A i \in 1..Len(t) : r[Len(s) + i] = t[i]
  BY ConcatProperties

(* What a reset comes to: the blocks under the hashes of W, in the order t,   *)
(* are wiped and moved to the queue.                                          *)
Wipes(W, t) ==
  /\ Len(t) = Cardinality(W) /\ \A i, j \in 1..Len(t) : t[i] = t[j] => i = j
  /\ \A i \in 1..Len(t) : \E h \in W : t[i] = lookup_map[h]
  /\ \A h \in W : \E i \in 1..Len(t) : t[i] = lookup_map[h]
  /\ block' = [b \in Blocks |-> IF \E h \in W : lookup_map[h] = b THEN Blank ELSE block[b]]
  /\ lookup_map' = Without(W) /\ priority_set' = priority_set \ {KeyAt(h) : h \in W}
  /\ uninitialized_set' = uninitialized_set \o t
  /\ UNCHANGED <<return_tick, available_blocks, total_blocks, unique, outside, thrown>>

LEMMA Wiping ==
  ASSUME PoolInv, NEW W \in SUBSET Parked, NEW t \in Seq(Blocks), Wipes(W, t)
  PROVE  PoolInv'
  <1> DEFINE q == uninitialized_set
  <1>1. /\ Parked' = Parked \ W /\ lookup_map' \in [Parked' -> Blocks]
        /\ \A h \in Parked \ W : lookup_map'[h] = lookup_map[h]
    BY DEF Wipes, Without, Parked, PoolInv, PoolTypeOK
  <1>2. \A h, x \in Parked : lookup_map[h] \in Blocks /\ (lookup_map[h] = lookup_map[x] => h = x)
    BY Zenon DEF PoolInv, IndexesAgree, PoolTypeOK
  <1>3. /\ block' \in [Blocks -> KvBlock]
        /\ \A h \in Parked \ W : block'[lookup_map[h]] = block[lookup_map[h]]
    <2>1. Blank \in KvBlock /\ \A b \in Blocks : block[b] \in KvBlock
      BY PoolAssumption DEF Blank, KvBlock, PoolInv, PoolTypeOK
    <2> QED
      BY <1>2, <2>1 DEF Wipes
  <1>4. /\ q \in Seq(Blocks) /\ Len(q) \in Nat /\ Len(t) \in Nat
        /\ q' \in Seq(Blocks) /\ Len(q') = Len(q) + Len(t)
        /\ \A i \in 1..Len(q) : q'[i] = q[i]
        /\ \A i \in 1..Len(t) : q'[Len(q) + i] = t[i]
    <2>1. q \in Seq(Blocks) /\ Len(q) \in Nat /\ Len(t) \in Nat
      BY DEF PoolInv, PoolTypeOK
    <2>2. q' = q \o t
      BY DEF Wipes
    <2> QED
      BY <2>1, <2>2, Concatenated
  <1>5. PoolTypeOK'
    BY <1>1, <1>3, <1>4 DEF PoolInv, PoolTypeOK, Wipes, KvBlock
  <1>6. IndexesAgree'
    <2>1. \A h \in Parked \ W : KeyAt(h)' = KeyAt(h)
      BY <1>1, <1>3 DEF KeyAt, key_of
    <2>2. priority_set' = {KeyAt(h) : h \in Parked \ W}
      <3>1. /\ priority_set' = priority_set \ {KeyAt(h) : h \in W}
            /\ priority_set = {KeyAt(h) : h \in Parked}
        BY DEF PoolInv, IndexesAgree, Wipes
      <3> QED
        BY <3>1, KeysFinite
    <2>3. \A h \in Parked' : block'[lookup_map'[h]].sequence_hash = h
      BY <1>1, <1>3 DEF PoolInv, IndexesAgree
    <2>4. ~thrown'
      BY DEF PoolInv, IndexesAgree, Wipes
    <2> QED
      BY <1>1, <2>1, <2>2, <2>3, <2>4 DEF IndexesAgree
  <1>7. NothingLost'
    <2> DEFINE A == {lookup_map[h] : h \in W}
    <2>1. InLookup' = InLookup \ A /\ A \subseteq InLookup
      BY <1>1, <1>2 DEF InLookup
    <2>2. /\ \A i \in 1..Len(t) : t[i] \in A /\ t[i] \in InLookup
          /\ \A b \in A : \E i \in 1..Len(t) : t[i] = b
      BY DEF Wipes, InLookup
    <2>3. \A i \in 1..Len(q') :
            \/ i \in 1..Len(q) /\ q'[i] = q[i] /\ q[i] \in InQueue
            \/ \E j \in 1..Len(t) : i = Len(q) + j /\ q'[i] = t[j]
      <3> SUFFICES ASSUME NEW i \in 1..Len(q'), i \notin 1..Len(q)
                   PROVE  \E j \in 1..Len(t) : i = Len(q) + j /\ q'[i] = t[j]
        BY Zenon, <1>4 DEF InQueue
      <3>1. i - Len(q) \in 1..Len(t) /\ i = Len(q) + (i - Len(q))
        BY <1>4
      <3> QED
        BY Zenon, <1>4, <3>1
    <2>4. \A i \in 1..Len(q) : i \in 1..Len(q')
      BY <1>4
    <2>5. \A i \in 1..Len(t) : Len(q) + i \in 1..Len(q')
      BY <1>4
    <2>6. InQueue' = InQueue \cup A
      <3>1. InQueue' \subseteq InQueue \cup A
        <4>1. \A i \in 1..Len(q') : q'[i] \in InQueue \/ q'[i] \in A
          BY Zenon, <2>2, <2>3
        <4> QED
          BY <4>1 DEF InQueue
      <3>2. InQueue \subseteq InQueue'
        BY Zenon, <1>4, <2>4 DEF InQueue
      <3>3. A \subseteq InQueue'
        BY ZenonT(30), <1>4, <2>2, <2>5 DEF InQueue
      <3> QED
        BY <3>1, <3>2, <3>3
    <2>7. \A i, j \in 1..Len(q') : q'[i] = q'[j] => i = j
      <3>1. /\ InLookup \cap InQueue = {}
            /\ \A a, c \in 1..Len(q) : q[a] = q[c] => a = c
            /\ \A a, c \in 1..Len(t) : t[a] = t[c] => a = c
        BY DEF PoolInv, NothingLost, Wipes
      <3> SUFFICES ASSUME NEW i \in 1..Len(q'), NEW j \in 1..Len(q'), q'[i] = q'[j]
                   PROVE  i = j
        OBVIOUS
      <3>2. CASE i \in 1..Len(q) /\ q'[i] = q[i] /\ q[i] \in InQueue
        BY Zenon, <2>2, <2>3, <3>1, <3>2
      <3>3. CASE \E a \in 1..Len(t) : i = Len(q) + a /\ q'[i] = t[a]
        <4> PICK a \in 1..Len(t) : i = Len(q) + a /\ q'[i] = t[a]
          BY <3>3
        <4>1. PICK c \in 1..Len(t) : j = Len(q) + c /\ q'[j] = t[c]
          BY Zenon, <2>2, <2>3, <3>1
        <4> QED
          BY <3>1, <4>1
      <3> QED
        BY <2>3, <3>2, <3>3
    <2>8. unique' = unique /\ outside' = outside
      BY DEF Wipes
    <2> HIDE DEF A
    <2> QED
      BY <2>1, <2>6, <2>7, <2>8 DEF PoolInv, NothingLost
  <1>8. Counted'
    <2>1. Parked \cap W = W
      OBVIOUS
    <2>2. /\ Cardinality(Parked) \in Nat
          /\ Cardinality(Parked \ W) = Cardinality(Parked) - Len(t)
      <3>1. IsFiniteSet(Parked) /\ Cardinality(W) = Len(t)
        BY KeysFinite DEF Wipes
      <3> QED
        <4>1. Cardinality(Parked \ W) = Cardinality(Parked) - Cardinality(Parked \cap W)
          BY Zenon, <3>1, FS_Difference
        <4>2. Cardinality(Parked) \in Nat
          BY <3>1, FS_CardinalityType
        <4> QED
          BY Zenon, <2>1, <3>1, <4>1, <4>2
    <2> QED
      BY <1>1, <1>4, <2>2 DEF PoolInv, Counted, Wipes
  <1> QED
    BY <1>5, <1>6, <1>7, <1>8 DEF PoolInv

LEMMA Resetting ==
  ASSUME PoolInv, NEW hs \in Seq(Hashes \cup {0}), reset(hs)
  PROVE  PoolInv'
  <1> DEFINE W == {hs[i] : i \in 1..Len(hs)}
             t == [i \in 1..Len(hs) |-> lookup_map[hs[i]]]
  <1>1. W \in SUBSET Parked /\ Len(hs) \in Nat
    BY DEF reset
  <1>2. \A h, x \in Parked : lookup_map[h] \in Blocks /\ (lookup_map[h] = lookup_map[x] => h = x)
    BY Zenon DEF PoolInv, IndexesAgree, PoolTypeOK
  <1>3. t \in Seq(Blocks) /\ Len(t) = Len(hs) /\ \A i \in 1..Len(hs) : t[i] = lookup_map[hs[i]]
    <2>1. \A i \in 1..Len(hs) : lookup_map[hs[i]] \in Blocks
      BY <1>1, <1>2
    <2> QED
      BY <1>1, <2>1, IsASeq, LenProperties
  <1>4. \A i, j \in 1..Len(hs) : hs[i] = hs[j] => i = j
    BY DEF reset
  <1>5. Cardinality(W) = Len(hs)
    <2>1. /\ \A i \in 1..Len(hs) : hs[i] \in W
          /\ \A h \in W : \E i \in 1..Len(hs) : h = hs[i]
      OBVIOUS
    <2> HIDE DEF W
    <2> QED
      BY Zenon, <1>1, <1>4, <2>1, DistinctElements
  <1>6. Wipes(W, t)
    <2>1. \A i, j \in 1..Len(t) : t[i] = t[j] => i = j
      BY <1>1, <1>2, <1>3, <1>4
    <2>2. /\ \A i \in 1..Len(t) : \E h \in W : t[i] = lookup_map[h]
          /\ \A h \in W : \E i \in 1..Len(t) : t[i] = lookup_map[h]
      BY <1>3
    <2>3. Len(t) = Cardinality(W)
      BY Zenon, <1>3, <1>5
    <2> QED
      BY Zenon, <2>1, <2>2, <2>3 DEF reset, Wipes
  <1> HIDE DEF W, t
  <1> QED
    BY <1>1, <1>3, <1>6, Wiping

-------------------------------------------------------------------------------
LEMMA Matching ==
  ASSUME PoolInv, NEW hs \in Seq(Hashes \cup {0}), NEW n \in 0..Len(hs), match_blocks(hs, n)
  PROVE  PoolInv'
  <1> DEFINE R == {hs[i] : i \in 1..n}
  <1>1. /\ R \in SUBSET Parked /\ n \in Nat /\ \A i, j \in 1..n : hs[i] = hs[j] => i = j
    BY DEF match_blocks, MatchErasing, Matches
  <1>2. Cardinality(R) = n
    <2>1. (\A i \in 1..n : hs[i] \in R) /\ \A h \in R : \E i \in 1..n : h = hs[i]
      OBVIOUS
    <2> HIDE DEF R
    <2> QED
      BY Zenon, <1>1, <2>1, DistinctElements
  <1>3. Removes(R, 0)
    <2>1. SubSeq(uninitialized_set, 0 + 1, Len(uninitialized_set)) = uninitialized_set
      BY SubSeqFull DEF PoolInv, PoolTypeOK
    <2>2. /\ {KeyAt(hs[i]) : i \in 1..n} = {KeyAt(h) : h \in R}
          /\ {uninitialized_set[i] : i \in 1..0} = {}
      OBVIOUS
    <2> QED
      BY <1>1, <1>2, <2>1, <2>2 DEF match_blocks, MatchErasing, Removes
  <1>4. 0 \in 0..Len(uninitialized_set)
    BY DEF PoolInv, PoolTypeOK
  <1> HIDE DEF R
  <1> QED
    BY <1>1, <1>3, <1>4, Removal

LEMMA Taking ==
  ASSUME PoolInv, NEW count \in Nat, NEW u \in 0..count, NEW ks \in SUBSET priority_set,
         take_blocks(count, u, ks)
  PROVE  PoolInv'
  <1> DEFINE R == {k.sequence_hash : k \in ks}
  <1>1. /\ \A k \in ks : k.sequence_hash \in Parked /\ KeyAt(k.sequence_hash) = k
        /\ IsFiniteSet(ks) /\ R \in SUBSET Parked
    BY KeysFinite, FS_Subset
  <1>2. Cardinality(R) = Cardinality(ks)
    <2>1. (\A k \in ks : k.sequence_hash \in R) /\ \A h \in R : \E k \in ks : h = k.sequence_hash
      OBVIOUS
    <2>2. \A k, l \in ks : k.sequence_hash = l.sequence_hash => k = l
      BY <1>1
    <2> HIDE DEF R
    <2> QED
      BY <1>1, <2>1, <2>2, DistinctHashes
  <1>3. u \in 0..Len(uninitialized_set)
    BY DEF take_blocks, TakeCounting, Takes, PoolInv, PoolTypeOK
  <1>4. Removes(R, u)
    <2>1. {KeyAt(h) : h \in R} = ks
      BY <1>1
    <2>2. {lookup_map[k.sequence_hash] : k \in {l \in ks : l.sequence_hash \in Parked}}
            = {lookup_map[h] : h \in R}
      BY <1>1
    <2>3. unique' = unique \cup {lookup_map[h] : h \in R} \cup {uninitialized_set[i] : i \in 1..u}
      BY <2>2 DEF take_blocks, TakeCounting, TakenBlocks
    <2>4. thrown' = thrown
      BY <1>1 DEF take_blocks, TakeCounting, PoolInv, IndexesAgree, PoolTypeOK
    <2> QED
      BY <1>2, <2>1, <2>3, <2>4 DEF take_blocks, TakeCounting, Removes
  <1> HIDE DEF R
  <1> QED
    BY <1>1, <1>3, <1>4, Removal

LEMMA Inserting ==
  ASSUME PoolInv, NEW b \in Blocks,
         \/ return_block(b)
         \/ \E h \in Hashes \cup {0}, p \in Priorities : insert(b, h, p)
  PROVE  PoolInv'
  <1>1. return_tick \in Nat /\ MaxTick \in Nat /\ total_blocks \in Nat
    BY PoolAssumption DEF PoolInv, PoolTypeOK
  <1>2. unique \cap outside = {}
    BY DEF PoolInv, NothingLost
  <1>3. CASE return_block(b)
    <2> DEFINE rec == [block[b] EXCEPT !.return_tick = return_tick']
    <2>1. rec \in KvBlock
      <3>1. block[b] \in KvBlock /\ return_tick' \in 0..MaxTick
        BY <1>1, <1>3 DEF return_block, Tick, PoolInv, PoolTypeOK
      <3> HIDE DEF PoolInv
      <3> QED
        BY <3>1 DEF KvBlock
    <2>2. Parks(b, rec) /\ b \in unique
      BY <1>1, <1>2, <1>3 DEF return_block, Tick, Parks
    <2> HIDE DEF rec
    <2> QED
      BY <2>1, <2>2, Parking
  <1>4. ASSUME NEW h \in Hashes \cup {0}, NEW p \in Priorities, insert(b, h, p)
        PROVE  PoolInv'
    <2> DEFINE rec == [sequence_hash |-> h, priority |-> p, return_tick |-> return_tick']
    <2>1. rec \in KvBlock
      BY <1>1, <1>4 DEF insert, Tick, KvBlock
    <2>2. Parks(b, rec) /\ b \in outside
      BY <1>1, <1>2, <1>4 DEF insert, Tick, Parks
    <2> HIDE DEF rec
    <2> QED
      BY <2>1, <2>2, Parking
  <1> QED
    BY <1>3, <1>4

-------------------------------------------------------------------------------
LEMMA Initially == PoolInit => PoolInv
  <1> SUFFICES ASSUME PoolInit PROVE PoolInv
    OBVIOUS
  <1>1. Parked = {} /\ InLookup = {} /\ InQueue = {}
    BY DEF PoolInit, Parked, InLookup, InQueue
  <1>2. PoolTypeOK
    <2>1. Blank \in KvBlock
      BY PoolAssumption DEF Blank, KvBlock
    <2>2. lookup_map \in [{} -> Blocks]
      BY DEF PoolInit
    <2>3. block \in [Blocks -> KvBlock] /\ uninitialized_set \in Seq(Blocks)
      BY <2>1 DEF PoolInit
    <2>4. priority_set \subseteq KvBlock /\ return_tick \in 0..MaxTick
      BY PoolAssumption DEF PoolInit
    <2>5. Parked \subseteq Hashes /\ lookup_map \in [Parked -> Blocks]
      BY <1>1, <2>2
    <2>6. /\ available_blocks \in Int /\ total_blocks \in Nat
          /\ unique \subseteq Blocks /\ outside \subseteq Blocks
      BY DEF PoolInit
    <2>7. thrown \in BOOLEAN
      BY Zenon DEF PoolInit
    <2> QED
      BY <2>3, <2>4, <2>5, <2>6, <2>7 DEF PoolTypeOK
  <1>3. IndexesAgree /\ NothingLost
    BY <1>1 DEF PoolInit, IndexesAgree, NothingLost
  <1>4. Counted
    BY <1>1, FS_EmptySet DEF PoolInit, Counted
  <1> QED
    BY <1>2, <1>3, <1>4 DEF PoolInv

LEMMA Preserved == PoolInv /\ [PoolNext]_poolVars => PoolInv'
  <1> SUFFICES ASSUME PoolInv, [PoolNext]_poolVars PROVE PoolInv'
    OBVIOUS
  <1>1. ASSUME NEW b \in Blocks, return_block(b) PROVE PoolInv'
    BY <1>1, Inserting
  <1>2. ASSUME NEW b \in Blocks, take(b) PROVE PoolInv'
    BY <1>2, Holding
  <1>3. ASSUME NEW b \in Blocks, NEW h \in Hashes \cup {0}, update_token_block(b, h) PROVE PoolInv'
    BY <1>3, Holding
  <1>4. ASSUME NEW b \in Blocks, NEW h \in Hashes \cup {0}, NEW p \in Priorities, insert(b, h, p)
        PROVE  PoolInv'
    BY <1>4, Inserting
  <1>5. ASSUME NEW hs \in Seq(Hashes \cup {0}), reset(hs) PROVE PoolInv'
    BY <1>5, Resetting
  <1>6. ASSUME NEW hs \in Seq(Hashes \cup {0}), NEW n \in 0..Len(hs), match_blocks(hs, n)
        PROVE  PoolInv'
    BY <1>6, Matching
  <1>7. ASSUME NEW count \in Nat, NEW u \in 0..count, NEW ks \in SUBSET priority_set,
               take_blocks(count, u, ks)
        PROVE  PoolInv'
    BY <1>7, Taking
  <1>8. ASSUME NEW S \in SUBSET Parked, NEW f \in [S -> Priorities], update_priorities(f)
        PROVE  PoolInv'
    BY <1>8, Prioritizing
  <1>9. CASE UNCHANGED poolVars
    <2>1. PoolTypeOK'
      BY <1>9 DEF poolVars, PoolInv, PoolTypeOK, Parked, KvBlock
    <2>2. IndexesAgree' /\ NothingLost' /\ Counted'
      BY <1>9 DEF poolVars, PoolInv, IndexesAgree, NothingLost, Counted, Parked, KeyAt, InLookup,
                  InQueue
    <2> QED
      BY <2>1, <2>2 DEF PoolInv
  <1> QED
    BY <1>1, <1>2, <1>3, <1>4, <1>5, <1>6, <1>7, <1>8, <1>9 DEF PoolNext

(* Every operation of the pool keeps all four properties. *)
THEOREM PoolInvariant == PoolSpec => []PoolInv
  BY Initially, Preserved, PTL DEF PoolSpec

(* The pool's state is well formed: no hash 0 is ever parked, and no tick or  *)
(* priority is out of its range.                                              *)
THEOREM PoolTypeCorrect == PoolSpec => []PoolTypeOK
  <1>1. PoolInv => PoolTypeOK
    BY DEF PoolInv
  <1> QED
    BY <1>1, PoolInvariant, PTL

(* lookup_map and priority_set never disagree: the exceptions of              *)
(* reuse.cpp:84 and :209 are unreachable.                                     *)
THEOREM PoolIndexesAgree == PoolSpec => []IndexesAgree
  <1>1. PoolInv => IndexesAgree
    BY DEF PoolInv
  <1> QED
    BY <1>1, PoolInvariant, PTL

(* No operation of the pool loses a block or hands it out twice. *)
THEOREM PoolNothingLost == PoolSpec => []NothingLost
  <1>1. PoolInv => NothingLost
    BY DEF PoolInv
  <1> QED
    BY <1>1, PoolInvariant, PTL

(* available_blocks() is the number of parked blocks, so it never wraps below *)
(* zero.                                                                      *)
THEOREM PoolCounted == PoolSpec => []Counted
  <1>1. PoolInv => Counted
    BY DEF PoolInv
  <1> QED
    BY <1>1, PoolInvariant, PTL
===============================================================================
