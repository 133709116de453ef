-------------------------------- MODULE KvPool --------------------------------
(***************************************************************************)
(* The pool of idle KV-cache blocks (llm/kv/reuse.cpp): parked blocks are  *)
(* found by their sequence hash or taken in eviction order, through two    *)
(* indexes that must agree.  Every operation runs under one mutex.         *)
(*                                                                         *)
(* Abstractions.  A block is a name, and block its KvBlock; a sequence     *)
(* hash is a number, 0 that of a block without tokens.  The pool outlives  *)
(* its blocks' handles.                                                    *)
(***************************************************************************)
EXTENDS Integers, Sequences, FiniteSets

CONSTANTS Blocks,      \* the blocks
          Hashes,      \* the sequence hashes of full blocks
          Priorities,  \* their priorities
          MaxTick      \* bound: returns and inserts

ASSUME PoolAssumption ==
  /\ IsFiniteSet(Blocks) /\ IsFiniteSet(Hashes) /\ Hashes \subseteq Nat \ {0}
  /\ Priorities \subseteq Nat /\ 0 \in Priorities /\ MaxTick \in Nat

VARIABLES block,             \* per block, its KvBlock
          lookup_map,        \* hash |-> the block parked under it
          priority_set,      \* the keys of the eviction order
          uninitialized_set, \* the queue of blocks without state
          return_tick, available_blocks, total_blocks,
          unique,            \* the blocks in a UniqueBlock
          outside,           \* the blocks that are not the pool's
          thrown             \* a key had no block: logic_error

poolVars == <<block, lookup_map, priority_set, uninitialized_set, return_tick, available_blocks,
              total_blocks, unique, outside, thrown>>

KvBlock == [sequence_hash : Hashes \cup {0}, priority : Priorities, return_tick : 0..MaxTick]
Blank == [sequence_hash |-> 0, priority |-> 0, return_tick |-> 0]

(* The key of a KvBlock has the same three fields. *)
key_of(rec) == rec

Before(k, l) ==
  \/ k.priority < l.priority
  \/ k.priority = l.priority /\ k.return_tick < l.return_tick
  \/ k.priority = l.priority /\ k.return_tick = l.return_tick /\ k.sequence_hash < l.sequence_hash

Parked == DOMAIN lookup_map
KeyAt(h) == key_of(block[lookup_map[h]])
Without(hs) == [h \in Parked \ hs |-> lookup_map[h]]
With(h, b) == [x \in Parked \cup {h} |-> IF x = h THEN b ELSE lookup_map[x]]

-------------------------------------------------------------------------------
(* insert_locked: a block without a hash, or with the hash of another parked  *)
(* one, is not worth finding.                                                 *)
InsertUnless(b, rec, useless) ==
  /\ block' = [block EXCEPT ![b] = rec]
  /\ IF useless
     THEN /\ uninitialized_set' = Append(uninitialized_set, b)
          /\ UNCHANGED <<lookup_map, priority_set>>
     ELSE /\ lookup_map' = With(rec.sequence_hash, b)
          /\ priority_set' = priority_set \cup {key_of(rec)}
          /\ UNCHANGED uninitialized_set

(* Mutant: a block with the hash of a parked one takes its place. *)
insert_locked_Replace(b, rec) == InsertUnless(b, rec, rec.sequence_hash = 0)

insert_locked(b, rec) ==
  InsertUnless(b, rec, rec.sequence_hash = 0 \/ rec.sequence_hash \in Parked)

Tick == return_tick < MaxTick /\ return_tick' = return_tick + 1

insert(b, h, p) ==
  /\ b \in outside /\ outside' = outside \ {b} /\ Tick
  /\ available_blocks' = available_blocks + 1 /\ total_blocks' = total_blocks + 1
  /\ insert_locked(b, [sequence_hash |-> h, priority |-> p, return_tick |-> return_tick'])
  /\ UNCHANGED <<unique, thrown>>

(* A UniqueBlock is destroyed, or its block is taken out of it for good. *)
return_block(b) ==
  /\ b \in unique /\ unique' = unique \ {b} /\ Tick
  /\ available_blocks' = available_blocks + 1
  /\ insert_locked(b, [block[b] EXCEPT !.return_tick = return_tick'])
  /\ UNCHANGED <<total_blocks, outside, thrown>>
take(b) ==
  /\ b \in unique /\ unique' = unique \ {b} /\ outside' = outside \cup {b}
  /\ UNCHANGED <<block, lookup_map, priority_set, uninitialized_set, return_tick,
                 available_blocks, total_blocks, thrown>>
update_token_block(b, h) ==
  /\ b \in unique /\ block' = [block EXCEPT ![b].sequence_hash = h]
  /\ UNCHANGED <<lookup_map, priority_set, uninitialized_set, return_tick, available_blocks,
                 total_blocks, unique, outside, thrown>>

-------------------------------------------------------------------------------
(* match_blocks takes the first n blocks: the next one, if any, is not parked *)
(* or was just taken.                                                         *)
Matches(hs, n) ==
  LET first == {hs[i] : i \in 1..n}
  IN /\ n \in 0..Len(hs) /\ first \subseteq Parked
     /\ \A i, j \in 1..n : hs[i] = hs[j] => i = j
     /\ n < Len(hs) => hs[n + 1] \notin Parked \ first

MatchErasing(hs, n, keys) ==
  LET first == {hs[i] : i \in 1..n}
  IN /\ Matches(hs, n)
     /\ lookup_map' = Without(first) /\ priority_set' = priority_set \ keys
     /\ unique' = unique \cup {lookup_map[h] : h \in first}
     /\ available_blocks' = available_blocks - n
     /\ UNCHANGED <<block, uninitialized_set, return_tick, total_blocks, outside, thrown>>

match_blocks_KeepKeys(hs, n) == MatchErasing(hs, n, {})  \* mutant

match_blocks(hs, n) == MatchErasing(hs, n, {KeyAt(hs[i]) : i \in 1..n})

(* take_blocks(count): u blocks without state, oldest first, and then those   *)
(* with the keys ks, the first in eviction order, as far as there are any.    *)
Takes(count, u, ks) ==
  /\ u = IF count <= Len(uninitialized_set) THEN count ELSE Len(uninitialized_set)
  /\ ks \subseteq priority_set /\ \A k \in ks, l \in priority_set \ ks : Before(k, l)
  /\ u + Cardinality(ks) <= count
  /\ u + Cardinality(ks) < count => ks = priority_set

TakenBlocks(u, ks) ==
  {uninitialized_set[i] : i \in 1..u}
    \cup {lookup_map[k.sequence_hash] : k \in {l \in ks : l.sequence_hash \in Parked}}

TakeCounting(count, u, ks, n) ==
  /\ Takes(count, u, ks)
  /\ lookup_map' = Without({k.sequence_hash : k \in ks})
  /\ priority_set' = priority_set \ ks
  /\ uninitialized_set' = SubSeq(uninitialized_set, u + 1, Len(uninitialized_set))
  /\ unique' = unique \cup TakenBlocks(u, ks)
  /\ available_blocks' = available_blocks - n
  /\ thrown' = (thrown \/ \E k \in ks : k.sequence_hash \notin Parked)
  /\ UNCHANGED <<block, return_tick, total_blocks, outside>>

take_blocks_Asked(count, u, ks) == TakeCounting(count, u, ks, count)  \* mutant

take_blocks(count, u, ks) == TakeCounting(count, u, ks, u + Cardinality(ks))

-------------------------------------------------------------------------------
(* update_priorities: f has the last priority given to each hash that is      *)
(* parked; the others are ignored.                                            *)
update_priorities(f) ==
  /\ DOMAIN f \subseteq Parked
  /\ block' = [b \in Blocks |-> IF \E h \in DOMAIN f : lookup_map[h] = b
                                THEN [block[b] EXCEPT !.priority = f[block[b].sequence_hash]]
                                ELSE block[b]]
  /\ priority_set' = (priority_set \ {KeyAt(h) : h \in DOMAIN f})
                       \cup {key_of(block'[lookup_map[h]]) : h \in DOMAIN f}
  /\ UNCHANGED <<lookup_map, uninitialized_set, return_tick, available_blocks, total_blocks,
                 unique, outside, thrown>>

(* reset: hs has each hash that is parked once; reset_all takes them all, in  *)
(* eviction order.                                                            *)
reset(hs) ==
  LET wiped == {hs[i] : i \in 1..Len(hs)}
  IN /\ wiped \subseteq Parked /\ \A i, j \in 1..Len(hs) : hs[i] = hs[j] => i = j
     /\ block' = [b \in Blocks |-> IF \E h \in wiped : lookup_map[h] = b THEN Blank ELSE block[b]]
     /\ lookup_map' = Without(wiped) /\ priority_set' = priority_set \ {KeyAt(h) : h \in wiped}
     /\ uninitialized_set' = uninitialized_set \o [i \in 1..Len(hs) |-> lookup_map[hs[i]]]
     /\ UNCHANGED <<return_tick, available_blocks, total_blocks, unique, outside, thrown>>

-------------------------------------------------------------------------------
PoolInit ==
  /\ block = [b \in Blocks |-> Blank] /\ lookup_map = << >> /\ priority_set = {}
  /\ uninitialized_set = << >> /\ return_tick = 0 /\ available_blocks = 0 /\ total_blocks = 0
  /\ unique = {} /\ outside = Blocks /\ thrown = FALSE

PoolNext ==
  \/ \E b \in Blocks :
       \/ return_block(b) \/ take(b)
       \/ \E h \in Hashes \cup {0} :
            update_token_block(b, h) \/ \E p \in Priorities : insert(b, h, p)
  \/ \E hs \in Seq(Hashes \cup {0}) : reset(hs) \/ \E n \in 0..Len(hs) : match_blocks(hs, n)
  \/ \E count \in Nat : \E u \in 0..count, ks \in SUBSET priority_set : take_blocks(count, u, ks)
  \/ \E hs \in SUBSET Parked : \E f \in [hs -> Priorities] : update_priorities(f)

PoolSpec == PoolInit /\ [][PoolNext]_poolVars

-------------------------------------------------------------------------------
(* Properties *)

PoolTypeOK ==
  /\ block \in [Blocks -> KvBlock]
  /\ Parked \subseteq Hashes /\ lookup_map \in [Parked -> Blocks]
  /\ priority_set \subseteq KvBlock /\ uninitialized_set \in Seq(Blocks)
  /\ return_tick \in 0..MaxTick /\ available_blocks \in Int /\ total_blocks \in Nat
  /\ unique \subseteq Blocks /\ outside \subseteq Blocks /\ thrown \in BOOLEAN

(* The two indexes agree: the eviction order has exactly the keys of the      *)
(* parked blocks, each under its own hash, so reuse.cpp:84 and :209 never     *)
(* throw.                                                                     *)
IndexesAgree ==
  /\ ~thrown
  /\ \A h \in Parked : block[lookup_map[h]].sequence_hash = h
  /\ priority_set = {KeyAt(h) : h \in Parked}

(* No block is lost or handed out twice: it is parked once, in one of the two *)
(* places, or in one UniqueBlock, or outside the pool.                        *)
InLookup == {lookup_map[h] : h \in Parked}
InQueue == {uninitialized_set[i] : i \in 1..Len(uninitialized_set)}
NothingLost ==
  /\ Blocks = (InLookup \cup InQueue) \cup (unique \cup outside)
  /\ (InLookup \cup InQueue) \cap (unique \cup outside) = {}
  /\ InLookup \cap InQueue = {} /\ unique \cap outside = {}
  /\ \A i, j \in 1..Len(uninitialized_set) :
       uninitialized_set[i] = uninitialized_set[j] => i = j

(* available_blocks counts the parked blocks, however they were parked.       *)
Counted == available_blocks = Cardinality(Parked) + Len(uninitialized_set)
===============================================================================
