--------------------------- MODULE KvManagerProofs ---------------------------
(***************************************************************************)
(* Every step of the storage manager is an operation of the pool or leaves *)
(* the pool alone, so what is proved of the pool holds of the manager, for *)
(* any number of requests, blocks and hashes.                              *)
(***************************************************************************)
EXTENDS KvManager, KvPoolProofs

(* What the pool's operations need to know of the manager's state. *)
HandlesOK ==
  /\ prompt \in [Requests -> Seq(Hashes)]
  /\ inflight \in [Requests -> Seq(Blocks)] /\ reusable \in [Requests -> Seq(Blocks)]
  /\ complete \in [Requests -> Seq(Blocks)]
  /\ map \in [DOMAIN map -> Blocks]

(* A request that gives up a duplicate still holds it. *)
DuplicateHeld ==
  /\ pc = [r \in Requests |-> pc[r]]
  /\ \A r \in Requests : pc[r] = "duplicate" => reusable[r] # << >>

ManagerInv == PoolInv /\ HandlesOK /\ DuplicateHeld

LEMMA RemainingType ==
  ASSUME HandlesOK, NEW r \in Requests
  PROVE  Remaining(r) \in Seq(Hashes) /\ Len(Remaining(r)) \in Nat
  <1> DEFINE m == Len(inflight[r]) + 1
             p == prompt[r]
  <1>1. p \in Seq(Hashes) /\ Len(p) \in Nat /\ m \in Nat /\ m >= 1
    BY DEF HandlesOK
  <1>2. CASE m > Len(p)
    <2>1. Remaining(r) = SubSeq(p, m, Len(p))
      BY DEF Remaining
    <2>2. m \in Int /\ Len(p) \in Int /\ Len(p) < m
      BY <1>1, <1>2
    <2> HIDE DEF m, p
    <2>3. SubSeq(p, m, Len(p)) = << >>
      BY <2>2, SubSeqEmpty
    <2> QED
      BY <2>1, <2>3
  <1>3. CASE m <= Len(p)
    <2>1. m \in 1..Len(p) + 1 /\ Len(p) \in m - 1..Len(p)
      BY <1>1, <1>3
    <2>2. Remaining(r) \in Seq(Hashes)
      BY <1>1, <2>1, SubSeqProperties DEF Remaining
    <2> QED
      BY <2>2
  <1> QED
    BY <1>1, <1>2, <1>3

(* The blocks of distinct hashes, in any order, make a sequence of hashes. *)
LEMMA SetToSeqsType ==
  ASSUME NEW S, IsFiniteSet(S), NEW s \in SetToSeqs(S)
  PROVE  s \in Seq(S)
  <1>1. Cardinality(S) \in Nat
    BY FS_CardinalityType
  <1>2. s \in [1..Cardinality(S) -> S]
    BY DEF SetToSeqs
  <1> QED
    BY <1>1, <1>2

(* The operation of the pool behind each step. *)
LEMMA PoolStep ==
  ASSUME ManagerInv, [Next]_vars
  PROVE  [PoolNext]_poolVars
  <1> USE DEF ManagerInv
  <1>1. ASSUME NEW b \in unique, return_block(b) PROVE PoolNext
    BY <1>1 DEF PoolInv, PoolTypeOK, PoolNext
  <1>2. ASSUME NEW r \in Requests, Prepare(r) PROVE [PoolNext]_poolVars
    <2>1. CASE match_token_blocks(r)
      <3>1. Remaining(r) \in Seq(Hashes \cup {0})
        BY RemainingType
      <3>2. \E n \in 0..Len(Remaining(r)) : match_blocks(Remaining(r), n)
        BY <2>1 DEF match_token_blocks, MatchPool
      <3> QED
        BY <3>1, <3>2 DEF PoolNext
    <2>2. CASE return_duplicate(r)
      <3>1. Head(reusable[r]) \in unique /\ return_block(Head(reusable[r]))
        BY <2>2 DEF return_duplicate, return_block
      <3> QED
        BY <1>1, <3>1
    <2>3. CASE prepare_prefill_offload(r)
      <3>1. Len(Remaining(r)) + 1 \in Nat
        BY RemainingType
      <3>2. \E u \in 0..Len(Remaining(r)) + 1, ks \in SUBSET priority_set :
              take_blocks(Len(Remaining(r)) + 1, u, ks)
        BY <2>3 DEF prepare_prefill_offload, OffloadThen
      <3> QED
        BY <3>1, <3>2 DEF PoolNext
    <2>4. CASE assign(r)
      <3> DEFINE b == Last(blocks_to_reuse[r])
                 i == Len(complete[r]) + 1
                 h == Remaining(r)[i]
      <3>1. update_token_block(b, h) /\ Len(complete[r]) < Len(Remaining(r))
        BY <2>4 DEF assign
      <3>2. b \in Blocks
        BY <3>1 DEF update_token_block, PoolInv, PoolTypeOK
      <3>3. h \in Hashes
        <4>1. Len(complete[r]) \in Nat
          BY DEF HandlesOK
        <4>2. i \in 1..Len(Remaining(r))
          BY <3>1, <4>1, RemainingType
        <4> QED
          BY <4>2, RemainingType
      <3> HIDE DEF b, h
      <3> QED
        BY <3>1, <3>2, <3>3 DEF PoolNext
    <2>5. CASE match_sequence_hashes(r) \/ register_block(r) \/ Matched(r) \/ Offloaded(r)
      BY <2>5 DEF match_sequence_hashes, register_block, RegisterIf, Matched, Offloaded
    <2> QED
      BY <1>2, <2>1, <2>2, <2>3, <2>4, <2>5 DEF Prepare
  <1>3. ASSUME NEW r \in Requests, Drop(r) \/ \E hs \in Prompts : Begin(r, hs)
        PROVE  [PoolNext]_poolVars
    <2>1. CASE drop_unique(r)
      <3> DEFINE b == Head(blocks_to_reuse[r] \o complete[r])
      <3>1. b \in unique /\ return_block(b)
        BY Zenon, <2>1 DEF drop_unique, return_block
      <3> HIDE DEF b
      <3> QED
        BY <1>1, <3>1
    <2>2. CASE End(r) \/ drop_reserved(r) \/ Dropped(r) \/ \E hs \in Prompts : Begin(r, hs)
      BY <2>2 DEF End, drop_reserved, DropReserved, Dropped, Begin
    <2> QED
      BY <1>3, <2>1, <2>2 DEF Drop
  <1>4. ASSUME NEW b \in Blocks, erase(b) \/ return_reserved(b)
        PROVE  [PoolNext]_poolVars
    <2>1. CASE erase(b)
      BY <2>1 DEF erase, EraseIf
    <2>2. CASE return_reserved(b)
      BY <1>1, <2>2 DEF return_reserved, return_block
    <2> QED
      BY <1>4, <2>1, <2>2
  <1>5. CASE Owner
    <2>1. ASSUME NEW b \in outside, insert(b, 0, 0) PROVE PoolNext
      BY <2>1, PoolAssumption DEF PoolInv, PoolTypeOK, PoolNext
    <2>2. ASSUME NEW hs \in SUBSET Parked, NEW s \in SetToSeqs(hs), reset(s) PROVE PoolNext
      <3>1. IsFiniteSet(hs)
        BY KeysFinite, FS_Subset
      <3>2. s \in Seq(hs) /\ hs \subseteq Hashes
        BY <3>1, SetToSeqsType DEF PoolInv, PoolTypeOK
      <3>3. s \in Seq(Hashes \cup {0})
        BY <3>2
      <3> QED
        BY <2>2, <3>3 DEF PoolNext
    <2>3. ASSUME NEW hs \in SUBSET Parked, NEW f \in [hs -> Priorities], update_priorities(f)
          PROVE  PoolNext
      BY <2>3 DEF PoolNext
    <2> QED
      BY <1>5, <2>1, <2>2, <2>3 DEF Owner
  <1>6. CASE UNCHANGED vars
    BY <1>6 DEF vars
  <1> QED
    BY <1>2, <1>3, <1>4, <1>5, <1>6 DEF Next

-------------------------------------------------------------------------------
LEMMA HandlesInit == Init => ManagerInv
  <1> SUFFICES ASSUME Init PROVE ManagerInv
    OBVIOUS
  <1>1. PoolInv
    BY Initially DEF Init
  <1>2. HandlesOK
    BY DEF Init, HandlesOK
  <1>3. DuplicateHeld
    BY DEF Init, DuplicateHeld
  <1> QED
    BY <1>1, <1>2, <1>3 DEF ManagerInv

LEMMA HandlesStep ==
  ASSUME ManagerInv, [Next]_vars
  PROVE  HandlesOK'
  <1> USE DEF ManagerInv
  <1>1. ASSUME NEW r \in Requests, match_sequence_hashes(r) PROVE HandlesOK'
    <2>1. PICK n \in 0..Len(prompt[r]) :
            /\ InFlightPrefix(prompt[r], n)
            /\ inflight' = [inflight EXCEPT ![r] = [i \in 1..n |-> map[prompt[r][i]]]]
      BY ZenonT(30), <1>1 DEF match_sequence_hashes
    <2>2. \A i \in 1..n : map[prompt[r][i]] \in Blocks
      BY <2>1 DEF InFlightPrefix, HandlesOK
    <2>3. n \in Nat
      BY DEF HandlesOK
    <2>4. [i \in 1..n |-> map[prompt[r][i]]] \in Seq(Blocks)
      BY <2>2, <2>3
    <2> QED
      BY Zenon, <1>1, <2>1, <2>4 DEF HandlesOK, match_sequence_hashes
  <1>2. ASSUME NEW r \in Requests, match_token_blocks(r) PROVE HandlesOK'
    <2>1. PICK n \in 0..Len(Remaining(r)) :
            /\ match_blocks(Remaining(r), n)
            /\ reusable' = [reusable EXCEPT ![r] = [i \in 1..n |-> lookup_map[Remaining(r)[i]]]]
      BY Zenon, <1>2 DEF match_token_blocks, MatchPool
    <2>2. \A i \in 1..n : lookup_map[Remaining(r)[i]] \in Blocks
      BY <2>1 DEF match_blocks, MatchErasing, Matches, PoolInv, PoolTypeOK
    <2>3. n \in Nat
      BY RemainingType
    <2>4. [i \in 1..n |-> lookup_map[Remaining(r)[i]]] \in Seq(Blocks)
      BY <2>2, <2>3
    <2> QED
      BY Zenon, <1>2, <2>1, <2>4 DEF HandlesOK, match_token_blocks, MatchPool
  <1>3. ASSUME NEW r \in Requests, register_block(r) PROVE HandlesOK'
    <2> DEFINE b == Head(reusable[r])
               h == Hash(b)
    <2>1. b \in Blocks /\ Tail(reusable[r]) \in Seq(Blocks) /\ UNCHANGED <<prompt, complete>>
      BY <1>3 DEF register_block, RegisterIf, HandlesOK
    <2>2. CASE h \in DOMAIN map /\ map[h] \in Live
      <3>1. /\ inflight' = [inflight EXCEPT ![r] = Append(@, map[h])]
            /\ UNCHANGED <<reusable, map>>
        BY <1>3, <2>2 DEF register_block, RegisterIf
      <3>2. Append(inflight[r], map[h]) \in Seq(Blocks)
        BY <2>2 DEF HandlesOK
      <3> QED
        BY <2>1, <3>1, <3>2 DEF HandlesOK
    <2>3. CASE ~(h \in DOMAIN map /\ map[h] \in Live)
      <3>1. /\ inflight' = [inflight EXCEPT ![r] = Append(@, b)]
            /\ map' = [x \in DOMAIN map \cup {h} |-> IF x = h THEN b ELSE map[x]]
            /\ reusable' = [reusable EXCEPT ![r] = Tail(@)]
        BY <1>3, <2>3 DEF register_block, RegisterIf
      <3>2. Append(inflight[r], b) \in Seq(Blocks)
        BY <2>1 DEF HandlesOK
      <3>3. map' \in [DOMAIN map' -> Blocks]
        BY <2>1, <3>1 DEF HandlesOK
      <3> QED
        BY SMTT(20), <2>1, <3>1, <3>2, <3>3 DEF HandlesOK
    <2> QED
      BY <2>2, <2>3
  <1>4. ASSUME NEW r \in Requests, return_duplicate(r) PROVE HandlesOK'
    <2>1. Tail(reusable[r]) \in Seq(Blocks)
      BY <1>4 DEF return_duplicate, HandlesOK, DuplicateHeld
    <2> QED
      BY <1>4, <2>1 DEF return_duplicate, HandlesOK
  <1>5. ASSUME NEW r \in Requests, assign(r) PROVE HandlesOK'
    <2>1. Last(blocks_to_reuse[r]) \in Blocks
      BY <1>5 DEF assign, update_token_block, PoolInv, PoolTypeOK
    <2>2. Append(complete[r], Last(blocks_to_reuse[r])) \in Seq(Blocks)
      BY <2>1 DEF HandlesOK
    <2> QED
      BY <1>5, <2>2 DEF assign, HandlesOK
  <1>6. ASSUME NEW r \in Requests, drop_reserved(r) PROVE HandlesOK'
    <2>1. Tail(inflight[r]) \in Seq(Blocks)
      BY <1>6 DEF drop_reserved, DropReserved, HandlesOK
    <2> QED
      BY <1>6, <2>1 DEF drop_reserved, DropReserved, HandlesOK
  <1>7. ASSUME NEW r \in Requests, drop_unique(r) PROVE HandlesOK'
    <2>1. CASE blocks_to_reuse[r] # << >>
      BY <1>7, <2>1 DEF drop_unique, HandlesOK
    <2>2. CASE blocks_to_reuse[r] = << >>
      <3>1. complete[r] \in Seq(Blocks)
        BY DEF HandlesOK
      <3>2. << >> \o complete[r] = complete[r]
        BY <3>1
      <3>3. complete[r] # << >>
        BY <1>7, <2>2, <3>2 DEF drop_unique
      <3>4. Tail(complete[r]) \in Seq(Blocks)
        BY <3>1, <3>3
      <3> QED
        BY ZenonT(30), <1>7, <2>2, <3>4 DEF drop_unique, HandlesOK
    <2> QED
      BY <2>1, <2>2
  <1>8. ASSUME NEW r \in Requests, NEW hs \in Prompts, Begin(r, hs) PROVE HandlesOK'
    BY <1>8, ManagerAssumption DEF Begin, HandlesOK
  <1>9. ASSUME NEW r \in Requests, Dropped(r) PROVE HandlesOK'
    BY <1>9 DEF Dropped, HandlesOK
  <1>10. ASSUME NEW r \in Requests,
                Matched(r) \/ Offloaded(r) \/ End(r) \/ prepare_prefill_offload(r)
         PROVE  HandlesOK'
    BY <1>10 DEF Matched, Offloaded, End, prepare_prefill_offload, OffloadThen, HandlesOK
  <1>11. ASSUME NEW b \in Blocks, erase(b) PROVE HandlesOK'
    <2>1. map' \in [DOMAIN map' -> Blocks]
      BY <1>11 DEF erase, EraseIf, HandlesOK
    <2> QED
      BY <1>11, <2>1 DEF erase, EraseIf, HandlesOK
  <1>12. ASSUME NEW b \in Blocks, return_reserved(b) PROVE HandlesOK'
    BY <1>12 DEF return_reserved, HandlesOK
  <1>13. CASE Owner \/ UNCHANGED vars
    <2>1. UNCHANGED managerVars
      BY <1>13 DEF Owner, vars
    <2> QED
      BY <2>1 DEF managerVars, HandlesOK
  <1> QED
    BY <1>1, <1>2, <1>3, <1>4, <1>5, <1>6, <1>7, <1>8, <1>9, <1>10, <1>11, <1>12, <1>13
    DEF Next, Prepare, Drop

(* A step of r that does not find a duplicate, or one that leaves r alone. *)
LEMMA Elsewhere ==
  ASSUME DuplicateHeld, NEW r \in Requests,
         \A q \in Requests \ {r} : reusable'[q] = reusable[q],
         NEW w, w # "duplicate", pc' = [pc EXCEPT ![r] = w]
  PROVE  DuplicateHeld'
  BY DEF DuplicateHeld

LEMMA DuplicateStep ==
  ASSUME ManagerInv, [Next]_vars
  PROVE  DuplicateHeld'
  <1> USE DEF ManagerInv
  <1>1. ASSUME NEW r \in Requests, register_block(r) PROVE DuplicateHeld'
    <2> DEFINE exists == Hash(Head(reusable[r])) \in DOMAIN map /\ map[Hash(Head(reusable[r]))] \in Live
    <2>1. CASE exists
      <3>1. pc' = [pc EXCEPT ![r] = "duplicate"] /\ reusable[r] # << >> /\ reusable' = reusable
        BY <1>1, <2>1 DEF register_block, RegisterIf, At
      <3> QED
        BY <3>1 DEF DuplicateHeld
    <2>2. CASE ~exists
      <3>1. pc' = pc /\ pc[r] = "register" /\ reusable' = [reusable EXCEPT ![r] = Tail(@)]
        BY <1>1, <2>2 DEF register_block, RegisterIf
      <3>2. \A q \in Requests \ {r} : reusable'[q] = reusable[q]
        BY <3>1 DEF HandlesOK
      <3> QED
        BY <3>1, <3>2 DEF DuplicateHeld
    <2> QED
      BY <2>1, <2>2
  <1>2. ASSUME NEW r \in Requests, match_token_blocks(r) PROVE DuplicateHeld'
    <2>1. pc' = [pc EXCEPT ![r] = "register"]
      BY <1>2 DEF match_token_blocks, MatchPool, At
    <2>2. \A q \in Requests \ {r} : reusable'[q] = reusable[q]
      BY <1>2 DEF match_token_blocks, MatchPool, HandlesOK
    <2> QED
      BY Zenon, <2>1, <2>2, Elsewhere
  <1>3. ASSUME NEW r \in Requests, return_duplicate(r) PROVE DuplicateHeld'
    <2>1. pc' = [pc EXCEPT ![r] = "register"] /\ reusable' = [reusable EXCEPT ![r] = Tail(@)]
      BY <1>3 DEF return_duplicate, At
    <2>2. \A q \in Requests \ {r} : reusable'[q] = reusable[q]
      BY <2>1 DEF HandlesOK
    <2> QED
      BY Zenon, <2>1, <2>2, Elsewhere
  <1>4. ASSUME NEW r \in Requests, prepare_prefill_offload(r) PROVE DuplicateHeld'
    <2>1. /\ pc' = [pc EXCEPT ![r] = "assign"] \/ pc' = [pc EXCEPT ![r] = "drop"]
          /\ reusable' = reusable
      BY Zenon, <1>4 DEF prepare_prefill_offload, OffloadThen, At
    <2> QED
      BY <2>1, Elsewhere
  <1>5. ASSUME NEW r \in Requests,
               \/ match_sequence_hashes(r) \/ Matched(r) \/ Offloaded(r) \/ End(r) \/ Dropped(r)
               \/ \E hs \in Prompts : Begin(r, hs)
        PROVE  DuplicateHeld'
    <2>1. /\ reusable' = reusable
          /\ \E w \in {"match_pool", "matched", "prefilled", "drop", "idle", "match"} :
               pc' = [pc EXCEPT ![r] = w]
      BY <1>5 DEF match_sequence_hashes, Matched, Offloaded, End, Dropped, Begin, At
    <2> QED
      BY ZenonT(30), <2>1, Elsewhere
  <1>6. ASSUME UNCHANGED <<pc, reusable>> PROVE DuplicateHeld'
    BY <1>6 DEF DuplicateHeld
  <1>7. ASSUME NEW r \in Requests, assign(r) \/ drop_reserved(r) \/ drop_unique(r)
        PROVE  DuplicateHeld'
    BY ZenonT(30), <1>6, <1>7 DEF assign, drop_reserved, DropReserved, drop_unique
  <1>8. ASSUME NEW b \in Blocks, erase(b) \/ return_reserved(b) PROVE DuplicateHeld'
    BY <1>6, <1>8 DEF erase, EraseIf, return_reserved
  <1>9. CASE Owner \/ UNCHANGED vars
    BY <1>6, <1>9 DEF Owner, vars, managerVars
  <1> QED
    BY <1>1, <1>2, <1>3, <1>4, <1>5, <1>7, <1>8, <1>9 DEF Next, Prepare, Drop

LEMMA ManagerInvariant == Spec => []ManagerInv
  <1>1. ManagerInv /\ [Next]_vars => ManagerInv'
    BY PoolStep, Preserved, HandlesStep, DuplicateStep DEF ManagerInv
  <1> QED
    BY <1>1, HandlesInit, PTL DEF Spec

(* The manager uses the pool through its operations only: preparing, sharing  *)
(* and dropping blocks, with every interleaving of requests, implements the   *)
(* pool's specification.                                                      *)
THEOREM ManagerUsesPool == Spec => PoolSpec
  <1>1. Init => PoolInit
    BY DEF Init
  <1>2. ManagerInv /\ [Next]_vars => [PoolNext]_poolVars
    BY PoolStep
  <1> QED
    BY <1>1, <1>2, ManagerInvariant, PTL DEF Spec, PoolSpec

(* Under the manager the pool's indexes never disagree: no request ever sees  *)
(* the logic_error of reuse.cpp:84.                                           *)
THEOREM ManagerIndexesAgree == Spec => []IndexesAgree
  BY ManagerUsesPool, PoolIndexesAgree, PTL

(* Under the manager no block is lost or handed out twice, failed offloads,   *)
(* racing registrations and last drops included.                              *)
THEOREM ManagerNothingLost == Spec => []NothingLost
  BY ManagerUsesPool, PoolNothingLost, PTL

(* Under the manager available_blocks is the number of idle blocks. *)
THEOREM ManagerCounted == Spec => []Counted
  BY ManagerUsesPool, PoolCounted, PTL
===============================================================================
