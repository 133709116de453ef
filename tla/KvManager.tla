------------------------------ MODULE KvManager ------------------------------
(***************************************************************************)
(* The KV storage manager (llm/kv/manager.cpp) over the registry of blocks *)
(* in flight (llm/kv/reserved.cpp) and the pool of idle ones (module       *)
(* KvPool).  Requests, on threads of their own, share blocks in flight by  *)
(* reference; the last reference gives the block back to the pool, in      *)
(* steps that other requests come between.                                 *)
(*                                                                         *)
(* Abstractions.  A request is the sequence of the hashes of its full      *)
(* blocks.  A ReservedBlockInner is named by the block it owns.            *)
(***************************************************************************)
EXTENDS KvPool, SequencesExt

CONSTANTS Requests,  \* the threads that prepare requests
          Prompts    \* the sequences of hashes they ask for

ASSUME ManagerAssumption == Prompts \subseteq Seq(Hashes)

VARIABLES pc,        \* per request, where it is
          prompt,    \* per request, its hashes
          inflight,  \* per request, the blocks it holds in ReservedBlocks
          reusable,  \* per request, the blocks matched in the pool, not registered yet
          blocks_to_reuse,  \* per request, the blocks it took, not assigned yet; at last the tail's
          complete,  \* per request, the blocks assigned to its remaining hashes
          map,       \* the registry: hash |-> the block of the Inner it refers to
          inners,    \* the blocks owned by an Inner
          dying      \* of these, those whose Inner has no reference left

managerVars == <<pc, prompt, inflight, reusable, blocks_to_reuse, complete, map, inners, dying>>
vars == <<poolVars, managerVars>>

At(r, where) == pc' = [pc EXCEPT ![r] = where]
Live == inners \ dying
Hash(b) == block[b].sequence_hash

(* The lengths n of a prefix all of whose hashes are registered and alive.    *)
InFlightPrefix(hs, n) ==
  /\ n \in 0..Len(hs) /\ \A i \in 1..n : hs[i] \in DOMAIN map /\ map[hs[i]] \in Live
  /\ n < Len(hs) => ~(hs[n + 1] \in DOMAIN map /\ map[hs[n + 1]] \in Live)

Remaining(r) == SubSeq(prompt[r], Len(inflight[r]) + 1, Len(prompt[r]))

(* The blocks that take_blocks returns, in the order it takes them. *)
InOrder(u, ks) ==
  LET keys == SetToSortSeq(ks, Before)
  IN SubSeq(uninitialized_set, 1, u) \o [i \in DOMAIN keys |-> lookup_map[keys[i].sequence_hash]]

(* The blocks that nobody but r refers to. *)
OnlyBy(r) == {b \in ToSet(inflight[r]) : \A q \in Requests \ {r} : b \notin ToSet(inflight[q])}

-------------------------------------------------------------------------------
(* prepare_prefill_sequence: match in flight, match in the pool, register. *)

Begin(r, hs) ==
  /\ pc[r] = "idle" /\ At(r, "match")
  /\ prompt' = [prompt EXCEPT ![r] = hs]
  /\ UNCHANGED <<poolVars, inflight, reusable, blocks_to_reuse, complete, map, inners, dying>>

match_sequence_hashes(r) ==
  /\ pc[r] = "match" /\ At(r, "match_pool")
  /\ \E n \in 0..Len(prompt[r]) :
       /\ InFlightPrefix(prompt[r], n)
       /\ inflight' = [inflight EXCEPT ![r] = [i \in 1..n |-> map[prompt[r][i]]]]
  /\ UNCHANGED <<poolVars, prompt, reusable, blocks_to_reuse, complete, map, inners, dying>>

MatchPool(r, hs) ==
  /\ pc[r] = "match_pool" /\ At(r, "register")
  /\ \E n \in 0..Len(hs) :
       /\ match_blocks(hs, n)
       /\ reusable' = [reusable EXCEPT ![r] = [i \in 1..n |-> lookup_map[hs[i]]]]
  /\ UNCHANGED <<prompt, inflight, blocks_to_reuse, complete, map, inners, dying>>

match_token_blocks_Whole(r) == MatchPool(r, prompt[r])  \* mutant: not the unmatched rest

match_token_blocks(r) == MatchPool(r, Remaining(r))

(* register_block: another request may have registered the hash meanwhile;    *)
(* then its block is shared, and this one is given up once the registry is    *)
(* unlocked: step return_duplicate.                                           *)
RegisterIf(r, exists) ==
  LET b == Head(reusable[r])
      h == Hash(b)
  IN /\ pc[r] = "register" /\ reusable[r] # << >>
     /\ IF exists
        THEN /\ inflight' = [inflight EXCEPT ![r] = Append(@, map[h])] /\ At(r, "duplicate")
             /\ UNCHANGED <<reusable, map, inners>>
        ELSE /\ inflight' = [inflight EXCEPT ![r] = Append(@, b)]
             /\ map' = [x \in DOMAIN map \cup {h} |-> IF x = h THEN b ELSE map[x]]
             /\ inners' = inners \cup {b} /\ reusable' = [reusable EXCEPT ![r] = Tail(@)]
             /\ UNCHANGED pc
     /\ UNCHANGED <<poolVars, prompt, blocks_to_reuse, complete, dying>>

register_block(r) ==
  RegisterIf(r, LET h == Hash(Head(reusable[r])) IN h \in DOMAIN map /\ map[h] \in Live)

return_duplicate(r) ==
  /\ pc[r] = "duplicate" /\ At(r, "register")
  /\ return_block(Head(reusable[r]))
  /\ reusable' = [reusable EXCEPT ![r] = Tail(@)]
  /\ UNCHANGED <<prompt, inflight, blocks_to_reuse, complete, map, inners, dying>>

Matched(r) ==
  /\ pc[r] = "register" /\ reusable[r] = << >> /\ At(r, "matched")
  /\ UNCHANGED <<poolVars, prompt, inflight, reusable, blocks_to_reuse, complete, map, inners,
                 dying>>

-------------------------------------------------------------------------------
(* prepare_prefill_offload: a block for each remaining hash and one for the   *)
(* tail, or none: then it throws, which gives everything back.                *)
OffloadThen(r, kept) ==
  LET count == Len(Remaining(r)) + 1
  IN /\ pc[r] = "matched"
     /\ \E u \in 0..count, ks \in SUBSET priority_set :
          LET taken == InOrder(u, ks)
              enough == u + Cardinality(ks) = count
          IN /\ take_blocks(count, u, ks)
             /\ blocks_to_reuse' =
                  [blocks_to_reuse EXCEPT ![r] = IF enough \/ kept THEN taken ELSE << >>]
             /\ At(r, IF enough THEN "assign" ELSE "drop")
     /\ UNCHANGED <<prompt, inflight, reusable, complete, map, inners, dying>>

(* Mutant: what was taken is forgotten when it throws. *)
prepare_prefill_offload_Leak(r) == OffloadThen(r, FALSE)

prepare_prefill_offload(r) == OffloadThen(r, TRUE)

(* The remaining hashes are assigned from the back; the block left, for the   *)
(* tail, keeps what it held.                                                  *)
assign(r) ==
  /\ pc[r] = "assign" /\ Len(complete[r]) < Len(Remaining(r))
  /\ update_token_block(Last(blocks_to_reuse[r]), Remaining(r)[Len(complete[r]) + 1])
  /\ complete' = [complete EXCEPT ![r] = Append(@, Last(blocks_to_reuse[r]))]
  /\ blocks_to_reuse' = [blocks_to_reuse EXCEPT ![r] = Front(@)]
  /\ UNCHANGED <<pc, prompt, inflight, reusable, map, inners, dying>>

Offloaded(r) ==
  /\ pc[r] = "assign" /\ Len(complete[r]) = Len(Remaining(r)) /\ At(r, "prefilled")
  /\ UNCHANGED <<poolVars, prompt, inflight, reusable, blocks_to_reuse, complete, map, inners,
                 dying>>

(* The request ends, or is given up after the match: its handles go, one by   *)
(* one.  The last reference to a block in flight leaves its Inner to die.     *)
End(r) ==
  /\ pc[r] \in {"matched", "prefilled"} /\ At(r, "drop")
  /\ UNCHANGED <<poolVars, prompt, inflight, reusable, blocks_to_reuse, complete, map, inners,
                 dying>>

DropReserved(r, last) ==
  /\ pc[r] = "drop" /\ inflight[r] # << >>
  /\ inflight' = [inflight EXCEPT ![r] = Tail(@)]
  /\ dying' = dying \cup ({Head(inflight[r])} \cap last)
  /\ UNCHANGED <<poolVars, pc, prompt, reusable, blocks_to_reuse, complete, map, inners>>

drop_reserved(r) == DropReserved(r, OnlyBy(r))

drop_unique(r) ==
  /\ pc[r] = "drop" /\ blocks_to_reuse[r] \o complete[r] # << >>
  /\ return_block(Head(blocks_to_reuse[r] \o complete[r]))
  /\ IF blocks_to_reuse[r] # << >>
     THEN blocks_to_reuse' = [blocks_to_reuse EXCEPT ![r] = Tail(@)] /\ UNCHANGED complete
     ELSE complete' = [complete EXCEPT ![r] = Tail(@)] /\ UNCHANGED blocks_to_reuse
  /\ UNCHANGED <<pc, prompt, inflight, reusable, map, inners, dying>>

Dropped(r) ==
  /\ pc[r] = "drop" /\ inflight[r] \o blocks_to_reuse[r] \o complete[r] = << >> /\ At(r, "idle")
  /\ prompt' = [prompt EXCEPT ![r] = << >>]
  /\ UNCHANGED <<poolVars, inflight, reusable, blocks_to_reuse, complete, map, inners, dying>>

-------------------------------------------------------------------------------
(* ~ReservedBlockInner: the registration goes, unless it is that of another   *)
(* Inner that is alive; the block then goes back to the pool.                 *)
EraseIf(b, expired) ==
  /\ b \in dying /\ b \in inners /\ inners' = inners \ {b}
  /\ map' = IF Hash(b) \in DOMAIN map /\ expired
            THEN [h \in DOMAIN map \ {Hash(b)} |-> map[h]] ELSE map
  /\ UNCHANGED <<poolVars, pc, prompt, inflight, reusable, blocks_to_reuse, complete, dying>>

erase_Always(b) == EraseIf(b, TRUE)  \* mutant: whoever's registration it is

erase(b) == EraseIf(b, Hash(b) \in DOMAIN map => map[Hash(b)] \notin Live)

return_reserved(b) ==
  /\ b \in dying /\ b \notin inners /\ dying' = dying \ {b}
  /\ return_block(b)
  /\ UNCHANGED <<pc, prompt, inflight, reusable, blocks_to_reuse, complete, map, inners>>

(* The pool's owner adds blocks, changes priorities and resets blocks. *)
Owner ==
  /\ \/ \E b \in outside : insert(b, 0, 0)
     \/ \E hs \in SUBSET Parked :
          /\ hs # {}
          /\ \/ \E s \in SetToSeqs(hs) : reset(s)
             \/ \E f \in [hs -> Priorities] : update_priorities(f)
  /\ UNCHANGED managerVars

-------------------------------------------------------------------------------
Init ==
  /\ PoolInit
  /\ pc = [r \in Requests |-> "idle"] /\ prompt = [r \in Requests |-> << >>]
  /\ inflight = [r \in Requests |-> << >>] /\ reusable = [r \in Requests |-> << >>]
  /\ blocks_to_reuse = [r \in Requests |-> << >>] /\ complete = [r \in Requests |-> << >>]
  /\ map = << >> /\ inners = {} /\ dying = {}

Prepare(r) == \/ match_sequence_hashes(r) \/ match_token_blocks(r) \/ register_block(r)
              \/ return_duplicate(r) \/ Matched(r) \/ prepare_prefill_offload(r) \/ assign(r)
              \/ Offloaded(r)
Drop(r) == End(r) \/ drop_reserved(r) \/ drop_unique(r) \/ Dropped(r)

Next ==
  \/ \E r \in Requests : Prepare(r) \/ Drop(r) \/ \E hs \in Prompts : Begin(r, hs)
  \/ \E b \in Blocks : erase(b) \/ return_reserved(b)
  \/ Owner

Spec == Init /\ [][Next]_vars

-------------------------------------------------------------------------------
(* Properties *)

(* The shape of the requests' handles and of the registry. *)
TypeOK ==
  /\ PoolTypeOK
  /\ \A r \in Requests : /\ prompt[r] \in Prompts \cup {<< >>}
                         /\ inflight[r] \in Seq(Blocks) /\ reusable[r] \in Seq(Blocks)
                         /\ blocks_to_reuse[r] \in Seq(Blocks) /\ complete[r] \in Seq(Blocks)
                         /\ Len(inflight[r]) + Len(reusable[r])
                              <= Len(prompt[r]) + IF pc[r] = "duplicate" THEN 1 ELSE 0
  /\ map \in [DOMAIN map -> Blocks] /\ DOMAIN map \subseteq Hashes

(* Every block out of the pool has exactly one owner, a request that matched  *)
(* or took it or an Inner, and an Inner lives as long as a request refers to  *)
(* it: no path, the throw of an offload that finds too few blocks included    *)
(* (manager.cpp:43), leaves a block that nobody gives back.                   *)
Held(r) == reusable[r] \o blocks_to_reuse[r] \o complete[r]
OneOwner ==
  /\ unique = inners \cup dying \cup UNION {ToSet(Held(r)) : r \in Requests}
  /\ Live = UNION {ToSet(inflight[r]) : r \in Requests}
  /\ \A r, q \in Requests : r # q => ToSet(Held(r)) \cap ToSet(Held(q)) = {}
  /\ \A r \in Requests : /\ ToSet(Held(r)) \cap (inners \cup dying) = {}
                         /\ IsInjective(Held(r))

(* The blocks matched for a request are those of its first hashes, in order,  *)
(* and stay so while it refers to them (manager.h:31).                        *)
PrefixMatched ==
  \A r \in Requests : \A i \in DOMAIN inflight[r] :
    pc[r] # "drop" => Hash(inflight[r][i]) = prompt[r][i]

(* reserved.cpp:22 a block in flight is registered under its hash for as long *)
(* as somebody refers to it, so no second block is in flight for that hash:   *)
(* neither a dying Inner nor a racing registration takes the entry away.      *)
InFlightRegistered == \A b \in Live : Hash(b) \in DOMAIN map /\ map[Hash(b)] = b
===============================================================================
