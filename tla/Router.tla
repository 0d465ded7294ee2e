------------------------------- MODULE Router -------------------------------
(***************************************************************************)
(* The router of end_to_end.rs, with the PEKS content store (cs.rs) and    *)
(* the pending interest tracker (pending.rs) it owns.                      *)
(*                                                                         *)
(* The key of the content store is the trapdoor sequence itself:           *)
(* trapdoors_to_key concatenates serialisations of one size.               *)
(***************************************************************************)
EXTENDS Wire, TrapdoorTable, HashMaps

VARIABLES
    trapdoor_table,
    cs,            \* PeksCS::entries, trapdoor sequence -> DataPacket
    pending,       \* PendingInterests::entries, hash -> interest URI
    staged_data,   \* hash -> DataPacket
    cache_hits,
    cache_misses,
    panicked       \* an expect() of a handler has failed

router_vars ==
    <<trapdoor_table, cs, pending, staged_data, cache_hits, cache_misses, panicked>>

RouterInit ==
    /\ trapdoor_table = << >>
    /\ cs = EmptyMap
    /\ pending = EmptyMap
    /\ staged_data = EmptyMap
    /\ cache_hits = 0
    /\ cache_misses = 0
    /\ panicked = FALSE

\* Mutant: pending is keyed by the URI.
pending_insert_KeyedByUri(uri) == MapInsert(pending, uri, uri)

\* PendingInterests::insert, keyed by the hash of the URI.
pending_insert(uri) == MapInsert(pending, Sha256(uri), uri)

\* Mutant: looked up, but not removed.
lookup_and_remove_Leaves(entries, hash) == entries

\* PendingInterests::lookup_and_remove: the entries that remain.
lookup_and_remove(entries, hash) == MapRemove(entries, hash)

\* Mutant: the key is the first trapdoor only.
cs_insert_FirstKey(trapdoors, data) == MapInsert(cs, <<trapdoors[1]>>, data)

\* PeksCS::insert overwrites the packet cached for the sequence, if any.
cs_insert(trapdoors, data) == MapInsert(cs, trapdoors, data)

\* A failed expect() unwinds before the handler has changed anything.
Panic ==
    /\ panicked' = TRUE
    /\ UNCHANGED <<trapdoor_table, cs, pending, staged_data, cache_hits, cache_misses>>

-----------------------------------------------------------------------------
on_trapdoor_registration(uri) ==
    /\ ~panicked
    /\ \E prefix_trapdoor \in {decode_trapdoor_registration(uri)} :
        \/ ~prefix_trapdoor.ok /\ Panic
        \/ /\ prefix_trapdoor.ok
           /\ trapdoor_table' \in insert(trapdoor_table, <<prefix_trapdoor.val>>, NoName)
           /\ UNCHANGED <<cs, pending, staged_data, cache_hits, cache_misses, panicked>>

-----------------------------------------------------------------------------
\* The key under which the router looks in its content store for the
\* interest, the empty sequence when no row of the table matches exactly.
MatchedKey(nc) ==
    LET row == match_exhaustive(trapdoor_table, nc).exact_match
    IN  IF row = 0 THEN << >> ELSE get_trapdoors(trapdoor_table, row)

\* Mutant: an interest that matches a row without cached data is no miss.
Misses_Unmatched(nc) == MatchedKey(nc) = << >>

\* PeksCS::lookup finds nothing for an interest that decodes to nc.
Misses(nc) == MatchedKey(nc) \notin DOMAIN cs

\* ForwardDecision::Drop: the pending entry made first is left behind.
Drop(uri) ==
    /\ ~panicked
    /\ ~decode_ciphertext_name(uri).ok
    /\ pending' = pending_insert(uri)
    /\ UNCHANGED <<trapdoor_table, cs, staged_data, cache_hits, cache_misses, panicked>>

\* ForwardDecision::ServeFromCache(data): the entry made first is removed.
ServeFromCache(uri, data) ==
    /\ ~panicked
    /\ \E nc \in {decode_ciphertext_name(uri)} :
        /\ nc.ok
        /\ MatchedKey(nc.val) \in DOMAIN cs
        /\ data = cs[MatchedKey(nc.val)]
    /\ cache_hits' = cache_hits + 1
    /\ pending' = lookup_and_remove(pending_insert(uri), Sha256(uri))
    /\ UNCHANGED <<trapdoor_table, cs, staged_data, cache_misses, panicked>>

\* ForwardDecision::Forward { interest_hash }
Forward(uri, interest_hash) ==
    /\ ~panicked
    /\ \E nc \in {decode_ciphertext_name(uri)} :
        nc.ok /\ Misses(nc.val)
    /\ interest_hash = Sha256(uri)
    /\ cache_misses' = cache_misses + 1
    /\ pending' = pending_insert(uri)
    /\ UNCHANGED <<trapdoor_table, cs, staged_data, cache_hits, panicked>>

-----------------------------------------------------------------------------
on_data(interest_hash, data) ==
    /\ ~panicked
    /\ staged_data' = MapInsert(staged_data, interest_hash, data)
    /\ UNCHANGED <<trapdoor_table, cs, pending, cache_hits, cache_misses, panicked>>

\* Mutants: any staged packet will do; any will do if there is none under
\* the hash.
StagedUnder_Any(hash) == DOMAIN staged_data
StagedUnder_Fallback(hash) ==
    IF hash \in DOMAIN staged_data THEN {hash} ELSE DOMAIN staged_data

StagedUnder(hash) == {hash} \cap DOMAIN staged_data

\* Mutant: the packet is copied, not taken.
staged_remove_Copies(hash) == staged_data

staged_remove(hash) == MapRemove(staged_data, hash)

\* The data staged under the hash goes into the content store, whether or
\* not an interest with that hash was pending.
Commit(nt, hash) ==
    \/ \E h \in StagedUnder(hash) :
          /\ staged_data' = staged_remove(h)
          /\ cs' = cs_insert(nt, staged_data[h])
          /\ trapdoor_table' \in insert(trapdoor_table, nt, NoName)
    \/ /\ StagedUnder(hash) = {}
       /\ UNCHANGED <<staged_data, cs, trapdoor_table>>

on_trapdoor_update(uri) ==
    /\ ~panicked
    /\ \E update \in {decode_trapdoor_update(uri)} :
        \/ ~update.ok /\ Panic
        \/ /\ update.ok
           /\ pending' = lookup_and_remove(pending, update.val.hash)
           /\ Commit(update.val.trapdoors, update.val.hash)
           /\ UNCHANGED <<cache_hits, cache_misses, panicked>>
=============================================================================
