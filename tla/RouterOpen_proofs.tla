------------------------- MODULE RouterOpen_proofs --------------------------
(***************************************************************************)
(* The invariants of a router that anybody may call, for every set of      *)
(* URIs, hashes and packets.                                               *)
(*                                                                         *)
(* The inductive invariant is the conjunction of the three: that the table *)
(* stays sorted needs its type, that it stays in step with the content     *)
(* store needs the rows that insert leaves, and these are typed.           *)
(***************************************************************************)
EXTENDS RouterOpen, Layers_proofs

-----------------------------------------------------------------------------
\* The inductive invariant: the cache is indexed by the rows of the table,
\* so what an insert does to the table has to be known beside it.
IInv == TypeOK /\ TableSorted /\ CacheIndexed

\* A new router satisfies the inductive invariant: it holds nothing.
LEMMA InitIInv == Init => IInv
<1> SUFFICES ASSUME RouterInit PROVE IInv
    BY DEF Init
<1>1. DOMAIN EmptyMap = {}
    BY DEF EmptyMap
<1>2. trapdoor_table = << >> /\ Rows = {}
    BY DEF RouterInit, Rows
<1>3. TypeOK
    <2>1. << >> \in Seq(TrapdoorTableEntry)
        OBVIOUS
    <2>2. /\ trapdoor_table \in Seq(TrapdoorTableEntry)
          /\ DOMAIN cs = {} /\ DOMAIN pending = {} /\ DOMAIN staged_data = {}
        BY <1>1, <1>2, <2>1 DEF RouterInit
    <2>3. cache_hits = 0 /\ cache_misses = 0 /\ panicked \in BOOLEAN
        BY DEF RouterInit
    <2> QED
        BY <2>2, <2>3 DEF TypeOK
<1>4. TableSorted
    BY <1>2 DEF TableSorted, Sorted, Rows
<1>5. CacheIndexed
    BY <1>1, <1>2 DEF RouterInit, CacheIndexed
<1> QED
    BY <1>3, <1>4, <1>5 DEF IInv

\* One insert keeps the type and the order of the table.
LEMMA TableStep ==
    ASSUME TypeOK, TableSorted,
           NEW key \in Seq(Scalar) \ {<< >>},
           trapdoor_table' \in insert(trapdoor_table, key, NoName)
    PROVE  /\ trapdoor_table' \in Seq(TrapdoorTableEntry)
           /\ TableSorted'
BY InsertRows, InsertKeepsSorted DEF TypeOK, TableSorted

\* One insert adds its key to those of the rows, and drops none.
LEMMA KeysStep ==
    ASSUME TypeOK, NEW key \in Seq(Scalar) \ {<< >>},
           trapdoor_table' \in insert(trapdoor_table, key, NoName)
    PROVE  /\ \A i \in Rows : \E j \in Rows' : trapdoor_table'[j].trapdoors = trapdoor_table[i].trapdoors
           /\ \E j \in Rows' : trapdoor_table'[j].trapdoors = key
           /\ \A j \in Rows' :
                 \/ trapdoor_table'[j].trapdoors = key
                 \/ \E i \in Rows : trapdoor_table'[j].trapdoors = trapdoor_table[i].trapdoors
<1>1. trapdoor_table \in Seq(TrapdoorTableEntry) /\ NoName \in RawName \cup {NoName}
    BY DEF TypeOK
<1> QED
    BY <1>1, InsertKeys DEF Rows

\* on_trapdoor_registration adds a row of one component, or panics before
\* it changes anything.
LEMMA RegistrationIInv ==
    ASSUME IInv, NEW uri \in Uris, on_trapdoor_registration(uri)
    PROVE  IInv'
<1> DEFINE prefix_trapdoor == decode_trapdoor_registration(uri)
<1>1. CASE prefix_trapdoor.ok /\ trapdoor_table' \in insert(trapdoor_table, <<prefix_trapdoor.val>>, NoName)
           /\ UNCHANGED <<cs, pending, staged_data, cache_hits, cache_misses, panicked>>
    <2> DEFINE key == <<prefix_trapdoor.val>>
    <2>1. key \in Seq(Scalar) \ {<< >>} /\ Len(key) = 1
        BY <1>1, RegistrationDecoded
    <2> HIDE DEF key
    <2>2. trapdoor_table' \in insert(trapdoor_table, key, NoName)
        BY <1>1 DEF key
    <2>3. TypeOK' /\ TableSorted'
        BY <1>1, <2>1, <2>2, TableStep DEF IInv, TypeOK
    <2>4. CacheIndexed'
        BY <1>1, <2>1, <2>2, KeysStep DEF IInv, CacheIndexed
    <2> QED
        BY <2>3, <2>4 DEF IInv
<1>2. CASE Panic
    BY <1>2 DEF Panic, IInv, TypeOK, TableSorted, CacheIndexed, Rows
<1> QED
    BY <1>1, <1>2 DEF on_trapdoor_registration

\* on_trapdoor_update caches a packet and inserts its row in the same call.
LEMMA UpdateIInv ==
    ASSUME IInv, NEW uri \in Uris, on_trapdoor_update(uri)
    PROVE  IInv'
<1> DEFINE update == decode_trapdoor_update(uri)
           nt == update.val.trapdoors
           hash == update.val.hash
<1>1. CASE Panic
    BY <1>1 DEF Panic, IInv, TypeOK, TableSorted, CacheIndexed, Rows
<1>2. ASSUME update.ok,
             pending' = lookup_and_remove(pending, hash),
             Commit(nt, hash),
             UNCHANGED <<cache_hits, cache_misses, panicked>>
      PROVE  IInv'
    <2>1. nt \in Seq(Scalar) \ {<< >>}
        BY <1>2, UpdateDecoded, UrisAssumption DEF UrisAssumption, IsPath
    <2> HIDE DEF update, nt, hash
    <2>2. \A h \in DOMAIN pending' : h \in DOMAIN pending /\ pending'[h] = pending[h]
        BY <1>2 DEF lookup_and_remove, MapRemove, Restrict
    <2>3. CASE hash \notin DOMAIN staged_data /\ UNCHANGED <<staged_data, cs, trapdoor_table>>
        BY <1>2, <2>2, <2>3 DEF IInv, TypeOK, TableSorted, CacheIndexed, Rows
    <2>4. ASSUME hash \in DOMAIN staged_data,
                 staged_data' = staged_remove(hash),
                 cs' = cs_insert(nt, staged_data[hash]),
                 trapdoor_table' \in insert(trapdoor_table, nt, NoName)
          PROVE  IInv'
        <3>1. \A h \in DOMAIN staged_data' : h \in DOMAIN staged_data /\ staged_data'[h] = staged_data[h]
            BY <2>4 DEF staged_remove, MapRemove, Restrict
        <3>2. /\ DOMAIN cs' = DOMAIN cs \cup {nt}
              /\ \A k \in DOMAIN cs' : cs'[k] = IF k = nt THEN staged_data[hash] ELSE cs[k]
            BY <2>4 DEF cs_insert, MapInsert
        <3>3. TypeOK' /\ TableSorted'
            BY <1>2, <2>1, <2>2, <2>4, <3>1, <3>2, TableStep DEF IInv, TypeOK
        <3>4. CacheIndexed'
            BY <2>1, <2>4, <3>2, KeysStep DEF IInv, CacheIndexed
        <3> QED
            BY <3>3, <3>4 DEF IInv
    <2> QED
        BY <1>2, <2>3, <2>4 DEF Commit, StagedUnder
<1> QED
    BY <1>1, <1>2 DEF on_trapdoor_update

\* on_data touches the staged packets only.
LEMMA DataIInv ==
    ASSUME IInv, NEW hash \in Hashes, NEW data \in DataPacket, on_data(hash, data)
    PROVE  IInv'
<1>1. /\ DOMAIN staged_data' = DOMAIN staged_data \cup {hash}
      /\ \A h \in DOMAIN staged_data' : staged_data'[h] = IF h = hash THEN data ELSE staged_data[h]
    BY DEF on_data, MapInsert
<1> QED
    BY <1>1 DEF on_data, IInv, TypeOK, TableSorted, CacheIndexed, Rows

\* on_interest touches the pending interests and the counters only.
LEMMA InterestIInv ==
    ASSUME IInv, NEW uri \in Uris, on_interest(uri)
    PROVE  IInv'
<1>1. \A h \in DOMAIN pending' :
        /\ h \in DOMAIN pending \cup {Sha256(uri)}
        /\ pending'[h] = IF h = Sha256(uri) THEN uri ELSE pending[h]
    BY DEF on_interest, Drop, ServeFromCache, Forward, pending_insert, lookup_and_remove,
           MapInsert, MapRemove, Restrict
<1>2. /\ cache_hits' \in Nat /\ cache_misses' \in Nat
      /\ UNCHANGED <<trapdoor_table, cs, staged_data, panicked>>
    BY DEF on_interest, Drop, ServeFromCache, Forward, IInv, TypeOK
<1> QED
    BY <1>1, <1>2 DEF IInv, TypeOK, TableSorted, CacheIndexed, Rows

\* Every call of a handler keeps the inductive invariant.
LEMMA StepIInv == IInv /\ [Next]_router_vars => IInv'
<1> SUFFICES ASSUME IInv, [Next]_router_vars PROVE IInv'
    OBVIOUS
<1>1. CASE UNCHANGED router_vars
    BY <1>1 DEF router_vars, IInv, TypeOK, TableSorted, CacheIndexed, Rows
<1>2. ASSUME NEW uri \in Uris, on_interest(uri) PROVE IInv'
    BY <1>2, InterestIInv
<1>3. ASSUME NEW uri \in Uris, on_trapdoor_registration(uri) PROVE IInv'
    BY <1>3, RegistrationIInv
<1>4. ASSUME NEW uri \in Uris, on_trapdoor_update(uri) PROVE IInv'
    BY <1>4, UpdateIInv
<1>5. ASSUME NEW hash \in Hashes, NEW data \in DataPacket, on_data(hash, data) PROVE IInv'
    BY <1>5, DataIInv
<1> QED
    BY <1>1, <1>2, <1>3, <1>4, <1>5 DEF Next

\* The inductive invariant holds in every reachable state.
LEMMA SpecIInv == Spec => []IInv
BY InitIInv, StepIInv, PTL DEF Spec

\* The router's maps and table hold what the handlers are given, decoded:
\* for whatever URIs, hashes and packets it is called with.
THEOREM RouterTypeOK == Spec => []TypeOK
<1>1. IInv => TypeOK
    BY DEF IInv
<1> QED
    BY <1>1, SpecIInv, PTL

\* The rows of the trapdoor table are always in the order that the binary
\* search of insert presupposes.
THEOREM RouterTableSorted == Spec => []TableSorted
<1>1. IInv => TableSorted
    BY DEF IInv
<1> QED
    BY <1>1, SpecIInv, PTL

\* Every cached trapdoor sequence has a row in the trapdoor table, and a row
\* that has no cached data has one component, as registered prefixes do.
THEOREM RouterCacheIndexed == Spec => []CacheIndexed
<1>1. IInv => CacheIndexed
    BY DEF IInv
<1> QED
    BY <1>1, SpecIInv, PTL

-----------------------------------------------------------------------------
\* Every interest among the URIs was encrypted with scalars other than zero.
ProperInterests ==
    \A uri \in Uris :
        decode_ciphertext_name(uri).ok => Hiding(decode_ciphertext_name(uri).val)

\* What a step that leaves the table alone, or inserts one row, does to the
\* key that a warm interest finds its packet under: nothing.
LEMMA WarmStep ==
    ASSUME TypeOK, NEW uri \in Uris, Warm(uri), ProperInterests,
           DOMAIN cs \subseteq DOMAIN cs',
           \/ UNCHANGED trapdoor_table
           \/ \E key \in Seq(Scalar) \ {<< >>} : trapdoor_table' \in insert(trapdoor_table, key, NoName)
    PROVE  Warm(uri)'
<1> DEFINE nc == decode_ciphertext_name(uri)
           r == match_exhaustive(trapdoor_table, nc.val).exact_match
<1>1. nc.ok /\ MatchedKey(nc.val) \in DOMAIN cs
    BY DEF Warm
<1>2. Hiding(nc.val)
    BY <1>1 DEF ProperInterests
<1>3. r # 0 /\ MatchedKey(nc.val) = trapdoor_table[r].trapdoors
    BY <1>1 DEF TypeOK, MatchedKey, get_trapdoors
<1>4. MatchedKey(nc.val)' = MatchedKey(nc.val)
    <2>1. CASE UNCHANGED trapdoor_table
        BY <2>1 DEF MatchedKey
    <2>2. ASSUME NEW key \in Seq(Scalar) \ {<< >>},
                 trapdoor_table' \in insert(trapdoor_table, key, NoName)
          PROVE  MatchedKey(nc.val)' = MatchedKey(nc.val)
        <3> DEFINE r2 == match_exhaustive(trapdoor_table', nc.val).exact_match
        <3>1. r2 # 0 /\ trapdoor_table'[r2].trapdoors = trapdoor_table[r].trapdoors
            BY <1>2, <1>3, <2>2, InsertKeepsExact DEF TypeOK
        <3>2. MatchedKey(nc.val)' = trapdoor_table'[r2].trapdoors
            BY <3>1 DEF MatchedKey, get_trapdoors
        <3> QED
            BY <1>3, <3>1, <3>2
    <2> QED
        BY <2>1, <2>2
<1> QED
    BY <1>1, <1>4 DEF Warm

\* No call evicts a packet, and none does more to the table than insert one
\* row without a name.
LEMMA StepInserts ==
    ASSUME TypeOK, Next
    PROVE  /\ DOMAIN cs \subseteq DOMAIN cs'
           /\ \/ UNCHANGED trapdoor_table
              \/ \E key \in Seq(Scalar) \ {<< >>} :
                    trapdoor_table' \in insert(trapdoor_table, key, NoName)
<1>1. ASSUME NEW uri \in Uris, on_interest(uri)
      PROVE  UNCHANGED <<cs, trapdoor_table>>
    BY <1>1 DEF on_interest, Drop, ServeFromCache, Forward
<1>2. ASSUME NEW hash \in Hashes, NEW data \in DataPacket, on_data(hash, data)
      PROVE  UNCHANGED <<cs, trapdoor_table>>
    BY <1>2 DEF on_data
<1>3. ASSUME NEW uri \in Uris, on_trapdoor_registration(uri)
      PROVE  /\ UNCHANGED cs
             /\ \/ UNCHANGED trapdoor_table
                \/ \E key \in Seq(Scalar) \ {<< >>} :
                      trapdoor_table' \in insert(trapdoor_table, key, NoName)
    <2> DEFINE prefix_trapdoor == decode_trapdoor_registration(uri)
               key == <<prefix_trapdoor.val>>
    <2>1. CASE prefix_trapdoor.ok /\ UNCHANGED cs
               /\ trapdoor_table' \in insert(trapdoor_table, key, NoName)
        <3>1. key \in Seq(Scalar) \ {<< >>}
            BY <2>1, RegistrationDecoded
        <3> QED
            BY <2>1, <3>1
    <2>2. CASE Panic
        BY <2>2 DEF Panic
    <2> QED
        BY <1>3, <2>1, <2>2 DEF on_trapdoor_registration
<1>4. ASSUME NEW uri \in Uris, on_trapdoor_update(uri)
      PROVE  /\ DOMAIN cs \subseteq DOMAIN cs'
             /\ \/ UNCHANGED trapdoor_table
                \/ \E key \in Seq(Scalar) \ {<< >>} :
                      trapdoor_table' \in insert(trapdoor_table, key, NoName)
    <2> DEFINE update == decode_trapdoor_update(uri)
               key == update.val.trapdoors
    <2>1. CASE Panic
        BY <2>1 DEF Panic
    <2>2. CASE update.ok /\ Commit(key, update.val.hash)
        <3>1. key \in Seq(Scalar) \ {<< >>}
            BY <2>2, UpdateDecoded, UrisAssumption DEF UrisAssumption, IsPath
        <3> HIDE DEF key
        <3> QED
            BY <2>2, <3>1 DEF Commit, cs_insert, MapInsert
    <2> QED
        BY <1>4, <2>1, <2>2 DEF on_trapdoor_update
<1> QED
    BY <1>1, <1>2, <1>3, <1>4 DEF Next

\* No call turns a warm interest cold, if its scalar was not zero: nothing
\* is evicted, and no row that is inserted later gets in front of the one
\* that the interest matches.  (An interest encrypted with zero matches
\* every row of its length, so that for it a later row can.)
THEOREM RouterWarmStaysWarm ==
    ASSUME ProperInterests
    PROVE  Spec => WarmStaysWarm
<1>1. ASSUME TypeOK, [Next]_router_vars
      PROVE  [\A uri \in Uris : Warm(uri) => Warm(uri)']_router_vars
    <2>1. SUFFICES ASSUME Next, NEW uri \in Uris, Warm(uri) PROVE Warm(uri)'
        BY <1>1
    <2> QED
        BY <1>1, <2>1, StepInserts, WarmStep
<1> QED
    BY <1>1, RouterTypeOK, PTL DEF Spec, WarmStaysWarm
=============================================================================
