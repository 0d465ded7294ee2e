----------------------------- MODULE RouterOpen -----------------------------
(***************************************************************************)
(* The router on its own, its handlers called in any order with any        *)
(* arguments: whatever holds here holds of a router in every network.      *)
(***************************************************************************)
EXTENDS Router

CONSTANTS
    Uris,        \* what on_interest and the two trapdoor handlers are given
    Hashes,      \* the interest hashes given to on_data
    DataPacket   \* the packets given to on_data

\* A URI is what Wire takes it to be; nothing else is assumed of arguments.
ASSUME UrisAssumption ==
    \A uri \in Uris : uri.path \in Seq(Range(uri.path)) \ {<< >>}

Init == RouterInit

on_interest(uri) ==
    \/ Drop(uri)
    \/ \E data \in Range(cs) : ServeFromCache(uri, data)
    \/ Forward(uri, Sha256(uri))

Next ==
    \/ \E uri \in Uris : \/ on_interest(uri)
                         \/ on_trapdoor_registration(uri)
                         \/ on_trapdoor_update(uri)
    \/ \E hash \in Hashes, data \in DataPacket : on_data(hash, data)

Spec == Init /\ [][Next]_router_vars

-----------------------------------------------------------------------------
\* Type invariant.
TypeOK ==
    /\ trapdoor_table \in Seq(TrapdoorTableEntry)
    /\ DOMAIN cs \subseteq Seq(Scalar) \ {<< >>}
    /\ \A key \in DOMAIN cs : cs[key] \in DataPacket
    /\ \A hash \in DOMAIN pending : pending[hash] \in Uris /\ hash = Sha256(pending[hash])
    /\ DOMAIN staged_data \subseteq Hashes
    /\ \A hash \in DOMAIN staged_data : staged_data[hash] \in DataPacket
    /\ cache_hits \in Nat /\ cache_misses \in Nat
    /\ panicked \in BOOLEAN

Rows == 1..Len(trapdoor_table)

\* insert keeps the rows in the order of their sort keys, which the binary
\* search of the next insert relies on.
TableSorted == Sorted(trapdoor_table)

\* The table and the content store go together: what is cached has a row
\* to be found by, and a row without cached data is a registered prefix,
\* which has one component.
CacheIndexed ==
    /\ \A key \in DOMAIN cs : \E i \in Rows : trapdoor_table[i].trapdoors = key
    /\ \A i \in Rows :
          \/ trapdoor_table[i].trapdoors \in DOMAIN cs
          \/ Len(trapdoor_table[i].trapdoors) = 1

\* An interest that the content store answers now.
Warm(uri) ==
    \E nc \in {decode_ciphertext_name(uri)} : nc.ok /\ MatchedKey(nc.val) \in DOMAIN cs

\* No call turns a warm interest cold: nothing is evicted, and no row that
\* is inserted later gets in front of the row that the interest matches.
WarmStaysWarm == [][\A uri \in Uris : Warm(uri) => Warm(uri)']_router_vars
=============================================================================
