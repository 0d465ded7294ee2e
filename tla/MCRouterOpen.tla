---------------------------- MODULE MCRouterOpen ----------------------------
(***************************************************************************)
(* An instance of RouterOpen for TLC: interests in three names, two with   *)
(* one component, the messages of a producer whose key is 2, and URIs that *)
(* the handlers reject.  At a bound a handler is no longer called.         *)
(***************************************************************************)
EXTENDS RouterOpen, MCField

CONSTANTS
    MaxRows,      \* bound on the rows of the table
    MaxLookups,   \* bound on cache_hits + cache_misses
    MaxPending    \* bound on the pending interests

Key == 2
Interest(name, r) == encode_ciphertext_name(name_to_ciphertext(PublicKey(Key), name, r).val)
Trapdoors(name) == name_to_trapdoor(Key, name).val

A == <<"", "a">>
Nonce == <<1, 3>>
MCHashes == {Sha256(Interest(PA, Nonce))}
OtherUri == [strategy |-> FALSE, path |-> <<Text("a")>>]

MCUris ==
    {Interest(n, Nonce) : n \in {PA, P, A}} \cup {OtherUri}
    \cup {encode_trapdoor_registration(Trapdoors(n)[1]) : n \in {P, A}}
    \cup {encode_trapdoor_update(Trapdoors(n), h) : n \in {PA, P}, h \in MCHashes}
    \cup {encode_trapdoor_name(Trapdoors(P))}

MCNext ==
    \/ /\ cache_hits + cache_misses < MaxLookups
       /\ Cardinality(DOMAIN pending) < MaxPending
       /\ \E uri \in Uris : on_interest(uri)
    \/ /\ Len(trapdoor_table) < MaxRows
       /\ \E uri \in Uris : on_trapdoor_registration(uri) \/ on_trapdoor_update(uri)
    \/ \E hash \in Hashes, data \in DataPacket : on_data(hash, data)

MCSpec == Init /\ [][MCNext]_router_vars
=============================================================================
