------------------------------ MODULE Producer ------------------------------
(***************************************************************************)
(* The producer of end_to_end.rs: the content it serves, and the trapdoor  *)
(* table that finds the name behind an encrypted interest.                 *)
(***************************************************************************)
EXTENDS Wire, TrapdoorTable, HashMaps

CONSTANTS
    private_key,   \* drawn once by generate_key_pair
    prefix         \* the components of the producer's prefix

\* generate_random could return zero; DESIGN.md counts on it not to.
ASSUME PrivateKeyAssumption == private_key \in Scalar \ {Zero}
ASSUME PrefixAssumption == prefix \in Seq(Component) \ {<< >>}

VARIABLES
    producer_table,     \* Producer::trapdoor_table
    content,            \* raw name -> data
    producer_panicked   \* an unwrap() of the setup has failed

producer_vars == <<producer_table, content, producer_panicked>>

public_key == PublicKey(private_key)

ProducerInit ==
    /\ producer_table = << >>
    /\ content = EmptyMap
    /\ producer_panicked = FALSE

\* Mutants: data registered before stays; the map alone uses the name
\* without its empty components.
content_insert_KeepsOld(name, data) ==
    IF name \in DOMAIN content THEN content ELSE MapInsert(content, name, data)
content_insert_Canonical(name, data) ==
    MapInsert(content, <<"">> \o parse_name(name).val, data)

content_insert(name, data) == MapInsert(content, name, data)

\* The row goes into the table before the data goes into the map; nothing
\* runs in between.
register_content(name, data) ==
    LET nt == name_to_trapdoor(private_key, name)
    IN  /\ ~producer_panicked
        /\ \/ /\ nt.ok
              /\ producer_table' \in insert(producer_table, nt.val, name)
              /\ content' = content_insert(name, data)
              /\ UNCHANGED producer_panicked
           \/ /\ ~nt.ok
              /\ producer_panicked' = TRUE
              /\ UNCHANGED <<producer_table, content>>

\* Mutant: the last component of the prefix is registered.
prefix_registration_uri_Last ==
    encode_trapdoor_registration(Last(name_to_trapdoor(private_key, <<"">> \o prefix).val))

\* Only the first component of the prefix is registered.
prefix_registration_uri ==
    encode_trapdoor_registration(name_to_trapdoor(private_key, <<"">> \o prefix).val[1])

\* Mutant: the longest prefix is preferred to the exact match.
Finds_LongestPrefix(nc, name) ==
    \E match \in {match_exhaustive(producer_table, nc)} :
        LET row == IF match.longest_prefix.row # 0 THEN match.longest_prefix.row
                   ELSE match.exact_match
        IN  row # 0 /\ get_cleartext_name(producer_table, row) = name

\* The row that a decoded interest matches exactly is name's.
Finds(nc, name) ==
    \E row \in {match_exhaustive(producer_table, nc).exact_match} :
        row # 0 /\ get_cleartext_name(producer_table, row) = name

\* Producer::on_interest, which changes nothing: the set of the packet and
\* the update URI that answer the interest, empty for None.
producer_on_interest(uri, interest_hash) ==
    {[data   |-> [name |-> cleartext_name, content |-> content[cleartext_name]],
      update |-> encode_trapdoor_update(name_to_trapdoor(private_key, cleartext_name).val,
                                        interest_hash)] :
        cleartext_name \in {name \in DOMAIN content :
            \E nc \in {decode_ciphertext_name(uri)} : nc.ok /\ Finds(nc.val, name)}}
=============================================================================
