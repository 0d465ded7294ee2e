---------------------------- MODULE Demo_proofs -----------------------------
(***************************************************************************)
(* The demonstration, for every file of names, number of requests, scalars *)
(* drawn and choice of the rows with equal keys.                           *)
(*                                                                         *)
(* One request is under way at a time.  Between two of them the content    *)
(* store holds the data of exactly the names requested so far, and the     *)
(* table a row for each beside that of the prefix; during one, all that is *)
(* pending or staged belongs to it.                                        *)
(***************************************************************************)
EXTENDS Demo, Layers_proofs

\* The lines of all the files.
Lines == UNION {Range(file) : file \in Files}

Key(n) == name_to_trapdoor(private_key, n).val

PrefixKey == <<Key(<<"">> \o prefix)[1]>>

Detail == [name : Lines, was_cache_hit : BOOLEAN, received_content : Lines]

\* A request is between the router and the producer.
UnderWay == pc \in {"forwarded", "update"}
Requests == IF UnderWay THEN 1 ELSE 0

-----------------------------------------------------------------------------
(* The inductive invariant.                                                *)

MainInv ==
    /\ pc \in {"start", "setup", "request", "forwarded", "update", "panicked", "done"}
    /\ names \in Seq(Lines)
    /\ registered \in 0..Len(names)
    /\ pc = "start" => names = << >> /\ registered = 0 /\ i = 0 /\ DOMAIN content = {}
    /\ pc # "setup" => registered = Len(names) /\ producer_panicked = FALSE
    /\ i \in 0..NUM_REQUESTS
    /\ UnderWay => i < NUM_REQUESTS /\ name \in Range(names)

\* The lines registered so far parse, and their data is their name.
ProducerInv ==
    /\ producer_table \in Seq(TrapdoorTableEntry)
    /\ \A k \in 1..Len(producer_table) :
          producer_table[k].trapdoors = Key(producer_table[k].cleartext_name)
    /\ \A n \in DOMAIN content : n \in Range(names) /\ parse_name(n).ok /\ content[n] = n
    /\ producer_panicked = FALSE => \A k \in 1..registered : names[k] \in DOMAIN content

RouterInv ==
    /\ panicked = FALSE
    /\ trapdoor_table \in Seq(TrapdoorTableEntry)
    /\ \A k \in 1..Len(trapdoor_table) : trapdoor_table[k].trapdoors \in DOMAIN cs \cup {PrefixKey}
    /\ \A key \in DOMAIN cs :
          /\ cs[key].name \in DOMAIN content /\ key = Key(cs[key].name)
          /\ cs[key].content = cs[key].name
          /\ \E k \in 1..Len(trapdoor_table) : trapdoor_table[k].trapdoors = key

CountInv ==
    /\ IsFiniteSet(DOMAIN cs)
    /\ pc \in {"start", "setup"} => Len(trapdoor_table) = Cardinality(DOMAIN cs)
    /\ pc \in {"request", "forwarded", "update", "done"} =>
          Len(trapdoor_table) = Cardinality(DOMAIN cs) + 1
    /\ cache_misses = Cardinality(DOMAIN cs) + Requests
    /\ cache_hits \in Nat /\ cache_hits + cache_misses = i + Requests

\* What is cached is what was requested.
HistoryInv ==
    /\ request_details \in Seq(Detail) /\ Len(request_details) = i
    /\ \A k \in 1..i : request_details[k].name \in Range(names)
    /\ DOMAIN cs = {Key(request_details[k].name) : k \in 1..i}
    /\ HitIffAskedBefore
    /\ ContentAsExpected

TimedHits == timed(TRUE)
TimedMisses == timed(FALSE)

\* As many requests were recorded as hits, and as misses, as were counted.
TimedInv ==
    /\ IsFiniteSet(TimedHits) /\ IsFiniteSet(TimedMisses)
    /\ cache_hits = Cardinality(TimedHits)
    /\ cache_misses = Cardinality(TimedMisses) + Requests

\* The hash of the request under way.
H == Sha256(interest_uri(name))

FlowInv ==
    /\ ~UnderWay => pending = EmptyMap
    /\ pc # "update" => staged_data = EmptyMap
    /\ UnderWay => Key(name) \notin DOMAIN cs /\ pending = MapInsert(EmptyMap, H, interest_uri(name))
    /\ pc = "update" =>
          /\ received_content \in DOMAIN content /\ Alias(received_content, name)
          /\ staged_data = MapInsert(EmptyMap, H, [name |-> received_content, content |-> received_content])
          /\ update_uri = encode_trapdoor_update(Key(received_content), H)

Inv ==
    /\ MainInv /\ ProducerInv /\ RouterInv /\ CountInv /\ HistoryInv /\ TimedInv /\ FlowInv
    /\ ReportAddsUp

-----------------------------------------------------------------------------
(* Names and requests.                                                     *)

\* The trapdoors of a line that parses are points of G1, at least one.
LEMMA KeyOfName ==
    ASSUME NEW n \in RawName, parse_name(n).ok
    PROVE  Key(n) \in Seq(Scalar) \ {<< >>}
BY TrapdoorsOfName, PrivateKeyAssumption DEF PrivateKeyAssumption, Key

\* Lines with the same trapdoors are two spellings of one name.
LEMMA KeyTellsNames ==
    ASSUME NEW m \in RawName, parse_name(m).ok, NEW n \in RawName, parse_name(n).ok
    PROVE  Key(m) = Key(n) <=> Alias(m, n)
BY TrapdoorsTellNames, PrivateKeyAssumption DEF PrivateKeyAssumption, Key

\* The router can decode the URI that the producer registers its prefix with.
LEMMA PrefixDecoded ==
    /\ PrefixKey \in Seq(Scalar) \ {<< >>}
    /\ decode_trapdoor_registration(prefix_registration_uri) = Ok(PrefixKey[1])
<1> DEFINE t == Key(<<"">> \o prefix)[1]
<1>1. t \in Scalar /\ decode_trapdoor_registration(encode_trapdoor_registration(t)) = Ok(t)
    BY NameInRegistration, PrefixAssumption, PrivateKeyAssumption
       DEF PrefixAssumption, PrivateKeyAssumption, Key
<1>2. prefix_registration_uri = encode_trapdoor_registration(t)
    BY DEF prefix_registration_uri, Key
<1>3. PrefixKey = <<t>>
    BY DEF PrefixKey
<1> HIDE DEF t
<1>4. PrefixKey \in Seq(Scalar) \ {<< >>} /\ PrefixKey[1] = t
    BY <1>1, <1>3
<1> QED
    BY <1>1, <1>2, <1>4

\* The lines of a file are names, as raw as may be.
LEMMA LinesAreRaw ==
    ASSUME NEW n \in Lines
    PROVE  n \in RawName
BY DemoAssumption, ElementOfSeq DEF DemoAssumption, Lines, Range

\* What main requests parses, and the producer has it.
LEMMA Requested ==
    ASSUME MainInv, ProducerInv, pc # "setup", NEW n \in Range(names)
    PROVE  n \in Lines /\ n \in RawName /\ n \in DOMAIN content /\ parse_name(n).ok
<1>1. PICK k \in 1..Len(names) : n = names[k]
    BY DEF Range, MainInv
<1>2. n \in Lines
    BY <1>1, ElementOfSeq DEF MainInv
<1>3. n \in DOMAIN content
    BY <1>1 DEF MainInv, ProducerInv
<1> QED
    BY <1>2, <1>3, LinesAreRaw DEF ProducerInv

\* The scalars of the request under way.
LEMMA NonceOfRequest ==
    ASSUME i \in 0..NUM_REQUESTS, i < NUM_REQUESTS
    PROVE  /\ nonce[i + 1] \in Seq(Scalar \ {Zero})
           /\ \A n \in Lines : parse_name(n).ok => Covers(nonce[i + 1], n)
<1>1. i + 1 \in 1..Len(nonce) /\ i + 1 \in 1..NUM_REQUESTS
    BY DemoAssumption DEF DemoAssumption
<1>2. nonce[i + 1] \in Seq(Scalar \ {Zero})
    BY <1>1, DemoAssumption, ElementOfSeq DEF DemoAssumption
<1> QED
    BY <1>1, <1>2, DemoAssumption DEF DemoAssumption, Lines

\* The ciphertexts of the request under way.
Ciphertexts(n) == name_to_ciphertext(PublicKey(private_key), n, nonce[i + 1]).val

\* They reach the router, and hide the name.
LEMMA RequestDecoded ==
    ASSUME i \in 0..NUM_REQUESTS, i < NUM_REQUESTS, NEW n \in Lines, parse_name(n).ok
    PROVE  /\ decode_ciphertext_name(interest_uri(n)) = Ok(Ciphertexts(n))
           /\ Hiding(Ciphertexts(n))
           /\ \A m \in RawName : parse_name(m).ok =>
                 (IsExact(Key(m), Ciphertexts(n)) <=> Alias(m, n))
<1> DEFINE r == nonce[i + 1]
<1>1. /\ r \in Seq(Scalar \ {Zero}) /\ Covers(r, n) /\ n \in RawName
      /\ private_key \in Scalar \ {Zero}
    BY NonceOfRequest, LinesAreRaw, PrivateKeyAssumption DEF PrivateKeyAssumption
<1> HIDE DEF r
<1>2. interest_uri(n) = encode_ciphertext_name(name_to_ciphertext(PublicKey(private_key), n, r).val)
    BY DEF interest_uri, public_key, r
<1>3. Ciphertexts(n) = name_to_ciphertext(PublicKey(private_key), n, r).val
    BY DEF Ciphertexts, r
<1>4. \A m \in RawName : parse_name(m).ok => (IsExact(Key(m), Ciphertexts(n)) <=> Alias(m, n))
    BY <1>1, <1>3, NameMatched DEF Key
<1>5. decode_ciphertext_name(interest_uri(n)) = Ok(Ciphertexts(n))
    BY <1>1, <1>2, <1>3, NameInInterest
<1>6. Hiding(Ciphertexts(n))
    BY <1>1, <1>3, NameHidden
<1> QED
    BY <1>4, <1>5, <1>6

\* The router looks a request up under the trapdoors of its name, if it has
\* a row of them: the row of the prefix does not get in the way.
LEMMA LookedUp ==
    ASSUME MainInv, ProducerInv, RouterInv, pc # "setup", i < NUM_REQUESTS, NEW n \in Range(names)
    PROVE  /\ MatchedKey(Ciphertexts(n)) \in DOMAIN cs <=> Key(n) \in DOMAIN cs
           /\ Key(n) \in DOMAIN cs => MatchedKey(Ciphertexts(n)) = Key(n)
<1> DEFINE nc == Ciphertexts(n)
           row == match_exhaustive(trapdoor_table, nc).exact_match
<1>1. n \in Lines /\ n \in RawName /\ parse_name(n).ok /\ Key(n) \in Seq(Scalar) \ {<< >>}
    BY Requested, KeyOfName
<1>2. Hiding(nc) /\ IsExact(Key(n), nc)
    BY <1>1, RequestDecoded DEF MainInv, Alias
<1>3. trapdoor_table \in Seq(TrapdoorTableEntry) /\ Len(trapdoor_table) \in Nat
    BY DEF RouterInv
<1> HIDE DEF nc
<1>4. ASSUME NEW k \in 1..Len(trapdoor_table), IsExact(trapdoor_table[k].trapdoors, nc)
      PROVE  trapdoor_table[k].trapdoors = Key(n)
    <2>1. trapdoor_table[k] \in TrapdoorTableEntry
        BY <1>3, ElementOfSeq
    <2>2. trapdoor_table[k].trapdoors \in Seq(Scalar)
        BY <2>1 DEF TrapdoorTableEntry
    <2> QED
        BY <1>1, <1>2, <1>4, <2>2, ExactKeyUnique
<1>5. MatchedKey(nc) = IF row = 0 THEN << >> ELSE trapdoor_table[row].trapdoors
    BY DEF MatchedKey, get_trapdoors
<1>6. \/ row = 0 /\ \A k \in 1..Len(trapdoor_table) : ~IsExact(trapdoor_table[k].trapdoors, nc)
      \/ row # 0 /\ row \in 1..Len(trapdoor_table) /\ trapdoor_table[row].trapdoors = Key(n)
    BY <1>3, <1>4, ExactMatchIsFirst
<1> HIDE DEF row
<1>7. MatchedKey(nc) = << >> \/ MatchedKey(nc) = Key(n)
    BY <1>5, <1>6
<1>8. << >> \notin DOMAIN cs
    <2>1. \A key \in DOMAIN cs : Key(cs[key].name) = key /\ cs[key].name \in Range(names)
        BY DEF RouterInv, ProducerInv
    <2>2. \A m \in Range(names) : Key(m) # << >>
        BY Requested, KeyOfName
    <2> QED
        BY <2>1, <2>2
<1>9. Key(n) \in DOMAIN cs => MatchedKey(nc) = Key(n)
    BY <1>2, <1>5, <1>6 DEF RouterInv
<1> QED
    BY <1>7, <1>8, <1>9 DEF nc

\* Removing the only entry leaves the empty map.
LEMMA RemoveOnly ==
    ASSUME NEW h, NEW v
    PROVE  /\ MapRemove(MapInsert(EmptyMap, h, v), h) = EmptyMap
           /\ DOMAIN MapInsert(EmptyMap, h, v) = {h} /\ MapInsert(EmptyMap, h, v)[h] = v
BY DEF MapRemove, MapInsert, Restrict, EmptyMap

-----------------------------------------------------------------------------
(* The steps.                                                              *)

\* main starts with the inductive invariant.
LEMMA InitInv == Init => Inv
<1> SUFFICES ASSUME Init PROVE Inv
    OBVIOUS
<1>1. DOMAIN EmptyMap = {}
    BY DEF EmptyMap
<1>2. pc = "start" /\ i = 0 /\ registered = 0 /\ request_details = << >> /\ names = << >>
    BY DEF Init
<1>3. ~UnderWay /\ Requests = 0
    BY <1>2 DEF UnderWay, Requests
<1>4. MainInv
    <2>1. names \in Seq(Lines) /\ Len(names) = 0
        BY <1>2
    <2>2. 0 \in 0..Len(names) /\ 0 \in 0..NUM_REQUESTS
        BY <2>1, DemoAssumption DEF DemoAssumption
    <2>3. DOMAIN content = {} /\ producer_panicked = FALSE
        BY <1>1 DEF Init, ProducerInit
    <2> QED
        BY <1>2, <1>3, <2>1, <2>2, <2>3 DEF MainInv
<1>5. ProducerInv
    BY <1>1, <1>2 DEF Init, ProducerInit, ProducerInv
<1>6. RouterInv
    BY <1>1 DEF Init, RouterInit, RouterInv
<1>7. CountInv
    BY <1>1, <1>2, <1>3, FS_EmptySet DEF Init, RouterInit, CountInv
<1>8. HistoryInv
    <2>1. DOMAIN cs = {} /\ 1..i = {} /\ DOMAIN request_details = {}
        BY <1>1, <1>2 DEF Init, RouterInit
    <2>2. request_details \in Seq(Detail) /\ Len(request_details) = 0
        BY <1>2
    <2> QED
        BY <1>2, <2>1, <2>2 DEF HistoryInv, HitIffAskedBefore, ContentAsExpected
<1>9. TimedInv
    <2>1. \A hit : timed(hit) = {}
        BY <1>2 DEF timed
    <2>2. TimedHits = {} /\ TimedMisses = {}
        BY <2>1 DEF TimedHits, TimedMisses
    <2>3. cache_hits = 0 /\ cache_misses = 0
        BY DEF Init, RouterInit
    <2> QED
        BY <1>3, <2>2, <2>3, FS_EmptySet DEF TimedInv
<1>10. FlowInv
    BY <1>2, <1>3 DEF Init, RouterInit, FlowInv
<1>11. ReportAddsUp
    BY <1>2 DEF ReportAddsUp
<1> QED
    BY <1>4, <1>5, <1>6, <1>7, <1>8, <1>9, <1>10, <1>11 DEF Inv

\* What does not touch main's state, the cache and its table leaves what was
\* recorded as it is.
LEMMA HistoryKept ==
    ASSUME HistoryInv, UNCHANGED <<names, i, request_details>>, DOMAIN cs' = DOMAIN cs
    PROVE  HistoryInv'
BY DEF HistoryInv, HitIffAskedBefore, ContentAsExpected

\* While nothing is recorded, nothing is timed.
LEMMA TimedKept ==
    ASSUME TimedInv, UNCHANGED <<request_details, cache_hits>>,
           cache_misses' - Requests' = cache_misses - Requests, cache_misses' \in Nat,
           cache_misses \in Nat, Requests \in Nat, Requests' \in Nat
    PROVE  TimedInv'
<1>1. TimedHits' = TimedHits /\ TimedMisses' = TimedMisses
    BY DEF timed, TimedHits, TimedMisses
<1>2. Cardinality(TimedMisses) \in Nat
    BY FS_CardinalityType DEF TimedInv
<1> QED
    BY <1>1, <1>2 DEF TimedInv

\* The misses counted are a number.
LEMMA MissesCounted ==
    ASSUME CountInv
    PROVE  cache_misses \in Nat /\ cache_hits \in Nat /\ Requests \in {0, 1}
BY FS_CardinalityType DEF CountInv, Requests

\* main gets the lines of a file.
LEMMA LoadNamesInv ==
    ASSUME Inv, LoadNames
    PROVE  Inv'
<1>1. /\ pc = "start" /\ pc' = "setup"
      /\ UNCHANGED <<router_vars, producer_vars, registered, i, name, update_uri,
                     received_content, request_details, report>>
    BY DEF LoadNames
<1>2. names = << >> /\ registered = 0 /\ i = 0 /\ DOMAIN content = {} /\ producer_panicked = FALSE
    BY <1>1 DEF Inv, MainInv
<1>3. UNCHANGED <<trapdoor_table, cs, pending, staged_data, cache_hits, cache_misses, panicked>>
    BY <1>1 DEF router_vars
<1>4. ~UnderWay /\ ~UnderWay' /\ Requests' = Requests /\ Requests = 0
    BY <1>1 DEF UnderWay, Requests
<1>5. names' \in Seq(Lines)
    <2>1. PICK file \in Files : names' = Without(file, Blank)
        BY DEF LoadNames
    <2>2. file \in Seq(Range(file)) /\ Range(file) \subseteq Lines
        <3>1. file \in Seq(RawName)
            BY DemoAssumption DEF DemoAssumption
        <3> QED
            BY <3>1, SeqOfRange DEF Lines
    <2>3. names' \in Seq(Range(file) \ {Blank})
        BY <2>1, <2>2, WithoutIsSeq
    <2> QED
        BY <2>2, <2>3, SeqMonotonic
<1>6. MainInv'
    BY <1>1, <1>2, <1>4, <1>5 DEF Inv, MainInv
<1>7. ProducerInv'
    BY <1>1, <1>2 DEF Inv, ProducerInv, producer_vars
<1>8. RouterInv'
    BY <1>1, <1>2, <1>3 DEF Inv, RouterInv, producer_vars
<1>9. CountInv'
    BY <1>1, <1>3, <1>4 DEF Inv, CountInv
<1>10. HistoryInv'
    <2>1. DOMAIN request_details = {} /\ 1..i = {}
        BY <1>2 DEF Inv, HistoryInv
    <2> QED
        BY <1>1, <1>2, <1>3, <2>1 DEF Inv, HistoryInv, HitIffAskedBefore, ContentAsExpected
<1>11. TimedInv'
    BY <1>1, <1>3, <1>4, MissesCounted, TimedKept DEF Inv
<1>12. FlowInv'
    BY <1>1, <1>3, <1>4 DEF Inv, FlowInv
<1>13. ReportAddsUp'
    BY <1>1 DEF ReportAddsUp
<1> QED
    BY <1>6, <1>7, <1>8, <1>9, <1>10, <1>11, <1>12, <1>13 DEF Inv

\* main registers a line, or panics because the line does not parse.
LEMMA RegisterLineInv ==
    ASSUME Inv, RegisterLine
    PROVE  Inv'
<1> DEFINE n == names[registered + 1]
           nt == name_to_trapdoor(private_key, n)
<1>1. pc = "setup" /\ registered \in 0..Len(names) /\ registered < Len(names) /\ registered' = registered + 1
    BY DEF RegisterLine, Inv, MainInv
<1>2. UNCHANGED <<router_vars, names, pc, i, name, update_uri, received_content, request_details, report>>
    BY DEF RegisterLine
<1>3. UnderWay' = UnderWay /\ Requests' = Requests /\ ~UnderWay
    BY <1>1, <1>2 DEF UnderWay, Requests
<1>4. names \in Seq(Lines) /\ registered + 1 \in 1..Len(names) /\ n \in Lines /\ n \in Range(names)
    BY <1>1, ElementOfSeq DEF Inv, MainInv, Range
<1>5. MainInv'
    BY <1>1, <1>2, <1>3, <1>4 DEF Inv, MainInv
<1>6. CountInv' /\ HistoryInv' /\ TimedInv' /\ FlowInv' /\ ReportAddsUp'
    <2>1. UNCHANGED <<trapdoor_table, cs, pending, staged_data, cache_hits, cache_misses>>
        BY <1>2 DEF router_vars
    <2>2. CountInv'
        BY <1>2, <1>3, <2>1 DEF Inv, CountInv
    <2>3. HistoryInv'
        BY <1>2, <2>1, HistoryKept DEF Inv
    <2>4. FlowInv'
        BY <1>1, <1>2, <1>3, <2>1 DEF Inv, FlowInv
    <2>5. TimedInv'
        BY <1>2, <1>3, <2>1, MissesCounted, TimedKept DEF Inv
    <2>6. ReportAddsUp'
        BY <1>1, <1>2 DEF ReportAddsUp
    <2> QED
        BY <2>2, <2>3, <2>4, <2>5, <2>6
<1>7. CASE ~nt.ok /\ producer_panicked' = TRUE /\ UNCHANGED <<producer_table, content>>
    <2>1. ProducerInv'
        BY <1>2, <1>7 DEF Inv, ProducerInv
    <2>2. RouterInv'
        BY <1>2, <1>7 DEF Inv, RouterInv, router_vars
    <2> QED
        BY <1>5, <1>6, <2>1, <2>2 DEF Inv
<1>8. CASE /\ nt.ok /\ UNCHANGED producer_panicked
           /\ producer_table' \in insert(producer_table, nt.val, n)
           /\ content' = content_insert(n, n)
    <2>1. n \in RawName /\ parse_name(n).ok /\ nt.val = Key(n)
        BY <1>4, <1>8, LinesAreRaw, ParseDecides DEF Key
    <2>2. Key(n) \in Seq(Scalar) \ {<< >>} /\ n \in RawName \cup {NoName}
        BY <2>1, KeyOfName
    <2> HIDE DEF n, nt
    <2>3. producer_table \in Seq(TrapdoorTableEntry)
        BY DEF Inv, ProducerInv
    <2>4. producer_table' \in insert(producer_table, Key(n), n)
        BY <1>8, <2>1
    <2>5. producer_table' \in Seq(TrapdoorTableEntry)
        BY <2>2, <2>3, <2>4, InsertRows
    <2>6. /\ \A l \in 1..Len(producer_table) :
                \E k \in 1..Len(producer_table') : producer_table'[k] = producer_table[l]
          /\ \E k \in 1..Len(producer_table') : producer_table'[k] = Entry(Key(n), n)
          /\ \A k \in 1..Len(producer_table') :
                \/ producer_table'[k] = Entry(Key(n), n)
                \/ \E l \in 1..Len(producer_table) : producer_table'[k] = producer_table[l]
        BY <2>2, <2>3, <2>4, InsertEntries
    <2>7. Entry(Key(n), n).trapdoors = Key(n) /\ Entry(Key(n), n).cleartext_name = n
        BY DEF Entry
    <2>8. \A k \in 1..Len(producer_table') :
              producer_table'[k].trapdoors = Key(producer_table'[k].cleartext_name)
        <3>1. \A l \in 1..Len(producer_table) :
                  producer_table[l].trapdoors = Key(producer_table[l].cleartext_name)
            BY DEF Inv, ProducerInv
        <3> QED
            BY <2>6, <2>7, <3>1
    <2>9. /\ DOMAIN content' = DOMAIN content \cup {n}
          /\ \A m \in DOMAIN content' : content'[m] = IF m = n THEN n ELSE content[m]
        BY <1>8 DEF content_insert, MapInsert
    <2>10. \A m \in DOMAIN content' : m \in Range(names') /\ parse_name(m).ok /\ content'[m] = m
        BY <1>2, <1>4, <2>1, <2>9 DEF Inv, ProducerInv
    <2>11. ASSUME producer_panicked' = FALSE, NEW k \in 1..registered'
           PROVE  names'[k] \in DOMAIN content'
        <3>1. CASE k \in 1..registered
            BY <1>2, <1>8, <2>9, <2>11, <3>1 DEF Inv, ProducerInv
        <3>2. CASE k = registered + 1
            BY <1>2, <2>9, <3>2 DEF n
        <3> QED
            BY <1>1, <3>1, <3>2
    <2>12. ProducerInv'
        BY <2>5, <2>8, <2>10, <2>11 DEF ProducerInv
    <2>13. RouterInv'
        BY <1>2, <2>9 DEF Inv, RouterInv, router_vars
    <2> QED
        BY <1>5, <1>6, <2>12, <2>13 DEF Inv
<1> QED
    BY <1>7, <1>8 DEF RegisterLine, register_content

\* The router gets the row of the prefix.
LEMMA RegisterPrefixInv ==
    ASSUME Inv, RegisterPrefix
    PROVE  Inv'
<1>1. /\ pc = "setup" /\ pc' = "request" /\ registered = Len(names) /\ ~producer_panicked
      /\ UNCHANGED <<producer_vars, names, registered, i, name, update_uri, received_content, request_details>>
    BY DEF RegisterPrefix
<1>2. PrefixKey \in Seq(Scalar) \ {<< >>} /\ decode_trapdoor_registration(prefix_registration_uri) = Ok(PrefixKey[1])
    BY PrefixDecoded
<1>3. <<PrefixKey[1]>> = PrefixKey
    BY DEF PrefixKey
<1>4. /\ trapdoor_table' \in insert(trapdoor_table, PrefixKey, NoName)
      /\ UNCHANGED <<cs, pending, staged_data, cache_hits, cache_misses, panicked>>
    BY <1>2, <1>3 DEF RegisterPrefix, on_trapdoor_registration, Ok
<1>5. ~UnderWay /\ ~UnderWay' /\ Requests' = Requests
    BY <1>1 DEF UnderWay, Requests
<1>6. trapdoor_table \in Seq(TrapdoorTableEntry) /\ NoName \in RawName \cup {NoName}
    BY DEF Inv, RouterInv
<1>7. trapdoor_table' \in Seq(TrapdoorTableEntry) /\ Len(trapdoor_table') = Len(trapdoor_table) + 1
    BY <1>2, <1>4, <1>6, InsertRows
<1>8. /\ \A k \in 1..Len(trapdoor_table) :
            \E l \in 1..Len(trapdoor_table') : trapdoor_table'[l].trapdoors = trapdoor_table[k].trapdoors
      /\ \E l \in 1..Len(trapdoor_table') : trapdoor_table'[l].trapdoors = PrefixKey
      /\ \A l \in 1..Len(trapdoor_table') :
            \/ trapdoor_table'[l].trapdoors = PrefixKey
            \/ \E k \in 1..Len(trapdoor_table) : trapdoor_table'[l].trapdoors = trapdoor_table[k].trapdoors
    BY <1>2, <1>4, <1>6, InsertKeys
<1>9. MainInv'
    BY <1>1, <1>5 DEF Inv, MainInv, producer_vars
<1>10. ProducerInv'
    BY <1>1 DEF Inv, ProducerInv, producer_vars
<1>11. RouterInv'
    <2>1. \A l \in 1..Len(trapdoor_table') : trapdoor_table'[l].trapdoors \in DOMAIN cs' \cup {PrefixKey'}
        BY <1>4, <1>8 DEF Inv, RouterInv, PrefixKey, Key
    <2>2. ASSUME NEW key \in DOMAIN cs'
          PROVE  /\ cs'[key].name \in DOMAIN content' /\ key = Key(cs'[key].name)
                 /\ cs'[key].content = cs'[key].name
                 /\ \E l \in 1..Len(trapdoor_table') : trapdoor_table'[l].trapdoors = key
        BY <1>1, <1>4, <1>8 DEF Inv, RouterInv, producer_vars
    <2> QED
        BY <1>4, <1>7, <2>1, <2>2 DEF Inv, RouterInv
<1>12. CountInv'
    BY <1>1, <1>4, <1>5, <1>7, FS_CardinalityType DEF Inv, CountInv
<1>13. HistoryInv'
    BY <1>1, <1>4, HistoryKept DEF Inv
<1>14. FlowInv'
    BY <1>1, <1>4, <1>5 DEF Inv, FlowInv
<1>15. TimedInv'
    BY <1>1, <1>4, <1>5, MissesCounted, TimedKept DEF Inv
<1>16. ReportAddsUp'
    BY <1>1 DEF ReportAddsUp
<1> QED
    BY <1>9, <1>10, <1>11, <1>12, <1>13, <1>14, <1>15, <1>16 DEF Inv

\* main records a finished request: a hit if, and only if, what answered it
\* was in the content store, where it is now.
LEMMA Recorded ==
    ASSUME MainInv, ProducerInv, HistoryInv, pc # "setup", i < NUM_REQUESTS,
           NEW n \in Range(names), NEW hit \in BOOLEAN, NEW received \in Range(names),
           Alias(received, n), hit <=> Key(n) \in DOMAIN cs,
           Record(n, hit, received), UNCHANGED names, DOMAIN cs' = DOMAIN cs \cup {Key(n)}
    PROVE  HistoryInv'
<1> DEFINE detail == [name |-> n, was_cache_hit |-> hit, received_content |-> received]
<1>1. n \in Lines /\ received \in Lines /\ n \in RawName /\ parse_name(n).ok
    BY Requested
<1>2. /\ detail \in Detail /\ detail.name = n /\ detail.was_cache_hit = hit
      /\ detail.received_content = received
    BY <1>1 DEF Detail
<1>3. request_details' = Append(request_details, detail) /\ i' = i + 1
    BY DEF Record
<1> HIDE DEF detail
<1>4. i \in Nat /\ request_details \in Seq(Detail) /\ Len(request_details) = i
    BY DEF MainInv, HistoryInv
<1>5. /\ request_details' \in Seq(Detail) /\ Len(request_details') = i'
      /\ request_details'[i + 1] = detail
      /\ \A k \in 1..i : request_details'[k] = request_details[k]
      /\ DOMAIN request_details = 1..i /\ DOMAIN request_details' = 1..(i + 1)
    BY <1>2, <1>3, <1>4, AppendProperties
<1>6. 1..(i + 1) = 1..i \cup {i + 1} /\ 1..((i + 1) - 1) = 1..i /\ i + 1 \notin 1..i
    BY <1>4
<1>7. \A k \in 1..i : request_details[k].name \in RawName /\ parse_name(request_details[k].name).ok
    BY Requested DEF HistoryInv
<1>8. \A k \in 1..i' : request_details'[k].name \in Range(names')
    BY <1>2, <1>3, <1>5, <1>6 DEF HistoryInv
<1>9. DOMAIN cs' = {Key(request_details'[k].name) : k \in 1..i'}
    <2>1. DOMAIN cs = {Key(request_details[k].name) : k \in 1..i}
        BY DEF HistoryInv
    <2>2. {Key(request_details[k].name) : k \in 1..i} = {Key(request_details'[k].name) : k \in 1..i}
        BY <1>5
    <2>3. {Key(request_details'[k].name) : k \in 1..(i + 1)}
             = {Key(request_details'[k].name) : k \in 1..i} \cup {Key(request_details'[i + 1].name)}
        BY <1>6
    <2> QED
        BY <1>2, <1>3, <1>5, <2>1, <2>2, <2>3 DEF Key
<1>10. HitIffAskedBefore'
    <2>1. ASSUME NEW k \in 1..i
          PROVE  request_details'[k].was_cache_hit <=>
                    \E j \in 1..(k-1) : Alias(request_details'[j].name, request_details'[k].name)
        <3>1. request_details[k].was_cache_hit <=>
                 \E j \in 1..(k-1) : Alias(request_details[j].name, request_details[k].name)
            BY <1>5 DEF HistoryInv, HitIffAskedBefore
        <3>2. \A j \in 1..(k-1) : j \in 1..i
            BY <1>4
        <3> QED
            BY <1>5, <3>1, <3>2
    <2>2. hit <=> \E j \in 1..i : Alias(request_details[j].name, n)
        <3>1. Key(n) \in DOMAIN cs <=> \E j \in 1..i : Key(request_details[j].name) = Key(n)
            BY DEF HistoryInv
        <3> QED
            BY <1>1, <1>7, <3>1, KeyTellsNames
    <2>3. hit <=> \E j \in 1..((i + 1) - 1) : Alias(request_details'[j].name, n)
        BY <1>5, <1>6, <2>2
    <2> QED
        BY <1>2, <1>5, <1>6, <2>1, <2>3 DEF HitIffAskedBefore
<1>11. ContentAsExpected'
    <2>1. ASSUME NEW k \in 1..i
          PROVE  \E line \in Range(names') : /\ Alias(line, request_details'[k].name)
                                             /\ request_details'[k].received_content = line
        BY <1>5 DEF HistoryInv, ContentAsExpected
    <2> QED
        BY <1>2, <1>5, <1>6, <2>1 DEF ContentAsExpected
<1> QED
    BY <1>5, <1>8, <1>9, <1>10, <1>11 DEF HistoryInv

\* A finished request is timed as what it is recorded as.
LEMMA RecordedTimed ==
    ASSUME HistoryInv, MainInv, TimedInv,
           NEW n, NEW hit \in BOOLEAN, NEW received, Record(n, hit, received)
    PROVE  /\ hit => /\ IsFiniteSet(TimedHits') /\ TimedMisses' = TimedMisses
                     /\ Cardinality(TimedHits') = Cardinality(TimedHits) + 1
           /\ ~hit => /\ IsFiniteSet(TimedMisses') /\ TimedHits' = TimedHits
                      /\ Cardinality(TimedMisses') = Cardinality(TimedMisses) + 1
<1> DEFINE detail == [name |-> n, was_cache_hit |-> hit, received_content |-> received]
<1>1. request_details' = Append(request_details, detail) /\ detail.was_cache_hit = hit
    BY DEF Record
<1> HIDE DEF detail
<1>2. i \in Nat /\ request_details \in Seq(Detail) /\ Len(request_details) = i
    BY DEF MainInv, HistoryInv
<1>3. /\ request_details'[i + 1] = detail
      /\ \A k \in 1..i : request_details'[k] = request_details[k]
      /\ DOMAIN request_details = 1..i /\ DOMAIN request_details' = 1..(i + 1)
    BY <1>1, <1>2
<1>4. ASSUME NEW b \in BOOLEAN
      PROVE  /\ timed(b)' = IF b = hit THEN timed(b) \cup {i + 1} ELSE timed(b)
             /\ i + 1 \notin timed(b)
    <2>1. 1..(i + 1) = 1..i \cup {i + 1} /\ i + 1 \notin 1..i
        BY <1>2
    <2>2. \A k : k \in timed(b) <=> k \in 1..i /\ request_details[k].was_cache_hit = b
        BY <1>3 DEF timed
    <2>3. \A k : k \in timed(b)' <=> k \in 1..(i + 1) /\ request_details'[k].was_cache_hit = b
        BY <1>3 DEF timed
    <2>4. \A k : k \in timed(b)' <=> k \in timed(b) \/ (k = i + 1 /\ b = hit)
        BY <1>1, <1>3, <2>1, <2>2, <2>3
    <2> QED
        BY <2>1, <2>2, <2>4
<1>5. /\ IsFiniteSet(TimedHits) /\ Cardinality(TimedHits) \in Nat
      /\ IsFiniteSet(TimedMisses) /\ Cardinality(TimedMisses) \in Nat
    BY FS_CardinalityType DEF TimedInv
<1>6. CASE hit = TRUE
    <2>1. /\ TimedHits' = TimedHits \cup {i + 1} /\ i + 1 \notin TimedHits
          /\ TimedMisses' = TimedMisses
        BY <1>4, <1>6, Zenon DEF TimedHits, TimedMisses
    <2>2. IsFiniteSet(TimedHits') /\ Cardinality(TimedHits') = Cardinality(TimedHits) + 1
        BY <1>5, <2>1, FS_AddElement
    <2> QED
        BY <1>6, <2>1, <2>2
<1>7. CASE hit = FALSE
    <2>1. /\ TimedMisses' = TimedMisses \cup {i + 1} /\ i + 1 \notin TimedMisses
          /\ TimedHits' = TimedHits
        BY <1>4, <1>7, Zenon DEF TimedHits, TimedMisses
    <2>2. IsFiniteSet(TimedMisses') /\ Cardinality(TimedMisses') = Cardinality(TimedMisses) + 1
        BY <1>5, <2>1, FS_AddElement
    <2> QED
        BY <1>7, <2>1, <2>2
<1> QED
    BY <1>6, <1>7

\* What of the invariant only looks at names, the producer, the content store
\* and its table.
LEMMA StoreKept ==
    ASSUME Inv, UNCHANGED <<producer_vars, names, registered, trapdoor_table, cs, panicked>>
    PROVE  ProducerInv' /\ RouterInv'
BY DEF Inv, ProducerInv, RouterInv, producer_vars, PrefixKey, Key

\* main makes a request that the content store answers.
LEMMA RequestServedInv ==
    ASSUME Inv, RequestServed
    PROVE  Inv'
<1>1. PICK n \in Range(names), data \in Range(cs) :
        ServeFromCache(interest_uri(n), data) /\ Record(n, TRUE, data.content) /\ name' = n
    BY DEF RequestServed
<1>2. pc = "request" /\ pc' = "request" /\ i < NUM_REQUESTS /\ i' = i + 1
      /\ UNCHANGED <<producer_vars, names, registered, update_uri>>
    BY <1>1 DEF RequestServed, Record
<1>3. ~UnderWay /\ ~UnderWay' /\ Requests = 0 /\ Requests' = 0
    BY <1>2 DEF UnderWay, Requests
<1>4. MainInv /\ ProducerInv /\ RouterInv /\ CountInv /\ HistoryInv /\ TimedInv /\ FlowInv
    BY DEF Inv
<1>5. n \in Lines /\ n \in RawName /\ parse_name(n).ok /\ i \in 0..NUM_REQUESTS
    BY <1>2, <1>4, Requested DEF MainInv
<1> DEFINE nc == Ciphertexts(n)
<1>6. decode_ciphertext_name(interest_uri(n)) = Ok(nc)
    BY <1>2, <1>5, RequestDecoded
<1>7. /\ MatchedKey(nc) \in DOMAIN cs <=> Key(n) \in DOMAIN cs
      /\ Key(n) \in DOMAIN cs => MatchedKey(nc) = Key(n)
    BY <1>2, <1>4, LookedUp
<1> HIDE DEF nc
<1>8. Key(n) \in DOMAIN cs /\ data = cs[Key(n)]
    <2>1. MatchedKey(nc) \in DOMAIN cs /\ data = cs[MatchedKey(nc)]
        BY <1>1, <1>6 DEF ServeFromCache, Ok
    <2> QED
        BY <1>7, <2>1
<1>9. /\ cache_hits' = cache_hits + 1
      /\ pending' = lookup_and_remove(pending_insert(interest_uri(n)), Sha256(interest_uri(n)))
      /\ UNCHANGED <<trapdoor_table, cs, staged_data, cache_misses, panicked>>
    BY <1>1 DEF ServeFromCache
<1>10. data.content \in Range(names) /\ Alias(data.content, n)
    <2> DEFINE m == data.content
    <2>1. m \in DOMAIN content /\ Key(m) = Key(n)
        BY <1>4, <1>8 DEF RouterInv
    <2>2. m \in Range(names)
        BY <1>4, <2>1 DEF ProducerInv
    <2> HIDE DEF m
    <2>3. m \in RawName /\ parse_name(m).ok
        BY <1>2, <1>4, <2>2, Requested
    <2> QED
        BY <1>5, <2>1, <2>2, <2>3, KeyTellsNames DEF m
<1>11. MainInv'
    <2>1. i' \in 0..NUM_REQUESTS
        BY <1>2, <1>5, DemoAssumption DEF DemoAssumption
    <2> QED
        BY <1>2, <1>3, <1>4, <2>1 DEF MainInv, producer_vars
<1>12. ProducerInv' /\ RouterInv'
    BY <1>2, <1>9, StoreKept
<1>13. CountInv'
    BY <1>2, <1>3, <1>4, <1>5, <1>9, FS_CardinalityType DEF CountInv
<1>14. HistoryInv'
    <2>1. DOMAIN cs' = DOMAIN cs \cup {Key(n)}
        BY <1>8, <1>9
    <2> QED
        BY <1>1, <1>2, <1>4, <1>8, <1>10, <2>1, Recorded
<1>15. FlowInv'
    <2>1. pending = EmptyMap /\ staged_data = EmptyMap
        BY <1>2, <1>3, <1>4 DEF FlowInv
    <2>2. pending' = EmptyMap
        BY <1>9, <2>1, RemoveOnly DEF lookup_and_remove, pending_insert
    <2> QED
        BY <1>2, <1>3, <1>9, <2>1, <2>2 DEF FlowInv
<1>16. TimedInv'
    <2>1. /\ IsFiniteSet(TimedHits') /\ TimedMisses' = TimedMisses
          /\ Cardinality(TimedHits') = Cardinality(TimedHits) + 1
        BY <1>1, <1>4, RecordedTimed, Zenon
    <2>2. /\ IsFiniteSet(TimedHits) /\ IsFiniteSet(TimedMisses)
          /\ cache_hits = Cardinality(TimedHits)
          /\ cache_misses = Cardinality(TimedMisses) + Requests
        BY <1>4 DEF TimedInv
    <2> QED
        BY <1>3, <1>9, <2>1, <2>2 DEF TimedInv
<1>17. ReportAddsUp'
    BY <1>2 DEF ReportAddsUp
<1> QED
    BY <1>11, <1>12, <1>13, <1>14, <1>15, <1>16, <1>17 DEF Inv

\* main makes a request that the router forwards.
LEMMA RequestForwardedInv ==
    ASSUME Inv, RequestForwarded
    PROVE  Inv'
<1>1. PICK n \in Range(names) :
        Forward(interest_uri(n), Sha256(interest_uri(n))) /\ name' = n
    BY DEF RequestForwarded
<1>2. /\ pc = "request" /\ pc' = "forwarded" /\ i < NUM_REQUESTS
      /\ UNCHANGED <<producer_vars, names, registered, i, update_uri, received_content, request_details>>
    BY <1>1 DEF RequestForwarded
<1>3. ~UnderWay /\ UnderWay' /\ Requests = 0 /\ Requests' = 1
    BY <1>2 DEF UnderWay, Requests
<1>4. MainInv /\ ProducerInv /\ RouterInv /\ CountInv /\ HistoryInv /\ TimedInv /\ FlowInv
    BY DEF Inv
<1>5. n \in Lines /\ n \in RawName /\ parse_name(n).ok /\ i \in 0..NUM_REQUESTS
    BY <1>2, <1>4, Requested DEF MainInv
<1> DEFINE nc == Ciphertexts(n)
<1>6. decode_ciphertext_name(interest_uri(n)) = Ok(nc)
    BY <1>2, <1>5, RequestDecoded
<1>7. MatchedKey(nc) \in DOMAIN cs <=> Key(n) \in DOMAIN cs
    BY <1>2, <1>4, LookedUp
<1> HIDE DEF nc
<1>8. Key(n) \notin DOMAIN cs
    BY <1>1, <1>6, <1>7 DEF Forward, Misses, Ok
<1>9. /\ cache_misses' = cache_misses + 1
      /\ pending' = pending_insert(interest_uri(n))
      /\ UNCHANGED <<trapdoor_table, cs, staged_data, cache_hits, panicked>>
    BY <1>1 DEF Forward
<1>10. MainInv'
    BY <1>1, <1>2, <1>3, <1>4 DEF MainInv, producer_vars
<1>11. ProducerInv' /\ RouterInv'
    BY <1>2, <1>9, StoreKept
<1>12. CountInv'
    BY <1>2, <1>3, <1>4, <1>5, <1>9, FS_CardinalityType DEF CountInv
<1>13. HistoryInv'
    BY <1>2, <1>4, <1>9, HistoryKept
<1>14. FlowInv'
    <2>1. pending = EmptyMap /\ staged_data = EmptyMap
        BY <1>2, <1>3, <1>4 DEF FlowInv
    <2>2. interest_uri(name)' = interest_uri(n) /\ H' = Sha256(interest_uri(n)) /\ Key(name)' = Key(n)
        BY <1>1, <1>2 DEF interest_uri, H, Key
    <2>3. pending' = MapInsert(EmptyMap, H', interest_uri(name)')
        BY <1>9, <2>1, <2>2 DEF pending_insert
    <2> QED
        BY <1>2, <1>3, <1>8, <1>9, <2>1, <2>2, <2>3 DEF FlowInv
<1>15. TimedInv'
    BY <1>2, <1>3, <1>4, <1>9, MissesCounted, TimedKept
<1>16. ReportAddsUp'
    BY <1>2 DEF ReportAddsUp
<1> QED
    BY <1>10, <1>11, <1>12, <1>13, <1>14, <1>15, <1>16 DEF Inv

\* The producer answers: its data is staged under the hash of the request.
LEMMA ProducerAnswersInv ==
    ASSUME Inv, ProducerAnswers
    PROVE  Inv'
<1>1. PICK reply \in producer_on_interest(interest_uri(name), H) :
        on_data(H, reply.data) /\ received_content' = reply.data.content /\ update_uri' = reply.update
    BY DEF ProducerAnswers, H
<1>2. /\ pc = "forwarded" /\ pc' = "update"
      /\ UNCHANGED <<producer_vars, names, registered, i, name, request_details>>
    BY DEF ProducerAnswers
<1>3. UnderWay /\ UnderWay' /\ Requests' = Requests
    BY <1>2 DEF UnderWay, Requests
<1>4. MainInv /\ ProducerInv /\ RouterInv /\ CountInv /\ HistoryInv /\ TimedInv /\ FlowInv
    BY DEF Inv
<1>5. /\ name \in Range(names) /\ name \in Lines /\ name \in RawName /\ parse_name(name).ok
      /\ i \in 0..NUM_REQUESTS /\ i < NUM_REQUESTS
    BY <1>2, <1>3, <1>4, Requested DEF MainInv
<1> DEFINE nc == Ciphertexts(name)
<1>6. decode_ciphertext_name(interest_uri(name)) = Ok(nc)
    BY <1>5, RequestDecoded
<1>7. \A m \in RawName : parse_name(m).ok => (IsExact(Key(m), nc) <=> Alias(m, name))
    BY <1>5, RequestDecoded
<1> HIDE DEF nc
<1>8. PICK m \in DOMAIN content :
        /\ Finds(nc, m)
        /\ reply = [data   |-> [name |-> m, content |-> content[m]],
                    update |-> encode_trapdoor_update(Key(m), H)]
    BY <1>6 DEF producer_on_interest, Key, Ok
<1>9. m \in RawName /\ parse_name(m).ok /\ content[m] = m
    BY <1>2, <1>4, Requested DEF ProducerInv
<1>10. IsExact(Key(m), nc)
    <2> DEFINE row == match_exhaustive(producer_table, nc).exact_match
    <2>1. row # 0 /\ producer_table[row].cleartext_name = m
        BY <1>8 DEF Finds, get_cleartext_name
    <2>2. Len(producer_table) \in Nat
        BY <1>4 DEF ProducerInv
    <2>3. row \in 1..Len(producer_table) /\ IsExact(producer_table[row].trapdoors, nc)
        BY <2>1, <2>2, ExactMatchIsFirst
    <2> HIDE DEF row
    <2> QED
        BY <1>4, <2>1, <2>3 DEF ProducerInv
<1>11. Alias(m, name)
    BY <1>7, <1>9, <1>10
<1>12. /\ reply.data = [name |-> m, content |-> m] /\ received_content' = m
       /\ update_uri' = encode_trapdoor_update(Key(m), H)
    BY <1>1, <1>8, <1>9
<1>13. /\ staged_data' = MapInsert(staged_data, H, [name |-> m, content |-> m])
       /\ UNCHANGED <<trapdoor_table, cs, pending, cache_hits, cache_misses, panicked>>
    BY <1>1, <1>12 DEF on_data
<1>14. MainInv'
    BY <1>2, <1>3, <1>4 DEF MainInv, producer_vars
<1>15. ProducerInv' /\ RouterInv'
    BY <1>2, <1>13, StoreKept
<1>16. CountInv'
    BY <1>2, <1>3, <1>4, <1>13 DEF CountInv
<1>17. HistoryInv'
    BY <1>2, <1>4, <1>13, HistoryKept
<1>18. FlowInv'
    <2>1. H' = H /\ interest_uri(name)' = interest_uri(name) /\ Key(name)' = Key(name)
        BY <1>2 DEF interest_uri, H, Key
    <2>2. /\ Key(name) \notin DOMAIN cs /\ pending = MapInsert(EmptyMap, H, interest_uri(name))
          /\ staged_data = EmptyMap
        BY <1>2, <1>3, <1>4 DEF FlowInv
    <2>3. received_content' \in DOMAIN content' /\ Alias(received_content', name')
        BY <1>2, <1>8, <1>11, <1>12 DEF producer_vars
    <2>4. /\ staged_data' = MapInsert(EmptyMap, H', [name |-> received_content', content |-> received_content'])
          /\ update_uri' = encode_trapdoor_update(Key(received_content'), H')
        BY <1>12, <1>13, <2>1, <2>2
    <2>5. Key(name)' \notin DOMAIN cs' /\ pending' = MapInsert(EmptyMap, H', interest_uri(name)')
        BY <1>13, <2>1, <2>2
    <2> QED
        BY <1>2, <1>3, <2>3, <2>4, <2>5 DEF FlowInv, Key
<1>19. TimedInv'
    BY <1>2, <1>3, <1>4, <1>13, MissesCounted, TimedKept
<1>20. ReportAddsUp'
    BY <1>2 DEF ReportAddsUp
<1> QED
    BY <1>14, <1>15, <1>16, <1>17, <1>18, <1>19, <1>20 DEF Inv

\* The update that ends a forwarded request: what it stores, under which key.
LEMMA UpdateStores ==
    ASSUME Inv, pc = "update", on_trapdoor_update(update_uri)
    PROVE  /\ Key(name) \notin DOMAIN cs /\ Key(name) \in Seq(Scalar) \ {<< >>}
           /\ cs' = cs_insert(Key(name), [name |-> received_content, content |-> received_content])
           /\ trapdoor_table' \in insert(trapdoor_table, Key(name), NoName)
           /\ pending' = EmptyMap /\ staged_data' = EmptyMap
           /\ UNCHANGED <<cache_hits, cache_misses, panicked>>
<1> DEFINE m == received_content
           data == [name |-> m, content |-> m]
<1>1. UnderWay
    BY DEF UnderWay
<1>2. /\ Key(name) \notin DOMAIN cs /\ pending = MapInsert(EmptyMap, H, interest_uri(name))
      /\ m \in DOMAIN content /\ Alias(m, name)
      /\ staged_data = MapInsert(EmptyMap, H, data)
      /\ update_uri = encode_trapdoor_update(Key(m), H)
    BY <1>1 DEF Inv, FlowInv
<1>3. m \in RawName /\ parse_name(m).ok /\ name \in RawName /\ parse_name(name).ok
    BY <1>1, <1>2, Requested DEF Inv, MainInv, ProducerInv
<1> HIDE DEF m, data
<1>4. Key(m) = Key(name)
    BY <1>2, <1>3, KeyTellsNames
<1>5. Key(name) \in Seq(Scalar) \ {<< >>}
    BY <1>3, KeyOfName
<1>6. decode_trapdoor_update(update_uri) = Ok([trapdoors |-> Key(m), hash |-> H])
    BY <1>2, <1>3, NameInUpdate, PrivateKeyAssumption DEF PrivateKeyAssumption, Key, H
<1>7. /\ pending' = lookup_and_remove(pending, H)
      /\ Commit(Key(m), H)
      /\ UNCHANGED <<cache_hits, cache_misses, panicked>>
    BY <1>6 DEF on_trapdoor_update, Ok
<1>8. pending' = EmptyMap
    BY <1>2, <1>7, RemoveOnly DEF lookup_and_remove
<1>9. DOMAIN staged_data = {H} /\ staged_data[H] = data /\ MapRemove(staged_data, H) = EmptyMap
    BY <1>2, RemoveOnly
<1>10. /\ staged_data' = staged_remove(H) /\ cs' = cs_insert(Key(m), staged_data[H])
       /\ trapdoor_table' \in insert(trapdoor_table, Key(m), NoName)
    BY <1>7, <1>9 DEF Commit, StagedUnder
<1> QED
    BY <1>2, <1>4, <1>5, <1>7, <1>8, <1>9, <1>10 DEF staged_remove, data, m

\* The update ends the request.
LEMMA UpdateArrivesInv ==
    ASSUME Inv, UpdateArrives
    PROVE  Inv'
<1> DEFINE m == received_content
           data == [name |-> m, content |-> m]
<1>1. /\ pc = "update" /\ pc' = "request" /\ Record(name, FALSE, m) /\ i' = i + 1
      /\ on_trapdoor_update(update_uri)
      /\ UNCHANGED <<producer_vars, names, registered, name, update_uri>>
    BY DEF UpdateArrives, Record
<1>2. UnderWay /\ ~UnderWay' /\ Requests = 1 /\ Requests' = 0
    BY <1>1 DEF UnderWay, Requests
<1>3. MainInv /\ ProducerInv /\ RouterInv /\ CountInv /\ HistoryInv /\ TimedInv /\ FlowInv
    BY DEF Inv
<1>4. /\ name \in Range(names) /\ i \in 0..NUM_REQUESTS /\ i < NUM_REQUESTS
      /\ m \in DOMAIN content /\ Alias(m, name)
    BY <1>1, <1>2, <1>3 DEF MainInv, FlowInv
<1>5. /\ Key(name) \notin DOMAIN cs /\ Key(name) \in Seq(Scalar) \ {<< >>}
      /\ cs' = cs_insert(Key(name), data)
      /\ trapdoor_table' \in insert(trapdoor_table, Key(name), NoName)
      /\ pending' = EmptyMap /\ staged_data' = EmptyMap
      /\ UNCHANGED <<cache_hits, cache_misses, panicked>>
    BY <1>1, UpdateStores
<1>6. m \in Range(names) /\ m \in RawName /\ parse_name(m).ok /\ name \in RawName /\ parse_name(name).ok
    BY <1>1, <1>3, <1>4, Requested DEF ProducerInv
<1>7. Key(m) = Key(name)
    BY <1>4, <1>6, KeyTellsNames
<1>8. data.name = m /\ data.content = m
    OBVIOUS
<1> HIDE DEF m, data
<1>9. /\ DOMAIN cs' = DOMAIN cs \cup {Key(name)}
      /\ \A key \in DOMAIN cs' : cs'[key] = IF key = Key(name) THEN data ELSE cs[key]
    BY <1>5 DEF cs_insert, MapInsert
<1>10. trapdoor_table \in Seq(TrapdoorTableEntry) /\ NoName \in RawName \cup {NoName}
    BY <1>3 DEF RouterInv
<1>11. trapdoor_table' \in Seq(TrapdoorTableEntry) /\ Len(trapdoor_table') = Len(trapdoor_table) + 1
    BY <1>5, <1>10, InsertRows
<1>12. /\ \A k \in 1..Len(trapdoor_table) :
            \E l \in 1..Len(trapdoor_table') : trapdoor_table'[l].trapdoors = trapdoor_table[k].trapdoors
       /\ \E l \in 1..Len(trapdoor_table') : trapdoor_table'[l].trapdoors = Key(name)
       /\ \A l \in 1..Len(trapdoor_table') :
            \/ trapdoor_table'[l].trapdoors = Key(name)
            \/ \E k \in 1..Len(trapdoor_table) : trapdoor_table'[l].trapdoors = trapdoor_table[k].trapdoors
    BY <1>5, <1>10, InsertKeys
<1>13. MainInv'
    <2>1. i' \in 0..NUM_REQUESTS
        BY <1>1, <1>4, DemoAssumption DEF DemoAssumption
    <2> QED
        BY <1>1, <1>2, <1>3, <2>1 DEF MainInv, producer_vars
<1>14. ProducerInv'
    BY <1>1, <1>3 DEF ProducerInv, producer_vars
<1>15. RouterInv'
    <2>1. \A l \in 1..Len(trapdoor_table') : trapdoor_table'[l].trapdoors \in DOMAIN cs' \cup {PrefixKey'}
        <3>1. \A k \in 1..Len(trapdoor_table) : trapdoor_table[k].trapdoors \in DOMAIN cs \cup {PrefixKey}
            BY <1>3 DEF RouterInv
        <3>2. PrefixKey' = PrefixKey
            BY DEF PrefixKey, Key
        <3> QED
            BY <1>9, <1>12, <3>1, <3>2
    <2>2. ASSUME NEW key \in DOMAIN cs'
          PROVE  /\ cs'[key].name \in DOMAIN content' /\ key = Key(cs'[key].name)
                 /\ cs'[key].content = cs'[key].name
                 /\ \E l \in 1..Len(trapdoor_table') : trapdoor_table'[l].trapdoors = key
        <3>1. CASE key = Key(name)
            BY <1>1, <1>4, <1>7, <1>8, <1>9, <1>12, <3>1 DEF producer_vars
        <3>2. CASE key # Key(name)
            <4>1. key \in DOMAIN cs /\ cs'[key] = cs[key]
                BY <1>9, <3>2
            <4>2. /\ cs[key].name \in DOMAIN content /\ key = Key(cs[key].name)
                  /\ cs[key].content = cs[key].name
                  /\ \E k \in 1..Len(trapdoor_table) : trapdoor_table[k].trapdoors = key
                BY <1>3, <4>1 DEF RouterInv
            <4>3. content' = content
                BY <1>1 DEF producer_vars
            <4> QED
                BY <1>12, <4>1, <4>2, <4>3
        <3> QED
            BY <3>1, <3>2
    <2> QED
        BY <1>3, <1>5, <1>11, <2>1, <2>2 DEF RouterInv
<1>16. CountInv'
    <2>1. IsFiniteSet(DOMAIN cs') /\ Cardinality(DOMAIN cs') = Cardinality(DOMAIN cs) + 1
        BY <1>3, <1>5, <1>9, FS_AddElement DEF CountInv
    <2>2. Cardinality(DOMAIN cs) \in Nat /\ i \in Nat
        BY <1>3, <1>4, FS_CardinalityType DEF CountInv
    <2> QED
        BY <1>1, <1>2, <1>3, <1>5, <1>11, <2>1, <2>2 DEF CountInv
<1>17. HistoryInv'
    BY <1>1, <1>3, <1>4, <1>5, <1>6, <1>9, Recorded
<1>18. FlowInv'
    BY <1>1, <1>2, <1>5 DEF FlowInv
<1>19. TimedInv'
    <2>1. /\ IsFiniteSet(TimedMisses') /\ TimedHits' = TimedHits
          /\ Cardinality(TimedMisses') = Cardinality(TimedMisses) + 1
        BY <1>1, <1>3, RecordedTimed, Zenon
    <2>2. /\ IsFiniteSet(TimedHits) /\ IsFiniteSet(TimedMisses)
          /\ cache_hits = Cardinality(TimedHits)
          /\ cache_misses = Cardinality(TimedMisses) + Requests
        BY <1>3 DEF TimedInv
    <2>3. Cardinality(TimedMisses) \in Nat
        BY <2>2, FS_CardinalityType
    <2>4. IsFiniteSet(TimedHits') /\ cache_hits' = Cardinality(TimedHits')
        BY <1>5, <2>1, <2>2
    <2>5. cache_misses' = Cardinality(TimedMisses') + Requests'
        BY <1>2, <1>5, <2>1, <2>2, <2>3
    <2> QED
        BY <2>1, <2>4, <2>5 DEF TimedInv
<1>20. ReportAddsUp'
    BY <1>1 DEF ReportAddsUp
<1> QED
    BY <1>13, <1>14, <1>15, <1>16, <1>17, <1>18, <1>19, <1>20 DEF Inv

\* The keys of the content store are those of the contents requested, one for
\* each.
LEMMA StoreCounted ==
    ASSUME Inv, pc = "request"
    PROVE  Cardinality(DOMAIN cs) = Cardinality({parse_name(d.name) : d \in Range(request_details)})
<1> DEFINE K == DOMAIN cs
           T == {parse_name(d.name) : d \in Range(request_details)}
           f == [key \in K |-> parse_name(cs[key].name)]
<1>1. MainInv /\ ProducerInv /\ RouterInv /\ CountInv /\ HistoryInv
    BY DEF Inv
<1>2. /\ K = {Key(request_details[k].name) : k \in 1..i}
      /\ T = {parse_name(request_details[k].name) : k \in 1..i}
    <2>1. K = {Key(request_details[k].name) : k \in 1..i}
        BY <1>1 DEF HistoryInv
    <2>2. request_details \in Seq(Detail) /\ Len(request_details) = i
        BY <1>1 DEF HistoryInv
    <2>3. DOMAIN request_details = 1..i
        BY <2>2
    <2> QED
        BY <2>1, <2>3 DEF Range
<1>3. \A k \in 1..i : request_details[k].name \in RawName /\ parse_name(request_details[k].name).ok
    BY <1>1, Requested DEF HistoryInv
<1>4. \A key \in K : /\ cs[key].name \in RawName /\ parse_name(cs[key].name).ok
                     /\ key = Key(cs[key].name)
    BY <1>1, Requested DEF RouterInv, ProducerInv
<1> HIDE DEF K, T
<1>5. \A key \in K, k \in 1..i :
         key = Key(request_details[k].name) <=>
            parse_name(cs[key].name) = parse_name(request_details[k].name)
    BY <1>3, <1>4, KeyTellsNames DEF Alias
<1>6. \A key \in K : \E k \in 1..i : key = Key(request_details[k].name)
    BY <1>2
<1>7. \A k \in 1..i : Key(request_details[k].name) \in K
    BY <1>2
<1>8. f \in [K -> T] /\ \A t \in T : \E key \in K : f[key] = t
    BY <1>2, <1>5, <1>6, <1>7
<1>9. ASSUME NEW k \in K, NEW l \in K, f[k] = f[l] PROVE k = l
    BY <1>4, <1>9, KeyTellsNames DEF Alias
<1> HIDE DEF f
<1>10. ExistsBijection(K, T)
    <2>1. f \in Injection(K, T)
        BY <1>8, <1>9 DEF Injection, IsInjective
    <2>2. f \in Surjection(K, T)
        BY <1>8 DEF Surjection
    <2> QED
        BY <2>1, <2>2 DEF ExistsBijection, Bijection
<1>11. IsFiniteSet(K)
    BY <1>1 DEF CountInv, K
<1> QED
    BY <1>10, <1>11, FS_Bijection DEF K, T

\* What main does before the setup, or after the last request, that leaves
\* all but its own place as it is.
LEMMA PlaceInv ==
    ASSUME Inv, ReportAddsUp',
           \/ pc = "start" /\ pc' = "panicked"
           \/ pc = "request" /\ pc' \in {"panicked", "done"},
           UNCHANGED <<router_vars, producer_vars, names, registered, i, name, update_uri,
                       received_content, request_details>>
    PROVE  Inv'
<1>1. ~UnderWay /\ ~UnderWay' /\ Requests' = Requests
    BY DEF UnderWay, Requests
<1>2. UNCHANGED <<trapdoor_table, cs, pending, staged_data, cache_hits, cache_misses, panicked>>
    BY DEF router_vars
<1>3. MainInv'
    BY <1>1 DEF Inv, MainInv, producer_vars
<1>4. ProducerInv' /\ RouterInv'
    BY <1>2, StoreKept
<1>5. CountInv'
    BY <1>1, <1>2 DEF Inv, CountInv
<1>6. HistoryInv'
    BY <1>2, HistoryKept DEF Inv
<1>7. TimedInv'
    BY <1>1, <1>2, MissesCounted, TimedKept DEF Inv
<1>8. FlowInv'
    BY <1>1, <1>2 DEF Inv, FlowInv
<1> QED
    BY <1>3, <1>4, <1>5, <1>6, <1>7, <1>8 DEF Inv

\* main gives up.
LEMMA PanicInv ==
    ASSUME Inv, UnreadableFile \/ NothingToChoose
    PROVE  Inv'
<1>1. /\ pc' = "panicked" /\ pc \in {"start", "request"}
      /\ UNCHANGED <<router_vars, producer_vars, names, registered, i, name, update_uri,
                     received_content, request_details, report>>
    BY DEF UnreadableFile, NothingToChoose
<1>2. ReportAddsUp'
    BY <1>1 DEF ReportAddsUp
<1> QED
    BY <1>1, <1>2, PlaceInv

\* main reports.
LEMMA ReportInv ==
    ASSUME Inv, Report
    PROVE  Inv'
<1>1. /\ pc = "request" /\ pc' = "done" /\ i = NUM_REQUESTS
      /\ UNCHANGED <<router_vars, producer_vars, names, registered, i, name, update_uri,
                     received_content, request_details>>
    BY DEF Report
<1>2. /\ report'.total_requests = cache_hits + cache_misses
      /\ report'.cache_hits = cache_hits /\ report'.cache_misses = cache_misses
      /\ report'.hits = Cardinality(TimedHits) /\ report'.misses = Cardinality(TimedMisses)
      /\ report'.cs_len = Cardinality(DOMAIN cs) /\ report'.table_len = Len(trapdoor_table)
    BY DEF Report, TimedHits, TimedMisses
<1>3. Requests = 0
    BY <1>1 DEF Requests, UnderWay
<1>4. cache_hits + cache_misses = NUM_REQUESTS
    BY <1>1, <1>3, DemoAssumption DEF DemoAssumption, Inv, CountInv
<1>5. cache_hits = Cardinality(TimedHits) /\ cache_misses = Cardinality(TimedMisses)
    <2>1. TimedInv /\ Cardinality(TimedMisses) \in Nat
        BY FS_CardinalityType DEF Inv, TimedInv
    <2> QED
        BY <1>3, <2>1 DEF TimedInv
<1>6. Cardinality(DOMAIN cs) = Cardinality({parse_name(d.name) : d \in Range(request_details)})
    BY <1>1, StoreCounted
<1>7. Len(trapdoor_table) = 1 + Cardinality(DOMAIN cs)
    BY <1>1, FS_CardinalityType DEF Inv, CountInv
<1>8. request_details' = request_details
    BY <1>1
<1>9. ReportAddsUp'
    BY <1>2, <1>4, <1>5, <1>6, <1>7, <1>8 DEF ReportAddsUp
<1> QED
    BY <1>1, <1>9, PlaceInv

\* So does every step of the demonstration.
LEMMA StepInv ==
    ASSUME Inv, [Next]_vars
    PROVE  Inv'
<1>1. CASE UNCHANGED vars
    <2>1. UNCHANGED <<router_vars, producer_vars, main_vars>>
        BY <1>1 DEF vars
    <2>2. /\ UNCHANGED <<trapdoor_table, cs, pending, staged_data, cache_hits, cache_misses, panicked>>
          /\ UNCHANGED <<producer_table, content, producer_panicked>>
          /\ UNCHANGED <<names, pc, registered, i, name, update_uri, received_content, request_details, report>>
        BY <2>1 DEF router_vars, producer_vars, main_vars
    <2>3. UnderWay' = UnderWay /\ Requests' = Requests /\ H' = H
          /\ interest_uri(name)' = interest_uri(name) /\ Key(name)' = Key(name)
        BY <2>2 DEF UnderWay, Requests, H, interest_uri, Key
    <2>4. MainInv'
        BY <2>2, <2>3 DEF Inv, MainInv
    <2>5. ProducerInv' /\ RouterInv'
        BY <2>1, <2>2, StoreKept
    <2>6. CountInv'
        BY <2>2, <2>3 DEF Inv, CountInv
    <2>7. HistoryInv'
        BY <2>2, HistoryKept DEF Inv
    <2>8. FlowInv'
        BY <2>2, <2>3 DEF Inv, FlowInv, Key
    <2>9. TimedInv'
        BY <2>2, <2>3, MissesCounted, TimedKept DEF Inv
    <2>10. ReportAddsUp'
        BY <2>2 DEF Inv, ReportAddsUp
    <2> QED
        BY <2>4, <2>5, <2>6, <2>7, <2>8, <2>9, <2>10 DEF Inv
<1> QED
    BY <1>1, LoadNamesInv, RegisterLineInv, RegisterPrefixInv, RequestServedInv, RequestForwardedInv,
       ProducerAnswersInv, UpdateArrivesInv, PanicInv, ReportInv DEF Next

\* The invariant holds of the specification.
LEMMA SpecInv == Spec => []Inv
BY InitInv, StepInv, PTL DEF Spec

-----------------------------------------------------------------------------
(* What the demonstration shows.                                           *)

\* Whatever the file and the scalars: between two requests no interest is
\* pending and no packet staged, every request was counted once and every
\* miss stored once.
THEOREM DemoLeavesNothing == Spec => []NothingLeftOver
<1>1. ASSUME Inv PROVE NothingLeftOver
    <2> SUFFICES ASSUME pc = "request" PROVE NothingLeftOver
        BY DEF NothingLeftOver
    <2>1. ~UnderWay /\ Requests = 0
        BY DEF UnderWay, Requests
    <2>2. pending = EmptyMap /\ staged_data = EmptyMap
        BY <1>1, <2>1 DEF Inv, FlowInv
    <2>3. Cardinality(DOMAIN cs) \in Nat /\ i \in Nat
        BY <1>1, FS_CardinalityType DEF Inv, MainInv, CountInv
    <2>4. /\ cache_hits + cache_misses = i /\ cache_misses = Cardinality(DOMAIN cs)
          /\ Len(trapdoor_table) = 1 + Cardinality(DOMAIN cs)
        BY <1>1, <2>1, <2>3 DEF Inv, CountInv
    <2> QED
        BY <2>2, <2>4 DEF NothingLeftOver
<1> QED
    BY <1>1, SpecInv, PTL

\* A request is a hit exactly when an earlier one was for the same content,
\* however often and with whatever scalars it was encrypted.
THEOREM DemoHits == Spec => []HitIffAskedBefore
<1>1. ASSUME Inv PROVE HitIffAskedBefore
    BY <1>1 DEF Inv, HistoryInv
<1> QED
    BY <1>1, SpecInv, PTL

\* The consumer is given the content of the name it asked for, in one of the
\* spellings that the file has of it.
THEOREM DemoContent == Spec => []ContentAsExpected
<1>1. ASSUME Inv PROVE ContentAsExpected
    BY <1>1 DEF Inv, HistoryInv
<1> QED
    BY <1>1, SpecInv, PTL

\* The report adds up, for every file and number of requests.
THEOREM DemoReport == Spec => []ReportAddsUp
<1>1. ASSUME Inv PROVE ReportAddsUp
    BY <1>1 DEF Inv
<1> QED
    BY <1>1, SpecInv, PTL

-----------------------------------------------------------------------------
(* main implements a read-through cache, keyed by components.              *)

Origins == [c \in Contents |-> {n \in ParsedNames : parse_name(n).val = c}]
CachedContents == {c \in Contents : key_of(c) \in DOMAIN cs}
Cached == [c \in CachedContents |-> cs[key_of(c)].content]

\* A request as the cache sees it.
Answer(d) ==
    [asked |-> parse_name(d.name).val, hit |-> d.was_cache_hit, data |-> d.received_content]
Answers == [k \in DOMAIN request_details |-> Answer(request_details[k])]

\* A content has the trapdoors of all its names.
LEMMA KeyOfContent ==
    ASSUME NEW n \in Lines, parse_name(n).ok
    PROVE  /\ n \in ParsedNames /\ parse_name(n).val \in Contents
           /\ key_of(parse_name(n).val) = Key(n)
<1> DEFINE c == parse_name(n).val
           plain == <<"">> \o c
<1>1. n \in RawName /\ c \in Seq(Component) \ {<< >>} /\ parse_name(n) = Ok(c)
    BY LinesAreRaw, ParsedName
<1> HIDE DEF c
<1>2. plain \in RawName /\ parse_name(plain) = Ok(c)
    BY <1>1, PlainName
<1>3. key_of(c) = Key(plain)
    BY DEF key_of, Key
<1> HIDE DEF plain
<1>4. Alias(plain, n) /\ parse_name(plain).ok
    BY <1>1, <1>2 DEF Alias, Ok
<1>5. Key(plain) = Key(n)
    BY <1>1, <1>2, <1>4, KeyTellsNames
<1>6. n \in ParsedNames
    BY DEF ParsedNames, Lines
<1> QED
    BY <1>3, <1>5, <1>6 DEF c, Contents

\* Different contents have different trapdoors.
LEMMA ContentsDiffer ==
    ASSUME NEW n \in Lines, parse_name(n).ok, NEW c \in Contents, key_of(c) = Key(n)
    PROVE  c = parse_name(n).val
<1>1. PICK m \in ParsedNames : c = parse_name(m).val
    BY DEF Contents
<1>2. m \in Lines /\ parse_name(m).ok
    BY DEF ParsedNames, Lines
<1>3. Key(m) = Key(n) /\ m \in RawName /\ n \in RawName
    BY <1>1, <1>2, KeyOfContent, LinesAreRaw
<1> QED
    BY <1>1, <1>2, <1>3, KeyTellsNames DEF Alias

\* main starts with an empty cache.
LEMMA CacheInit == Init => Cache!Init
<1> SUFFICES ASSUME Init PROVE Cache!Init
    OBVIOUS
<1>1. DOMAIN cs = {} /\ request_details = << >>
    BY DEF Init, RouterInit, EmptyMap
<1>2. CachedContents = {} /\ DOMAIN request_details = {}
    BY <1>1 DEF CachedContents
<1>3. Cached = [c \in {} |-> c] /\ Answers = << >>
    BY <1>2 DEF Cached, Answers
<1> QED
    BY <1>3 DEF Cache!Init, Cache!EmptyMap, Cached, CachedContents, Answers, Answer

\* What is recorded goes to the end of the answers.
LEMMA AnswerAppended ==
    ASSUME NEW S, request_details \in Seq(S), NEW detail,
           request_details' = Append(request_details, detail)
    PROVE  Answers' = Append(Answers, Answer(detail))
<1> DEFINE a == Answer(detail)
           s == request_details
           n == Len(request_details)
<1>1. n \in Nat /\ DOMAIN s = 1..n
    OBVIOUS
<1>2. /\ DOMAIN s' = 1..(n + 1) /\ s'[n + 1] = detail
      /\ \A k \in 1..n : s'[k] = s[k]
    BY <1>1
<1>3. Answers = [k \in 1..n |-> Answer(s[k])] /\ Len(Answers) = n
    BY <1>1 DEF Answers
<1>4. Answers' = [k \in 1..(n + 1) |-> Answer(s'[k])]
    BY <1>2 DEF Answers, Answer
<1> HIDE DEF s, n
<1>5. \A k \in 1..(n + 1) : Answer(s'[k]) = IF k = n + 1 THEN a ELSE Answers[k]
    BY <1>1, <1>2, <1>3
<1> HIDE DEF a
<1>6. Append(Answers, a) = [k \in 1..(n + 1) |-> IF k = n + 1 THEN a ELSE Answers[k]]
    BY <1>1, <1>3
<1> QED
    BY <1>4, <1>5, <1>6 DEF a

\* A step that neither stores nor records is not seen by the cache.
LEMMA CacheStutter ==
    ASSUME UNCHANGED <<cs, request_details>>
    PROVE  UNCHANGED Cache!cache_vars
BY DEF Cache!cache_vars

\* A request that is served is a hit of what it asks for: it is answered with
\* what is stored for its own components.
LEMMA ServedHits ==
    ASSUME Inv, RequestServed
    PROVE  Cache!Next
<1>1. PICK n \in Range(names), data \in Range(cs) :
        /\ ServeFromCache(interest_uri(n), data) /\ pc = "request" /\ i < NUM_REQUESTS
        /\ Record(n, TRUE, data.content)
    BY DEF RequestServed
<1>2. n \in Lines /\ n \in RawName /\ parse_name(n).ok /\ i \in 0..NUM_REQUESTS
    BY <1>1, Requested DEF Inv, MainInv
<1> DEFINE c == parse_name(n).val
           nc == Ciphertexts(n)
           detail == [name |-> n, was_cache_hit |-> TRUE, received_content |-> data.content]
<1>3. decode_ciphertext_name(interest_uri(n)) = Ok(nc)
    BY <1>1, <1>2, RequestDecoded
<1> HIDE DEF nc
<1>4. MatchedKey(nc) \in DOMAIN cs /\ data = cs[MatchedKey(nc)] /\ cs' = cs
    BY <1>1, <1>3 DEF ServeFromCache, Ok
<1>5. Key(n) \in DOMAIN cs /\ data = cs[Key(n)]
    BY <1>1, <1>4, LookedUp DEF Inv, nc
<1>6. c \in Contents /\ key_of(c) = Key(n)
    BY <1>2, KeyOfContent
<1>7. request_details \in Seq(Detail) /\ request_details' = Append(request_details, detail)
    BY <1>1 DEF Record, Inv, HistoryInv
<1>8. Answers' = Append(Answers, Answer(detail))
    BY <1>7, AnswerAppended
<1>9. Answer(detail) = [asked |-> c, hit |-> TRUE, data |-> data.content]
    BY DEF Answer
<1> HIDE DEF c, detail
<1>10. c \in DOMAIN Cached /\ Cached[c] = data.content
    BY <1>5, <1>6 DEF Cached, CachedContents
<1>11. Cached' = Cached
    BY <1>4 DEF Cached, CachedContents
<1>12. Cache!Hit(c)
    BY <1>8, <1>9, <1>10, <1>11 DEF Cache!Hit, Cached, CachedContents, Answers, Answer
<1> QED
    BY <1>6, <1>12 DEF Cache!Next

\* An update that arrives ends a miss: what the producer has for the
\* components asked for is stored for them, and is the answer.
LEMMA UpdateMisses ==
    ASSUME Inv, UpdateArrives
    PROVE  Cache!Next
<1> DEFINE m == received_content
           c == parse_name(name).val
           detail == [name |-> name, was_cache_hit |-> FALSE, received_content |-> m]
           stored == [name |-> m, content |-> m]
<1>1. pc = "update" /\ on_trapdoor_update(update_uri) /\ Record(name, FALSE, m) /\ UnderWay
    BY DEF UpdateArrives, UnderWay
<1>2. /\ Key(name) \notin DOMAIN cs
      /\ cs' = cs_insert(Key(name), stored)
    BY <1>1, UpdateStores
<1>3. name \in Range(names) /\ m \in DOMAIN content /\ Alias(m, name)
    BY <1>1 DEF Inv, MainInv, FlowInv
<1>4. name \in Lines /\ parse_name(name).ok /\ m \in Lines /\ parse_name(m).ok
    BY <1>1, <1>3, Requested DEF Inv, ProducerInv
<1>5. c \in Contents /\ key_of(c) = Key(name) /\ m \in ParsedNames
    BY <1>4, KeyOfContent
<1>6. parse_name(m).val = c
    BY <1>3 DEF Alias
<1>7. m \in Origins[c]
    BY <1>5, <1>6 DEF Origins
<1>8. request_details \in Seq(Detail) /\ request_details' = Append(request_details, detail)
    BY <1>1 DEF Record, Inv, HistoryInv
<1>9. Answers' = Append(Answers, Answer(detail))
    BY <1>8, AnswerAppended
<1>10. Answer(detail) = [asked |-> c, hit |-> FALSE, data |-> m]
    BY DEF Answer
<1>11. stored.content = m
    OBVIOUS
<1>12. \A d \in Contents : key_of(d) = Key(name) => d = c
    BY <1>4, ContentsDiffer
<1> HIDE DEF m, c, detail, stored
<1>13. /\ DOMAIN cs' = DOMAIN cs \cup {Key(name)}
       /\ \A key \in DOMAIN cs' : cs'[key] = IF key = Key(name) THEN stored ELSE cs[key]
    BY <1>2 DEF cs_insert, MapInsert
<1>14. CachedContents' = CachedContents \cup {c} /\ c \notin CachedContents
    BY <1>2, <1>5, <1>12, <1>13 DEF CachedContents
<1>15. \A d \in CachedContents' : cs'[key_of(d)].content = IF d = c THEN m ELSE cs[key_of(d)].content
    BY <1>5, <1>11, <1>12, <1>13 DEF CachedContents
<1>16. Cached' = MapInsert(Cached, c, m)
    <2>1. Cached' = [d \in CachedContents' |-> cs'[key_of(d)].content]
        BY DEF Cached
    <2>2. DOMAIN Cached = CachedContents /\ \A d \in CachedContents : Cached[d] = cs[key_of(d)].content
        BY DEF Cached
    <2> QED
        BY <1>14, <1>15, <2>1, <2>2 DEF MapInsert
<1>17. c \notin DOMAIN Cached
    BY <1>14 DEF Cached
<1>18. PICK k \in Contents : k = c
    BY <1>5
<1>19. Cache!Miss(k)
    BY <1>7, <1>9, <1>10, <1>16, <1>17, <1>18
       DEF Cache!Miss, Cache!MapInsert, MapInsert, Cached, CachedContents, Answers, Answer, Origins
<1> QED
    BY <1>19 DEF Cache!Next

\* The cache sees requests that are served and updates that arrive.
LEMMA CacheStep ==
    ASSUME Inv, [Next]_vars
    PROVE  [Cache!Next]_(Cache!cache_vars)
<1>1. CASE LoadNames \/ UnreadableFile \/ RegisterLine \/ NothingToChoose \/ Report \/ UNCHANGED vars
    <2>1. UNCHANGED <<cs, request_details>>
        BY <1>1 DEF LoadNames, UnreadableFile, RegisterLine, NothingToChoose, Report, vars,
                    router_vars, main_vars
    <2> QED
        BY <2>1, CacheStutter
<1>2. CASE RegisterPrefix
    <2>1. PrefixKey \in Seq(Scalar) \ {<< >>} /\ decode_trapdoor_registration(prefix_registration_uri) = Ok(PrefixKey[1])
        BY PrefixDecoded
    <2>2. UNCHANGED <<cs, request_details>>
        BY <1>2, <2>1 DEF RegisterPrefix, on_trapdoor_registration, Ok
    <2> QED
        BY <2>2, CacheStutter
<1>3. CASE RequestForwarded \/ ProducerAnswers
    <2>1. UNCHANGED <<cs, request_details>>
        BY <1>3 DEF RequestForwarded, Forward, ProducerAnswers, on_data
    <2> QED
        BY <2>1, CacheStutter
<1> QED
    BY <1>1, <1>2, <1>3, ServedHits, UpdateMisses DEF Next

\* The requests of main are answered as a read-through cache answers them:
\* each by what it asks for, the first for some components from the producer,
\* whose answer is stored, and all later ones with what was stored, though
\* the router is shown a new encryption of the name each time.
THEOREM DemoImplementsCache == Spec => ImplementsCache
<1>1. ASSUME Inv, [Next]_vars PROVE [Cache!Next]_(Cache!cache_vars)
    BY <1>1, CacheStep
<1> QED
    BY <1>1, CacheInit, SpecInv, PTL DEF Spec, ImplementsCache, Cache!Spec
=============================================================================
