--------------------------- MODULE PeksNdn_proofs ---------------------------
(***************************************************************************)
(* PEKS-NDN over a network that may reorder, duplicate and lose messages,  *)
(* for every set of names, scalars and foreign URIs and for all bounds.    *)
(*                                                                         *)
(* What is joined by hash at the router was never together before, so the  *)
(* invariant follows the hash: whatever carries one, on whichever side of  *)
(* the network, answers an interest that was sent and that has this hash,  *)
(* and the trapdoors it goes with match the ciphertexts of that interest   *)
(* exactly.  Two things that carry one hash then have the same trapdoors,  *)
(* unless some of the interest was encrypted with zero.                    *)
(*                                                                         *)
(* The second half is about a network that copies no message.              *)
(***************************************************************************)
EXTENDS PeksNdn, Layers_proofs

\* What a router may be sent as an interest.
Sent == Foreign \cup {create_interest(asked[r].name, r) : r \in DOMAIN asked}

\* What it may ever be sent: interests, and updates that answer them.
ParsedNames == {name \in Names : parse_name(name).ok}
Interests == Foreign \cup {create_interest(name, r) : name \in ParsedNames, r \in Nonces}
Updates == {encode_trapdoor_update(Trapdoors(name), Sha256(uri)) :
               name \in ParsedNames, uri \in Interests}

\* Packets of the names registered.
Packet(registered, data) ==
    /\ data \in DataPacket /\ parse_name(data.name).ok
    /\ data.content \in DOMAIN registered /\ registered[data.content] = data.name

\* An interest that was sent has this hash, and matches these trapdoors.
Matches(sent, hash, trapdoors) ==
    \E uri \in sent : /\ hash = Sha256(uri)
                      /\ decode_ciphertext_name(uri).ok
                      /\ IsExact(trapdoors, decode_ciphertext_name(uri).val)

Fits(sent, registered, hash, data) ==
    Packet(registered, data) /\ Matches(sent, hash, Trapdoors(data.name))

SoundUpdate(sent, uri) ==
    LET update == decode_trapdoor_update(uri)
    IN  /\ uri \in Updates
        /\ update.ok /\ update.val.trapdoors \in Seq(Scalar) \ {<< >>}
        /\ Matches(sent, update.val.hash, update.val.trapdoors)

\* The messages that the producer sends.
Sound(sent, registered, m) ==
    \/ m = Registration(prefix_registration_uri)
    \/ m.kind = "data" /\ Fits(sent, registered, m.hash, m.data)
    \/ m.kind = "update" /\ SoundUpdate(sent, m.uri)

-----------------------------------------------------------------------------
(* The inductive invariant, for any scalars.                               *)

ProducerInv ==
    /\ producer_table \in Seq(TrapdoorTableEntry)
    /\ registrations \in Seq(Names)
    /\ \A i \in 1..Len(producer_table) :
          LET name == producer_table[i].cleartext_name
          IN  name \in DOMAIN content /\ producer_table[i].trapdoors = Trapdoors(name)
    /\ \A name \in DOMAIN content :
          /\ name \in RawName /\ parse_name(name).ok
          /\ content[name] \in DOMAIN registrations /\ registrations[content[name]] = name
    /\ \A n \in DOMAIN registrations :
          /\ registrations[n] \in DOMAIN content /\ n <= content[registrations[n]]
          /\ \E i \in 1..Len(producer_table) : producer_table[i].cleartext_name = registrations[n]
    /\ producer_panicked \in BOOLEAN

RouterInv ==
    /\ trapdoor_table \in Seq(TrapdoorTableEntry)
    /\ \A key \in DOMAIN cs :
          /\ key \in Seq(Scalar) \ {<< >>} /\ Packet(registrations, cs[key])
          /\ \E i \in 1..Len(trapdoor_table) : trapdoor_table[i].trapdoors = key
    /\ \A hash \in DOMAIN pending : hash = Sha256(pending[hash])
    /\ \A hash \in DOMAIN staged_data : Fits(Sent, registrations, hash, staged_data[hash])
    /\ cache_hits \in Nat /\ cache_misses \in Nat
    /\ panicked = FALSE

\* A history of interests, from the scalars they were made with.
Asks(f) ==
    /\ DOMAIN f \subseteq Nonces
    /\ \A r \in DOMAIN f :
          /\ f[r].name \in Names /\ parse_name(f[r].name).ok
          /\ f[r].hash = Sha256(create_interest(f[r].name, r))

AskedInv == Asks(asked)

NetInv ==
    /\ interests \subseteq Sent
    /\ \A m \in forwarded : /\ m.uri \in Sent /\ m.hash = Sha256(m.uri)
                            /\ decode_ciphertext_name(m.uri).ok
    /\ downstream \in Seq(Range(downstream))
    /\ \A i \in DOMAIN downstream : Sound(Sent, registrations, downstream[i])
    /\ \A a \in answers : Packet(registrations, a.data)
    /\ faults \in 0..MaxFaults

Inv == ProducerInv /\ RouterInv /\ AskedInv /\ NetInv

-----------------------------------------------------------------------------
(* Names, interests and messages.                                          *)

\* The trapdoors of a name that parses are points of G1, at least one.
LEMMA KeyOfName ==
    ASSUME NEW name \in RawName, parse_name(name).ok
    PROVE  Trapdoors(name) \in Seq(Scalar) \ {<< >>}
BY TrapdoorsOfName, PrivateKeyAssumption DEF PrivateKeyAssumption, Trapdoors

\* What was sent are interests.
LEMMA SentInterests ==
    ASSUME AskedInv
    PROVE  Sent \subseteq Interests
BY DEF AskedInv, Asks, Sent, Interests, ParsedNames

\* The router and the producer decode an interest to what was encrypted.
LEMMA InterestOfName ==
    ASSUME NEW name \in RawName, parse_name(name).ok, NEW r
    PROVE  decode_ciphertext_name(create_interest(name, r))
              = Ok(name_to_ciphertext(public_key, name, r).val)
BY NameInInterest DEF create_interest

\* The router can decode the URI that the producer registers its prefix with.
LEMMA PrefixOfProducer ==
    LET t == Trapdoors(<<"">> \o prefix)[1]
    IN  t \in Scalar /\ decode_trapdoor_registration(prefix_registration_uri) = Ok(t)
<1> DEFINE t == Trapdoors(<<"">> \o prefix)[1]
<1>1. t \in Scalar /\ decode_trapdoor_registration(encode_trapdoor_registration(t)) = Ok(t)
    BY NameInRegistration, PrefixAssumption, PrivateKeyAssumption
       DEF PrefixAssumption, PrivateKeyAssumption, Trapdoors
<1> QED
    BY <1>1 DEF prefix_registration_uri, Trapdoors

\* The router can decode the updates that the producer sends.
LEMMA UpdateOfName ==
    ASSUME NEW name \in RawName, parse_name(name).ok, NEW uri
    PROVE  decode_trapdoor_update(encode_trapdoor_update(Trapdoors(name), Sha256(uri)))
              = Ok([trapdoors |-> Trapdoors(name), hash |-> Sha256(uri)])
BY NameInUpdate, PrivateKeyAssumption DEF PrivateKeyAssumption, Trapdoors

\* What fits now fits later: nobody takes a registration or an interest back.
LEMMA StaysSound ==
    ASSUME NEW sent, NEW sent2, sent \subseteq sent2, NEW regs, NEW regs2,
           \A n \in DOMAIN regs : n \in DOMAIN regs2 /\ regs2[n] = regs[n]
    PROVE  /\ \A data : Packet(regs, data) => Packet(regs2, data)
           /\ \A hash, data : Fits(sent, regs, hash, data) => Fits(sent2, regs2, hash, data)
           /\ \A m : Sound(sent, regs, m) => Sound(sent2, regs2, m)
<1>1. \A data : Packet(regs, data) => Packet(regs2, data)
    BY DEF Packet
<1>2. \A hash, key : Matches(sent, hash, key) => Matches(sent2, hash, key)
    BY DEF Matches
<1>3. \A hash, data : Fits(sent, regs, hash, data) => Fits(sent2, regs2, hash, data)
    BY <1>1, <1>2 DEF Fits
<1>4. \A m : Sound(sent, regs, m) => Sound(sent2, regs2, m)
    BY <1>2, <1>3 DEF Sound, SoundUpdate
<1> QED
    BY <1>1, <1>3, <1>4

\* A message of the queue is taken out, or a copy of it stays: the queue
\* holds nothing new.
LEMMA RemoveAtElements ==
    ASSUME NEW S, NEW s \in Seq(S), NEW i \in DOMAIN s
    PROVE  /\ RemoveAt(s, i) \in Seq(S) /\ Len(RemoveAt(s, i)) = Len(s) - 1
           /\ \A j \in 1..(Len(s) - 1) : RemoveAt(s, i)[j] = IF j < i THEN s[j] ELSE s[j + 1]
<1> DEFINE a == SubSeq(s, 1, i - 1)
           b == SubSeq(s, i + 1, Len(s))
<1>1. a \in Seq(S) /\ Len(a) = i - 1 /\ \A j \in 1..(i - 1) : a[j] = s[j]
    BY SubSeqProperties
<1>2. b \in Seq(S) /\ Len(b) = Len(s) - i /\ \A j \in 1..(Len(s) - i) : b[j] = s[i + j]
    BY SubSeqProperties
<1>3. RemoveAt(s, i) = a \o b
    BY DEF RemoveAt
<1> HIDE DEF a, b
<1>4. i \in Nat /\ 1 <= i /\ i <= Len(s) /\ Len(s) \in Nat
    OBVIOUS
<1>5. a \o b \in Seq(S) /\ Len(a \o b) = Len(s) - 1
    BY <1>1, <1>2, <1>4
<1>6. ASSUME NEW j \in 1..(Len(s) - 1)
      PROVE  (a \o b)[j] = IF j < i THEN s[j] ELSE s[j + 1]
    <2>1. CASE j < i
        BY <1>1, <1>2, <1>4, <2>1, ConcatProperties
    <2>2. CASE ~(j < i)
        <3>1. (a \o b)[j] = b[j - Len(a)]
            <4>1. j \in 1..(Len(a) + Len(b)) /\ ~(j <= Len(a))
                BY <1>1, <1>2, <1>4, <2>2
            <4> QED
                BY <1>1, <1>2, <4>1, ConcatProperties
        <3>2. j - Len(a) \in 1..(Len(s) - i) /\ i + (j - Len(a)) = j + 1
            BY <1>1, <1>4, <2>2
        <3> QED
            BY <1>2, <2>2, <3>1, <3>2
    <2> QED
        BY <2>1, <2>2
<1> QED
    BY <1>3, <1>5, <1>6

-----------------------------------------------------------------------------
(* The producer.                                                           *)

\* What the producer answers an interest with: the data of a name whose
\* trapdoors match the interest exactly, and an update with these.
LEMMA Replies ==
    ASSUME ProducerInv, NEW uri, NEW hash, NEW reply \in producer_on_interest(uri, hash)
    PROVE  /\ Packet(registrations, reply.data)
           /\ decode_ciphertext_name(uri).ok
           /\ IsExact(Trapdoors(reply.data.name), decode_ciphertext_name(uri).val)
           /\ reply.update = encode_trapdoor_update(Trapdoors(reply.data.name), hash)
           /\ reply.data.content = content[reply.data.name]
<1> DEFINE nc == decode_ciphertext_name(uri)
<1>1. PICK name \in DOMAIN content :
        /\ nc.ok /\ Finds(nc.val, name)
        /\ reply = [data   |-> [name |-> name, content |-> content[name]],
                    update |-> encode_trapdoor_update(name_to_trapdoor(private_key, name).val, hash)]
    BY DEF producer_on_interest
<1> DEFINE row == match_exhaustive(producer_table, nc.val).exact_match
<1>2. row # 0 /\ producer_table[row].cleartext_name = name
    BY <1>1 DEF Finds, get_cleartext_name
<1>3. row \in 1..Len(producer_table) /\ IsExact(producer_table[row].trapdoors, nc.val)
    <2>1. Len(producer_table) \in Nat
        BY DEF ProducerInv
    <2> QED
        BY <1>2, <2>1, ExactMatchIsFirst
<1> HIDE DEF row
<1>4. IsExact(Trapdoors(name), nc.val)
    BY <1>2, <1>3 DEF ProducerInv
<1>5. /\ reply.data.name = name /\ reply.data.content = content[name]
      /\ reply.update = encode_trapdoor_update(Trapdoors(name), hash)
      /\ reply.data \in DataPacket
    <2>1. name \in RawName /\ content[name] \in Nat \ {0}
        BY DEF ProducerInv
    <2> QED
        BY <1>1, <2>1 DEF Trapdoors, DataPacket
<1> QED
    BY <1>1, <1>4, <1>5 DEF ProducerInv, Packet

\* The producer answers every interest that a registered name matches.
LEMMA FindsRegistered ==
    ASSUME ProducerInv, NEW uri, NEW hash, NEW n \in DOMAIN registrations,
           decode_ciphertext_name(uri).ok,
           IsExact(Trapdoors(registrations[n]), decode_ciphertext_name(uri).val)
    PROVE  producer_on_interest(uri, hash) # {}
<1> DEFINE nc == decode_ciphertext_name(uri)
           row == match_exhaustive(producer_table, nc.val).exact_match
<1>1. PICK i \in 1..Len(producer_table) : producer_table[i].cleartext_name = registrations[n]
    BY DEF ProducerInv
<1>2. IsExact(producer_table[i].trapdoors, nc.val)
    BY <1>1 DEF ProducerInv
<1>3. row \in 1..Len(producer_table) /\ row # 0
    <2>1. Len(producer_table) \in Nat
        BY DEF ProducerInv
    <2> QED
        BY <1>2, <2>1, ExactMatchIsFirst
<1> DEFINE name == producer_table[row].cleartext_name
<1>4. name \in DOMAIN content
    BY <1>3 DEF ProducerInv
<1>5. Finds(nc.val, name)
    BY <1>3 DEF Finds, get_cleartext_name
<1> HIDE DEF name
<1> QED
    BY <1>4, <1>5 DEF producer_on_interest

\* register_content keeps the producer's table, its content and the history
\* of registrations in step.
LEMMA RegisterProducer ==
    ASSUME ProducerInv, NEW name \in Names, Register(name)
    PROVE  /\ ProducerInv'
           /\ \A n \in DOMAIN registrations :
                 n \in DOMAIN registrations' /\ registrations'[n] = registrations[n]
<1> DEFINE data == Len(registrations) + 1
           nt == name_to_trapdoor(private_key, name)
<1>1. name \in RawName /\ registrations \in Seq(Names) /\ data \in Nat \ {0}
    BY NamesAssumption DEF NamesAssumption, ProducerInv
<1>2. CASE ~nt.ok /\ producer_panicked' = TRUE /\ UNCHANGED <<producer_table, content, registrations>>
    BY <1>2 DEF ProducerInv
<1>3. CASE /\ nt.ok /\ UNCHANGED producer_panicked /\ ~producer_panicked
           /\ producer_table' \in insert(producer_table, nt.val, name)
           /\ content' = content_insert(name, data)
           /\ registrations' = Append(registrations, name)
    <2>1. parse_name(name).ok /\ nt.val = Trapdoors(name) /\ Trapdoors(name) \in Seq(Scalar) \ {<< >>}
        BY <1>1, <1>3, ParseDecides, KeyOfName DEF Trapdoors
    <2> HIDE DEF nt
    <2>2. producer_table \in Seq(TrapdoorTableEntry)
        BY DEF ProducerInv
    <2>3. producer_table' \in Seq(TrapdoorTableEntry)
        BY <1>1, <1>3, <2>1, <2>2, InsertRows
    <2>4. /\ \A i \in 1..Len(producer_table) :
                \E j \in 1..Len(producer_table') : producer_table'[j] = producer_table[i]
          /\ \E j \in 1..Len(producer_table') : producer_table'[j] = Entry(Trapdoors(name), name)
          /\ \A j \in 1..Len(producer_table') :
                \/ producer_table'[j] = Entry(Trapdoors(name), name)
                \/ \E i \in 1..Len(producer_table) : producer_table'[j] = producer_table[i]
        BY <1>1, <1>3, <2>1, <2>2, InsertEntries
    <2>5. /\ DOMAIN content' = DOMAIN content \cup {name}
          /\ \A m \in DOMAIN content' : content'[m] = IF m = name THEN data ELSE content[m]
        BY <1>3 DEF content_insert, MapInsert
    <2>6. /\ registrations' \in Seq(Names) /\ Len(registrations') = data
          /\ registrations'[data] = name
          /\ \A n \in DOMAIN registrations :
                n \in DOMAIN registrations' /\ n < data /\ registrations'[n] = registrations[n]
        BY <1>1, <1>3, AppendProperties
    <2>7. ASSUME NEW i \in 1..Len(producer_table')
          PROVE  /\ producer_table'[i].cleartext_name \in DOMAIN content'
                 /\ producer_table'[i].trapdoors = Trapdoors(producer_table'[i].cleartext_name)
        <3>1. CASE producer_table'[i] = Entry(Trapdoors(name), name)
            BY <2>5, <3>1 DEF Entry
        <3>2. ASSUME NEW j \in 1..Len(producer_table), producer_table'[i] = producer_table[j]
              PROVE  /\ producer_table'[i].cleartext_name \in DOMAIN content'
                     /\ producer_table'[i].trapdoors = Trapdoors(producer_table'[i].cleartext_name)
            BY <2>5, <3>2 DEF ProducerInv
        <3> QED
            BY <2>4, <3>1, <3>2
    <2>8. ASSUME NEW m \in DOMAIN content'
          PROVE  /\ m \in RawName /\ parse_name(m).ok
                 /\ content'[m] \in DOMAIN registrations' /\ registrations'[content'[m]] = m
        BY <1>1, <2>1, <2>5, <2>6 DEF ProducerInv
    <2>9. ASSUME NEW n \in DOMAIN registrations'
          PROVE  /\ registrations'[n] \in DOMAIN content' /\ n <= content'[registrations'[n]]
                 /\ \E i \in 1..Len(producer_table') :
                       producer_table'[i].cleartext_name = registrations'[n]
        <3>1. CASE n = data
            BY <2>4, <2>5, <2>6, <3>1 DEF Entry
        <3>2. CASE n \in DOMAIN registrations
            <4>1. PICK i \in 1..Len(producer_table) : producer_table[i].cleartext_name = registrations[n]
                BY <3>2 DEF ProducerInv
            <4>2. \E j \in 1..Len(producer_table') : producer_table'[j].cleartext_name = registrations[n]
                BY <2>4, <4>1
            <4>3. registrations[n] \in DOMAIN content' /\ n <= content'[registrations[n]]
                <5>1. registrations[n] \in DOMAIN content /\ n <= content[registrations[n]]
                    BY <3>2 DEF ProducerInv
                <5>2. n \in Nat /\ n < data
                    BY <1>1, <2>6, <3>2
                <5> QED
                    BY <1>1, <2>5, <5>1, <5>2
            <4> QED
                BY <2>6, <3>2, <4>2, <4>3
        <3>3. n = data \/ n \in DOMAIN registrations
            BY <1>1, <2>6
        <3> QED
            BY <3>1, <3>2, <3>3
    <2> QED
        BY <1>3, <2>3, <2>6, <2>7, <2>8, <2>9 DEF ProducerInv
<1>4. ~producer_panicked /\ registrations' = IF producer_panicked' THEN registrations
                                              ELSE Append(registrations, name)
    BY DEF Register, register_content
<1>5. \/ /\ nt.ok /\ UNCHANGED producer_panicked
         /\ producer_table' \in insert(producer_table, nt.val, name)
         /\ content' = content_insert(name, data)
      \/ ~nt.ok /\ producer_panicked' = TRUE /\ UNCHANGED <<producer_table, content>>
    BY DEF Register, register_content
<1> HIDE DEF nt, data
<1>6. CASE ~nt.ok /\ producer_panicked' = TRUE /\ UNCHANGED <<producer_table, content>>
    <2>1. registrations' = registrations
        BY <1>4, <1>6
    <2> QED
        BY <1>2, <1>6, <2>1
<1>7. CASE /\ nt.ok /\ UNCHANGED producer_panicked
           /\ producer_table' \in insert(producer_table, nt.val, name)
           /\ content' = content_insert(name, data)
    <2>1. ~producer_panicked'
        BY <1>4, <1>7
    <2>2. registrations' = Append(registrations, name)
        BY <1>4, <2>1
    <2> QED
        BY <1>3, <1>4, <1>7, <2>2
<1> QED
    BY <1>5, <1>6, <1>7

-----------------------------------------------------------------------------
(* Every action keeps the inductive invariant.                             *)

\* The registrations and the interests that there were are still there.
Grows ==
    /\ Sent \subseteq Sent'
    /\ \A n \in DOMAIN registrations :
          n \in DOMAIN registrations' /\ registrations'[n] = registrations[n]

\* A step that leaves the router alone keeps its part.
LEMMA RouterKept ==
    ASSUME RouterInv, Grows, UNCHANGED router_vars
    PROVE  RouterInv'
<1>1. /\ \A data : Packet(registrations, data) => Packet(registrations', data)
      /\ \A hash, data : Fits(Sent, registrations, hash, data) => Fits(Sent', registrations', hash, data)
    BY StaysSound DEF Grows
<1> QED
    BY <1>1 DEF RouterInv, router_vars

\* A step that brings no new message keeps the part of the network.
LEMMA NetKept ==
    ASSUME NetInv, Grows,
           interests' \subseteq interests, forwarded' \subseteq forwarded,
           downstream' \in Seq(Range(downstream')),
           \A i \in DOMAIN downstream' : \E j \in DOMAIN downstream : downstream'[i] = downstream[j],
           answers' = answers, faults' \in 0..MaxFaults
    PROVE  NetInv'
<1>1. /\ \A data : Packet(registrations, data) => Packet(registrations', data)
      /\ \A m : Sound(Sent, registrations, m) => Sound(Sent', registrations', m)
    BY StaysSound DEF Grows
<1>2. \A i \in DOMAIN downstream' : Sound(Sent', registrations', downstream'[i])
    BY <1>1 DEF NetInv
<1>3. \A a \in answers' : Packet(registrations', a.data)
    BY <1>1 DEF NetInv
<1>4. interests' \subseteq Sent'
    BY DEF NetInv, Grows
<1>5. \A m \in forwarded' : m.uri \in Sent' /\ m.hash = Sha256(m.uri) /\ decode_ciphertext_name(m.uri).ok
    BY DEF NetInv, Grows
<1> QED
    BY <1>2, <1>3, <1>4, <1>5 DEF NetInv

\* Taking a message out of the queue, or not, brings no new one.
LEMMA QueueKept ==
    ASSUME downstream \in Seq(Range(downstream)), NEW i \in DOMAIN downstream,
           downstream' = downstream \/ downstream' = RemoveAt(downstream, i)
    PROVE  /\ downstream' \in Seq(Range(downstream'))
           /\ \A j \in DOMAIN downstream' : \E k \in DOMAIN downstream : downstream'[j] = downstream[k]
<1>1. CASE downstream' = downstream
    BY <1>1
<1>2. CASE downstream' = RemoveAt(downstream, i)
    <2> DEFINE S == Range(downstream)
               n == Len(downstream)
    <2>1. /\ downstream' \in Seq(S) /\ Len(downstream') = n - 1 /\ n \in Nat
          /\ DOMAIN downstream = 1..n
          /\ \A j \in 1..(n - 1) : downstream'[j] = IF j < i THEN downstream[j] ELSE downstream[j + 1]
        BY <1>2, RemoveAtElements
    <2>2. downstream' \in Seq(Range(downstream'))
        BY <2>1, SeqOfRange
    <2> HIDE DEF S, n
    <2>3. DOMAIN downstream' = 1..(n - 1)
        BY <2>1
    <2>4. ASSUME NEW j \in 1..(n - 1)
          PROVE  \E k \in DOMAIN downstream : downstream'[j] = downstream[k]
        <3>1. j \in 1..n /\ j + 1 \in 1..n
            BY <2>1
        <3> QED
            BY <2>1, <3>1
    <2> QED
        BY <2>2, <2>3, <2>4
<1> QED
    BY <1>1, <1>2

\* The setup satisfies the inductive invariant.
LEMMA InitInv == Init => Inv
<1> SUFFICES ASSUME Init PROVE Inv
    OBVIOUS
<1>1. DOMAIN EmptyMap = {}
    BY DEF EmptyMap
<1>2. << >> \in Seq(TrapdoorTableEntry) /\ << >> \in Seq(Names) /\ Len(<< >>) = 0
    OBVIOUS
<1>3. ProducerInv
    <2>1. producer_table = << >> /\ registrations = << >> /\ DOMAIN content = {} /\ producer_panicked = FALSE
        BY <1>1 DEF Init, ProducerInit
    <2>2. DOMAIN registrations = {} /\ 1..Len(producer_table) = {}
        BY <2>1
    <2> QED
        BY <1>2, <2>1, <2>2 DEF ProducerInv
<1>4. RouterInv
    BY <1>1, <1>2 DEF Init, RouterInit, RouterInv
<1>5. AskedInv
    BY <1>1 DEF Init, AskedInv, Asks
<1>6. NetInv
    <2> DEFINE m == Registration(prefix_registration_uri)
    <2>1. interests \subseteq Sent /\ forwarded = {} /\ answers = {} /\ faults \in 0..MaxFaults
        BY FaultsAssumption DEF FaultsAssumption, Init, Sent
    <2>2. downstream = <<m>>
        BY DEF Init
    <2>3. Sound(Sent, registrations, m)
        BY DEF Sound
    <2> HIDE DEF m
    <2>4. downstream \in Seq({m})
        BY <2>2
    <2>5. downstream \in Seq(Range(downstream))
        BY <2>4, SeqOfRange
    <2>6. \A i \in DOMAIN downstream : downstream[i] = m
        BY <2>2
    <2> QED
        BY <2>1, <2>3, <2>5, <2>6 DEF NetInv
<1> QED
    BY <1>3, <1>4, <1>5, <1>6 DEF Inv

\* The producer registers content.
LEMMA RegisterInv ==
    ASSUME Inv, NEW name \in Names, Register(name)
    PROVE  Inv'
<1>1. /\ ProducerInv' /\ UNCHANGED <<router_vars, asked, interests, forwarded, downstream, answers, faults>>
      /\ \A n \in DOMAIN registrations :
            n \in DOMAIN registrations' /\ registrations'[n] = registrations[n]
    BY RegisterProducer DEF Inv, Register
<1>2. Grows
    BY <1>1 DEF Grows, Sent
<1>3. NetInv'
    BY <1>1, <1>2, NetKept DEF Inv, NetInv
<1> QED
    BY <1>1, <1>2, <1>3, RouterKept DEF Inv, AskedInv, Asks

\* A consumer asks with a scalar that nobody used.
LEMMA RequestInv ==
    ASSUME Inv, NEW name \in Names, Request(name)
    PROVE  Inv'
<1>1. PICK r \in Nonces \ DOMAIN asked :
        /\ name_to_ciphertext(public_key, name, r).ok
        /\ asked' = MapInsert(asked, r, [name |-> name, hash |-> Sha256(create_interest(name, r))])
        /\ interests' = interests \cup {create_interest(name, r)}
    BY DEF Request
<1>2. UNCHANGED <<router_vars, producer_vars, registrations, forwarded, downstream, answers, faults>>
    BY DEF Request
<1> DEFINE query == [name |-> name, hash |-> Sha256(create_interest(name, r))]
<1>3. query.name = name /\ query.hash = Sha256(create_interest(name, r))
    OBVIOUS
<1> HIDE DEF query
<1>4. /\ DOMAIN asked' = DOMAIN asked \cup {r} /\ asked'[r] = query
      /\ \A q \in DOMAIN asked : asked'[q] = asked[q]
    BY <1>1 DEF MapInsert, query
<1>5. AskedInv'
    <2>1. parse_name(name).ok
        BY <1>1, ParseDecides
    <2> QED
        BY <1>3, <1>4, <2>1 DEF Inv, AskedInv, Asks
<1>6. Sent' = Sent \cup {create_interest(name, r)}
    BY <1>3, <1>4 DEF Sent
<1>7. Grows
    BY <1>2, <1>6 DEF Grows
<1>8. NetInv'
    <2>1. /\ \A data : Packet(registrations, data) => Packet(registrations', data)
          /\ \A m : Sound(Sent, registrations, m) => Sound(Sent', registrations', m)
        BY <1>7, StaysSound DEF Grows
    <2> QED
        BY <1>1, <1>2, <1>6, <2>1 DEF Inv, NetInv
<1>9. ProducerInv'
    BY <1>2 DEF Inv, ProducerInv, producer_vars
<1>10. RouterInv'
    BY <1>2, <1>7, RouterKept DEF Inv
<1> QED
    BY <1>5, <1>8, <1>9, <1>10 DEF Inv

\* A received message leaves the network, or a copy of it stays.
LEMMA ReceiveKeeps ==
    ASSUME NEW set, NEW set2, NEW m, faults \in 0..MaxFaults,
           \/ set2 = set \ {m} /\ UNCHANGED faults
           \/ faults < MaxFaults /\ faults' = faults + 1 /\ set2 = set
    PROVE  set2 \subseteq set /\ faults' \in 0..MaxFaults
BY FaultsAssumption DEF FaultsAssumption

\* What happens when nothing but the network's own state changes.
LEMMA NothingAsked ==
    ASSUME Inv, UNCHANGED <<producer_vars, registrations, asked>>
    PROVE  ProducerInv' /\ AskedInv' /\ Sent' = Sent /\ Grows
BY DEF Inv, ProducerInv, AskedInv, producer_vars, Sent, Grows

\* The router reads an interest.
LEMMA InterestInv ==
    ASSUME Inv, NEW uri \in interests, RouterOnInterest(uri)
    PROVE  Inv'
<1>1. /\ UNCHANGED <<producer_vars, registrations, asked, downstream>>
      /\ UNCHANGED <<trapdoor_table, cs, staged_data, panicked>>
    BY DEF RouterOnInterest, RouterDrops, RouterServes, RouterForwards, Drop, ServeFromCache, Forward
<1>2. ProducerInv' /\ AskedInv' /\ Sent' = Sent /\ Grows
    BY <1>1, NothingAsked
<1>3. interests' \subseteq interests /\ faults' \in 0..MaxFaults
    BY ReceiveKeeps DEF RouterOnInterest, Receive, Inv, NetInv
<1>4. RouterInv'
    <2>1. \A h \in DOMAIN pending' :
            /\ h \in DOMAIN pending \cup {Sha256(uri)}
            /\ pending'[h] = IF h = Sha256(uri) THEN uri ELSE pending[h]
        BY DEF RouterOnInterest, RouterDrops, RouterServes, RouterForwards, Drop, ServeFromCache,
               Forward, pending_insert, lookup_and_remove, MapInsert, MapRemove, Restrict
    <2>2. cache_hits' \in Nat /\ cache_misses' \in Nat
        BY DEF RouterOnInterest, RouterDrops, RouterServes, RouterForwards, Drop, ServeFromCache,
               Forward, Inv, RouterInv
    <2> QED
        BY <1>1, <1>2, <2>1, <2>2 DEF Inv, RouterInv
<1>5. \A m \in forwarded' : m \in forwarded \/
          /\ m.uri = uri /\ m.hash = Sha256(uri) /\ decode_ciphertext_name(uri).ok
    BY DEF RouterOnInterest, RouterDrops, RouterServes, RouterForwards, Forward
<1>6. \A a \in answers' : a \in answers \/ a.data \in Range(cs)
    BY DEF RouterOnInterest, RouterDrops, RouterServes, RouterForwards
<1>7. \A data \in Range(cs) : Packet(registrations, data)
    BY DEF Range, Inv, RouterInv
<1>8. NetInv'
    BY <1>1, <1>2, <1>3, <1>5, <1>6, <1>7 DEF Inv, NetInv
<1> QED
    BY <1>2, <1>4, <1>8 DEF Inv

\* The producer reads an interest: what it sends carries the interest's hash
\* and matches it.
LEMMA ProducerAnswersInv ==
    ASSUME Inv, NEW m \in forwarded, ProducerOnInterest(m)
    PROVE  Inv'
<1>1. UNCHANGED <<router_vars, producer_vars, registrations, asked, interests, answers>>
    BY DEF ProducerOnInterest
<1>2. ProducerInv' /\ AskedInv' /\ Sent' = Sent /\ Grows
    BY <1>1, NothingAsked
<1>3. forwarded' \subseteq forwarded /\ faults' \in 0..MaxFaults
    BY ReceiveKeeps DEF ProducerOnInterest, Receive, Inv, NetInv
<1>4. RouterInv'
    BY <1>1, <1>2, RouterKept DEF Inv
<1>5. CASE UNCHANGED downstream
    <2>1. NetInv'
        BY <1>1, <1>2, <1>3, <1>5 DEF Inv, NetInv
    <2> QED
        BY <1>2, <1>4, <2>1 DEF Inv
<1>6. ASSUME NEW reply \in producer_on_interest(m.uri, m.hash),
             downstream' = downstream \o Reply(m.hash, reply)
      PROVE  Inv'
    <2> DEFINE data == Data(m.hash, reply.data)
               update == Update(reply.update)
               S == Range(downstream) \cup {data, update}
    <2>1. m.uri \in Sent /\ m.hash = Sha256(m.uri)
        BY DEF Inv, NetInv
    <2>2. /\ Packet(registrations, reply.data)
          /\ decode_ciphertext_name(m.uri).ok
          /\ IsExact(Trapdoors(reply.data.name), decode_ciphertext_name(m.uri).val)
          /\ reply.update = encode_trapdoor_update(Trapdoors(reply.data.name), m.hash)
        BY Replies DEF Inv
    <2>3. Matches(Sent, m.hash, Trapdoors(reply.data.name))
        BY <2>1, <2>2 DEF Matches
    <2>4. Sound(Sent, registrations, data)
        BY <2>2, <2>3 DEF Sound, Fits, Data
    <2>5. Sound(Sent, registrations, update)
        <3> DEFINE name == reply.data.name
        <3>1. name \in RawName /\ parse_name(name).ok
            BY <2>2 DEF Packet, DataPacket
        <3>2. decode_trapdoor_update(reply.update) = Ok([trapdoors |-> Trapdoors(name), hash |-> m.hash])
            BY <2>1, <2>2, <3>1, UpdateOfName
        <3>3. Trapdoors(name) \in Seq(Scalar) \ {<< >>}
            BY <3>1, KeyOfName
        <3> HIDE DEF name
        <3>4. reply.update \in Updates
            <4>1. m.uri \in Interests
                BY <2>1, SentInterests DEF Inv
            <4>2. reply.data.name \in ParsedNames
                BY <2>2 DEF Packet, ParsedNames, Inv, ProducerInv
            <4> QED
                BY <2>1, <2>2, <4>1, <4>2 DEF Updates
        <3>5. SoundUpdate(Sent, reply.update)
            BY <2>3, <3>2, <3>3, <3>4 DEF SoundUpdate, Ok, name
        <3> QED
            BY <3>5 DEF Sound, Update
    <2>6. downstream \in Seq(S) /\ <<data, update>> \in Seq(S)
        <3>1. downstream \in Seq(Range(downstream))
            BY DEF Inv, NetInv
        <3> HIDE DEF data, update
        <3> QED
            BY <3>1, SeqMonotonic
    <2> HIDE DEF data, update, S
    <2>7. downstream' = downstream \o <<data, update>>
        BY <1>6 DEF Reply, data, update
    <2>8. downstream' \in Seq(S) /\ Range(downstream') = Range(downstream) \cup Range(<<data, update>>)
        <3>1. downstream' \in Seq(S)
            BY <2>6, <2>7, ConcatProperties
        <3>2. Range(downstream \o <<data, update>>) = Range(downstream) \cup Range(<<data, update>>)
            <4> DEFINE two == <<data, update>>
            <4>1. downstream \in Seq(S) /\ two \in Seq(S)
                BY <2>6
            <4> HIDE DEF two
            <4>2. Range(downstream \o two) = Range(downstream) \cup Range(two)
                BY <4>1, RangeConcatenation
            <4> QED
                BY <4>2 DEF two
        <3> QED
            BY <2>7, <3>1, <3>2
    <2>9. downstream' \in Seq(Range(downstream'))
        BY <2>8, SeqOfRange
    <2>10. Range(<<data, update>>) = {data, update}
        BY DEF Range
    <2>11. \A i \in DOMAIN downstream' : Sound(Sent, registrations, downstream'[i])
        BY <2>4, <2>5, <2>8, <2>10 DEF Range, Inv, NetInv
    <2>12. NetInv'
        BY <1>1, <1>2, <1>3, <2>9, <2>11 DEF Inv, NetInv
    <2> QED
        BY <1>2, <1>4, <2>12 DEF Inv
<1> QED
    BY <1>5, <1>6 DEF ProducerOnInterest

\* The network loses a message.
LEMMA LoseInv ==
    ASSUME Inv, Lose
    PROVE  Inv'
<1>1. UNCHANGED <<router_vars, producer_vars, registrations, asked, answers>>
    BY DEF Lose
<1>2. ProducerInv' /\ AskedInv' /\ Sent' = Sent /\ Grows
    BY <1>1, NothingAsked
<1>3. RouterInv'
    BY <1>1, <1>2, RouterKept DEF Inv
<1>4. faults' \in 0..MaxFaults
    BY FaultsAssumption DEF FaultsAssumption, Lose, Inv, NetInv
<1>5. interests' \subseteq interests /\ forwarded' \subseteq forwarded
    BY DEF Lose
<1>6. downstream' = downstream \/ \E i \in DOMAIN downstream : downstream' = RemoveAt(downstream, i)
    BY DEF Lose
<1>7. /\ downstream' \in Seq(Range(downstream'))
      /\ \A j \in DOMAIN downstream' : \E k \in DOMAIN downstream : downstream'[j] = downstream[k]
    BY <1>6, QueueKept DEF Inv, NetInv
<1>8. NetInv'
    BY <1>1, <1>2, <1>4, <1>5, <1>7, NetKept DEF Inv
<1> QED
    BY <1>2, <1>3, <1>8 DEF Inv

\* Of the messages of the producer, each kind is what its handler expects.
LEMMA SoundKinds ==
    ASSUME NEW sent, NEW registered, NEW m, Sound(sent, registered, m)
    PROVE  /\ m.kind \in {"registration", "data", "update"}
           /\ m.kind = "registration" => m = Registration(prefix_registration_uri)
           /\ m.kind = "data" => Fits(sent, registered, m.hash, m.data)
           /\ m.kind = "update" => SoundUpdate(sent, m.uri)
<1>1. Registration(prefix_registration_uri).kind = "registration"
    BY DEF Registration
<1> QED
    BY <1>1 DEF Sound

\* The router inserts the row of the registered prefix.
LEMMA RegistrationInv ==
    ASSUME Inv, NEW uri, on_trapdoor_registration(uri), uri = prefix_registration_uri,
           UNCHANGED <<producer_vars, registrations, asked>>
    PROVE  RouterInv'
<1> DEFINE t == Trapdoors(<<"">> \o prefix)[1]
           key == <<t>>
<1>1. t \in Scalar /\ decode_trapdoor_registration(uri) = Ok(t)
    BY PrefixOfProducer
<1> HIDE DEF t
<1>2. /\ trapdoor_table' \in insert(trapdoor_table, key, NoName)
      /\ UNCHANGED <<cs, pending, staged_data, cache_hits, cache_misses, panicked>>
    BY <1>1 DEF on_trapdoor_registration, Ok
<1>3. key \in Seq(Scalar) \ {<< >>}
    BY <1>1
<1> HIDE DEF key
<1>4. trapdoor_table \in Seq(TrapdoorTableEntry) /\ NoName \in RawName \cup {NoName}
    BY DEF Inv, RouterInv
<1>5. trapdoor_table' \in Seq(TrapdoorTableEntry)
    BY <1>2, <1>3, <1>4, InsertRows
<1>6. \A i \in 1..Len(trapdoor_table) :
        \E j \in 1..Len(trapdoor_table') : trapdoor_table'[j].trapdoors = trapdoor_table[i].trapdoors
    BY <1>2, <1>3, <1>4, InsertKeys
<1>7. Sent' = Sent
    BY DEF Sent
<1>8. RouterInv
    BY DEF Inv
<1>9. \A k \in DOMAIN cs : \E i \in 1..Len(trapdoor_table') : trapdoor_table'[i].trapdoors = k
    BY <1>6, <1>8 DEF RouterInv
<1> QED
    BY <1>2, <1>5, <1>7, <1>8, <1>9 DEF RouterInv

\* The router stages a packet that matches the interest with its hash.
LEMMA DataInv ==
    ASSUME Inv, NEW hash, NEW data, on_data(hash, data), Fits(Sent, registrations, hash, data),
           UNCHANGED <<producer_vars, registrations, asked>>
    PROVE  RouterInv'
<1>1. /\ DOMAIN staged_data' = DOMAIN staged_data \cup {hash}
      /\ \A h \in DOMAIN staged_data' : staged_data'[h] = IF h = hash THEN data ELSE staged_data[h]
      /\ UNCHANGED <<trapdoor_table, cs, pending, cache_hits, cache_misses, panicked>>
    BY DEF on_data, MapInsert
<1>2. Sent' = Sent
    BY DEF Sent
<1> QED
    BY <1>1, <1>2 DEF Inv, RouterInv

\* What an update that the producer sent does: it has at most one packet to
\* commit, the one staged under its hash.
LEMMA Committed ==
    ASSUME Inv, NEW uri, on_trapdoor_update(uri), SoundUpdate(Sent, uri),
           NEW nt, nt = decode_trapdoor_update(uri).val.trapdoors,
           NEW hash, hash = decode_trapdoor_update(uri).val.hash
    PROVE  /\ nt \in Seq(Scalar) \ {<< >>} /\ Matches(Sent, hash, nt)
           /\ UNCHANGED <<cache_hits, cache_misses, panicked>>
           /\ pending' = lookup_and_remove(pending, hash)
           /\ \/ /\ hash \in DOMAIN staged_data
                 /\ staged_data' = staged_remove(hash)
                 /\ cs' = cs_insert(nt, staged_data[hash])
                 /\ trapdoor_table' \in insert(trapdoor_table, nt, NoName)
              \/ hash \notin DOMAIN staged_data /\ UNCHANGED <<staged_data, cs, trapdoor_table>>
BY DEF SoundUpdate, on_trapdoor_update, Commit, StagedUnder

\* The router commits a packet.
LEMMA UpdateInv ==
    ASSUME Inv, NEW uri, on_trapdoor_update(uri), SoundUpdate(Sent, uri),
           UNCHANGED <<producer_vars, registrations, asked>>
    PROVE  RouterInv'
<1> DEFINE nt == decode_trapdoor_update(uri).val.trapdoors
           hash == decode_trapdoor_update(uri).val.hash
<1>1. /\ nt \in Seq(Scalar) \ {<< >>}
      /\ UNCHANGED <<cache_hits, cache_misses, panicked>>
      /\ pending' = lookup_and_remove(pending, hash)
      /\ \/ /\ hash \in DOMAIN staged_data
            /\ staged_data' = staged_remove(hash)
            /\ cs' = cs_insert(nt, staged_data[hash])
            /\ trapdoor_table' \in insert(trapdoor_table, nt, NoName)
         \/ hash \notin DOMAIN staged_data /\ UNCHANGED <<staged_data, cs, trapdoor_table>>
    BY Committed
<1> HIDE DEF nt, hash
<1>2. \A h \in DOMAIN pending' : h \in DOMAIN pending /\ pending'[h] = pending[h]
    BY <1>1 DEF lookup_and_remove, MapRemove, Restrict
<1>3. Sent' = Sent
    BY DEF Sent
<1>4. CASE UNCHANGED <<staged_data, cs, trapdoor_table>>
    BY <1>1, <1>2, <1>3, <1>4 DEF Inv, RouterInv
<1>5. CASE /\ hash \in DOMAIN staged_data
           /\ staged_data' = staged_remove(hash)
           /\ cs' = cs_insert(nt, staged_data[hash])
           /\ trapdoor_table' \in insert(trapdoor_table, nt, NoName)
    <2>1. \A h \in DOMAIN staged_data' : h \in DOMAIN staged_data /\ staged_data'[h] = staged_data[h]
        BY <1>5 DEF staged_remove, MapRemove, Restrict
    <2>2. /\ DOMAIN cs' = DOMAIN cs \cup {nt}
          /\ \A k \in DOMAIN cs' : cs'[k] = IF k = nt THEN staged_data[hash] ELSE cs[k]
        BY <1>5 DEF cs_insert, MapInsert
    <2>3. trapdoor_table \in Seq(TrapdoorTableEntry) /\ NoName \in RawName \cup {NoName}
        BY DEF Inv, RouterInv
    <2>4. /\ trapdoor_table' \in Seq(TrapdoorTableEntry)
          /\ \A i \in 1..Len(trapdoor_table) :
                \E j \in 1..Len(trapdoor_table') : trapdoor_table'[j].trapdoors = trapdoor_table[i].trapdoors
          /\ \E j \in 1..Len(trapdoor_table') : trapdoor_table'[j].trapdoors = nt
        BY <1>1, <1>5, <2>3, InsertRows, InsertKeys
    <2>5. Packet(registrations, staged_data[hash])
        BY <1>5 DEF Inv, RouterInv, Fits
    <2>6. ASSUME NEW k \in DOMAIN cs'
          PROVE  /\ k \in Seq(Scalar) \ {<< >>} /\ Packet(registrations, cs'[k])
                 /\ \E i \in 1..Len(trapdoor_table') : trapdoor_table'[i].trapdoors = k
        <3>1. CASE k = nt
            BY <1>1, <2>2, <2>4, <2>5, <3>1
        <3>2. CASE k # nt /\ k \in DOMAIN cs
            BY <2>2, <2>4, <3>2 DEF Inv, RouterInv
        <3> QED
            BY <2>2, <3>1, <3>2
    <2> QED
        BY <1>1, <1>2, <1>3, <2>1, <2>4, <2>6 DEF Inv, RouterInv
<1> QED
    BY <1>1, <1>4, <1>5

\* The router reads a message of the producer.
LEMMA DeliverInv ==
    ASSUME Inv, NEW i \in DOMAIN downstream, Deliver(i)
    PROVE  Inv'
<1> DEFINE m == downstream[i]
<1>1. UNCHANGED <<producer_vars, registrations, asked, interests, forwarded>>
    BY DEF Deliver
<1>2. ProducerInv' /\ AskedInv' /\ Sent' = Sent /\ Grows
    BY <1>1, NothingAsked
<1>3. /\ downstream' = downstream \/ downstream' = RemoveAt(downstream, i)
      /\ faults' \in 0..MaxFaults
    BY FaultsAssumption DEF FaultsAssumption, Deliver, Inv, NetInv
<1>4. /\ downstream' \in Seq(Range(downstream'))
      /\ \A j \in DOMAIN downstream' : \E k \in DOMAIN downstream : downstream'[j] = downstream[k]
    BY <1>3, QueueKept DEF Inv, NetInv
<1>5. Sound(Sent, registrations, m)
    BY DEF Inv, NetInv
<1> HIDE DEF m
<1>6. CASE RouterOnRegistration(m)
    <2>1. m = Registration(prefix_registration_uri)
        BY <1>5, <1>6, SoundKinds DEF RouterOnRegistration
    <2>2. RouterInv' /\ answers' = answers
        BY <1>1, <1>6, <2>1, RegistrationInv DEF RouterOnRegistration, Registration
    <2>3. NetInv'
        BY <1>1, <1>2, <1>3, <1>4, <2>2, NetKept DEF Inv
    <2> QED
        BY <1>2, <2>2, <2>3 DEF Inv
<1>7. CASE RouterOnData(m)
    <2>1. Fits(Sent, registrations, m.hash, m.data)
        BY <1>5, <1>7, SoundKinds DEF RouterOnData
    <2>2. RouterInv'
        BY <1>1, <1>7, <2>1, DataInv DEF RouterOnData
    <2>3. \A a \in answers' : a \in answers \/ Packet(registrations, a.data)
        BY <1>7, <2>1 DEF RouterOnData, Fits
    <2>4. \A j \in DOMAIN downstream' : Sound(Sent, registrations, downstream'[j])
        BY <1>4 DEF Inv, NetInv
    <2>5. NetInv'
        BY <1>1, <1>2, <1>3, <1>4, <2>3, <2>4 DEF Inv, NetInv
    <2> QED
        BY <1>2, <2>2, <2>5 DEF Inv
<1>8. CASE RouterOnUpdate(m)
    <2>1. SoundUpdate(Sent, m.uri)
        BY <1>5, <1>8, SoundKinds DEF RouterOnUpdate
    <2>2. RouterInv' /\ answers' = answers
        BY <1>1, <1>8, <2>1, UpdateInv DEF RouterOnUpdate
    <2>3. NetInv'
        BY <1>1, <1>2, <1>3, <1>4, <2>2, NetKept DEF Inv
    <2> QED
        BY <1>2, <2>2, <2>3 DEF Inv
<1> QED
    BY <1>6, <1>7, <1>8 DEF Deliver, m

\* Every step of the network keeps the inductive invariant.
LEMMA StepInv == Inv /\ [Next]_vars => Inv'
<1> SUFFICES ASSUME Inv, [Next]_vars PROVE Inv'
    OBVIOUS
<1>1. CASE UNCHANGED vars
    <2>1. ProducerInv' /\ AskedInv' /\ Sent' = Sent /\ Grows
        BY <1>1, NothingAsked DEF vars, net_vars
    <2>2. RouterInv'
        BY <1>1, <2>1, RouterKept DEF Inv, vars
    <2>3. NetInv'
        BY <1>1, <2>1 DEF Inv, NetInv, vars, net_vars
    <2> QED
        BY <2>1, <2>2, <2>3 DEF Inv
<1>2. ASSUME NEW name \in Names, Register(name) PROVE Inv'
    BY <1>2, RegisterInv
<1>3. ASSUME NEW name \in Names, Request(name) PROVE Inv'
    BY <1>3, RequestInv
<1>4. CASE RouterReads
    BY <1>4, InterestInv DEF RouterReads
<1>5. CASE ProducerReads
    BY <1>5, ProducerAnswersInv DEF ProducerReads
<1>6. CASE Delivery
    BY <1>6, DeliverInv DEF Delivery
<1>7. CASE Lose
    BY <1>7, LoseInv
<1> QED
    BY <1>1, <1>2, <1>3, <1>4, <1>5, <1>6, <1>7 DEF Next

\* The inductive invariant holds in every reachable state.
LEMMA SpecInv == Spec => []Inv
BY InitInv, StepInv, PTL DEF Spec

\* Every map, set and queue of the network holds what its handlers put there.
THEOREM NetworkTypeOK == Spec => []TypeOK
<1>1. ASSUME Inv PROVE TypeOK
    <2>1. Range(cs) \subseteq DataPacket /\ Range(staged_data) \subseteq DataPacket
        BY <1>1 DEF Range, Inv, RouterInv, Fits, Packet
    <2>2. DOMAIN content \subseteq RawName /\ Range(content) \subseteq DOMAIN registrations
        BY <1>1 DEF Range, Inv, ProducerInv
    <2>3. \A i \in DOMAIN downstream : downstream[i].kind \in {"registration", "data", "update"}
        BY <1>1, SoundKinds DEF Inv, NetInv
    <2>4. /\ trapdoor_table \in Seq(TrapdoorTableEntry) /\ DOMAIN cs \subseteq Seq(Scalar)
          /\ \A h \in DOMAIN pending : h = Sha256(pending[h])
          /\ cache_hits \in Nat /\ cache_misses \in Nat /\ panicked \in BOOLEAN
        BY <1>1 DEF Inv, RouterInv
    <2>5. /\ producer_panicked \in BOOLEAN /\ producer_table \in Seq(TrapdoorTableEntry)
          /\ registrations \in Seq(Names)
        BY <1>1 DEF Inv, ProducerInv
    <2>6. /\ \A m \in forwarded : m.hash = Sha256(m.uri)
          /\ \A a \in answers : a.data \in DataPacket
          /\ faults \in 0..MaxFaults
        BY <1>1 DEF Inv, NetInv, Packet
    <2>7. DOMAIN asked \subseteq Nonces /\ \A r \in DOMAIN asked : asked[r].name \in Names
        BY <1>1 DEF Inv, AskedInv, Asks
    <2> QED
        BY <2>1, <2>2, <2>3, <2>4, <2>5, <2>6, <2>7 DEF TypeOK
<1> QED
    BY <1>1, SpecInv, PTL

\* Whatever the network does to the messages of the producer, and whatever
\* interests it is sent: no expect() of the router's handlers fails.
THEOREM RouterNeverPanics == Spec => []NoPanic
<1>1. Inv => NoPanic
    BY DEF Inv, RouterInv, NoPanic
<1> QED
    BY <1>1, SpecInv, PTL

-----------------------------------------------------------------------------
(* Scalars other than zero.                                                *)

\* No component of an interest was encrypted with zero, of a foreign one
\* neither.
ProperNetwork ==
    /\ Nonces \subseteq Proper
    /\ \A uri \in Foreign :
          decode_ciphertext_name(uri).ok => Hiding(decode_ciphertext_name(uri).val)

\* The scalars that a consumer may draw are enough for its name.
LEMMA NonceScalars ==
    ASSUME NEW r \in Nonces, NEW name \in Names, parse_name(name).ok
    PROVE  r \in Seq(Scalar) /\ name \in RawName /\ Covers(r, name)
BY NoncesAssumption, NamesAssumption DEF NoncesAssumption, NamesAssumption, generate_random

\* If they are proper, none of them is zero.
LEMMA ProperScalars ==
    ASSUME NEW r \in Proper
    PROVE  r \in Nonces /\ r \in Seq(Scalar \ {Zero})
<1>1. r \in Nonces /\ r \in Seq(Scalar) /\ \A i \in 1..Len(r) : r[i] # Zero
    BY NoncesAssumption DEF NoncesAssumption, generate_random, Proper, Range
<1>2. Len(r) \in Nat /\ r = [i \in 1..Len(r) |-> r[i]] /\ \A i \in 1..Len(r) : r[i] \in Scalar
    BY <1>1, ElementOfSeq
<1> QED
    BY <1>1, <1>2

\* The ciphertexts of an encrypted name hide it if no scalar is zero.
LEMMA InterestHides ==
    ASSUME NEW name \in Names, parse_name(name).ok, NEW r \in Proper
    PROVE  Hiding(name_to_ciphertext(public_key, name, r).val)
<1>1. r \in Seq(Scalar \ {Zero}) /\ name \in RawName /\ Covers(r, name)
    BY NonceScalars, ProperScalars
<1> QED
    BY <1>1, NameHidden

\* All of the interests that were sent hide their names.
LEMMA SentHides ==
    ASSUME Inv, ProperNetwork, NEW uri \in Sent, decode_ciphertext_name(uri).ok
    PROVE  Hiding(decode_ciphertext_name(uri).val)
<1>1. CASE uri \in Foreign
    BY <1>1 DEF ProperNetwork
<1>2. ASSUME NEW r \in DOMAIN asked, uri = create_interest(asked[r].name, r)
      PROVE  Hiding(decode_ciphertext_name(uri).val)
    <2> DEFINE name == asked[r].name
               nc == name_to_ciphertext(public_key, name, r).val
    <2>1. name \in Names /\ name \in RawName /\ parse_name(name).ok /\ r \in Proper
        BY NamesAssumption DEF NamesAssumption, ProperNetwork, Inv, AskedInv, Asks
    <2>2. decode_ciphertext_name(uri) = Ok(nc)
        BY <1>2, <2>1, InterestOfName
    <2>3. Hiding(nc)
        BY <2>1, InterestHides
    <2> HIDE DEF nc
    <2> QED
        BY <2>2, <2>3 DEF Ok
<1> QED
    BY <1>1, <1>2 DEF Sent

\* So a hash fixes the trapdoors that match the interest with that hash.
LEMMA MatchesOnce ==
    ASSUME Inv, ProperNetwork, NEW hash, NEW k \in Seq(Scalar), NEW l \in Seq(Scalar),
           Matches(Sent, hash, k), Matches(Sent, hash, l)
    PROVE  k = l
<1>1. PICK u \in Sent : /\ hash = Sha256(u) /\ decode_ciphertext_name(u).ok
                        /\ IsExact(k, decode_ciphertext_name(u).val)
    BY DEF Matches
<1>2. PICK v \in Sent : hash = Sha256(v) /\ IsExact(l, decode_ciphertext_name(v).val)
    BY DEF Matches
<1>3. u = v
    BY <1>1, <1>2 DEF Sha256
<1>4. Hiding(decode_ciphertext_name(u).val)
    BY <1>1, SentHides
<1> QED
    BY <1>1, <1>2, <1>3, <1>4, ExactKeyUnique

\* What is joined fits together: a cached packet is under the trapdoors of
\* its own name, an answer under the hash of an interest that it matches.
JoinInv ==
    /\ \A key \in DOMAIN cs : key = Trapdoors(cs[key].name)
    /\ \A a \in answers : Matches(Sent, a.hash, Trapdoors(a.data.name))

\* The packet that an update commits is data of the name whose trapdoors
\* the update brings.
UpdatesFit ==
    \A i \in DOMAIN downstream :
        LET update == decode_trapdoor_update(downstream[i].uri).val
        IN  downstream[i].kind = "update" /\ update.hash \in DOMAIN staged_data =>
               update.trapdoors = Trapdoors(staged_data[update.hash].name)

\* Without zeros, the hash that joins them sees to that.
LEMMA HashJoins ==
    ASSUME Inv, ProperNetwork
    PROVE  UpdatesFit
<1> SUFFICES ASSUME NEW i \in DOMAIN downstream, downstream[i].kind = "update",
                    NEW update, update = decode_trapdoor_update(downstream[i].uri).val,
                    update.hash \in DOMAIN staged_data
             PROVE  update.trapdoors = Trapdoors(staged_data[update.hash].name)
    BY DEF UpdatesFit
<1> DEFINE m == downstream[i]
           name == staged_data[update.hash].name
<1>1. Sound(Sent, registrations, m)
    BY DEF Inv, NetInv
<1>2. update.trapdoors \in Seq(Scalar) /\ Matches(Sent, update.hash, update.trapdoors)
    BY <1>1, SoundKinds DEF SoundUpdate
<1>3. Fits(Sent, registrations, update.hash, staged_data[update.hash])
    BY DEF Inv, RouterInv
<1>4. Matches(Sent, update.hash, Trapdoors(name)) /\ name \in RawName /\ parse_name(name).ok
    BY <1>3 DEF Fits, Packet, DataPacket
<1> QED
    BY <1>2, <1>4, KeyOfName, MatchesOnce

\* The packet that the router serves matches the interest it answers.
LEMMA ServedMatches ==
    ASSUME Inv, JoinInv, NEW uri \in Sent, NEW data, ServeFromCache(uri, data)
    PROVE  Matches(Sent, Sha256(uri), Trapdoors(data.name))
<1> DEFINE nc == decode_ciphertext_name(uri)
           row == match_exhaustive(trapdoor_table, nc.val).exact_match
           key == MatchedKey(nc.val)
<1>1. nc.ok /\ key \in DOMAIN cs /\ data = cs[key]
    BY DEF ServeFromCache
<1>2. key # << >> /\ key = Trapdoors(data.name)
    BY <1>1 DEF Inv, RouterInv, JoinInv
<1>3. row # 0 /\ key = trapdoor_table[row].trapdoors
    BY <1>2 DEF MatchedKey, get_trapdoors
<1>4. IsExact(trapdoor_table[row].trapdoors, nc.val)
    <2>1. Len(trapdoor_table) \in Nat
        BY DEF Inv, RouterInv
    <2> QED
        BY <1>3, <2>1, ExactMatchIsFirst
<1> HIDE DEF row, key
<1> QED
    BY <1>1, <1>2, <1>3, <1>4 DEF Matches

\* Every step keeps the joins sound, as long as the updates fit.
LEMMA StepJoin ==
    ASSUME Inv, JoinInv, UpdatesFit, [Next]_vars
    PROVE  JoinInv'
<1>1. ASSUME Sent \subseteq Sent', UNCHANGED <<cs, answers>> PROVE JoinInv'
    BY <1>1 DEF JoinInv, Matches
<1>2. CASE UNCHANGED vars
    BY <1>1, <1>2 DEF vars, router_vars, net_vars, Sent
<1>3. ASSUME NEW name \in Names, Register(name) PROVE JoinInv'
    BY <1>1, <1>3 DEF Register, router_vars, Sent
<1>4. ASSUME NEW name \in Names, Request(name) PROVE JoinInv'
    <2>1. UNCHANGED <<cs, answers>>
        BY <1>4 DEF Request, router_vars
    <2>2. PICK r \in Nonces \ DOMAIN asked :
            asked' = MapInsert(asked, r, [name |-> name, hash |-> Sha256(create_interest(name, r))])
        BY <1>4 DEF Request
    <2>3. DOMAIN asked \subseteq DOMAIN asked' /\ \A q \in DOMAIN asked : asked'[q] = asked[q]
        BY <2>2 DEF MapInsert
    <2>4. Sent \subseteq Sent'
        BY <2>3 DEF Sent
    <2> QED
        BY <1>1, <2>1, <2>4
<1>5. ASSUME NEW uri \in interests, RouterOnInterest(uri) PROVE JoinInv'
    <2>1. UNCHANGED <<cs, asked>> /\ Sent' = Sent
        BY <1>5 DEF RouterOnInterest, RouterDrops, RouterServes, RouterForwards, Drop,
                    ServeFromCache, Forward, Sent
    <2>2. \/ UNCHANGED answers
          \/ \E data : ServeFromCache(uri, data) /\ answers' = answers \cup {[hash |-> Sha256(uri), data |-> data]}
        BY <1>5 DEF RouterOnInterest, RouterDrops, RouterServes, RouterForwards
    <2>3. uri \in Sent
        BY DEF Inv, NetInv
    <2> QED
        BY <1>1, <2>1, <2>2, <2>3, ServedMatches DEF JoinInv
<1>6. ASSUME NEW m \in forwarded, ProducerOnInterest(m) PROVE JoinInv'
    BY <1>1, <1>6 DEF ProducerOnInterest, router_vars, Sent
<1>7. ASSUME NEW i \in DOMAIN downstream, Deliver(i) PROVE JoinInv'
    <2> DEFINE m == downstream[i]
    <2>1. Sound(Sent, registrations, m) /\ Sent' = Sent
        BY <1>7 DEF Inv, NetInv, Deliver, Sent
    <2> HIDE DEF m
    <2>2. CASE RouterOnRegistration(m)
        BY <1>1, <2>1, <2>2 DEF RouterOnRegistration, on_trapdoor_registration, Panic
    <2>3. CASE RouterOnData(m)
        <3>1. Fits(Sent, registrations, m.hash, m.data)
            BY <2>1, <2>3, SoundKinds DEF RouterOnData
        <3>2. UNCHANGED cs /\ answers' = answers \cup {[hash |-> m.hash, data |-> m.data]}
            BY <2>3 DEF RouterOnData, on_data
        <3> QED
            BY <2>1, <3>1, <3>2 DEF JoinInv, Fits
    <2>4. CASE RouterOnUpdate(m)
        <3> DEFINE nt == decode_trapdoor_update(m.uri).val.trapdoors
                   hash == decode_trapdoor_update(m.uri).val.hash
        <3>1. SoundUpdate(Sent, m.uri) /\ on_trapdoor_update(m.uri) /\ UNCHANGED answers
            BY <2>1, <2>4, SoundKinds DEF RouterOnUpdate
        <3>2. /\ nt \in Seq(Scalar) \ {<< >>}
              /\ \/ hash \in DOMAIN staged_data /\ cs' = cs_insert(nt, staged_data[hash])
                 \/ UNCHANGED cs
            BY <3>1, Committed
        <3>5. hash \in DOMAIN staged_data => nt = Trapdoors(staged_data[hash].name)
            BY <2>4 DEF UpdatesFit, RouterOnUpdate, m
        <3> HIDE DEF nt, hash
        <3>3. CASE UNCHANGED cs
            BY <1>1, <2>1, <3>1, <3>3
        <3>4. CASE hash \in DOMAIN staged_data /\ cs' = cs_insert(nt, staged_data[hash])
            <4>1. nt = Trapdoors(staged_data[hash].name)
                BY <3>4, <3>5
            <4>2. /\ DOMAIN cs' = DOMAIN cs \cup {nt}
                  /\ \A k \in DOMAIN cs' : cs'[k] = IF k = nt THEN staged_data[hash] ELSE cs[k]
                BY <3>4 DEF cs_insert, MapInsert
            <4> QED
                BY <2>1, <3>1, <4>1, <4>2 DEF JoinInv
        <3> QED
            BY <3>2, <3>3, <3>4
    <2> QED
        BY <1>7, <2>2, <2>3, <2>4 DEF Deliver, m
<1>8. CASE Lose
    BY <1>1, <1>8 DEF Lose, router_vars, Sent
<1> QED
    BY <1>2, <1>3, <1>4, <1>5, <1>6, <1>7, <1>8 DEF Next, RouterReads, ProducerReads, Delivery

\* Nothing is joined at first.
LEMMA InitJoin == Init => JoinInv
<1> SUFFICES ASSUME Init PROVE JoinInv
    OBVIOUS
<1>1. DOMAIN cs = {} /\ answers = {}
    BY DEF Init, RouterInit, EmptyMap
<1> QED
    BY <1>1 DEF JoinInv

\* So the joins are sound in every reachable state.
LEMMA SpecJoin ==
    ASSUME ProperNetwork
    PROVE  Spec => []JoinInv
<1>1. ASSUME Inv, JoinInv, [Next]_vars PROVE JoinInv'
    BY <1>1, HashJoins, StepJoin
<1> QED
    BY <1>1, InitJoin, SpecInv, PTL DEF Spec

\* With sound joins the content store is sound.
LEMMA JoinedCache ==
    ASSUME Inv, JoinInv
    PROVE  CacheSound
BY DEF Inv, RouterInv, JoinInv, Packet, CacheSound, Registered

\* However the network reorders, duplicates and loses the data packets and
\* the updates that are joined by hash: what is cached under some trapdoors
\* is data registered for the name with these trapdoors.
THEOREM NetworkCacheSound ==
    ASSUME ProperNetwork
    PROVE  Spec => []CacheSound
<1>1. ASSUME Inv, JoinInv PROVE CacheSound
    BY <1>1, JoinedCache
<1> QED
    BY <1>1, SpecInv, SpecJoin, PTL

\* A trapdoor sequence matches an interest in our own names exactly when it
\* is that of a name with the same components, but for those encrypted with
\* zero.
LEMMA AnyInterest ==
    ASSUME NEW m \in RawName, parse_name(m).ok, NEW n \in Names, parse_name(n).ok, NEW r \in Nonces
    PROVE  IsExact(Trapdoors(m), name_to_ciphertext(public_key, n, r).val)
              <=> AgreeWhereHidden(parse_name(m).val, parse_name(n).val, r)
<1>1. r \in Seq(Scalar) /\ n \in RawName /\ Covers(r, n)
    BY NonceScalars
<1> QED
    BY <1>1, NameTested, PrivateKeyAssumption DEF PrivateKeyAssumption, Trapdoors, public_key

\* If none was, exactly when it is that of a name with the same components.
LEMMA OwnInterest ==
    ASSUME NEW m \in RawName, parse_name(m).ok, NEW n \in Names, parse_name(n).ok, NEW r \in Proper
    PROVE  IsExact(Trapdoors(m), name_to_ciphertext(public_key, n, r).val) <=> Alias(m, n)
<1>1. r \in Seq(Scalar \ {Zero}) /\ n \in RawName /\ Covers(r, n)
    BY NonceScalars, ProperScalars
<1> QED
    BY <1>1, NameMatched, PrivateKeyAssumption DEF PrivateKeyAssumption, Trapdoors, public_key

\* The foreign URIs are no encrypted names, so that whoever has an answer has
\* asked for it.
NoForeignInterests == \A uri \in Foreign : ~decode_ciphertext_name(uri).ok

\* What fits an interest that one of us sent is data of the name asked for,
\* as far as this was hidden.
LEMMA MatchesHidden ==
    ASSUME Inv, NoForeignInterests,
           NEW hash, NEW name \in RawName, parse_name(name).ok, Matches(Sent, hash, Trapdoors(name))
    PROVE  \E r \in DOMAIN asked :
              /\ hash = asked[r].hash /\ asked[r].name \in Names /\ parse_name(asked[r].name).ok
              /\ AgreeWhereHidden(parse_name(name).val, parse_name(asked[r].name).val, r)
<1>1. PICK uri \in Sent : /\ hash = Sha256(uri) /\ decode_ciphertext_name(uri).ok
                          /\ IsExact(Trapdoors(name), decode_ciphertext_name(uri).val)
    BY DEF Matches
<1>2. PICK r \in DOMAIN asked : uri = create_interest(asked[r].name, r)
    BY <1>1 DEF NoForeignInterests, Sent
<1> DEFINE n == asked[r].name
           nc == name_to_ciphertext(public_key, n, r).val
<1>3. /\ n \in Names /\ n \in RawName /\ parse_name(n).ok /\ r \in Nonces
      /\ hash = asked[r].hash
    BY <1>1, <1>2, NamesAssumption DEF NamesAssumption, Inv, AskedInv, Asks
<1>4. decode_ciphertext_name(uri).val = nc
    BY <1>2, <1>3, InterestOfName DEF Ok
<1>5. AgreeWhereHidden(parse_name(name).val, parse_name(n).val, r)
    BY <1>1, <1>3, <1>4, AnyInterest
<1> QED
    BY <1>3, <1>5

\* With proper scalars it is data of the name asked for.
LEMMA MatchesAsked ==
    ASSUME Inv, Nonces \subseteq Proper, NoForeignInterests,
           NEW hash, NEW name \in RawName, parse_name(name).ok, Matches(Sent, hash, Trapdoors(name))
    PROVE  \E r \in DOMAIN asked : hash = asked[r].hash /\ Alias(name, asked[r].name)
<1>1. PICK r \in DOMAIN asked :
        /\ hash = asked[r].hash /\ asked[r].name \in Names /\ parse_name(asked[r].name).ok
        /\ AgreeWhereHidden(parse_name(name).val, parse_name(asked[r].name).val, r)
    BY MatchesHidden
<1>2. r \in Proper
    BY DEF Inv, AskedInv, Asks
<1>3. r \in Seq(Scalar \ {Zero}) /\ asked[r].name \in RawName /\ Covers(r, asked[r].name)
    BY <1>1, <1>2, NonceScalars, ProperScalars
<1>4. Alias(name, asked[r].name)
    BY <1>1, <1>3, AgreementIsAlias
<1> QED
    BY <1>1, <1>4

\* With sound joins, consumers are handed what they asked for, as far as they
\* hid it.
LEMMA JoinedAnswers ==
    ASSUME Inv, JoinInv, NoForeignInterests
    PROVE  AnswerSound
<1>1. ASSUME NEW a \in answers
      PROVE  /\ Registered(a.data)
             /\ \E r \in DOMAIN asked :
                   /\ a.hash = asked[r].hash
                   /\ AgreeWhereHidden(parse_name(asked[r].name).val, parse_name(a.data.name).val, r)
    <2>1. Packet(registrations, a.data) /\ Matches(Sent, a.hash, Trapdoors(a.data.name))
        BY DEF Inv, NetInv, JoinInv
    <2>2. a.data.name \in RawName /\ parse_name(a.data.name).ok
        BY <2>1 DEF Packet, DataPacket
    <2>3. PICK r \in DOMAIN asked :
            /\ a.hash = asked[r].hash
            /\ AgreeWhereHidden(parse_name(a.data.name).val, parse_name(asked[r].name).val, r)
        BY <2>1, <2>2, MatchesHidden
    <2>4. AgreeWhereHidden(parse_name(asked[r].name).val, parse_name(a.data.name).val, r)
        BY <2>3 DEF AgreeWhereHidden
    <2> QED
        BY <2>1, <2>3, <2>4 DEF Packet, Registered
<1> QED
    BY <1>1 DEF AnswerSound

\* What a consumer is handed, from the content store or from the producer,
\* is registered data of the name that it encrypted, whatever the network
\* does on the way.
THEOREM NetworkAnswerSound ==
    ASSUME Nonces \subseteq Proper, NoForeignInterests
    PROVE  Spec => []AnswerSound
<1>1. ProperNetwork
    BY DEF ProperNetwork, NoForeignInterests
<1>2. ASSUME Inv, JoinInv PROVE AnswerSound
    BY <1>2, JoinedAnswers
<1> QED
    BY <1>1, <1>2, SpecInv, SpecJoin, PTL

\* With sound joins, whatever is cached can be found.
LEMMA JoinedReachable ==
    ASSUME Inv, JoinInv
    PROVE  CacheReachable
<1>1. ASSUME NEW key \in DOMAIN cs, NEW r \in Proper
      PROVE  MatchedKey(name_to_ciphertext(public_key, cs[key].name, r).val) = key
    <2> DEFINE name == cs[key].name
               nc == name_to_ciphertext(public_key, name, r).val
               row == match_exhaustive(trapdoor_table, nc).exact_match
    <2>1. /\ name \in RawName /\ parse_name(name).ok /\ name \in Names
          /\ key \in Seq(Scalar) /\ key = Trapdoors(name)
        <3>1. Packet(registrations, cs[key]) /\ key \in Seq(Scalar) /\ registrations \in Seq(Names)
            BY DEF Inv, RouterInv, ProducerInv
        <3>2. name \in Names
            BY <3>1, ElementOfSeq DEF Packet
        <3> QED
            BY <3>1, <3>2 DEF Packet, DataPacket, JoinInv
    <2>2. IsExact(key, nc) /\ Hiding(nc)
        BY <2>1, OwnInterest, InterestHides DEF Alias
    <2>3. PICK i \in 1..Len(trapdoor_table) : trapdoor_table[i].trapdoors = key
        BY <1>1 DEF Inv, RouterInv
    <2>4. trapdoor_table \in Seq(TrapdoorTableEntry) /\ Len(trapdoor_table) \in Nat
        BY <1>1 DEF Inv, RouterInv
    <2>5. row \in 1..Len(trapdoor_table) /\ row # 0 /\ IsExact(trapdoor_table[row].trapdoors, nc)
        BY <2>2, <2>3, <2>4, ExactMatchIsFirst
    <2> HIDE DEF nc, row
    <2>6. trapdoor_table[row].trapdoors \in Seq(Scalar)
        <3>1. trapdoor_table[row] \in TrapdoorTableEntry
            BY <2>4, <2>5, ElementOfSeq
        <3> QED
            BY <3>1 DEF TrapdoorTableEntry
    <2>7. trapdoor_table[row].trapdoors = key
        BY <2>1, <2>2, <2>5, <2>6, ExactKeyUnique
    <2> QED
        BY <2>5, <2>7 DEF MatchedKey, get_trapdoors, row, nc
<1> QED
    BY <1>1 DEF CacheReachable

\* What is cached can be found: any later encryption of the name of a cached
\* packet, with a scalar of its own, matches the row with the packet's key.
THEOREM NetworkCacheReachable ==
    ASSUME ProperNetwork
    PROVE  Spec => []CacheReachable
<1>1. ASSUME Inv, JoinInv PROVE CacheReachable
    BY <1>1, JoinedReachable
<1> QED
    BY <1>1, SpecInv, SpecJoin, PTL

\* Names written in one way only.
NoAliases == \A m, n \in Names : parse_name(m).ok /\ Alias(m, n) => m = n

\* The producer answers with the newest data that was registered for a name,
\* if no two names are aliases.
THEOREM ProducerServesLatest ==
    ASSUME NoAliases
    PROVE  Spec => []LatestServed
<1>1. ASSUME Inv, NEW n \in DOMAIN registrations, NEW r \in Proper,
             \A k \in DOMAIN registrations : k > n => registrations[k] # registrations[n]
      PROVE  LET uri == create_interest(registrations[n], r)
             IN  {reply.data : reply \in producer_on_interest(uri, Sha256(uri))}
                    = {[name |-> registrations[n], content |-> n]}
    <2> DEFINE name == registrations[n]
               uri == create_interest(name, r)
               nc == name_to_ciphertext(public_key, name, r).val
               replies == producer_on_interest(uri, Sha256(uri))
    <2>1. /\ name \in Names /\ name \in RawName /\ parse_name(name).ok
          /\ content[name] \in DOMAIN registrations /\ registrations[content[name]] = name
          /\ n <= content[name] /\ n \in Nat
        BY <1>1, ElementOfSeq, NamesAssumption DEF NamesAssumption, Inv, ProducerInv
    <2>3. decode_ciphertext_name(uri) = Ok(nc)
        BY <2>1, InterestOfName
    <2>4. decode_ciphertext_name(uri).ok /\ decode_ciphertext_name(uri).val = nc
        BY <2>3 DEF Ok
    <2>5. content[name] = n
        BY <1>1, <2>1 DEF Inv, ProducerInv
    <2> HIDE DEF uri, nc
    <2>6. ASSUME NEW reply \in replies
          PROVE  reply.data = [name |-> name, content |-> n]
        <3> DEFINE m == reply.data.name
        <3>1. Packet(registrations, reply.data) /\ IsExact(Trapdoors(m), nc) /\ reply.data.content = content[m]
            BY <1>1, <2>4, Replies DEF Inv
        <3>2. m \in Names /\ m \in RawName /\ parse_name(m).ok /\ reply.data \in DataPacket
            <4>1. /\ reply.data \in DataPacket /\ parse_name(m).ok
                  /\ reply.data.content \in DOMAIN registrations
                  /\ registrations[reply.data.content] = m
                BY <3>1 DEF Packet
            <4>2. registrations \in Seq(Names)
                BY <1>1 DEF Inv, ProducerInv
            <4>3. m \in Names
                BY <4>1, <4>2, ElementOfSeq
            <4> QED
                BY <4>1, <4>3, NamesAssumption DEF NamesAssumption
        <3>3. Alias(m, name)
            BY <2>1, <3>1, <3>2, OwnInterest DEF nc
        <3>4. m = name
            BY <2>1, <3>2, <3>3 DEF NoAliases
        <3>5. reply.data.content = n
            BY <2>5, <3>1, <3>4
        <3> HIDE DEF replies
        <3> QED
            BY <3>2, <3>4, <3>5 DEF DataPacket
    <2>7. replies # {}
        <3>1. Alias(name, name)
            BY DEF Alias
        <3>2. IsExact(Trapdoors(name), nc)
            BY <2>1, <3>1, OwnInterest DEF nc
        <3> QED
            BY <1>1, <2>4, <3>2, FindsRegistered DEF Inv
    <2> HIDE DEF replies
    <2> QED
        BY <2>6, <2>7 DEF replies, uri
<1>2. ASSUME Inv PROVE LatestServed
    <2> SUFFICES ASSUME NEW n \in DOMAIN registrations, NEW r \in Proper,
                        {k \in DOMAIN registrations : k > n /\ registrations[k] = registrations[n]} = {}
                 PROVE  LET uri == create_interest(registrations[n], r)
                        IN  {reply.data : reply \in producer_on_interest(uri, Sha256(uri))}
                               = {[name |-> registrations[n], content |-> n]}
        BY DEF LatestServed
    <2>1. \A k \in DOMAIN registrations : k > n => registrations[k] # registrations[n]
        OBVIOUS
    <2> QED
        BY <1>1, <1>2, <2>1
<1> QED
    BY <1>2, SpecInv, PTL

-----------------------------------------------------------------------------
(* PEKS-NDN implements a content service.  A query is the hash of the      *)
(* interest it was sent as: no two interests have the same one.            *)

\* Interests made with different scalars differ, zeros among them or not.
LEMMA InterestsDiffer ==
    ASSUME NEW m \in Names, parse_name(m).ok, NEW n \in Names, parse_name(n).ok,
           NEW r \in Nonces, NEW s \in Nonces, create_interest(m, r) = create_interest(n, s)
    PROVE  r = s
<1> DEFINE mc == name_to_ciphertext(PublicKey(private_key), m, r).val
           nc == name_to_ciphertext(PublicKey(private_key), n, s).val
           S == Range(mc) \cup Range(nc)
<1>0. /\ m \in RawName /\ n \in RawName /\ Covers(r, m) /\ Covers(s, n)
      /\ r \in Seq(Scalar) /\ s \in Seq(Scalar)
    BY NonceScalars
<1>1. mc \in Seq(Range(mc)) \ {<< >>} /\ nc \in Seq(Range(nc)) \ {<< >>}
    BY <1>0, CiphertextsOfName
<1>2. encode_ciphertext_name(mc) = encode_ciphertext_name(nc)
    BY DEF create_interest, public_key
<1> HIDE DEF mc, nc
<1>3. mc \in Seq(S) \ {<< >>} /\ nc \in Seq(S) \ {<< >>}
    BY <1>1, SeqMonotonic
<1> HIDE DEF S
<1>4. mc = nc
    BY <1>2, <1>3, InterestUriInjective
<1>5. r[1] = s[1]
    BY <1>0, <1>4, CiphertextsTellInterests, PrivateKeyAssumption DEF PrivateKeyAssumption, mc, nc
<1> QED
    BY <1>5, NoncesAssumption DEF NoncesAssumption

\* So a hash tells the scalar that was asked with.
LEMMA AskedOnce ==
    ASSUME NEW f, Asks(f), NEW r \in DOMAIN f, NEW s \in DOMAIN f, f[r].hash = f[s].hash
    PROVE  r = s
<1>1. /\ f[r].name \in Names /\ parse_name(f[r].name).ok /\ r \in Nonces
      /\ f[s].name \in Names /\ parse_name(f[s].name).ok /\ s \in Nonces
    BY DEF Asks
<1>2. Sha256(create_interest(f[r].name, r)) = Sha256(create_interest(f[s].name, s))
    BY DEF Asks
<1>3. create_interest(f[r].name, r) = create_interest(f[s].name, s)
    BY <1>2 DEF Sha256
<1> QED
    BY <1>1, <1>3, InterestsDiffer

\* The names asked for, by query, as the content service knows them.
AskedNames(f) ==
    [hash \in {f[r].hash : r \in DOMAIN f} |-> (CHOOSE q \in Range(f) : q.hash = hash).name]

\* Each interest has its own hash, so the name chosen is the one asked for.
LEMMA QueryName ==
    ASSUME NEW f, Asks(f)
    PROVE  /\ DOMAIN AskedNames(f) = {f[r].hash : r \in DOMAIN f}
           /\ \A r \in DOMAIN f : AskedNames(f)[f[r].hash] = f[r].name
<1>1. DOMAIN AskedNames(f) = {f[r].hash : r \in DOMAIN f}
    BY DEF AskedNames
<1>2. ASSUME NEW r \in DOMAIN f PROVE AskedNames(f)[f[r].hash] = f[r].name
    <2> DEFINE h == f[r].hash
               q == CHOOSE q \in Range(f) : q.hash = h
    <2>1. AskedNames(f)[h] = q.name
        BY DEF AskedNames
    <2>2. f[r] \in Range(f)
        BY DEF Range
    <2>3. q \in Range(f) /\ q.hash = h
        BY <2>2
    <2> HIDE DEF q
    <2>4. PICK s \in DOMAIN f : q = f[s]
        BY <2>3 DEF Range
    <2>5. s = r
        BY <2>3, <2>4, AskedOnce
    <2> QED
        BY <2>1, <2>4, <2>5
<1> QED
    BY <1>1, <1>2

\* The answers given, by query.
Answered == {[query |-> a.hash, data |-> a.data] : a \in answers}

\* What the content service does not see.
LEMMA ServiceStutter ==
    ASSUME UNCHANGED <<registrations, asked, answers, refused>>
    PROVE  UNCHANGED Service!service_vars
BY DEF Service!service_vars

\* The setup starts the service.
LEMMA ServiceInit == Init => Service!Init
<1> SUFFICES ASSUME Init PROVE Service!Init
    OBVIOUS
<1>1. registrations = << >> /\ DOMAIN asked = {} /\ answers = {} /\ refused = {}
    BY DEF Init, EmptyMap
<1>2. AskedNames(asked) = [q \in {} |-> << >>]
    BY <1>1 DEF AskedNames
<1> QED
    BY <1>1, <1>2 DEF Service!Init, AskedNames

\* register_content registers, or panics and is not seen.
LEMMA ServiceRegister ==
    ASSUME NEW name \in Names, Register(name)
    PROVE  Service!Next \/ UNCHANGED Service!service_vars
<1>1. UNCHANGED <<asked, answers, refused>>
    BY DEF Register
<1>2. CASE registrations' = Append(registrations, name)
    BY <1>1, <1>2 DEF Service!Next, Service!Register
<1>3. CASE registrations' = registrations
    BY <1>1, <1>3, ServiceStutter
<1> QED
    BY <1>2, <1>3 DEF Register

\* A consumer's interest is a new query.
LEMMA ServiceAsk ==
    ASSUME Inv, Inv', NEW name \in Names, Request(name)
    PROVE  Service!Next
<1>1. PICK r \in Nonces \ DOMAIN asked :
        /\ name_to_ciphertext(public_key, name, r).ok
        /\ asked' = MapInsert(asked, r, [name |-> name, hash |-> Sha256(create_interest(name, r))])
    BY DEF Request
<1>2. UNCHANGED <<registrations, answers, refused>>
    BY DEF Request
<1> DEFINE q == Sha256(create_interest(name, r))
           query == [name |-> name, hash |-> q]
<1>3. query.name = name /\ query.hash = q
    OBVIOUS
<1>4. q \in Queries
    <2>1. parse_name(name).ok
        BY <1>1, ParseDecides
    <2> QED
        BY <2>1 DEF Queries
<1> HIDE DEF q, query
<1>5. /\ DOMAIN asked' = DOMAIN asked \cup {r} /\ asked'[r] = query
      /\ \A s \in DOMAIN asked : asked'[s] = asked[s]
    BY <1>1 DEF MapInsert, query, q
<1>6. Asks(asked) /\ Asks(asked')
    BY DEF Inv, AskedInv
<1>7. \A s \in DOMAIN asked : asked[s].hash # q
    <2> SUFFICES ASSUME NEW s \in DOMAIN asked, asked[s].hash = q PROVE FALSE
        OBVIOUS
    <2>1. s \in DOMAIN asked' /\ r \in DOMAIN asked' /\ asked'[s].hash = asked'[r].hash
        BY <1>3, <1>5
    <2>2. s = r
        BY <1>6, <2>1, AskedOnce
    <2> QED
        BY <1>1, <2>2
<1> DEFINE d == AskedNames(asked)
           d2 == AskedNames(asked')
<1>8. /\ DOMAIN d = {asked[s].hash : s \in DOMAIN asked}
      /\ \A s \in DOMAIN asked : d[asked[s].hash] = asked[s].name
    BY <1>6, QueryName
<1>9. /\ DOMAIN d2 = {asked'[s].hash : s \in DOMAIN asked'}
      /\ \A s \in DOMAIN asked' : d2[asked'[s].hash] = asked'[s].name
    BY <1>6, QueryName
<1>10. d2 = [x \in DOMAIN d2 |-> d2[x]]
    BY DEF AskedNames
<1> HIDE DEF d, d2
<1>11. q \notin DOMAIN d
    BY <1>7, <1>8
<1>12. DOMAIN d2 = DOMAIN d \cup {q}
    BY <1>3, <1>5, <1>8, <1>9
<1>13. ASSUME NEW x \in DOMAIN d2 PROVE d2[x] = IF x = q THEN name ELSE d[x]
    <2>1. PICK s \in DOMAIN asked' : x = asked'[s].hash /\ d2[x] = asked'[s].name
        BY <1>9
    <2>2. CASE s = r
        BY <1>3, <1>5, <2>1, <2>2
    <2>3. CASE s \in DOMAIN asked
        <3>1. x = asked[s].hash /\ d2[x] = asked[s].name /\ d[asked[s].hash] = asked[s].name
            BY <1>5, <1>8, <2>1, <2>3
        <3> QED
            BY <1>7, <2>3, <3>1
    <2> QED
        BY <1>5, <2>1, <2>2, <2>3
<1>14. d2 = [x \in DOMAIN d \cup {q} |-> IF x = q THEN name ELSE d[x]]
    BY <1>10, <1>12, <1>13
<1> QED
    BY <1>2, <1>4, <1>11, <1>14 DEF Service!Next, Service!Ask, AskedNames, d, d2

\* A packet that goes to the consumer of an interest that it matches is an
\* answer to the query, with a registration of the name asked for.
LEMMA ServiceAnswer ==
    ASSUME Inv, Nonces \subseteq Proper, NoForeignInterests,
           NEW hash, NEW data, Packet(registrations, data), Matches(Sent, hash, Trapdoors(data.name)),
           answers' = answers \cup {[hash |-> hash, data |-> data]},
           UNCHANGED <<registrations, asked, refused>>
    PROVE  Service!Next
<1> DEFINE n == data.content
           name == data.name
<1>1. /\ name \in RawName /\ parse_name(name).ok
      /\ n \in DOMAIN registrations /\ registrations[n] = name
      /\ data = [name |-> registrations[n], content |-> n]
    BY DEF Packet, DataPacket
<1>2. PICK r \in DOMAIN asked : hash = asked[r].hash /\ Alias(name, asked[r].name)
    BY <1>1, MatchesAsked
<1>3. hash \in DOMAIN AskedNames(asked) /\ AskedNames(asked)[hash] = asked[r].name
    BY <1>2, QueryName DEF Inv, AskedInv
<1>4. n \in {k \in DOMAIN registrations : Alias(registrations[k], AskedNames(asked)[hash])}
    BY <1>1, <1>2, <1>3
<1>5. Answered' = Answered \cup {[query |-> hash, data |-> data]}
    <2> DEFINE new == [hash |-> hash, data |-> data]
    <2>1. new.hash = hash /\ new.data = data /\ answers' = answers \cup {new}
        OBVIOUS
    <2> HIDE DEF new
    <2> QED
        BY <2>1 DEF Answered
<1>6. hash \in Queries
    BY <1>2 DEF Inv, AskedInv, Asks, Queries
<1> HIDE DEF n
<1>7. Service!Answer(hash)
    <2>1. Answered' = Answered \cup {[query |-> hash, data |-> [name |-> registrations[n], content |-> n]]}
        BY <1>1, <1>5
    <2>2. n \in Service!Fitting(hash)
        BY <1>4 DEF Service!Fitting, AskedNames
    <2>3. \E k \in Service!Fitting(hash) :
            Answered' = Answered \cup {[query |-> hash, data |-> [name |-> registrations[k], content |-> k]]}
        BY <2>1, <2>2
    <2> QED
        BY <1>3, <2>3 DEF Service!Answer, AskedNames, Answered
<1> QED
    BY <1>6, <1>7 DEF Service!Next

\* The producer answers None only if no name registered so far has the
\* components of the one asked for.
LEMMA ServiceRefuse ==
    ASSUME Inv, Nonces \subseteq Proper, NoForeignInterests, NEW m \in forwarded,
           producer_on_interest(m.uri, m.hash) = {}, refused' = refused \cup {m.hash},
           UNCHANGED <<registrations, asked, answers>>
    PROVE  Service!Next
<1>1. m.uri \in Sent /\ m.hash = Sha256(m.uri) /\ decode_ciphertext_name(m.uri).ok
    BY DEF Inv, NetInv
<1>2. PICK r \in DOMAIN asked : m.uri = create_interest(asked[r].name, r)
    BY <1>1 DEF NoForeignInterests, Sent
<1> DEFINE name == asked[r].name
           nc == name_to_ciphertext(public_key, name, r).val
<1>3. /\ name \in Names /\ name \in RawName /\ parse_name(name).ok /\ r \in Proper
      /\ m.hash = asked[r].hash
    BY <1>1, <1>2, NamesAssumption DEF NamesAssumption, Inv, AskedInv, Asks
<1>4. decode_ciphertext_name(m.uri).val = nc
    BY <1>2, <1>3, InterestOfName DEF Ok
<1>5. ASSUME NEW n \in DOMAIN registrations, Alias(registrations[n], name) PROVE FALSE
    <2>1. registrations[n] \in RawName /\ parse_name(registrations[n]).ok
        BY DEF Inv, ProducerInv
    <2>2. IsExact(Trapdoors(registrations[n]), nc)
        BY <1>3, <1>5, <2>1, OwnInterest
    <2> QED
        BY <1>1, <1>4, <2>2, FindsRegistered DEF Inv
<1> HIDE DEF name, nc
<1>6. m.hash \in DOMAIN AskedNames(asked) /\ AskedNames(asked)[m.hash] = name
    <2>1. Asks(asked) /\ m.hash = asked[r].hash
        BY <1>3 DEF Inv, AskedInv
    <2> QED
        BY <2>1, QueryName DEF name
<1>7. m.hash \in Queries
    BY <1>2, <1>3 DEF Inv, AskedInv, Asks, Queries
<1>8. {n \in DOMAIN registrations : Alias(registrations[n], AskedNames(asked)[m.hash])} = {}
    BY <1>5, <1>6
<1>9. Service!Refuse(m.hash)
    BY <1>6, <1>8 DEF Service!Refuse, Service!Fitting, AskedNames
<1> QED
    BY <1>7, <1>9 DEF Service!Next

\* Every step of PEKS-NDN is a step of the service or not seen by it.
LEMMA ServiceStep ==
    ASSUME Inv, Inv', JoinInv, Nonces \subseteq Proper, NoForeignInterests, [Next]_vars
    PROVE  [Service!Next]_(Service!service_vars)
<1>1. CASE UNCHANGED vars
    BY <1>1, ServiceStutter DEF vars, net_vars
<1>2. ASSUME NEW name \in Names, Register(name) PROVE [Service!Next]_(Service!service_vars)
    BY <1>2, ServiceRegister
<1>3. ASSUME NEW name \in Names, Request(name) PROVE [Service!Next]_(Service!service_vars)
    BY <1>3, ServiceAsk
<1>4. ASSUME NEW uri \in interests, RouterOnInterest(uri) PROVE [Service!Next]_(Service!service_vars)
    <2>1. UNCHANGED <<registrations, asked, refused>>
        BY <1>4 DEF RouterOnInterest
    <2>2. CASE UNCHANGED answers
        BY <2>1, <2>2, ServiceStutter
    <2>3. ASSUME NEW data \in Range(cs), ServeFromCache(uri, data),
                 answers' = answers \cup {[hash |-> Sha256(uri), data |-> data]}
          PROVE  Service!Next
        <3>1. Packet(registrations, data)
            BY DEF Range, Inv, RouterInv
        <3>2. Matches(Sent, Sha256(uri), Trapdoors(data.name))
            BY <2>3, ServedMatches DEF Inv, NetInv
        <3> QED
            BY <2>1, <2>3, <3>1, <3>2, ServiceAnswer
    <2> QED
        BY <1>4, <2>2, <2>3 DEF RouterOnInterest, RouterDrops, RouterServes, RouterForwards
<1>5. ASSUME NEW m \in forwarded, ProducerOnInterest(m) PROVE [Service!Next]_(Service!service_vars)
    <2>1. UNCHANGED <<registrations, asked, answers>>
        BY <1>5 DEF ProducerOnInterest
    <2>2. CASE UNCHANGED refused
        BY <2>1, <2>2, ServiceStutter
    <2>3. CASE producer_on_interest(m.uri, m.hash) = {} /\ refused' = refused \cup {m.hash}
        BY <2>1, <2>3, ServiceRefuse
    <2> QED
        BY <1>5, <2>2, <2>3 DEF ProducerOnInterest
<1>6. ASSUME NEW i \in DOMAIN downstream, Deliver(i) PROVE [Service!Next]_(Service!service_vars)
    <2> DEFINE m == downstream[i]
    <2>1. UNCHANGED <<registrations, asked, refused>> /\ Sound(Sent, registrations, m)
        BY <1>6 DEF Deliver, Inv, NetInv
    <2> HIDE DEF m
    <2>2. CASE UNCHANGED answers
        BY <2>1, <2>2, ServiceStutter
    <2>3. CASE RouterOnData(m)
        <3>1. Fits(Sent, registrations, m.hash, m.data)
            BY <2>1, <2>3, SoundKinds DEF RouterOnData
        <3> QED
            BY <2>1, <2>3, <3>1, ServiceAnswer DEF RouterOnData, Fits
    <2> QED
        BY <1>6, <2>2, <2>3 DEF Deliver, RouterOnRegistration, RouterOnUpdate, m
<1>7. CASE Lose
    BY <1>7, ServiceStutter DEF Lose
<1> QED
    BY <1>1, <1>2, <1>3, <1>4, <1>5, <1>6, <1>7 DEF Next, RouterReads, ProducerReads, Delivery

\* PEKS-NDN implements the content service, whatever the network does: an
\* answer is data registered under the name asked for, and an interest is
\* refused only while there is none.
THEOREM NetworkImplementsService ==
    ASSUME Nonces \subseteq Proper, NoForeignInterests
    PROVE  Spec => ImplementsService
<1>1. ProperNetwork
    BY DEF ProperNetwork, NoForeignInterests
<1>2. ASSUME Inv, Inv', JoinInv, [Next]_vars PROVE [Service!Next]_(Service!service_vars)
    BY <1>2, ServiceStep
<1> QED
    BY <1>1, <1>2, ServiceInit, SpecInv, SpecJoin, PTL DEF Spec, ImplementsService, Service!Spec

-----------------------------------------------------------------------------
(* From here on the network copies no message: it may lose messages and    *)
(* hand on those of the producer in another order, unless a theorem says   *)
(* otherwise.  Zeros among the scalars are allowed.                        *)
(*                                                                         *)
(* Every interest has a hash of its own, and the hash is in one place at   *)
(* a time: with the interest on either side of the router, with the data   *)
(* and the update on their way back, with the staged data, or with the     *)
(* interests the producer refused.  What the handlers then do to these     *)
(* places accounts for what is pending and staged.                         *)

AtMostOnce == MaxFaults = 0 \/ "duplicate" \notin Faults
NoneLost == MaxFaults = 0 \/ "lose" \notin Faults
InOrder == "reorder" \notin Faults

\* The foreign URIs are no interests of ours.
Apart ==
    \A name \in Names, r \in Nonces :
        parse_name(name).ok => create_interest(name, r) \notin Foreign

-----------------------------------------------------------------------------
(* The queue of the producer's messages.                                   *)

Hash(m) == IF m.kind = "data" THEN m.hash ELSE decode_trapdoor_update(m.uri).val.hash
Key(m) == decode_trapdoor_update(m.uri).val.trapdoors

\* The hashes that the messages of one kind carry.
Carried(queue, kind) == {Hash(queue[i]) : i \in {k \in DOMAIN queue : queue[k].kind = kind}}

\* No two messages of one kind carry the same hash, and one at most is a
\* registration.
Singly(queue) ==
    \A i, j \in DOMAIN queue :
        /\ queue[i].kind = queue[j].kind
        /\ queue[i].kind = "registration" \/ Hash(queue[i]) = Hash(queue[j])
        => i = j

\* An update has the trapdoors of the data with its hash, wherever that is.
Fitting(queue, staged) ==
    \A j \in DOMAIN queue :
        queue[j].kind = "update" =>
            /\ Hash(queue[j]) \in DOMAIN staged => Key(queue[j]) = Trapdoors(staged[Hash(queue[j])].name)
            /\ \A i \in DOMAIN queue :
                  queue[i].kind = "data" /\ Hash(queue[i]) = Hash(queue[j]) =>
                      Key(queue[j]) = Trapdoors(queue[i].data.name)

-----------------------------------------------------------------------------
(* The places of a hash.                                                   *)

Waiting == {m.hash : m \in forwarded}
Returning == Carried(downstream, "data")
Updating == Carried(downstream, "update")

Used == DOMAIN pending \cup Waiting \cup Returning \cup Updating \cup DOMAIN staged_data \cup refused

Separate(waiting, returning, updating, staged, refusals) ==
    /\ waiting \cap (returning \cup updating \cup staged \cup refusals) = {}
    /\ refusals \cap (returning \cup updating \cup staged) = {}
    /\ returning \cap staged = {}

PlaceInv ==
    /\ \A h \in Used : \E uri \in Sent \ interests : h = Sha256(uri)
    /\ \A m \in forwarded : m = [uri |-> m.uri, hash |-> Sha256(m.uri)]
    /\ Separate(Waiting, Returning, Updating, DOMAIN staged_data, refused)
    /\ Singly(downstream)
    /\ Fitting(downstream, staged_data)

\* The rows of the router's table are those of what it has cached, and the
\* one of the prefix once that is registered.
PrefixKey == <<Trapdoors(<<"">> \o prefix)[1]>>
Unregistered == \E i \in DOMAIN downstream : downstream[i].kind = "registration"

RowsInv ==
    /\ \A i \in 1..Len(trapdoor_table) :
          LET key == trapdoor_table[i].trapdoors
          IN  key \in DOMAIN cs \/ (~Unregistered /\ key = PrefixKey)
    /\ ~Unregistered => \E i \in 1..Len(trapdoor_table) : trapdoor_table[i].trapdoors = PrefixKey

\* The data is sent before the update with its hash.
Ordered(queue) ==
    \A i, j \in DOMAIN queue :
        queue[i].kind = "data" /\ queue[j].kind = "update" /\ Hash(queue[i]) = Hash(queue[j]) => i < j

\* In a network that keeps this order, what has not been updated yet is
\* pending.
OrderInv ==
    /\ Ordered(downstream)
    /\ Waiting \cup Returning \cup Updating \cup DOMAIN staged_data \subseteq DOMAIN pending

\* The data with a hash, staged or on its way.
Carries(queue, staged, h) ==
    {staged[k] : k \in {h} \cap DOMAIN staged} \cup
    {queue[i].data : i \in {k \in DOMAIN queue : queue[k].kind = "data" /\ queue[k].hash = h}}

FirstOfKey(table, i) ==
    \A j \in 1..Len(table) : table[j].trapdoors = table[i].trapdoors => i <= j

\* No newer than what the producer has now under the same trapdoors.
NotNewer(data) ==
    \A i \in 1..Len(producer_table) :
        FirstOfKey(producer_table, i) /\ producer_table[i].trapdoors = Trapdoors(data.name) =>
            data.content <= content[producer_table[i].cleartext_name]

\* The packets that updates on their way will commit.
Committable(queue, staged) ==
    UNION {Carries(queue, staged, Hash(queue[i])) :
              i \in {k \in DOMAIN queue : queue[k].kind = "update"}}

\* What a later update commits is no older than what an earlier one does.
Later(queue, staged) ==
    \A i, j \in DOMAIN queue :
        queue[i].kind = "update" /\ queue[j].kind = "update" /\ i < j =>
            \A d \in Carries(queue, staged, Hash(queue[i])), e \in Carries(queue, staged, Hash(queue[j])) :
               Trapdoors(d.name) = Trapdoors(e.name) => d.content <= e.content

\* In a network that keeps the order, no cached packet is newer than what is
\* about to replace it, and none at all newer than what the producer has.
AgeInv ==
    /\ \A key \in DOMAIN cs : NotNewer(cs[key])
    /\ \A d \in Committable(downstream, staged_data) :
          /\ NotNewer(d)
          /\ \A key \in DOMAIN cs : key = Trapdoors(d.name) => cs[key].content <= d.content
    /\ Later(downstream, staged_data)

-----------------------------------------------------------------------------
(* What the handlers do to the queue.                                      *)

\* Where a message of the queue was before the i-th one was taken out.
Before(i, j) == IF j < i THEN j ELSE j + 1

\* The messages that are left keep their order, and none of them was the
\* i-th.
LEMMA QueueLeft ==
    ASSUME NEW S, NEW queue \in Seq(S), NEW i \in DOMAIN queue
    PROVE  LET left == RemoveAt(queue, i)
           IN  /\ \A j \in DOMAIN left :
                     Before(i, j) \in DOMAIN queue \ {i} /\ left[j] = queue[Before(i, j)]
               /\ \A j, k \in DOMAIN left : j < k <=> Before(i, j) < Before(i, k)
               /\ \A j, k \in DOMAIN left : Before(i, j) = Before(i, k) => j = k
               /\ \A k \in DOMAIN queue \ {i} : \E j \in DOMAIN left : k = Before(i, j)
<1> DEFINE left == RemoveAt(queue, i)
           n == Len(queue)
<1>1. /\ DOMAIN left = 1..(n - 1) /\ DOMAIN queue = 1..n /\ n \in Nat
      /\ \A j \in 1..(n - 1) : left[j] = IF j < i THEN queue[j] ELSE queue[j + 1]
    <2>1. left \in Seq(S) /\ Len(left) = n - 1
        BY RemoveAtElements
    <2>2. \A j \in 1..(n - 1) : left[j] = IF j < i THEN queue[j] ELSE queue[j + 1]
        BY RemoveAtElements
    <2> HIDE DEF left
    <2> QED
        BY <2>1, <2>2
<1> HIDE DEF left, n
<1>2. ASSUME NEW j \in DOMAIN left
      PROVE  Before(i, j) \in DOMAIN queue \ {i} /\ left[j] = queue[Before(i, j)]
    BY <1>1 DEF Before
<1>3. ASSUME NEW k \in DOMAIN queue \ {i} PROVE \E j \in DOMAIN left : k = Before(i, j)
    <2>1. CASE k < i
        <3>1. k \in DOMAIN left /\ k = Before(i, k)
            BY <1>1, <2>1 DEF Before
        <3> QED
            BY <3>1
    <2>2. CASE i < k
        <3>1. k - 1 \in DOMAIN left /\ k = Before(i, k - 1)
            BY <1>1, <2>2 DEF Before
        <3> QED
            BY <3>1
    <2> QED
        BY <1>1, <2>1, <2>2
<1>4. ASSUME NEW j \in DOMAIN left, NEW k \in DOMAIN left
      PROVE  /\ j < k <=> Before(i, j) < Before(i, k)
             /\ Before(i, j) = Before(i, k) => j = k
    BY <1>1 DEF Before
<1> QED
    BY <1>2, <1>3, <1>4 DEF left

\* Taking out one message takes out its hash, and no other.
LEMMA MessageTaken ==
    ASSUME NEW S, NEW queue \in Seq(S), Singly(queue), NEW i \in DOMAIN queue,
           NEW left, left = RemoveAt(queue, i)
    PROVE  /\ Singly(left)
           /\ \A staged : Fitting(queue, staged) => Fitting(left, staged)
           /\ queue[i].kind # "registration" =>
                 Carried(left, queue[i].kind) = Carried(queue, queue[i].kind) \ {Hash(queue[i])}
           /\ \A kind : kind # queue[i].kind => Carried(left, kind) = Carried(queue, kind)
<1>1. /\ \A j \in DOMAIN left :
            Before(i, j) \in DOMAIN queue \ {i} /\ left[j] = queue[Before(i, j)]
      /\ \A j, k \in DOMAIN left : Before(i, j) = Before(i, k) => j = k
      /\ \A k \in DOMAIN queue \ {i} : \E j \in DOMAIN left : k = Before(i, j)
    BY QueueLeft
<1>2. Singly(left)
    BY <1>1 DEF Singly
<1>3. \A staged : Fitting(queue, staged) => Fitting(left, staged)
    BY <1>1 DEF Fitting
<1>4. ASSUME NEW kind, NEW h
      PROVE  h \in Carried(left, kind) <=>
                \E k \in DOMAIN queue \ {i} : queue[k].kind = kind /\ h = Hash(queue[k])
    BY <1>1 DEF Carried
<1>5. ASSUME NEW kind, NEW h
      PROVE  h \in Carried(queue, kind) <=>
                \E k \in DOMAIN queue : queue[k].kind = kind /\ h = Hash(queue[k])
    BY DEF Carried
<1>6. ASSUME NEW kind, kind # queue[i].kind
      PROVE  Carried(left, kind) = Carried(queue, kind)
    <2>1. \A h : h \in Carried(left, kind) <=> h \in Carried(queue, kind)
        BY <1>4, <1>5, <1>6
    <2> QED
        BY <2>1
<1>7. ASSUME queue[i].kind # "registration"
      PROVE  Carried(left, queue[i].kind) = Carried(queue, queue[i].kind) \ {Hash(queue[i])}
    <2>1. \A k \in DOMAIN queue \ {i} : queue[k].kind = queue[i].kind => Hash(queue[k]) # Hash(queue[i])
        BY DEF Singly
    <2>2. \A h : h \in Carried(left, queue[i].kind) <=>
                    h \in Carried(queue, queue[i].kind) /\ h # Hash(queue[i])
        BY <1>4, <1>5, <2>1
    <2> QED
        BY <2>2
<1> QED
    BY <1>2, <1>3, <1>6, <1>7

\* So does losing one: no kind of message carries anything new.
LEMMA MessageLost ==
    ASSUME NEW S, NEW queue \in Seq(S), Singly(queue), NEW i \in DOMAIN queue
    PROVE  \A kind : Carried(RemoveAt(queue, i), kind) \subseteq Carried(queue, kind)
BY QueueLeft DEF Carried

\* Data with the hash of an interest, and the update that goes with it.
Belong(h, data, uri) ==
    /\ decode_trapdoor_update(uri).val.hash = h
    /\ decode_trapdoor_update(uri).val.trapdoors = Trapdoors(data.name)

Sends(queue, h, data, uri) == queue \o <<Data(h, data), Update(uri)>>

\* Two messages behind the others, at places a and b.
EndsWith(sent, queue, d, u) ==
    \E a, b \in Nat :
        /\ DOMAIN sent = DOMAIN queue \cup {a, b}
        /\ a < b /\ \A j \in DOMAIN queue : sent[j] = queue[j] /\ j < a
        /\ sent[a] = d /\ sent[b] = u

\* The producer's answer to an interest goes to the end of the queue.
LEMMA SentLast ==
    ASSUME NEW S, NEW queue \in Seq(S), NEW h, NEW data, NEW uri,
           NEW sent, sent = Sends(queue, h, data, uri)
    PROVE  EndsWith(sent, queue, Data(h, data), Update(uri))
<1> DEFINE n == Len(queue)
           d == Data(h, data)
           u == Update(uri)
           pair == <<d, u>>
<1>2. n \in Nat /\ DOMAIN queue = 1..n
    OBVIOUS
<1> HIDE DEF d, u
<1>3. pair \in Seq({d, u}) /\ Len(pair) = 2 /\ pair[1] = d /\ pair[2] = u
    OBVIOUS
<1> HIDE DEF pair, n
<1>4. /\ Len(sent) = n + 2 /\ DOMAIN sent = 1..(n + 2)
      /\ \A j \in 1..(n + 2) : sent[j] = IF j <= n THEN queue[j] ELSE pair[j - n]
    <2> DEFINE T == S \cup {d, u}
    <2>1. queue \in Seq(T) /\ pair \in Seq(T)
        <3>1. S \subseteq T /\ {d, u} \subseteq T
            OBVIOUS
        <3> HIDE DEF T
        <3> QED
            BY <1>3, <3>1, SeqMonotonic
    <2>2. sent = queue \o pair
        BY DEF pair, d, u, Sends
    <2> HIDE DEF T
    <2>3. /\ sent \in Seq(T) /\ Len(sent) = Len(queue) + Len(pair)
          /\ \A j \in 1..(Len(queue) + Len(pair)) :
                sent[j] = IF j <= Len(queue) THEN queue[j] ELSE pair[j - Len(queue)]
        BY <2>1, <2>2, ConcatProperties
    <2> QED
        BY <1>3, <2>3 DEF n
<1> DEFINE a == n + 1
           b == n + 2
<1>5. /\ \A j \in DOMAIN queue : sent[j] = queue[j] /\ j < a /\ j < b
      /\ sent[a] = d /\ sent[b] = u
    <2>1. a - n = 1 /\ b - n = 2 /\ a \in 1..(n + 2) /\ b \in 1..(n + 2) /\ ~(a <= n) /\ ~(b <= n)
        BY <1>2
    <2>2. sent[a] = d /\ sent[b] = u
        BY <1>3, <1>4, <2>1
    <2> QED
        BY <1>2, <1>4, <2>2
<1>6. DOMAIN sent = DOMAIN queue \cup {a, b} /\ a < b /\ a \in Nat /\ b \in Nat
    BY <1>2, <1>4
<1> HIDE DEF a, b
<1> QED
    BY <1>5, <1>6 DEF d, u, EndsWith

\* It adds the hash of the interest, once with the data and once with the
\* update.
LEMMA MessagesSent ==
    ASSUME NEW S, NEW queue \in Seq(S), Singly(queue), NEW h, NEW data, NEW uri,
           h \notin Carried(queue, "data") \cup Carried(queue, "update"), Belong(h, data, uri)
    PROVE  LET sent == Sends(queue, h, data, uri)
           IN  /\ Singly(sent)
               /\ Carried(sent, "data") = Carried(queue, "data") \cup {h}
               /\ Carried(sent, "update") = Carried(queue, "update") \cup {h}
               /\ \A staged : Fitting(queue, staged) /\ h \notin DOMAIN staged => Fitting(sent, staged)
<1> DEFINE d == Data(h, data)
           u == Update(uri)
           sent == Sends(queue, h, data, uri)
<1>1. /\ d.kind = "data" /\ Hash(d) = h /\ d.data = data
      /\ u.kind = "update" /\ Hash(u) = h /\ Key(u) = Trapdoors(data.name)
    BY DEF Data, Update, Hash, Key, Belong
<1>2. sent = Sends(queue, h, data, uri)
    OBVIOUS
<1> HIDE DEF sent
<1>3. EndsWith(sent, queue, d, u)
    BY <1>2, SentLast
<1> HIDE DEF d, u
<1>5. PICK a \in Nat, b \in Nat :
        /\ DOMAIN sent = DOMAIN queue \cup {a, b} /\ a < b
        /\ \A j \in DOMAIN queue : sent[j] = queue[j] /\ j < a
        /\ sent[a] = d /\ sent[b] = u
    BY <1>3 DEF EndsWith
<1>6. DOMAIN sent = DOMAIN queue \cup {a, b} /\ a # b /\ a \notin DOMAIN queue /\ b \notin DOMAIN queue
    BY <1>5
<1>7. \A k \in DOMAIN queue : /\ queue[k].kind = "data" => Hash(queue[k]) # h
                              /\ queue[k].kind = "update" => Hash(queue[k]) # h
    BY DEF Carried
<1>8. Singly(sent)
    <2> SUFFICES ASSUME NEW i \in DOMAIN sent, NEW j \in DOMAIN sent, sent[i].kind = sent[j].kind,
                        sent[i].kind = "registration" \/ Hash(sent[i]) = Hash(sent[j])
                 PROVE  i = j
        BY DEF Singly
    <2>1. CASE i \in DOMAIN queue /\ j \in DOMAIN queue
        BY <1>5, <2>1 DEF Singly
    <2>2. CASE i = a
        BY <1>1, <1>5, <1>6, <1>7, <2>2
    <2>3. CASE i = b
        BY <1>1, <1>5, <1>6, <1>7, <2>3
    <2>4. CASE j = a
        BY <1>1, <1>5, <1>6, <1>7, <2>4
    <2>5. CASE j = b
        BY <1>1, <1>5, <1>6, <1>7, <2>5
    <2> QED
        BY <1>6, <2>1, <2>2, <2>3, <2>4, <2>5
<1>9. Carried(sent, "data") = Carried(queue, "data") \cup {h}
    <2>1. \A k \in DOMAIN sent : sent[k].kind = "data" <=>
             k = a \/ (k \in DOMAIN queue /\ queue[k].kind = "data")
        BY <1>1, <1>5, <1>6
    <2> QED
        BY <1>1, <1>5, <1>6, <2>1 DEF Carried
<1>10. Carried(sent, "update") = Carried(queue, "update") \cup {h}
    <2>1. \A k \in DOMAIN sent : sent[k].kind = "update" <=>
             k = b \/ (k \in DOMAIN queue /\ queue[k].kind = "update")
        BY <1>1, <1>5, <1>6
    <2> QED
        BY <1>1, <1>5, <1>6, <2>1 DEF Carried
<1>11. ASSUME NEW staged, Fitting(queue, staged), h \notin DOMAIN staged
       PROVE  Fitting(sent, staged)
    <2>1. ASSUME NEW j \in DOMAIN sent, sent[j].kind = "update", Hash(sent[j]) \in DOMAIN staged
          PROVE  Key(sent[j]) = Trapdoors(staged[Hash(sent[j])].name)
        <3>1. j # a /\ j # b
            BY <1>1, <1>5, <1>11, <2>1
        <3> QED
            BY <1>5, <1>6, <1>11, <2>1, <3>1 DEF Fitting
    <2>2. ASSUME NEW j \in DOMAIN sent, sent[j].kind = "update", NEW i \in DOMAIN sent,
                 sent[i].kind = "data", Hash(sent[i]) = Hash(sent[j])
          PROVE  Key(sent[j]) = Trapdoors(sent[i].data.name)
        <3>1. i # b /\ j # a
            BY <1>1, <1>5, <2>2
        <3>2. CASE i = a
            BY <1>1, <1>5, <1>6, <1>7, <2>2, <3>1, <3>2
        <3>3. CASE j = b
            BY <1>1, <1>5, <1>6, <1>7, <2>2, <3>1, <3>3
        <3>4. CASE i # a /\ j # b
            BY <1>5, <1>6, <1>11, <2>2, <3>1, <3>4 DEF Fitting
        <3> QED
            BY <3>2, <3>3, <3>4
    <2> SUFFICES ASSUME NEW j \in DOMAIN sent, sent[j].kind = "update"
                 PROVE  /\ Hash(sent[j]) \in DOMAIN staged =>
                              Key(sent[j]) = Trapdoors(staged[Hash(sent[j])].name)
                        /\ \A i \in DOMAIN sent :
                              sent[i].kind = "data" /\ Hash(sent[i]) = Hash(sent[j]) =>
                                  Key(sent[j]) = Trapdoors(sent[i].data.name)
        BY DEF Fitting
    <2>3. Hash(sent[j]) \in DOMAIN staged => Key(sent[j]) = Trapdoors(staged[Hash(sent[j])].name)
        BY <2>1
    <2>4. \A i \in DOMAIN sent :
             sent[i].kind = "data" /\ Hash(sent[i]) = Hash(sent[j]) =>
                 Key(sent[j]) = Trapdoors(sent[i].data.name)
        BY <2>2
    <2> QED
        BY <2>3, <2>4
<1> QED
    BY <1>8, <1>9, <1>10, <1>11 DEF sent

-----------------------------------------------------------------------------
(* What the steps do to the places of a hash.                              *)

\* Copies are not made.
LEMMA NoCopies ==
    ASSUME AtMostOnce, Inv
    PROVE  ~("duplicate" \in Faults /\ faults < MaxFaults)
<1>1. faults \in 0..MaxFaults
    BY DEF Inv, NetInv
<1> QED
    BY <1>1 DEF AtMostOnce

\* The router reads an interest that it never read before.
LEMMA InterestStep ==
    ASSUME AtMostOnce, Inv, PlaceInv, NEW uri \in interests, RouterOnInterest(uri),
           NEW h, h = Sha256(uri)
    PROVE  /\ interests' = interests \ {uri} /\ h \notin Used
           /\ UNCHANGED <<producer_vars, registrations, asked, downstream, refused>>
           /\ UNCHANGED <<trapdoor_table, cs, staged_data>>
           /\ \/ /\ ~decode_ciphertext_name(uri).ok
                 /\ DOMAIN pending' = DOMAIN pending \cup {h} /\ forwarded' = forwarded
              \/ /\ decode_ciphertext_name(uri).ok
                 /\ DOMAIN pending' = DOMAIN pending /\ forwarded' = forwarded
              \/ /\ decode_ciphertext_name(uri).ok
                 /\ DOMAIN pending' = DOMAIN pending \cup {h}
                 /\ forwarded' = forwarded \cup {[uri |-> uri, hash |-> h]}
<1>1. interests' = interests \ {uri}
    BY NoCopies DEF RouterOnInterest, Receive
<1>2. h \notin Used
    <2>1. \A v \in Sent \ interests : v # uri
        OBVIOUS
    <2> QED
        BY <2>1 DEF PlaceInv, Sha256
<1>3. /\ UNCHANGED <<producer_vars, registrations, asked, downstream, refused>>
      /\ UNCHANGED <<trapdoor_table, cs, staged_data>>
    BY DEF RouterOnInterest, RouterDrops, RouterServes, RouterForwards, Drop, ServeFromCache, Forward
<1>4. CASE RouterDrops(uri)
    BY <1>1, <1>2, <1>3, <1>4 DEF RouterDrops, Drop, pending_insert, MapInsert
<1>5. CASE RouterServes(uri)
    <2>1. /\ forwarded' = forwarded /\ decode_ciphertext_name(uri).ok
          /\ pending' = lookup_and_remove(pending_insert(uri), h)
        BY <1>5 DEF RouterServes, ServeFromCache
    <2>2. DOMAIN pending' = (DOMAIN pending \cup {h}) \ {h}
        <3>1. DOMAIN pending_insert(uri) = DOMAIN pending \cup {h}
            BY DEF pending_insert, MapInsert
        <3> QED
            BY <2>1, <3>1 DEF lookup_and_remove, MapRemove, Restrict
    <2>3. h \notin DOMAIN pending
        BY <1>2 DEF Used
    <2> QED
        BY <1>1, <1>2, <1>3, <2>1, <2>2, <2>3
<1>6. CASE RouterForwards(uri)
    BY <1>1, <1>2, <1>3, <1>6 DEF RouterForwards, Forward, pending_insert, MapInsert
<1> QED
    BY <1>4, <1>5, <1>6 DEF RouterOnInterest

\* The producer reads an interest, and does not read it again.
LEMMA AnswerStep ==
    ASSUME AtMostOnce, Inv, PlaceInv, NEW m \in forwarded, ProducerOnInterest(m),
           NEW h, h = m.hash
    PROVE  /\ UNCHANGED <<router_vars, producer_vars, registrations, asked, interests, answers>>
           /\ forwarded' = forwarded \ {m}
           /\ h \in Waiting /\ Waiting' = Waiting \ {h}
           /\ \/ refused' = refused \cup {h} /\ UNCHANGED downstream
              \/ /\ UNCHANGED refused
                 /\ \E reply \in producer_on_interest(m.uri, h) :
                       /\ downstream' = Sends(downstream, h, reply.data, reply.update)
                       /\ Belong(h, reply.data, reply.update)
<1>1. UNCHANGED <<router_vars, producer_vars, registrations, asked, interests, answers>>
    BY DEF ProducerOnInterest
<1>2. forwarded' = forwarded \ {m}
    BY NoCopies DEF ProducerOnInterest, Receive
<1>3. h \in Waiting /\ Waiting' = Waiting \ {h}
    <2>1. \A l \in forwarded : l.hash = h => l = m
        BY DEF PlaceInv, Sha256
    <2> QED
        BY <1>2, <2>1 DEF Waiting
<1>4. ASSUME NEW reply \in producer_on_interest(m.uri, h)
      PROVE  Belong(h, reply.data, reply.update)
    <2> DEFINE name == reply.data.name
    <2>1. /\ Packet(registrations, reply.data)
          /\ reply.update = encode_trapdoor_update(Trapdoors(name), h)
        BY <1>4, Replies DEF Inv
    <2>2. name \in RawName /\ parse_name(name).ok /\ h = Sha256(m.uri)
        BY <2>1 DEF Packet, DataPacket, Inv, NetInv
    <2>3. decode_trapdoor_update(reply.update) = Ok([trapdoors |-> Trapdoors(name), hash |-> h])
        BY <2>1, <2>2, UpdateOfName
    <2> HIDE DEF name
    <2>4. decode_trapdoor_update(reply.update).val = [trapdoors |-> Trapdoors(name), hash |-> h]
        BY <2>3 DEF Ok
    <2> QED
        BY <2>4 DEF name, Belong
<1>5. CASE refused' = refused \cup {h} /\ UNCHANGED downstream
    BY <1>1, <1>2, <1>3, <1>5
<1>6. ASSUME NEW reply \in producer_on_interest(m.uri, h),
             downstream' = downstream \o Reply(h, reply), UNCHANGED refused
      PROVE  /\ UNCHANGED refused
             /\ \E r \in producer_on_interest(m.uri, h) :
                   /\ downstream' = Sends(downstream, h, r.data, r.update)
                   /\ Belong(h, r.data, r.update)
    BY <1>4, <1>6 DEF Reply, Sends
<1>7. \/ refused' = refused \cup {h} /\ UNCHANGED downstream
      \/ \E reply \in producer_on_interest(m.uri, h) :
            downstream' = downstream \o Reply(h, reply) /\ UNCHANGED refused
    BY DEF ProducerOnInterest
<1> QED
    BY <1>1, <1>2, <1>3, <1>5, <1>6, <1>7

\* The router reads a message of the producer, and does not read it again.
LEMMA DeliverStep ==
    ASSUME AtMostOnce, Inv, NEW i \in DOMAIN downstream, Deliver(i),
           NEW m, m = downstream[i]
    PROVE  /\ UNCHANGED <<producer_vars, registrations, asked, interests, forwarded, refused>>
           /\ downstream' = RemoveAt(downstream, i)
           /\ \/ /\ m.kind = "registration"
                 /\ trapdoor_table' \in insert(trapdoor_table, PrefixKey, NoName)
                 /\ UNCHANGED <<cs, pending, staged_data>>
              \/ /\ m.kind = "data"
                 /\ staged_data' = MapInsert(staged_data, Hash(m), m.data)
                 /\ UNCHANGED <<trapdoor_table, cs, pending>>
              \/ /\ m.kind = "update"
                 /\ Key(m) \in Seq(Scalar) \ {<< >>}
                 /\ pending' = MapRemove(pending, Hash(m))
                 /\ \/ /\ Hash(m) \in DOMAIN staged_data
                       /\ staged_data' = MapRemove(staged_data, Hash(m))
                       /\ cs' = MapInsert(cs, Key(m), staged_data[Hash(m)])
                       /\ trapdoor_table' \in insert(trapdoor_table, Key(m), NoName)
                    \/ Hash(m) \notin DOMAIN staged_data /\ UNCHANGED <<staged_data, cs, trapdoor_table>>
<1>1. UNCHANGED <<producer_vars, registrations, asked, interests, forwarded, refused>>
    BY DEF Deliver
<1>2. downstream' = RemoveAt(downstream, i)
    BY NoCopies DEF Deliver
<1>3. Sound(Sent, registrations, m)
    BY DEF Inv, NetInv
<1>4. CASE RouterOnRegistration(m)
    <2> DEFINE t == Trapdoors(<<"">> \o prefix)[1]
    <2>1. m = Registration(prefix_registration_uri)
        BY <1>3, <1>4, SoundKinds DEF RouterOnRegistration
    <2>2. on_trapdoor_registration(prefix_registration_uri) /\ m.kind = "registration"
        BY <1>4, <2>1 DEF RouterOnRegistration, Registration
    <2>3. decode_trapdoor_registration(prefix_registration_uri) = Ok(t)
        BY PrefixOfProducer
    <2> HIDE DEF t
    <2>4. trapdoor_table' \in insert(trapdoor_table, <<t>>, NoName) /\ UNCHANGED <<cs, pending, staged_data>>
        BY <2>2, <2>3 DEF on_trapdoor_registration, Ok
    <2> QED
        BY <1>1, <1>2, <2>2, <2>4 DEF t, PrefixKey
<1>5. CASE RouterOnData(m)
    BY <1>1, <1>2, <1>5 DEF RouterOnData, on_data, Hash
<1>6. CASE RouterOnUpdate(m)
    <2>1. m.kind = "update" /\ SoundUpdate(Sent, m.uri) /\ on_trapdoor_update(m.uri)
        BY <1>3, <1>6, SoundKinds DEF RouterOnUpdate
    <2> DEFINE nt == decode_trapdoor_update(m.uri).val.trapdoors
               hash == decode_trapdoor_update(m.uri).val.hash
    <2>2. /\ nt \in Seq(Scalar) \ {<< >>}
          /\ pending' = lookup_and_remove(pending, hash)
          /\ \/ /\ hash \in DOMAIN staged_data
                /\ staged_data' = staged_remove(hash)
                /\ cs' = cs_insert(nt, staged_data[hash])
                /\ trapdoor_table' \in insert(trapdoor_table, nt, NoName)
             \/ hash \notin DOMAIN staged_data /\ UNCHANGED <<staged_data, cs, trapdoor_table>>
        BY <2>1, Committed
    <2>3. hash = Hash(m) /\ nt = Key(m)
        BY <2>1 DEF Hash, Key
    <2> HIDE DEF hash, nt
    <2> QED
        BY <1>1, <1>2, <2>1, <2>2, <2>3 DEF lookup_and_remove, staged_remove, cs_insert
<1> QED
    BY <1>4, <1>5, <1>6 DEF Deliver

\* A consumer asks with a URI that nobody sent before.
LEMMA RequestStep ==
    ASSUME Apart, Inv, NEW name \in Names, Request(name)
    PROVE  /\ UNCHANGED <<router_vars, producer_vars, registrations, forwarded, downstream, answers, refused>>
           /\ \E uri : /\ uri \notin Sent /\ Sent' = Sent \cup {uri}
                       /\ interests' = interests \cup {uri}
<1>1. PICK r \in Nonces \ DOMAIN asked :
        /\ name_to_ciphertext(public_key, name, r).ok
        /\ asked' = MapInsert(asked, r, [name |-> name, hash |-> Sha256(create_interest(name, r))])
        /\ interests' = interests \cup {create_interest(name, r)}
    BY DEF Request
<1> DEFINE uri == create_interest(name, r)
<1>2. name \in RawName /\ parse_name(name).ok
    BY <1>1, ParseDecides, NamesAssumption DEF NamesAssumption
<1>3. uri \notin Sent
    <2>1. uri \notin Foreign
        BY <1>2 DEF Apart
    <2>2. ASSUME NEW s \in DOMAIN asked, uri = create_interest(asked[s].name, s) PROVE FALSE
        <3>1. asked[s].name \in Names /\ parse_name(asked[s].name).ok /\ s \in Nonces
            BY DEF Inv, AskedInv, Asks
        <3>2. r = s
            BY <1>2, <2>2, <3>1, InterestsDiffer
        <3> QED
            BY <3>2
    <2> QED
        BY <2>1, <2>2 DEF Sent
<1> DEFINE query == [name |-> name, hash |-> Sha256(create_interest(name, r))]
<1>4. query.name = name
    OBVIOUS
<1> HIDE DEF query
<1>5. /\ DOMAIN asked' = DOMAIN asked \cup {r} /\ asked'[r] = query
      /\ \A q \in DOMAIN asked : asked'[q] = asked[q]
    BY <1>1 DEF MapInsert, query
<1>6. Sent' = Sent \cup {uri}
    BY <1>4, <1>5 DEF Sent
<1> QED
    BY <1>1, <1>3, <1>6 DEF Request

\* What a loss does: there is less of something.
LEMMA LoseStep ==
    ASSUME Lose
    PROVE  /\ UNCHANGED <<router_vars, producer_vars, registrations, asked, answers, refused>>
           /\ interests' \subseteq interests /\ forwarded' \subseteq forwarded
           /\ downstream' = downstream \/ \E i \in DOMAIN downstream : downstream' = RemoveAt(downstream, i)
BY DEF Lose

-----------------------------------------------------------------------------
(* A hash is in one place at a time.                                       *)

\* A step that changes none of the places.
LEMMA PlacesKept ==
    ASSUME PlaceInv, UNCHANGED <<pending, staged_data, forwarded, downstream, refused>>,
           Sent \ interests \subseteq Sent' \ interests'
    PROVE  PlaceInv'
<1>1. UNCHANGED <<Waiting, Returning, Updating, Used>>
    BY DEF Waiting, Returning, Updating, Used
<1> QED
    BY <1>1 DEF PlaceInv

\* The router drops an interest, serves or forwards it: the hash appears.
LEMMA InterestPlaces ==
    ASSUME AtMostOnce, Inv, PlaceInv, NEW uri \in interests, RouterOnInterest(uri)
    PROVE  PlaceInv'
<1> DEFINE h == Sha256(uri)
<1>1. /\ interests' = interests \ {uri} /\ h \notin Used
      /\ UNCHANGED <<asked, downstream, refused, staged_data>>
      /\ \/ DOMAIN pending' \subseteq DOMAIN pending \cup {h} /\ forwarded' = forwarded
         \/ /\ DOMAIN pending' \subseteq DOMAIN pending \cup {h}
            /\ forwarded' = forwarded \cup {[uri |-> uri, hash |-> h]}
    BY InterestStep
<1>2. UNCHANGED <<Returning, Updating>> /\ Sent' = Sent /\ uri \in Sent
    BY <1>1 DEF Returning, Updating, Sent, Inv, NetInv
<1>3. Waiting' = Waiting \/ Waiting' = Waiting \cup {h}
    BY <1>1 DEF Waiting
<1>4. \A k \in Used' : k \in Used \/ k = h
    BY <1>1, <1>2, <1>3 DEF Used
<1>5. \A k \in Used' : \E v \in Sent' \ interests' : k = Sha256(v)
    BY <1>1, <1>2, <1>4 DEF PlaceInv
<1>6. \A m \in forwarded' : m = [uri |-> m.uri, hash |-> Sha256(m.uri)]
    BY <1>1 DEF PlaceInv
<1>7. Separate(Waiting', Returning', Updating', DOMAIN staged_data', refused')
    <2>1. h \notin Returning \cup Updating \cup DOMAIN staged_data \cup refused
        BY <1>1 DEF Used
    <2>2. Separate(Waiting, Returning, Updating, DOMAIN staged_data, refused)
        BY DEF PlaceInv
    <2> QED
        BY <1>1, <1>2, <1>3, <2>1, <2>2 DEF Separate
<1> QED
    BY <1>1, <1>5, <1>6, <1>7 DEF PlaceInv

\* The producer refuses an interest, or answers it with data and update.
LEMMA AnswerPlaces ==
    ASSUME AtMostOnce, Inv, PlaceInv, NEW m \in forwarded, ProducerOnInterest(m)
    PROVE  PlaceInv'
<1> DEFINE h == m.hash
<1>1. /\ UNCHANGED <<router_vars, asked, interests>>
      /\ forwarded' = forwarded \ {m} /\ h \in Waiting /\ Waiting' = Waiting \ {h}
      /\ \/ refused' = refused \cup {h} /\ UNCHANGED downstream
         \/ /\ UNCHANGED refused
            /\ \E reply \in producer_on_interest(m.uri, h) :
                  /\ downstream' = Sends(downstream, h, reply.data, reply.update)
                  /\ Belong(h, reply.data, reply.update)
    BY AnswerStep
<1>2. UNCHANGED <<pending, staged_data>> /\ Sent' = Sent
    BY <1>1 DEF router_vars, Sent
<1>3. Separate(Waiting, Returning, Updating, DOMAIN staged_data, refused)
    BY DEF PlaceInv
<1> HIDE DEF h
<1>4. h \notin Returning \cup Updating \cup DOMAIN staged_data \cup refused
    BY <1>1, <1>3 DEF Separate
<1>5. \A k \in forwarded' : k = [uri |-> k.uri, hash |-> Sha256(k.uri)]
    BY <1>1 DEF PlaceInv
<1>6. CASE refused' = refused \cup {h} /\ UNCHANGED downstream
    <2>1. UNCHANGED <<Returning, Updating>>
        BY <1>6 DEF Returning, Updating
    <2>2. Separate(Waiting', Returning', Updating', DOMAIN staged_data', refused')
        BY <1>1, <1>2, <1>3, <1>4, <1>6, <2>1 DEF Separate
    <2>3. Used' \subseteq Used
        BY <1>1, <1>2, <1>6, <2>1 DEF Used
    <2> QED
        BY <1>1, <1>2, <1>5, <1>6, <2>2, <2>3 DEF PlaceInv
<1>7. ASSUME UNCHANGED refused, NEW reply,
             downstream' = Sends(downstream, h, reply.data, reply.update),
             Belong(h, reply.data, reply.update)
      PROVE  PlaceInv'
    <2>1. h \notin Carried(downstream, "data") \cup Carried(downstream, "update")
        BY <1>4 DEF Returning, Updating
    <2>2. downstream \in Seq(Range(downstream)) /\ Singly(downstream) /\ Fitting(downstream, staged_data)
        BY DEF Inv, NetInv, PlaceInv
    <2>3. /\ Singly(downstream')
          /\ Carried(downstream', "data") = Carried(downstream, "data") \cup {h}
          /\ Carried(downstream', "update") = Carried(downstream, "update") \cup {h}
          /\ h \notin DOMAIN staged_data => Fitting(downstream', staged_data)
        BY <1>7, <2>1, <2>2, MessagesSent
    <2>4. Returning' = Returning \cup {h} /\ Updating' = Updating \cup {h}
        BY <2>3 DEF Returning, Updating
    <2>5. Separate(Waiting', Returning', Updating', DOMAIN staged_data', refused')
        BY <1>1, <1>2, <1>3, <1>4, <1>7, <2>4 DEF Separate
    <2>6. Used' \subseteq Used
        BY <1>1, <1>2, <1>7, <2>4 DEF Used
    <2> QED
        BY <1>1, <1>2, <1>4, <1>5, <2>3, <2>5, <2>6 DEF PlaceInv
<1> QED
    BY <1>1, <1>6, <1>7

\* What the router reads leaves the queue; data is staged instead.
LEMMA DeliverPlaces ==
    ASSUME AtMostOnce, Inv, PlaceInv, NEW i \in DOMAIN downstream, Deliver(i)
    PROVE  PlaceInv'
<1> DEFINE m == downstream[i]
<1>1. /\ UNCHANGED <<asked, interests, forwarded, refused>> /\ downstream' = RemoveAt(downstream, i)
      /\ \/ m.kind = "registration" /\ UNCHANGED <<pending, staged_data>>
         \/ /\ m.kind = "data" /\ UNCHANGED pending
            /\ staged_data' = MapInsert(staged_data, Hash(m), m.data)
         \/ /\ m.kind = "update" /\ pending' = MapRemove(pending, Hash(m))
            /\ \/ staged_data' = MapRemove(staged_data, Hash(m))
               \/ Hash(m) \notin DOMAIN staged_data /\ UNCHANGED staged_data
    BY DeliverStep
<1>2. downstream \in Seq(Range(downstream)) /\ Singly(downstream) /\ Fitting(downstream, staged_data)
    BY DEF Inv, NetInv, PlaceInv
<1>3. /\ Singly(downstream') /\ Fitting(downstream', staged_data)
      /\ m.kind # "registration" => Carried(downstream', m.kind) = Carried(downstream, m.kind) \ {Hash(m)}
      /\ \A kind : kind # m.kind => Carried(downstream', kind) = Carried(downstream, kind)
    BY <1>1, <1>2, MessageTaken
<1>4. Hash(m) \in Carried(downstream, m.kind)
    BY DEF Carried
<1>5. UNCHANGED Waiting /\ Sent' = Sent
    BY <1>1 DEF Waiting, Sent
<1>6. Separate(Waiting, Returning, Updating, DOMAIN staged_data, refused)
    BY DEF PlaceInv
<1>7. ASSUME Fitting(downstream', staged_data'), Used' \subseteq Used,
             Separate(Waiting', Returning', Updating', DOMAIN staged_data', refused')
      PROVE  PlaceInv'
    BY <1>1, <1>3, <1>5, <1>7 DEF PlaceInv
<1>8. CASE m.kind = "registration" /\ UNCHANGED <<pending, staged_data>>
    <2>1. UNCHANGED <<Returning, Updating>>
        BY <1>3, <1>8 DEF Returning, Updating
    <2>2. UNCHANGED Used
        BY <1>1, <1>5, <1>8, <2>1 DEF Used
    <2> QED
        BY <1>1, <1>3, <1>5, <1>6, <1>7, <1>8, <2>1, <2>2
<1>9. CASE /\ m.kind = "data" /\ UNCHANGED pending
           /\ staged_data' = MapInsert(staged_data, Hash(m), m.data)
    <2> DEFINE h == Hash(m)
    <2>1. /\ DOMAIN staged_data' = DOMAIN staged_data \cup {h} /\ staged_data'[h] = m.data
          /\ \A k \in DOMAIN staged_data : k # h => staged_data'[k] = staged_data[k]
        BY <1>9 DEF MapInsert
    <2>2. Fitting(downstream', staged_data')
        <3>1. \A j \in DOMAIN downstream :
                 downstream[j].kind = "update" /\ Hash(downstream[j]) = h =>
                     Key(downstream[j]) = Trapdoors(m.data.name)
            BY <1>2, <1>9 DEF Fitting
        <3>2. \A j \in DOMAIN downstream' : \E k \in DOMAIN downstream : downstream'[j] = downstream[k]
            BY <1>1, <1>2, QueueLeft
        <3> HIDE DEF h, m
        <3> QED
            BY <1>3, <2>1, <3>1, <3>2 DEF Fitting
    <2> HIDE DEF h
    <2>3. Returning' = Returning \ {h} /\ h \in Returning /\ UNCHANGED Updating
        BY <1>3, <1>4, <1>9 DEF Returning, Updating, h
    <2>4. Separate(Waiting', Returning', Updating', DOMAIN staged_data', refused')
        BY <1>1, <1>5, <1>6, <2>1, <2>3 DEF Separate
    <2>5. Used' \subseteq Used
        BY <1>1, <1>5, <1>9, <2>1, <2>3 DEF Used
    <2> QED
        BY <1>7, <2>2, <2>4, <2>5
<1>10. CASE /\ m.kind = "update" /\ pending' = MapRemove(pending, Hash(m))
            /\ \/ staged_data' = MapRemove(staged_data, Hash(m))
               \/ Hash(m) \notin DOMAIN staged_data /\ UNCHANGED staged_data
    <2>1. /\ DOMAIN pending' \subseteq DOMAIN pending
          /\ DOMAIN staged_data' \subseteq DOMAIN staged_data
          /\ \A k \in DOMAIN staged_data' : staged_data'[k] = staged_data[k]
        BY <1>10 DEF MapRemove, Restrict
    <2>2. Fitting(downstream', staged_data')
        BY <1>3, <2>1 DEF Fitting
    <2>3. UNCHANGED Returning /\ Updating' \subseteq Updating
        BY <1>3, <1>10 DEF Returning, Updating
    <2>4. Separate(Waiting', Returning', Updating', DOMAIN staged_data', refused')
        BY <1>1, <1>5, <1>6, <2>1, <2>3 DEF Separate
    <2>5. Used' \subseteq Used
        BY <1>1, <1>5, <2>1, <2>3 DEF Used
    <2> QED
        BY <1>7, <2>2, <2>4, <2>5
<1> QED
    BY <1>1, <1>8, <1>9, <1>10

\* A loss leaves less in the places there are.
LEMMA LosePlaces ==
    ASSUME Inv, PlaceInv, Lose
    PROVE  PlaceInv'
<1>1. /\ UNCHANGED <<router_vars, asked, refused>>
      /\ interests' \subseteq interests /\ forwarded' \subseteq forwarded
      /\ downstream' = downstream \/ \E i \in DOMAIN downstream : downstream' = RemoveAt(downstream, i)
    BY LoseStep
<1>2. downstream \in Seq(Range(downstream)) /\ Singly(downstream) /\ Fitting(downstream, staged_data)
    BY DEF Inv, NetInv, PlaceInv
<1>3. /\ Singly(downstream') /\ Fitting(downstream', staged_data)
      /\ \A kind : Carried(downstream', kind) \subseteq Carried(downstream, kind)
    BY <1>1, <1>2, MessageTaken, MessageLost
<1>4. UNCHANGED <<pending, staged_data>> /\ Sent' = Sent
    BY <1>1 DEF router_vars, Sent
<1>5. Waiting' \subseteq Waiting /\ Returning' \subseteq Returning /\ Updating' \subseteq Updating
    BY <1>1, <1>3 DEF Waiting, Returning, Updating
<1>6. Separate(Waiting', Returning', Updating', DOMAIN staged_data', refused')
    <2>1. Separate(Waiting, Returning, Updating, DOMAIN staged_data, refused)
        BY DEF PlaceInv
    <2> QED
        BY <1>1, <1>4, <1>5, <2>1 DEF Separate
<1>7. Used' \subseteq Used
    BY <1>1, <1>4, <1>5 DEF Used
<1> QED
    BY <1>1, <1>3, <1>4, <1>6, <1>7 DEF PlaceInv

\* Every step leaves a hash in one place.
LEMMA StepPlaces ==
    ASSUME AtMostOnce, Apart, Inv, PlaceInv, [Next]_vars
    PROVE  PlaceInv'
<1>1. CASE UNCHANGED vars
    BY <1>1, PlacesKept DEF vars, router_vars, net_vars, Sent
<1>2. ASSUME NEW name \in Names, Register(name) PROVE PlaceInv'
    BY <1>2, PlacesKept DEF Register, router_vars, Sent
<1>3. ASSUME NEW name \in Names, Request(name) PROVE PlaceInv'
    <2>1. UNCHANGED <<pending, staged_data, forwarded, downstream, refused>>
        BY <1>3, RequestStep DEF router_vars
    <2>2. \E uri : uri \notin Sent /\ Sent' = Sent \cup {uri} /\ interests' = interests \cup {uri}
        BY <1>3, RequestStep
    <2>3. Sent \ interests \subseteq Sent' \ interests'
        BY <2>2
    <2> QED
        BY <2>1, <2>3, PlacesKept
<1>4. CASE RouterReads
    BY <1>4, InterestPlaces DEF RouterReads
<1>5. CASE ProducerReads
    BY <1>5, AnswerPlaces DEF ProducerReads
<1>6. CASE Delivery
    BY <1>6, DeliverPlaces DEF Delivery
<1>7. CASE Lose
    BY <1>7, LosePlaces
<1> QED
    BY <1>1, <1>2, <1>3, <1>4, <1>5, <1>6, <1>7 DEF Next

\* At first nothing has been read.
LEMMA InitPlaces ==
    ASSUME Init
    PROVE  PlaceInv
<1>1. /\ DOMAIN pending = {} /\ DOMAIN staged_data = {} /\ forwarded = {} /\ refused = {}
      /\ downstream = <<Registration(prefix_registration_uri)>>
    BY DEF Init, RouterInit, EmptyMap
<1>2. DOMAIN downstream = {1} /\ downstream[1].kind = "registration"
    BY <1>1 DEF Registration
<1>3. Returning = {} /\ Updating = {} /\ Waiting = {}
    BY <1>1, <1>2 DEF Returning, Updating, Waiting, Carried
<1>4. Used = {} /\ Separate(Waiting, Returning, Updating, DOMAIN staged_data, refused)
    BY <1>1, <1>3 DEF Used, Separate
<1>5. Singly(downstream) /\ Fitting(downstream, staged_data)
    BY <1>2 DEF Singly, Fitting
<1> QED
    BY <1>1, <1>4, <1>5 DEF PlaceInv

\* So it is in every reachable state.
LEMMA SpecPlaces ==
    ASSUME AtMostOnce, Apart
    PROVE  Spec => []PlaceInv
<1>1. ASSUME Init PROVE PlaceInv
    BY <1>1, InitPlaces
<1>2. ASSUME Inv, PlaceInv, [Next]_vars PROVE PlaceInv'
    BY <1>2, StepPlaces
<1> QED
    BY <1>1, <1>2, SpecInv, PTL DEF Spec

-----------------------------------------------------------------------------
(* What is joined fits, zero scalars or not.                               *)

\* The packet staged under the hash of an update is the one the producer sent
\* along with it.
LEMMA OnceJoins ==
    ASSUME PlaceInv
    PROVE  UpdatesFit
<1> SUFFICES ASSUME NEW i \in DOMAIN downstream, downstream[i].kind = "update",
                    decode_trapdoor_update(downstream[i].uri).val.hash \in DOMAIN staged_data
             PROVE  decode_trapdoor_update(downstream[i].uri).val.trapdoors
                       = Trapdoors(staged_data[decode_trapdoor_update(downstream[i].uri).val.hash].name)
    BY DEF UpdatesFit
<1>1. Hash(downstream[i]) = decode_trapdoor_update(downstream[i].uri).val.hash
    BY DEF Hash
<1>2. Fitting(downstream, staged_data)
    BY DEF PlaceInv
<1> QED
    BY <1>1, <1>2 DEF Fitting, Key

\* So the joins are sound in every reachable state.
LEMMA OnceJoin ==
    ASSUME AtMostOnce, Apart
    PROVE  Spec => []JoinInv
<1>1. ASSUME Inv, PlaceInv, JoinInv, [Next]_vars PROVE JoinInv'
    BY <1>1, OnceJoins, StepJoin
<1> QED
    BY <1>1, InitJoin, SpecInv, SpecPlaces, PTL DEF Spec

\* A zero scalar alone does not make the content store unsound: that takes
\* data of two names under one hash, which a network that copies no interest
\* cannot bring about.
THEOREM OnceCacheSound ==
    ASSUME AtMostOnce, Apart
    PROVE  Spec => []CacheSound
<1>1. ASSUME Inv, JoinInv PROVE CacheSound
    BY <1>1, JoinedCache
<1> QED
    BY <1>1, SpecInv, OnceJoin, PTL

\* Nor can it make cached data unfindable, for those who draw another scalar.
THEOREM OnceCacheReachable ==
    ASSUME AtMostOnce, Apart
    PROVE  Spec => []CacheReachable
<1>1. ASSUME Inv, JoinInv PROVE CacheReachable
    BY <1>1, JoinedReachable
<1> QED
    BY <1>1, SpecInv, OnceJoin, PTL

\* Foreign URIs that do not decode are no interests of ours.
LEMMA ForeignApart ==
    ASSUME NoForeignInterests
    PROVE  Apart
<1> SUFFICES ASSUME NEW name \in Names, NEW r \in Nonces, parse_name(name).ok
             PROVE  create_interest(name, r) \notin Foreign
    BY DEF Apart
<1>1. decode_ciphertext_name(create_interest(name, r))
         = Ok(name_to_ciphertext(public_key, name, r).val)
    BY InterestOfName, NamesAssumption DEF NamesAssumption
<1>2. decode_ciphertext_name(create_interest(name, r)).ok
    BY <1>1 DEF Ok
<1> QED
    BY <1>2 DEF NoForeignInterests

\* Whatever zeros are drawn: a consumer is handed registered data of a name
\* that has as many components as the one it asked for, and the same ones
\* wherever the scalar is not zero.
THEOREM OnceAnswerSound ==
    ASSUME AtMostOnce, NoForeignInterests
    PROVE  Spec => []AnswerSound
<1>1. ASSUME Inv, JoinInv PROVE AnswerSound
    BY <1>1, JoinedAnswers
<1> QED
    BY <1>1, ForeignApart, SpecInv, OnceJoin, PTL

-----------------------------------------------------------------------------
(* Routing by the first component of the prefix.                           *)

\* A row of the router's table passes the first test of an encrypted name
\* exactly when it begins with the trapdoor of the name's first component.
LEMMA FirstTest ==
    ASSUME NEW key \in Seq(Scalar) \ {<< >>}, NEW name \in Names, parse_name(name).ok,
           NEW r \in Proper
    PROVE  Passes(key, name_to_ciphertext(public_key, name, r).val, 1) <=> key[1] = Trapdoors(name)[1]
<1> DEFINE nc == name_to_ciphertext(public_key, name, r).val
           w == parse_name(name).val
           t == Trapdoors(name)
<1>0. name \in RawName /\ r \in Seq(Scalar \ {Zero}) /\ Covers(r, name)
    BY NonceScalars, ProperScalars
<1>1. w \in Seq(Component) /\ Len(w) \in Nat \ {0}
    BY <1>0, ParsedName, EmptySeq
<1>2. Len(nc) = Len(w) /\ \A i \in 1..Len(w) : nc[i] = encrypt(public_key, w[i], r[i])
    BY <1>0, CiphertextsOfName
<1>3. \A i \in 1..Len(w) : t[i] = generate_trapdoor(private_key, w[i])
    BY <1>0, TrapdoorsOfName, PrivateKeyAssumption DEF PrivateKeyAssumption, Trapdoors
<1>4. 1 \in 1..Len(w) /\ w[1] \in Component /\ r[1] \in Scalar \ {Zero}
    <2>1. 1 \in 1..Len(w)
        BY <1>1
    <2> QED
        BY <1>0, <1>1, <2>1, ElementOfSeq, ScalarOfComponent
<1>5. Len(key) \in Nat \ {0} /\ key[1] \in Scalar
    BY EmptySeq, ElementOfSeq
<1>6. Passes(key, nc, 1) <=> test(key[1], nc[1])
    BY <1>1, <1>2, <1>5 DEF Passes
<1>7. nc[1] = encrypt(PublicKey(private_key), w[1], r[1]) /\ t[1] = generate_trapdoor(private_key, w[1])
    BY <1>2, <1>3, <1>4 DEF public_key
<1>8. private_key \in Scalar /\ t[1] \in Scalar /\ test(t[1], nc[1])
    BY <1>4, <1>7, TestIsEquality, TrapdoorType, PrivateKeyAssumption DEF PrivateKeyAssumption
<1>9. nc[1].a \in Scalar \ {Zero}
    <2>1. encrypt(PublicKey(private_key), w[1], r[1]).a = Mul(Generator, r[1])
        BY DEF encrypt
    <2>2. Mul(Generator, r[1]) \in Scalar \ {Zero}
        BY <1>4, MulNonzero, ScalarAssumption DEF ScalarAssumption
    <2> QED
        BY <1>7, <2>1, <2>2
<1> HIDE DEF nc, t
<1>10. test(key[1], nc[1]) <=> key[1] = t[1]
    BY <1>5, <1>8, <1>9, TestFixesTrapdoor
<1> QED
    BY <1>6, <1>10 DEF nc, t

\* The producer's answer is no registration.
LEMMA AnswerUnregistered ==
    ASSUME Inv, NEW h, NEW data, NEW uri, downstream' = Sends(downstream, h, data, uri)
    PROVE  Unregistered' = Unregistered
<1> DEFINE d == Data(h, data)
           u == Update(uri)
<1>1. d.kind = "data" /\ u.kind = "update"
    BY DEF Data, Update
<1>2. downstream \in Seq(Range(downstream))
    BY DEF Inv, NetInv
<1>3. EndsWith(downstream', downstream, d, u)
    BY <1>2, SentLast
<1> HIDE DEF d, u
<1>4. /\ \A j \in DOMAIN downstream : j \in DOMAIN downstream' /\ downstream'[j] = downstream[j]
      /\ \A j \in DOMAIN downstream' : j \in DOMAIN downstream \/ downstream'[j] \in {d, u}
    BY <1>3 DEF EndsWith
<1>5. Unregistered' <=> Unregistered
    BY <1>1, <1>4 DEF Unregistered
<1> QED
    BY <1>5 DEF Unregistered

\* The router adds the row of the prefix with the registration, and a row for
\* what it caches with an update.
LEMMA DeliverRows ==
    ASSUME AtMostOnce, Inv, PlaceInv, RowsInv, NEW i \in DOMAIN downstream, Deliver(i)
    PROVE  RowsInv'
<1> DEFINE m == downstream[i]
<1>1. /\ downstream' = RemoveAt(downstream, i)
      /\ \/ /\ m.kind = "registration"
            /\ trapdoor_table' \in insert(trapdoor_table, PrefixKey, NoName)
            /\ UNCHANGED cs
         \/ m.kind # "registration" /\ UNCHANGED <<trapdoor_table, cs>>
         \/ /\ m.kind # "registration"
            /\ Key(m) \in Seq(Scalar) \ {<< >>}
            /\ DOMAIN cs' = DOMAIN cs \cup {Key(m)}
            /\ trapdoor_table' \in insert(trapdoor_table, Key(m), NoName)
    BY DeliverStep DEF MapInsert
<1>2. downstream \in Seq(Range(downstream)) /\ Singly(downstream)
    BY DEF Inv, NetInv, PlaceInv
<1>3. /\ \A j \in DOMAIN downstream' :
            Before(i, j) \in DOMAIN downstream \ {i} /\ downstream'[j] = downstream[Before(i, j)]
      /\ \A k \in DOMAIN downstream \ {i} : \E j \in DOMAIN downstream' : k = Before(i, j)
    BY <1>1, <1>2, QueueLeft
<1>4. m.kind = "registration" => Unregistered /\ ~Unregistered'
    BY <1>2, <1>3 DEF Singly, Unregistered
<1>5. m.kind # "registration" => (Unregistered' <=> Unregistered)
    BY <1>3 DEF Unregistered
<1> HIDE DEF m
<1>6. trapdoor_table \in Seq(TrapdoorTableEntry) /\ NoName \in RawName \cup {NoName}
    BY DEF Inv, RouterInv
<1>7. CASE /\ m.kind = "registration" /\ UNCHANGED cs
           /\ trapdoor_table' \in insert(trapdoor_table, PrefixKey, NoName)
    <2>1. PrefixKey \in Seq(Scalar) \ {<< >>}
        <3> DEFINE t == Trapdoors(<<"">> \o prefix)[1]
        <3>1. t \in Scalar /\ PrefixKey = <<t>>
            BY PrefixOfProducer DEF PrefixKey
        <3> HIDE DEF t
        <3>2. <<t>> \in Seq(Scalar) \ {<< >>}
            BY <3>1
        <3> QED
            BY <3>1, <3>2
    <2>2. /\ \E j \in 1..Len(trapdoor_table') : trapdoor_table'[j].trapdoors = PrefixKey
          /\ \A j \in 1..Len(trapdoor_table') :
                \/ trapdoor_table'[j].trapdoors = PrefixKey
                \/ \E k \in 1..Len(trapdoor_table) : trapdoor_table'[j].trapdoors = trapdoor_table[k].trapdoors
        BY <1>6, <1>7, <2>1, InsertKeys
    <2> QED
        BY <1>4, <1>7, <2>2 DEF RowsInv
<1>8. CASE m.kind # "registration" /\ UNCHANGED <<trapdoor_table, cs>>
    BY <1>5, <1>8 DEF RowsInv
<1>9. CASE /\ m.kind # "registration"
           /\ Key(m) \in Seq(Scalar) \ {<< >>}
           /\ DOMAIN cs' = DOMAIN cs \cup {Key(m)}
           /\ trapdoor_table' \in insert(trapdoor_table, Key(m), NoName)
    <2>1. /\ \A k \in 1..Len(trapdoor_table) :
                \E j \in 1..Len(trapdoor_table') : trapdoor_table'[j].trapdoors = trapdoor_table[k].trapdoors
          /\ \A j \in 1..Len(trapdoor_table') :
                \/ trapdoor_table'[j].trapdoors = Key(m)
                \/ \E k \in 1..Len(trapdoor_table) : trapdoor_table'[j].trapdoors = trapdoor_table[k].trapdoors
        BY <1>6, <1>9, InsertKeys
    <2> QED
        BY <1>5, <1>9, <2>1 DEF RowsInv
<1> QED
    BY <1>1, <1>7, <1>8, <1>9

\* Nothing is lost.
LEMMA NoLosses ==
    ASSUME NoneLost, Inv, Lose
    PROVE  FALSE
<1>1. faults \in 0..MaxFaults
    BY DEF Inv, NetInv
<1> QED
    BY <1>1 DEF NoneLost, Lose

\* No other step adds rows.
LEMMA StepRows ==
    ASSUME AtMostOnce, NoneLost, Inv, PlaceInv, RowsInv, [Next]_vars
    PROVE  RowsInv'
<1>1. ASSUME UNCHANGED <<trapdoor_table, cs>>, Unregistered' = Unregistered PROVE RowsInv'
    BY <1>1 DEF RowsInv
<1>2. ASSUME UNCHANGED <<trapdoor_table, cs, downstream>> PROVE RowsInv'
    BY <1>1, <1>2 DEF Unregistered
<1>3. CASE UNCHANGED vars
    BY <1>2, <1>3 DEF vars, router_vars, net_vars
<1>4. ASSUME NEW name \in Names, Register(name) PROVE RowsInv'
    BY <1>2, <1>4 DEF Register, router_vars
<1>5. ASSUME NEW name \in Names, Request(name) PROVE RowsInv'
    BY <1>2, <1>5 DEF Request, router_vars
<1>6. CASE RouterReads
    BY <1>2, <1>6, InterestStep DEF RouterReads
<1>7. ASSUME NEW m \in forwarded, ProducerOnInterest(m) PROVE RowsInv'
    <2>1. /\ UNCHANGED router_vars
          /\ \/ UNCHANGED downstream
             \/ \E reply \in producer_on_interest(m.uri, m.hash) :
                   downstream' = Sends(downstream, m.hash, reply.data, reply.update)
        BY <1>7, AnswerStep
    <2>2. UNCHANGED <<trapdoor_table, cs>>
        BY <2>1 DEF router_vars
    <2> QED
        BY <1>1, <1>2, <2>1, <2>2, AnswerUnregistered
<1>8. CASE Delivery
    BY <1>8, DeliverRows DEF Delivery
<1>9. CASE Lose
    BY <1>9, NoLosses
<1> QED
    BY <1>3, <1>4, <1>5, <1>6, <1>7, <1>8, <1>9 DEF Next, ProducerReads

\* At first there are no rows and the registration is on its way.
LEMMA InitRows ==
    ASSUME Init
    PROVE  RowsInv
<1>1. trapdoor_table = << >> /\ downstream = <<Registration(prefix_registration_uri)>>
    BY DEF Init, RouterInit
<1>2. DOMAIN downstream = {1} /\ downstream[1].kind = "registration" /\ Len(trapdoor_table) = 0
    BY <1>1 DEF Registration
<1>3. Unregistered /\ 1..Len(trapdoor_table) = {}
    BY <1>2 DEF Unregistered
<1> QED
    BY <1>3 DEF RowsInv

\* When no message is lost or copied, an interest has a matching row exactly
\* when it begins with the first component of the prefix, once that is
\* registered, or like a name that is cached.
THEOREM NetworkRoutes ==
    ASSUME AtMostOnce, NoneLost, Apart
    PROVE  Spec => []RoutedByFirstComponent
<1>1. ASSUME Inv, RowsInv, NEW name \in Names, parse_name(name).ok, NEW r \in Proper,
             NEW match, match = match_exhaustive(trapdoor_table, name_to_ciphertext(public_key, name, r).val)
      PROVE  (match.exact_match # 0 \/ match.longest_prefix.row # 0) <=>
                \/ /\ Registration(prefix_registration_uri) \notin Range(downstream)
                   /\ Trapdoors(name)[1] = Trapdoors(<<"">> \o prefix)[1]
                \/ \E key \in DOMAIN cs : key[1] = Trapdoors(name)[1]
    <2> DEFINE nc == name_to_ciphertext(public_key, name, r).val
               first == Trapdoors(name)[1]
    <2>1. name \in RawName
        BY NamesAssumption DEF NamesAssumption
    <2>2. Len(nc) \in Nat \ {0}
        BY <1>1, <2>1, CiphertextsOfName, EmptySeq
    <2>3. trapdoor_table \in Seq(TrapdoorTableEntry)
        BY <1>1 DEF Inv, RouterInv
    <2>4. (match.exact_match # 0 \/ match.longest_prefix.row # 0) <=>
             \E i \in 1..Len(trapdoor_table) : Passes(trapdoor_table[i].trapdoors, nc, 1)
        BY <1>1, <2>2, <2>3, MatchFound
    <2>5. ASSUME NEW i \in 1..Len(trapdoor_table)
          PROVE  Passes(trapdoor_table[i].trapdoors, nc, 1) <=> trapdoor_table[i].trapdoors[1] = first
        <3>1. trapdoor_table[i] \in TrapdoorTableEntry
            BY <2>3, ElementOfSeq
        <3>2. trapdoor_table[i].trapdoors \in Seq(Scalar) \ {<< >>}
            BY <3>1 DEF TrapdoorTableEntry
        <3> QED
            BY <1>1, <2>1, <3>2, FirstTest
    <2>6. Registration(prefix_registration_uri) \in Range(downstream) <=> Unregistered
        <3>1. \A i \in DOMAIN downstream :
                 downstream[i].kind = "registration" <=> downstream[i] = Registration(prefix_registration_uri)
            BY <1>1, SoundKinds DEF Inv, NetInv, Registration
        <3> QED
            BY <3>1 DEF Unregistered, Range
    <2>7. PrefixKey[1] = Trapdoors(<<"">> \o prefix)[1]
        BY DEF PrefixKey
    <2> HIDE DEF nc, first
    <2>8. (\E i \in 1..Len(trapdoor_table) : trapdoor_table[i].trapdoors[1] = first) <=>
             \/ ~Unregistered /\ first = PrefixKey[1]
             \/ \E key \in DOMAIN cs : key[1] = first
        <3>1. \A key \in DOMAIN cs : \E i \in 1..Len(trapdoor_table) : trapdoor_table[i].trapdoors = key
            BY <1>1 DEF Inv, RouterInv
        <3> QED
            BY <1>1, <3>1 DEF RowsInv
    <2> QED
        BY <2>4, <2>5, <2>6, <2>7, <2>8 DEF first
<1>2. ASSUME Inv, RowsInv PROVE RoutedByFirstComponent
    BY <1>1, <1>2 DEF RoutedByFirstComponent
<1>3. ASSUME Inv, PlaceInv, RowsInv, [Next]_vars PROVE RowsInv'
    BY <1>3, StepRows
<1> QED
    BY <1>2, <1>3, InitRows, SpecInv, SpecPlaces, PTL DEF Spec

-----------------------------------------------------------------------------
(* A network that keeps the order.                                         *)

\* What is left of the queue is in order.
LEMMA OrderLeft ==
    ASSUME NEW S, NEW queue \in Seq(S), NEW i \in DOMAIN queue, Ordered(queue)
    PROVE  Ordered(RemoveAt(queue, i))
<1> DEFINE left == RemoveAt(queue, i)
<1>1. /\ \A j \in DOMAIN left : Before(i, j) \in DOMAIN queue /\ left[j] = queue[Before(i, j)]
      /\ \A j, k \in DOMAIN left : j < k <=> Before(i, j) < Before(i, k)
    BY QueueLeft
<1> HIDE DEF left
<1>2. Ordered(left)
    BY <1>1 DEF Ordered
<1> QED
    BY <1>2 DEF left

\* The data of an answer is before its update, and no other update has its
\* hash.
LEMMA OrderSent ==
    ASSUME NEW S, NEW queue \in Seq(S), Ordered(queue), NEW h, NEW data, NEW uri,
           h \notin Carried(queue, "data") \cup Carried(queue, "update"), Belong(h, data, uri)
    PROVE  Ordered(Sends(queue, h, data, uri))
<1> DEFINE d == Data(h, data)
           u == Update(uri)
           sent == Sends(queue, h, data, uri)
<1>1. d.kind = "data" /\ Hash(d) = h /\ u.kind = "update" /\ Hash(u) = h
    BY DEF Data, Update, Hash, Belong
<1>2. EndsWith(sent, queue, d, u)
    BY SentLast
<1> HIDE DEF sent, d, u
<1>3. PICK a \in Nat, b \in Nat :
        /\ DOMAIN sent = DOMAIN queue \cup {a, b} /\ a < b
        /\ \A j \in DOMAIN queue : sent[j] = queue[j] /\ j < a
        /\ sent[a] = d /\ sent[b] = u
    BY <1>2 DEF EndsWith
<1>4. \A k \in DOMAIN queue : /\ queue[k].kind = "data" => Hash(queue[k]) # h
                              /\ queue[k].kind = "update" => Hash(queue[k]) # h
    BY DEF Carried
<1>5. ASSUME NEW i \in DOMAIN sent, NEW j \in DOMAIN sent,
             sent[i].kind = "data", sent[j].kind = "update", Hash(sent[i]) = Hash(sent[j])
      PROVE  i < j
    <2>1. i # b /\ j # a
        BY <1>1, <1>3, <1>5
    <2>2. CASE i = a
        BY <1>1, <1>3, <1>4, <1>5, <2>1, <2>2
    <2>3. CASE j = b
        BY <1>1, <1>3, <1>4, <1>5, <2>1, <2>3
    <2>4. CASE i \in DOMAIN queue /\ j \in DOMAIN queue
        BY <1>3, <1>5, <2>4 DEF Ordered
    <2> QED
        BY <1>3, <2>1, <2>2, <2>3, <2>4
<1>6. Ordered(sent)
    BY <1>5 DEF Ordered
<1> QED
    BY <1>6 DEF sent

\* An update is delivered after its data, and takes its hash out of what is
\* pending when nothing else carries it.
LEMMA DeliverOrder ==
    ASSUME AtMostOnce, InOrder, Inv, PlaceInv, OrderInv, NEW i \in DOMAIN downstream, Deliver(i)
    PROVE  OrderInv'
<1> DEFINE m == downstream[i]
           h == Hash(m)
<1>1. /\ UNCHANGED forwarded /\ downstream' = RemoveAt(downstream, i)
      /\ \/ m.kind = "registration" /\ UNCHANGED <<pending, staged_data>>
         \/ /\ m.kind = "data" /\ UNCHANGED pending
            /\ staged_data' = MapInsert(staged_data, h, m.data)
         \/ /\ m.kind = "update" /\ pending' = MapRemove(pending, h)
            /\ \/ staged_data' = MapRemove(staged_data, h)
               \/ h \notin DOMAIN staged_data /\ UNCHANGED staged_data
    BY DeliverStep
<1>2. downstream \in Seq(Range(downstream)) /\ Singly(downstream) /\ Ordered(downstream)
    BY DEF Inv, NetInv, PlaceInv, OrderInv
<1>3. /\ m.kind # "registration" => Carried(downstream', m.kind) = Carried(downstream, m.kind) \ {h}
      /\ \A kind : kind # m.kind => Carried(downstream', kind) = Carried(downstream, kind)
    BY <1>1, <1>2, MessageTaken
<1>4. Ordered(downstream')
    BY <1>1, <1>2, OrderLeft
<1>5. h \in Carried(downstream, m.kind) /\ UNCHANGED Waiting
    BY <1>1 DEF Carried, Waiting
<1>6. Waiting \cup Returning \cup Updating \cup DOMAIN staged_data \subseteq DOMAIN pending
    BY DEF OrderInv
<1>7. i = 1 /\ \A k \in DOMAIN downstream : ~(k < i)
    <2>1. i = 1
        BY DEF Deliver, InOrder
    <2> QED
        BY <1>2, <2>1
<1>8. ASSUME Waiting' \cup Returning' \cup Updating' \cup DOMAIN staged_data' \subseteq DOMAIN pending'
      PROVE  OrderInv'
    BY <1>4, <1>8 DEF OrderInv
<1>9. CASE m.kind = "registration" /\ UNCHANGED <<pending, staged_data>>
    BY <1>3, <1>5, <1>6, <1>8, <1>9 DEF Returning, Updating
<1>10. CASE /\ m.kind = "data" /\ UNCHANGED pending
            /\ staged_data' = MapInsert(staged_data, h, m.data)
    <2>1. DOMAIN staged_data' = DOMAIN staged_data \cup {h}
        BY <1>10 DEF MapInsert
    <2>2. Returning' \subseteq Returning /\ h \in Returning /\ UNCHANGED Updating
        BY <1>3, <1>5, <1>10 DEF Returning, Updating
    <2> HIDE DEF h
    <2> QED
        BY <1>5, <1>6, <1>8, <1>10, <2>1, <2>2
<1>11. CASE /\ m.kind = "update" /\ pending' = MapRemove(pending, h)
            /\ \/ staged_data' = MapRemove(staged_data, h)
               \/ h \notin DOMAIN staged_data /\ UNCHANGED staged_data
    <2>1. /\ DOMAIN pending' = DOMAIN pending \ {h}
          /\ DOMAIN staged_data' = DOMAIN staged_data \ {h}
        BY <1>11 DEF MapRemove, Restrict
    <2>2. Updating' = Updating \ {h} /\ h \in Updating /\ UNCHANGED Returning
        BY <1>3, <1>5, <1>11 DEF Returning, Updating
    <2>3. h \notin Returning
        <3>1. \A k \in DOMAIN downstream : ~(downstream[k].kind = "data" /\ Hash(downstream[k]) = h)
            BY <1>2, <1>7, <1>11 DEF Ordered
        <3> QED
            BY <3>1 DEF Returning, Carried
    <2>4. h \notin Waiting
        <3>1. Separate(Waiting, Returning, Updating, DOMAIN staged_data, refused)
            BY DEF PlaceInv
        <3> QED
            BY <2>2, <3>1 DEF Separate
    <2> HIDE DEF h
    <2> QED
        BY <1>5, <1>6, <1>8, <2>1, <2>2, <2>3, <2>4
<1> QED
    BY <1>1, <1>9, <1>10, <1>11

\* Every step keeps the order, and pending what is outstanding.
LEMMA StepOrder ==
    ASSUME AtMostOnce, InOrder, Inv, PlaceInv, OrderInv, [Next]_vars
    PROVE  OrderInv'
<1>1. ASSUME UNCHANGED <<pending, staged_data, forwarded, downstream>> PROVE OrderInv'
    BY <1>1 DEF OrderInv, Waiting, Returning, Updating
<1>2. CASE UNCHANGED vars
    BY <1>1, <1>2 DEF vars, router_vars, net_vars
<1>3. ASSUME NEW name \in Names, Register(name) PROVE OrderInv'
    BY <1>1, <1>3 DEF Register, router_vars
<1>4. ASSUME NEW name \in Names, Request(name) PROVE OrderInv'
    BY <1>1, <1>4 DEF Request, router_vars
<1>5. ASSUME NEW uri \in interests, RouterOnInterest(uri) PROVE OrderInv'
    <2> DEFINE h == Sha256(uri)
    <2>1. /\ UNCHANGED <<downstream, staged_data>>
          /\ \/ DOMAIN pending \subseteq DOMAIN pending' /\ forwarded' = forwarded
             \/ /\ DOMAIN pending' = DOMAIN pending \cup {h}
                /\ forwarded' = forwarded \cup {[uri |-> uri, hash |-> h]}
        BY <1>5, InterestStep
    <2>2. /\ UNCHANGED <<Returning, Updating>> /\ DOMAIN pending \subseteq DOMAIN pending'
          /\ Waiting' = Waiting \/ (Waiting' = Waiting \cup {h} /\ h \in DOMAIN pending')
        BY <2>1 DEF Returning, Updating, Waiting
    <2> HIDE DEF h
    <2> QED
        BY <2>1, <2>2 DEF OrderInv
<1>6. ASSUME NEW m \in forwarded, ProducerOnInterest(m) PROVE OrderInv'
    <2> DEFINE h == m.hash
    <2>1. /\ UNCHANGED router_vars /\ h \in Waiting /\ Waiting' = Waiting \ {h}
          /\ \/ UNCHANGED downstream
             \/ \E reply \in producer_on_interest(m.uri, h) :
                   /\ downstream' = Sends(downstream, h, reply.data, reply.update)
                   /\ Belong(h, reply.data, reply.update)
        BY <1>6, AnswerStep
    <2>2. UNCHANGED <<pending, staged_data>>
        BY <2>1 DEF router_vars
    <2> HIDE DEF h
    <2>3. /\ Ordered(downstream)
          /\ Waiting \cup Returning \cup Updating \cup DOMAIN staged_data \subseteq DOMAIN pending
        BY DEF OrderInv
    <2>4. CASE UNCHANGED downstream
        <3>1. UNCHANGED <<Returning, Updating>>
            BY <2>4 DEF Returning, Updating
        <3> QED
            BY <2>1, <2>2, <2>3, <2>4, <3>1 DEF OrderInv
    <2>5. ASSUME NEW reply, Belong(h, reply.data, reply.update),
                 downstream' = Sends(downstream, h, reply.data, reply.update)
          PROVE  OrderInv'
        <3>1. h \notin Carried(downstream, "data") \cup Carried(downstream, "update")
            <4>1. Separate(Waiting, Returning, Updating, DOMAIN staged_data, refused)
                BY DEF PlaceInv
            <4> QED
                BY <2>1, <4>1 DEF Separate, Returning, Updating
        <3>2. downstream \in Seq(Range(downstream)) /\ Singly(downstream)
            BY DEF Inv, NetInv, PlaceInv
        <3>3. Ordered(downstream')
            BY <2>3, <2>5, <3>1, <3>2, OrderSent
        <3>4. /\ Carried(downstream', "data") = Carried(downstream, "data") \cup {h}
              /\ Carried(downstream', "update") = Carried(downstream, "update") \cup {h}
            BY <2>5, <3>1, <3>2, MessagesSent
        <3>5. Returning' = Returning \cup {h} /\ Updating' = Updating \cup {h}
            BY <3>4 DEF Returning, Updating
        <3> QED
            BY <2>1, <2>2, <2>3, <3>3, <3>5 DEF OrderInv
    <2> QED
        BY <2>1, <2>4, <2>5
<1>7. CASE Delivery
    BY <1>7, DeliverOrder DEF Delivery
<1>8. CASE Lose
    <2>1. /\ UNCHANGED router_vars /\ forwarded' \subseteq forwarded
          /\ downstream' = downstream \/ \E i \in DOMAIN downstream : downstream' = RemoveAt(downstream, i)
        BY <1>8, LoseStep
    <2>2. downstream \in Seq(Range(downstream)) /\ Singly(downstream) /\ Ordered(downstream)
        BY DEF Inv, NetInv, PlaceInv, OrderInv
    <2>3. Ordered(downstream') /\ \A kind : Carried(downstream', kind) \subseteq Carried(downstream, kind)
        BY <2>1, <2>2, OrderLeft, MessageLost
    <2>4. /\ Waiting' \subseteq Waiting /\ Returning' \subseteq Returning /\ Updating' \subseteq Updating
          /\ UNCHANGED <<pending, staged_data>>
        BY <2>1, <2>3 DEF Waiting, Returning, Updating, router_vars
    <2> QED
        BY <2>3, <2>4 DEF OrderInv
<1> QED
    BY <1>2, <1>3, <1>4, <1>5, <1>6, <1>7, <1>8 DEF Next, RouterReads, ProducerReads

\* At first nothing is outstanding.
LEMMA InitOrder ==
    ASSUME Init
    PROVE  OrderInv
<1>1. /\ DOMAIN pending = {} /\ DOMAIN staged_data = {} /\ forwarded = {}
      /\ downstream = <<Registration(prefix_registration_uri)>>
    BY DEF Init, RouterInit, EmptyMap
<1>2. DOMAIN downstream = {1} /\ downstream[1].kind = "registration"
    BY <1>1 DEF Registration
<1>3. Returning = {} /\ Updating = {} /\ Waiting = {}
    BY <1>1, <1>2 DEF Returning, Updating, Waiting, Carried
<1> QED
    BY <1>1, <1>2, <1>3 DEF OrderInv, Ordered

\* So it is in every reachable state.
LEMMA SpecOrder ==
    ASSUME AtMostOnce, InOrder, Apart
    PROVE  Spec => []OrderInv
<1>1. ASSUME Inv, PlaceInv, OrderInv, [Next]_vars PROVE OrderInv'
    BY <1>1, StepOrder
<1> QED
    BY <1>1, InitOrder, SpecInv, SpecPlaces, PTL DEF Spec

\* The hashes in flight, by place and as the properties list them.
LEMMA InFlightIs == InFlight("data") = Returning /\ InFlight("update") = Updating
<1>1. ASSUME NEW kind \in {"data", "update"}
      PROVE  {IF kind = "data" THEN m.hash ELSE decode_trapdoor_update(m.uri).val.hash :
                 m \in {x \in Range(downstream) : x.kind = kind}} = Carried(downstream, kind)
    <2>1. \A m : m.kind = kind =>
             Hash(m) = IF kind = "data" THEN m.hash ELSE decode_trapdoor_update(m.uri).val.hash
        BY <1>1 DEF Hash
    <2> QED
        BY <2>1 DEF Carried, Range
<1>2. "data" \in {"data", "update"} /\ "update" \in {"data", "update"}
    OBVIOUS
<1> QED
    BY <1>1, <1>2 DEF InFlight, Returning, Updating

\* While the network keeps the order of the producer's messages and copies
\* none, the pending entry of an interest outlives everything that is still
\* to come of it, whatever gets lost.
THEOREM OutstandingStaysPending ==
    ASSUME AtMostOnce, InOrder, Apart
    PROVE  Spec => []OutstandingIsPending
<1>1. ASSUME OrderInv PROVE OutstandingIsPending
    BY <1>1, InFlightIs DEF OrderInv, OutstandingIsPending, Waiting
<1> QED
    BY <1>1, SpecOrder, PTL

-----------------------------------------------------------------------------
(* A network that loses nothing.                                           *)

\* The URIs that the router has dropped, by their hashes.
Dropped == {Sha256(uri) : uri \in Foreign \ interests}

\* What is pending waits for the producer or for an update; or it waits for
\* ever, refused or dropped.
PendingInv == DOMAIN pending = Waiting \cup Updating \cup refused \cup Dropped

\* The interests of the consumers decode, foreign URIs do not.
LEMMA OnlyForeignDropped ==
    ASSUME Inv, NoForeignInterests, NEW uri \in Sent
    PROVE  decode_ciphertext_name(uri).ok <=> uri \notin Foreign
<1>1. ASSUME NEW r \in DOMAIN asked, uri = create_interest(asked[r].name, r)
      PROVE  decode_ciphertext_name(uri).ok
    <2>1. asked[r].name \in RawName /\ parse_name(asked[r].name).ok
        BY NamesAssumption DEF NamesAssumption, Inv, AskedInv, Asks
    <2>2. decode_ciphertext_name(uri) = Ok(name_to_ciphertext(public_key, asked[r].name, r).val)
        BY <1>1, <2>1, InterestOfName
    <2> QED
        BY <2>2 DEF Ok
<1> QED
    BY <1>1 DEF NoForeignInterests, Sent

\* The hash of an update is that of an interest that decodes.
LEMMA UpdatesOwn ==
    ASSUME Inv, NoForeignInterests, NEW h \in Updating
    PROVE  h \notin Dropped
<1>1. PICK i \in DOMAIN downstream : downstream[i].kind = "update" /\ h = Hash(downstream[i])
    BY DEF Updating, Carried
<1>2. SoundUpdate(Sent, downstream[i].uri)
    BY <1>1, SoundKinds DEF Inv, NetInv
<1>3. h = decode_trapdoor_update(downstream[i].uri).val.hash
    BY <1>1 DEF Hash
<1>4. PICK uri : h = Sha256(uri) /\ decode_ciphertext_name(uri).ok
    BY <1>2, <1>3 DEF SoundUpdate, Matches
<1> QED
    BY <1>4 DEF Dropped, Sha256, NoForeignInterests

\* What the router does to an interest shows in what is pending.
LEMMA InterestPending ==
    ASSUME AtMostOnce, NoForeignInterests, Inv, PlaceInv, PendingInv,
           NEW uri \in interests, RouterOnInterest(uri)
    PROVE  PendingInv'
<1> DEFINE h == Sha256(uri)
<1>1. /\ interests' = interests \ {uri} /\ h \notin Used /\ UNCHANGED <<downstream, refused>>
      /\ \/ /\ ~decode_ciphertext_name(uri).ok
            /\ DOMAIN pending' = DOMAIN pending \cup {h} /\ forwarded' = forwarded
         \/ /\ decode_ciphertext_name(uri).ok
            /\ DOMAIN pending' = DOMAIN pending /\ forwarded' = forwarded
         \/ /\ decode_ciphertext_name(uri).ok
            /\ DOMAIN pending' = DOMAIN pending \cup {h}
            /\ forwarded' = forwarded \cup {[uri |-> uri, hash |-> h]}
    BY InterestStep
<1>2. decode_ciphertext_name(uri).ok <=> uri \notin Foreign
    BY OnlyForeignDropped DEF Inv, NetInv
<1>3. UNCHANGED Updating
    BY <1>1 DEF Updating
<1>4. CASE /\ ~decode_ciphertext_name(uri).ok
           /\ DOMAIN pending' = DOMAIN pending \cup {h} /\ forwarded' = forwarded
    <2>1. Dropped' = Dropped \cup {h} /\ UNCHANGED Waiting
        BY <1>1, <1>2, <1>4 DEF Dropped, Waiting
    <2> HIDE DEF h
    <2> QED
        BY <1>1, <1>3, <1>4, <2>1 DEF PendingInv
<1>5. ASSUME decode_ciphertext_name(uri).ok PROVE UNCHANGED Dropped
    BY <1>1, <1>2, <1>5 DEF Dropped
<1>6. CASE /\ decode_ciphertext_name(uri).ok
           /\ DOMAIN pending' = DOMAIN pending /\ forwarded' = forwarded
    BY <1>1, <1>3, <1>5, <1>6 DEF PendingInv, Waiting
<1>7. CASE /\ decode_ciphertext_name(uri).ok
           /\ DOMAIN pending' = DOMAIN pending \cup {h}
           /\ forwarded' = forwarded \cup {[uri |-> uri, hash |-> h]}
    <2> HIDE DEF h
    <2>1. Waiting' = Waiting \cup {h}
        <3> DEFINE sent == [uri |-> uri, hash |-> h]
        <3>1. sent.hash = h /\ forwarded' = forwarded \cup {sent}
            BY <1>7
        <3> HIDE DEF sent
        <3> QED
            BY <3>1 DEF Waiting
    <2> QED
        BY <1>1, <1>3, <1>5, <1>7, <2>1 DEF PendingInv
<1> QED
    BY <1>1, <1>4, <1>6, <1>7

\* So does what the producer does to it.
LEMMA AnswerPending ==
    ASSUME AtMostOnce, Inv, PlaceInv, PendingInv, NEW m \in forwarded, ProducerOnInterest(m)
    PROVE  PendingInv'
<1> DEFINE h == m.hash
<1>1. /\ UNCHANGED <<router_vars, interests>> /\ h \in Waiting /\ Waiting' = Waiting \ {h}
      /\ \/ refused' = refused \cup {h} /\ UNCHANGED downstream
         \/ /\ UNCHANGED refused
            /\ \E reply \in producer_on_interest(m.uri, h) :
                  /\ downstream' = Sends(downstream, h, reply.data, reply.update)
                  /\ Belong(h, reply.data, reply.update)
    BY AnswerStep
<1>2. UNCHANGED pending /\ Dropped' = Dropped
    BY <1>1 DEF router_vars, Dropped
<1> HIDE DEF h
<1>3. CASE refused' = refused \cup {h} /\ UNCHANGED downstream
    <2>1. UNCHANGED Updating
        BY <1>3 DEF Updating
    <2> QED
        BY <1>1, <1>2, <1>3, <2>1 DEF PendingInv
<1>4. ASSUME UNCHANGED refused, NEW reply, Belong(h, reply.data, reply.update),
             downstream' = Sends(downstream, h, reply.data, reply.update)
      PROVE  PendingInv'
    <2>1. h \notin Carried(downstream, "data") \cup Carried(downstream, "update")
        <3>1. Separate(Waiting, Returning, Updating, DOMAIN staged_data, refused)
            BY DEF PlaceInv
        <3> QED
            BY <1>1, <3>1 DEF Separate, Returning, Updating
    <2>2. downstream \in Seq(Range(downstream)) /\ Singly(downstream)
        BY DEF Inv, NetInv, PlaceInv
    <2>3. Carried(downstream', "update") = Carried(downstream, "update") \cup {h}
        BY <1>4, <2>1, <2>2, MessagesSent
    <2>4. Updating' = Updating \cup {h}
        BY <2>3 DEF Updating
    <2> QED
        BY <1>1, <1>2, <1>4, <2>4 DEF PendingInv
<1> QED
    BY <1>1, <1>3, <1>4

\* An update settles the interest with its hash.
LEMMA DeliverPending ==
    ASSUME AtMostOnce, NoForeignInterests, Inv, PlaceInv, PendingInv,
           NEW i \in DOMAIN downstream, Deliver(i)
    PROVE  PendingInv'
<1> DEFINE m == downstream[i]
           h == Hash(m)
<1>1. /\ UNCHANGED <<interests, forwarded, refused>> /\ downstream' = RemoveAt(downstream, i)
      /\ \/ m.kind # "update" /\ UNCHANGED pending
         \/ m.kind = "update" /\ pending' = MapRemove(pending, h)
    BY DeliverStep
<1>2. downstream \in Seq(Range(downstream)) /\ Singly(downstream)
    BY DEF Inv, NetInv, PlaceInv
<1>3. IF m.kind = "update" THEN Updating' = Updating \ {h} ELSE Updating' = Updating
    <2>1. m.kind = "update" => Carried(downstream', m.kind) = Carried(downstream, m.kind) \ {h}
        BY <1>1, <1>2, MessageTaken
    <2>2. \A kind : kind # m.kind => Carried(downstream', kind) = Carried(downstream, kind)
        BY <1>1, <1>2, MessageTaken
    <2> QED
        BY <2>1, <2>2 DEF Updating
<1>4. UNCHANGED <<Waiting, Dropped>>
    BY <1>1 DEF Waiting, Dropped
<1>5. CASE m.kind # "update" /\ UNCHANGED pending
    BY <1>1, <1>3, <1>4, <1>5 DEF PendingInv
<1>6. CASE m.kind = "update" /\ pending' = MapRemove(pending, h)
    <2>1. DOMAIN pending' = DOMAIN pending \ {h}
        BY <1>6 DEF MapRemove, Restrict
    <2>2. h \in Updating
        BY <1>6 DEF Updating, Carried
    <2>3. Separate(Waiting, Returning, Updating, DOMAIN staged_data, refused)
        BY DEF PlaceInv
    <2> HIDE DEF h
    <2>4. h \notin Waiting \cup refused \cup Dropped
        BY <2>2, <2>3, UpdatesOwn DEF Separate
    <2> QED
        BY <1>1, <1>3, <1>4, <1>6, <2>1, <2>4 DEF PendingInv
<1> QED
    BY <1>1, <1>5, <1>6

\* Every step accounts for what is pending.
LEMMA StepPending ==
    ASSUME AtMostOnce, NoneLost, NoForeignInterests, Inv, PlaceInv, PendingInv, [Next]_vars
    PROVE  PendingInv'
<1>1. ASSUME UNCHANGED <<pending, forwarded, downstream, refused, Dropped>> PROVE PendingInv'
    BY <1>1 DEF PendingInv, Waiting, Updating
<1>2. CASE UNCHANGED vars
    BY <1>1, <1>2 DEF vars, router_vars, net_vars, Dropped
<1>3. ASSUME NEW name \in Names, Register(name) PROVE PendingInv'
    BY <1>1, <1>3 DEF Register, router_vars, Dropped
<1>4. ASSUME NEW name \in Names, Request(name) PROVE PendingInv'
    <2>1. /\ UNCHANGED <<router_vars, forwarded, downstream, refused>>
          /\ \E uri : uri \notin Sent /\ interests' = interests \cup {uri}
        BY <1>4, RequestStep, ForeignApart
    <2>2. UNCHANGED Dropped /\ UNCHANGED pending
        BY <2>1 DEF Sent, Dropped, router_vars
    <2> QED
        BY <1>1, <2>1, <2>2
<1>5. CASE RouterReads
    BY <1>5, InterestPending DEF RouterReads
<1>6. CASE ProducerReads
    BY <1>6, AnswerPending DEF ProducerReads
<1>7. CASE Delivery
    BY <1>7, DeliverPending DEF Delivery
<1>8. CASE Lose
    BY <1>8, NoLosses
<1> QED
    BY <1>2, <1>3, <1>4, <1>5, <1>6, <1>7, <1>8 DEF Next

\* When no message is lost or copied, an interest is pending exactly while it
\* waits for the producer or for the update, and for ever once it is dropped
\* or refused, in whatever order the producer's messages arrive.
THEOREM NetworkPending ==
    ASSUME AtMostOnce, NoneLost, NoForeignInterests
    PROVE  Spec => []PendingAccounted
<1>1. ASSUME Init PROVE PendingInv
    <2>1. /\ DOMAIN pending = {} /\ forwarded = {} /\ refused = {} /\ interests = Foreign
          /\ downstream = <<Registration(prefix_registration_uri)>>
        BY <1>1 DEF Init, RouterInit, EmptyMap
    <2>2. DOMAIN downstream = {1} /\ downstream[1].kind = "registration"
        BY <2>1 DEF Registration
    <2>3. Updating = {} /\ Waiting = {} /\ Dropped = {}
        BY <2>1, <2>2 DEF Updating, Waiting, Dropped, Carried
    <2> QED
        BY <2>1, <2>3 DEF PendingInv
<1>2. ASSUME Inv, PlaceInv, PendingInv, [Next]_vars PROVE PendingInv'
    BY <1>2, StepPending
<1>3. ASSUME PendingInv PROVE PendingAccounted
    BY <1>3, InFlightIs DEF PendingInv, PendingAccounted, Waiting, Dropped
<1> QED
    BY <1>1, <1>2, <1>3, ForeignApart, SpecInv, SpecPlaces, PTL DEF Spec

\* In a network that keeps the order, too, the updates on their way are those
\* of the data on its way and of the staged data.
StagedInv == Updating = Returning \cup DOMAIN staged_data

\* Data is staged when it arrives, and committed by its update.
LEMMA DeliverStaged ==
    ASSUME AtMostOnce, InOrder, Inv, PlaceInv, OrderInv, StagedInv,
           NEW i \in DOMAIN downstream, Deliver(i)
    PROVE  StagedInv'
<1> DEFINE m == downstream[i]
           h == Hash(m)
<1>1. /\ downstream' = RemoveAt(downstream, i)
      /\ \/ m.kind = "registration" /\ UNCHANGED staged_data
         \/ m.kind = "data" /\ staged_data' = MapInsert(staged_data, h, m.data)
         \/ /\ m.kind = "update"
            /\ \/ staged_data' = MapRemove(staged_data, h)
               \/ h \notin DOMAIN staged_data /\ UNCHANGED staged_data
    BY DeliverStep
<1>2. downstream \in Seq(Range(downstream)) /\ Singly(downstream) /\ Ordered(downstream)
    BY DEF Inv, NetInv, PlaceInv, OrderInv
<1>3. /\ m.kind # "registration" => Carried(downstream', m.kind) = Carried(downstream, m.kind) \ {h}
      /\ \A kind : kind # m.kind => Carried(downstream', kind) = Carried(downstream, kind)
    BY <1>1, <1>2, MessageTaken
<1>4. CASE m.kind = "registration" /\ UNCHANGED staged_data
    BY <1>3, <1>4 DEF StagedInv, Returning, Updating
<1>5. CASE m.kind = "data" /\ staged_data' = MapInsert(staged_data, h, m.data)
    <2>1. DOMAIN staged_data' = DOMAIN staged_data \cup {h}
        BY <1>5 DEF MapInsert
    <2>2. Returning' = Returning \ {h} /\ h \in Returning /\ UNCHANGED Updating
        <3>1. h \in Returning
            BY <1>5 DEF Returning, Carried
        <3> QED
            BY <1>3, <1>5, <3>1 DEF Returning, Updating
    <2> HIDE DEF h
    <2> QED
        BY <2>1, <2>2 DEF StagedInv
<1>6. CASE /\ m.kind = "update"
           /\ \/ staged_data' = MapRemove(staged_data, h)
              \/ h \notin DOMAIN staged_data /\ UNCHANGED staged_data
    <2>1. DOMAIN staged_data' = DOMAIN staged_data \ {h}
        BY <1>6 DEF MapRemove, Restrict
    <2>2. Updating' = Updating \ {h} /\ UNCHANGED Returning
        BY <1>3, <1>6 DEF Returning, Updating
    <2>3. h \notin Returning
        <3>1. i = 1 /\ \A k \in DOMAIN downstream : ~(k < i)
            <4>1. i = 1
                BY DEF Deliver, InOrder
            <4> QED
                BY <1>2, <4>1
        <3>2. \A k \in DOMAIN downstream : ~(downstream[k].kind = "data" /\ Hash(downstream[k]) = h)
            BY <1>2, <1>6, <3>1 DEF Ordered
        <3> QED
            BY <3>2 DEF Returning, Carried
    <2> HIDE DEF h
    <2> QED
        BY <2>1, <2>2, <2>3 DEF StagedInv
<1> QED
    BY <1>1, <1>4, <1>5, <1>6

\* Every step accounts for what is staged.
LEMMA StepStaged ==
    ASSUME AtMostOnce, InOrder, NoneLost, Inv, PlaceInv, OrderInv, StagedInv, [Next]_vars
    PROVE  StagedInv'
<1>1. ASSUME UNCHANGED <<staged_data, downstream>> PROVE StagedInv'
    BY <1>1 DEF StagedInv, Returning, Updating
<1>2. CASE UNCHANGED vars
    BY <1>1, <1>2 DEF vars, router_vars, net_vars
<1>3. ASSUME NEW name \in Names, Register(name) PROVE StagedInv'
    BY <1>1, <1>3 DEF Register, router_vars
<1>4. ASSUME NEW name \in Names, Request(name) PROVE StagedInv'
    BY <1>1, <1>4 DEF Request, router_vars
<1>5. CASE RouterReads
    BY <1>1, <1>5, InterestStep DEF RouterReads
<1>6. ASSUME NEW m \in forwarded, ProducerOnInterest(m) PROVE StagedInv'
    <2> DEFINE h == m.hash
    <2>1. /\ UNCHANGED router_vars /\ h \in Waiting
          /\ \/ UNCHANGED downstream
             \/ \E reply \in producer_on_interest(m.uri, h) :
                   /\ downstream' = Sends(downstream, h, reply.data, reply.update)
                   /\ Belong(h, reply.data, reply.update)
        BY <1>6, AnswerStep
    <2>2. UNCHANGED staged_data
        BY <2>1 DEF router_vars
    <2> HIDE DEF h
    <2>3. ASSUME NEW reply, Belong(h, reply.data, reply.update),
                 downstream' = Sends(downstream, h, reply.data, reply.update)
          PROVE  StagedInv'
        <3>1. h \notin Carried(downstream, "data") \cup Carried(downstream, "update")
            <4>1. Separate(Waiting, Returning, Updating, DOMAIN staged_data, refused)
                BY DEF PlaceInv
            <4> QED
                BY <2>1, <4>1 DEF Separate, Returning, Updating
        <3>2. downstream \in Seq(Range(downstream)) /\ Singly(downstream)
            BY DEF Inv, NetInv, PlaceInv
        <3>3. /\ Carried(downstream', "data") = Carried(downstream, "data") \cup {h}
              /\ Carried(downstream', "update") = Carried(downstream, "update") \cup {h}
            BY <2>3, <3>1, <3>2, MessagesSent
        <3> QED
            BY <2>2, <3>3 DEF StagedInv, Returning, Updating
    <2> QED
        BY <1>1, <2>1, <2>2, <2>3
<1>7. CASE Delivery
    BY <1>7, DeliverStaged DEF Delivery
<1>8. CASE Lose
    BY <1>8, NoLosses
<1> QED
    BY <1>2, <1>3, <1>4, <1>5, <1>6, <1>7, <1>8 DEF Next, ProducerReads

\* When the network neither loses, copies nor reorders, a packet is staged
\* from the moment it arrives to the moment its update does, and no longer.
THEOREM NetworkStaged ==
    ASSUME AtMostOnce, InOrder, NoneLost, Apart
    PROVE  Spec => []StagedAccounted
<1>1. ASSUME Init PROVE StagedInv
    <2>1. DOMAIN staged_data = {} /\ downstream = <<Registration(prefix_registration_uri)>>
        BY <1>1 DEF Init, RouterInit, EmptyMap
    <2>2. DOMAIN downstream = {1} /\ downstream[1].kind = "registration"
        BY <2>1 DEF Registration
    <2>3. Updating = {} /\ Returning = {}
        BY <2>1, <2>2 DEF Updating, Returning, Carried
    <2> QED
        BY <2>1, <2>3 DEF StagedInv
<1>2. ASSUME Inv, PlaceInv, OrderInv, StagedInv, [Next]_vars PROVE StagedInv'
    BY <1>2, StepStaged
<1>3. ASSUME PlaceInv, StagedInv PROVE StagedAccounted
    BY <1>3, InFlightIs DEF StagedInv, StagedAccounted, PlaceInv, Separate
<1> QED
    BY <1>1, <1>2, <1>3, SpecInv, SpecPlaces, SpecOrder, PTL DEF Spec

-----------------------------------------------------------------------------
(* Caches that never go back.                                              *)

\* The first row with its key is the new one, or was the first before.
LEMMA FirstRows ==
    ASSUME NEW table \in Seq(TrapdoorTableEntry),
           NEW key \in Seq(Scalar) \ {<< >>}, NEW name \in RawName \cup {NoName},
           NEW table2 \in insert(table, key, name),
           NEW i \in 1..Len(table2), FirstOfKey(table2, i)
    PROVE  \/ table2[i] = Entry(key, name)
           \/ \E k \in 1..Len(table) : table2[i] = table[k] /\ FirstOfKey(table, k)
<1>1. PICK p \in InsertPositions(table, key) :
        \A j \in 1..(Len(table) + 1) :
           table2[j] = IF j < p THEN table[j] ELSE IF j = p THEN Entry(key, name) ELSE table[j-1]
    BY InsertRows
<1>2. Len(table2) = Len(table) + 1 /\ Len(table) \in Nat
    BY InsertRows
<1>3. p \in 1..(Len(table) + 1)
    BY <1>2 DEF InsertPositions
<1> DEFINE k == IF i < p THEN i ELSE i - 1
<1>4. CASE i = p
    BY <1>1, <1>2, <1>4
<1>5. CASE i # p
    <2>1. k \in 1..Len(table) /\ table2[i] = table[k]
        BY <1>1, <1>2, <1>3, <1>5
    <2>2. ASSUME NEW j \in 1..Len(table), table[j].trapdoors = table[k].trapdoors
          PROVE  k <= j
        <3> DEFINE l == IF j < p THEN j ELSE j + 1
        <3>1. l \in 1..Len(table2) /\ table2[l] = table[j]
            BY <1>1, <1>2, <1>3
        <3>2. i <= l
            BY <2>1, <2>2, <3>1 DEF FirstOfKey
        <3> QED
            BY <1>2, <1>3, <1>5, <3>2
    <2> QED
        BY <2>1, <2>2 DEF FirstOfKey
<1> QED
    BY <1>4, <1>5

\* What the producer answers with is what it has in the first row with the
\* key.
LEMMA FirstServed ==
    ASSUME ProducerInv, NEW uri, NEW hash, NEW reply \in producer_on_interest(uri, hash)
    PROVE  \E row \in 1..Len(producer_table) :
              /\ FirstOfKey(producer_table, row)
              /\ producer_table[row].trapdoors = Trapdoors(reply.data.name)
              /\ reply.data.content = content[producer_table[row].cleartext_name]
<1> DEFINE nc == decode_ciphertext_name(uri)
           row == match_exhaustive(producer_table, nc.val).exact_match
<1>1. PICK name \in DOMAIN content :
        /\ Finds(nc.val, name)
        /\ reply = [data   |-> [name |-> name, content |-> content[name]],
                    update |-> encode_trapdoor_update(name_to_trapdoor(private_key, name).val, hash)]
    BY DEF producer_on_interest
<1>2. row # 0 /\ producer_table[row].cleartext_name = name
    BY <1>1 DEF Finds, get_cleartext_name
<1>3. /\ row \in 1..Len(producer_table) /\ IsExact(producer_table[row].trapdoors, nc.val)
      /\ \A i \in 1..Len(producer_table) : IsExact(producer_table[i].trapdoors, nc.val) => row <= i
    <2>1. Len(producer_table) \in Nat
        BY DEF ProducerInv
    <2> QED
        BY <1>2, <2>1, ExactMatchIsFirst
<1>4. reply.data.name = name /\ reply.data.content = content[name]
    BY <1>1
<1> HIDE DEF row, nc
<1>5. FirstOfKey(producer_table, row) /\ producer_table[row].trapdoors = Trapdoors(name)
    BY <1>2, <1>3 DEF FirstOfKey, ProducerInv
<1> QED
    BY <1>2, <1>3, <1>4, <1>5

\* So a packet that is not newer than what the producer has is not newer than
\* the answer for the same key.
LEMMA ServedIsNewest ==
    ASSUME ProducerInv, NEW uri, NEW hash, NEW reply \in producer_on_interest(uri, hash)
    PROVE  /\ NotNewer(reply.data)
           /\ \A d : NotNewer(d) /\ Trapdoors(d.name) = Trapdoors(reply.data.name) =>
                        d.content <= reply.data.content
<1> DEFINE new == reply.data
<1>1. PICK row \in 1..Len(producer_table) :
        /\ FirstOfKey(producer_table, row)
        /\ producer_table[row].trapdoors = Trapdoors(new.name)
        /\ new.content = content[producer_table[row].cleartext_name]
    BY FirstServed
<1>2. new.content \in Nat
    BY Replies DEF Packet, DataPacket
<1> HIDE DEF new
<1>3. NotNewer(new)
    <2> SUFFICES ASSUME NEW i \in 1..Len(producer_table), FirstOfKey(producer_table, i),
                        producer_table[i].trapdoors = Trapdoors(new.name)
                 PROVE  new.content <= content[producer_table[i].cleartext_name]
        BY DEF NotNewer
    <2>1. i = row
        BY <1>1 DEF FirstOfKey
    <2> QED
        BY <1>1, <1>2, <2>1
<1>4. ASSUME NEW d, NotNewer(d), Trapdoors(d.name) = Trapdoors(new.name)
      PROVE  d.content <= new.content
    BY <1>1, <1>4 DEF NotNewer
<1> QED
    BY <1>3, <1>4 DEF new

\* A registration makes what the producer has newer.
LEMMA RegisteredIsNewest ==
    ASSUME ProducerInv, NEW name \in Names, Register(name),
           NEW d, Packet(registrations, d), NotNewer(d)
    PROVE  NotNewer(d)'
<1> DEFINE data == Len(registrations) + 1
           nt == name_to_trapdoor(private_key, name)
<1>1. name \in RawName /\ registrations \in Seq(Names) /\ producer_table \in Seq(TrapdoorTableEntry)
    BY NamesAssumption DEF NamesAssumption, ProducerInv
<1>2. \/ /\ nt.ok
         /\ producer_table' \in insert(producer_table, nt.val, name)
         /\ content' = content_insert(name, data)
      \/ UNCHANGED <<producer_table, content>>
    BY DEF Register, register_content
<1>3. d.content \in Nat /\ d.content <= Len(registrations) /\ Len(registrations) \in Nat
    BY <1>1 DEF Packet
<1>4. ASSUME nt.ok, producer_table' \in insert(producer_table, nt.val, name),
             content' = content_insert(name, data)
      PROVE  NotNewer(d)'
    <2>1. nt.val \in Seq(Scalar) \ {<< >>}
        BY <1>1, <1>4, ParseDecides, KeyOfName DEF Trapdoors
    <2> HIDE DEF nt
    <2> SUFFICES ASSUME NEW i \in 1..Len(producer_table'), FirstOfKey(producer_table', i),
                        producer_table'[i].trapdoors = Trapdoors(d.name)
                 PROVE  d.content <= content'[producer_table'[i].cleartext_name]
        BY DEF NotNewer
    <2>2. \/ producer_table'[i] = Entry(nt.val, name)
          \/ \E k \in 1..Len(producer_table) :
                producer_table'[i] = producer_table[k] /\ FirstOfKey(producer_table, k)
        BY <1>1, <1>4, <2>1, FirstRows
    <2>3. content'[name] = data /\ \A m \in DOMAIN content : m # name => content'[m] = content[m]
        BY <1>4 DEF content_insert, MapInsert
    <2>4. CASE producer_table'[i] = Entry(nt.val, name)
        BY <1>3, <2>3, <2>4 DEF Entry
    <2>5. ASSUME NEW k \in 1..Len(producer_table), producer_table'[i] = producer_table[k],
                 FirstOfKey(producer_table, k)
          PROVE  d.content <= content'[producer_table'[i].cleartext_name]
        <3> DEFINE m == producer_table[k].cleartext_name
        <3>1. m \in DOMAIN content /\ d.content <= content[m]
            BY <2>5 DEF NotNewer, ProducerInv
        <3> HIDE DEF m
        <3>2. d.content <= content'[m]
            BY <1>3, <2>3, <3>1
        <3> QED
            BY <2>5, <3>2 DEF m
    <2> QED
        BY <2>2, <2>4, <2>5
<1>5. ASSUME UNCHANGED <<producer_table, content>>
      PROVE  NotNewer(d)'
    BY <1>5 DEF NotNewer
<1> QED
    BY <1>2, <1>4, <1>5

\* The data with a hash is a packet that was registered.
LEMMA CarriesPackets ==
    ASSUME Inv, NEW h, NEW d \in Carries(downstream, staged_data, h)
    PROVE  Packet(registrations, d)
<1>1. CASE h \in DOMAIN staged_data /\ d = staged_data[h]
    BY <1>1 DEF Inv, RouterInv, Fits
<1>2. ASSUME NEW i \in DOMAIN downstream, downstream[i].kind = "data", d = downstream[i].data
      PROVE  Packet(registrations, d)
    BY <1>2, SoundKinds DEF Inv, NetInv, Fits
<1> QED
    BY <1>1, <1>2 DEF Carries

\* What is staged was on its way before.
Stages(queue, i, staged, staged2) ==
    \A k \in DOMAIN staged2 :
        \/ k \in DOMAIN staged /\ staged2[k] = staged[k]
        \/ queue[i].kind = "data" /\ queue[i].hash = k /\ queue[i].data = staged2[k]

\* When a message has left the queue, there is nothing new to commit, and
\* the order is the same.
LEMMA CarriedOn ==
    ASSUME NEW S, NEW queue \in Seq(S), NEW i \in DOMAIN queue,
           NEW left, left = RemoveAt(queue, i),
           NEW staged, NEW staged2, Stages(queue, i, staged, staged2)
    PROVE  /\ Committable(left, staged2) \subseteq Committable(queue, staged)
           /\ Later(queue, staged) => Later(left, staged2)
<1>1. /\ \A j \in DOMAIN left : Before(i, j) \in DOMAIN queue /\ left[j] = queue[Before(i, j)]
      /\ \A j, k \in DOMAIN left : j < k <=> Before(i, j) < Before(i, k)
    BY QueueLeft
<1>2. ASSUME NEW h PROVE Carries(left, staged2, h) \subseteq Carries(queue, staged, h)
    BY <1>1 DEF Carries, Stages
<1>3. Committable(left, staged2) \subseteq Committable(queue, staged)
    <2> SUFFICES ASSUME NEW j \in DOMAIN left, left[j].kind = "update",
                        NEW d \in Carries(left, staged2, Hash(left[j]))
                 PROVE  d \in Committable(queue, staged)
        BY DEF Committable
    <2>1. /\ Before(i, j) \in DOMAIN queue /\ queue[Before(i, j)].kind = "update"
          /\ d \in Carries(queue, staged, Hash(queue[Before(i, j)]))
        BY <1>1, <1>2
    <2> QED
        BY <2>1 DEF Committable
<1>4. ASSUME Later(queue, staged) PROVE Later(left, staged2)
    <2> SUFFICES ASSUME NEW j \in DOMAIN left, NEW k \in DOMAIN left,
                        left[j].kind = "update", left[k].kind = "update", j < k,
                        NEW d \in Carries(left, staged2, Hash(left[j])),
                        NEW e \in Carries(left, staged2, Hash(left[k])),
                        Trapdoors(d.name) = Trapdoors(e.name)
                 PROVE  d.content <= e.content
        BY DEF Later
    <2>1. /\ Before(i, j) \in DOMAIN queue /\ Before(i, k) \in DOMAIN queue
          /\ queue[Before(i, j)].kind = "update" /\ queue[Before(i, k)].kind = "update"
          /\ Before(i, j) < Before(i, k)
          /\ d \in Carries(queue, staged, Hash(queue[Before(i, j)]))
          /\ e \in Carries(queue, staged, Hash(queue[Before(i, k)]))
        BY <1>1, <1>2
    <2> QED
        BY <1>4, <2>1 DEF Later
<1> QED
    BY <1>3, <1>4

\* An answer at the end of the queue, which is newest, is committed last.
LEMMA CommittedLast ==
    ASSUME NEW S, NEW queue \in Seq(S), NEW staged, NEW h, NEW data, NEW uri, Belong(h, data, uri),
           h \notin Carried(queue, "data") \cup Carried(queue, "update"), h \notin DOMAIN staged,
           NEW sent, sent = Sends(queue, h, data, uri),
           Later(queue, staged),
           \A d \in Committable(queue, staged) :
              Trapdoors(d.name) = Trapdoors(data.name) => d.content <= data.content
    PROVE  /\ Committable(sent, staged) \subseteq Committable(queue, staged) \cup {data}
           /\ Later(sent, staged)
<1> DEFINE p == Data(h, data)
           u == Update(uri)
<1>1. /\ p.kind = "data" /\ p.hash = h /\ p.data = data
      /\ u.kind = "update" /\ Hash(u) = h
    BY DEF Data, Update, Hash, Belong
<1>2. EndsWith(sent, queue, p, u)
    BY SentLast
<1> HIDE DEF p, u
<1>3. PICK a \in Nat, b \in Nat :
        /\ DOMAIN sent = DOMAIN queue \cup {a, b} /\ a < b
        /\ \A j \in DOMAIN queue : sent[j] = queue[j] /\ j < a
        /\ sent[a] = p /\ sent[b] = u
    BY <1>2 DEF EndsWith
<1>4. \A k \in DOMAIN queue : /\ queue[k].kind = "data" => queue[k].hash # h
                              /\ queue[k].kind = "update" => Hash(queue[k]) # h
    BY DEF Carried, Hash
<1>5. ASSUME NEW i \in DOMAIN sent, sent[i].kind = "update"
      PROVE  \/ i = b /\ Hash(sent[i]) = h
             \/ i \in DOMAIN queue /\ sent[i] = queue[i] /\ Hash(sent[i]) # h
    BY <1>1, <1>3, <1>4, <1>5
<1>6. ASSUME NEW k, k # h PROVE Carries(sent, staged, k) \subseteq Carries(queue, staged, k)
    <2>1. \A i \in DOMAIN sent : sent[i].kind = "data" /\ sent[i].hash = k =>
             i \in DOMAIN queue /\ queue[i].kind = "data" /\ queue[i].hash = k
        BY <1>1, <1>3, <1>6
    <2>2. \A i \in DOMAIN queue : sent[i].data = queue[i].data
        BY <1>3
    <2> QED
        BY <2>1, <2>2 DEF Carries
<1>7. Carries(sent, staged, h) \subseteq {data}
    <2>1. \A i \in DOMAIN sent : sent[i].kind = "data" /\ sent[i].hash = h => i = a
        BY <1>1, <1>3, <1>4
    <2> QED
        BY <1>1, <1>3, <2>1 DEF Carries
<1>8. ASSUME NEW i \in DOMAIN queue, queue[i].kind = "update",
             NEW d \in Carries(sent, staged, Hash(queue[i]))
      PROVE  d \in Committable(queue, staged)
    BY <1>4, <1>6, <1>8 DEF Committable
<1>9. Committable(sent, staged) \subseteq Committable(queue, staged) \cup {data}
    <2> SUFFICES ASSUME NEW i \in DOMAIN sent, sent[i].kind = "update",
                        NEW d \in Carries(sent, staged, Hash(sent[i]))
                 PROVE  d \in Committable(queue, staged) \cup {data}
        BY DEF Committable
    <2> QED
        BY <1>5, <1>7, <1>8
<1>10. Later(sent, staged)
    <2> SUFFICES ASSUME NEW i \in DOMAIN sent, NEW j \in DOMAIN sent,
                        sent[i].kind = "update", sent[j].kind = "update", i < j,
                        NEW d \in Carries(sent, staged, Hash(sent[i])),
                        NEW e \in Carries(sent, staged, Hash(sent[j])),
                        Trapdoors(d.name) = Trapdoors(e.name)
                 PROVE  d.content <= e.content
        BY DEF Later
    <2>1. i \in DOMAIN queue /\ sent[i] = queue[i] /\ Hash(queue[i]) # h
        <3>1. i # b
            BY <1>3
        <3> QED
            BY <1>5, <3>1
    <2>2. CASE j = b
        <3>1. e = data
            BY <1>5, <1>7, <2>2, <1>1, <1>3
        <3>2. d \in Committable(queue, staged)
            BY <1>8, <2>1
        <3> QED
            BY <3>1, <3>2
    <2>3. CASE j \in DOMAIN queue /\ sent[j] = queue[j] /\ Hash(sent[j]) # h
        BY <1>6, <2>1, <2>3 DEF Later
    <2> QED
        BY <1>5, <2>2, <2>3
<1> QED
    BY <1>9, <1>10

\* A step that adds nothing to commit.
LEMMA AgesKept ==
    ASSUME AgeInv, UNCHANGED <<cs, producer_vars>>,
           Committable(downstream', staged_data') \subseteq Committable(downstream, staged_data),
           Later(downstream', staged_data')
    PROVE  AgeInv'
<1>1. \A d : NotNewer(d)' <=> NotNewer(d)
    BY DEF NotNewer, producer_vars
<1> QED
    BY <1>1 DEF AgeInv

\* An update replaces a packet by one that is no older.
Replaces(key, d) ==
    /\ cs' = MapInsert(cs, key, d) /\ key = Trapdoors(d.name)
    /\ key \in DOMAIN cs => cs[key].content <= d.content

\* What the first message of the queue does to the cache.
LEMMA DeliverAges ==
    ASSUME AtMostOnce, InOrder, Inv, PlaceInv, AgeInv, NEW i \in DOMAIN downstream, Deliver(i)
    PROVE  /\ AgeInv'
           /\ UNCHANGED cs \/ \E key, d : Replaces(key, d)
<1> DEFINE m == downstream[i]
           h == Hash(m)
<1>1. /\ UNCHANGED producer_vars /\ downstream' = RemoveAt(downstream, i)
      /\ \/ m.kind = "registration" /\ UNCHANGED <<cs, staged_data>>
         \/ m.kind = "data" /\ staged_data' = MapInsert(staged_data, h, m.data) /\ UNCHANGED cs
         \/ /\ m.kind = "update" /\ h \in DOMAIN staged_data
            /\ staged_data' = MapRemove(staged_data, h)
            /\ cs' = MapInsert(cs, Key(m), staged_data[h])
         \/ m.kind = "update" /\ UNCHANGED <<cs, staged_data>>
    BY DeliverStep
<1>2. downstream \in Seq(Range(downstream)) /\ Fitting(downstream, staged_data)
    BY DEF Inv, NetInv, PlaceInv
<1>3. Stages(downstream, i, staged_data, staged_data')
    <2>1. m.kind = "data" => h = m.hash
        BY DEF Hash
    <2> HIDE DEF h
    <2>2. CASE UNCHANGED staged_data
        BY <2>2 DEF Stages
    <2>3. CASE m.kind = "data" /\ staged_data' = MapInsert(staged_data, h, m.data)
        BY <2>1, <2>3 DEF Stages, MapInsert
    <2>4. CASE staged_data' = MapRemove(staged_data, h)
        BY <2>4 DEF Stages, MapRemove, Restrict
    <2> QED
        BY <1>1, <2>2, <2>3, <2>4
<1>4. /\ Committable(downstream', staged_data') \subseteq Committable(downstream, staged_data)
      /\ Later(downstream', staged_data')
    BY <1>1, <1>2, <1>3, CarriedOn DEF AgeInv
<1>5. CASE UNCHANGED cs
    BY <1>1, <1>4, <1>5, AgesKept
<1>6. CASE /\ m.kind = "update" /\ h \in DOMAIN staged_data
           /\ staged_data' = MapRemove(staged_data, h)
           /\ cs' = MapInsert(cs, Key(m), staged_data[h])
    <2> DEFINE d == staged_data[h]
               key == Key(m)
    <2>1. d \in Carries(downstream, staged_data, h) /\ d \in Committable(downstream, staged_data)
        <3>1. d \in Carries(downstream, staged_data, h)
            BY <1>6 DEF Carries
        <3> QED
            BY <1>6, <3>1 DEF Committable
    <2>2. key = Trapdoors(d.name)
        BY <1>2, <1>6 DEF Fitting
    <2>3. ASSUME NEW e \in Committable(downstream', staged_data'), Trapdoors(e.name) = key
          PROVE  d.content <= e.content
        <3>1. PICK j \in DOMAIN downstream' :
                downstream'[j].kind = "update" /\ e \in Carries(downstream', staged_data', Hash(downstream'[j]))
            BY DEF Committable
        <3>2. /\ Before(i, j) \in DOMAIN downstream \ {i} /\ downstream'[j] = downstream[Before(i, j)]
            BY <1>1, <1>2, QueueLeft
        <3>3. i < Before(i, j)
            <4>1. i = 1
                BY DEF Deliver, InOrder
            <4> QED
                BY <1>2, <3>2, <4>1
        <3>4. e \in Carries(downstream, staged_data, Hash(downstream[Before(i, j)]))
            <4>1. staged_data' = MapRemove(staged_data, h)
                BY <1>6
            <4>2. \A k \in DOMAIN staged_data' : k \in DOMAIN staged_data /\ staged_data'[k] = staged_data[k]
                BY <4>1 DEF MapRemove, Restrict
            <4>3. \A l \in DOMAIN downstream' : Before(i, l) \in DOMAIN downstream /\ downstream'[l] = downstream[Before(i, l)]
                BY <1>1, <1>2, QueueLeft
            <4> HIDE DEF h, m, d, key
            <4> QED
                BY <3>1, <3>2, <4>2, <4>3 DEF Carries
        <3>5. Later(downstream, staged_data)
            BY DEF AgeInv
        <3> QED
            BY <1>6, <2>1, <2>2, <2>3, <3>1, <3>2, <3>3, <3>4, <3>5 DEF Later
    <2>4. /\ DOMAIN cs' = DOMAIN cs \cup {key} /\ cs'[key] = d
          /\ \A k \in DOMAIN cs : k # key => cs'[k] = cs[k]
        BY <1>6 DEF MapInsert
    <2>5. \A e : NotNewer(e)' <=> NotNewer(e)
        BY <1>1 DEF NotNewer, producer_vars
    <2>6. Replaces(key, d)
        BY <1>6, <2>1, <2>2 DEF AgeInv, Replaces
    <2> HIDE DEF h, m, d, key
    <2>7. \A k \in DOMAIN cs' : NotNewer(cs'[k])
        BY <2>1, <2>4 DEF AgeInv
    <2>8. \A e \in Committable(downstream', staged_data') :
             /\ NotNewer(e)
             /\ \A k \in DOMAIN cs' : k = Trapdoors(e.name) => cs'[k].content <= e.content
        BY <1>4, <2>3, <2>4 DEF AgeInv
    <2>9. AgeInv'
        BY <1>4, <2>5, <2>7, <2>8 DEF AgeInv
    <2> QED
        BY <2>6, <2>9
<1> QED
    BY <1>1, <1>5, <1>6

\* The producer's answer is as new as anything there is.
LEMMA AnswerAges ==
    ASSUME AtMostOnce, Inv, JoinInv, PlaceInv, AgeInv, NEW m \in forwarded, ProducerOnInterest(m)
    PROVE  AgeInv'
<1> DEFINE h == m.hash
<1>1. /\ UNCHANGED <<router_vars, producer_vars>> /\ h \in Waiting
      /\ \/ UNCHANGED downstream
         \/ \E reply \in producer_on_interest(m.uri, h) :
               /\ downstream' = Sends(downstream, h, reply.data, reply.update)
               /\ Belong(h, reply.data, reply.update)
    BY AnswerStep
<1>2. UNCHANGED <<cs, staged_data>> /\ \A d : NotNewer(d)' <=> NotNewer(d)
    BY <1>1 DEF router_vars, NotNewer, producer_vars
<1>3. CASE UNCHANGED downstream
    BY <1>1, <1>2, <1>3, AgesKept DEF AgeInv
<1>4. ASSUME NEW reply \in producer_on_interest(m.uri, h), Belong(h, reply.data, reply.update),
             downstream' = Sends(downstream, h, reply.data, reply.update)
      PROVE  AgeInv'
    <2> DEFINE new == reply.data
    <2>1. /\ NotNewer(new)
          /\ \A d : NotNewer(d) /\ Trapdoors(d.name) = Trapdoors(new.name) => d.content <= new.content
        BY ServedIsNewest DEF Inv
    <2>2. downstream \in Seq(Range(downstream))
        BY DEF Inv, NetInv
    <2>3. h \notin Carried(downstream, "data") \cup Carried(downstream, "update") /\ h \notin DOMAIN staged_data
        <3>1. Separate(Waiting, Returning, Updating, DOMAIN staged_data, refused)
            BY DEF PlaceInv
        <3> HIDE DEF h
        <3> QED
            BY <1>1, <3>1 DEF Separate, Returning, Updating
    <2> HIDE DEF h
    <2>4. /\ Committable(downstream', staged_data) \subseteq Committable(downstream, staged_data) \cup {new}
          /\ Later(downstream', staged_data)
        <3>1. Belong(h, new, reply.update) /\ downstream' = Sends(downstream, h, new, reply.update)
            BY <1>4
        <3>2. /\ Later(downstream, staged_data)
              /\ \A d \in Committable(downstream, staged_data) :
                    Trapdoors(d.name) = Trapdoors(new.name) => d.content <= new.content
            BY <2>1 DEF AgeInv
        <3> HIDE DEF new
        <3> QED
            BY <2>2, <2>3, <3>1, <3>2, CommittedLast
    <2>5. \A key \in DOMAIN cs : key = Trapdoors(new.name) => cs[key].content <= new.content
        BY <2>1 DEF AgeInv, JoinInv
    <2> HIDE DEF new
    <2> QED
        BY <1>2, <2>1, <2>4, <2>5 DEF AgeInv
<1> QED
    BY <1>1, <1>3, <1>4

\* Every step keeps the ages in order.
LEMMA StepAges ==
    ASSUME AtMostOnce, InOrder, Inv, JoinInv, PlaceInv, AgeInv, [Next]_vars
    PROVE  AgeInv'
<1>1. ASSUME UNCHANGED <<cs, staged_data, downstream, producer_vars>> PROVE AgeInv'
    BY <1>1, AgesKept DEF AgeInv
<1>2. CASE UNCHANGED vars
    BY <1>1, <1>2 DEF vars, router_vars, net_vars
<1>3. ASSUME NEW name \in Names, Register(name) PROVE AgeInv'
    <2>1. UNCHANGED <<cs, staged_data, downstream>>
        BY <1>3 DEF Register, router_vars
    <2>2. \A d : Packet(registrations, d) /\ NotNewer(d) => NotNewer(d)'
        BY <1>3, RegisteredIsNewest DEF Inv
    <2>3. \A key \in DOMAIN cs : Packet(registrations, cs[key])
        BY DEF Inv, RouterInv
    <2>4. \A d \in Committable(downstream, staged_data) : Packet(registrations, d)
        BY CarriesPackets DEF Committable
    <2>5. \A key \in DOMAIN cs : NotNewer(cs[key])'
        BY <2>1, <2>2, <2>3 DEF AgeInv
    <2>6. \A d \in Committable(downstream, staged_data) : NotNewer(d)'
        BY <2>2, <2>4 DEF AgeInv
    <2> QED
        BY <2>1, <2>5, <2>6 DEF AgeInv
<1>4. ASSUME NEW name \in Names, Request(name) PROVE AgeInv'
    BY <1>1, <1>4 DEF Request, router_vars
<1>5. CASE RouterReads
    BY <1>1, <1>5, InterestStep DEF RouterReads
<1>6. CASE ProducerReads
    BY <1>6, AnswerAges DEF ProducerReads
<1>7. CASE Delivery
    BY <1>7, DeliverAges DEF Delivery
<1>8. CASE Lose
    <2>1. /\ UNCHANGED <<router_vars, producer_vars>>
          /\ downstream' = downstream \/ \E i \in DOMAIN downstream : downstream' = RemoveAt(downstream, i)
        BY <1>8, LoseStep
    <2>2. UNCHANGED <<cs, staged_data>> /\ downstream \in Seq(Range(downstream))
        BY <2>1 DEF router_vars, Inv, NetInv
    <2>3. ASSUME NEW i \in DOMAIN downstream, downstream' = RemoveAt(downstream, i)
          PROVE  AgeInv'
        <3>1. Stages(downstream, i, staged_data, staged_data)
            BY DEF Stages
        <3>2. /\ Committable(downstream', staged_data) \subseteq Committable(downstream, staged_data)
              /\ Later(downstream', staged_data)
            BY <2>2, <2>3, <3>1, CarriedOn DEF AgeInv
        <3> QED
            BY <2>1, <2>2, <3>2, AgesKept
    <2> QED
        BY <1>1, <2>1, <2>2, <2>3
<1> QED
    BY <1>2, <1>3, <1>4, <1>5, <1>6, <1>7, <1>8 DEF Next

\* The cache changes by updates alone.
LEMMA StepMonotone ==
    ASSUME AtMostOnce, InOrder, Inv, PlaceInv, AgeInv, [Next]_vars
    PROVE  \A key \in DOMAIN cs : key \in DOMAIN cs' /\ cs'[key].content >= cs[key].content
<1>1. \A key \in DOMAIN cs : cs[key].content \in Nat
    BY DEF Inv, RouterInv, Packet, DataPacket
<1>2. ASSUME UNCHANGED cs
      PROVE  \A key \in DOMAIN cs : key \in DOMAIN cs' /\ cs'[key].content >= cs[key].content
    BY <1>1, <1>2
<1>3. ASSUME NEW i \in DOMAIN downstream, Deliver(i)
      PROVE  \A key \in DOMAIN cs : key \in DOMAIN cs' /\ cs'[key].content >= cs[key].content
    <2>1. ASSUME NEW k, NEW d, Replaces(k, d)
          PROVE  \A key \in DOMAIN cs : key \in DOMAIN cs' /\ cs'[key].content >= cs[key].content
        <3>1. /\ DOMAIN cs' = DOMAIN cs \cup {k} /\ cs'[k] = d
              /\ \A key \in DOMAIN cs : key # k => cs'[key] = cs[key]
              /\ k \in DOMAIN cs => cs[k].content <= d.content
            BY <2>1 DEF Replaces, MapInsert
        <3> SUFFICES ASSUME NEW key \in DOMAIN cs
                     PROVE  key \in DOMAIN cs' /\ cs'[key].content >= cs[key].content
            OBVIOUS
        <3> QED
            BY <1>1, <3>1
    <2> QED
        BY <1>2, <1>3, <2>1, DeliverAges
<1>4. UNCHANGED cs \/ \E i \in DOMAIN downstream : Deliver(i)
    <2>1. CASE UNCHANGED vars
        BY <2>1 DEF vars, router_vars
    <2>2. ASSUME NEW name \in Names, Register(name) PROVE UNCHANGED cs
        BY <2>2 DEF Register, router_vars
    <2>3. ASSUME NEW name \in Names, Request(name) PROVE UNCHANGED cs
        BY <2>3 DEF Request, router_vars
    <2>4. CASE RouterReads
        BY <2>4, InterestStep DEF RouterReads
    <2>5. CASE ProducerReads
        BY <2>5 DEF ProducerReads, ProducerOnInterest, router_vars
    <2>6. CASE Lose
        BY <2>6 DEF Lose, router_vars
    <2> QED
        BY <2>1, <2>2, <2>3, <2>4, <2>5, <2>6 DEF Next, Delivery
<1> QED
    BY <1>2, <1>3, <1>4

\* While the network keeps the order of the producer's messages and copies
\* none, what is cached under some trapdoors is never replaced by an older
\* packet, whatever gets lost and however many names share the trapdoors.
THEOREM NetworkMonotone ==
    ASSUME AtMostOnce, InOrder, Apart
    PROVE  Spec => MonotoneCache
<1>1. ASSUME Init PROVE AgeInv
    <2>1. /\ DOMAIN cs = {} /\ DOMAIN staged_data = {}
          /\ downstream = <<Registration(prefix_registration_uri)>>
        BY <1>1 DEF Init, RouterInit, EmptyMap
    <2>2. DOMAIN downstream = {1} /\ downstream[1].kind = "registration"
        BY <2>1 DEF Registration
    <2>3. Committable(downstream, staged_data) = {}
        BY <2>2 DEF Committable
    <2>4. Later(downstream, staged_data)
        BY <2>2 DEF Later
    <2> QED
        BY <2>1, <2>3, <2>4 DEF AgeInv
<1>2. ASSUME Inv, JoinInv, PlaceInv, AgeInv, [Next]_vars PROVE AgeInv'
    BY <1>2, StepAges
<1>3. ASSUME Inv, PlaceInv, AgeInv, [Next]_vars
      PROVE  [\A key \in DOMAIN cs : key \in DOMAIN cs' /\ cs'[key].content >= cs[key].content]_vars
    BY <1>3, StepMonotone
<1> QED
    BY <1>1, <1>2, <1>3, SpecInv, SpecPlaces, OnceJoin, PTL DEF Spec, MonotoneCache

-----------------------------------------------------------------------------
(* The router of the network is a router that anybody may call: whatever   *)
(* RouterOpen_proofs proves of that one holds here, of a router that any   *)
(* network may lie behind.                                                 *)

\* The calls that this network makes.
RouterUris == Interests \cup {prefix_registration_uri} \cup Updates
RouterHashes == {Sha256(uri) : uri \in Interests}

Open == INSTANCE RouterOpen_proofs WITH Uris <- RouterUris, Hashes <- RouterHashes

\* The operators of that router are those of this one, although they are
\* instances of their own: filtering,
LEMMA SameWithout == \A s, e : Open!Without(s, e) = Without(s, e)
BY DEF Without, Open!Without, Cardinality, Open!Cardinality

\* decoding one component,
LEMMA SameDecodeComponent ==
    \A c : /\ Open!DecodeCiphertext(c) = DecodeCiphertext(c)
           /\ Open!DecodeTrapdoor(c) = DecodeTrapdoor(c)
           /\ Open!Decode64(c) = Decode64(c)
BY DEF DecodeCiphertext, Open!DecodeCiphertext, DecodeTrapdoor, Open!DecodeTrapdoor,
       Decode64, Open!Decode64, Ciphertext_from_bytes, Open!Ciphertext_from_bytes,
       Trapdoor_from_bytes, Open!Trapdoor_from_bytes,
       Text, Open!Text, Tw, Open!Tw, NoBytes, Open!NoBytes, Ok, Open!Ok, Err, Open!Err

\* decoding one after another,
LEMMA SameDecodeEach ==
    \A s : /\ Open!DecodeEach(s, Open!DecodeCiphertext) = DecodeEach(s, DecodeCiphertext)
           /\ Open!DecodeEach(s, Open!DecodeTrapdoor) = DecodeEach(s, DecodeTrapdoor)
<1> TAKE s
<1>1. Open!DecodeEach(s, Open!DecodeCiphertext) = DecodeEach(s, DecodeCiphertext)
    BY DEF DecodeEach, Open!DecodeEach, DecodeCiphertext, Open!DecodeCiphertext,
           DecodeTrapdoor, Open!DecodeTrapdoor, Decode64, Open!Decode64, Ciphertext_from_bytes, Open!Ciphertext_from_bytes,
       Trapdoor_from_bytes, Open!Trapdoor_from_bytes,
       Text, Open!Text, Tw, Open!Tw, NoBytes, Open!NoBytes, Ok, Open!Ok, Err, Open!Err
<1>2. Open!DecodeEach(s, Open!DecodeTrapdoor) = DecodeEach(s, DecodeTrapdoor)
    BY DEF DecodeEach, Open!DecodeEach, DecodeCiphertext, Open!DecodeCiphertext,
           DecodeTrapdoor, Open!DecodeTrapdoor, Decode64, Open!Decode64, Ciphertext_from_bytes, Open!Ciphertext_from_bytes,
       Trapdoor_from_bytes, Open!Trapdoor_from_bytes,
       Text, Open!Text, Tw, Open!Tw, NoBytes, Open!NoBytes, Ok, Open!Ok, Err, Open!Err
<1> QED
    BY <1>1, <1>2

\* skipping a marker,
LEMMA SameAfterMarker == \A uri, marker : Open!AfterMarker(uri, marker) = AfterMarker(uri, marker)
BY SameWithout DEF AfterMarker, Open!AfterMarker, Text, Open!Text, Ok, Open!Ok, Err, Open!Err

\* and so decoding an interest,
LEMMA SameInterest == \A uri : Open!decode_ciphertext_name(uri) = decode_ciphertext_name(uri)
BY SameWithout, SameDecodeEach
   DEF decode_ciphertext_name, Open!decode_ciphertext_name, Text, Open!Text, Tw, Open!Tw, TwReg, Open!TwReg,
       Err, Open!Err

\* a registration,
LEMMA SameRegistration == \A uri : Open!decode_trapdoor_registration(uri) = decode_trapdoor_registration(uri)
BY SameAfterMarker, SameDecodeComponent
   DEF decode_trapdoor_registration, Open!decode_trapdoor_registration, Text, Open!Text, TwReg, Open!TwReg, Err, Open!Err

\* or an update is the same there as here;
LEMMA SameUpdate == \A uri : Open!decode_trapdoor_update(uri) = decode_trapdoor_update(uri)
BY SameAfterMarker, SameDecodeComponent, SameDecodeEach
   DEF decode_trapdoor_update, Open!decode_trapdoor_update, Text, Open!Text, Tw, Open!Tw, Ok, Open!Ok,
       Err, Open!Err, Front, Open!Front, Last, Open!Last

\* so is what becomes of a map,
LEMMA SameMap ==
    \A f, k, v : Open!MapInsert(f, k, v) = MapInsert(f, k, v) /\ Open!MapRemove(f, k) = MapRemove(f, k)
BY DEF MapInsert, Open!MapInsert, MapRemove, Open!MapRemove, Restrict, Open!Restrict

\* which row matches exactly,
LEMMA SameMatch == \A table, nc : Open!match_exhaustive(table, nc).exact_match = match_exhaustive(table, nc).exact_match
<1> TAKE table, nc
<1> DEFINE exact == First(1..Len(table), LAMBDA i : IsExact(table[i].trapdoors, nc))
           openExact == Open!First(1..Len(table), LAMBDA i : Open!IsExact(table[i].trapdoors, nc))
<1>1. exact = openExact
    BY DEF First, IsFirst, IsExact, Passes, test, Sha256,
   Open!First, Open!IsFirst, Open!IsExact, Open!Passes, Open!test, Open!Sha256
<1>2. match_exhaustive(table, nc).exact_match = exact
    BY DEF match_exhaustive
<1>3. Open!match_exhaustive(table, nc).exact_match = openExact
    BY DEF Open!match_exhaustive
<1> HIDE DEF exact, openExact
<1> QED
    BY <1>1, <1>2, <1>3

\* which tables an insert leaves,
LEMMA SameInsert == \A table, key, name : Open!insert(table, key, name) = insert(table, key, name)
BY DEF insert, Open!insert, InsertPositions, Open!InsertPositions, KeyLess, Open!KeyLess, InsertAt, Open!InsertAt

\* and under which key the content store is asked.
LEMMA SameKey == \A nc : Open!MatchedKey(nc) = MatchedKey(nc)
BY SameMatch DEF MatchedKey, Open!MatchedKey, get_trapdoors, Open!get_trapdoors

\* on_interest can only do there what it does here,
LEMMA SameInterestCalls ==
    ASSUME NEW uri
    PROVE  /\ Drop(uri) => Open!Drop(uri)
           /\ \A data : ServeFromCache(uri, data) => Open!ServeFromCache(uri, data)
           /\ Forward(uri, Sha256(uri)) => Open!Forward(uri, Open!Sha256(uri))
BY SameInterest, SameKey, SameMap DEF Drop, Open!Drop, ServeFromCache, Open!ServeFromCache, Forward, Open!Forward,
   pending_insert, Open!pending_insert, lookup_and_remove, Open!lookup_and_remove, Sha256, Open!Sha256,
   Misses, Open!Misses

\* on_trapdoor_registration,
LEMMA SameRegistrationCall ==
    ASSUME NEW uri, on_trapdoor_registration(uri) PROVE Open!on_trapdoor_registration(uri)
BY SameRegistration, SameInsert DEF on_trapdoor_registration, Open!on_trapdoor_registration, Panic, Open!Panic,
   NoName, Open!NoName

\* on_data,
LEMMA SameDataCall ==
    ASSUME NEW hash, NEW data, on_data(hash, data) PROVE Open!on_data(hash, data)
BY SameMap DEF on_data, Open!on_data

\* and on_trapdoor_update, too.
LEMMA SameUpdateCall ==
    ASSUME NEW uri, on_trapdoor_update(uri) PROVE Open!on_trapdoor_update(uri)
<1>1. \A nt, hash : Commit(nt, hash) => Open!Commit(nt, hash)
  BY SameMap, SameInsert DEF Commit, Open!Commit, StagedUnder, Open!StagedUnder,
   staged_remove, Open!staged_remove, cs_insert, Open!cs_insert,
   NoName, Open!NoName
<1> QED
BY <1>1, SameUpdate, SameMap DEF on_trapdoor_update, Open!on_trapdoor_update, Panic, Open!Panic,
    lookup_and_remove, Open!lookup_and_remove

\* A registration and the updates begin with their markers.
LEMMA MarkedUris ==
    ASSUME NEW uri \in {prefix_registration_uri} \cup Updates
    PROVE  IsMarked(uri)
<1>1. CASE uri = prefix_registration_uri
    <2> DEFINE t == Trapdoors(<<"">> \o prefix)[1]
    <2>1. t \in Scalar
        BY PrefixOfProducer
    <2>2. uri = encode_trapdoor_registration(t)
        BY <1>1 DEF prefix_registration_uri, Trapdoors
    <2> HIDE DEF t
    <2> QED
        BY <2>1, <2>2, RegistrationMarked
<1>2. CASE uri \in Updates
    <2>1. PICK name \in ParsedNames, interest \in Interests :
            uri = encode_trapdoor_update(Trapdoors(name), Sha256(interest))
        BY <1>2 DEF Updates
    <2>2. name \in RawName /\ parse_name(name).ok
        BY <2>1, NamesAssumption DEF NamesAssumption, ParsedNames
    <2> DEFINE nt == Trapdoors(name)
               hash == Sha256(interest)
    <2>3. nt \in Seq(Scalar) \ {<< >>} /\ hash # NoBytes
        BY <2>2, KeyOfName, DigestNotEmpty
    <2> HIDE DEF nt, hash
    <2>4. IsMarked(encode_trapdoor_update(nt, hash))
        BY <2>3, UpdateMarked
    <2> QED
        BY <2>1, <2>4 DEF nt, hash
<1> QED
    BY <1>1, <1>2

\* All of them are URIs.
LEMMA RouterUrisArePaths == Open!UrisAssumption
<1> SUFFICES ASSUME NEW uri \in RouterUris
             PROVE  IsPath(uri.path)
    BY DEF Open!UrisAssumption, IsPath, Range, Open!Range
<1>1. CASE uri \in Foreign
    BY <1>1, ForeignAssumption DEF ForeignAssumption, IsPath
<1>2. ASSUME NEW name \in ParsedNames, NEW r \in Nonces, uri = create_interest(name, r)
      PROVE  IsPath(uri.path)
    <2> DEFINE nc == name_to_ciphertext(public_key, name, r).val
               S == Range(nc)
    <2>1. name \in RawName /\ parse_name(name).ok
        BY NamesAssumption DEF NamesAssumption, ParsedNames
    <2>2. nc \in Seq(S) \ {<< >>}
        BY <2>1, CiphertextsOfName
    <2>3. uri = encode_ciphertext_name(nc)
        BY <1>2 DEF create_interest
    <2> HIDE DEF nc, S
    <2>4. IsPath(encode_ciphertext_name(nc).path)
        BY <2>2, InterestPath
    <2> QED
        BY <2>3, <2>4
<1>3. CASE uri \in {prefix_registration_uri} \cup Updates
    BY <1>3, MarkedUris DEF IsMarked
<1> QED
    BY <1>1, <1>2, <1>3 DEF RouterUris, Interests

\* The router's part of every step is a call of one of its handlers, or none.
LEMMA OpenStep ==
    ASSUME Inv, [Next]_vars
    PROVE  [Open!Next]_router_vars
<1>1. CASE UNCHANGED router_vars
    BY <1>1
<1>2. CASE RouterReads
    <2>1. PICK uri \in interests : RouterOnInterest(uri)
        BY <1>2 DEF RouterReads
    <2>2. uri \in RouterUris
        BY SentInterests DEF Inv, NetInv, RouterUris
    <2>3. \/ Drop(uri)
          \/ \E data \in Range(cs) : ServeFromCache(uri, data)
          \/ Forward(uri, Sha256(uri))
        BY <2>1 DEF RouterOnInterest, RouterDrops, RouterServes, RouterForwards
    <2>4. Open!on_interest(uri)
        BY <2>3, SameInterestCalls DEF Open!on_interest, Range, Open!Range
    <2> QED
        BY <2>2, <2>4 DEF Open!Next
<1>3. CASE Delivery
    <2>1. PICK i \in DOMAIN downstream : Deliver(i)
        BY <1>3 DEF Delivery
    <2> DEFINE m == downstream[i]
    <2>2. Sound(Sent, registrations, m)
        BY DEF Inv, NetInv
    <2>3. RouterOnRegistration(m) \/ RouterOnData(m) \/ RouterOnUpdate(m)
        BY <2>1 DEF Deliver
    <2> HIDE DEF m
    <2>4. CASE RouterOnRegistration(m)
        <3>1. m.uri = prefix_registration_uri /\ on_trapdoor_registration(m.uri)
            BY <2>2, <2>4, SoundKinds DEF RouterOnRegistration, Registration
        <3>2. m.uri \in RouterUris /\ Open!on_trapdoor_registration(m.uri)
            BY <3>1, SameRegistrationCall DEF RouterUris
        <3> QED
            BY <3>2 DEF Open!Next
    <2>5. CASE RouterOnData(m)
        <3>1. Fits(Sent, registrations, m.hash, m.data) /\ on_data(m.hash, m.data)
            BY <2>2, <2>5, SoundKinds DEF RouterOnData
        <3>2. m.hash \in RouterHashes /\ m.data \in DataPacket
            BY <3>1, SentInterests DEF Inv, Fits, Matches, Packet, RouterHashes
        <3>3. Open!on_data(m.hash, m.data)
            BY <3>1, SameDataCall
        <3> QED
            BY <3>2, <3>3 DEF Open!Next
    <2>6. CASE RouterOnUpdate(m)
        <3>1. SoundUpdate(Sent, m.uri) /\ on_trapdoor_update(m.uri)
            BY <2>2, <2>6, SoundKinds DEF RouterOnUpdate
        <3>2. m.uri \in RouterUris /\ Open!on_trapdoor_update(m.uri)
            BY <3>1, SameUpdateCall DEF SoundUpdate, RouterUris
        <3> QED
            BY <3>2 DEF Open!Next
    <2> QED
        BY <2>3, <2>4, <2>5, <2>6
<1>4. \/ UNCHANGED router_vars
      \/ RouterReads
      \/ Delivery
    <2>1. ASSUME NEW name \in Names, Register(name) PROVE UNCHANGED router_vars
        BY <2>1 DEF Register
    <2>2. ASSUME NEW name \in Names, Request(name) PROVE UNCHANGED router_vars
        BY <2>2 DEF Request
    <2>3. CASE ProducerReads
        BY <2>3 DEF ProducerReads, ProducerOnInterest
    <2>4. CASE Lose
        BY <2>4 DEF Lose
    <2>5. CASE UNCHANGED vars
        BY <2>5 DEF vars
    <2> QED
        BY <2>1, <2>2, <2>3, <2>4, <2>5 DEF Next
<1> QED
    BY <1>1, <1>2, <1>3, <1>4

\* What the network and its producer do with the router is among what
\* RouterOpen allows everybody to do with one.
THEOREM NetworkImplementsRouter == Spec => Open!Spec
<1>1. Init => Open!Init
    BY DEF Init, Open!Init, RouterInit, Open!RouterInit, EmptyMap, Open!EmptyMap
<1>2. Inv /\ [Next]_vars => [Open!Next]_router_vars
    BY OpenStep
<1>3. Open!Spec <=> Open!Init /\ [][Open!Next]_router_vars
    BY DEF Open!Spec, Open!router_vars, router_vars
<1> QED
    BY <1>1, <1>2, <1>3, SpecInv, PTL DEF Spec

\* So the table stays in the order that its binary search presupposes, however
\* the messages of the network come in,
THEOREM NetworkTableSorted == Spec => []Open!TableSorted
<1>1. Open!Spec => []Open!TableSorted
    BY RouterUrisArePaths, Open!RouterTableSorted, ScalarAssumption, FieldAssumption, HashToCurveAssumption,
       ComponentAssumption
       DEF ScalarAssumption, FieldAssumption, HashToCurveAssumption, ComponentAssumption
<1> QED
    BY <1>1, NetworkImplementsRouter, PTL

\* and in step with the content store.
THEOREM NetworkCacheIndexed == Spec => []Open!CacheIndexed
<1>1. Open!Spec => []Open!CacheIndexed
    BY RouterUrisArePaths, Open!RouterCacheIndexed, ScalarAssumption, FieldAssumption, HashToCurveAssumption,
       ComponentAssumption
       DEF ScalarAssumption, FieldAssumption, HashToCurveAssumption, ComponentAssumption
<1> QED
    BY <1>1, NetworkImplementsRouter, PTL

\* The interests that the router may be sent hide their names.
LEMMA RouterUrisHide ==
    ASSUME ProperNetwork
    PROVE  Open!ProperInterests
<1>1. ASSUME NEW uri \in RouterUris, decode_ciphertext_name(uri).ok
      PROVE  Hiding(decode_ciphertext_name(uri).val)
    <2>1. CASE uri \in Foreign
        BY <1>1, <2>1 DEF ProperNetwork
    <2>2. ASSUME NEW name \in ParsedNames, NEW r \in Nonces, uri = create_interest(name, r)
          PROVE  Hiding(decode_ciphertext_name(uri).val)
        <3> DEFINE nc == name_to_ciphertext(public_key, name, r).val
        <3>1. name \in Names /\ name \in RawName /\ parse_name(name).ok /\ r \in Proper
            BY NamesAssumption DEF NamesAssumption, ParsedNames, ProperNetwork
        <3>2. decode_ciphertext_name(uri) = Ok(nc)
            BY <2>2, <3>1, InterestOfName
        <3>3. Hiding(nc)
            BY <3>1, InterestHides
        <3> HIDE DEF nc
        <3> QED
            BY <3>2, <3>3 DEF Ok
    <2>3. CASE uri \in {prefix_registration_uri} \cup Updates
        BY <1>1, <2>3, MarkedUris, MarkedRejected
    <2> QED
        BY <2>1, <2>2, <2>3 DEF RouterUris, Interests
<1>2. \A nc : Open!Hiding(nc) = Hiding(nc)
    BY DEF Hiding, Open!Hiding
<1> QED
    BY <1>1, <1>2, SameInterest DEF Open!ProperInterests

\* And an interest that the content store answers once it answers from then
\* on, although the network reorders, duplicates and loses messages, if no
\* component was encrypted with zero.
THEOREM NetworkWarmStaysWarm ==
    ASSUME ProperNetwork
    PROVE  Spec => Open!WarmStaysWarm
<1>1. Open!Spec => Open!WarmStaysWarm
    BY RouterUrisArePaths, RouterUrisHide, Open!RouterWarmStaysWarm, ScalarAssumption, FieldAssumption, HashToCurveAssumption,
       ComponentAssumption
       DEF ScalarAssumption, FieldAssumption, HashToCurveAssumption, ComponentAssumption
<1> QED
    BY <1>1, NetworkImplementsRouter, PTL
=============================================================================
