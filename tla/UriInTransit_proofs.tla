------------------------ MODULE UriInTransit_proofs -------------------------
(***************************************************************************)
(* A URI that gains slashes on the way says the same to its decoder, and   *)
(* nothing to the others: for any names, hashes and number of slashes.     *)
(***************************************************************************)
EXTENDS UriInTransit, Layers_proofs

\* What follows the marker of an update: an empty hash leaves no component.
UpdatePayload(nt, hash) ==
    IF hash = NoBytes THEN TrapdoorComponents(nt)
    ELSE Append(TrapdoorComponents(nt), Encode64(hash))

\* A path that carries message m: the components of m, and slashes.
Carries(m, path) ==
    LET kept == Without(path, Text(""))
    IN  /\ IsPath(path)
        /\ m.kind = "interest" => kept = Ciphers(m.nc)
        /\ m.kind = "registration" => kept = Marked(TwReg, TrapdoorComponents(<<m.t>>))
        /\ m.kind = "name" => kept = Marked(Tw, TrapdoorComponents(m.nt))
        /\ m.kind = "update" => kept = Marked(Tw, UpdatePayload(m.nt, m.hash))

\* The inductive invariant: slashes add nothing that a decoder looks at.
Inv ==
    /\ sent \in Messages
    /\ uri = PeksUri(uri.path)
    /\ Carries(sent, uri.path)

\* The four kinds of messages, and what they are encoded as.
LEMMA Kinds ==
    ASSUME NEW m \in Messages
    PROVE  /\ m.kind \in {"interest", "registration", "name", "update"}
           /\ m.kind = "interest" =>
                 m.nc \in CiphertextNames /\ Encode(m) = encode_ciphertext_name(m.nc)
           /\ m.kind = "registration" =>
                 m.t \in Scalar /\ Encode(m) = encode_trapdoor_registration(m.t)
           /\ m.kind = "name" =>
                 m.nt \in TrapdoorNames /\ Encode(m) = encode_trapdoor_name(m.nt)
           /\ m.kind = "update" =>
                 /\ m.nt \in TrapdoorNames /\ m.hash \in Digests \cup OtherBytes
                 /\ Encode(m) = encode_trapdoor_update(m.nt, m.hash)
BY DEF Messages, Encode

\* The names that are sent have components.
LEMMA NamesSent ==
    /\ \A nc \in CiphertextNames : nc \in Seq(Range(nc)) \ {<< >>}
    /\ \A nt \in TrapdoorNames : nt \in Seq(Scalar) \ {<< >>}
BY TransitAssumption DEF TransitAssumption

\* What follows a marker is plain.
LEMMA PayloadPlain ==
    ASSUME NEW nt \in Seq(Scalar) \ {<< >>}, NEW hash
    PROVE  Plain(UpdatePayload(nt, hash))
<1>1. Plain(TrapdoorComponents(nt))
    BY TrapdoorsDecoded
<1>2. hash # NoBytes => Plain(Append(TrapdoorComponents(nt), Encode64(hash)))
    BY <1>1, PlainWithHash
<1> QED
    BY <1>1, <1>2 DEF UpdatePayload

\* An interest carries its ciphertexts.
LEMMA InterestCarries ==
    ASSUME NEW S, NEW nc \in Seq(S) \ {<< >>}
    PROVE  /\ IsPath(encode_ciphertext_name(nc).path)
           /\ Without(encode_ciphertext_name(nc).path, Text("")) = Ciphers(nc)
<1>1. Plain(Ciphers(nc))
    BY CiphersDecoded
<1>2. IsPath(Ciphers(nc)) /\ Ciphers(nc) # << >>
    BY <1>1 DEF Plain, IsPath
<1>3. encode_ciphertext_name(nc).path = Ciphers(nc)
    BY <1>2 DEF encode_ciphertext_name, PeksUri, Join, Ciphers
<1> QED
    BY <1>1, <1>2, <1>3, PlainKept

\* An update carries its trapdoors and its hash, unless that is empty.
LEMMA UpdateCarries ==
    ASSUME NEW nt \in Seq(Scalar) \ {<< >>}, NEW hash
    PROVE  /\ IsPath(encode_trapdoor_update(nt, hash).path)
           /\ Without(encode_trapdoor_update(nt, hash).path, Text("")) = Marked(Tw, UpdatePayload(nt, hash))
<1> DEFINE comps == TrapdoorComponents(nt)
           path == encode_trapdoor_update(nt, hash).path
           e == Text("")
<1>1. Plain(comps)
    BY TrapdoorsDecoded
<1>2. path = Marked(Tw, Append(comps, Encode64(hash)))
    BY UpdateEncoded DEF PeksUri
<1>3. CASE hash # NoBytes
    <2>1. path = Marked(Tw, UpdatePayload(nt, hash)) /\ Plain(UpdatePayload(nt, hash))
        BY <1>2, <1>3, PayloadPlain DEF UpdatePayload
    <2> HIDE DEF path
    <2>2. IsPath(path) /\ Without(path, e) = path
        BY <2>1, MarkedKept
    <2> QED
        BY <2>1, <2>2 DEF path
<1>4. CASE hash = NoBytes
    <2> DEFINE S == Range(Marked(Tw, comps)) \cup {e}
               one == <<e>>
    <2>1. IsPath(Marked(Tw, comps)) /\ Without(Marked(Tw, comps), e) = Marked(Tw, comps)
        BY <1>1, MarkedKept
    <2>2. Marked(Tw, comps) \in Seq(S)
        BY <2>1, SeqMonotonic DEF IsPath
    <2>3. one \in Seq(S) /\ Without(one, e) = << >>
        BY WithoutOne
    <2>4. path = Marked(Tw, comps) \o one
        <3>1. Encode64(hash) = e
            BY <1>4 DEF Encode64
        <3> DEFINE T == Range(comps) \cup {Tw, e}
        <3>2. comps \in Seq(T) /\ Tw \in T /\ e \in T
            BY <1>1, SeqMonotonic DEF Plain, IsPath
        <3> HIDE DEF T, comps, e, path
        <3>3. <<Tw>> \o Append(comps, e) = (<<Tw>> \o comps) \o <<e>>
            BY <3>2
        <3> QED
            BY <1>2, <3>1, <3>3 DEF Marked
    <2> HIDE DEF path, one, S, comps, e
    <2>5. path \in Seq(S) /\ path # << >>
        BY <2>2, <2>3, <2>4 DEF one
    <2>6. IsPath(path)
        BY <2>5, SeqOfRange DEF IsPath
    <2>7. Without(Marked(Tw, comps) \o one, e) = Without(Marked(Tw, comps), e) \o Without(one, e)
        <3> DEFINE marked == Marked(Tw, comps)
        <3>1. marked \in Seq(S) /\ one \in Seq(S)
            BY <2>2, <2>3
        <3> HIDE DEF marked
        <3>2. Without(marked \o one, e) = Without(marked, e) \o Without(one, e)
            BY <3>1, WithoutConcat
        <3> QED
            BY <3>2 DEF marked
    <2>8. Without(path, e) = Marked(Tw, comps)
        BY <2>1, <2>2, <2>3, <2>4, <2>7
    <2> QED
        BY <1>4, <2>6, <2>8 DEF UpdatePayload, path, e, comps
<1> QED
    BY <1>3, <1>4

\* A URI carries what it was made from.
LEMMA InitInv == Init => Inv
<1> SUFFICES ASSUME Init PROVE Inv
    OBVIOUS
<1>1. sent \in Messages /\ uri = Encode(sent)
    BY DEF Init
<1>2. CASE sent.kind = "interest"
    <2> DEFINE nc == sent.nc
    <2>1. nc \in Seq(Range(nc)) \ {<< >>} /\ uri = encode_ciphertext_name(nc)
        BY <1>1, <1>2, Kinds, NamesSent
    <2> HIDE DEF nc
    <2>2. uri = PeksUri(uri.path)
        BY <2>1 DEF encode_ciphertext_name, PeksUri
    <2>3. IsPath(uri.path) /\ Without(uri.path, Text("")) = Ciphers(nc)
        BY <2>1, InterestCarries
    <2>4. Carries(sent, uri.path)
        BY <1>2, <2>3 DEF Carries, nc
    <2> QED
        BY <1>1, <2>2, <2>4 DEF Inv
<1>3. CASE sent.kind = "registration"
    <2> DEFINE t == sent.t
    <2>1. t \in Scalar /\ uri = encode_trapdoor_registration(t)
        BY <1>1, <1>3, Kinds
    <2> HIDE DEF t
    <2>2. uri = PeksUri(uri.path) /\ uri.path = Marked(TwReg, TrapdoorComponents(<<t>>))
        BY <2>1, RegistrationEncoded DEF PeksUri
    <2>3. Plain(TrapdoorComponents(<<t>>))
        <3>1. <<t>> \in Seq(Scalar) \ {<< >>}
            BY <2>1
        <3> QED
            BY <3>1, TrapdoorsDecoded
    <2>4. IsPath(uri.path) /\ Without(uri.path, Text("")) = Marked(TwReg, TrapdoorComponents(<<t>>))
        <3>1. /\ IsPath(Marked(TwReg, TrapdoorComponents(<<t>>)))
              /\ Without(Marked(TwReg, TrapdoorComponents(<<t>>)), Text(""))
                    = Marked(TwReg, TrapdoorComponents(<<t>>))
            BY <2>3, MarkedKept
        <3> QED
            BY <2>2, <3>1
    <2>5. Carries(sent, uri.path)
        BY <1>3, <2>4 DEF Carries, t
    <2> QED
        BY <1>1, <2>2, <2>5 DEF Inv
<1>4. CASE sent.kind = "name"
    <2> DEFINE nt == sent.nt
    <2>1. nt \in Seq(Scalar) \ {<< >>} /\ uri = encode_trapdoor_name(nt)
        BY <1>1, <1>4, Kinds, NamesSent
    <2> HIDE DEF nt
    <2>2. uri = PeksUri(uri.path) /\ uri.path = Marked(Tw, TrapdoorComponents(nt))
        BY <2>1, NameEncoded DEF PeksUri
    <2>3. Plain(TrapdoorComponents(nt))
        BY <2>1, TrapdoorsDecoded
    <2>4. IsPath(uri.path) /\ Without(uri.path, Text("")) = Marked(Tw, TrapdoorComponents(nt))
        <3>1. /\ IsPath(Marked(Tw, TrapdoorComponents(nt)))
              /\ Without(Marked(Tw, TrapdoorComponents(nt)), Text("")) = Marked(Tw, TrapdoorComponents(nt))
            BY <2>3, MarkedKept
        <3> QED
            BY <2>2, <3>1
    <2>5. Carries(sent, uri.path)
        BY <1>4, <2>4 DEF Carries, nt
    <2> QED
        BY <1>1, <2>2, <2>5 DEF Inv
<1>5. CASE sent.kind = "update"
    <2> DEFINE nt == sent.nt
               hash == sent.hash
    <2>1. nt \in Seq(Scalar) \ {<< >>} /\ uri = encode_trapdoor_update(nt, hash)
        BY <1>1, <1>5, Kinds, NamesSent
    <2> HIDE DEF nt, hash
    <2>2. uri = PeksUri(uri.path)
        BY <2>1 DEF encode_trapdoor_update, PeksUri
    <2>3. IsPath(uri.path) /\ Without(uri.path, Text("")) = Marked(Tw, UpdatePayload(nt, hash))
        BY <2>1, UpdateCarries
    <2>4. Carries(sent, uri.path)
        BY <1>5, <2>3 DEF Carries, nt, hash
    <2> QED
        BY <1>1, <2>2, <2>4 DEF Inv
<1> QED
    BY <1>1, <1>2, <1>3, <1>4, <1>5, Kinds

\* A slash more changes nothing about that.
LEMMA StepInv == Inv /\ [Next]_vars => Inv'
<1> SUFFICES ASSUME Inv, [Next]_vars PROVE Inv'
    OBVIOUS
<1>1. ASSUME NEW at \in 1..(Len(uri.path) + 1), GainSlash(at) PROVE Inv'
    <2> DEFINE path == uri.path
               e == Text("")
               S == Range(path) \cup {e}
    <2>1. path \in Seq(S) /\ e \in S
        BY SeqMonotonic DEF Inv, Carries, IsPath
    <2> DEFINE path2 == InsertAt(path, at, e)
    <2>2. uri' = PeksUri(path2) /\ sent' = sent
        <3>1. uri' = [uri EXCEPT !.path = path2] /\ sent' = sent
            BY <1>1 DEF GainSlash
        <3>2. uri = PeksUri(path)
            BY DEF Inv
        <3> HIDE DEF path, path2
        <3> QED
            BY <3>1, <3>2 DEF PeksUri
    <2> HIDE DEF path, e, S
    <2>3. at \in 1..(Len(path) + 1)
        BY DEF path
    <2>4. path2 \in Seq(S) \ {<< >>} /\ Without(path2, e) = Without(path, e)
        BY <2>1, <2>3, WithoutInserted
    <2> HIDE DEF path2
    <2>5. IsPath(path2)
        BY <2>4, SeqOfRange DEF IsPath
    <2>6. Carries(sent, path2)
        BY <2>4, <2>5 DEF Inv, Carries, path, e
    <2>7. uri'.path = path2 /\ uri' = PeksUri(uri'.path)
        BY <2>2 DEF PeksUri
    <2> QED
        BY <2>2, <2>6, <2>7 DEF Inv, Messages
<1>2. CASE UNCHANGED vars
    BY <1>2 DEF vars, Inv
<1> QED
    BY <1>1, <1>2 DEF Next

\* So it holds of every URI on its way.
LEMMA SpecInv == Spec => []Inv
BY InitInv, StepInv, PTL DEF Spec

-----------------------------------------------------------------------------
(* What the decoders make of it.                                           *)

\* Only the marker that was sent is found.
LEMMA MarkerFound ==
    ASSUME NEW path, IsPath(path), NEW marker \in {Tw, TwReg},
           AfterMarker(PeksUri(path), marker).ok
    PROVE  path[1] # Text("") /\ Without(path, Text(""))[1] = marker
<1> DEFINE e == Text("")
           S == Range(path)
<1>1. path[1] # e /\ path[1] = marker
    BY DEF AfterMarker, PeksUri, Ok, Err
<1>2. path \in Seq(S) \ {<< >>}
    BY DEF IsPath
<1> HIDE DEF e, S
<1>3. Without(path, e)[1] = path[1]
    BY <1>1, <1>2, WithoutTail
<1> QED
    BY <1>1, <1>3 DEF e

\* Neither marker is taken for a ciphertext.
LEMMA MarkersNoCiphertexts == ~DecodeCiphertext(Tw).ok /\ ~DecodeCiphertext(TwReg).ok
<1> DEFINE byte == [byte |-> 79]
<1>1. \A text : "base64" \notin DOMAIN Text(text)
    BY DEF Text
<1>2. Decode64(Tw) = Ok(byte)
    BY <1>1 DEF Decode64, Tw
<1>3. ~Decode64(TwReg).ok
    BY <1>1, TextsDiffer DEF Decode64, TwReg, Err
<1>4. "ciphertext" \notin DOMAIN byte
    OBVIOUS
<1> HIDE DEF byte
<1>5. ~Ciphertext_from_bytes(byte).ok
    BY <1>4 DEF Ciphertext_from_bytes, Err
<1> QED
    BY <1>2, <1>3, <1>5 DEF DecodeCiphertext, Ok

\* A sequence that is not empty has a first element.
LEMMA FirstPosition ==
    ASSUME NEW S, NEW s \in Seq(S) \ {<< >>}
    PROVE  Len(s) \in Nat /\ 1 \in 1..Len(s)
<1> DEFINE n == Len(s)
<1>1. n \in Nat \ {0}
    BY EmptySeq
<1> HIDE DEF n
<1>2. n \in Nat /\ 1 \in 1..n
    BY <1>1
<1> QED
    BY <1>2 DEF n

\* So no decoder takes anything that was sent with a marker for an interest.
LEMMA MarkedNoInterest ==
    ASSUME NEW path, NEW marker \in {Tw, TwReg}, NEW payload, Plain(payload),
           Without(path, Text("")) = Marked(marker, payload)
    PROVE  ~decode_ciphertext_name(PeksUri(path)).ok
<1> DEFINE comps == Marked(marker, payload)
<1>1. comps \in Seq(Range(comps)) /\ comps # << >> /\ comps[1] = marker
    BY MarkedKept DEF IsPath
<1> HIDE DEF comps
<1>2. Len(comps) \in Nat /\ 1 \in 1..Len(comps)
    BY <1>1, FirstPosition
<1>3. ~DecodeCiphertext(comps[1]).ok
    BY <1>1, MarkersNoCiphertexts
<1>4. ~DecodeEach(comps, DecodeCiphertext).ok
    BY <1>2, <1>3, CiphertextsEachDecoded
<1>5. Without(path, Text("")) = comps
    BY DEF comps
<1> QED
    BY <1>4, <1>5 DEF decode_ciphertext_name, PeksUri, Err

\* A trapdoor name passes for an update, its last trapdoor for the hash.
LEMMA NameAsUpdate ==
    ASSUME NEW nt \in Seq(Scalar) \ {<< >>}, NEW u,
           AfterMarker(u, Tw) = Ok(TrapdoorComponents(nt))
    PROVE  decode_trapdoor_update(u).ok <=> Len(nt) > 1
<1> DEFINE comps == TrapdoorComponents(nt)
           n == Len(nt)
<1>1. Len(comps) = n /\ AfterMarker(u, Tw).ok /\ AfterMarker(u, Tw).val = comps
    BY TrapdoorsDecoded DEF Ok
<1>2. n \in Nat \ {0} /\ \A i \in 1..n : nt[i] \in Scalar
    BY EmptySeq, ElementOfSeq
<1>3. CASE n = 1
    <2> HIDE DEF comps
    <2> HIDE DEF n
    <2>1. n < 2 /\ ~(n > 1)
        BY <1>3
    <2>2. Len(AfterMarker(u, Tw).val) < 2
        BY <1>1, <2>1, Zenon
    <2>3. ~decode_trapdoor_update(u).ok
        BY <1>1, <2>2 DEF decode_trapdoor_update, Err
    <2> QED
        BY <2>1, <2>3 DEF n
<1>4. CASE n > 1
    <2> DEFINE front == [i \in 1..(n - 1) |-> nt[i]]
               hash == TrapdoorBytes(nt[n])
               last == Encode64(hash)
               fronts == TrapdoorComponents(front)
    <2>1. front \in Seq(Scalar) \ {<< >>} /\ Len(front) = n - 1
        <3> HIDE DEF n
        <3>1. front \in Seq(Scalar) /\ Len(front) = n - 1
            BY <1>2, <1>4
        <3> QED
            BY <1>2, <1>4, <3>1, EmptySeq
    <2>2. hash # NoBytes
        BY <1>2, TrapdoorRoundTrip
    <2>3. comps = Append(fronts, last)
        <3>1. /\ \A i \in 1..(n - 1) : fronts[i] = Encode64(TrapdoorBytes(nt[i]))
              /\ fronts \in Seq(Range(fronts)) /\ Len(fronts) = n - 1
            BY <1>2, <2>1, TrapdoorsDecoded DEF TrapdoorComponents, Plain, IsPath
        <3>2. \A i \in 1..n : comps[i] = Encode64(TrapdoorBytes(nt[i]))
            BY DEF TrapdoorComponents
        <3>3. comps \in Seq(Range(comps)) /\ Len(comps) = n
            BY TrapdoorsDecoded DEF Plain, IsPath
        <3>4. last = Encode64(TrapdoorBytes(nt[n]))
            OBVIOUS
        <3> DEFINE S == Range(fronts) \cup {last}
        <3>5. fronts \in Seq(S) /\ last \in S
            <4> HIDE DEF fronts, last
            <4> QED
                BY <3>1, SeqMonotonic
        <3> HIDE DEF comps, fronts, last, n, S
        <3>6. /\ Append(fronts, last) \in Seq(S) /\ Len(Append(fronts, last)) = n
              /\ \A i \in 1..(n - 1) : Append(fronts, last)[i] = fronts[i]
              /\ Append(fronts, last)[n] = last
            BY <1>2, <3>1, <3>5, AppendProperties
        <3>7. \A i \in 1..n : comps[i] = Append(fronts, last)[i]
            BY <1>2, <3>1, <3>2, <3>4, <3>6
        <3> QED
            BY <3>3, <3>6, <3>7, SeqEqual
    <2> HIDE DEF front, hash, comps
    <2>4. AfterMarker(u, Tw) = Ok(Append(TrapdoorComponents(front), Encode64(hash)))
        BY <2>3 DEF comps
    <2>5. decode_trapdoor_update(u) = Ok([trapdoors |-> front, hash |-> hash])
        BY <2>1, <2>2, <2>4, UpdateCarried
    <2> QED
        BY <1>4, <2>5 DEF Ok
<1> HIDE DEF n
<1>5. n = 1 \/ n > 1
    BY <1>2
<1> QED
    BY <1>3, <1>4, <1>5

\* A digest is no trapdoor.
LEMMA DigestNoTrapdoor ==
    ASSUME NEW digest \in Digests
    PROVE  digest # NoBytes /\ ~DecodeTrapdoor(Encode64(digest)).ok
<1>1. digest = Sha256(digest.sha256)
    BY TransitAssumption DEF TransitAssumption
<1>2. DOMAIN digest = {"sha256"}
    <2> DEFINE x == digest.sha256
    <2>1. DOMAIN Sha256(x) = {"sha256"}
        BY DEF Sha256
    <2> HIDE DEF x
    <2> QED
        BY <1>1, <2>1 DEF x
<1>3. DOMAIN NoBytes = {"bytes"} /\ {"sha256"} # {"bytes"} /\ "trapdoor" \notin {"sha256"}
    BY DEF NoBytes
<1>4. digest # NoBytes
    BY <1>2, <1>3
<1>5. Decode64(Encode64(digest)) = Ok(digest)
    BY <1>4, Base64
<1>6. ~Trapdoor_from_bytes(digest).ok
    BY <1>2, <1>3 DEF Trapdoor_from_bytes, Err
<1> QED
    BY <1>4, <1>5, <1>6 DEF DecodeTrapdoor, Ok

\* So an update with a digest does not pass for a trapdoor name.
LEMMA UpdateNoName ==
    ASSUME NEW nt \in Seq(Scalar) \ {<< >>}, NEW digest \in Digests, NEW u,
           AfterMarker(u, Tw) = Ok(Append(TrapdoorComponents(nt), Encode64(digest)))
    PROVE  ~decode_trapdoor_name(u).ok
<1> DEFINE front == TrapdoorComponents(nt)
           last == Encode64(digest)
           comps == Append(front, last)
           n == Len(front)
           S == Range(front) \cup {last}
<1>1. front \in Seq(S) /\ last \in S
    <2>1. front \in Seq(Range(front))
        BY TrapdoorsDecoded DEF Plain, IsPath
    <2> HIDE DEF front, last
    <2> QED
        BY <2>1, SeqMonotonic
<1>2. ~DecodeTrapdoor(last).ok
    BY DigestNoTrapdoor
<1>3. AfterMarker(u, Tw).ok /\ AfterMarker(u, Tw).val = comps
    BY DEF Ok
<1> HIDE DEF front, last, S
<1>4. n \in Nat /\ Len(comps) = n + 1 /\ comps[n + 1] = last /\ comps # << >>
    BY <1>1, AppendProperties
<1> HIDE DEF comps, n
<1>5. Len(comps) \in Nat /\ n + 1 \in 1..Len(comps)
    BY <1>4
<1>6. ~DecodeEach(comps, DecodeTrapdoor).ok
    BY <1>2, <1>4, <1>5, TrapdoorsEachDecoded
<1> QED
    BY <1>3, <1>4, <1>6 DEF decode_trapdoor_name

\* An interest comes back, and has no marker.
LEMMA InterestHeard ==
    ASSUME NEW S, NEW nc \in Seq(S) \ {<< >>}, NEW path, IsPath(path),
           Without(path, Text("")) = Ciphers(nc)
    PROVE  /\ decode_ciphertext_name(PeksUri(path)) = Ok(nc)
           /\ ~AfterMarker(PeksUri(path), Tw).ok /\ ~AfterMarker(PeksUri(path), TwReg).ok
<1> DEFINE comps == Ciphers(nc)
           e == Text("")
           P == Range(path)
<1>1. comps[1] \notin {e, Tw, TwReg}
    <2>1. Plain(comps)
        BY CiphersDecoded
    <2>2. comps \in Seq(Range(comps)) \ {<< >>}
        BY <2>1 DEF Plain, IsPath
    <2> HIDE DEF comps
    <2>3. 1 \in 1..Len(comps)
        BY <2>2, FirstPosition
    <2> QED
        BY <2>1, <2>3 DEF Plain
<1>2. ~AfterMarker(PeksUri(path), Tw).ok /\ ~AfterMarker(PeksUri(path), TwReg).ok
    BY <1>1, MarkerFound
<1>3. path \in Seq(P) \ {<< >>} /\ Without(path, e) = comps
    BY DEF IsPath
<1>4. path[1] \notin {Tw, TwReg}
    <2>1. e \notin {Tw, TwReg}
        BY TextsDiffer
    <2> HIDE DEF comps, e, P
    <2>2. path[1] # e => comps[1] = path[1]
        BY <1>3, WithoutTail
    <2> QED
        BY <1>1, <2>1, <2>2
<1>5. PeksUri(path).strategy = TRUE /\ PeksUri(path).path = path
    BY DEF PeksUri
<1>6. decode_ciphertext_name(PeksUri(path)) = Ok(nc)
    <2> DEFINE u == PeksUri(path)
    <2>1. u.strategy = TRUE /\ u.path[1] \notin {Tw, TwReg} /\ Without(u.path, Text("")) = Ciphers(nc)
        BY <1>4, <1>5
    <2> HIDE DEF u
    <2>2. decode_ciphertext_name(u) = Ok(nc)
        BY <2>1, InterestCarried
    <2> QED
        BY <2>2 DEF u
<1> QED
    BY <1>2, <1>6

\* Whatever was sent with a marker is heard with that marker only: always,
\* unless a slash has come before it.
LEMMA MarkedHeard ==
    ASSUME NEW path, IsPath(path), NEW marker \in {Tw, TwReg}, NEW payload, Plain(payload),
           Without(path, Text("")) = Marked(marker, payload)
    PROVE  /\ ~decode_ciphertext_name(PeksUri(path)).ok
           /\ \A other \in {Tw, TwReg} : AfterMarker(PeksUri(path), other).ok => other = marker
           /\ path[1] # Text("") \/ AfterMarker(PeksUri(path), marker).ok
                 => AfterMarker(PeksUri(path), marker) = Ok(payload)
<1> DEFINE u == PeksUri(path)
<1>1. ~decode_ciphertext_name(u).ok
    BY MarkedNoInterest
<1>2. \A other \in {Tw, TwReg} : AfterMarker(u, other).ok => path[1] # Text("") /\ other = marker
    <2>1. Marked(marker, payload)[1] = marker
        BY MarkedKept
    <2> QED
        BY <2>1, MarkerFound
<1>3. ASSUME path[1] # Text("") PROVE AfterMarker(u, marker) = Ok(payload)
    <2>1. /\ u.strategy = TRUE /\ IsPath(u.path) /\ u.path[1] # Text("")
          /\ Without(u.path, Text("")) = Marked(marker, payload)
        BY <1>3 DEF PeksUri
    <2> HIDE DEF u
    <2> QED
        BY <2>1, AfterOwnMarker
<1> QED
    BY <1>1, <1>2, <1>3

\* Without the marker Tw there is no trapdoor name and no update, without
\* TwReg no registration.
LEMMA NothingWithoutMarker ==
    ASSUME NEW u
    PROVE  /\ ~AfterMarker(u, Tw).ok => ~decode_trapdoor_name(u).ok /\ ~decode_trapdoor_update(u).ok
           /\ ~AfterMarker(u, TwReg).ok => ~decode_trapdoor_registration(u).ok
BY DEF decode_trapdoor_name, decode_trapdoor_update, decode_trapdoor_registration

\* A trapdoor name comes back from what follows its marker.
LEMMA NameCarried ==
    ASSUME NEW nt \in Seq(Scalar) \ {<< >>}, NEW u,
           AfterMarker(u, Tw) = Ok(TrapdoorComponents(nt))
    PROVE  decode_trapdoor_name(u) = Ok(nt)
<1> DEFINE comps == TrapdoorComponents(nt)
<1>1. comps # << >> /\ DecodeEach(comps, DecodeTrapdoor) = Ok(nt)
    BY TrapdoorsDecoded DEF Plain, IsPath
<1>2. AfterMarker(u, Tw).ok /\ AfterMarker(u, Tw).val = comps
    BY DEF Ok
<1> HIDE DEF comps
<1> QED
    BY <1>1, <1>2 DEF decode_trapdoor_name

-----------------------------------------------------------------------------
(* Message by message.                                                     *)

\* What each decoder makes of an interest under way,
LEMMA InterestUnderway ==
    ASSUME Inv, sent.kind = "interest"
    PROVE  /\ decode_ciphertext_name(uri) = Ok(sent.nc)
           /\ ~decode_trapdoor_registration(uri).ok
           /\ ~decode_trapdoor_name(uri).ok /\ ~decode_trapdoor_update(uri).ok
<1> DEFINE nc == sent.nc
           path == uri.path
           S == Range(nc)
<1>1. nc \in Seq(S) \ {<< >>}
    BY Kinds, NamesSent DEF Inv
<1>2. uri = PeksUri(path) /\ IsPath(path) /\ Without(path, Text("")) = Ciphers(nc)
    BY DEF Inv, Carries
<1> HIDE DEF nc, path, S
<1>3. /\ decode_ciphertext_name(PeksUri(path)) = Ok(nc)
      /\ ~AfterMarker(PeksUri(path), Tw).ok /\ ~AfterMarker(PeksUri(path), TwReg).ok
    BY <1>1, <1>2, InterestHeard
<1>4. decode_ciphertext_name(uri) = Ok(nc) /\ ~AfterMarker(uri, Tw).ok /\ ~AfterMarker(uri, TwReg).ok
    BY <1>2, <1>3
<1> QED
    BY <1>4, NothingWithoutMarker DEF nc

\* of a registration,
LEMMA RegistrationUnderway ==
    ASSUME Inv, sent.kind = "registration"
    PROVE  /\ uri.path[1] # Text("") => decode_trapdoor_registration(uri) = Ok(sent.t)
           /\ ~decode_ciphertext_name(uri).ok
           /\ ~decode_trapdoor_name(uri).ok /\ ~decode_trapdoor_update(uri).ok
<1> DEFINE t == sent.t
           path == uri.path
           payload == TrapdoorComponents(<<t>>)
<1>1. t \in Scalar
    BY Kinds DEF Inv
<1>2. uri = PeksUri(path) /\ IsPath(path) /\ Without(path, Text("")) = Marked(TwReg, payload)
    BY DEF Inv, Carries
<1> HIDE DEF t, path
<1>3. Plain(payload)
    <2>1. <<t>> \in Seq(Scalar) \ {<< >>}
        BY <1>1
    <2> QED
        BY <2>1, TrapdoorsDecoded
<1> HIDE DEF payload
<1>4. /\ ~decode_ciphertext_name(PeksUri(path)).ok
      /\ \A other \in {Tw, TwReg} : AfterMarker(PeksUri(path), other).ok => other = TwReg
      /\ path[1] # Text("") \/ AfterMarker(PeksUri(path), TwReg).ok
            => AfterMarker(PeksUri(path), TwReg) = Ok(payload)
    BY <1>2, <1>3, MarkedHeard
<1>5. ~decode_ciphertext_name(uri).ok /\ ~AfterMarker(uri, Tw).ok
    BY <1>2, <1>4, TextsDiffer
<1>6. path[1] # Text("") => decode_trapdoor_registration(uri) = Ok(t)
    BY <1>1, <1>2, <1>4, RegistrationCarried DEF payload
<1> QED
    BY <1>5, <1>6, NothingWithoutMarker DEF t, path

\* of a trapdoor name,
LEMMA NameUnderway ==
    ASSUME Inv, sent.kind = "name"
    PROVE  /\ uri.path[1] # Text("") => decode_trapdoor_name(uri) = Ok(sent.nt)
           /\ decode_trapdoor_update(uri).ok => Len(sent.nt) > 1
           /\ ~decode_ciphertext_name(uri).ok /\ ~decode_trapdoor_registration(uri).ok
<1> DEFINE nt == sent.nt
           path == uri.path
           payload == TrapdoorComponents(nt)
<1>1. nt \in Seq(Scalar) \ {<< >>}
    BY Kinds, NamesSent DEF Inv
<1>2. uri = PeksUri(path) /\ IsPath(path) /\ Without(path, Text("")) = Marked(Tw, payload)
    BY DEF Inv, Carries
<1> HIDE DEF nt, path
<1>3. Plain(payload)
    BY <1>1, TrapdoorsDecoded
<1> HIDE DEF payload
<1>4. /\ ~decode_ciphertext_name(PeksUri(path)).ok
      /\ \A other \in {Tw, TwReg} : AfterMarker(PeksUri(path), other).ok => other = Tw
      /\ path[1] # Text("") \/ AfterMarker(PeksUri(path), Tw).ok
            => AfterMarker(PeksUri(path), Tw) = Ok(payload)
    BY <1>2, <1>3, MarkedHeard
<1>5. ~decode_ciphertext_name(uri).ok /\ ~AfterMarker(uri, TwReg).ok
    BY <1>2, <1>4, TextsDiffer
<1>6. path[1] # Text("") => decode_trapdoor_name(uri) = Ok(nt)
    BY <1>1, <1>2, <1>4, NameCarried DEF payload
<1>7. AfterMarker(uri, Tw).ok => (decode_trapdoor_update(uri).ok <=> Len(nt) > 1)
    BY <1>1, <1>2, <1>4, NameAsUpdate DEF payload
<1> QED
    BY <1>5, <1>6, <1>7, NothingWithoutMarker DEF nt, path

\* of an update.
LEMMA UpdateUnderway ==
    ASSUME Inv, sent.kind = "update"
    PROVE  /\ uri.path[1] # Text("") /\ sent.hash # NoBytes =>
                 decode_trapdoor_update(uri) = Ok([trapdoors |-> sent.nt, hash |-> sent.hash])
           /\ uri.path[1] # Text("") /\ sent.hash = NoBytes =>
                 (decode_trapdoor_update(uri).ok <=> Len(sent.nt) > 1)
           /\ ~decode_ciphertext_name(uri).ok /\ ~decode_trapdoor_registration(uri).ok
           /\ decode_trapdoor_name(uri).ok => sent.hash \notin Digests
<1> DEFINE nt == sent.nt
           hash == sent.hash
           path == uri.path
           payload == UpdatePayload(nt, hash)
<1>1. nt \in Seq(Scalar) \ {<< >>}
    BY Kinds, NamesSent DEF Inv
<1>2. uri = PeksUri(path) /\ IsPath(path) /\ Without(path, Text("")) = Marked(Tw, payload)
    BY DEF Inv, Carries
<1> HIDE DEF nt, hash, path
<1>3. Plain(payload)
    BY <1>1, PayloadPlain
<1> HIDE DEF payload
<1>4. /\ ~decode_ciphertext_name(PeksUri(path)).ok
      /\ \A other \in {Tw, TwReg} : AfterMarker(PeksUri(path), other).ok => other = Tw
      /\ path[1] # Text("") \/ AfterMarker(PeksUri(path), Tw).ok
            => AfterMarker(PeksUri(path), Tw) = Ok(payload)
    BY <1>2, <1>3, MarkedHeard
<1>5. ~decode_ciphertext_name(uri).ok /\ ~AfterMarker(uri, TwReg).ok
    BY <1>2, <1>4, TextsDiffer
<1>6. ASSUME path[1] # Text(""), hash # NoBytes
      PROVE  decode_trapdoor_update(uri) = Ok([trapdoors |-> nt, hash |-> hash])
    <2>1. AfterMarker(uri, Tw) = Ok(Append(TrapdoorComponents(nt), Encode64(hash)))
        BY <1>2, <1>4, <1>6 DEF payload, UpdatePayload
    <2> QED
        BY <1>1, <1>6, <2>1, UpdateCarried
<1>7. ASSUME path[1] # Text(""), hash = NoBytes
      PROVE  decode_trapdoor_update(uri).ok <=> Len(nt) > 1
    <2>1. AfterMarker(uri, Tw) = Ok(TrapdoorComponents(nt))
        BY <1>2, <1>4, <1>7 DEF payload, UpdatePayload
    <2> QED
        BY <1>1, <2>1, NameAsUpdate
<1>8. ASSUME hash \in Digests, AfterMarker(uri, Tw).ok PROVE ~decode_trapdoor_name(uri).ok
    <2>1. hash # NoBytes
        BY <1>8, DigestNoTrapdoor
    <2>2. AfterMarker(uri, Tw) = Ok(Append(TrapdoorComponents(nt), Encode64(hash)))
        BY <1>2, <1>4, <1>8, <2>1 DEF payload, UpdatePayload
    <2> QED
        BY <1>1, <1>8, <2>2, UpdateNoName
<1>9. decode_trapdoor_name(uri).ok => hash \notin Digests
    BY <1>8, NothingWithoutMarker
<1> QED
    BY <1>5, <1>6, <1>7, <1>9, NothingWithoutMarker DEF nt, hash, path

-----------------------------------------------------------------------------
\* Whatever slashes a URI gains behind its marker, the decoder of its format
\* gets back what wire.rs encoded; an update whose hash is empty is refused
\* or its last trapdoor taken for the hash.
THEOREM UriRoundTrip == Spec => []RoundTrip
<1>1. Inv => RoundTrip
    <2> SUFFICES ASSUME Inv, StartsWell PROVE RoundTrip
        BY DEF RoundTrip
    <2>1. sent.kind \in {"interest", "registration", "name", "update"}
        BY Kinds DEF Inv
    <2>2. sent.kind # "interest" => uri.path[1] # Text("")
        BY DEF StartsWell
    <2>3. CASE sent.kind = "interest"
        BY <2>3, InterestUnderway DEF RoundTrip
    <2>4. CASE sent.kind = "registration"
        BY <2>2, <2>4, RegistrationUnderway DEF RoundTrip
    <2>5. CASE sent.kind = "name"
        BY <2>2, <2>5, NameUnderway DEF RoundTrip
    <2>6. CASE sent.kind = "update"
        BY <2>2, <2>6, UpdateUnderway DEF RoundTrip
    <2> QED
        BY <2>1, <2>3, <2>4, <2>5, <2>6
<1> QED
    BY <1>1, SpecInv, PTL

\* No handler takes a message for one of another kind, whatever slashes it
\* gained: only a trapdoor name passes for an update, and an update with
\* something other than a digest for a trapdoor name.
THEOREM UriOwnFormat == Spec => []OnlyItsOwnFormat
<1>1. Inv => OnlyItsOwnFormat
    <2> SUFFICES ASSUME Inv PROVE OnlyItsOwnFormat
        OBVIOUS
    <2>1. sent.kind \in {"interest", "registration", "name", "update"}
        BY Kinds DEF Inv
    <2>2. CASE sent.kind = "interest"
        BY <2>2, InterestUnderway DEF OnlyItsOwnFormat
    <2>3. CASE sent.kind = "registration"
        BY <2>3, RegistrationUnderway DEF OnlyItsOwnFormat
    <2>4. CASE sent.kind = "name"
        BY <2>4, NameUnderway DEF OnlyItsOwnFormat
    <2>5. CASE sent.kind = "update"
        BY <2>5, UpdateUnderway DEF OnlyItsOwnFormat
    <2> QED
        BY <2>1, <2>2, <2>3, <2>4, <2>5
<1> QED
    BY <1>1, SpecInv, PTL
=============================================================================
