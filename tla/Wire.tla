-------------------------------- MODULE Wire --------------------------------
(***************************************************************************)
(* The URI formats of wire.rs.                                             *)
(*                                                                         *)
(* A URI records whether it starts with "/peks_strategy/" and the path     *)
(* after it, split at every '/'.  A path component is a plain text (a      *)
(* marker, or the empty text) or the base64 form of some bytes; the bytes  *)
(* remember which serialisation made them, which is what their length and  *)
(* the point validation of from_bytes tell the decoders.                   *)
(***************************************************************************)
EXTENDS Names, SequencesExt

Text(s) == [text |-> s]
Tw == Text("Tw")
TwReg == Text("TwReg")

NoBytes == [bytes |-> 0]
TrapdoorBytes(t) == [trapdoor |-> t]
CiphertextBytes(c) == [ciphertext |-> c]

Encode64(bytes) == IF bytes = NoBytes THEN Text("") ELSE [base64 |-> bytes]

\* The marker "Tw" happens to be the base64 form of one byte; no other text
\* that is not made by Encode64 is taken for base64.
Decode64(comp) ==
    IF "base64" \in DOMAIN comp THEN Ok(comp.base64)
    ELSE IF comp = Tw THEN Ok([byte |-> 79])
    ELSE IF comp = Text("") THEN Ok(NoBytes)
    ELSE Err("Base64Decode")

\* Joining no component leaves the empty text, which splits to itself.
Join(comps) == IF comps = << >> THEN <<Text("")>> ELSE comps

PeksUri(path) == [strategy |-> TRUE, path |-> path]

-----------------------------------------------------------------------------
encode_ciphertext_name(nc) ==
    PeksUri(Join([i \in 1..Len(nc) |-> Encode64(CiphertextBytes(nc[i]))]))

TrapdoorComponents(nt) == [i \in 1..Len(nt) |-> Encode64(TrapdoorBytes(nt[i]))]

encode_trapdoor_name(nt) == PeksUri(<<Tw>> \o Join(TrapdoorComponents(nt)))

encode_trapdoor_registration(t) == PeksUri(<<TwReg, Encode64(TrapdoorBytes(t))>>)

\* Mutant: the hash is forgotten.
encode_trapdoor_update_NoHash(nt, hash) == encode_trapdoor_name(nt)

encode_trapdoor_update(nt, hash) ==
    PeksUri(<<Tw>> \o Join(TrapdoorComponents(nt)) \o <<Encode64(hash)>>)

-----------------------------------------------------------------------------
\* from_bytes accepts the serialisation of a point of its own group only.
Trapdoor_from_bytes(bytes) ==
    IF "trapdoor" \in DOMAIN bytes /\ bytes.trapdoor \in Scalar
    THEN Ok(bytes.trapdoor) ELSE Err("Deserialization")

Ciphertext_from_bytes(bytes) ==
    IF "ciphertext" \in DOMAIN bytes THEN Ok(bytes.ciphertext) ELSE Err("Deserialization")

DecodeTrapdoor(comp) ==
    LET bytes == Decode64(comp)
    IN  IF bytes.ok THEN Trapdoor_from_bytes(bytes.val) ELSE bytes

DecodeCiphertext(comp) ==
    LET bytes == Decode64(comp)
    IN  IF bytes.ok THEN Ciphertext_from_bytes(bytes.val) ELSE bytes

\* Decode every component, or return the error of the first that fails.
DecodeEach(comps, Decode(_)) ==
    LET bad == {i \in 1..Len(comps) : ~Decode(comps[i]).ok}
    IN  IF bad = {} THEN Ok([i \in 1..Len(comps) |-> Decode(comps[i]).val])
        ELSE Decode(comps[CHOOSE i \in bad : \A j \in bad : i <= j])

decode_ciphertext_name(uri) ==
    LET comps == Without(uri.path, Text(""))
    IN  IF ~uri.strategy THEN Err("MissingPeksStrategyPrefix")
        ELSE IF uri.path[1] \in {Tw, TwReg} THEN Err("UnexpectedTrapdoorMarker")
        ELSE IF comps = << >> THEN Err("Empty")
        ELSE DecodeEach(comps, DecodeCiphertext)

\* Mutants: empty components are kept; either marker will do.
AfterMarker_KeepsEmpty(uri, marker) ==
    IF ~uri.strategy \/ uri.path[1] # marker THEN Err("MissingTrapdoorMarker")
    ELSE Ok(Tail(uri.path))
AfterMarker_EitherMarker(uri, marker) ==
    IF ~uri.strategy \/ uri.path[1] \notin {Tw, TwReg} THEN Err("MissingTrapdoorMarker")
    ELSE Ok(Without(Tail(uri.path), Text("")))

\* The non-empty components after the marker that the URI must start with.
AfterMarker(uri, marker) ==
    IF ~uri.strategy THEN Err("MissingPeksStrategyPrefix")
    ELSE IF uri.path[1] = Text("") THEN Err("Empty")
    ELSE IF uri.path[1] # marker THEN Err("MissingTrapdoorMarker")
    ELSE Ok(Without(Tail(uri.path), Text("")))

decode_trapdoor_name(uri) ==
    LET comps == AfterMarker(uri, Tw)
    IN  IF ~comps.ok THEN comps
        ELSE IF comps.val = << >> THEN Err("Empty")
        ELSE DecodeEach(comps.val, DecodeTrapdoor)

decode_trapdoor_registration(uri) ==
    LET comps == AfterMarker(uri, TwReg)
    IN  IF ~comps.ok THEN comps
        ELSE IF Len(comps.val) # 1 THEN Err("Empty")
        ELSE DecodeTrapdoor(comps.val[1])

decode_trapdoor_update(uri) ==
    LET comps == AfterMarker(uri, Tw)
        trapdoors == DecodeEach(Front(comps.val), DecodeTrapdoor)
        hash == Decode64(Last(comps.val))
    IN  IF ~comps.ok THEN comps
        ELSE IF Len(comps.val) < 2 THEN Err("Empty")
        ELSE IF ~trapdoors.ok THEN trapdoors
        ELSE IF ~hash.ok THEN hash
        ELSE Ok([trapdoors |-> trapdoors.val, hash |-> hash.val])
=============================================================================
