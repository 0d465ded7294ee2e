---------------------------- MODULE UriInTransit ----------------------------
(***************************************************************************)
(* A URI of each format of wire.rs between its encoder and the decoders.   *)
(* On the way it may gain slashes: the decoders skip empty components.     *)
(***************************************************************************)
EXTENDS Wire

CONSTANTS
    CiphertextNames,   \* encrypted names
    TrapdoorNames,     \* trapdoor sequences
    Digests,           \* SHA-256 digests
    OtherBytes,        \* other bytes an update may be given as its hash
    MaxSlashes         \* bound on the slashes gained

ASSUME TransitAssumption ==
    /\ \A nc \in CiphertextNames : nc \in Seq(Range(nc)) \ {<< >>}
    /\ TrapdoorNames \subseteq Seq(Scalar) \ {<< >>}
    /\ \A digest \in Digests : digest = Sha256(digest.sha256)
    /\ MaxSlashes \in Nat

VARIABLES sent, uri, slashes

vars == <<sent, uri, slashes>>

Messages ==
    [kind : {"interest"}, nc : CiphertextNames]
        \cup [kind : {"registration"}, t : Scalar]
        \cup [kind : {"name"}, nt : TrapdoorNames]
        \cup [kind : {"update"}, nt : TrapdoorNames, hash : Digests \cup OtherBytes]

Encode(m) ==
    CASE m.kind = "interest"     -> encode_ciphertext_name(m.nc)
      [] m.kind = "registration" -> encode_trapdoor_registration(m.t)
      [] m.kind = "name"         -> encode_trapdoor_name(m.nt)
      [] m.kind = "update"       -> encode_trapdoor_update(m.nt, m.hash)

Init ==
    /\ sent \in Messages
    /\ uri = Encode(sent)
    /\ slashes = 0

GainSlash(at) ==
    /\ slashes < MaxSlashes
    /\ uri' = [uri EXCEPT !.path = InsertAt(@, at, Text(""))]
    /\ slashes' = slashes + 1
    /\ UNCHANGED sent

Next == \E at \in 1..(Len(uri.path) + 1) : GainSlash(at)

Spec == Init /\ [][Next]_vars

-----------------------------------------------------------------------------
\* The trapdoor decoders want their marker at once, the ciphertext decoder
\* skips slashes there too.
StartsWell == sent.kind = "interest" \/ uri.path[1] # Text("")

\* The decoder of its format gets back what was encoded, slashes or not;
\* of an update with an empty hash the last trapdoor is taken for the hash.
RoundTrip ==
    StartsWell =>
        CASE sent.kind = "interest"     -> decode_ciphertext_name(uri) = Ok(sent.nc)
          [] sent.kind = "registration" -> decode_trapdoor_registration(uri) = Ok(sent.t)
          [] sent.kind = "name"         -> decode_trapdoor_name(uri) = Ok(sent.nt)
          [] sent.kind = "update" /\ sent.hash # NoBytes ->
                decode_trapdoor_update(uri) = Ok([trapdoors |-> sent.nt, hash |-> sent.hash])
          [] OTHER ->
                decode_trapdoor_update(uri).ok <=> Len(sent.nt) > 1

\* No handler takes a message for one of another kind: each decoder accepts
\* its own format only.  The trapdoor names that no handler sends are the
\* exception, they pass for updates.
OnlyItsOwnFormat ==
    /\ decode_ciphertext_name(uri).ok => sent.kind = "interest"
    /\ decode_trapdoor_registration(uri).ok => sent.kind = "registration"
    /\ decode_trapdoor_update(uri).ok => sent.kind = "update" \/ (sent.kind = "name" /\ Len(sent.nt) > 1)
    /\ decode_trapdoor_name(uri).ok =>
          sent.kind = "name" \/ (sent.kind = "update" /\ sent.hash \notin Digests)
=============================================================================
