--------------------------- MODULE MCUriInTransit ---------------------------
(***************************************************************************)
(* Names of one and two components; an update may carry a digest, bytes    *)
(* that are themselves a trapdoor, or no bytes at all.                     *)
(***************************************************************************)
EXTENDS UriInTransit, MCField

MCCiphertextNames == {name_to_ciphertext(2, n, <<3, 1>>).val : n \in {P, PA}}
MCTrapdoorNames == {name_to_trapdoor(2, n).val : n \in {P, PA}}
MCDigests == {Sha256(1)}
MCOtherBytes == {TrapdoorBytes(1), NoBytes}
=============================================================================
