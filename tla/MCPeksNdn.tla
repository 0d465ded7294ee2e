----------------------------- MODULE MCPeksNdn ------------------------------
(***************************************************************************)
(* Instances of PeksNdn for TLC.                                           *)
(***************************************************************************)
EXTENDS PeksNdn, MCField

MCPrefix == <<"p">>

\* "/p" is the prefix itself, so a name with the prefix's own trapdoors.
NestedNames == {P, PA}
AliasNames == {PA, PslashA, PABad}
\* With the prefix /p/a: one name that is the prefix, one beside it and one
\* elsewhere, which is shorter.
LongPrefix == <<"p", "a">>
MixedNames == {PA, PB, B}

TwoDraws == {<<1, 2>>, <<2, 3>>}
ThreeDraws == TwoDraws \cup {<<3, 1>>}
\* Zero for no component, for the second only, or for all.
ZeroDraws == {<<1, 2>>, <<2, 0>>, <<0, 0>>}

\* A URI of some other forwarding strategy, and a ciphertext cut short.
OtherUri == [strategy |-> FALSE, path |-> <<Text("a")>>]
BrokenUri == PeksUri(<<Encode64([truncated |-> 1])>>)
OneForeign == {OtherUri}
CutShort == {BrokenUri}
=============================================================================
