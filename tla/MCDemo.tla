------------------------------- MODULE MCDemo -------------------------------
(***************************************************************************)
(* Instances of Demo for TLC.                                              *)
(***************************************************************************)
EXTENDS Demo, MCField

MCPrefix == <<"p">>
\* One name is on two lines, one is the prefix; one name is spelt in two ways,
\* either of which may get the first row; no name; a name without a slash.
MCFiles ==
    {<<PA, P, <<"">>, PB, PA>>, <<PA, PslashA, PA>>, << >>, << <<"">> >>, <<PA, PABad>>}
MCNonce == << <<1, 2>>, <<2, 3>>, <<3, 4>>, <<4, 1>> >>

\* Two names that have two components in common.
SiblingFiles == {<< <<"", "p", "a", "a">>, PAB>>}
SiblingNonce == << <<1, 2, 3>>, <<2, 3, 4>> >>
=============================================================================
