--------------------------- MODULE MCChallengeProof ---------------------------
(* A finite instance of ChallengeProof for TLC.                            *)
EXTENDS ChallengeProof, TLC

wide == <<"lead", "tail">>

\* With at most two characters: the longest proof, a longer file that begins with
\* one, three letters, and a rune that is cut.
BoundaryProofs ==
  {wide \o wide, wide \o wide \o wide, <<"letter", "letter", "letter">>, <<"letter", "lead">>}

Symmetry == Permutations(Inodes)
=============================================================================
