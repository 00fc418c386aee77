--------------------------- MODULE MCSigningCase ---------------------------
(* Instances of SigningCase for TLC. *)
EXTENDS SigningCase

CONSTANTS ann, bo, cia, minutes, annex

Two == {ann, bo}
Three == {ann, bo, cia}
OneDocument == {minutes}
TwoDocuments == {minutes, annex}

(* One after the other; a pair, then an optional third. *)
InTurn == [s \in Two |-> IF s = ann THEN 1 ELSE 2]
PairThenOne == [s \in Three |-> IF s = cia THEN 2 ELSE 1]
ThePair == {ann, bo}
=============================================================================
