-------------------------- MODULE MCRevisionChain --------------------------
(* Instances of RevisionChain for TLC. *)
EXTENDS RevisionChain

CONSTANTS ann, bo, cia, none, t1, t2

TwoSigners == {ann, bo}
ThreeSigners == {ann, bo, cia}
TwoThreads == {t1, t2}
ThreeStamps == 1..3

(* One signs first, then two in parallel. *)
OneThenTwo == [s \in ThreeSigners |-> IF s = ann THEN {} ELSE {ann}]
NoTurns == [s \in TwoSigners |-> {}]

PolicyOf(level, timestamp) == [level |-> level, timestamp |-> timestamp, allowed |-> {"TOTAL_PASSED"}]
OrdinaryPolicy == {PolicyOf("B", FALSE)}
EveryKindOfPolicy ==
    OrdinaryPolicy \cup {PolicyOf("B", TRUE), PolicyOf("T", TRUE), PolicyOf("LT", TRUE)}
    \cup {[level |-> "B", timestamp |-> FALSE, allowed |-> {"TOTAL_PASSED", "INDETERMINATE"}]}
=============================================================================
