------------------------------ MODULE MCPrivacy ------------------------------
(* Two requests of one data subject. *)
EXTENDS Privacy

CONSTANTS r1, r2, ann, none

TwoRequests == {r1, r2}
OneSubject == {ann}
==============================================================================
