------------------------------- MODULE MCListing -------------------------------
(* Three rows, two on a page, and two microseconds in a millisecond. *)
EXTENDS Listing

ThreeRows == 1..3
Cases == {"cases"}
================================================================================
