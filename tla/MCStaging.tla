----------------------------- MODULE MCStaging -----------------------------
(* Offsets in units of half an alignment: three sizes around a chunk of    *)
(* four, the largest with a chunk of its own.                              *)
EXTENDS Staging

MCSizes == {1, 3, 5}
=============================================================================
