----------------------------- MODULE MCBrowsing -----------------------------
(***************************************************************************)
(* Browsing for TLC: no definition tells one address from another, so they *)
(* may be exchanged.                                                       *)
(***************************************************************************)
EXTENDS Browsing, TLC

Addresses == Permutations(Url)
=============================================================================
