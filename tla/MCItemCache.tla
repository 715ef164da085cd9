---------------------------- MODULE MCItemCache ----------------------------
(* Instances of ItemCache: three items, two of them linked and one free. *)
EXTENDS ItemCache, TLC

CONSTANTS w1, w2, i1, i2, i3, k1, k2

MCPage == <<i1, i3>>
MCLru == <<i1, i2>>
MCKey0 == (i1 :> k1) @@ (i2 :> k2) @@ (i3 :> k1)

=============================================================================
