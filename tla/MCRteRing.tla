----------------------------- MODULE MCRteRing -----------------------------
(* RteRing for TLC: a call enqueues one item or two different ones.          *)
EXTENDS RteRing

MCBursts == {<<"a">>, <<"b", "a">>}
=============================================================================
