---------------------------- MODULE MCUstackTcp ----------------------------
(* Instances of UstackTcp for TLC.                                         *)
EXTENDS UstackTcp, TLC

\* Clients, and streams other than the listener, are interchangeable.
Symmetry == Permutations(Clients) \cup Permutations(Streams \ {Listener})
=============================================================================
