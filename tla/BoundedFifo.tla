---------------------------- MODULE BoundedFifo ----------------------------
(***************************************************************************)
(* What a ring promises its users: a first-in, first-out queue of bounded   *)
(* length.  A producer asks for a sequence of items to be put at the end,    *)
(* whole or in part, and a consumer for a number of items to be taken from   *)
(* the front; each takes effect at once or not at all.  RteRing implements   *)
(* this specification.                                                      *)
(***************************************************************************)
EXTENDS Naturals, Sequences

CONSTANTS Producers, Consumers, Items, Capacity,
          MaxBurst,  \* bound on what a producer asks for at once
          Whole      \* the producers that put all they ask for, or nothing

VARIABLES queue,   \* the items, oldest first
          asked,   \* per producer, the items it is putting (or <<>>)
          got      \* per consumer, the items it has just taken (or <<>>)

vars == <<queue, asked, got>>

Init == /\ queue = <<>>
        /\ asked = [p \in Producers |-> <<>>]
        /\ got = [c \in Consumers |-> <<>>]

Ask(p) == /\ asked[p] = <<>>
          /\ \E k \in 1 .. MaxBurst : \E s \in [1 .. k -> Items] :
                asked' = [asked EXCEPT ![p] = s]
          /\ UNCHANGED <<queue, got>>

Put(p) == /\ \E n \in 1 .. Len(asked[p]) :
                /\ p \in Whole => n = Len(asked[p])
                /\ Len(queue) + n <= Capacity
                /\ queue' = queue \o SubSeq(asked[p], 1, n)
          /\ asked' = [asked EXCEPT ![p] = <<>>]
          /\ UNCHANGED got

Refuse(p) == /\ asked' = [asked EXCEPT ![p] = <<>>]
             /\ UNCHANGED <<queue, got>>

Take(c) == /\ got[c] = <<>>
           /\ \E n \in 1 .. Len(queue) :
                /\ got' = [got EXCEPT ![c] = SubSeq(queue, 1, n)]
                /\ queue' = SubSeq(queue, n + 1, Len(queue))
           /\ UNCHANGED asked

Return(c) == /\ got' = [got EXCEPT ![c] = <<>>]
             /\ UNCHANGED <<queue, asked>>

Next == \/ \E p \in Producers : Ask(p) \/ Put(p) \/ Refuse(p)
        \/ \E c \in Consumers : Take(c) \/ Return(c)

Spec == Init /\ [][Next]_vars
=============================================================================
