------------------------------ MODULE RteRing ------------------------------
(***************************************************************************)
(* The ring of DPDK (lib/librte_ring) through which the lcores of the stack  *)
(* pass buffers and fragments.  Each side has a head, moved by compare and   *)
(* set, and a tail, moved in the order of the heads once the slots are       *)
(* copied.  The two sides run the same code: only what bounds the head and   *)
(* the direction of the copy differ.  Indices are kept modulo Width (2^32).  *)
(*                                                                         *)
(* The stack calls the multi-producer and multi-consumer functions, but for  *)
(* the enqueue on the in ring and the dequeue on the out ring (Single).      *)
(***************************************************************************)
EXTENDS Integers, Sequences

CONSTANTS Producers, Consumers,
          Single,     \* the sides that use the single-thread functions
          Variable,   \* the threads that use the burst functions
          Size,       \* slots, a power of 2
          Width,      \* indices are kept modulo Width, a multiple of Size
          Items,      \* what is stored
          Bursts,     \* what a producer may ask to enqueue in one call
          MaxBurst,   \* bound on the items of one call
          NONE        \* an empty slot

Sides == {"prod", "cons"}
Capacity == Size - 1

ASSUME RingAssumption ==
    /\ Producers \cap Consumers = {} /\ Single \subseteq Sides /\ NONE \notin Items
    /\ Size \in Nat \ {0} /\ MaxBurst \in Nat \ {0}
    /\ Width \in Nat /\ Width > Size /\ Width % Size = 0

ASSUME BurstsAssumption ==
    \A s \in Bursts : \E k \in 1 .. MaxBurst : s \in [1 .. k -> Items]

VARIABLES head, tail,  \* r->prod and r->cons
          slots,       \* the memory behind the ring, by index modulo Size
          pc,          \* a thread's place in its call
          max, n,      \* the items asked for, and those granted
          old,         \* old_head
          buf          \* obj_table: what is enqueued, what was dequeued

callVars == <<max, buf>>
vars == <<head, tail, slots, pc, n, old, callVars>>

Threads == Producers \cup Consumers
Side(t) == IF t \in Producers THEN "prod" ELSE "cons"

\* The functions for a single thread are called by one.
ASSUME SingleAssumption ==
    \A t, u \in Threads : Side(t) = Side(u) /\ Side(t) \in Single => t = u

Init == /\ head = [s \in Sides |-> 0] /\ tail = [s \in Sides |-> 0]
        /\ slots = [i \in 0 .. Size - 1 |-> NONE]
        /\ pc = [t \in Threads |-> "idle"]
        /\ max = [t \in Threads |-> 0] /\ n = [t \in Threads |-> 0]
        /\ old = [t \in Threads |-> 0]
        /\ buf = [t \in Threads |-> <<>>]

-----------------------------------------------------------------------------
Goto(t, from, to) == pc[t] = from /\ pc' = [pc EXCEPT ![t] = to]

\* Steps from index i to index j.
Dist(i, j) == (j - i) % Width

\* The slot of index i.
Slot(i) == i % Size

\* The slots of the k items from index i on.
Range(i, k) == {Slot(i + j) : j \in 0 .. k - 1}

Call(t) ==
    /\ Goto(t, "idle", "head")
    /\ \/ /\ t \in Producers
          /\ \E s \in Bursts : /\ buf' = [buf EXCEPT ![t] = s]
                               /\ max' = [max EXCEPT ![t] = Len(s)]
       \/ /\ t \in Consumers
          /\ \E k \in 1 .. MaxBurst : max' = [max EXCEPT ![t] = k]
          /\ UNCHANGED buf
    /\ UNCHANGED <<head, tail, slots, n, old>>

\* The locals of a call end with it.
Forget(t) == /\ max' = [max EXCEPT ![t] = 0] /\ n' = [n EXCEPT ![t] = 0]
             /\ old' = [old EXCEPT ![t] = 0]
             /\ buf' = [buf EXCEPT ![t] = <<>>]

ReadHead(t) ==
    /\ Goto(t, "head", "room")
    /\ old' = [old EXCEPT ![t] = head[Side(t)]]
    /\ UNCHANGED <<head, tail, slots, n, callVars>>

\* Mutant: the consumers look at the head of the producers.
EntriesAtHead(t) ==
    IF t \in Producers THEN Dist(old[t], Capacity + tail["cons"])
                       ELSE Dist(old[t], head["prod"])

\* Mutant: one entry is overlooked.
EntriesOneLess(t) ==
    IF t \in Producers THEN Dist(old[t], Capacity - 1 + tail["cons"])
                       ELSE Dist(old[t], tail["prod"])

\* free_entries of a producer, entries of a consumer
Entries(t) ==
    IF t \in Producers THEN Dist(old[t], Capacity + tail["cons"])
                       ELSE Dist(old[t], tail["prod"])

Granted(t) == IF max[t] <= Entries(t) THEN max[t]
              ELSE IF t \in Variable THEN Entries(t) ELSE 0

Room(t) ==
    /\ Granted(t) > 0
    /\ Goto(t, "room", "move")
    /\ n' = [n EXCEPT ![t] = Granted(t)]
    /\ UNCHANGED <<head, tail, slots, old, callVars>>

NoRoom(t) ==
    /\ Granted(t) = 0
    /\ Goto(t, "room", "idle")
    /\ Forget(t)
    /\ UNCHANGED <<head, tail, slots>>

\* the compare of the compare and set
MayMove(t) == Side(t) \in Single \/ head[Side(t)] = old[t]

\* Bound: between its read of the head and its compare and set a thread is not
\* overtaken by almost Width items (2^32 in the code).
NoLap(t) == \A u \in Threads :
    Side(u) = Side(t) /\ u # t /\ pc[u] \in {"room", "move"} =>
        Dist(old[u], head[Side(t)]) + n[t] + Size <= Width

Move(t) ==
    /\ MayMove(t) /\ NoLap(t)
    /\ Goto(t, "move", "copy")
    /\ head' = [head EXCEPT ![Side(t)] = (old[t] + n[t]) % Width]
    /\ UNCHANGED <<tail, slots, n, old, callVars>>

Retry(t) ==
    /\ ~MayMove(t)
    /\ Goto(t, "move", "head")
    /\ n' = [n EXCEPT ![t] = 0] /\ old' = [old EXCEPT ![t] = 0]
    /\ UNCHANGED <<head, tail, slots, callVars>>

Copy(t) ==
    /\ Goto(t, "copy", "tail")
    /\ \/ /\ t \in Producers
          /\ slots' = [i \in 0 .. Size - 1 |->
                         IF \E j \in 1 .. n[t] : i = Slot(old[t] + j - 1)
                         THEN buf[t][CHOOSE j \in 1 .. n[t] : i = Slot(old[t] + j - 1)]
                         ELSE slots[i]]
          /\ UNCHANGED buf
       \/ /\ t \in Consumers
          /\ buf' = [buf EXCEPT ![t] = [j \in 1 .. n[t] |-> slots[Slot(old[t] + j - 1)]]]
          /\ UNCHANGED slots
    /\ UNCHANGED <<head, tail, n, old, max>>

\* Mutant: the tail is moved out of turn.
MayPublishAlways(t) == TRUE

\* Mutant: the wait is for the value that the call itself will write.
MayPublishLate(t) == tail[Side(t)] = (old[t] + n[t]) % Width

\* update_tail waits for the calls that moved the head before
MayPublish(t) == Side(t) \in Single \/ tail[Side(t)] = old[t]

Publish(t) ==
    /\ MayPublish(t)
    /\ Goto(t, "tail", "idle")
    /\ tail' = [tail EXCEPT ![Side(t)] = (old[t] + n[t]) % Width]
    /\ Forget(t)
    /\ UNCHANGED <<head, slots>>

Step(t) == \/ ReadHead(t) \/ Room(t) \/ NoRoom(t) \/ Move(t) \/ Retry(t)
           \/ Copy(t) \/ Publish(t)

Next == \E t \in Threads : Call(t) \/ Step(t)

Spec == Init /\ [][Next]_vars

-----------------------------------------------------------------------------
(* Properties.                                                             *)

Indices == 0 .. Width - 1

\* Types of the ring's state.
TypeOK ==
    /\ head \in [Sides -> Indices] /\ tail \in [Sides -> Indices]
    /\ slots \in [0 .. Size - 1 -> Items \cup {NONE}]
    /\ pc \in [Threads -> {"idle", "head", "room", "move", "copy", "tail"}]
    /\ max \in [Threads -> 0 .. MaxBurst] /\ n \in [Threads -> 0 .. MaxBurst]
    /\ old \in [Threads -> Indices]
    /\ buf \in [Threads -> Seq(Items)]

\* The calls that have moved the head and not yet the tail.
Busy(t) == pc[t] \in {"copy", "tail"}

\* Two calls never copy to or from the same slot at once: head and tail keep
\* producers off the slots that a consumer still reads, and the other way.
SlotsApart ==
    \A t, u \in Threads :
        t # u /\ Busy(t) /\ Busy(u) => Range(old[t], n[t]) \cap Range(old[u], n[u]) = {}

Refusal == \A t \in Threads : NoRoom(t) /\ max[t] = 1 =>
              IF t \in Producers THEN Dist(tail["cons"], head["prod"]) = Capacity
                                 ELSE head["cons"] = tail["prod"]

\* A call for one item returns with nothing only when it must: a producer when
\* every slot is taken, a consumer when there is none to take, both counted at
\* that moment.  (Of calls for several items nothing is said: an exact one may be
\* refused for a count that is old by then.)
RefusedForCause == [][Refusal]_vars

\* The ring is a bounded first-in, first-out queue: an enqueue takes effect where
\* the tail of the producers moves, a dequeue where the head of the consumers does.
Stored(i, k) == [j \in 1 .. k |-> slots[Slot(i + j - 1)]]

Fifo == INSTANCE BoundedFifo WITH
          queue <- Stored(head["cons"], Dist(head["cons"], tail["prod"])),
          asked <- [p \in Producers |-> buf[p]],
          Whole <- Producers \ Variable,
          got <- [c \in Consumers |->
                    IF pc[c] = "copy" THEN Stored(old[c], n[c]) ELSE buf[c]]
ImplementsFifo == Fifo!Spec

\* Whoever moved a head waits for those that moved it before: on each side one of
\* the calls between head and tail has its turn, so they never wait in a circle,
\* however retries and failed calls fall between.
TurnComes == \A t \in Threads : Busy(t) =>
                \E u \in Threads : Side(u) = Side(t) /\ Busy(u) /\ MayPublish(u)
=============================================================================
