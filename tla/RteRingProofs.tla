--------------------------- MODULE RteRingProofs ---------------------------
(***************************************************************************)
(* Of RteRing, for any numbers of producers and consumers, any size, width *)
(* and bursts: calls in progress never share a slot, a call is refused     *)
(* only when it must be, one of the calls that wait always has its turn,   *)
(* and the ring is a bounded queue.                                        *)
(*                                                                         *)
(* The indices of the ring are remainders.  The invariant says that there  *)
(* are numbers that never wrap, of which they are the remainders, and      *)
(* orders them.                                                            *)
(***************************************************************************)
EXTENDS RteRing, TLAPS

-----------------------------------------------------------------------------
(* Remainders.                                                             *)

\* Quotient and remainder.
LEMMA ModSplit ==
    ASSUME NEW a \in Int, NEW d \in Nat \ {0}
    PROVE  /\ a % d \in 0 .. (d - 1)
           /\ \E q \in Int : a = (d * q) + (a % d)
<1>1. a % d \in 0 .. (d - 1) /\ (a \div d) \in Int /\ a = (d * (a \div d)) + (a % d)
  OBVIOUS
<1> QED  BY <1>1

LEMMA ModUnique ==
    ASSUME NEW d \in Nat \ {0}, NEW q \in Int, NEW r \in 0 .. (d - 1)
    PROVE  ((d * q) + r) % d = r
  OBVIOUS

\* Adding a multiple changes nothing.
LEMMA ModMultiple ==
    ASSUME NEW a \in Int, NEW q \in Int, NEW d \in Nat \ {0}
    PROVE  (a + (d * q)) % d = a % d
<1>1. PICK r \in 0 .. (d - 1), p \in Int : r = a % d /\ a = (d * p) + r
  BY ModSplit
<1>2. a + (d * q) = (d * (p + q)) + r
  BY <1>1
<1>3. ((d * (p + q)) + r) % d = r
  BY ModUnique
<1> QED  BY <1>1, <1>2, <1>3

LEMMA ModAdd ==
    ASSUME NEW a \in Int, NEW b \in Int, NEW d \in Nat \ {0}
    PROVE  ((a % d) + b) % d = (a + b) % d
<1>1. PICK r \in 0 .. (d - 1), p \in Int : r = a % d /\ a = (d * p) + r
  BY ModSplit
<1>2. PICK z \in Int : z = r + b
  OBVIOUS
<1>3. (z + (d * p)) % d = z % d
  BY ModMultiple
<1>4. a + b = z + (d * p)
  <2>1. PICK m \in Int : m = d * p
    OBVIOUS
  <2>2. a = m + r /\ r \in Int
    BY <1>1, <2>1
  <2> QED  BY <1>2, <2>1, <2>2
<1> QED  BY <1>1, <1>2, <1>3, <1>4

LEMMA ModSub ==
    ASSUME NEW a \in Int, NEW b \in Int, NEW d \in Nat \ {0}
    PROVE  (a - (b % d)) % d = (a - b) % d
<1>1. PICK r \in 0 .. (d - 1), p \in Int : r = b % d /\ b = (d * p) + r
  BY ModSplit
<1>2. PICK z \in Int : z = a - b
  OBVIOUS
<1>3. (z + (d * p)) % d = z % d
  BY ModMultiple
<1>4. a - r = z + (d * p)
  <2>1. PICK m \in Int : m = d * p
    OBVIOUS
  <2>2. b = m + r /\ r \in Int
    BY <1>1, <2>1
  <2> QED  BY <1>2, <2>1, <2>2
<1> QED  BY <1>1, <1>2, <1>3, <1>4

LEMMA ModSmall ==
    ASSUME NEW a \in Int, NEW d \in Nat \ {0}, 0 <= a, a < d
    PROVE  a % d = a
  OBVIOUS

LEMMA MulBig ==
    ASSUME NEW d \in Nat \ {0}, NEW k \in Int, d * k < d, 0 - d < d * k
    PROVE  k = 0
<1>1. k > 0 => d * k >= d
  OBVIOUS
<1>2. k < 0 => d * k <= 0 - d
  OBVIOUS
<1> QED  BY <1>1, <1>2

LEMMA ModInj ==
    ASSUME NEW a \in Int, NEW b \in Int, NEW d \in Nat \ {0},
           a % d = b % d, a - b < d, b - a < d
    PROVE  a = b
<1>1. PICK r \in 0 .. (d - 1), p \in Int : r = a % d /\ a = (d * p) + r
  BY ModSplit
<1>2. PICK s \in 0 .. (d - 1), q \in Int : s = b % d /\ b = (d * q) + s
  BY ModSplit
<1>3. a - b = d * (p - q) /\ r = s
  BY <1>1, <1>2
<1>4. d * (p - q) < d /\ 0 - d < d * (p - q)
  BY <1>3
<1>5. p - q = 0
  BY <1>4, MulBig
<1> QED  BY <1>3, <1>5

\* An index modulo w names the slot of the index, since d divides w.
LEMMA ModMod ==
    ASSUME NEW a \in Int, NEW k \in Int, NEW w \in Nat \ {0}, NEW d \in Nat \ {0}, w % d = 0
    PROVE  ((a % w) + k) % d = (a + k) % d
<1>1. PICK r \in Int, p \in Int : r = a % w /\ a = (w * p) + r
  <2>1. (a % w) \in 0 .. (w - 1) /\ \E p \in Int : a = (w * p) + (a % w)
    BY ModSplit, Zenon
  <2>2. (a % w) \in Int
    BY <2>1
  <2> QED  BY <2>1, <2>2
<1>2. PICK q \in Int : w = d * q
  <2>1. w \in Int
    OBVIOUS
  <2>2. PICK z \in Int : w = (d * z) + (w % d)
    BY <2>1, ModSplit
  <2> QED  BY <2>2
<1>3. PICK m \in Int, y \in Int : m = q * p /\ y = r + k
  OBVIOUS
<1>4. a + k = y + (d * m)
  <2>1. w * p = d * m
    BY <1>2, <1>3
  <2>2. PICK x \in Int : x = w * p
    OBVIOUS
  <2>3. a = x + r
    BY <1>1, <2>2
  <2> QED  BY <1>3, <2>1, <2>2, <2>3
<1>5. (y + (d * m)) % d = y % d
  BY ModMultiple
<1> QED  BY <1>1, <1>3, <1>4, <1>5

-----------------------------------------------------------------------------
(* The invariant.                                                          *)

TypeInv ==
    /\ pc \in [Threads -> {"idle", "head", "room", "move", "copy", "tail"}]
    /\ head \in [Sides -> Int] /\ tail \in [Sides -> Int]
    /\ old \in [Threads -> Int] /\ n \in [Threads -> Nat] /\ max \in [Threads -> Nat]

\* The indices, and the heads that the calls have read, before they were wrapped.
Wraps(h, t, o) ==
    /\ \A s \in Sides : head[s] = h[s] % Width /\ tail[s] = t[s] % Width
    /\ \A u \in Threads : old[u] = o[u] % Width

\* Each side's tail follows its head, and the consumers follow the producers.
Ordered(h, t) ==
    /\ t["cons"] <= h["cons"] /\ h["cons"] <= t["prod"]
    /\ t["prod"] <= h["prod"] /\ h["prod"] <= t["cons"] + Capacity

Limit(s, t) == IF s = "prod" THEN t["cons"] + Capacity ELSE t["prod"]

\* A call that has read the head: it is not a lap behind, and if the head
\* has not moved, what was granted is still there.
ReadInv(h, t, o) ==
    \A u \in Threads : pc[u] \in {"room", "move"} =>
        /\ o[u] <= h[Side(u)] /\ h[Side(u)] + Size <= o[u] + Width
        /\ pc[u] = "move" /\ o[u] = h[Side(u)] => n[u] > 0 /\ o[u] + n[u] <= Limit(Side(u), t)

\* A call that has moved the head holds a part of what lies between tail and head,
BusyInv(h, t, o) ==
    \A u \in Threads : Busy(u) => /\ n[u] > 0
                                  /\ t[Side(u)] <= o[u] /\ o[u] + n[u] <= h[Side(u)]

\* of which no other call has any.
ApartInv(o) ==
    \A u, v \in Threads : u # v /\ Side(u) = Side(v) /\ Busy(u) /\ Busy(v) =>
                              o[u] + n[u] <= o[v] \/ o[v] + n[v] <= o[u]

\* One thread alone knows the head without a comparison.
SingleInv(h, t, o) ==
    \A u \in Threads : Side(u) \in Single =>
        /\ pc[u] \in {"room", "move"} => o[u] = h[Side(u)]
        /\ IF Busy(u) THEN o[u] = t[Side(u)] /\ o[u] + n[u] = h[Side(u)]
                      ELSE h[Side(u)] = t[Side(u)]

\* All that lies between tail and head is held by some call.
CoverInv(h, t, o) ==
    \A s \in Sides, x \in Int : t[s] <= x /\ x < h[s] =>
        \E u \in Threads : Side(u) = s /\ Busy(u) /\ o[u] <= x /\ x < o[u] + n[u]

Unwrapped(h, t, o) == /\ Wraps(h, t, o) /\ Ordered(h, t) /\ ReadInv(h, t, o)
                      /\ BusyInv(h, t, o) /\ ApartInv(o) /\ SingleInv(h, t, o)
                      /\ CoverInv(h, t, o)

RingInv == \E h, t \in [Sides -> Int], o \in [Threads -> Int] : Unwrapped(h, t, o)

IInv == TypeInv /\ RingInv

USE RingAssumption

LEMMA SideType == \A u \in Threads : Side(u) \in Sides
  BY DEF Side, Sides

LEMMA WidthType == /\ Width \in Nat \ {0} /\ Size \in Nat \ {0} /\ Width % Size = 0
                   /\ Capacity \in Nat /\ Capacity = Size - 1 /\ Capacity < Width
  BY DEF Capacity

LEMMA DistIs ==
    ASSUME NEW a \in Int, NEW b \in Int, a <= b, b < a + Width
    PROVE  Dist(a % Width, b % Width) = b - a
<1>1. ((b % Width) - (a % Width)) % Width = ((b % Width) - a) % Width
  <2>1. (b % Width) \in Int
    BY WidthType, ModSplit
  <2> QED  BY <2>1, WidthType, ModSub
<1>2. ((b % Width) - a) % Width = (b - a) % Width
  <2>1. PICK z \in Int : z = 0 - a
    OBVIOUS
  <2>2. ((b % Width) + z) % Width = (b + z) % Width
    BY WidthType, ModAdd
  <2>3. (b % Width) \in Int
    BY WidthType, ModSplit
  <2>4. (b % Width) + z = (b % Width) - a /\ b + z = b - a
    BY <2>1, <2>3
  <2> QED  BY <2>2, <2>4
<1>3. PICK y \in Int : y = b - a
  OBVIOUS
<1>4. y % Width = y
  BY <1>3, WidthType, ModSmall
<1> QED  BY <1>1, <1>2, <1>3, <1>4 DEF Dist

LEMMA FreeIs ==
    ASSUME NEW a \in Int, NEW b \in Int, a <= b + Capacity, b + Capacity < a + Width
    PROVE  Dist(a % Width, Capacity + (b % Width)) = b + Capacity - a
<1>1. PICK x \in Int : x = (b % Width) + Capacity
  BY WidthType, ModSplit
<1>2. (x - (a % Width)) % Width = (x - a) % Width
  BY WidthType, ModSub
<1>3. PICK z \in Int : z = Capacity - a
  BY WidthType
<1>4. ((b % Width) + z) % Width = (b + z) % Width
  BY WidthType, ModAdd
<1>5. (b % Width) \in Int
  BY WidthType, ModSplit
<1>6. PICK r \in Int : r = b % Width
  BY <1>5
<1>7. x - a = r + z /\ Capacity + r = x
  BY <1>1, <1>3, <1>6, WidthType
<1>8. PICK y \in Int : y = b + z
  OBVIOUS
<1>9. y = b + Capacity - a /\ 0 <= y /\ y < Width
  BY <1>3, <1>8, WidthType
<1>10. y % Width = y
  BY <1>9, WidthType, ModSmall
<1> QED  BY <1>1, <1>2, <1>4, <1>6, <1>7, <1>8, <1>9, <1>10 DEF Dist

-----------------------------------------------------------------------------
(* The steps.                                                              *)

LEMMA InitHolds == Init => IInv
<1> SUFFICES ASSUME Init PROVE IInv
  OBVIOUS
<1>1. TypeInv
  BY DEF Init, TypeInv
<1> DEFINE h == [s \in Sides |-> 0]
           o == [u \in Threads |-> 0]
<1>2. Wraps(h, h, o)
  BY WidthType, ModSmall DEF Init, Wraps
<1>3. Ordered(h, h)
  BY WidthType DEF Ordered, Sides
<1>4. ReadInv(h, h, o) /\ BusyInv(h, h, o) /\ ApartInv(o) /\ SingleInv(h, h, o)
  BY SideType DEF Init, ReadInv, BusyInv, ApartInv, SingleInv, Busy
<1>5. h \in [Sides -> Int] /\ o \in [Threads -> Int]
  OBVIOUS
<1>6. CoverInv(h, h, o)
  BY DEF CoverInv
<1> QED  BY <1>1, <1>2, <1>3, <1>4, <1>5, <1>6 DEF IInv, RingInv, Unwrapped

LEMMA TypeHolds == TypeInv /\ [Next]_vars => TypeInv'
<1> SUFFICES ASSUME TypeInv, [Next]_vars PROVE TypeInv'
  OBVIOUS
<1> USE SideType DEF TypeInv, Goto, Forget
<1>1. ASSUME NEW u \in Threads, Call(u) PROVE TypeInv'
  <2>1. CASE u \in Producers /\ \E s \in Bursts : max' = [max EXCEPT ![u] = Len(s)]
    <3>0. PICK b \in Bursts : max' = [max EXCEPT ![u] = Len(b)]
      BY <2>1
    <3>1. PICK k \in 1 .. MaxBurst : b \in [1 .. k -> Items]
      BY <3>0, BurstsAssumption
    <3>2. b \in Seq(Items)
      BY <3>1
    <3>3. Len(b) \in Nat
      BY <3>2
    <3> QED  BY <1>1, <3>0, <3>3 DEF Call
  <2>2. CASE \E k \in 1 .. MaxBurst : max' = [max EXCEPT ![u] = k]
    BY <1>1, <2>2 DEF Call
  <2> QED  BY <1>1, <2>1, <2>2 DEF Call
<1>2. ASSUME NEW u \in Threads, ReadHead(u) \/ NoRoom(u) \/ Retry(u) \/ Copy(u) PROVE TypeInv'
  <2>1. CASE ReadHead(u)
    BY <2>1 DEF ReadHead, callVars
  <2>2. CASE NoRoom(u)
    BY <2>2 DEF NoRoom
  <2>3. CASE Retry(u)
    BY <2>3 DEF Retry, callVars
  <2>4. CASE Copy(u)
    BY <2>4 DEF Copy
  <2> QED  BY <1>2, <2>1, <2>2, <2>3, <2>4
<1>3. ASSUME NEW x \in Int PROVE x % Width \in Int
  BY WidthType, ModSplit
<1>4. ASSUME NEW u \in Threads, Room(u) PROVE TypeInv'
  <2>1. Entries(u) \in Int
    <3>1. PICK y \in Int : y = Capacity + tail["cons"] - old[u]
      BY WidthType DEF Sides
    <3>2. PICK z \in Int : z = tail["prod"] - old[u]
      BY DEF Sides
    <3>3. Entries(u) \in {y % Width, z % Width}
      BY <3>1, <3>2, WidthType DEF Entries, Dist, Sides
    <3> QED  BY <1>3, <3>3
  <2>2. Granted(u) \in Nat
    BY <1>4, <2>1 DEF Granted, Room
  <2> QED  BY <1>4, <2>2 DEF Room, callVars
<1>5. ASSUME NEW u \in Threads PROVE (old[u] + n[u]) % Width \in Int
  <2>1. PICK x \in Int : x = old[u] + n[u]
    OBVIOUS
  <2> QED  BY <1>3, <2>1
<1>6. ASSUME NEW u \in Threads, Move(u) \/ Publish(u) PROVE TypeInv'
  <2>1. PICK r \in Int : r = (old[u] + n[u]) % Width
    BY <1>5
  <2>2. CASE Move(u)
    BY <2>1, <2>2 DEF Move, callVars
  <2>3. CASE Publish(u)
    BY <2>1, <2>3 DEF Publish
  <2> QED  BY <1>6, <2>2, <2>3
<1>7. CASE UNCHANGED vars
  BY <1>7 DEF vars, callVars
<1> QED  BY <1>1, <1>2, <1>4, <1>6, <1>7 DEF Next, Step

\* What a call that is not in room or move does to its own locals is of no account.
LEMMA QuietHolds ==
    ASSUME TypeInv, TypeInv', NEW u \in Threads, NEW h \in [Sides -> Int], NEW t \in [Sides -> Int],
           NEW o \in [Threads -> Int], Unwrapped(h, t, o),
           UNCHANGED <<head, tail>>, ~Busy(u), ~Busy(u)',
           \A v \in Threads \ {u} : pc'[v] = pc[v] /\ n'[v] = n[v] /\ old'[v] = old[v],
           \/ pc'[u] \notin {"room", "move"} /\ old'[u] = 0
           \/ pc'[u] \notin {"room", "move"} /\ old'[u] = old[u]
           \/ pc'[u] = "room" /\ old'[u] = head[Side(u)]
    PROVE  RingInv'
<1> PICK x \in Int : /\ x % Width = old'[u]
                     /\ pc'[u] \in {"room", "move"} => pc'[u] = "room" /\ x = h[Side(u)]
  <2>1. 0 % Width = 0
    BY WidthType, ModSmall
  <2>2. h[Side(u)] \in Int /\ o[u] \in Int /\ head[Side(u)] = h[Side(u)] % Width /\ old[u] = o[u] % Width
    BY SideType DEF Unwrapped, Wraps
  <2> QED  BY <2>1, <2>2
<1> DEFINE p == [o EXCEPT ![u] = x]
<1>1. p \in [Threads -> Int] /\ p[u] = x /\ \A v \in Threads \ {u} : p[v] = o[v]
  OBVIOUS
<1> HIDE DEF p
<1>2. Wraps(h, t, p)'
  BY <1>1 DEF Unwrapped, Wraps
<1>3. ReadInv(h, t, p)'
  BY <1>1, SideType, WidthType DEF Unwrapped, ReadInv, TypeInv
<1>4. BusyInv(h, t, p)' /\ ApartInv(p)'
  BY <1>1 DEF Unwrapped, BusyInv, ApartInv, Busy
<1>5. SingleInv(h, t, p)'
  BY <1>1 DEF Unwrapped, SingleInv, Busy
<1>6. CoverInv(h, t, p)'
  BY <1>1 DEF Unwrapped, CoverInv, Busy
<1> QED  BY <1>1, <1>2, <1>3, <1>4, <1>5, <1>6 DEF Unwrapped, RingInv

\* What a call is granted fits between the head and its limit, if the head is
\* still the one that the call has read.
LEMMA EntriesIs ==
    ASSUME NEW u \in Threads, NEW h \in [Sides -> Int], NEW t \in [Sides -> Int],
           NEW o \in [Threads -> Int], Wraps(h, t, o), Ordered(h, t),
           o[u] <= h[Side(u)], h[Side(u)] + Size <= o[u] + Width
    PROVE  Entries(u) = Limit(Side(u), t) - o[u]
<1>1. /\ h["cons"] \in Int /\ h["prod"] \in Int /\ t["cons"] \in Int /\ t["prod"] \in Int /\ o[u] \in Int
      /\ old[u] = o[u] % Width /\ tail["cons"] = t["cons"] % Width /\ tail["prod"] = t["prod"] % Width
  BY DEF Wraps, Sides
<1>2. CASE u \in Producers
  <2>1. o[u] <= t["cons"] + Capacity /\ t["cons"] + Capacity < o[u] + Width
    BY <1>1, <1>2, WidthType DEF Ordered, Side
  <2>2. Dist(o[u] % Width, Capacity + (t["cons"] % Width)) = t["cons"] + Capacity - o[u]
    BY <1>1, <2>1, FreeIs
  <2>3. Entries(u) = Dist(o[u] % Width, Capacity + (t["cons"] % Width))
    BY <1>1, <1>2 DEF Entries
  <2>4. Limit(Side(u), t) = t["cons"] + Capacity
    BY <1>2 DEF Limit, Side
  <2> QED  BY <1>1, <2>2, <2>3, <2>4, WidthType
<1>3. CASE u \notin Producers
  <2>1. o[u] <= t["prod"] /\ t["prod"] < o[u] + Width
    BY <1>1, <1>3, WidthType DEF Ordered, Side
  <2>2. Dist(o[u] % Width, t["prod"] % Width) = t["prod"] - o[u]
    BY <1>1, <2>1, DistIs
  <2> QED  BY <1>1, <1>3, <2>2 DEF Entries, Limit, Side
<1> QED  BY <1>2, <1>3

LEMMA RoomHolds == ASSUME IInv, TypeInv', NEW u \in Threads, Room(u) PROVE RingInv'
<1> PICK h \in [Sides -> Int], t \in [Sides -> Int], o \in [Threads -> Int] : Unwrapped(h, t, o)
  BY DEF IInv, RingInv
<1>1. /\ pc[u] = "room" /\ pc' = [pc EXCEPT ![u] = "move"] /\ n' = [n EXCEPT ![u] = Granted(u)]
      /\ Granted(u) > 0 /\ UNCHANGED <<head, tail, old>>
  BY DEF Room, Goto
<1>2. o[u] <= h[Side(u)] /\ h[Side(u)] + Size <= o[u] + Width
  BY <1>1 DEF Unwrapped, ReadInv
<1>3. Entries(u) = Limit(Side(u), t) - o[u]
  BY <1>2, EntriesIs DEF Unwrapped
<1>4. Limit(Side(u), t) \in Int /\ o[u] \in Int
  BY WidthType DEF Limit, Sides
<1>5. o[u] + Granted(u) <= Limit(Side(u), t)
  BY <1>1, <1>3, <1>4 DEF Granted, IInv, TypeInv
<1>6. pc'[u] = "move" /\ n'[u] = Granted(u) /\ \A v \in Threads \ {u} : pc'[v] = pc[v] /\ n'[v] = n[v]
  BY <1>1 DEF IInv, TypeInv
<1>7. Wraps(h, t, o)'
  BY <1>1 DEF Unwrapped, Wraps
<1>8. ReadInv(h, t, o)'
  BY <1>1, <1>2, <1>5, <1>6 DEF Unwrapped, ReadInv
<1>9. BusyInv(h, t, o)' /\ ApartInv(o)'
  BY <1>1, <1>6 DEF Unwrapped, BusyInv, ApartInv, Busy
<1>10. SingleInv(h, t, o)' /\ CoverInv(h, t, o)'
  BY <1>1, <1>6 DEF Unwrapped, SingleInv, CoverInv, Busy
<1> QED  BY <1>1, <1>7, <1>8, <1>9, <1>10 DEF Unwrapped, RingInv

LEMMA CopyHolds == ASSUME IInv, NEW u \in Threads, Copy(u) PROVE RingInv'
<1> PICK h \in [Sides -> Int], t \in [Sides -> Int], o \in [Threads -> Int] : Unwrapped(h, t, o)
  BY DEF IInv, RingInv
<1>1. /\ pc[u] = "copy" /\ pc' = [pc EXCEPT ![u] = "tail"] /\ UNCHANGED <<head, tail, n, old>>
  BY DEF Copy, Goto
<1>2. /\ \A v \in Threads : Busy(v)' <=> Busy(v)
      /\ \A v \in Threads : pc'[v] \in {"room", "move"} => pc'[v] = pc[v]
      /\ \A v \in Threads : pc[v] \in {"room", "move"} => pc'[v] = pc[v]
  BY <1>1 DEF IInv, TypeInv, Busy
<1>3. Wraps(h, t, o)' /\ ReadInv(h, t, o)'
  BY <1>1, <1>2 DEF Unwrapped, Wraps, ReadInv
<1>4. BusyInv(h, t, o)' /\ ApartInv(o)'
  BY <1>1, <1>2 DEF Unwrapped, BusyInv, ApartInv
<1>5. SingleInv(h, t, o)' /\ CoverInv(h, t, o)'
  BY <1>1, <1>2 DEF Unwrapped, SingleInv, CoverInv
<1> QED  BY <1>3, <1>4, <1>5 DEF Unwrapped, RingInv

LEMMA LocalHolds ==
    ASSUME IInv, TypeInv', NEW u \in Threads, Call(u) \/ ReadHead(u) \/ NoRoom(u) \/ Retry(u)
    PROVE  RingInv'
<1> PICK h \in [Sides -> Int], t \in [Sides -> Int], o \in [Threads -> Int] : Unwrapped(h, t, o)
  BY DEF IInv, RingInv
<1> USE DEF IInv, TypeInv, Goto, Busy
<1>1. CASE Call(u)
  <2>1. /\ UNCHANGED <<head, tail, n, old>> /\ pc[u] = "idle" /\ pc' = [pc EXCEPT ![u] = "head"]
    BY <1>1 DEF Call
  <2> QED  BY <2>1, QuietHolds
<1>2. CASE ReadHead(u)
  <2>1. /\ UNCHANGED <<head, tail, n>> /\ pc[u] = "head" /\ pc' = [pc EXCEPT ![u] = "room"]
        /\ old' = [old EXCEPT ![u] = head[Side(u)]]
    BY <1>2 DEF ReadHead
  <2> QED  BY <2>1, QuietHolds
<1>3. CASE NoRoom(u)
  <2>1. /\ UNCHANGED <<head, tail>> /\ pc[u] = "room" /\ pc' = [pc EXCEPT ![u] = "idle"]
        /\ old' = [old EXCEPT ![u] = 0] /\ n' = [n EXCEPT ![u] = 0]
    BY <1>3 DEF NoRoom, Forget
  <2> QED  BY <2>1, QuietHolds
<1>4. CASE Retry(u)
  <2>1. /\ UNCHANGED <<head, tail>> /\ pc[u] = "move" /\ pc' = [pc EXCEPT ![u] = "head"]
        /\ old' = [old EXCEPT ![u] = 0] /\ n' = [n EXCEPT ![u] = 0]
    BY <1>4 DEF Retry
  <2> QED  BY <2>1, QuietHolds
<1> QED  BY <1>1, <1>2, <1>3, <1>4

LEMMA OrderedTails ==
    ASSUME NEW h \in [Sides -> Int], NEW t \in [Sides -> Int], Ordered(h, t), NEW s \in Sides
    PROVE  /\ h[s] \in Int /\ t[s] \in Int /\ t[s] <= h[s] /\ h[s] <= t[s] + Capacity
           /\ t["cons"] <= t[s] /\ h[s] <= t["cons"] + Capacity
  BY WidthType DEF Ordered, Sides

LEMMA WrapAdd ==
    ASSUME NEW x, NEW k, x \in Int, k \in Int
    PROVE  ((x % Width) + k) % Width = (x + k) % Width
  BY WidthType, ModAdd, Zenon

LEMMA SlotWrap ==
    ASSUME NEW x, NEW k, x \in Int, k \in Int
    PROVE  ((x % Width) + k) % Size = (x + k) % Size
  BY WidthType, ModMod, Zenon

\* A compare and set that succeeds finds the head of its read, not one a lap on.
LEMMA MoveAt ==
    ASSUME IInv, NEW u \in Threads, Move(u),
           NEW h \in [Sides -> Int], NEW t \in [Sides -> Int], NEW o \in [Threads -> Int],
           Unwrapped(h, t, o)
    PROVE  o[u] = h[Side(u)] /\ n[u] > 0 /\ o[u] + n[u] <= Limit(Side(u), t)
<1>1. pc[u] = "move" /\ MayMove(u) /\ o[u] \in Int /\ h[Side(u)] \in Int
  BY SideType DEF Move, Goto
<1>2. o[u] <= h[Side(u)] /\ h[Side(u)] + Size <= o[u] + Width
  BY <1>1 DEF Unwrapped, ReadInv
<1>3. o[u] = h[Side(u)]
  <2>1. CASE Side(u) \in Single
    BY <1>1, <2>1 DEF Unwrapped, SingleInv
  <2>2. CASE Side(u) \notin Single
    <3>1. /\ head[Side(u)] = h[Side(u)] % Width /\ old[u] = o[u] % Width
          /\ head[Side(u)] = old[u]
      BY <1>1, <2>2, SideType DEF Unwrapped, Wraps, MayMove
    <3> QED  BY <3>1, <1>1, <1>2, WidthType, ModInj
  <2> QED  BY <2>1, <2>2
<1> QED  BY <1>1, <1>3 DEF Unwrapped, ReadInv

\* The tail moves from where the call began.
LEMMA PublishAt ==
    ASSUME IInv, NEW u \in Threads, Publish(u),
           NEW h \in [Sides -> Int], NEW t \in [Sides -> Int], NEW o \in [Threads -> Int],
           Unwrapped(h, t, o)
    PROVE  o[u] = t[Side(u)] /\ n[u] > 0 /\ o[u] + n[u] <= h[Side(u)]
<1>1. /\ pc[u] = "tail" /\ MayPublish(u)
      /\ o[u] \in Int /\ h[Side(u)] \in Int /\ t[Side(u)] \in Int /\ n[u] \in Nat
  BY SideType DEF Publish, Goto, IInv, TypeInv
<1>2. /\ n[u] > 0 /\ t[Side(u)] <= o[u] /\ o[u] + n[u] <= h[Side(u)]
      /\ h[Side(u)] <= t[Side(u)] + Capacity
  BY <1>1, SideType, OrderedTails DEF Unwrapped, BusyInv, Busy
<1>3. CASE Side(u) \in Single
  BY <1>1, <1>2, <1>3 DEF Unwrapped, SingleInv, Busy
<1>4. CASE Side(u) \notin Single
  <2>1. tail[Side(u)] = t[Side(u)] % Width /\ old[u] = o[u] % Width /\ tail[Side(u)] = old[u]
    BY <1>1, <1>4, SideType DEF Unwrapped, Wraps, MayPublish
  <2> QED  BY <2>1, <1>1, <1>2, WidthType, ModInj
<1> QED  BY <1>3, <1>4

LEMMA MoveHolds == ASSUME IInv, TypeInv', NEW u \in Threads, Move(u) PROVE RingInv'
<1> PICK h \in [Sides -> Int], t \in [Sides -> Int], o \in [Threads -> Int] : Unwrapped(h, t, o)
  BY DEF IInv, RingInv
<1> PICK s \in Sides : s = Side(u)
  BY SideType
<1>1. /\ pc[u] = "move" /\ pc' = [pc EXCEPT ![u] = "copy"] /\ MayMove(u) /\ NoLap(u)
      /\ head' = [head EXCEPT ![s] = (old[u] + n[u]) % Width] /\ UNCHANGED <<tail, n, old>>
  BY DEF Move, Goto
<1>2. /\ \A v \in Threads : pc'[v] = IF v = u THEN "copy" ELSE pc[v]
      /\ h[s] \in Int /\ t[s] \in Int /\ o[u] \in Int /\ n[u] \in Nat /\ \A v \in Threads : o[v] \in Int /\ n[v] \in Nat
  BY <1>1 DEF IInv, TypeInv
<1>3. o[u] <= h[s] /\ h[s] + Size <= o[u] + Width
  BY <1>1 DEF Unwrapped, ReadInv
<1>4. o[u] = h[s]
  BY MoveAt
<1>5. n[u] > 0 /\ o[u] + n[u] <= Limit(s, t)
  BY MoveAt
<1>6. PICK g \in [Sides -> Int] : g[s] = h[s] + n[u] /\ \A r \in Sides \ {s} : g[r] = h[r]
  <2>1. [h EXCEPT ![s] = h[s] + n[u]] \in [Sides -> Int]
    BY <1>2
  <2> QED  BY <1>2, <2>1
<1>7. Wraps(g, t, o)'
  <2>1. (old[u] + n[u]) % Width = g[s] % Width
    <3>1. ((o[u] % Width) + n[u]) % Width = (o[u] + n[u]) % Width
      BY <1>2, WrapAdd
    <3>2. old[u] = o[u] % Width
      BY DEF Unwrapped, Wraps
    <3>3. o[u] + n[u] = g[s]
      BY <1>4, <1>6
    <3> QED  BY <3>1, <3>2, <3>3
  <2>2. head'[s] = g[s] % Width /\ \A r \in Sides \ {s} : head'[r] = head[r]
    BY <1>1, <2>1 DEF IInv, TypeInv
  <2> QED  BY <1>1, <1>6, <2>2 DEF Unwrapped, Wraps
<1>8. Ordered(g, t)
  <2>1. Ordered(h, t) /\ h["cons"] \in Int /\ h["prod"] \in Int /\ t["cons"] \in Int /\ t["prod"] \in Int
    BY DEF Unwrapped, Sides
  <2>2. CASE s = "prod"
    <3>1. g["cons"] = h["cons"] /\ g["prod"] = h["prod"] + n[u] /\ g["prod"] <= t["cons"] + Capacity
      BY <1>4, <1>5, <1>6, <2>2 DEF Limit, Sides
    <3> QED  BY <1>2, <2>1, <3>1, WidthType DEF Ordered
  <2>3. CASE s = "cons"
    <3>1. g["prod"] = h["prod"] /\ g["cons"] = h["cons"] + n[u] /\ g["cons"] <= t["prod"]
      BY <1>4, <1>5, <1>6, <2>3 DEF Limit, Sides
    <3> QED  BY <1>2, <2>1, <3>1, WidthType DEF Ordered
  <2> QED  BY <2>2, <2>3 DEF Sides
<1>9. ReadInv(g, t, o)'
  <2> SUFFICES ASSUME NEW v \in Threads, pc'[v] \in {"room", "move"}
               PROVE  /\ o[v] <= g[Side(v)] /\ g[Side(v)] + Size <= o[v] + Width
                      /\ pc'[v] = "move" /\ o[v] = g[Side(v)] =>
                             n'[v] > 0 /\ o[v] + n'[v] <= Limit(Side(v), t)
    BY DEF ReadInv, Limit
  <2>1. /\ v # u /\ pc[v] = pc'[v] /\ n'[v] = n[v] /\ o[v] <= h[Side(v)] /\ h[Side(v)] + Size <= o[v] + Width
        /\ pc[v] = "move" /\ o[v] = h[Side(v)] => n[v] > 0 /\ o[v] + n[v] <= Limit(Side(v), t)
    BY <1>1, <1>2 DEF Unwrapped, ReadInv
  <2>2. CASE Side(v) = s
    <3>1. Dist(old[v], head[s]) + n[u] + Size <= Width
      BY <1>1, <2>1, <2>2 DEF NoLap
    <3>2. Dist(o[v] % Width, h[s] % Width) = h[s] - o[v]
      BY <1>2, <2>1, <2>2, WidthType, DistIs
    <3>3. old[v] = o[v] % Width /\ head[s] = h[s] % Width
      BY DEF Unwrapped, Wraps
    <3>4. h[s] - o[v] + n[u] + Size <= Width
      BY <3>1, <3>2, <3>3
    <3> QED  BY <1>2, <1>5, <1>6, <2>1, <2>2, <3>4, WidthType
  <2>3. CASE Side(v) # s
    BY <1>6, <2>1, <2>3, SideType
  <2> QED  BY <2>2, <2>3
<1>10. BusyInv(g, t, o)'
  <2> SUFFICES ASSUME NEW v \in Threads, Busy(v)'
               PROVE  n[v] > 0 /\ t[Side(v)] <= o[v] /\ o[v] + n[v] <= g[Side(v)]
    BY <1>1 DEF BusyInv
  <2>1. CASE v = u
    <3>1. t[s] <= h[s]
      BY OrderedTails DEF Unwrapped
    <3> QED  BY <1>4, <1>5, <1>6, <2>1, <3>1
  <2>2. CASE v # u
    <3>1. n[v] > 0 /\ t[Side(v)] <= o[v] /\ o[v] + n[v] <= h[Side(v)]
      BY <1>2, <2>2 DEF Unwrapped, BusyInv, Busy
    <3>2. h[Side(v)] <= g[Side(v)] /\ h[Side(v)] \in Int /\ g[Side(v)] \in Int
      BY <1>2, <1>6, SideType
    <3> QED  BY <1>2, <3>1, <3>2
  <2> QED  BY <2>1, <2>2
<1>11. ApartInv(o)'
  <2>1. \A v \in Threads \ {u} : Busy(v)' /\ Side(v) = s => Busy(v) /\ o[v] + n[v] <= o[u]
    BY <1>2, <1>4 DEF Unwrapped, BusyInv, Busy
  <2>2. \A v \in Threads \ {u} : Busy(v)' <=> Busy(v)
    BY <1>2 DEF Busy
  <2> QED  BY <1>1, <2>1, <2>2 DEF Unwrapped, ApartInv
<1>12. SingleInv(g, t, o)'
  <2> SUFFICES ASSUME NEW v \in Threads, Side(v) \in Single
               PROVE  /\ pc'[v] \in {"room", "move"} => o[v] = g[Side(v)]
                      /\ IF Busy(v)' THEN o[v] = t[Side(v)] /\ o[v] + n[v] = g[Side(v)]
                                     ELSE g[Side(v)] = t[Side(v)]
    BY <1>1 DEF SingleInv
  <2>1. CASE v = u
    <3>1. h[s] = t[s]
      BY <1>1, <2>1 DEF Unwrapped, SingleInv, Busy
    <3> QED  BY <1>2, <1>4, <1>6, <2>1, <3>1 DEF Busy
  <2>2. CASE v # u
    <3>1. Side(v) # s
      BY <2>2, SingleAssumption
    <3> QED  BY <1>2, <1>6, <2>2, <3>1, SideType DEF Unwrapped, SingleInv, Busy
  <2> QED  BY <2>1, <2>2
<1>13. Ordered(g, t)'
  BY <1>8 DEF Ordered
<1>14. CoverInv(g, t, o)'
  <2> SUFFICES ASSUME NEW r \in Sides, NEW x \in Int, t[r] <= x, x < g[r]
               PROVE  \E v \in Threads : Side(v) = r /\ Busy(v)' /\ o[v] <= x /\ x < o[v] + n[v]
    BY <1>1 DEF CoverInv
  <2>1. CASE x < h[r]
    <3>1. PICK v \in Threads : Side(v) = r /\ Busy(v) /\ o[v] <= x /\ x < o[v] + n[v]
      BY <2>1 DEF Unwrapped, CoverInv
    <3> QED  BY <1>2, <3>1 DEF Busy
  <2>2. CASE ~(x < h[r])
    <3>1. r = s /\ o[u] <= x /\ x < o[u] + n[u]
      BY <1>2, <1>4, <1>6, <2>2
    <3> QED  BY <1>2, <3>1 DEF Busy
  <2> QED  BY <2>1, <2>2
<1> QED  BY <1>6, <1>7, <1>9, <1>10, <1>11, <1>12, <1>13, <1>14 DEF Unwrapped, RingInv

LEMMA PublishHolds == ASSUME IInv, TypeInv', NEW u \in Threads, Publish(u) PROVE RingInv'
<1> PICK h \in [Sides -> Int], t \in [Sides -> Int], o \in [Threads -> Int] : Unwrapped(h, t, o)
  BY DEF IInv, RingInv
<1> PICK s \in Sides : s = Side(u)
  BY SideType
<1>1. /\ pc[u] = "tail" /\ pc' = [pc EXCEPT ![u] = "idle"] /\ MayPublish(u)
      /\ tail' = [tail EXCEPT ![s] = (old[u] + n[u]) % Width] /\ UNCHANGED head
      /\ n' = [n EXCEPT ![u] = 0] /\ old' = [old EXCEPT ![u] = 0]
  BY DEF Publish, Goto, Forget
<1>2. /\ \A v \in Threads : pc'[v] = IF v = u THEN "idle" ELSE pc[v]
      /\ \A v \in Threads \ {u} : n'[v] = n[v] /\ old'[v] = old[v]
      /\ old'[u] = 0 /\ h[s] \in Int /\ t[s] \in Int /\ o[u] \in Int /\ n[u] \in Nat
      /\ \A v \in Threads : o[v] \in Int /\ n[v] \in Nat
  BY <1>1 DEF IInv, TypeInv
<1>3. n[u] > 0 /\ t[s] <= o[u] /\ o[u] + n[u] <= h[s] /\ h[s] <= t[s] + Capacity
  BY <1>1, OrderedTails DEF Unwrapped, BusyInv, Busy
<1>4. o[u] = t[s]
  BY PublishAt
<1>5. PICK g \in [Sides -> Int] : g[s] = t[s] + n[u] /\ \A r \in Sides \ {s} : g[r] = t[r]
  <2>1. [t EXCEPT ![s] = t[s] + n[u]] \in [Sides -> Int]
    BY <1>2
  <2> QED  BY <1>2, <2>1
<1>6. PICK p \in [Threads -> Int] : p[u] = 0 /\ \A v \in Threads \ {u} : p[v] = o[v]
  <2>1. [o EXCEPT ![u] = 0] \in [Threads -> Int]
    OBVIOUS
  <2> QED  BY <2>1
<1>7. Wraps(h, g, p)'
  <2>1. (old[u] + n[u]) % Width = g[s] % Width
    <3>1. ((o[u] % Width) + n[u]) % Width = (o[u] + n[u]) % Width
      BY <1>2, WrapAdd
    <3>2. old[u] = o[u] % Width
      BY DEF Unwrapped, Wraps
    <3>3. o[u] + n[u] = g[s]
      BY <1>4, <1>5
    <3> QED  BY <3>1, <3>2, <3>3
  <2>2. tail'[s] = g[s] % Width /\ \A r \in Sides \ {s} : tail'[r] = tail[r]
    BY <1>1, <2>1 DEF IInv, TypeInv
  <2>3. 0 % Width = 0
    BY WidthType, ModSmall
  <2> QED  BY <1>1, <1>2, <1>5, <1>6, <2>2, <2>3 DEF Unwrapped, Wraps
<1>8. Ordered(h, g)
  <2>1. Ordered(h, t) /\ h["cons"] \in Int /\ h["prod"] \in Int /\ t["cons"] \in Int /\ t["prod"] \in Int
    BY DEF Unwrapped, Sides
  <2>2. CASE s = "prod"
    <3>1. g["cons"] = t["cons"] /\ g["prod"] = t["prod"] + n[u] /\ g["prod"] <= h["prod"]
      BY <1>3, <1>4, <1>5, <2>2 DEF Sides
    <3> QED  BY <1>2, <2>1, <3>1, WidthType DEF Ordered
  <2>3. CASE s = "cons"
    <3>1. g["prod"] = t["prod"] /\ g["cons"] = t["cons"] + n[u] /\ g["cons"] <= h["cons"]
      BY <1>3, <1>4, <1>5, <2>3 DEF Sides
    <3> QED  BY <1>2, <2>1, <3>1, WidthType DEF Ordered
  <2> QED  BY <2>2, <2>3 DEF Sides
<1>9. ReadInv(h, g, p)'
  <2> SUFFICES ASSUME NEW v \in Threads, pc'[v] \in {"room", "move"}
               PROVE  /\ p[v] <= h[Side(v)] /\ h[Side(v)] + Size <= p[v] + Width
                      /\ pc'[v] = "move" /\ p[v] = h[Side(v)] =>
                             n'[v] > 0 /\ p[v] + n'[v] <= Limit(Side(v), g)
    BY DEF ReadInv, Limit
  <2>1. /\ v # u /\ pc[v] = pc'[v] /\ n'[v] = n[v] /\ p[v] = o[v]
        /\ o[v] <= h[Side(v)] /\ h[Side(v)] + Size <= o[v] + Width
        /\ pc[v] = "move" /\ o[v] = h[Side(v)] => n[v] > 0 /\ o[v] + n[v] <= Limit(Side(v), t)
    BY <1>1, <1>2, <1>6 DEF Unwrapped, ReadInv
  <2>2. \A r \in Sides : t[r] <= g[r] /\ t[r] \in Int /\ g[r] \in Int
    BY <1>2, <1>5
  <2>3. Limit(Side(v), t) <= Limit(Side(v), g) /\ Limit(Side(v), t) \in Int /\ Limit(Side(v), g) \in Int
    BY <2>2, WidthType DEF Limit, Sides
  <2> QED  BY <1>2, <2>1, <2>3
<1>10. BusyInv(h, g, p)'
  <2> SUFFICES ASSUME NEW v \in Threads, Busy(v)'
               PROVE  n'[v] > 0 /\ g[Side(v)] <= p[v] /\ p[v] + n'[v] <= h[Side(v)]
    BY DEF BusyInv
  <2>1. /\ v # u /\ Busy(v) /\ n'[v] = n[v] /\ p[v] = o[v]
        /\ n[v] > 0 /\ t[Side(v)] <= o[v] /\ o[v] + n[v] <= h[Side(v)]
    BY <1>2, <1>6 DEF Unwrapped, BusyInv, Busy
  <2>2. CASE Side(v) = s
    <3>1. o[u] + n[u] <= o[v] \/ o[v] + n[v] <= o[u]
      BY <1>1, <2>1, <2>2 DEF Unwrapped, ApartInv, Busy
    <3> QED  BY <1>2, <1>4, <1>5, <2>1, <2>2, <3>1
  <2>3. CASE Side(v) # s
    BY <1>5, <2>1, <2>3, SideType
  <2> QED  BY <2>2, <2>3
<1>11. ApartInv(p)'
  <2>1. \A v \in Threads : Busy(v)' => v # u /\ Busy(v) /\ n'[v] = n[v] /\ p[v] = o[v]
    BY <1>2, <1>6 DEF Busy
  <2> QED  BY <2>1 DEF Unwrapped, ApartInv
<1>12. SingleInv(h, g, p)'
  <2> SUFFICES ASSUME NEW v \in Threads, Side(v) \in Single
               PROVE  /\ pc'[v] \in {"room", "move"} => p[v] = h[Side(v)]
                      /\ IF Busy(v)' THEN p[v] = g[Side(v)] /\ p[v] + n'[v] = h[Side(v)]
                                     ELSE h[Side(v)] = g[Side(v)]
    BY DEF SingleInv
  <2>1. CASE v = u
    <3>1. o[u] + n[u] = h[s]
      BY <1>1, <2>1 DEF Unwrapped, SingleInv, Busy
    <3> QED  BY <1>2, <1>4, <1>5, <2>1, <3>1 DEF Busy
  <2>2. CASE v # u
    <3>1. Side(v) # s
      BY <2>2, SingleAssumption
    <3> QED  BY <1>2, <1>5, <1>6, <2>2, <3>1, SideType DEF Unwrapped, SingleInv, Busy
  <2> QED  BY <2>1, <2>2
<1>13. Ordered(h, g)'
  BY <1>8 DEF Ordered
<1>14. CoverInv(h, g, p)'
  <2> SUFFICES ASSUME NEW r \in Sides, NEW x \in Int, g[r] <= x, x < h[r]
               PROVE  \E v \in Threads : Side(v) = r /\ Busy(v)' /\ p[v] <= x /\ x < p[v] + n'[v]
    BY <1>1 DEF CoverInv
  <2>1. t[r] <= x /\ (r = s => o[u] + n[u] <= x)
    BY <1>2, <1>4, <1>5
  <2>2. PICK v \in Threads : Side(v) = r /\ Busy(v) /\ o[v] <= x /\ x < o[v] + n[v]
    BY <2>1 DEF Unwrapped, CoverInv
  <2>3. v # u
    BY <1>2, <2>1, <2>2
  <2> QED  BY <1>2, <1>6, <2>2, <2>3 DEF Busy
<1> QED  BY <1>7, <1>9, <1>10, <1>11, <1>12, <1>13, <1>14 DEF Unwrapped, RingInv

LEMMA NextHolds == IInv /\ [Next]_vars => IInv'
<1> SUFFICES ASSUME IInv, [Next]_vars PROVE IInv'
  OBVIOUS
<1>1. TypeInv'
  BY TypeHolds DEF IInv
<1>2. CASE UNCHANGED vars
  <2>1. PICK h \in [Sides -> Int], t \in [Sides -> Int], o \in [Threads -> Int] : Unwrapped(h, t, o)
    BY DEF IInv, RingInv
  <2>2. Unwrapped(h, t, o)'
    BY <1>2, <2>1 DEF vars, Unwrapped, Wraps, Ordered, ReadInv, BusyInv, ApartInv, SingleInv, CoverInv, Busy, Limit
  <2> QED  BY <1>1, <2>2 DEF IInv, RingInv
<1>3. ASSUME NEW u \in Threads, Call(u) \/ Step(u) PROVE RingInv'
  BY <1>1, <1>3, LocalHolds, RoomHolds, MoveHolds, CopyHolds, PublishHolds DEF Step
<1> QED  BY <1>1, <1>2, <1>3 DEF Next, IInv

LEMMA Invariant == Spec => []IInv
  BY InitHolds, NextHolds, PTL DEF Spec

-----------------------------------------------------------------------------
(* What follows.                                                           *)

LEMMA DisjointSlots == IInv => SlotsApart
<1> SUFFICES ASSUME IInv, NEW u \in Threads, NEW v \in Threads, u # v, Busy(u), Busy(v),
                    NEW x, x \in Range(old[u], n[u]), x \in Range(old[v], n[v])
             PROVE  FALSE
  BY DEF SlotsApart
<1> PICK h \in [Sides -> Int], t \in [Sides -> Int], o \in [Threads -> Int] : Unwrapped(h, t, o)
  BY DEF IInv, RingInv
<1>1. ASSUME NEW w \in Threads, Busy(w), x \in Range(old[w], n[w])
      PROVE  \E a \in Int : x = a % Size /\ o[w] <= a /\ a < o[w] + n[w]
  <2>1. PICK j \in 0 .. n[w] - 1 : x = Slot(old[w] + j)
    BY <1>1 DEF Range
  <2>2. n[w] \in Nat /\ o[w] \in Int /\ j \in Int /\ old[w] = o[w] % Width
    BY DEF IInv, TypeInv, Unwrapped, Wraps
  <2>3. ((o[w] % Width) + j) % Size = (o[w] + j) % Size
    BY <2>2, SlotWrap
  <2>4. x = (o[w] + j) % Size
    BY <2>1, <2>2, <2>3 DEF Slot
  <2> QED  BY <2>2, <2>4
<1>2. PICK a \in Int : x = a % Size /\ o[u] <= a /\ a < o[u] + n[u]
  BY <1>1
<1>3. PICK b \in Int : x = b % Size /\ o[v] <= b /\ b < o[v] + n[v]
  BY <1>1
<1>4. \A w \in Threads : n[w] \in Nat /\ o[w] \in Int
  BY DEF IInv, TypeInv
<1>5. ASSUME NEW w \in Threads, Busy(w)
      PROVE  t["cons"] <= o[w] /\ o[w] + n[w] <= t["cons"] + Capacity
  <2>1. t[Side(w)] <= o[w] /\ o[w] + n[w] <= h[Side(w)]
    BY <1>5 DEF Unwrapped, BusyInv
  <2>2. /\ h[Side(w)] \in Int /\ t[Side(w)] \in Int /\ t["cons"] <= t[Side(w)]
        /\ h[Side(w)] <= t["cons"] + Capacity /\ t["cons"] \in Int
    BY SideType, OrderedTails DEF Unwrapped, Sides
  <2> QED  BY <1>4, <2>1, <2>2, WidthType
<1>6. a = b
  <2>1. t["cons"] \in Int
    BY DEF Sides
  <2>2. a - b < Size /\ b - a < Size
    BY <1>2, <1>3, <1>4, <1>5, <2>1, WidthType
  <2> QED  BY <1>2, <1>3, <2>2, WidthType, ModInj
<1>7. o[u] + n[u] <= o[v] \/ o[v] + n[v] <= o[u]
  <2>1. CASE Side(u) = Side(v)
    BY <2>1 DEF Unwrapped, ApartInv
  <2>2. CASE Side(u) # Side(v)
    <3>1. \A w \in Threads : Busy(w) => t[Side(w)] <= o[w] /\ o[w] + n[w] <= h[Side(w)]
      BY DEF Unwrapped, BusyInv
    <3>2. h["cons"] <= t["prod"] /\ h["cons"] \in Int /\ t["prod"] \in Int
      BY DEF Unwrapped, Ordered, Sides
    <3>3. CASE Side(u) = "cons" /\ Side(v) = "prod"
      <4>1. o[u] + n[u] <= h["cons"] /\ t["prod"] <= o[v]
        BY <3>1, <3>3
      <4> QED  BY <1>4, <3>2, <4>1
    <3>4. CASE Side(v) = "cons" /\ Side(u) = "prod"
      <4>1. o[v] + n[v] <= h["cons"] /\ t["prod"] <= o[u]
        BY <3>1, <3>4
      <4> QED  BY <1>4, <3>2, <4>1
    <3> QED  BY <2>2, <3>3, <3>4, SideType DEF Sides
  <2> QED  BY <2>1, <2>2
<1> QED  BY <1>2, <1>3, <1>4, <1>6, <1>7

\* Two calls of rte_ring never copy to or from one slot at once, however many
\* threads enqueue and dequeue, and however often the indices wrap.
THEOREM SlotsAreApart == Spec => []SlotsApart
  BY DisjointSlots, Invariant, PTL

\* The call that holds what lies at the tail has its turn.
LEMMA SomeTurn == IInv => TurnComes
<1> SUFFICES ASSUME IInv, NEW v \in Threads, Busy(v)
             PROVE  \E u \in Threads : Side(u) = Side(v) /\ Busy(u) /\ MayPublish(u)
  BY DEF TurnComes
<1> PICK h \in [Sides -> Int], t \in [Sides -> Int], o \in [Threads -> Int] : Unwrapped(h, t, o)
  BY DEF IInv, RingInv
<1>1. \A u \in Threads : n[u] \in Nat /\ o[u] \in Int
  BY DEF IInv, TypeInv
<1>2. t[Side(v)] \in Int /\ h[Side(v)] \in Int
  BY SideType
<1>3. t[Side(v)] < h[Side(v)]
  BY <1>1, <1>2 DEF Unwrapped, BusyInv
<1>4. PICK u \in Threads : Side(u) = Side(v) /\ Busy(u) /\ o[u] <= t[Side(v)]
  BY <1>2, <1>3, SideType DEF Unwrapped, CoverInv
<1>5. o[u] = t[Side(u)]
  BY <1>1, <1>2, <1>4 DEF Unwrapped, BusyInv
<1>6. old[u] = tail[Side(u)]
  BY <1>5, SideType DEF Unwrapped, Wraps
<1> QED  BY <1>4, <1>6 DEF MayPublish

\* The calls that have moved the head of one side never wait for one another in a
\* circle: update_tail lets one of them go on.
THEOREM ATurnComes == Spec => []TurnComes
  BY SomeTurn, Invariant, PTL

LEMMA RefusalStep == IInv /\ [Next]_vars => [Refusal]_vars
<1> SUFFICES ASSUME IInv, NEW u \in Threads, NoRoom(u), max[u] = 1
             PROVE  IF u \in Producers THEN Dist(tail["cons"], head["prod"]) = Capacity
                                       ELSE head["cons"] = tail["prod"]
  BY DEF Refusal
<1> PICK h \in [Sides -> Int], t \in [Sides -> Int], o \in [Threads -> Int] : Unwrapped(h, t, o)
  BY DEF IInv, RingInv
<1>1. /\ h["cons"] \in Int /\ h["prod"] \in Int /\ t["cons"] \in Int /\ t["prod"] \in Int /\ o[u] \in Int
      /\ head["cons"] = h["cons"] % Width /\ head["prod"] = h["prod"] % Width
      /\ tail["cons"] = t["cons"] % Width /\ tail["prod"] = t["prod"] % Width
      /\ Ordered(h, t)
  BY DEF Unwrapped, Wraps, Sides
<1>2. pc[u] = "room" /\ Granted(u) = 0
  BY DEF NoRoom, Goto
<1>3. o[u] <= h[Side(u)] /\ h[Side(u)] + Size <= o[u] + Width
  BY <1>2 DEF Unwrapped, ReadInv
<1>4. Entries(u) = Limit(Side(u), t) - o[u]
  BY <1>3, EntriesIs DEF Unwrapped
<1>5. CASE u \in Producers
  <2>1. Entries(u) = t["cons"] + Capacity - o[u] /\ o[u] <= h["prod"]
    <3>1. Side(u) = "prod" /\ Limit(Side(u), t) = t["cons"] + Capacity
      BY <1>5 DEF Limit, Side
    <3> QED  BY <1>1, <1>3, <1>4, <3>1, WidthType
  <2>2. t["cons"] + Capacity - o[u] < 1
    BY <1>1, <1>2, <2>1, WidthType DEF Granted
  <2>3. h["prod"] - t["cons"] = Capacity
    BY <1>1, <2>1, <2>2, WidthType DEF Ordered
  <2>4. Dist(t["cons"] % Width, h["prod"] % Width) = h["prod"] - t["cons"]
    BY <1>1, <2>3, WidthType, DistIs
  <2> QED  BY <1>1, <1>5, <2>3, <2>4
<1>6. CASE u \notin Producers
  <2>1. Entries(u) = t["prod"] - o[u] /\ o[u] <= h["cons"]
    BY <1>3, <1>4, <1>6 DEF Limit, Side
  <2>2. t["prod"] - o[u] < 1
    BY <1>1, <1>2, <2>1 DEF Granted
  <2>3. h["cons"] = t["prod"]
    BY <1>1, <2>1, <2>2 DEF Ordered
  <2> QED  BY <1>1, <1>6, <2>3
<1> QED  BY <1>5, <1>6

\* A call for one item is refused only by a full ring, or an empty one, although
\* the head it read may be old.
THEOREM RefusedRightly == Spec => RefusedForCause
  BY RefusalStep, Invariant, PTL DEF Spec, RefusedForCause

-----------------------------------------------------------------------------
(* The items.                                                              *)

Elements == Items \cup {NONE}

\* What the slots may be.
Memory == [0 .. Size - 1 -> Elements]

\* k items of a memory f, from index i on.
Window(f, i, k) == [j \in 1 .. k |-> f[Slot(i + j - 1)]]

\* A sequence is its elements.
LEMMA SameSequence ==
    ASSUME NEW r, NEW s, r \in Seq(Elements), s \in Seq(Elements), Len(r) = Len(s),
           \A j \in 1 .. Len(r) : r[j] = s[j]
    PROVE  r = s
  OBVIOUS

LEMMA SlotType == \A x \in Int : Slot(x) \in 0 .. Size - 1
  BY WidthType, ModSplit DEF Slot

\* The slot of an index that is not wrapped is the slot of its remainder.
LEMMA SlotOfWrapped ==
    ASSUME NEW a \in Int, NEW k \in Int
    PROVE  (a % Width) \in Int /\ Slot((a % Width) + k) = Slot(a + k)
<1>1. ((a % Width) + k) % Size = (a + k) % Size
  BY SlotWrap
<1>2. (a % Width) \in Int
  BY WidthType, ModSplit
<1> QED  BY <1>1, <1>2, Zenon DEF Slot

LEMMA WindowIs ==
    ASSUME NEW f \in Memory, NEW a \in Int, NEW k \in Nat
    PROVE  /\ Window(f, a, k) \in Seq(Elements) /\ Len(Window(f, a, k)) = k
           /\ \A j \in 1 .. k : Window(f, a, k)[j] = f[Slot(a + j - 1)]
<1>1. \A j \in 1 .. k : f[Slot(a + j - 1)] \in Elements
  BY SlotType DEF Memory
<1>2. Window(f, a, k) \in [1 .. k -> Elements]
  BY <1>1 DEF Window
<1>3. \A j \in 1 .. k : Window(f, a, k)[j] = f[Slot(a + j - 1)]
  BY DEF Window
<1> HIDE DEF Window
<1> QED  BY <1>2, <1>3

\* The items from an index that never wraps are those from its remainder.
LEMMA WindowWrap ==
    ASSUME NEW f, NEW a \in Int, NEW k \in Nat
    PROVE  Window(f, a % Width, k) = Window(f, a, k)
<1>1. PICK r \in Int : r = a % Width
  <2>1. (a % Width) \in Int
    BY SlotOfWrapped
  <2> QED  BY <2>1
<1>2. ASSUME NEW j \in 1 .. k PROVE Slot(r + j - 1) = Slot(a + j - 1)
  <2>1. PICK i \in Int : i = j - 1
    OBVIOUS
  <2>2. Slot(r + i) = Slot(a + i)
    BY <1>1, SlotOfWrapped, Zenon
  <2>3. r + i = r + j - 1 /\ a + i = a + j - 1
    BY <2>1
  <2> QED  BY <2>2, <2>3
<1>3. Window(f, r, k) = Window(f, a, k)
  BY <1>2 DEF Window
<1> QED  BY <1>1, <1>3

\* Sequences put together, and taken apart.
Joined(x, y) == x \o y
Front(x, m) == SubSeq(x, 1, m)
Back(x, m) == SubSeq(x, m + 1, Len(x))

LEMMA JoinedIs ==
    ASSUME NEW x \in Seq(Elements), NEW y \in Seq(Elements)
    PROVE  /\ Joined(x, y) \in Seq(Elements) /\ Len(Joined(x, y)) = Len(x) + Len(y)
           /\ \A j \in 1 .. Len(x) : Joined(x, y)[j] = x[j]
           /\ \A i \in 1 .. Len(y) : Joined(x, y)[Len(x) + i] = y[i]
  BY DEF Joined

LEMMA TakenApart ==
    ASSUME NEW x \in Seq(Elements), NEW m \in 0 .. Len(x)
    PROVE  /\ Front(x, m) \in Seq(Elements) /\ Len(Front(x, m)) = m
           /\ Back(x, m) \in Seq(Elements) /\ Len(Back(x, m)) = Len(x) - m
           /\ \A j \in 1 .. m : Front(x, m)[j] = x[j]
           /\ \A i \in 1 .. Len(x) - m : Back(x, m)[i] = x[m + i]
  BY DEF Front, Back

\* The items up to an index, and those from it on, are all the items.
LEMMA WindowJoin ==
    ASSUME NEW f \in Memory, NEW a \in Int, NEW k \in Nat, NEW m \in Nat,
           NEW b \in Int, NEW l \in Nat, b = a + k, l = k + m
    PROVE  Window(f, a, l) = Joined(Window(f, a, k), Window(f, b, m))
<1> DEFINE x == Window(f, a, k)
           y == Window(f, b, m)
           z == Window(f, a, l)
<1>1. /\ x \in Seq(Elements) /\ Len(x) = k /\ \A j \in 1 .. k : x[j] = f[Slot(a + j - 1)]
      /\ y \in Seq(Elements) /\ Len(y) = m /\ \A j \in 1 .. m : y[j] = f[Slot(b + j - 1)]
      /\ z \in Seq(Elements) /\ Len(z) = l /\ \A j \in 1 .. l : z[j] = f[Slot(a + j - 1)]
  <2>1. x \in Seq(Elements) /\ Len(x) = k /\ \A j \in 1 .. k : x[j] = f[Slot(a + j - 1)]
    BY WindowIs, Zenon
  <2>2. y \in Seq(Elements) /\ Len(y) = m /\ \A j \in 1 .. m : y[j] = f[Slot(b + j - 1)]
    BY WindowIs, Zenon
  <2>3. z \in Seq(Elements) /\ Len(z) = l /\ \A j \in 1 .. l : z[j] = f[Slot(a + j - 1)]
    BY WindowIs, Zenon
  <2> QED  BY <2>1, <2>2, <2>3
<1> HIDE DEF x, y, z
<1>2. /\ Joined(x, y) \in Seq(Elements) /\ Len(Joined(x, y)) = l
      /\ \A j \in 1 .. k : Joined(x, y)[j] = x[j]
      /\ \A i \in 1 .. m : Joined(x, y)[k + i] = y[i]
  <2>1. x \in Seq(Elements) /\ y \in Seq(Elements) /\ Len(x) = k /\ Len(y) = m
    BY <1>1
  <2>2. /\ Joined(x, y) \in Seq(Elements) /\ Len(Joined(x, y)) = Len(x) + Len(y)
        /\ \A j \in 1 .. Len(x) : Joined(x, y)[j] = x[j]
        /\ \A i \in 1 .. Len(y) : Joined(x, y)[Len(x) + i] = y[i]
    BY <2>1, JoinedIs
  <2> QED  BY <2>1, <2>2
<1>3. ASSUME NEW j \in 1 .. l PROVE z[j] = Joined(x, y)[j]
  <2>1. z[j] = f[Slot(a + j - 1)]
    BY <1>1
  <2>2. CASE j <= k
    <3>1. j \in 1 .. k
      BY <2>2
    <3>2. x[j] = f[Slot(a + j - 1)] /\ Joined(x, y)[j] = x[j]
      BY <1>1, <1>2, <3>1
    <3> QED  BY <2>1, <3>2, Zenon
  <2>3. CASE ~(j <= k)
    <3>1. PICK i \in 1 .. m : j = k + i
      BY <2>3
    <3>2. y[i] = f[Slot(b + i - 1)] /\ Joined(x, y)[k + i] = y[i]
      BY <1>1, <1>2
    <3>3. b + i - 1 = a + j - 1
      BY <3>1
    <3> QED  BY <2>1, <3>1, <3>2, <3>3, Zenon
  <2> QED  BY <2>2, <2>3
<1>4. z = Joined(x, y)
  BY <1>1, <1>2, <1>3, SameSequence
<1> QED  BY <1>4 DEF x, y, z

\* The first items, and the others.
LEMMA WindowCut ==
    ASSUME NEW f \in Memory, NEW a \in Int, NEW k \in Nat, NEW m \in Nat,
           NEW b \in Int, NEW l \in Nat, b = a + m, k = m + l
    PROVE  /\ Window(f, a, m) = Front(Window(f, a, k), m)
           /\ Window(f, b, l) = Back(Window(f, a, k), m)
<1> DEFINE x == Window(f, a, m)
           y == Window(f, b, l)
           z == Window(f, a, k)
<1>1. /\ x \in Seq(Elements) /\ Len(x) = m /\ \A j \in 1 .. m : x[j] = f[Slot(a + j - 1)]
      /\ y \in Seq(Elements) /\ Len(y) = l /\ \A j \in 1 .. l : y[j] = f[Slot(b + j - 1)]
      /\ z \in Seq(Elements) /\ Len(z) = k /\ \A j \in 1 .. k : z[j] = f[Slot(a + j - 1)]
  <2>1. x \in Seq(Elements) /\ Len(x) = m /\ \A j \in 1 .. m : x[j] = f[Slot(a + j - 1)]
    BY WindowIs, Zenon
  <2>2. y \in Seq(Elements) /\ Len(y) = l /\ \A j \in 1 .. l : y[j] = f[Slot(b + j - 1)]
    BY WindowIs, Zenon
  <2>3. z \in Seq(Elements) /\ Len(z) = k /\ \A j \in 1 .. k : z[j] = f[Slot(a + j - 1)]
    BY WindowIs, Zenon
  <2> QED  BY <2>1, <2>2, <2>3
<1> HIDE DEF x, y, z
<1>2. /\ Front(z, m) \in Seq(Elements) /\ Len(Front(z, m)) = m
      /\ Back(z, m) \in Seq(Elements) /\ Len(Back(z, m)) = l
      /\ \A j \in 1 .. m : Front(z, m)[j] = z[j]
      /\ \A i \in 1 .. l : Back(z, m)[i] = z[m + i]
  <2>1. z \in Seq(Elements) /\ m \in 0 .. Len(z) /\ Len(z) - m = l
    BY <1>1
  <2>2. /\ Front(z, m) \in Seq(Elements) /\ Len(Front(z, m)) = m
        /\ Back(z, m) \in Seq(Elements) /\ Len(Back(z, m)) = Len(z) - m
        /\ \A j \in 1 .. m : Front(z, m)[j] = z[j]
        /\ \A i \in 1 .. Len(z) - m : Back(z, m)[i] = z[m + i]
    BY <2>1, TakenApart
  <2> QED  BY <2>1, <2>2
<1>3. ASSUME NEW j \in 1 .. m PROVE x[j] = Front(z, m)[j]
  <2>1. j \in 1 .. k
    OBVIOUS
  <2>2. /\ x[j] = f[Slot(a + j - 1)] /\ z[j] = f[Slot(a + j - 1)] /\ Front(z, m)[j] = z[j]
    BY <1>1, <1>2, <2>1
  <2> QED  BY <2>2, Zenon
<1>4. ASSUME NEW i \in 1 .. l PROVE y[i] = Back(z, m)[i]
  <2>1. PICK j \in 1 .. k : j = m + i
    OBVIOUS
  <2>2. /\ y[i] = f[Slot(b + i - 1)] /\ z[j] = f[Slot(a + j - 1)]
    BY <1>1
  <2>3. Back(z, m)[i] = z[j]
    BY <1>2, <2>1
  <2>4. b + i - 1 = a + j - 1
    BY <2>1
  <2> QED  BY <2>2, <2>3, <2>4, Zenon
<1>5. x = Front(z, m) /\ y = Back(z, m)
  BY <1>1, <1>2, <1>3, <1>4, SameSequence
<1> QED  BY <1>5 DEF x, y, z

\* What a call holds, by how far it is.
CallInv(u) ==
    /\ pc[u] = "idle" => buf[u] = <<>>
    /\ u \in Producers /\ pc[u] # "idle" =>
           max[u] \in 1 .. MaxBurst /\ buf[u] \in [1 .. max[u] -> Items]
    /\ u \in Consumers /\ pc[u] # "tail" => buf[u] = <<>>
    /\ pc[u] \in {"move", "copy", "tail"} =>
           n[u] \in 1 .. max[u] /\ (u \in Producers \ Variable => n[u] = max[u])
    /\ u \in Producers /\ pc[u] = "tail" =>
           \A j \in 1 .. n[u] : slots[Slot(old[u] + j - 1)] = buf[u][j]

DataInv == /\ slots \in Memory
           /\ buf \in [Threads -> Seq(Elements)]
           /\ \A u \in Threads : CallInv(u)

LEMMA DataInit == Init => DataInv
<1> SUFFICES ASSUME Init PROVE DataInv
  OBVIOUS
<1>1. slots \in Memory
  BY DEF Init, Elements, Memory
<1>2. buf \in [Threads -> Seq(Elements)]
  BY DEF Init
<1>3. \A u \in Threads : CallInv(u)
  BY DEF Init, CallInv
<1> QED  BY <1>1, <1>2, <1>3 DEF DataInv

\* A call in progress fits into the ring.
LEMMA Fits == ASSUME IInv, NEW u \in Threads, Busy(u) PROVE n[u] \in 1 .. Size - 1
<1> PICK h \in [Sides -> Int], t \in [Sides -> Int], o \in [Threads -> Int] : Unwrapped(h, t, o)
  BY DEF IInv, RingInv
<1>1. n[u] > 0 /\ t[Side(u)] <= o[u] /\ o[u] + n[u] <= h[Side(u)]
  BY DEF Unwrapped, BusyInv
<1>2. /\ h[Side(u)] <= t[Side(u)] + Capacity
      /\ h[Side(u)] \in Int /\ t[Side(u)] \in Int /\ o[u] \in Int /\ n[u] \in Nat
  BY SideType, OrderedTails DEF Unwrapped, IInv, TypeInv
<1> QED  BY <1>1, <1>2, WidthType

\* Indices less than a lap apart have slots of their own.
LEMMA SlotInj ==
    ASSUME NEW a \in Int, NEW b \in Int, a - b < Size, b - a < Size, Slot(a) = Slot(b)
    PROVE  a = b
  BY WidthType, ModInj DEF Slot

\* A producer writes its items where its call has room, and nothing elsewhere.
LEMMA CopyWrites ==
    ASSUME IInv, DataInv, NEW u \in Producers, Copy(u)
    PROVE  /\ slots' \in Memory
           /\ \A j \in 1 .. n[u] : slots'[Slot(old[u] + j - 1)] = buf[u][j]
           /\ \A i \in 0 .. Size - 1 : i \notin Range(old[u], n[u]) => slots'[i] = slots[i]
<1> DEFINE At(i, j) == i = Slot(old[u] + j - 1)
<1>1. u \in Threads /\ u \notin Consumers
  BY DEF Threads
<1>2. /\ slots' = [i \in 0 .. Size - 1 |-> IF \E j \in 1 .. n[u] : At(i, j)
                                          THEN buf[u][CHOOSE j \in 1 .. n[u] : At(i, j)]
                                          ELSE slots[i]]
      /\ pc[u] = "copy"
  BY <1>1 DEF Copy, Goto
<1>3. n[u] \in 1 .. Size - 1 /\ old[u] \in Int
  BY <1>1, <1>2, Fits DEF Busy, IInv, TypeInv
<1>4. buf[u] \in [1 .. max[u] -> Items] /\ n[u] \in 1 .. max[u] /\ max[u] \in Nat
  BY <1>1, <1>2 DEF DataInv, CallInv, IInv, TypeInv
<1>5. ASSUME NEW j \in 1 .. n[u], NEW k \in 1 .. n[u],
             Slot(old[u] + j - 1) = Slot(old[u] + k - 1)
      PROVE  j = k
  <2>1. PICK a \in Int, b \in Int : a = old[u] + j - 1 /\ b = old[u] + k - 1
    BY <1>3
  <2>2. a - b < Size /\ b - a < Size
    BY <1>3, <2>1, WidthType
  <2>3. Slot(a) = Slot(b)
    BY <1>5, <2>1
  <2>4. a = b
    BY <2>2, <2>3, SlotInj
  <2> QED  BY <1>3, <2>1, <2>4
<1> HIDE DEF At
<1>6. ASSUME NEW i \in 0 .. Size - 1 PROVE slots'[i] \in Elements
  <2>1. CASE \E j \in 1 .. n[u] : At(i, j)
    <3>1. slots'[i] = buf[u][CHOOSE j \in 1 .. n[u] : At(i, j)]
      BY <1>2, <2>1
    <3>2. (CHOOSE j \in 1 .. n[u] : At(i, j)) \in 1 .. n[u]
      BY <2>1
    <3> QED  BY <1>4, <3>1, <3>2 DEF Elements
  <2>2. CASE ~ \E j \in 1 .. n[u] : At(i, j)
    BY <1>2, <2>2 DEF DataInv, Memory
  <2> QED  BY <2>1, <2>2
<1>7. ASSUME NEW j \in 1 .. n[u] PROVE slots'[Slot(old[u] + j - 1)] = buf[u][j]
  <2>1. PICK i \in 0 .. Size - 1 : i = Slot(old[u] + j - 1)
    <3>1. old[u] + j - 1 \in Int
      BY <1>3
    <3> QED  BY <3>1, SlotType
  <2>2. At(i, j)
    BY <2>1 DEF At
  <2>3. PICK k \in 1 .. n[u] : k = (CHOOSE m \in 1 .. n[u] : At(i, m)) /\ At(i, k)
    BY <2>2
  <2>4. k = j
    BY <1>5, <2>1, <2>3 DEF At
  <2>5. slots'[i] = buf[u][CHOOSE m \in 1 .. n[u] : At(i, m)]
    BY <1>2, <2>2
  <2> QED  BY <2>1, <2>3, <2>4, <2>5
<1>8. ASSUME NEW i \in 0 .. Size - 1, i \notin Range(old[u], n[u]) PROVE slots'[i] = slots[i]
  <2>1. ASSUME NEW j \in 1 .. n[u], At(i, j) PROVE FALSE
    <3>1. PICK m \in 0 .. n[u] - 1 : m = j - 1
      BY <1>3
    <3>2. old[u] + j - 1 = old[u] + m
      BY <1>3, <3>1
    <3> QED  BY <1>8, <2>1, <3>2 DEF At, Range
  <2> QED  BY <1>2, <2>1
<1>9. slots' \in Memory
  BY <1>2, <1>6 DEF Memory
<1> QED  BY <1>7, <1>8, <1>9

\* What one call writes is not what another holds.
LEMMA CopySpares ==
    ASSUME IInv, DataInv, NEW u \in Producers, Copy(u), NEW v \in Threads, v # u, Busy(v),
           NEW j \in 1 .. n[v]
    PROVE  slots'[Slot(old[v] + j - 1)] = slots[Slot(old[v] + j - 1)]
<1>1. u \in Threads /\ Busy(u)
  BY DEF Threads, Copy, Goto, Busy
<1>2. Range(old[u], n[u]) \cap Range(old[v], n[v]) = {}
  BY <1>1, DisjointSlots DEF SlotsApart
<1>3. old[v] \in Int /\ n[v] \in Nat
  BY DEF IInv, TypeInv
<1>4. PICK m \in 0 .. n[v] - 1 : m = j - 1
  BY <1>3
<1>5. PICK x \in Int : x = old[v] + m /\ x = old[v] + j - 1
  BY <1>3, <1>4
<1>6. Slot(x) \in Range(old[v], n[v]) /\ Slot(x) \in 0 .. Size - 1
  BY <1>5, SlotType DEF Range
<1> QED  BY <1>2, <1>5, <1>6, CopyWrites

\* A call of another thread.
LEMMA OtherCall ==
    ASSUME DataInv, NEW v \in Threads,
           pc'[v] = pc[v], n'[v] = n[v], old'[v] = old[v], max'[v] = max[v], buf'[v] = buf[v],
           pc[v] = "tail" => \A j \in 1 .. n[v] :
               slots'[Slot(old[v] + j - 1)] = slots[Slot(old[v] + j - 1)]
    PROVE  CallInv(v)'
<1>1. CallInv(v)
  BY DEF DataInv
<1> QED  BY <1>1 DEF CallInv

LEMMA EntriesType ==
    ASSUME IInv, NEW u \in Threads, pc[u] = "room" PROVE Entries(u) \in Int
<1> PICK h \in [Sides -> Int], t \in [Sides -> Int], o \in [Threads -> Int] : Unwrapped(h, t, o)
  BY DEF IInv, RingInv
<1>1. Entries(u) = Limit(Side(u), t) - o[u]
  BY EntriesIs DEF Unwrapped, ReadInv
<1>2. Limit(Side(u), t) \in Int /\ o[u] \in Int
  BY WidthType DEF Limit, Sides
<1> QED  BY <1>1, <1>2

\* What the call that takes a step holds.
LEMMA OwnCall ==
    ASSUME IInv, TypeInv', DataInv, NEW u \in Threads, Call(u) \/ Step(u)
    PROVE  CallInv(u)' /\ buf' \in [Threads -> Seq(Elements)]
<1> USE DEF Goto
<1>0. /\ CallInv(u) /\ buf \in [Threads -> Seq(Elements)] /\ (u \in Producers <=> u \notin Consumers)
      /\ pc \in [Threads -> {"idle", "head", "room", "move", "copy", "tail"}]
      /\ n \in [Threads -> Nat] /\ max \in [Threads -> Nat] /\ n' \in [Threads -> Nat]
  BY DEF DataInv, IInv, TypeInv, Threads
<1>1. CASE Call(u)
  <2>1. pc[u] = "idle" /\ pc'[u] = "head"
    BY <1>0, <1>1 DEF Call
  <2>2. CASE u \in Producers
    <3>1. PICK b \in Bursts : buf' = [buf EXCEPT ![u] = b] /\ max' = [max EXCEPT ![u] = Len(b)]
      BY <1>0, <1>1, <2>2 DEF Call
    <3>2. PICK k \in 1 .. MaxBurst : b \in [1 .. k -> Items]
      BY BurstsAssumption
    <3>3. b \in Seq(Elements) /\ Len(b) = k
      BY <3>2 DEF Elements
    <3>4. max'[u] = k /\ buf'[u] = b
      BY <1>0, <3>1, <3>3
    <3> QED  BY <1>0, <2>1, <2>2, <3>1, <3>2, <3>3, <3>4 DEF CallInv
  <2>3. CASE u \notin Producers
    <3>1. UNCHANGED buf
      BY <1>1, <2>3 DEF Call
    <3> QED  BY <1>0, <2>1, <2>3, <3>1 DEF CallInv
  <2> QED  BY <2>2, <2>3
<1>2. CASE ReadHead(u)
  <2>1. pc[u] = "head" /\ pc'[u] = "room" /\ UNCHANGED <<n, max, buf>>
    BY <1>0, <1>2 DEF ReadHead, callVars
  <2> QED  BY <1>0, <2>1 DEF CallInv
<1>3. CASE Room(u)
  <2>1. pc[u] = "room" /\ pc'[u] = "move" /\ n'[u] = Granted(u) /\ UNCHANGED <<max, buf>> /\ Granted(u) > 0
    BY <1>0, <1>3 DEF Room, callVars
  <2>2. n'[u] \in 1 .. max[u] /\ (u \notin Variable => n'[u] = max[u])
    <3>1. Entries(u) \in Int /\ max[u] \in Nat /\ n'[u] \in Nat
      BY <1>0, <2>1, EntriesType
    <3> QED  BY <2>1, <3>1 DEF Granted
  <2> QED  BY <1>0, <2>1, <2>2 DEF CallInv
<1>4. CASE NoRoom(u)
  <2>1. /\ pc[u] = "room" /\ pc'[u] = "idle" /\ buf' = [buf EXCEPT ![u] = <<>>]
    BY <1>0, <1>4 DEF NoRoom, Forget
  <2>2. buf'[u] = <<>> /\ buf' \in [Threads -> Seq(Elements)]
    BY <1>0, <2>1
  <2> QED  BY <1>0, <2>1, <2>2 DEF CallInv
<1>5. CASE Move(u)
  <2>1. pc[u] = "move" /\ pc'[u] = "copy" /\ UNCHANGED <<n, max, buf>>
    BY <1>0, <1>5 DEF Move, callVars
  <2> QED  BY <1>0, <2>1 DEF CallInv
<1>6. CASE Retry(u)
  <2>1. pc[u] = "move" /\ pc'[u] = "head" /\ UNCHANGED <<max, buf>>
    BY <1>0, <1>6 DEF Retry, callVars
  <2> QED  BY <1>0, <2>1 DEF CallInv
<1>7. CASE Copy(u)
  <2>1. pc[u] = "copy" /\ pc'[u] = "tail" /\ UNCHANGED <<n, old, max>>
    BY <1>0, <1>7 DEF Copy
  <2>2. CASE u \in Producers
    <3>1. \A j \in 1 .. n[u] : slots'[Slot(old[u] + j - 1)] = buf[u][j]
      BY <1>7, <2>2, CopyWrites
    <3>2. UNCHANGED buf
      BY <1>0, <1>7, <2>2 DEF Copy
    <3> QED  BY <1>0, <2>1, <2>2, <3>1, <3>2 DEF CallInv
  <2>3. CASE u \notin Producers
    <3>1. buf' = [buf EXCEPT ![u] = Window(slots, old[u], n[u])]
      BY <1>7, <2>3 DEF Copy, Window
    <3>2. Window(slots, old[u], n[u]) \in Seq(Elements)
      BY <1>0, WindowIs DEF IInv, TypeInv, DataInv
    <3>3. buf' \in [Threads -> Seq(Elements)]
      BY <1>0, <3>1, <3>2
    <3> QED  BY <1>0, <2>1, <2>3, <3>3 DEF CallInv
  <2> QED  BY <2>2, <2>3
<1>8. CASE Publish(u)
  <2>1. /\ pc[u] = "tail" /\ pc'[u] = "idle" /\ buf' = [buf EXCEPT ![u] = <<>>]
    BY <1>0, <1>8 DEF Publish, Forget
  <2>2. buf'[u] = <<>> /\ buf' \in [Threads -> Seq(Elements)]
    BY <1>0, <2>1
  <2> QED  BY <1>0, <2>1, <2>2 DEF CallInv
<1> QED  BY <1>1, <1>2, <1>3, <1>4, <1>5, <1>6, <1>7, <1>8 DEF Step

\* A step touches the locals of one call, and the slots only when a producer copies.
LEMMA Locals ==
    ASSUME IInv, DataInv, NEW u \in Threads, Call(u) \/ Step(u)
    PROVE  /\ \A v \in Threads \ {u} : /\ pc'[v] = pc[v] /\ n'[v] = n[v] /\ old'[v] = old[v]
                                      /\ max'[v] = max[v] /\ buf'[v] = buf[v]
           /\ slots' = slots \/ (u \in Producers /\ Copy(u))
<1>1. /\ pc \in [Threads -> {"idle", "head", "room", "move", "copy", "tail"}]
      /\ n \in [Threads -> Nat] /\ max \in [Threads -> Nat] /\ old \in [Threads -> Int]
      /\ buf \in [Threads -> Seq(Elements)]
  BY DEF IInv, TypeInv, DataInv
<1> USE DEF Goto, callVars, Forget
<1>2. CASE Call(u)
  BY <1>1, <1>2 DEF Call
<1>3. CASE ReadHead(u) \/ Retry(u) \/ NoRoom(u)
  BY <1>1, <1>3 DEF ReadHead, Retry, NoRoom
<1>4. CASE Room(u) \/ Move(u)
  BY <1>1, <1>4 DEF Room, Move
<1>5. CASE Copy(u)
  BY <1>1, <1>5 DEF Copy
<1>6. CASE Publish(u)
  BY <1>1, <1>6 DEF Publish
<1> QED  BY <1>2, <1>3, <1>4, <1>5, <1>6 DEF Step

LEMMA DataStep == IInv /\ DataInv /\ [Next]_vars => DataInv'
<1> SUFFICES ASSUME IInv, DataInv, [Next]_vars PROVE DataInv'
  OBVIOUS
<1>1. CASE UNCHANGED vars
  BY <1>1 DEF vars, callVars, DataInv, CallInv
<1>2. ASSUME NEW u \in Threads, Call(u) \/ Step(u) PROVE DataInv'
  <2>1. CallInv(u)' /\ buf' \in [Threads -> Seq(Elements)]
    BY <1>2, OwnCall, TypeHolds DEF IInv, Next
  <2>2. slots' \in Memory
    BY <1>2, Locals, CopyWrites DEF DataInv
  <2>3. ASSUME NEW v \in Threads, v # u PROVE CallInv(v)'
    <3>1. pc[v] = "tail" => \A j \in 1 .. n[v] :
              slots'[Slot(old[v] + j - 1)] = slots[Slot(old[v] + j - 1)]
      BY <1>2, <2>3, Locals, CopySpares DEF Busy
    <3> QED  BY <1>2, <2>3, <3>1, Locals, OtherCall
  <2> QED  BY <2>1, <2>2, <2>3 DEF DataInv
<1> QED  BY <1>1, <1>2 DEF Next

-----------------------------------------------------------------------------
(* The ring as a queue.                                                    *)

\* What RteRing substitutes for the variables of BoundedFifo.
Queue == Stored(head["cons"], Dist(head["cons"], tail["prod"]))
Asked == [p \in Producers |-> buf[p]]
Got == [c \in Consumers |-> IF pc[c] = "copy" THEN Stored(old[c], n[c]) ELSE buf[c]]

\* The actions of BoundedFifo under that substitution.
LEMMA FifoActions ==
    /\ \A p \in Producers :
        /\ Fifo!Ask(p) <=> /\ Asked[p] = <<>>
                          /\ \E k \in 1 .. MaxBurst : \E s \in [1 .. k -> Items] :
                                Asked' = [Asked EXCEPT ![p] = s]
                          /\ UNCHANGED <<Queue, Got>>
        /\ Fifo!Put(p) <=> /\ \E m \in 1 .. Len(Asked[p]) :
                                /\ p \in Producers \ Variable => m = Len(Asked[p])
                                /\ Len(Queue) + m <= Capacity
                                /\ Queue' = Queue \o SubSeq(Asked[p], 1, m)
                          /\ Asked' = [Asked EXCEPT ![p] = <<>>]
                          /\ UNCHANGED Got
        /\ Fifo!Refuse(p) <=> /\ Asked' = [Asked EXCEPT ![p] = <<>>]
                             /\ UNCHANGED <<Queue, Got>>
    /\ \A c \in Consumers :
        /\ Fifo!Take(c) <=> /\ Got[c] = <<>>
                           /\ \E m \in 1 .. Len(Queue) :
                                /\ Got' = [Got EXCEPT ![c] = SubSeq(Queue, 1, m)]
                                /\ Queue' = SubSeq(Queue, m + 1, Len(Queue))
                           /\ UNCHANGED Asked
        /\ Fifo!Return(c) <=> Got' = [Got EXCEPT ![c] = <<>>] /\ UNCHANGED <<Queue, Asked>>
    /\ UNCHANGED <<Queue, Asked, Got>> => UNCHANGED Fifo!vars
<1> USE DEF Queue, Asked, Got
<1>1. ASSUME NEW p \in Producers
      PROVE  /\ Fifo!Ask(p) <=> /\ Asked[p] = <<>>
                               /\ \E k \in 1 .. MaxBurst : \E s \in [1 .. k -> Items] :
                                     Asked' = [Asked EXCEPT ![p] = s]
                               /\ UNCHANGED <<Queue, Got>>
             /\ Fifo!Put(p) <=> /\ \E m \in 1 .. Len(Asked[p]) :
                                     /\ p \in Producers \ Variable => m = Len(Asked[p])
                                     /\ Len(Queue) + m <= Capacity
                                     /\ Queue' = Queue \o SubSeq(Asked[p], 1, m)
                               /\ Asked' = [Asked EXCEPT ![p] = <<>>]
                               /\ UNCHANGED Got
             /\ Fifo!Refuse(p) <=> /\ Asked' = [Asked EXCEPT ![p] = <<>>]
                                  /\ UNCHANGED <<Queue, Got>>
  BY Zenon DEF Fifo!Ask, Fifo!Put, Fifo!Refuse
<1>2. ASSUME NEW c \in Consumers
      PROVE  /\ Fifo!Take(c) <=> /\ Got[c] = <<>>
                                /\ \E m \in 1 .. Len(Queue) :
                                     /\ Got' = [Got EXCEPT ![c] = SubSeq(Queue, 1, m)]
                                     /\ Queue' = SubSeq(Queue, m + 1, Len(Queue))
                                /\ UNCHANGED Asked
             /\ Fifo!Return(c) <=> Got' = [Got EXCEPT ![c] = <<>>] /\ UNCHANGED <<Queue, Asked>>
  BY Zenon DEF Fifo!Take, Fifo!Return
<1>3. UNCHANGED <<Queue, Asked, Got>> => UNCHANGED Fifo!vars
  BY DEF Fifo!vars
<1> QED  BY <1>1, <1>2, <1>3, Zenon

\* The items between two indices that are less than a lap apart.
LEMMA QueueIs ==
    ASSUME NEW f, NEW a \in Int, NEW b \in Int, a <= b, b < a + Width
    PROVE  Window(f, a % Width, Dist(a % Width, b % Width)) = Window(f, a, b - a)
<1>1. Dist(a % Width, b % Width) = b - a
  BY DistIs
<1>2. PICK k \in Nat : k = b - a
  OBVIOUS
<1>3. Window(f, a % Width, k) = Window(f, a, k)
  BY WindowWrap
<1> QED  BY <1>1, <1>2, <1>3

\* Between the head of the consumers and the tail of the producers there is at most
\* what the ring holds.
LEMMA QueueNow ==
    ASSUME IInv, DataInv, NEW h \in [Sides -> Int], NEW t \in [Sides -> Int],
           NEW o \in [Threads -> Int], Unwrapped(h, t, o)
    PROVE  /\ h["cons"] \in Int /\ t["prod"] \in Int /\ t["prod"] - h["cons"] \in 0 .. Capacity
           /\ head["cons"] = h["cons"] % Width /\ tail["prod"] = t["prod"] % Width
           /\ Queue = Window(slots, h["cons"], t["prod"] - h["cons"])
           /\ Queue \in Seq(Elements) /\ Len(Queue) = t["prod"] - h["cons"]
<1>1. /\ h["cons"] \in Int /\ t["prod"] \in Int /\ h["prod"] \in Int /\ t["cons"] \in Int
      /\ head["cons"] = h["cons"] % Width /\ tail["prod"] = t["prod"] % Width
      /\ Ordered(h, t)
  BY DEF Unwrapped, Wraps, Sides
<1>2. t["prod"] - h["cons"] \in 0 .. Capacity
  BY <1>1, WidthType DEF Ordered
<1>3. Queue = Window(slots, head["cons"], Dist(head["cons"], tail["prod"]))
  BY DEF Queue, Stored, Window
<1>4. Queue = Window(slots, h["cons"], t["prod"] - h["cons"])
  <2>1. h["cons"] <= t["prod"] /\ t["prod"] < h["cons"] + Width
    BY <1>1, <1>2, WidthType
  <2>2. \A a, b \in Int : a <= b /\ b < a + Width =>
            Window(slots, a % Width, Dist(a % Width, b % Width)) = Window(slots, a, b - a)
    BY QueueIs
  <2> QED  BY <1>1, <1>3, <2>1, <2>2, Zenon
<1>5. PICK k \in Nat : k = t["prod"] - h["cons"]
  BY <1>2, WidthType
<1>6. PICK a \in Int : a = h["cons"]
  BY <1>1
<1>7. Queue \in Seq(Elements) /\ Len(Queue) = k
  <2>1. slots \in Memory
    BY DEF DataInv
  <2>2. Window(slots, a, k) \in Seq(Elements) /\ Len(Window(slots, a, k)) = k
    BY <2>1, WindowIs
  <2> QED  BY <1>4, <1>5, <1>6, <2>2, Zenon
<1> QED  BY <1>1, <1>2, <1>4, <1>5, <1>7

\* A producer that copies spares the items in the queue.
LEMMA QueueSpared ==
    ASSUME IInv, DataInv, NEW u \in Producers, Copy(u) PROVE UNCHANGED Queue
<1> PICK h \in [Sides -> Int], t \in [Sides -> Int], o \in [Threads -> Int] : Unwrapped(h, t, o)
  BY DEF IInv, RingInv
<1>1. PICK a \in Int, k \in Nat : a = h["cons"] /\ k = t["prod"] - h["cons"]
  <2>1. h["cons"] \in Int /\ t["prod"] \in Int /\ t["prod"] - h["cons"] \in 0 .. Capacity
    BY QueueNow
  <2> QED  BY <2>1, WidthType
<1>2. u \in Threads /\ Busy(u) /\ Side(u) = "prod" /\ UNCHANGED <<head, tail>>
  BY DEF Threads, Side, Copy, Goto, Busy
<1>3. /\ t["prod"] <= o[u] /\ o[u] + n[u] <= h["prod"] /\ h["prod"] <= h["cons"] + Capacity
      /\ h["cons"] <= t["prod"]
  <2>1. t["prod"] <= o[u] /\ o[u] + n[u] <= h["prod"]
    BY <1>2 DEF Unwrapped, BusyInv
  <2>2. Ordered(h, t) /\ h["cons"] \in Int /\ h["prod"] \in Int /\ t["cons"] \in Int /\ t["prod"] \in Int
    BY DEF Unwrapped, Sides
  <2> QED  BY <2>1, <2>2, WidthType DEF Ordered
<1>4. /\ o[u] \in Int /\ n[u] \in Nat /\ h["prod"] \in Int /\ t["prod"] \in Int /\ old[u] = o[u] % Width
  BY <1>2 DEF Unwrapped, Wraps, IInv, TypeInv, Sides
<1>5. ASSUME NEW j \in 1 .. k PROVE slots'[Slot(a + j - 1)] = slots[Slot(a + j - 1)]
  <2>1. PICK x \in Int : x = a + j - 1
    OBVIOUS
  <2>2. ASSUME NEW i \in 0 .. n[u] - 1, Slot(x) = Slot(old[u] + i) PROVE FALSE
    <3>1. Slot(old[u] + i) = Slot(o[u] + i)
      <4>1. i \in Int
        OBVIOUS
      <4>2. Slot((o[u] % Width) + i) = Slot(o[u] + i)
        BY <1>4, <4>1, SlotOfWrapped, Zenon
      <4> QED  BY <1>4, <4>2, Zenon
    <3>2. PICK y \in Int : y = o[u] + i
      BY <1>4
    <3>3. x < y /\ y - x < Size
      BY <1>1, <1>3, <1>4, <2>1, <3>2, WidthType
    <3>4. Slot(x) = Slot(y)
      BY <2>2, <3>1, <3>2
    <3> QED  BY <3>3, <3>4, SlotInj
  <2>3. Slot(x) \notin Range(old[u], n[u]) /\ Slot(x) \in 0 .. Size - 1
    BY <2>2, SlotType DEF Range
  <2> QED  BY <2>1, <2>3, CopyWrites
<1>6. Window(slots', a, k) = Window(slots, a, k)
  BY <1>5 DEF Window
<1>7. ASSUME NEW f PROVE Window(f, head["cons"], Dist(head["cons"], tail["prod"])) = Window(f, a, k)
  <2>1. a <= t["prod"] /\ t["prod"] < a + Width /\ t["prod"] \in Int
    <3>1. h["cons"] \in Int /\ t["prod"] \in Int /\ t["prod"] - h["cons"] \in 0 .. Capacity
      BY QueueNow
    <3>2. Capacity \in Nat /\ Width \in Nat /\ Capacity < Width
      BY WidthType
    <3>3. PICK e \in Int : e = t["prod"]
      BY <3>1
    <3>4. a <= e /\ e <= a + Capacity
      BY <1>1, <3>1, <3>2, <3>3
    <3> QED  BY <3>2, <3>3, <3>4
  <2>2. \A b \in Int : a <= b /\ b < a + Width =>
            Window(f, a % Width, Dist(a % Width, b % Width)) = Window(f, a, b - a)
    BY QueueIs
  <2>3. head["cons"] = a % Width /\ tail["prod"] = t["prod"] % Width /\ k = t["prod"] - a
    BY <1>1, QueueNow
  <2> QED  BY <2>1, <2>2, <2>3, Zenon
<1>8. Queue = Window(slots, head["cons"], Dist(head["cons"], tail["prod"]))
  BY DEF Queue, Stored, Window
<1>9. Queue' = Window(slots', head["cons"], Dist(head["cons"], tail["prod"]))
  BY <1>2 DEF Queue, Stored, Window
<1> QED  BY <1>6, <1>7, <1>8, <1>9

GotBy(c) == IF pc[c] = "copy" THEN Window(slots, old[c], n[c]) ELSE buf[c]

LEMMA GotIs == /\ Got = [c \in Consumers |-> GotBy(c)]
               /\ Got' = [c \in Consumers |-> GotBy(c)']
  BY DEF Got, GotBy, Stored, Window

\* What one consumer has got is not touched by the call of another thread.
LEMMA GotSame ==
    ASSUME IInv, DataInv, NEW u \in Threads, Call(u) \/ Step(u), NEW c \in Consumers, c # u
    PROVE  GotBy(c)' = GotBy(c)
<1>1. /\ c \in Threads /\ pc'[c] = pc[c] /\ n'[c] = n[c] /\ old'[c] = old[c] /\ buf'[c] = buf[c]
  BY Locals DEF Threads
<1>2. CASE pc[c] # "copy"
  BY <1>1, <1>2 DEF GotBy
<1>3. CASE pc[c] = "copy"
  <2>1. \A j \in 1 .. n[c] : slots'[Slot(old[c] + j - 1)] = slots[Slot(old[c] + j - 1)]
    BY <1>1, <1>3, Locals, CopySpares DEF Busy
  <2>2. Window(slots', old[c], n[c]) = Window(slots, old[c], n[c])
    BY <2>1 DEF Window
  <2>3. GotBy(c)' = Window(slots', old[c], n[c])
    BY <1>1, <1>3 DEF GotBy, Window
  <2> QED  BY <1>3, <2>2, <2>3 DEF GotBy
<1> QED  BY <1>2, <1>3

\* The queue is the same when the indices and the slots that bound it are.
LEMMA QueueSame ==
    UNCHANGED <<head["cons"], tail["prod"], slots>> => UNCHANGED Queue
  BY DEF Queue, Stored

\* A producer that moves the tail puts what it was granted at the end of the queue.
LEMMA PublishPuts ==
    ASSUME IInv, DataInv, NEW u \in Producers, Publish(u)
    PROVE  /\ n[u] \in 1 .. Len(buf[u]) /\ (u \notin Variable => n[u] = Len(buf[u]))
           /\ Len(Queue) + n[u] <= Capacity
           /\ Queue' = Queue \o SubSeq(buf[u], 1, n[u])
<1> PICK h \in [Sides -> Int], t \in [Sides -> Int], o \in [Threads -> Int] : Unwrapped(h, t, o)
  BY DEF IInv, RingInv
<1>1. u \in Threads /\ Side(u) = "prod" /\ pc[u] = "tail" /\ CallInv(u)
  BY DEF Threads, Side, Publish, Goto, DataInv
<1>2. PICK k \in Nat, m \in Nat : m = n[u] /\ k = max[u]
  BY <1>1 DEF CallInv, IInv, TypeInv
<1>3. /\ buf[u] \in [1 .. k -> Items] /\ (u \notin Variable => m = k) /\ m \in 1 .. k
      /\ \A j \in 1 .. m : slots[Slot(old[u] + j - 1)] = buf[u][j]
  BY <1>1, <1>2 DEF CallInv
<1>4. buf[u] \in Seq(Elements) /\ Len(buf[u]) = k
  BY <1>1, <1>3 DEF DataInv
<1>5. PICK a \in Int, b \in Int, l \in Nat :
          a = h["cons"] /\ b = t["prod"] /\ l = b - a /\ l \in 0 .. Capacity
  <2>1. h["cons"] \in Int /\ t["prod"] \in Int /\ t["prod"] - h["cons"] \in 0 .. Capacity
    BY QueueNow, Zenon
  <2>2. PICK l \in Nat : l = t["prod"] - h["cons"] /\ l \in 0 .. Capacity
    BY <2>1, WidthType
  <2> QED  BY <2>1, <2>2
<1>6. Queue = Window(slots, a, l) /\ Len(Queue) = l /\ head["cons"] = a % Width
  BY <1>5, QueueNow
<1>7. o[u] = b /\ b + m <= h["prod"]
  BY <1>1, <1>2, <1>5, PublishAt
<1>8. l + m <= Capacity
  <2>1. Ordered(h, t) /\ h["cons"] \in Int /\ h["prod"] \in Int /\ t["cons"] \in Int
    BY DEF Unwrapped, Sides
  <2> QED  BY <1>5, <1>7, <2>1, WidthType DEF Ordered
<1>9. Queue' = Window(slots, a, l + m)
  <2>1. tail'["prod"] = (b + m) % Width
    <3>1. (old[u] + m) % Width = (b + m) % Width
      <4>1. ((b % Width) + m) % Width = (b + m) % Width
        <5>1. m \in Int
          BY <1>2
        <5> QED  BY <5>1, WrapAdd, Zenon
      <4>2. old[u] = b % Width
        BY <1>1, <1>7 DEF Unwrapped, Wraps
      <4> QED  BY <4>1, <4>2, Zenon
    <3>2. tail' = [tail EXCEPT !["prod"] = (old[u] + n[u]) % Width]
      BY <1>1 DEF Publish
    <3>3. tail'["prod"] = (old[u] + n[u]) % Width
      BY <3>2 DEF IInv, TypeInv, Sides
    <3> QED  BY <1>2, <3>1, <3>3
  <2>2. Queue' = Window(slots, a % Width, Dist(a % Width, (b + m) % Width))
    <3>1. Queue' = Window(slots, head["cons"], Dist(head["cons"], tail'["prod"]))
      BY DEF Publish, Queue, Stored, Window
    <3> QED  BY <1>6, <2>1, <3>1, Zenon
  <2>3. PICK c \in Int : c = b + m
    OBVIOUS
  <2>4. a <= c /\ c < a + Width /\ c - a = l + m
    BY <1>5, <1>8, <2>3, WidthType
  <2>5. Window(slots, a % Width, Dist(a % Width, c % Width)) = Window(slots, a, c - a)
    BY <2>4, QueueIs
  <2> QED  BY <2>2, <2>3, <2>4, <2>5, Zenon
<1>10. slots \in Memory
  BY DEF DataInv
<1>11. Window(slots, a, l + m) = Joined(Window(slots, a, l), Window(slots, b, m))
  <2>1. PICK i \in Nat : i = l + m
    OBVIOUS
  <2>2. b = a + l
    BY <1>5
  <2>3. Window(slots, a, i) = Joined(Window(slots, a, l), Window(slots, b, m))
    BY <1>10, <2>1, <2>2, WindowJoin
  <2> QED  BY <2>1, <2>3
<1>12. Window(slots, b, m) = SubSeq(buf[u], 1, m)
  <2>1. ASSUME NEW j \in 1 .. m PROVE Window(slots, b, m)[j] = SubSeq(buf[u], 1, m)[j]
    <3>1. PICK i \in Int : i = j - 1
      OBVIOUS
    <3>2. Slot((b % Width) + i) = Slot(b + i)
      BY SlotOfWrapped
    <3>3. old[u] = b % Width /\ old[u] \in Int
      BY <1>1, <1>7 DEF Unwrapped, Wraps, IInv, TypeInv
    <3>4. old[u] + i = old[u] + j - 1 /\ b + i = b + j - 1
      BY <3>1, <3>3
    <3>5. Slot(old[u] + j - 1) = Slot(b + j - 1)
      BY <3>2, <3>3, <3>4, Zenon
    <3>6. Window(slots, b, m)[j] = slots[Slot(b + j - 1)]
      BY DEF Window
    <3>7. SubSeq(buf[u], 1, m)[j] = buf[u][j]
      BY <1>3, <1>4
    <3> QED  BY <1>3, <3>5, <3>6, <3>7
  <2>2. Window(slots, b, m) \in Seq(Elements) /\ Len(Window(slots, b, m)) = m
    BY <1>10, WindowIs
  <2>3. SubSeq(buf[u], 1, m) \in Seq(Elements) /\ Len(SubSeq(buf[u], 1, m)) = m
    BY <1>3, <1>4
  <2> QED  BY <2>1, <2>2, <2>3, SameSequence
<1>13. Queue' = Queue \o SubSeq(buf[u], 1, m)
  BY <1>6, <1>9, <1>11, <1>12, Zenon DEF Joined
<1> QED  BY <1>2, <1>3, <1>4, <1>6, <1>8, <1>13

\* A consumer that moves the head takes what it was granted from the front.
LEMMA MoveTakes ==
    ASSUME IInv, DataInv, NEW u \in Consumers, Move(u)
    PROVE  /\ GotBy(u) = <<>> /\ n[u] \in 1 .. Len(Queue)
           /\ GotBy(u)' = SubSeq(Queue, 1, n[u])
           /\ Queue' = SubSeq(Queue, n[u] + 1, Len(Queue))
<1> PICK h \in [Sides -> Int], t \in [Sides -> Int], o \in [Threads -> Int] : Unwrapped(h, t, o)
  BY DEF IInv, RingInv
<1>1. u \in Threads /\ Side(u) = "cons" /\ pc[u] = "move" /\ CallInv(u)
  BY DEF Threads, Side, Move, Goto, DataInv
<1>2. PICK m \in Nat : m = n[u]
  BY <1>1 DEF IInv, TypeInv
<1>3. PICK a \in Int, k \in Nat : a = h["cons"] /\ k = t["prod"] - a
  <2>1. h["cons"] \in Int /\ t["prod"] \in Int /\ t["prod"] - h["cons"] \in 0 .. Capacity
    BY QueueNow, Zenon
  <2>2. PICK k \in Nat : k = t["prod"] - h["cons"]
    BY <2>1, WidthType
  <2> QED  BY <2>1, <2>2
<1>4. /\ Queue = Window(slots, a, k) /\ Queue \in Seq(Elements) /\ Len(Queue) = k
      /\ head["cons"] = a % Width /\ tail["prod"] = t["prod"] % Width
      /\ t["prod"] \in Int /\ k \in 0 .. Capacity
  BY <1>3, QueueNow
<1>5. o[u] = a /\ m > 0 /\ m <= k /\ old[u] = a % Width
  <2>1. o[u] = h["cons"] /\ n[u] > 0 /\ o[u] + n[u] <= Limit("cons", t)
    BY <1>1, MoveAt
  <2>2. Limit("cons", t) = t["prod"]
    BY DEF Limit
  <2>3. old[u] = o[u] % Width
    BY <1>1 DEF Unwrapped, Wraps
  <2> QED  BY <1>2, <1>3, <1>4, <2>1, <2>2, <2>3
<1>6. PICK b \in Int, l \in Nat : b = a + m /\ k = m + l
  BY <1>5
<1>7. slots \in Memory
  BY DEF DataInv
<1>8. Window(slots, a, m) = Front(Queue, m) /\ Window(slots, b, l) = Back(Queue, m)
  <2>1. /\ Window(slots, a, m) = Front(Window(slots, a, k), m)
        /\ Window(slots, b, l) = Back(Window(slots, a, k), m)
    BY <1>6, <1>7, WindowCut
  <2> QED  BY <1>4, <2>1, Zenon
<1>9. /\ pc' = [pc EXCEPT ![u] = "copy"] /\ UNCHANGED <<tail, slots, n, old>>
      /\ head' = [head EXCEPT !["cons"] = (old[u] + n[u]) % Width]
  BY <1>1 DEF Move, Goto
<1>10. GotBy(u) = <<>>
  BY <1>1 DEF GotBy, CallInv
<1>11. GotBy(u)' = Front(Queue, m)
  <2>1. pc'[u] = "copy"
    BY <1>1, <1>9 DEF IInv, TypeInv
  <2>2. GotBy(u)' = Window(slots, old[u], m)
    BY <1>2, <1>9, <2>1 DEF GotBy, Window
  <2>3. Window(slots, a % Width, m) = Window(slots, a, m)
    BY WindowWrap
  <2> QED  BY <1>5, <1>8, <2>2, <2>3, Zenon
<1>12. Queue' = Back(Queue, m)
  <2>1. head'["cons"] = b % Width
    <3>1. ((a % Width) + m) % Width = (a + m) % Width
      <4>1. m \in Int
        OBVIOUS
      <4> QED  BY <4>1, WrapAdd, Zenon
    <3>2. head'["cons"] = (old[u] + n[u]) % Width
      BY <1>9 DEF IInv, TypeInv, Sides
    <3> QED  BY <1>2, <1>5, <1>6, <3>1, <3>2, Zenon
  <2>2. Queue' = Window(slots, b % Width, Dist(b % Width, t["prod"] % Width))
    <3>1. Queue' = Window(slots, head'["cons"], Dist(head'["cons"], tail["prod"]))
      BY <1>9 DEF Queue, Stored, Window
    <3> QED  BY <1>4, <2>1, <3>1, Zenon
  <2>3. PICK c \in Int : c = t["prod"]
    BY <1>4
  <2>4. b <= c /\ c < b + Width /\ c - b = l
    <3>1. k = c - a
      BY <1>3, <2>3
    <3>2. k < Width
      <4>1. k <= Capacity
        BY <1>4, WidthType
      <4> QED  BY <4>1, WidthType
    <3> QED  BY <1>6, <3>1, <3>2, WidthType
  <2>5. Window(slots, b % Width, Dist(b % Width, c % Width)) = Window(slots, b, c - b)
    BY <2>4, QueueIs
  <2> QED  BY <1>8, <2>2, <2>3, <2>4, <2>5, Zenon
<1> QED  BY <1>2, <1>4, <1>5, <1>10, <1>11, <1>12 DEF Front, Back

\* Each step of a producer's call is a step of the queue, or none.
LEMMA ProducerStep ==
    ASSUME IInv, DataInv, NEW u \in Producers, Call(u) \/ Step(u)
    PROVE  Fifo!Ask(u) \/ Fifo!Put(u) \/ Fifo!Refuse(u) \/ UNCHANGED <<Queue, Asked, Got>>
<1>1. u \in Threads /\ u \notin Consumers /\ Side(u) = "prod" /\ CallInv(u)
  BY DEF Threads, Side, DataInv
<1>2. UNCHANGED Got
  <2>1. \A c \in Consumers : GotBy(c)' = GotBy(c)
    BY <1>1, GotSame
  <2> QED  BY <2>1, GotIs
<1>3. UNCHANGED buf => UNCHANGED Asked
  BY DEF Asked
<1>4. buf \in [Threads -> Seq(Elements)] /\ Producers \subseteq Threads
  BY DEF DataInv, Threads
<1> USE DEF Goto, callVars
<1>5. CASE Call(u)
  <2>1. PICK s \in Bursts : buf' = [buf EXCEPT ![u] = s] /\ UNCHANGED <<head, tail, slots>> /\ pc[u] = "idle"
    BY <1>1, <1>5 DEF Call
  <2>2. PICK k \in 1 .. MaxBurst : s \in [1 .. k -> Items]
    BY BurstsAssumption
  <2>3. Asked[u] = <<>> /\ Asked' = [Asked EXCEPT ![u] = s]
    BY <1>1, <1>4, <2>1 DEF CallInv, Asked
  <2>4. UNCHANGED Queue
    BY <2>1, QueueSame
  <2>5. Fifo!Ask(u)
    BY <1>2, <2>2, <2>3, <2>4, FifoActions
  <2> QED  BY <2>5
<1>6. CASE ReadHead(u) \/ Room(u) \/ Retry(u) \/ Move(u)
  <2>1. UNCHANGED <<head["cons"], tail, slots, buf>>
    BY <1>1, <1>6 DEF ReadHead, Room, Retry, Move, IInv, TypeInv, Sides
  <2> QED  BY <1>2, <1>3, <2>1, QueueSame
<1>7. CASE Copy(u)
  <2>1. UNCHANGED buf
    BY <1>1, <1>7 DEF Copy
  <2> QED  BY <1>2, <1>3, <1>7, <2>1, QueueSpared
<1>8. CASE NoRoom(u)
  <2>1. UNCHANGED <<head, tail, slots>> /\ buf' = [buf EXCEPT ![u] = <<>>]
    BY <1>8 DEF NoRoom, Forget
  <2>2. Asked' = [Asked EXCEPT ![u] = <<>>]
    BY <1>4, <2>1 DEF Asked
  <2>3. Fifo!Refuse(u)
    BY <1>2, <2>1, <2>2, QueueSame, FifoActions
  <2> QED  BY <2>3
<1>9. CASE Publish(u)
  <2>1. buf' = [buf EXCEPT ![u] = <<>>]
    BY <1>9 DEF Publish, Forget
  <2>2. Asked' = [Asked EXCEPT ![u] = <<>>] /\ Asked[u] = buf[u]
    BY <1>4, <2>1 DEF Asked
  <2>3. PICK m \in 1 .. Len(Asked[u]) : /\ u \in Producers \ Variable => m = Len(Asked[u])
                                        /\ Len(Queue) + m <= Capacity
                                        /\ Queue' = Queue \o SubSeq(Asked[u], 1, m)
    <3>1. /\ n[u] \in 1 .. Len(buf[u]) /\ (u \notin Variable => n[u] = Len(buf[u]))
          /\ Len(Queue) + n[u] <= Capacity
          /\ Queue' = Queue \o SubSeq(buf[u], 1, n[u])
      BY <1>9, PublishPuts
    <3> QED  BY <2>2, <3>1, Zenon
  <2>4. Fifo!Put(u)
    BY <1>2, <2>2, <2>3, FifoActions, Zenon
  <2> QED  BY <2>4
<1> QED  BY <1>5, <1>6, <1>7, <1>8, <1>9 DEF Step

\* Each step of a consumer's call is a step of the queue, or none.
LEMMA ConsumerStep ==
    ASSUME IInv, DataInv, NEW u \in Consumers, Call(u) \/ Step(u)
    PROVE  Fifo!Take(u) \/ Fifo!Return(u) \/ UNCHANGED <<Queue, Asked, Got>>
<1>1. u \in Threads /\ u \notin Producers /\ Side(u) = "cons" /\ CallInv(u)
  BY DEF Threads, Side, DataInv
<1>2. /\ buf \in [Threads -> Seq(Elements)] /\ Producers \subseteq Threads
      /\ pc \in [Threads -> {"idle", "head", "room", "move", "copy", "tail"}]
  BY DEF DataInv, IInv, TypeInv, Threads
<1>3. UNCHANGED Asked
  <2>1. \A p \in Producers : buf'[p] = buf[p]
    BY <1>1, <1>2, Locals
  <2> QED  BY <2>1 DEF Asked
<1>4. \A c \in Consumers \ {u} : GotBy(c)' = GotBy(c)
  BY <1>1, GotSame
<1>5. Got' = [Got EXCEPT ![u] = GotBy(u)'] /\ Got[u] = GotBy(u)
  BY <1>4, GotIs
<1>6. GotBy(u)' = GotBy(u) => UNCHANGED Got
  BY <1>4, GotIs
<1> USE DEF Goto, callVars
<1>7. CASE Call(u) \/ ReadHead(u) \/ Room(u) \/ Retry(u)
  <2>1. UNCHANGED <<head, tail, slots, buf>> /\ pc[u] # "copy" /\ pc'[u] # "copy"
    BY <1>1, <1>2, <1>7 DEF Call, ReadHead, Room, Retry
  <2>2. GotBy(u)' = GotBy(u)
    BY <2>1 DEF GotBy
  <2> QED  BY <1>3, <1>6, <2>1, <2>2, QueueSame
<1>8. CASE NoRoom(u)
  <2>1. /\ UNCHANGED <<head, tail, slots>> /\ pc[u] = "room" /\ pc'[u] = "idle"
        /\ buf'[u] = <<>>
    BY <1>1, <1>2, <1>8 DEF NoRoom, Forget
  <2>2. GotBy(u)' = GotBy(u)
    BY <1>1, <2>1 DEF GotBy, CallInv
  <2> QED  BY <1>3, <1>6, <2>1, <2>2, QueueSame
<1>9. CASE Move(u)
  <2>1. PICK m \in 1 .. Len(Queue) : /\ Got' = [Got EXCEPT ![u] = SubSeq(Queue, 1, m)]
                                     /\ Queue' = SubSeq(Queue, m + 1, Len(Queue))
    <3>1. /\ n[u] \in 1 .. Len(Queue)
          /\ GotBy(u)' = SubSeq(Queue, 1, n[u])
          /\ Queue' = SubSeq(Queue, n[u] + 1, Len(Queue))
      BY <1>9, MoveTakes
    <3>2. Got' = [Got EXCEPT ![u] = SubSeq(Queue, 1, n[u])]
      BY <1>5, <3>1, Zenon
    <3> QED  BY <3>1, <3>2, Zenon
  <2>2. Got[u] = <<>>
    BY <1>5, <1>9, MoveTakes
  <2>3. Fifo!Take(u)
    BY <1>3, <2>1, <2>2, FifoActions, Zenon
  <2> QED  BY <2>3
<1>10. CASE Copy(u)
  <2>1. /\ UNCHANGED <<head, tail, slots>> /\ pc[u] = "copy" /\ pc'[u] = "tail"
        /\ buf' = [buf EXCEPT ![u] = Window(slots, old[u], n[u])]
    BY <1>1, <1>2, <1>10 DEF Copy, Window
  <2>2. GotBy(u)' = GotBy(u)
    BY <1>1, <1>2, <2>1 DEF GotBy
  <2> QED  BY <1>3, <1>6, <2>1, <2>2, QueueSame
<1>11. CASE Publish(u)
  <2>1. /\ UNCHANGED <<head, slots>> /\ pc'[u] = "idle" /\ buf' = [buf EXCEPT ![u] = <<>>]
        /\ tail'["prod"] = tail["prod"]
    BY <1>1, <1>2, <1>11 DEF Publish, Forget, IInv, TypeInv, Sides
  <2>2. GotBy(u)' = <<>>
    BY <1>1, <1>2, <2>1 DEF GotBy
  <2>3. Fifo!Return(u)
    BY <1>3, <1>5, <2>1, <2>2, QueueSame, FifoActions
  <2> QED  BY <2>3
<1> QED  BY <1>7, <1>8, <1>9, <1>10, <1>11 DEF Step

LEMMA FifoInit == Init => Fifo!Init
<1> SUFFICES ASSUME Init PROVE Queue = <<>> /\ Asked = [p \in Producers |-> <<>>]
                               /\ Got = [c \in Consumers |-> <<>>]
  BY Zenon DEF Fifo!Init, Queue, Asked, Got
<1>1. head["cons"] = 0 /\ tail["prod"] = 0
  BY DEF Init, Sides
<1>2. Dist(0, 0) = 0
  BY WidthType, ModSmall DEF Dist
<1>3. Queue = Stored(0, 0)
  BY <1>1, <1>2 DEF Queue
<1>4. Stored(0, 0) = <<>>
  BY DEF Stored
<1>5. Producers \subseteq Threads /\ Consumers \subseteq Threads
  BY DEF Threads
<1> QED  BY <1>3, <1>4, <1>5 DEF Init, Asked, Got

\* The ring is a bounded first-in, first-out queue for its users: compare and set,
\* copies out of order and waits for the tail let each enqueue and dequeue take
\* effect at once, in one order.
THEOREM RingIsFifo == Spec => ImplementsFifo
<1>1. IInv /\ DataInv /\ [Next]_vars => [Fifo!Next]_(Fifo!vars)
  <2> SUFFICES ASSUME IInv, DataInv, [Next]_vars PROVE Fifo!Next \/ UNCHANGED Fifo!vars
    OBVIOUS
  <2>1. CASE UNCHANGED vars
    <3>1. UNCHANGED <<Queue, Asked, Got>>
      BY <2>1 DEF vars, callVars, Queue, Asked, Got, Stored
    <3> QED  BY <3>1, FifoActions
  <2>2. ASSUME NEW u \in Producers, Call(u) \/ Step(u) PROVE Fifo!Next \/ UNCHANGED Fifo!vars
    BY <2>2, ProducerStep, FifoActions DEF Fifo!Next
  <2>3. ASSUME NEW u \in Consumers, Call(u) \/ Step(u) PROVE Fifo!Next \/ UNCHANGED Fifo!vars
    BY <2>3, ConsumerStep, FifoActions DEF Fifo!Next
  <2> QED  BY <2>1, <2>2, <2>3 DEF Next, Threads
<1>2. Spec => []DataInv
  BY DataInit, DataStep, Invariant, PTL DEF Spec
<1> QED  BY <1>1, <1>2, FifoInit, Invariant, PTL DEF Spec, ImplementsFifo, Fifo!Spec
=============================================================================
