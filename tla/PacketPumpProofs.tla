-------------------------- MODULE PacketPumpProofs --------------------------
(***************************************************************************)
(* Of PacketPump, for any pool, traffic, burst, rings and queues: a buffer *)
(* has one owner until it is spoiled.  Every step moves buffers from one   *)
(* sequence to another or to the pool, so the proof counts occurrences:    *)
(* what a sequence loses, its neighbour gains.                             *)
(***************************************************************************)
EXTENDS PacketPump, FiniteSetTheorems, SequenceTheorems, TLAPS

-----------------------------------------------------------------------------
(* How often a buffer occurs in a sequence.                                *)

Places(s, b) == {j \in DOMAIN s : s[j] = b}

LEMMA PlacesFinite ==
  ASSUME NEW s \in Seq(Bufs), NEW b
  PROVE  IsFiniteSet(Places(s, b)) /\ Occurrences(s, b) \in Nat
<1>1. IsFiniteSet(1 .. Len(s))
  BY FS_Interval
<1>2. Places(s, b) \subseteq 1 .. Len(s)
  BY DEF Places
<1>3. IsFiniteSet(Places(s, b))
  BY <1>1, <1>2, FS_Subset
<1>4. Cardinality(Places(s, b)) \in Nat
  BY <1>3, FS_CardinalityType
<1>. QED
  BY <1>3, <1>4 DEF Occurrences, Places

LEMMA OccursNever ==
  ASSUME NEW s \in Seq(Bufs), NEW b
  PROVE  Occurrences(s, b) = 0 <=> \A j \in 1 .. Len(s) : s[j] # b
<1>1. Cardinality(Places(s, b)) = 0 <=> Places(s, b) = {}
  BY PlacesFinite, FS_EmptySet
<1>. QED
  BY <1>1 DEF Occurrences, Places

LEMMA OccursNowhere ==
  ASSUME NEW s \in Seq(Bufs), Len(s) = 0, NEW b
  PROVE  Occurrences(s, b) = 0
<1>1. \A j \in 1 .. Len(s) : FALSE
  OBVIOUS
<1>. QED
  BY <1>1, OccursNever, Zenon

LEMMA EmptyOccurs == <<>> \in Seq(Bufs) /\ \A b : Occurrences(<<>>, b) = 0
<1>1. <<>> \in Seq(Bufs) /\ Len(<<>>) = 0
  OBVIOUS
<1>. QED
  BY <1>1, OccursNowhere, Zenon

\* A sequence after another holds what both hold.
LEMMA OccursConcat ==
  ASSUME NEW s \in Seq(Bufs), NEW t \in Seq(Bufs), NEW b
  PROVE  Occurrences(s \o t, b) = Occurrences(s, b) + Occurrences(t, b)
<1>. DEFINE A == Places(s, b)
            B == Places(t, b)
            n == Len(s)
            Moved == {j \in n + 1 .. n + Len(t) : t[j - n] = b}
            f == [j \in B |-> j + n]
<1>1. n \in Nat /\ Len(t) \in Nat /\ A \subseteq 1 .. n /\ B \subseteq 1 .. Len(t)
  BY DEF Places
<1>2. Places(s \o t, b) = A \cup Moved
  <2>1. DOMAIN (s \o t) = 1 .. n + Len(t)
    BY ConcatProperties
  <2>2. \A j \in 1 .. n + Len(t) : (s \o t)[j] = IF j <= n THEN s[j] ELSE t[j - n]
    BY ConcatProperties
  <2>. QED
    BY <1>1, <2>1, <2>2 DEF Places
<1>3. A \cap Moved = {}
  BY <1>1
<1>4. f \in Bijection(B, Moved)
  <2>1. \A j \in B : j + n \in Moved
    BY <1>1 DEF Places
  <2>2. \A k \in Moved : k - n \in B /\ (k - n) + n = k
    BY <1>1 DEF Places
  <2>3. \A j, k \in B : j + n = k + n => j = k
    BY <1>1
  <2>4. f \in [B -> Moved]
    BY <2>1
  <2>5. f \in Injection(B, Moved)
    BY <2>3, <2>4 DEF Injection, IsInjective
  <2>6. f \in Surjection(B, Moved)
    BY <2>2, <2>4 DEF Surjection
  <2>. QED
    BY <2>5, <2>6 DEF Bijection
<1>5. IsFiniteSet(A) /\ IsFiniteSet(B) /\ Cardinality(A) \in Nat /\ Cardinality(B) \in Nat
  BY PlacesFinite, FS_CardinalityType
<1>6. IsFiniteSet(Moved) /\ Cardinality(Moved) = Cardinality(B)
  <2>. HIDE DEF B, Moved, f
  <2>1. ExistsBijection(B, Moved)
    BY <1>4 DEF ExistsBijection
  <2>. QED
    BY <1>5, <2>1, FS_Bijection, Zenon
<1>7. Cardinality(A \cup Moved) = Cardinality(A) + Cardinality(Moved) - Cardinality(A \cap Moved)
  BY <1>5, <1>6, FS_Union
<1>8. Cardinality(A \cap Moved) = 0
  BY <1>3, FS_EmptySet
<1>9. Cardinality(A \cup Moved) = Cardinality(A) + Cardinality(B)
  <2>. HIDE DEF A, B, Moved
  <2>. QED  BY <1>5, <1>6, <1>7, <1>8
<1>. QED
  BY <1>2, <1>9 DEF Occurrences, Places

LEMMA OccursOnce ==
  ASSUME NEW x \in Bufs, NEW b
  PROVE  <<x>> \in Seq(Bufs) /\ Occurrences(<<x>>, b) = IF x = b THEN 1 ELSE 0
<1>1. Places(<<x>>, b) = IF x = b THEN {1} ELSE {}
  BY DEF Places
<1>2. Cardinality(Places(<<x>>, b)) = IF x = b THEN 1 ELSE 0
  BY <1>1, FS_Singleton, FS_EmptySet
<1>. QED
  BY <1>2 DEF Occurrences, Places

\* A part of a sequence and the rest hold what it holds.
LEMMA OccursParts ==
  ASSUME NEW s \in Seq(Bufs), NEW n \in 0 .. Len(s), NEW b
  PROVE  /\ First(s, n) \in Seq(Bufs) /\ Len(First(s, n)) = n
         /\ Rest(s, n) \in Seq(Bufs) /\ Len(Rest(s, n)) = Len(s) - n
         /\ Occurrences(First(s, n), b) + Occurrences(Rest(s, n), b) = Occurrences(s, b)
<1>1. First(s, n) \in Seq(Bufs) /\ Len(First(s, n)) = n
  BY SubSeqProperties DEF First
<1>2. Rest(s, n) \in Seq(Bufs) /\ Len(Rest(s, n)) = Len(s) - n
  BY SubSeqProperties DEF Rest
<1>3. First(s, n) \o Rest(s, n) = s
  <2>1. /\ 1 \in 1 .. Len(s) + 1 /\ n \in 1 - 1 .. Len(s) /\ Len(s) \in n .. Len(s)
    OBVIOUS
  <2>2. SubSeq(s, 1, n) \o SubSeq(s, n + 1, Len(s)) = SubSeq(s, 1, Len(s))
    BY <2>1, ConcatAdjacentSubSeq, Zenon
  <2>3. SubSeq(s, 1, Len(s)) = s
    BY SubSeqFull, Zenon
  <2>. QED
    BY <2>2, <2>3, Zenon DEF First, Rest
<1>4. Occurrences(First(s, n) \o Rest(s, n), b)
        = Occurrences(First(s, n), b) + Occurrences(Rest(s, n), b)
  BY <1>1, <1>2, OccursConcat, Zenon
<1>. QED
  BY <1>1, <1>2, <1>3, <1>4, Zenon

LEMMA OccursTail ==
  ASSUME NEW s \in Seq(Bufs), s # <<>>, NEW b
  PROVE  /\ Head(s) \in Bufs /\ Tail(s) \in Seq(Bufs) /\ Len(Tail(s)) = Len(s) - 1
         /\ Occurrences(<<Head(s)>>, b) + Occurrences(Tail(s), b) = Occurrences(s, b)
<1>1. Head(s) \in Bufs /\ Tail(s) \in Seq(Bufs) /\ Len(Tail(s)) = Len(s) - 1
  BY HeadTailProperties
<1>2. s = <<Head(s)>> \o Tail(s)
  OBVIOUS
<1>3. <<Head(s)>> \in Seq(Bufs)
  BY <1>1, OccursOnce, Zenon
<1>4. Occurrences(<<Head(s)>> \o Tail(s), b)
        = Occurrences(<<Head(s)>>, b) + Occurrences(Tail(s), b)
  BY <1>1, <1>3, OccursConcat, Zenon
<1>. QED
  BY <1>1, <1>2, <1>4, Zenon

LEMMA OccursOutside ==
  ASSUME NEW s \in Seq(Bufs), NEW b, b \notin ToSet(s)
  PROVE  Occurrences(s, b) = 0
BY OccursNever DEF ToSet

LEMMA OccursInjective ==
  ASSUME NEW s \in Seq(Bufs), IsInjective(s), NEW b
  PROVE  Occurrences(s, b) = IF b \in ToSet(s) THEN 1 ELSE 0
<1>1. CASE b \notin ToSet(s)
  BY <1>1, OccursOutside
<1>2. CASE b \in ToSet(s)
  <2>1. PICK j \in DOMAIN s : s[j] = b
    BY <1>2 DEF ToSet
  <2>2. Places(s, b) = {j}
    BY <2>1 DEF Places, IsInjective
  <2>3. Cardinality({j}) = 1
    BY FS_Singleton
  <2>. QED
    BY <1>2, <2>2, <2>3 DEF Occurrences, Places
<1>. QED
  BY <1>1, <1>2

\* What is forgotten or freed.
LEMMA PlusIs ==
  ASSUME NEW f \in [Bufs -> Nat], NEW s \in Seq(Bufs)
  PROVE  /\ Plus(f, s) \in [Bufs -> Nat]
         /\ \A b \in Bufs : Plus(f, s)[b] = f[b] + Occurrences(s, b)
<1>1. \A b \in Bufs : Occurrences(s, b) \in Nat
  BY PlacesFinite
<1>. QED
  BY <1>1 DEF Plus

-----------------------------------------------------------------------------
(* Types, and the rings and the queue to the kernel are never over full.   *)

Counts == pool \in [Bufs -> Nat] /\ leaked \in [Bufs -> Nat]
Queues == /\ in \in Seq(Bufs) /\ out \in Seq(Bufs) /\ mbufs \in Seq(Bufs)
          /\ tx \in Seq(Bufs) /\ nic \in Seq(Bufs)
          /\ rx_q \in Seq(Bufs) /\ free_q \in Seq(Bufs)
Limits == /\ Len(in) <= RING /\ Len(out) <= RING /\ Len(rx_q) <= FIFO
          /\ i \in 1 .. Len(mbufs) + 1

PumpType == Counts /\ Queues /\ Limits

PumpInv == PumpType /\ OneOwner

\* The part of the burst that pkt_process has yet to handle.
Todo == SubSeq(mbufs, i, Len(mbufs))

LEMMA TodoNext ==
  ASSUME NEW s \in Seq(Bufs), NEW j \in 1 .. Len(s), NEW b
  PROVE  /\ s[j] \in Bufs
         /\ Occurrences(SubSeq(s, j, Len(s)), b)
              = Occurrences(<<s[j]>>, b) + Occurrences(SubSeq(s, j + 1, Len(s)), b)
<1>1. Len(s) \in Nat /\ Len(s) \in j .. Len(s) /\ s[j] \in Bufs
  OBVIOUS
<1>2. SubSeq(s, j, Len(s)) = <<s[j]>> \o SubSeq(s, j + 1, Len(s))
  BY <1>1, SubSeqRecursiveFirst, Zenon
<1>3. SubSeq(s, j + 1, Len(s)) \in Seq(Bufs)
  BY <1>1, SubSeqProperties
<1>4. <<s[j]>> \in Seq(Bufs)
  BY <1>1, OccursOnce, Zenon
<1>5. Occurrences(<<s[j]>> \o SubSeq(s, j + 1, Len(s)), b)
        = Occurrences(<<s[j]>>, b) + Occurrences(SubSeq(s, j + 1, Len(s)), b)
  BY <1>3, <1>4, OccursConcat, Zenon
<1>. QED
  BY <1>1, <1>2, <1>5, Zenon

LEMMA PumpInit == Init => PumpInv
<1>. SUFFICES ASSUME Init PROVE PumpInv
  OBVIOUS
<1>1. PumpType
  BY PumpAssumption DEF Init, PumpType, Counts, Queues, Limits
<1>2. ASSUME NEW b \in Bufs PROVE Owners(b) = 1
  <2>1. Occurrences(<<>>, b) = 0
    BY EmptyOccurs
  <2>2. SubSeq(mbufs, i, Len(mbufs)) = <<>>
    BY DEF Init
  <2>3. pool[b] = 1 /\ leaked[b] = 0
    BY DEF Init
  <2>4. /\ in = <<>> /\ out = <<>> /\ tx = <<>> /\ nic = <<>>
        /\ rx_q = <<>> /\ free_q = <<>>
    BY DEF Init
  <2>. QED
    BY <2>1, <2>2, <2>3, <2>4 DEF Owners
<1>. QED
  BY <1>1, <1>2 DEF PumpInv, OneOwner

-----------------------------------------------------------------------------
(* Every step keeps the owners of an unspoiled buffer.                     *)

Kept == /\ spoiled \subseteq spoiled'
        /\ \A b \in Bufs \ spoiled' : Owners(b)' = Owners(b)

Numbers(b) ==
  /\ pool[b] \in Nat /\ leaked[b] \in Nat
  /\ Occurrences(in, b) \in Nat /\ Occurrences(out, b) \in Nat
  /\ Occurrences(Todo, b) \in Nat /\ Occurrences(tx, b) \in Nat
  /\ Occurrences(nic, b) \in Nat
  /\ Occurrences(rx_q, b) \in Nat /\ Occurrences(free_q, b) \in Nat

Total(b) ==
  pool[b] + leaked[b] + Occurrences(in, b) + Occurrences(out, b)
  + Occurrences(Todo, b) + Occurrences(tx, b) + Occurrences(nic, b)
  + Occurrences(rx_q, b) + Occurrences(free_q, b)

LEMMA Sizes ==
  ASSUME PumpType, NEW b \in Bufs
  PROVE  /\ Numbers(b) /\ Owners(b) = Total(b)
         /\ (Total(b)' = Total(b) => Owners(b)' = Owners(b))
<1>1. Todo \in Seq(Bufs)
  BY SubSeqProperties DEF Todo, PumpType, Queues, Limits
<1>2. \A s \in Seq(Bufs) : Occurrences(s, b) \in Nat
  BY PlacesFinite
<1>3. Numbers(b)
  BY <1>1, <1>2 DEF PumpType, Counts, Queues, Numbers
<1>4. Owners(b) = Total(b) /\ Owners(b)' = Total(b)'
  BY DEF Owners, Todo, Total
<1>. QED
  BY <1>3, <1>4

\* What a full ring leaves of a burst is at most the burst.
LEMMA RoomFits ==
  ASSUME NEW n \in Nat, NEW limit \in Nat, NEW s \in Seq(Bufs), Len(s) <= limit
  PROVE  /\ Least(n, limit - Len(s)) \in 0 .. n
         /\ Len(s) + Least(n, limit - Len(s)) <= limit
BY DEF Least

LEMMA Capacities == RING \in Nat \ {0} /\ FIFO \in Nat \ {0} /\ BURST \in Nat \ {0}
BY PumpAssumption

LEMMA TakeIs ==
  ASSUME PumpType, NEW B \in SUBSET Free
  PROVE  /\ Take(B) \in [Bufs -> Nat]
         /\ \A b \in Bufs : Take(B)[b] = pool[b] - (IF b \in B THEN 1 ELSE 0)
BY DEF Take, Free, PumpType, Counts

LEMMA KeepsMainRx == PumpType /\ MainRx => PumpType' /\ Kept
<1>. SUFFICES ASSUME PumpType, MainRx PROVE PumpType' /\ Kept
  OBVIOUS
<1>. USE DEF pktVars, mainVars, kniVars
<1>1. PICK n \in 1 .. BURST : \E s \in [1 .. n -> Free] :
          /\ IsInjective(s) /\ pool' = Take(ToSet(s))
          /\ in' = in \o First(s, Least(n, Room(in)))
          /\ leaked' = Plus(leaked, Rest(s, Least(n, Room(in))))
  BY DEF MainRx
<1>2. PICK s :
          /\ s \in [1 .. n -> Free]
          /\ IsInjective(s) /\ pool' = Take(ToSet(s))
          /\ in' = in \o First(s, Least(n, Room(in)))
          /\ leaked' = Plus(leaked, Rest(s, Least(n, Room(in))))
  BY <1>1
<1>3. n \in Nat /\ s \in Seq(Bufs) /\ Len(s) = n /\ ToSet(s) \subseteq Free
  BY <1>2, Capacities DEF Free, ToSet
<1>. DEFINE m == Least(n, Room(in))
            F == First(s, m)
            R == Rest(s, m)
<1>4. m \in 0 .. Len(s) /\ Len(in) + m <= RING
  BY <1>3, Capacities, RoomFits DEF Room, PumpType, Queues, Limits
<1>5. /\ F \in Seq(Bufs) /\ Len(F) = m /\ R \in Seq(Bufs)
      /\ \A b : Occurrences(F, b) + Occurrences(R, b) = Occurrences(s, b)
  BY <1>3, <1>4, OccursParts
<1>6. /\ in' = in \o F /\ leaked' = Plus(leaked, R) /\ pool' = Take(ToSet(s))
      /\ UNCHANGED <<out, mbufs, i, tx, nic, rx_q, free_q, spoiled>>
  BY <1>2 DEF MainRx
<1>. HIDE DEF m, F, R
<1>7. in' \in Seq(Bufs) /\ Len(in') <= RING
  <2>1. in \o F \in Seq(Bufs) /\ Len(in \o F) = Len(in) + Len(F)
    BY <1>5, ConcatProperties DEF PumpType, Queues
  <2>. QED
    BY <1>4, <1>5, <1>6, <2>1
<1>8. pool' \in [Bufs -> Nat] /\ leaked' \in [Bufs -> Nat]
  BY <1>3, <1>5, <1>6, TakeIs, PlusIs DEF PumpType, Counts
<1>9. PumpType'
  BY <1>6, <1>7, <1>8 DEF PumpType, Counts, Queues, Limits
<1>10. ASSUME NEW b \in Bufs PROVE Owners(b)' = Owners(b)
  <2>1. pool'[b] = pool[b] - Occurrences(s, b)
    <3>1. Occurrences(s, b) = IF b \in ToSet(s) THEN 1 ELSE 0
      BY <1>2, <1>3, OccursInjective, Zenon
    <3>2. Take(ToSet(s))[b] = pool[b] - (IF b \in ToSet(s) THEN 1 ELSE 0)
      BY <1>3, TakeIs
    <3>. QED
      BY <1>6, <3>1, <3>2
  <2>2. leaked'[b] = leaked[b] + Occurrences(R, b)
    BY <1>5, <1>6, PlusIs DEF PumpType, Counts
  <2>3. Occurrences(in', b) = Occurrences(in, b) + Occurrences(F, b)
    BY <1>5, <1>6, OccursConcat DEF PumpType, Queues
  <2>4. Occurrences(F, b) \in Nat /\ Occurrences(R, b) \in Nat /\ Occurrences(s, b) \in Nat
    BY <1>3, <1>5, PlacesFinite
  <2>5. Occurrences(F, b) + Occurrences(R, b) = Occurrences(s, b)
    BY <1>5
  <2>6. Todo' = Todo
    BY <1>6 DEF Todo
  <2>7. out' = out /\ tx' = tx /\ nic' = nic /\ rx_q' = rx_q /\ free_q' = free_q
    BY <1>6
  <2>8. Numbers(b)
    BY Sizes
  <2>9. pool'[b] + leaked'[b] + Occurrences(in', b) = pool[b] + leaked[b] + Occurrences(in, b)
    BY <2>1, <2>2, <2>3, <2>4, <2>5, <2>8 DEF Numbers
  <2>10. Total(b)' = Total(b)
    BY <2>6, <2>7, <2>9 DEF Total
  <2>. QED
    BY <2>10, Sizes
<1>. QED
  BY <1>6, <1>9, <1>10 DEF Kept

\* The driver frees the first n of what leaves the out ring, and so does the main
\* loop: of the others the main loop alone is the owner.
LEMMA KeepsMainTx == PumpType /\ MainTx => PumpType' /\ Kept
<1>. SUFFICES ASSUME PumpType, MainTx PROVE PumpType' /\ Kept
  OBVIOUS
<1>. USE DEF pktVars, kniVars
<1>. DEFINE m == Least(BURST, Len(out))
            F == First(out, m)
            R == Rest(out, m)
<1>1. m \in 0 .. Len(out) /\ out \in Seq(Bufs)
  BY Capacities DEF Least, PumpType, Queues
<1>2. /\ F \in Seq(Bufs) /\ Len(F) = m /\ R \in Seq(Bufs) /\ Len(R) = Len(out) - m
      /\ \A b : Occurrences(F, b) + Occurrences(R, b) = Occurrences(out, b)
  BY <1>1, OccursParts
<1>3. PICK n \in 0 .. Len(F) : /\ nic' = nic \o First(F, n)
                               /\ spoiled' = spoiled \cup ToSet(First(F, n))
  BY DEF MainTx
<1>4. First(F, n) \in Seq(Bufs)
  BY <1>2, OccursParts
<1>5. out' = Rest(out, Len(F))
  BY DEF MainTx
<1>6. /\ tx = <<>> /\ tx' = F /\ out' = R
      /\ UNCHANGED <<pool, in, mbufs, i, rx_q, free_q, leaked>>
  BY <1>2, <1>5 DEF MainTx, MainIdle
<1>. HIDE DEF m, F, R
<1>7. nic' \in Seq(Bufs)
  BY <1>3, <1>4, ConcatProperties DEF PumpType, Queues
<1>8. PumpType'
  <2>1. Len(R) <= RING
    BY <1>1, <1>2, Capacities DEF PumpType, Limits
  <2>. QED
    BY <1>2, <1>6, <1>7, <2>1 DEF PumpType, Counts, Queues, Limits
<1>9. ASSUME NEW b \in Bufs \ spoiled' PROVE Owners(b)' = Owners(b)
  <2>1. Occurrences(nic', b) = Occurrences(nic, b)
    <3>1. Occurrences(nic \o First(F, n), b) = Occurrences(nic, b) + Occurrences(First(F, n), b)
      BY <1>4, OccursConcat DEF PumpType, Queues
    <3>2. Occurrences(First(F, n), b) = 0
      BY <1>3, <1>4, <1>9, OccursOutside
    <3>. QED
      BY <1>3, <3>1, <3>2, Sizes DEF Numbers
  <2>2. Occurrences(F, b) \in Nat /\ Occurrences(R, b) \in Nat
    BY <1>2, PlacesFinite
  <2>3. Occurrences(F, b) + Occurrences(R, b) = Occurrences(out, b)
    BY <1>2
  <2>4. Occurrences(tx, b) = 0
    BY <1>6, EmptyOccurs
  <2>5. Todo' = Todo
    BY <1>6 DEF Todo
  <2>6. Numbers(b)
    BY Sizes
  <2>7. Total(b)' = Total(b)
    BY <1>6, <2>1, <2>2, <2>3, <2>4, <2>5, <2>6 DEF Numbers, Total
  <2>. QED
    BY <2>7, Sizes
<1>10. spoiled \subseteq spoiled'
  BY <1>3
<1>. QED
  BY <1>8, <1>9, <1>10 DEF Kept

LEMMA KeepsMainFree == PumpType /\ MainFree => PumpType' /\ Kept
<1>. SUFFICES ASSUME PumpType, MainFree PROVE PumpType' /\ Kept
  OBVIOUS
<1>. USE DEF pktVars, kniVars
<1>1. /\ tx # <<>> /\ pool' = Plus(pool, <<Head(tx)>>) /\ tx' = Tail(tx)
      /\ UNCHANGED <<in, out, mbufs, i, nic, rx_q, free_q, leaked, spoiled>>
  BY DEF MainFree
<1>2. /\ Head(tx) \in Bufs /\ Tail(tx) \in Seq(Bufs)
      /\ \A b : Occurrences(<<Head(tx)>>, b) + Occurrences(Tail(tx), b) = Occurrences(tx, b)
  BY <1>1, OccursTail DEF PumpType, Queues
<1>3. /\ pool' \in [Bufs -> Nat]
      /\ \A b \in Bufs : pool'[b] = pool[b] + Occurrences(<<Head(tx)>>, b)
  BY <1>1, <1>2, OccursOnce, PlusIs DEF PumpType, Counts
<1>4. PumpType'
  BY <1>1, <1>2, <1>3 DEF PumpType, Counts, Queues, Limits
<1>5. ASSUME NEW b \in Bufs PROVE Owners(b)' = Owners(b)
  <2>1. Occurrences(<<Head(tx)>>, b) \in Nat /\ Occurrences(tx', b) \in Nat
    BY <1>1, <1>2, OccursOnce, PlacesFinite
  <2>2. Occurrences(<<Head(tx)>>, b) + Occurrences(tx', b) = Occurrences(tx, b)
    BY <1>1, <1>2
  <2>3. Todo' = Todo
    BY <1>1 DEF Todo
  <2>4. pool'[b] = pool[b] + Occurrences(<<Head(tx)>>, b)
    BY <1>3
  <2>5. /\ in' = in /\ out' = out /\ nic' = nic /\ rx_q' = rx_q /\ free_q' = free_q
        /\ leaked' = leaked
    BY <1>1
  <2>6. Numbers(b)
    BY Sizes
  <2>7. Total(b)' = Total(b)
    BY <2>1, <2>2, <2>3, <2>4, <2>5, <2>6 DEF Numbers, Total
  <2>. QED
    BY <2>7, Sizes
<1>. QED
  BY <1>1, <1>4, <1>5 DEF Kept

\* A new buffer is in the out ring or forgotten; udp_out and ng_tcp_out do the same.
LEMMA KeepsEmit ==
  ASSUME PumpType, Emit,
         UNCHANGED <<in, mbufs, i, tx, nic, rx_q, free_q, spoiled>>
  PROVE  PumpType' /\ Kept
<1>1. CASE UNCHANGED <<pool, out, leaked>>
  <2>1. PumpType'
    BY <1>1 DEF PumpType, Counts, Queues, Limits
  <2>2. \A b \in Bufs : Owners(b)' = Owners(b)
    BY <1>1 DEF Owners
  <2>. QED
    BY <2>1, <2>2 DEF Kept
<1>2. ASSUME NEW x \in Free,
             pool' = Take({x}),
             out' = out \o First(<<x>>, Least(1, Room(out))),
             leaked' = Plus(leaked, Rest(<<x>>, Least(1, Room(out))))
      PROVE  PumpType' /\ Kept
  <2>. DEFINE s == <<x>>
              m == Least(1, Room(out))
              F == First(s, m)
              R == Rest(s, m)
  <2>1. s \in Seq(Bufs) /\ Len(s) = 1 /\ \A b : Occurrences(s, b) = IF x = b THEN 1 ELSE 0
    BY OccursOnce DEF Free
  <2>2. m \in 0 .. Len(s) /\ Len(out) + m <= RING
    BY <2>1, Capacities, RoomFits DEF Room, PumpType, Queues, Limits
  <2>3. /\ F \in Seq(Bufs) /\ Len(F) = m /\ R \in Seq(Bufs)
        /\ \A b : Occurrences(F, b) + Occurrences(R, b) = Occurrences(s, b)
    BY <2>1, <2>2, OccursParts
  <2>4. out' = out \o F /\ leaked' = Plus(leaked, R)
    BY <1>2
  <2>. HIDE DEF s, m, F, R
  <2>5. out' \in Seq(Bufs) /\ Len(out') <= RING
    <3>1. out \o F \in Seq(Bufs) /\ Len(out \o F) = Len(out) + Len(F)
      BY <2>3, ConcatProperties DEF PumpType, Queues
    <3>. QED
      BY <2>2, <2>3, <2>4, <3>1
  <2>6. /\ pool' \in [Bufs -> Nat] /\ leaked' \in [Bufs -> Nat]
        /\ \A b \in Bufs : pool'[b] = pool[b] - (IF b \in {x} THEN 1 ELSE 0)
        /\ \A b \in Bufs : leaked'[b] = leaked[b] + Occurrences(R, b)
    <3>1. /\ Take({x}) \in [Bufs -> Nat]
          /\ \A b \in Bufs : Take({x})[b] = pool[b] - (IF b \in {x} THEN 1 ELSE 0)
      BY <1>2, TakeIs
    <3>2. leaked \in [Bufs -> Nat]
      BY DEF PumpType, Counts
    <3>3. /\ Plus(leaked, R) \in [Bufs -> Nat]
          /\ \A b \in Bufs : Plus(leaked, R)[b] = leaked[b] + Occurrences(R, b)
      BY <2>3, <3>2, PlusIs, Zenon
    <3>. QED
      BY <1>2, <2>4, <3>1, <3>3, Zenon
  <2>7. PumpType'
    BY <2>5, <2>6 DEF PumpType, Counts, Queues, Limits
  <2>8. ASSUME NEW b \in Bufs PROVE Owners(b)' = Owners(b)
    <3>1. pool'[b] = pool[b] - Occurrences(s, b)
      BY <2>1, <2>6
    <3>2. Occurrences(out', b) = Occurrences(out, b) + Occurrences(F, b)
      BY <2>3, <2>4, OccursConcat DEF PumpType, Queues
    <3>3. Occurrences(F, b) \in Nat /\ Occurrences(R, b) \in Nat
      BY <2>3, PlacesFinite
    <3>4. Occurrences(F, b) + Occurrences(R, b) = Occurrences(s, b)
      BY <2>3
    <3>5. Todo' = Todo
      BY DEF Todo
    <3>6. leaked'[b] = leaked[b] + Occurrences(R, b)
      BY <2>6
    <3>7. in' = in /\ tx' = tx /\ nic' = nic /\ rx_q' = rx_q /\ free_q' = free_q
      OBVIOUS
    <3>8. Numbers(b)
      BY Sizes
    <3>9. Total(b)' = Total(b)
      BY <3>1, <3>2, <3>3, <3>4, <3>5, <3>6, <3>7, <3>8 DEF Numbers, Total
    <3>. QED
      BY <3>9, Sizes
  <2>. QED
    BY <2>7, <2>8 DEF Kept
<1>. QED
  BY <1>1, <1>2 DEF Emit

LEMMA KeepsMainTimer == PumpType /\ MainTimer => PumpType' /\ Kept
BY KeepsEmit DEF MainTimer, pktVars, kniVars

LEMMA KeepsPktOut == PumpType /\ PktOut => PumpType' /\ Kept
BY KeepsEmit DEF PktOut, pktVars, mainVars, kniVars

LEMMA KeepsPktBurst == PumpType /\ PktBurst => PumpType' /\ Kept
<1>. SUFFICES ASSUME PumpType, PktBurst PROVE PumpType' /\ Kept
  OBVIOUS
<1>. USE DEF mainVars, kniVars
<1>. DEFINE m == Least(BURST, Len(in))
            F == First(in, m)
            R == Rest(in, m)
<1>1. m \in 0 .. Len(in) /\ in \in Seq(Bufs)
  BY Capacities DEF Least, PumpType, Queues
<1>2. /\ F \in Seq(Bufs) /\ R \in Seq(Bufs) /\ Len(R) = Len(in) - m
      /\ \A b : Occurrences(F, b) + Occurrences(R, b) = Occurrences(in, b)
  BY <1>1, OccursParts
<1>3. /\ i > Len(mbufs) /\ mbufs' = F /\ i' = 1 /\ in' = R
      /\ UNCHANGED <<pool, out, tx, nic, rx_q, free_q, leaked, spoiled>>
  BY DEF PktBurst
<1>. HIDE DEF m, F, R
<1>4. PumpType'
  <2>1. Len(R) <= RING /\ 1 \in 1 .. Len(F) + 1
    BY <1>1, <1>2, Capacities DEF PumpType, Limits
  <2>. QED
    BY <1>2, <1>3, <2>1 DEF PumpType, Counts, Queues, Limits
<1>5. ASSUME NEW b \in Bufs PROVE Owners(b)' = Owners(b)
  <2>1. Todo = <<>>
    BY <1>3 DEF Todo, PumpType, Queues, Limits
  <2>2. Occurrences(Todo, b) = 0
    BY <2>1, EmptyOccurs
  <2>3. Todo' = F
    BY <1>2, <1>3, SubSeqFull DEF Todo
  <2>4. Occurrences(F, b) \in Nat /\ Occurrences(R, b) \in Nat
    BY <1>2, PlacesFinite
  <2>5. Occurrences(F, b) + Occurrences(R, b) = Occurrences(in, b)
    BY <1>2
  <2>6. /\ pool' = pool /\ out' = out /\ tx' = tx /\ nic' = nic /\ rx_q' = rx_q
        /\ free_q' = free_q /\ leaked' = leaked /\ in' = R
    BY <1>3
  <2>7. Numbers(b)
    BY Sizes
  <2>8. Total(b)' = Total(b)
    BY <2>2, <2>3, <2>4, <2>5, <2>6, <2>7 DEF Numbers, Total
  <2>. QED
    BY <2>8, Sizes
<1>. QED
  BY <1>3, <1>4, <1>5 DEF Kept

LEMMA KeepsPktHandle == PumpType /\ PktHandle => PumpType' /\ Kept
<1>. SUFFICES ASSUME PumpType, PktHandle PROVE PumpType' /\ Kept
  OBVIOUS
<1>. USE DEF mainVars, kniVars
<1>1. /\ i \in 1 .. Len(mbufs) /\ pool' = Plus(pool, <<mbufs[i]>>) /\ i' = i + 1
      /\ UNCHANGED <<in, out, mbufs, tx, nic, rx_q, free_q, leaked, spoiled>>
  BY DEF PktHandle, Freed, PumpType, Limits
<1>2. mbufs \in Seq(Bufs) /\ mbufs[i] \in Bufs
  BY <1>1 DEF PumpType, Queues
<1>3. /\ pool' \in [Bufs -> Nat]
      /\ \A b \in Bufs : pool'[b] = pool[b] + Occurrences(<<mbufs[i]>>, b)
  BY <1>1, <1>2, OccursOnce, PlusIs DEF PumpType, Counts
<1>4. PumpType'
  <2>1. i' \in 1 .. Len(mbufs) + 1
    BY <1>1, <1>2
  <2>. QED
    BY <1>1, <1>3, <2>1 DEF PumpType, Counts, Queues, Limits
<1>5. ASSUME NEW b \in Bufs PROVE Owners(b)' = Owners(b)
  <2>1. Occurrences(Todo, b) = Occurrences(<<mbufs[i]>>, b) + Occurrences(Todo', b)
    BY <1>1, <1>2, TodoNext DEF Todo
  <2>2. Occurrences(<<mbufs[i]>>, b) \in Nat
    BY <1>2, OccursOnce
  <2>3. Occurrences(Todo', b) \in Nat
    <3>1. Todo' \in Seq(Bufs)
      BY <1>1, <1>2, SubSeqProperties DEF Todo
    <3>. QED
      BY <3>1, PlacesFinite
  <2>4. pool'[b] = pool[b] + Occurrences(<<mbufs[i]>>, b)
    BY <1>3
  <2>5. /\ in' = in /\ out' = out /\ tx' = tx /\ nic' = nic /\ rx_q' = rx_q
        /\ free_q' = free_q /\ leaked' = leaked
    BY <1>1
  <2>6. Numbers(b)
    BY Sizes
  <2>7. Total(b)' = Total(b)
    BY <2>1, <2>2, <2>3, <2>4, <2>5, <2>6 DEF Numbers, Total
  <2>. QED
    BY <2>7, Sizes
<1>. QED
  BY <1>1, <1>4, <1>5 DEF Kept

LEMMA KeepsNicDone == PumpType /\ NicDone => PumpType' /\ Kept
<1>. SUFFICES ASSUME PumpType, NicDone PROVE PumpType' /\ Kept
  OBVIOUS
<1>. USE DEF pktVars, mainVars, kniVars
<1>1. /\ nic # <<>> /\ pool' = Plus(pool, <<Head(nic)>>) /\ nic' = Tail(nic)
      /\ UNCHANGED <<in, out, mbufs, i, tx, rx_q, free_q, leaked, spoiled>>
  BY DEF NicDone
<1>2. /\ Head(nic) \in Bufs /\ Tail(nic) \in Seq(Bufs)
      /\ \A b : Occurrences(<<Head(nic)>>, b) + Occurrences(Tail(nic), b) = Occurrences(nic, b)
  BY <1>1, OccursTail DEF PumpType, Queues
<1>3. /\ pool' \in [Bufs -> Nat]
      /\ \A b \in Bufs : pool'[b] = pool[b] + Occurrences(<<Head(nic)>>, b)
  BY <1>1, <1>2, OccursOnce, PlusIs DEF PumpType, Counts
<1>4. PumpType'
  BY <1>1, <1>2, <1>3 DEF PumpType, Counts, Queues, Limits
<1>5. ASSUME NEW b \in Bufs PROVE Owners(b)' = Owners(b)
  <2>1. Occurrences(<<Head(nic)>>, b) \in Nat /\ Occurrences(nic', b) \in Nat
    BY <1>1, <1>2, OccursOnce, PlacesFinite
  <2>2. Occurrences(<<Head(nic)>>, b) + Occurrences(nic', b) = Occurrences(nic, b)
    BY <1>1, <1>2
  <2>3. Todo' = Todo
    BY <1>1 DEF Todo
  <2>4. pool'[b] = pool[b] + Occurrences(<<Head(nic)>>, b)
    BY <1>3
  <2>5. /\ in' = in /\ out' = out /\ tx' = tx /\ rx_q' = rx_q /\ free_q' = free_q
        /\ leaked' = leaked
    BY <1>1
  <2>6. Numbers(b)
    BY Sizes
  <2>7. Total(b)' = Total(b)
    BY <2>1, <2>2, <2>3, <2>4, <2>5, <2>6 DEF Numbers, Total
  <2>. QED
    BY <2>7, Sizes
<1>. QED
  BY <1>1, <1>4, <1>5 DEF Kept

LEMMA KeepsKernelDone == PumpType /\ KernelDone => PumpType' /\ Kept
<1>. SUFFICES ASSUME PumpType, KernelDone PROVE PumpType' /\ Kept
  OBVIOUS
<1>. USE DEF pktVars, mainVars
<1>1. /\ rx_q # <<>> /\ free_q' = Append(free_q, Head(rx_q)) /\ rx_q' = Tail(rx_q)
      /\ UNCHANGED <<pool, in, out, mbufs, i, tx, nic, leaked, spoiled>>
  BY DEF KernelDone
<1>2. /\ Head(rx_q) \in Bufs /\ Tail(rx_q) \in Seq(Bufs) /\ Len(Tail(rx_q)) = Len(rx_q) - 1
      /\ \A b : Occurrences(<<Head(rx_q)>>, b) + Occurrences(Tail(rx_q), b) = Occurrences(rx_q, b)
  BY <1>1, OccursTail DEF PumpType, Queues
<1>3. <<Head(rx_q)>> \in Seq(Bufs) /\ free_q \in Seq(Bufs)
  BY <1>2 DEF PumpType, Queues
<1>4. free_q' = free_q \o <<Head(rx_q)>>
  BY <1>1, <1>2, <1>3, AppendIsConcat
<1>5. free_q' \in Seq(Bufs)
  BY <1>1, <1>2, <1>3
<1>6. PumpType'
  <2>1. Len(rx_q) \in Nat /\ Len(rx_q) - 1 <= FIFO
    BY Capacities DEF PumpType, Queues, Limits
  <2>. QED
    BY <1>1, <1>2, <1>5, <2>1 DEF PumpType, Counts, Queues, Limits
<1>7. ASSUME NEW b \in Bufs PROVE Owners(b)' = Owners(b)
  <2>1. Occurrences(<<Head(rx_q)>>, b) \in Nat /\ Occurrences(rx_q', b) \in Nat
    BY <1>1, <1>2, <1>3, PlacesFinite
  <2>2. Occurrences(<<Head(rx_q)>>, b) + Occurrences(rx_q', b) = Occurrences(rx_q, b)
    BY <1>1, <1>2
  <2>3. Occurrences(free_q', b) = Occurrences(free_q, b) + Occurrences(<<Head(rx_q)>>, b)
    BY <1>3, <1>4, OccursConcat, Zenon
  <2>4. Todo' = Todo
    BY <1>1 DEF Todo
  <2>5. /\ in' = in /\ out' = out /\ tx' = tx /\ nic' = nic /\ pool' = pool
        /\ leaked' = leaked
    BY <1>1
  <2>6. Numbers(b)
    BY Sizes
  <2>7. Total(b)' = Total(b)
    BY <2>1, <2>2, <2>3, <2>4, <2>5, <2>6 DEF Numbers, Total
  <2>. QED
    BY <2>7, Sizes
<1>. QED
  BY <1>1, <1>6, <1>7 DEF Kept

\* Of a burst of one, the KNI takes the packet or it is forgotten; a burst of several
\* is spoiled as a whole.
LEMMA KeepsPktKni == PumpType /\ PktKni => PumpType' /\ Kept
<1>. SUFFICES ASSUME PumpType, PktKni PROVE PumpType' /\ Kept
  OBVIOUS
<1>. USE DEF mainVars
<1>. DEFINE n == Least(Len(mbufs), FIFO - Len(rx_q))
            F == First(mbufs, n)
            R == Rest(mbufs, n)
            x == <<mbufs[i]>>
<1>1. mbufs \in Seq(Bufs) /\ Len(mbufs) \in Nat /\ i \in 1 .. Len(mbufs)
  BY DEF PktKni, PumpType, Queues, Limits
<1>2. n \in 0 .. Len(mbufs) /\ Len(rx_q) + n <= FIFO
  BY <1>1, Capacities, RoomFits DEF PumpType, Queues, Limits
<1>3. /\ F \in Seq(Bufs) /\ Len(F) = n /\ R \in Seq(Bufs) /\ Len(R) = Len(mbufs) - n
      /\ \A b : Occurrences(F, b) + Occurrences(R, b) = Occurrences(mbufs, b)
  BY <1>1, <1>2, OccursParts
<1>4. /\ rx_q' = rx_q \o F
      /\ leaked' = IF i > n THEN Plus(leaked, x) ELSE leaked
      /\ spoiled' = IF Len(mbufs) > 1 THEN spoiled \cup ToSet(mbufs) ELSE spoiled
      /\ pool' = Plus(pool, free_q) /\ free_q' = <<>> /\ i' = i + 1
      /\ UNCHANGED <<in, out, mbufs, tx, nic>>
  BY DEF PktKni, Drain
<1>5. mbufs[i] \in Bufs /\ x \in Seq(Bufs)
  BY <1>1, OccursOnce
<1>. HIDE DEF n, F, R, x
<1>6. rx_q' \in Seq(Bufs) /\ Len(rx_q') <= FIFO
  <2>1. rx_q \o F \in Seq(Bufs) /\ Len(rx_q \o F) = Len(rx_q) + Len(F)
    BY <1>3, ConcatProperties DEF PumpType, Queues
  <2>. QED
    BY <1>2, <1>3, <1>4, <2>1
<1>7. /\ pool' \in [Bufs -> Nat]
      /\ \A b \in Bufs : pool'[b] = pool[b] + Occurrences(free_q, b)
  BY <1>4, PlusIs DEF PumpType, Counts, Queues
<1>8. /\ leaked' \in [Bufs -> Nat]
      /\ \A b \in Bufs : i > n => leaked'[b] = leaked[b] + Occurrences(x, b)
  BY <1>4, <1>5, PlusIs DEF PumpType, Counts
<1>9. PumpType'
  <2>1. i' \in 1 .. Len(mbufs) + 1
    BY <1>1, <1>4
  <2>. QED
    BY <1>4, <1>6, <1>7, <1>8, <2>1, EmptyOccurs DEF PumpType, Counts, Queues, Limits
<1>10. ASSUME NEW b \in Bufs \ spoiled' PROVE Owners(b)' = Owners(b)
  <2>1. Occurrences(Todo, b) = Occurrences(x, b) + Occurrences(Todo', b)
    BY <1>1, <1>4, TodoNext DEF Todo, x
  <2>2. Todo' \in Seq(Bufs)
    BY <1>1, <1>4, SubSeqProperties DEF Todo
  <2>3. /\ Occurrences(F, b) \in Nat /\ Occurrences(R, b) \in Nat
        /\ Occurrences(x, b) \in Nat /\ Occurrences(Todo', b) \in Nat
    BY <1>3, <1>5, <2>2, PlacesFinite
  <2>4. Occurrences(F, b) + Occurrences(R, b) = Occurrences(mbufs, b)
    BY <1>3
  <2>5. Numbers(b)
    BY Sizes
  <2>6. leaked'[b] + Occurrences(F, b) = leaked[b] + Occurrences(x, b)
    <3>1. CASE Len(mbufs) > 1
      <4>1. b \notin ToSet(mbufs)
        BY <1>4, <1>10, <3>1
      <4>2. Occurrences(mbufs, b) = 0
        BY <1>1, <4>1, OccursOutside
      <4>3. Occurrences(x, b) = 0
        <5>1. mbufs[i] # b
          BY <1>1, <4>1 DEF ToSet
        <5>. QED
          BY <1>5, <5>1, OccursOnce DEF x
      <4>4. Occurrences(F, b) = 0
        BY <2>3, <2>4, <4>2
      <4>. QED
        BY <1>4, <1>8, <2>5, <4>3, <4>4 DEF Numbers
    <3>2. CASE Len(mbufs) = 1 /\ n = 0
      <4>1. Occurrences(F, b) = 0
        BY <1>3, <3>2, OccursNowhere
      <4>. QED
        BY <1>1, <1>8, <2>3, <2>5, <3>2, <4>1 DEF Numbers
    <3>3. CASE Len(mbufs) = 1 /\ n = 1
      <4>1. Occurrences(R, b) = 0
        <5>1. Len(R) = 0
          BY <1>3, <3>3
        <5>. QED
          BY <1>3, <5>1, OccursNowhere
      <4>2. i = 1
        BY <1>1, <3>3
      <4>3. mbufs = x
        BY <1>1, <3>3, <4>2 DEF x
      <4>4. Occurrences(F, b) = Occurrences(x, b)
        BY <2>3, <2>4, <4>1, <4>3
      <4>5. leaked' = leaked
        BY <1>4, <3>3, <4>2
      <4>. QED
        BY <4>4, <4>5
    <3>4. Len(mbufs) > 1 \/ (Len(mbufs) = 1 /\ (n = 0 \/ n = 1))
      <4>1. PICK k \in Nat : k = Len(mbufs) /\ 1 <= k /\ n \in 0 .. k
        BY <1>1, <1>2
      <4>2. k > 1 \/ (k = 1 /\ (n = 0 \/ n = 1))
        BY <4>1
      <4>. QED
        BY <4>1, <4>2
    <3>. QED
      BY <3>1, <3>2, <3>3, <3>4
  <2>7. Occurrences(rx_q', b) = Occurrences(rx_q, b) + Occurrences(F, b)
    BY <1>3, <1>4, OccursConcat DEF PumpType, Queues
  <2>8. Occurrences(free_q', b) = 0 /\ pool'[b] = pool[b] + Occurrences(free_q, b)
    BY <1>4, <1>7, EmptyOccurs
  <2>9. in' = in /\ out' = out /\ tx' = tx /\ nic' = nic
    BY <1>4
  <2>10. leaked'[b] \in Nat
    BY <1>8
  <2>11. leaked'[b] = leaked[b] + Occurrences(x, b) - Occurrences(F, b)
    BY <2>3, <2>5, <2>6, <2>10 DEF Numbers
  <2>12. Total(b)' = (pool[b] + Occurrences(free_q, b))
            + (leaked[b] + Occurrences(x, b) - Occurrences(F, b))
            + Occurrences(in, b) + Occurrences(out, b) + Occurrences(Todo', b)
            + Occurrences(tx, b) + Occurrences(nic, b)
            + (Occurrences(rx_q, b) + Occurrences(F, b)) + 0
    BY <2>7, <2>8, <2>9, <2>11 DEF Total
  <2>13. Total(b) = pool[b] + leaked[b] + Occurrences(in, b) + Occurrences(out, b)
            + (Occurrences(x, b) + Occurrences(Todo', b)) + Occurrences(tx, b)
            + Occurrences(nic, b) + Occurrences(rx_q, b) + Occurrences(free_q, b)
    BY <2>1 DEF Total
  <2>14. Total(b)' = Total(b)
    BY <2>3, <2>5, <2>12, <2>13 DEF Numbers
  <2>. QED
    BY <2>14, Sizes
<1>11. spoiled \subseteq spoiled'
  BY <1>4
<1>. QED
  BY <1>9, <1>10, <1>11 DEF Kept

-----------------------------------------------------------------------------
LEMMA PumpStep == PumpInv /\ [Next]_vars => PumpInv'
<1>. SUFFICES ASSUME PumpInv, [Next]_vars PROVE PumpInv'
  OBVIOUS
<1>1. PumpType' /\ Kept
  <2>1. CASE Main
    BY <2>1, KeepsMainRx, KeepsMainTx, KeepsMainFree, KeepsMainTimer DEF Main, PumpInv
  <2>2. CASE Pkt
    BY <2>2, KeepsPktBurst, KeepsPktHandle, KeepsPktKni, KeepsPktOut DEF Pkt, PumpInv
  <2>3. CASE NicDone \/ KernelDone
    BY <2>3, KeepsNicDone, KeepsKernelDone DEF PumpInv
  <2>4. CASE UNCHANGED vars
    <3>1. PumpType'
      BY <2>4 DEF vars, pktVars, mainVars, kniVars, PumpInv, PumpType, Counts, Queues, Limits
    <3>2. \A b \in Bufs : Owners(b)' = Owners(b)
      BY <2>4 DEF vars, pktVars, mainVars, kniVars, Owners
    <3>. QED
      BY <2>4, <3>1, <3>2 DEF vars, Kept
  <2>. QED
    BY <2>1, <2>2, <2>3, <2>4 DEF Next
<1>2. OneOwner'
  <2>1. \A b \in Bufs \ spoiled' : Owners(b)' = 1
    BY <1>1 DEF Kept, PumpInv, OneOwner
  <2>. QED
    BY <2>1 DEF OneOwner
<1>. QED
  BY <1>1, <1>2 DEF PumpInv

\* Whatever arrives and however full the rings and queues are, a buffer that has not been
\* spoiled is in one place: a ring, a burst, a queue of the KNI, the driver's hands, the
\* pool or the lost.
THEOREM BuffersHaveOneOwner == Spec => []OneOwner
<1>1. PumpInv => OneOwner
  BY DEF PumpInv
<1>. QED
  BY <1>1, PumpInit, PumpStep, PTL DEF Spec
=============================================================================
