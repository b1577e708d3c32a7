--------------------------- MODULE LinkedListProofs ---------------------------
(***************************************************************************)
(* What the list operations of LinkedList return, for lists of any length. *)
(***************************************************************************)
EXTENDS LinkedList, WellFoundedInduction, TLAPS

\* LL_ADD and List_insert: the list stays a list of the same kind of items.
LEMMA InsertType ==
    ASSUME NEW S, NEW list \in Seq(S), NEW x \in S
    PROVE  Insert(x, list) \in Seq(S)
BY DEF Insert

\* LL_ADD and List_insert add the one item, in front.
LEMMA InsertItems ==
    ASSUME NEW S, NEW list \in Seq(S), NEW x \in S
    PROVE  /\ Len(Insert(x, list)) = Len(list) + 1
           /\ Insert(x, list)[1] = x
           /\ \A i \in 1 .. Len(list) : Insert(x, list)[i + 1] = list[i]
           /\ Members(Insert(x, list)) = Members(list) \cup {x}
<1> DEFINE new == Insert(x, list)
<1>1. Len(new) = Len(list) + 1 /\ new[1] = x
  BY DEF Insert
<1>2. \A i \in 1 .. Len(list) : new[i + 1] = list[i]
  BY DEF Insert
<1>3. \A i \in 1 .. Len(new) : i = 1 \/ i - 1 \in 1 .. Len(list)
  BY <1>1
<1>4. Members(new) \subseteq Members(list) \cup {x}
  <2> SUFFICES ASSUME NEW i \in 1 .. Len(new) PROVE new[i] \in Members(list) \cup {x}
    BY DEF Members
  <2>1. CASE i = 1
    BY <2>1, <1>1
  <2>2. CASE i - 1 \in 1 .. Len(list)
    <3>1. new[(i - 1) + 1] = list[i - 1]
      BY <1>2, <2>2
    <3> QED BY <3>1, <2>2 DEF Members
  <2> QED BY <1>3, <2>1, <2>2
<1>5. Members(list) \cup {x} \subseteq Members(new)
  <2>1. x \in Members(new)
    BY <1>1 DEF Members
  <2>2. ASSUME NEW i \in 1 .. Len(list) PROVE list[i] \in Members(new)
    <3>1. i + 1 \in 1 .. Len(new)
      BY <1>1
    <3> QED BY <3>1, <1>2 DEF Members
  <2> QED BY <2>1, <2>2 DEF Members
<1> QED BY <1>1, <1>2, <1>4, <1>5

\* An item that is not in the list can be added to it without repeating any.
LEMMA InsertDistinct ==
    ASSUME NEW S, NEW list \in Seq(S), NEW x \in S \ Members(list), Distinct(list)
    PROVE  Distinct(Insert(x, list))
<1> DEFINE new == Insert(x, list)
<1>1. /\ Len(new) = Len(list) + 1 /\ new[1] = x
      /\ \A i \in 1 .. Len(list) : new[i + 1] = list[i]
  BY InsertItems
<1>2. ASSUME NEW i \in 2 .. Len(new) PROVE i - 1 \in 1 .. Len(list) /\ new[i] = list[i - 1]
  <2>1. i - 1 \in 1 .. Len(list)
    BY <1>1
  <2>2. new[(i - 1) + 1] = list[i - 1]
    BY <1>1, <2>1
  <2> QED BY <2>1, <2>2
<1> SUFFICES ASSUME NEW i \in 1 .. Len(new), NEW j \in 1 .. Len(new), new[i] = new[j]
             PROVE  i = j
  BY DEF Distinct
<1>3. CASE i = 1 \/ j = 1
  BY <1>1, <1>2, <1>3 DEF Members
<1>4. CASE i \in 2 .. Len(new) /\ j \in 2 .. Len(new)
  <2>1. list[i - 1] = list[j - 1] /\ i - 1 \in 1 .. Len(list) /\ j - 1 \in 1 .. Len(list)
    BY <1>2, <1>4
  <2> QED BY <2>1, <1>4 DEF Distinct
<1> QED BY <1>3, <1>4, <1>1

\* Where an item of the list stands.
LEMMA PositionOf ==
    ASSUME NEW list, NEW x \in Members(list)
    PROVE  Position(x, list) \in 1 .. Len(list) /\ list[Position(x, list)] = x
BY DEF Members, Position

\* LL_REMOVE and List_delete: the list stays a list of the same kind of items,
\* and what it held in front of and behind x keeps its order.
LEMMA DeleteItems ==
    ASSUME NEW S, NEW list \in Seq(S), NEW x
    PROVE  /\ Delete(x, list) \in Seq(S)
           /\ x \in Members(list) =>
                /\ Len(Delete(x, list)) = Len(list) - 1
                /\ \A j \in 1 .. Len(list) - 1 :
                      Delete(x, list)[j] = IF j < Position(x, list) THEN list[j]
                                                                    ELSE list[j + 1]
<1>1. CASE x \notin Members(list)
  BY <1>1 DEF Delete
<1>2. CASE x \in Members(list)
  <2> DEFINE p == Position(x, list)
             new == [j \in 1 .. Len(list) - 1 |-> IF j < p THEN list[j] ELSE list[j + 1]]
  <2>1. p \in 1 .. Len(list) /\ Len(list) - 1 \in Nat
    BY <1>2, PositionOf
  <2>2. Delete(x, list) = new
    BY <1>2 DEF Delete
  <2>3. \A j \in 1 .. Len(list) - 1 : new[j] \in S
    BY <2>1
  <2>4. new \in Seq(S) /\ Len(new) = Len(list) - 1
    BY <2>1, <2>3
  <2> QED BY <2>2, <2>4, <1>2
<1> QED BY <1>1, <1>2

\* Removal of x from a list that repeats nothing takes x, and nothing else, out.
LEMMA DeleteMembers ==
    ASSUME NEW S, NEW list \in Seq(S), NEW x, Distinct(list)
    PROVE  /\ Members(Delete(x, list)) = Members(list) \ {x}
           /\ Distinct(Delete(x, list))
<1>1. CASE x \notin Members(list)
  BY <1>1 DEF Delete
<1>2. CASE x \in Members(list)
  <2> DEFINE p == Position(x, list)
             new == Delete(x, list)
             from == [j \in 1 .. Len(new) |-> IF j < p THEN j ELSE j + 1]
  <2> HIDE DEF p
  <2>1. p \in 1 .. Len(list) /\ list[p] = x
    BY <1>2, PositionOf DEF p
  <2>2. Len(new) = Len(list) - 1 /\ Len(list) \in Nat
    BY <1>2, DeleteItems
  <2>3. ASSUME NEW j \in 1 .. Len(new)
        PROVE  from[j] \in 1 .. Len(list) /\ from[j] # p /\ new[j] = list[from[j]]
    <3>1. new[j] = IF j < p THEN list[j] ELSE list[j + 1]
      BY <1>2, <2>2, DeleteItems DEF p
    <3> QED BY <3>1, <2>1, <2>2
  <2>4. ASSUME NEW i \in 1 .. Len(list), i # p
        PROVE  \E j \in 1 .. Len(new) : new[j] = list[i]
    <3>1. CASE i < p
      <4>1. i \in 1 .. Len(new) /\ from[i] = i
        BY <3>1, <2>1, <2>2
      <4> QED BY <4>1, <2>3
    <3>2. CASE i > p
      <4>1. i - 1 \in 1 .. Len(new) /\ from[i - 1] = i
        BY <3>2, <2>1, <2>2
      <4> QED BY <4>1, <2>3
    <3> QED BY <3>1, <3>2, <2>4, <2>1
  <2>5. Members(new) \subseteq Members(list) \ {x}
    <3> SUFFICES ASSUME NEW j \in 1 .. Len(new) PROVE new[j] \in Members(list) \ {x}
      BY DEF Members
    <3> QED BY <2>1, <2>3 DEF Members, Distinct
  <2>6. Members(list) \ {x} \subseteq Members(new)
    <3> SUFFICES ASSUME NEW i \in 1 .. Len(list), list[i] # x PROVE list[i] \in Members(new)
      BY DEF Members
    <3> QED BY <2>1, <2>4 DEF Members
  <2>7. Distinct(new)
    <3> SUFFICES ASSUME NEW i \in 1 .. Len(new), NEW j \in 1 .. Len(new), new[i] = new[j]
                 PROVE  i = j
      BY DEF Distinct
    <3>1. from[i] = from[j]
      BY <2>3 DEF Distinct
    <3> QED BY <3>1, <2>1, <2>2
  <2> QED BY <2>5, <2>6, <2>7
<1> QED BY <1>1, <1>2

\* The head of a list, and what follows an item of it.
LEMMA LinkType ==
    ASSUME NEW S, NEW list \in Seq(S), NEW x, NEW null
    PROVE  /\ First(list, null) \in S \cup {null}
           /\ Successor(x, list, null) \in S \cup {null}
<1>1. First(list, null) \in S \cup {null}
  BY DEF First
<1>2. ASSUME x \in Members(list), Position(x, list) < Len(list)
      PROVE  list[Position(x, list) + 1] \in S
  <2>1. Position(x, list) \in 1 .. Len(list)
    BY <1>2, PositionOf
  <2> QED BY <1>2, <2>1
<1> QED BY <1>1, <1>2 DEF Successor

\* The items in front of x, which a traversal of the list has passed at x.
Before(x, list) == {list[i] : i \in 1 .. Position(x, list) - 1}

\* An item that is in the list once stands where it stands.
LEMMA PositionIs ==
    ASSUME NEW list, Distinct(list), NEW i \in 1 .. Len(list)
    PROVE  Position(list[i], list) = i
<1>1. list[i] \in Members(list)
  BY DEF Members
<1> QED BY <1>1, PositionOf DEF Distinct

\* A traversal starts at an item with nothing in front of it, unless the list is empty.
LEMMA BeforeFirst ==
    ASSUME NEW S, NEW list \in Seq(S), NEW null, null \notin S, Distinct(list)
    PROVE  /\ First(list, null) = null => Members(list) = {}
           /\ First(list, null) # null =>
                First(list, null) \in Members(list) /\ Before(First(list, null), list) = {}
<1>1. CASE list = <<>>
  BY <1>1 DEF First, Members
<1>2. CASE list # <<>>
  <2>1. 1 \in 1 .. Len(list) /\ First(list, null) = list[1] /\ list[1] \in S
    BY <1>2 DEF First
  <2>2. Position(list[1], list) = 1
    BY <2>1, PositionIs
  <2> QED BY <2>1, <2>2 DEF Before, Members
<1> QED BY <1>1, <1>2

\* One step of a traversal: it passes the item it leaves, and at the end of the
\* list it has passed every item.
LEMMA BeforeSuccessor ==
    ASSUME NEW S, NEW list \in Seq(S), NEW null, null \notin S, Distinct(list),
           NEW x \in Members(list)
    PROVE  LET y == Successor(x, list, null)
           IN  /\ y = null => Members(list) = Before(x, list) \cup {x}
               /\ y # null => y \in Members(list) /\ Before(y, list) = Before(x, list) \cup {x}
<1> DEFINE p == Position(x, list)
<1>1. p \in 1 .. Len(list) /\ list[p] = x /\ Len(list) \in Nat
  BY PositionOf
<1>2. {list[i] : i \in 1 .. p} = Before(x, list) \cup {x}
  <2>1. 1 .. p = (1 .. p - 1) \cup {p}
    BY <1>1
  <2> QED BY <1>1, <2>1 DEF Before
<1>3. CASE p < Len(list)
  <2>1. p + 1 \in 1 .. Len(list) /\ Successor(x, list, null) = list[p + 1]
    BY <1>1, <1>3 DEF Successor
  <2>2. Position(list[p + 1], list) = p + 1 /\ (p + 1) - 1 = p
    BY <1>1, <2>1, PositionIs
  <2>3. list[p + 1] # null /\ list[p + 1] \in Members(list)
    BY <2>1 DEF Members
  <2>4. Before(list[p + 1], list) = Before(x, list) \cup {x}
    BY <1>2, <2>2 DEF Before
  <2> QED BY <2>1, <2>3, <2>4
<1>4. CASE p = Len(list)
  <2>1. Successor(x, list, null) = null
    BY <1>1, <1>4 DEF Successor
  <2>2. Members(list) = {list[i] : i \in 1 .. p}
    BY <1>4 DEF Members
  <2> QED BY <1>2, <2>1, <2>2
<1> QED BY <1>1, <1>3, <1>4

\* LL_ADD puts an item in front of all the others.
LEMMA BeforeInsert ==
    ASSUME NEW S, NEW list \in Seq(S), NEW x \in S \ Members(list), Distinct(list)
    PROVE  /\ Before(x, Insert(x, list)) = {}
           /\ \A y \in Members(list) :
                 Before(y, Insert(x, list)) = Before(y, list) \cup {x}
<1> DEFINE new == Insert(x, list)
<1>1. /\ Len(new) = Len(list) + 1 /\ new[1] = x /\ Len(list) \in Nat
      /\ \A i \in 1 .. Len(list) : new[i + 1] = list[i]
  BY InsertItems
<1>2. Distinct(new)
  BY InsertDistinct
<1> HIDE DEF new
<1>3. Before(x, new) = {}
  <2>1. Position(new[1], new) = 1
    BY <1>1, <1>2, PositionIs
  <2> QED BY <1>1, <2>1 DEF Before
<1>4. ASSUME NEW y \in Members(list) PROVE Before(y, new) = Before(y, list) \cup {x}
  <2> DEFINE p == Position(y, list)
  <2>1. p \in 1 .. Len(list) /\ list[p] = y
    BY PositionOf
  <2> HIDE DEF p
  <2>2. new[p + 1] = y /\ p + 1 \in 1 .. Len(new)
    BY <1>1, <2>1
  <2>3. Position(y, new) = p + 1
    BY <1>2, <2>2, PositionIs
  <2>4. Before(y, new) = {new[i] : i \in 1 .. p}
    <3>1. (p + 1) - 1 = p
      BY <2>1
    <3> QED BY <2>3, <3>1 DEF Before
  <2>5. \A i \in 2 .. p : i - 1 \in 1 .. p - 1 /\ new[i] = list[i - 1]
    <3> SUFFICES ASSUME NEW i \in 2 .. p PROVE i - 1 \in 1 .. p - 1 /\ new[i] = list[i - 1]
      OBVIOUS
    <3>1. i - 1 \in 1 .. Len(list) /\ i - 1 \in 1 .. p - 1 /\ (i - 1) + 1 = i
      BY <1>1, <2>1
    <3> QED BY <1>1, <3>1
  <2>6. \A i \in 1 .. p - 1 : i + 1 \in 1 .. p /\ new[i + 1] = list[i]
    BY <1>1, <2>1
  <2>7. {new[i] : i \in 1 .. p} \subseteq {list[i] : i \in 1 .. p - 1} \cup {x}
    <3> SUFFICES ASSUME NEW i \in 1 .. p
                 PROVE  new[i] \in {list[j] : j \in 1 .. p - 1} \cup {x}
      OBVIOUS
    <3>1. CASE i = 1
      BY <1>1, <3>1
    <3>2. CASE i \in 2 .. p
      BY <2>5, <3>2
    <3> QED BY <2>1, <3>1, <3>2
  <2>8. {list[i] : i \in 1 .. p - 1} \cup {x} \subseteq {new[i] : i \in 1 .. p}
    <3>1. 1 \in 1 .. p
      BY <2>1
    <3> QED BY <1>1, <2>6, <3>1
  <2> QED BY <2>4, <2>7, <2>8 DEF Before, p
<1> QED BY <1>3, <1>4 DEF new

\* LL_REMOVE leaves the others in their order.
LEMMA BeforeDelete ==
    ASSUME NEW S, NEW list \in Seq(S), Distinct(list), NEW x \in Members(list),
           NEW y \in Members(list) \ {x}
    PROVE  Before(y, Delete(x, list)) \subseteq Before(y, list)
<1> DEFINE new == Delete(x, list)
           p == Position(x, list)
           q == Position(y, list)
<1>1. /\ p \in 1 .. Len(list) /\ list[p] = x /\ Len(list) \in Nat
      /\ q \in 1 .. Len(list) /\ list[q] = y /\ p # q
  BY PositionOf
<1>2. /\ Len(new) = Len(list) - 1
      /\ \A j \in 1 .. Len(list) - 1 : new[j] = IF j < p THEN list[j] ELSE list[j + 1]
  BY DeleteItems
<1>3. Distinct(new)
  BY DeleteMembers
<1> DEFINE r == IF q < p THEN q ELSE q - 1
<1> HIDE DEF new, p, q
<1>4. r \in 1 .. Len(new) /\ new[r] = y
  BY <1>1, <1>2
<1>5. Position(y, new) = r
  BY <1>3, <1>4, PositionIs
<1> SUFFICES ASSUME NEW i \in 1 .. r - 1 PROVE new[i] \in {list[j] : j \in 1 .. q - 1}
  BY <1>5 DEF Before, new, q
<1>6. i \in 1 .. Len(list) - 1 /\ i < q /\ (i >= p => i + 1 < q)
  BY <1>1, <1>2, <1>4
<1>7. new[i] = IF i < p THEN list[i] ELSE list[i + 1]
  BY <1>2, <1>6
<1>8. CASE i < p
  <2>1. i \in 1 .. q - 1
    BY <1>1, <1>6
  <2> QED BY <1>7, <1>8, <2>1
<1>9. CASE i >= p
  <2>1. i + 1 \in 1 .. q - 1
    BY <1>1, <1>6, <1>9
  <2>2. new[i] = list[i + 1]
    BY <1>1, <1>6, <1>7, <1>9
  <2> QED BY <2>1, <2>2
<1> QED BY <1>1, <1>6, <1>8, <1>9

NatOrder == {pair \in Nat \X Nat : pair[1] < pair[2]}

\* A set of naturals that is not empty has a least element.
LEMMA LeastElement ==
    ASSUME NEW T \in SUBSET Nat, T # {}
    PROVE  \E m \in T : \A k \in T : m <= k
<1>1. IsWellFoundedOn(NatOrder, Nat)
  BY NatLessThanWellFounded DEF OpToRel, NatOrder
<1>2. PICK m \in T : \A k \in T : ~(<<k, m>> \in NatOrder)
  BY <1>1, WFMin
<1>3. \A k \in T : ~(k < m)
  BY <1>2 DEF NatOrder
<1> QED BY <1>3

\* A traversal of a list that holds an item of S meets one.
LEMMA FirstInSet ==
    ASSUME NEW S, NEW list, NEW null, Len(list) \in Nat
    PROVE  FirstIn(S, list, null) \in IF S \cap Members(list) = {}
                                       THEN {null} ELSE S \cap Members(list)
<1> DEFINE found == S \cap Members(list)
<1>1. CASE found = {}
  BY <1>1 DEF FirstIn
<1>2. CASE found # {}
  <2> DEFINE places == {Position(x, list) : x \in found}
  <2>1. places \in SUBSET Nat
    BY PositionOf
  <2>2. places # {}
    BY <1>2
  <2>3. PICK m \in places : \A k \in places : m <= k
    BY <2>1, <2>2, LeastElement
  <2>4. \E x \in found : \A y \in found : Position(x, list) <= Position(y, list)
    BY <2>3
  <2> QED BY <1>2, <2>4 DEF FirstIn
<1> QED BY <1>1, <1>2
=============================================================================
