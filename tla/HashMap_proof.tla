---------------------------- MODULE HashMap_proof ----------------------------
(***************************************************************************)
(* Proofs about the table of names, for any keys, any hashes and any       *)
(* capacity to begin with. A search ends because no array, neither the     *)
(* table nor the one resize fills, is ever full: the number hashmap_set    *)
(* checks is the one that counts the keys, and what it finds holds until   *)
(* the key is in. The table is a dictionary because every key stands where *)
(* a search for it comes by: no free entry lies between the place its hash *)
(* names and its own, in either array, while the keys are moved.           *)
(***************************************************************************)
EXTENDS HashMap, FiniteSetTheorems, TLAPS

USE HashMapAssumption

Entry == [key : Key \cup {Nullptr}, value : Value \cup {Nullptr}]
Array(n) == [0 .. n - 1 -> Entry]

\* The capacity is that of an array, and so is that of twice the size.
Arrays == /\ Capacity(entries) \in Nat \ {0}
          /\ entries \in Array(Capacity(entries))

\* count is at least the number of the keys there are, and less than the capacity.
Counted == /\ count \in Nat
           /\ Cardinality(Occupied(entries)) <= count
           /\ count < Capacity(entries)

\* Only a running call searches, and only hashmap_set resizes.
Calls == /\ call \in {Idle} \cup [op : {"get"}, key : Key]
                       \cup [op : {"set"}, key : Key, value : Value]
         /\ call = Idle => ~Searching
         /\ call.op # "set" => ~Resizing

\* The entries of the old array that were moved.
Before(i) == {j \in Occupied(entries) : j < i}

\* The new array is twice as large and has no more keys than were moved to it.
Growing == Resizing =>
    /\ old \in [index : 0 .. Capacity(entries), filled : Array(2 * Capacity(entries))]
    /\ Cardinality(Occupied(old.filled)) <= Cardinality(Before(old.index))
    /\ Searching => old.index \in Occupied(entries)

\* Room for the key that is about to be set.
Reserved == call.op = "set" /\ ~Resizing => count + 1 < Capacity(entries)

\* The inductive invariant.
IInv == Arrays /\ Counted /\ Calls /\ Growing /\ Reserved

-----------------------------------------------------------------------------
\* An array of n entries has the capacity n, finitely many keys, and none at first.
LEMMA ArrayCapacity ==
  ASSUME NEW n \in Nat, NEW a \in Array(n)
  PROVE  /\ Capacity(a) = n
         /\ IsFiniteSet(Occupied(a)) /\ Cardinality(Occupied(a)) \in Nat
         /\ Occupied(a) \subseteq DOMAIN a
<1>1. DOMAIN a = 0 .. n - 1
  BY DEF Array
<1>2. IsFiniteSet(0 .. n - 1) /\ Cardinality(0 .. n - 1) = n
  BY FS_Interval
<1>3. Occupied(a) \in SUBSET (0 .. n - 1)
  BY <1>1 DEF Occupied
<1>4. IsFiniteSet(Occupied(a))
  BY <1>2, <1>3, FS_Subset
<1> QED
  BY <1>1, <1>2, <1>3, <1>4, FS_CardinalityType DEF Capacity

\* calloc's array.
LEMMA CallocArray ==
  ASSUME NEW n \in Nat
  PROVE  /\ Calloc(n) \in Array(n) /\ Capacity(Calloc(n)) = n
         /\ Cardinality(Occupied(Calloc(n))) = 0
<1>1. Calloc(n) \in Array(n)
  BY DEF Calloc, Array, Entry, Empty
<1>2. Occupied(Calloc(n)) = {}
  BY DEF Occupied, Calloc, Empty
<1> QED
  BY <1>1, <1>2, ArrayCapacity, FS_EmptySet

\* Writing an entry adds at most one key, and none where there is one.
LEMMA WriteEntry ==
  ASSUME NEW n \in Nat, NEW a \in Array(n), NEW i, NEW e \in Entry
  PROVE  LET b == [a EXCEPT ![i] = e]
         IN /\ b \in Array(n)
            /\ Cardinality(Occupied(b)) <= Cardinality(Occupied(a)) + 1
            /\ i \in DOMAIN a /\ a[i].key # Nullptr
                 => Cardinality(Occupied(b)) <= Cardinality(Occupied(a))
<1> DEFINE b == [a EXCEPT ![i] = e]
<1>1. b \in Array(n)
  BY DEF Array
<1>2. Occupied(b) \in SUBSET (Occupied(a) \cup {i})
  BY DEF Occupied, Array
<1>3. /\ IsFiniteSet(Occupied(a)) /\ Cardinality(Occupied(a)) \in Nat
      /\ Cardinality(Occupied(b)) \in Nat
  BY <1>1, ArrayCapacity
<1>4. /\ IsFiniteSet(Occupied(a) \cup {i})
      /\ Cardinality(Occupied(a) \cup {i}) =
            IF i \in Occupied(a) THEN Cardinality(Occupied(a)) ELSE Cardinality(Occupied(a)) + 1
  BY <1>3, FS_AddElement, Zenon
<1>5. Cardinality(Occupied(b)) <= Cardinality(Occupied(a) \cup {i})
  BY <1>2, <1>4, FS_Subset, Zenon
<1>6. i \in DOMAIN a /\ a[i].key # Nullptr => i \in Occupied(a)
  BY DEF Occupied
<1> QED
  BY <1>1, <1>3, <1>4, <1>5, <1>6

\* What is moved is part of what there is, and grows by the entry moved.
LEMMA MovedEntries ==
  ASSUME IInv, NEW i \in Nat
  PROVE  /\ Cardinality(Before(i)) \in Nat
         /\ Cardinality(Before(i)) <= Cardinality(Occupied(entries))
         /\ i \in Occupied(entries) => Cardinality(Before(i + 1)) = Cardinality(Before(i)) + 1
         /\ i \notin Occupied(entries) => Before(i + 1) = Before(i)
<1>1. IsFiniteSet(Occupied(entries)) /\ Occupied(entries) \subseteq Nat
  BY ArrayCapacity DEF IInv, Arrays, Array
<1>2. Before(i) \in SUBSET Occupied(entries)
  BY DEF Before
<1>3. IsFiniteSet(Before(i)) /\ Cardinality(Before(i)) <= Cardinality(Occupied(entries))
  BY <1>1, <1>2, FS_Subset, Zenon
<1>4. i \in Occupied(entries) => Before(i + 1) = Before(i) \cup {i}
  BY <1>1 DEF Before
<1>5. i \notin Before(i)
  BY DEF Before
<1>6. i \notin Occupied(entries) => Before(i + 1) = Before(i)
  BY <1>1 DEF Before
<1>7. Cardinality(Before(i) \cup {i}) = Cardinality(Before(i)) + 1
  BY <1>3, <1>5, FS_AddElement, Zenon
<1> QED
  BY <1>3, <1>4, <1>6, <1>7, FS_CardinalityType

-----------------------------------------------------------------------------
LEMMA InitIInv == Init => IInv
<1> SUFFICES ASSUME Init PROVE IInv
  OBVIOUS
<1>1. /\ Capacity(entries) = InitialCapacity /\ entries \in Array(InitialCapacity)
      /\ Cardinality(Occupied(entries)) = 0
  BY CallocArray DEF Init
<1>2. call = Idle /\ ~Resizing /\ ~Searching /\ call.op # "set"
  BY DEF Init, Resizing, Searching, Idle
<1> QED
  BY <1>1, <1>2 DEF Init, IInv, Arrays, Counted, Calls, Growing, Reserved

\* A call of the user's.
LEMMA CallStep ==
  ASSUME IInv, NEW k \in Key, Get(k) \/ \E v \in Value : Set(k, v)
  PROVE  IInv'
<1> USE DEF IInv
<1>1. ~Resizing /\ ~Searching /\ call = Idle /\ Capacity(entries) \in Nat \ {0}
  BY DEF Calls, Get, Set, Idle, Arrays
<1>2. CASE Get(k)
  <2>1. UNCHANGED << entries, count, old >> /\ call' \in {call, [op |-> "get", key |-> k]}
    BY <1>2 DEF Get, map
  <2>2. call'.op # "set" /\ (call' = Idle => ~Searching')
    BY <1>1, <1>2, <2>1 DEF Get, Idle, Searching
  <2> QED
    BY <1>1, <2>1, <2>2
    DEF Arrays, Counted, Calls, Growing, Reserved, Resizing, Capacity, Occupied
<1>3. CASE \E v \in Value : Set(k, v)
  <2>1. PICK v \in Value : Set(k, v)
    BY <1>3
  <2>2. /\ UNCHANGED << entries, count >>
        /\ call' = [op |-> "set", key |-> k, value |-> v] /\ call' # Idle
    BY <2>1 DEF Set, map, Idle
  <2>3. Arrays' /\ Counted'
    BY <2>2 DEF Arrays, Counted, Capacity, Occupied
  <2>4. Calls'
    BY <2>2 DEF Calls
  <2>5. CASE MustGrow
    <3> DEFINE filled == Calloc(2 * Capacity(entries))
    <3>1. old' = [index |-> 0, filled |-> filled] /\ ~Searching' /\ Resizing'
      BY <1>1, <2>1, <2>5 DEF Set, Searching, Resizing, NoResize
    <3>2. /\ filled \in Array(2 * Capacity(entries))
          /\ Cardinality(Occupied(filled)) = 0
      BY <1>1, CallocArray
    <3>3. Cardinality(Before(0)) \in Nat /\ Before(0)' = Before(0)
      BY <2>2, MovedEntries DEF Before, Occupied
    <3>4. /\ old' \in [index : 0 .. Capacity(entries), filled : Array(2 * Capacity(entries))]
          /\ old'.index = 0 /\ old'.filled = filled
      BY <1>1, <3>1, <3>2
    <3>5. Growing'
      BY <2>2, <3>1, <3>2, <3>3, <3>4 DEF Growing, Capacity, Occupied, Before
    <3> QED
      BY <2>3, <2>4, <3>1, <3>5 DEF Reserved
  <2>6. CASE ~MustGrow
    <3>1. ~Resizing'
      BY <1>1, <2>1, <2>6 DEF Set, Resizing
    <3>2. count + 1 < Capacity(entries)
      BY <1>1, <2>6 DEF MustGrow, Counted
    <3> QED
      BY <2>2, <2>3, <2>4, <3>1, <3>2 DEF Growing, Reserved, Capacity
  <2> QED
    BY <2>5, <2>6
<1> QED
  BY <1>2, <1>3

\* The steps of resize.
LEMMA ResizeStep ==
  ASSUME IInv, NextEntry \/ MoveEntry \/ Resized
  PROVE  IInv'
<1> USE DEF IInv
<1> DEFINE n == Capacity(entries)
<1>1. /\ n \in Nat \ {0} /\ entries \in Array(n) /\ DOMAIN entries = 0 .. n - 1
      /\ Resizing /\ call.op = "set" /\ call # Idle
      /\ old.index \in 0 .. n /\ old.filled \in Array(2 * n)
      /\ old \in [index : 0 .. n, filled : Array(2 * n)]
  BY DEF Arrays, Array, Growing, Calls, NextEntry, MoveEntry, Resized, Idle
<1>2. CASE NextEntry
  <2>1. UNCHANGED << entries, count, call >> /\ ~Searching
    BY <1>2 DEF NextEntry, map
  <2>2. Arrays' /\ Counted' /\ Calls'
    BY <1>1, <2>1 DEF Arrays, Counted, Calls, Capacity, Occupied
  <2>5. old.index \in 0 .. n - 1
    BY <1>1, <1>2 DEF NextEntry, Moved
  <2>3. CASE entries[old.index].key = Nullptr
    <3>1. /\ old' = [old EXCEPT !.index = old.index + 1] /\ ~Searching'
      BY <1>2, <2>1, <2>3 DEF NextEntry, Searching
    <3>2. Before(old.index + 1) = Before(old.index)
      <4>1. old.index \in Nat /\ old.index \notin Occupied(entries)
        BY <1>1, <2>3 DEF Occupied
      <4> QED
        BY <4>1, MovedEntries
    <3>3. /\ old'.index = old.index + 1 /\ old'.filled = old.filled
          /\ old' \in [index : 0 .. n, filled : Array(2 * n)]
      BY <1>1, <2>5, <3>1
    <3>4. Resizing'
      BY <1>1, <2>1, <3>3 DEF Resizing, NoResize
    <3>6. /\ Capacity(entries)' = n /\ Occupied(entries)' = Occupied(entries)
          /\ Before(old.index)' = Before(old.index + 1)
      BY <2>1, <3>3 DEF Capacity, Occupied, Before
    <3>5. Growing'
      BY <1>1, <3>1, <3>2, <3>3, <3>6 DEF Growing
    <3> QED
      BY <2>2, <3>4, <3>5 DEF Reserved
  <2>4. CASE entries[old.index].key # Nullptr
    <3>1. UNCHANGED old /\ old.index \in Occupied(entries)
      BY <1>1, <1>2, <2>5, <2>4 DEF NextEntry, Occupied
    <3> QED
      BY <1>1, <2>1, <2>2, <3>1
      DEF Growing, Reserved, Resizing, Searching, Capacity, Occupied, Before
  <2> QED
    BY <2>3, <2>4
<1>3. CASE MoveEntry
  <2>1. UNCHANGED << entries, count, call >> /\ ~Searching'
    BY <1>3 DEF MoveEntry, map, Searching
  <2>2. Arrays' /\ Counted' /\ Calls'
    BY <1>1, <2>1 DEF Arrays, Counted, Calls, Capacity, Occupied
  <2>3. old.index \in Occupied(entries)
    BY <1>1, <1>3 DEF MoveEntry, Growing
  <2>4. Cardinality(Before(old.index + 1)) = Cardinality(Before(old.index)) + 1
        /\ Cardinality(Before(old.index)) \in Nat
    BY <1>1, <2>3, MovedEntries
  <2> DEFINE b == [old.filled EXCEPT ![Destination] = entries[old.index]]
  <2>5. entries[old.index] \in Entry /\ old.index \in 0 .. n - 1
    BY <1>1, <2>3 DEF Occupied, Array
  <2>6. /\ b \in Array(2 * n) /\ Cardinality(Occupied(b)) \in Nat
        /\ Cardinality(Occupied(b)) <= Cardinality(Occupied(old.filled)) + 1
    <3>1. 2 * n \in Nat
      BY <1>1
    <3>2. /\ b \in Array(2 * n)
          /\ Cardinality(Occupied(b)) <= Cardinality(Occupied(old.filled)) + 1
      BY <1>1, <2>5, <3>1, WriteEntry, Zenon
    <3> QED
      BY <3>1, <3>2, ArrayCapacity
  <2>7. old' = [index |-> old.index + 1, filled |-> b]
    BY <1>3 DEF MoveEntry
  <2>8. Cardinality(Occupied(b)) <= Cardinality(Before(old.index + 1))
    BY <1>1, <2>4, <2>6, ArrayCapacity DEF Growing
  <2> HIDE DEF b
  <2>12. old.index + 1 \in 0 .. n
    BY <1>1, <2>5
  <2>9. old'.index = old.index + 1 /\ old'.filled = b
    BY <2>7
  <2>10. Resizing' /\ old' \in [index : 0 .. n, filled : Array(2 * n)]
    BY <2>6, <2>7, <2>12 DEF Resizing, NoResize
  <2>13. /\ Capacity(entries)' = n /\ Occupied(entries)' = Occupied(entries)
         /\ Before(old.index)' = Before(old.index + 1)
    BY <2>1, <2>9 DEF Capacity, Occupied, Before
  <2>11. Growing'
    BY <1>1, <2>1, <2>8, <2>9, <2>10, <2>13 DEF Growing
  <2> QED
    BY <2>2, <2>10, <2>11 DEF Reserved
<1>4. CASE Resized
  <2>1. /\ entries' = old.filled /\ UNCHANGED << count, call >>
        /\ ~Resizing' /\ Searching'
    BY <1>4 DEF Resized, Resizing, Searching, FindEntry, NoProbe
  <2>2. Capacity(entries') = 2 * n /\ Arrays'
    BY <1>1, <2>1, ArrayCapacity DEF Arrays
  <2>3. Cardinality(Occupied(old.filled)) <= Cardinality(Occupied(entries))
    <3>1. /\ Cardinality(Before(old.index)) \in Nat
          /\ Cardinality(Before(old.index)) <= Cardinality(Occupied(entries))
      BY <1>1, MovedEntries
    <3>2. Cardinality(Occupied(old.filled)) \in Nat /\ Cardinality(Occupied(entries)) \in Nat
      BY <1>1, ArrayCapacity
    <3>3. Cardinality(Occupied(old.filled)) <= Cardinality(Before(old.index))
      BY <1>1 DEF Growing
    <3> QED
      BY <3>1, <3>2, <3>3
  <2>4. Counted' /\ count + 1 < 2 * n
    BY <1>1, <2>1, <2>2, <2>3, ArrayCapacity DEF Counted
  <2>5. Calls'
    BY <1>1, <2>1 DEF Calls
  <2> QED
    BY <2>1, <2>2, <2>4, <2>5 DEF Growing, Reserved
<1> QED
  BY <1>2, <1>3, <1>4

\* The searches, and what hashmap_set and hashmap_get do with what they find.
LEMMA SearchStep ==
  ASSUME IInv, (Resizing /\ Probe(old.filled)) \/ (~Resizing /\ Probe(entries)) \/ Write \/ Read
  PROVE  IInv'
<1> USE DEF IInv
<1>1. CASE Probe(old.filled) \/ Probe(entries)
  <2>1. UNCHANGED << entries, count, call, old >> /\ Searching
    BY <1>1 DEF Probe, map
  <2> QED
    BY <2>1 DEF Arrays, Counted, Calls, Growing, Reserved, Capacity, Occupied, Before, Resizing,
                Searching
<1>2. CASE Write
  <2> DEFINE e == [key |-> call.key, value |-> call.value]
  <2>1. /\ entries' = [entries EXCEPT ![probe.index] = e]
        /\ count' = IF entries[probe.index].key = Nullptr THEN count + 1 ELSE count
        /\ call' = Idle /\ ~Searching' /\ ~Resizing' /\ call.op = "set" /\ ~Resizing
    BY <1>2 DEF Write, Searching, Resizing
  <2>2. e \in Entry
    BY <2>1 DEF Calls, Entry, Idle
  <2>3. /\ entries' \in Array(Capacity(entries))
        /\ Cardinality(Occupied(entries')) <= Cardinality(Occupied(entries)) + 1
        /\ probe.index \in DOMAIN entries /\ entries[probe.index].key # Nullptr
              => Cardinality(Occupied(entries')) <= Cardinality(Occupied(entries))
    BY <2>1, <2>2, WriteEntry, Zenon DEF Arrays
  <2>4. Capacity(entries') = Capacity(entries) /\ Arrays'
    BY <2>3, ArrayCapacity DEF Arrays
  <2>5. /\ Cardinality(Occupied(entries')) \in Nat /\ Cardinality(Occupied(entries)) \in Nat
    BY <2>3, ArrayCapacity DEF Arrays
  <2>6. probe.index \notin DOMAIN entries => entries' = entries
    BY <2>1 DEF Arrays, Array
  <2>7. Cardinality(Occupied(entries')) <= count' /\ count' \in {count, count + 1}
    <3>1. CASE entries[probe.index].key = Nullptr
      BY <2>1, <2>3, <2>5, <3>1 DEF Counted
    <3>2. CASE probe.index \in DOMAIN entries /\ entries[probe.index].key # Nullptr
      BY <2>1, <2>3, <2>5, <3>2 DEF Counted
    <3>3. CASE probe.index \notin DOMAIN entries
      <4>1. count' = count \/ count' = count + 1
        BY <2>1
      <4>2. Occupied(entries') = Occupied(entries)
        BY <2>6, <3>3 DEF Occupied
      <4> QED
        BY <2>5, <4>1, <4>2 DEF Counted
    <3> QED
      BY <3>1, <3>2, <3>3
  <2>8. Counted'
    BY <2>1, <2>4, <2>7 DEF Counted, Reserved, Arrays
  <2> QED
    BY <2>1, <2>4, <2>8 DEF Calls, Growing, Reserved, Idle
<1>3. CASE Read
  <2>1. UNCHANGED << entries, count, old >> /\ call' = Idle /\ ~Searching' /\ ~Resizing
    BY <1>3 DEF Read, map, Searching, Calls
  <2> QED
    BY <2>1
    DEF Arrays, Counted, Calls, Growing, Reserved, Capacity, Occupied, Before, Resizing, Idle
<1> QED
  BY <1>1, <1>2, <1>3

LEMMA NextIInv == IInv /\ [Next]_vars => IInv'
<1> SUFFICES ASSUME IInv, [Next]_vars PROVE IInv'
  OBVIOUS
<1>1. CASE UNCHANGED vars
  BY <1>1 DEF vars, IInv, Arrays, Counted, Calls, Growing, Reserved, Capacity, Occupied, Before,
              Resizing, Searching
<1>2. CASE Work
  BY <1>2, ResizeStep, SearchStep DEF Work
<1>3. CASE \E k \in Key : Get(k) \/ \E v \in Value : Set(k, v)
  BY <1>3, CallStep
<1> QED
  BY <1>1, <1>2, <1>3 DEF Next

-----------------------------------------------------------------------------
\* No array is ever full, so that every search of it comes to the key or to an
\* entry without one.
THEOREM AlwaysRoom == Spec => []RoomLeft
<1>1. ASSUME IInv PROVE RoomLeft
  <2> DEFINE n == Capacity(entries)
  <2>1. /\ n \in Nat \ {0} /\ entries \in Array(n)
        /\ Cardinality(Occupied(entries)) < n /\ Cardinality(Occupied(entries)) \in Nat
    BY <1>1, ArrayCapacity DEF IInv, Arrays, Counted
  <2>2. Occupied(entries) # DOMAIN entries
    BY <2>1 DEF Capacity
  <2>3. ASSUME Resizing PROVE Occupied(old.filled) # DOMAIN old.filled
    <3>1. /\ old.index \in Nat /\ old.filled \in Array(2 * n)
          /\ Cardinality(Occupied(old.filled)) <= Cardinality(Before(old.index))
      BY <1>1, <2>1, <2>3 DEF IInv, Growing
    <3>2. /\ Cardinality(Before(old.index)) \in Nat
          /\ Cardinality(Before(old.index)) <= Cardinality(Occupied(entries))
      BY <1>1, <3>1, MovedEntries
    <3>3. Capacity(old.filled) = 2 * n /\ Cardinality(Occupied(old.filled)) \in Nat
      BY <2>1, <3>1, ArrayCapacity
    <3> QED
      BY <2>1, <3>1, <3>2, <3>3 DEF Capacity
  <2> QED
    BY <2>2, <2>3 DEF RoomLeft
<1> QED
  BY <1>1, InitIInv, NextIInv, PTL DEF Spec
-----------------------------------------------------------------------------
\* Why the table is a dictionary. The entries a search from entry h passes
\* before it comes to entry i, in an array of n.
Path(h, i, n) == {j \in 0 .. n - 1 : IF h <= i THEN h <= j /\ j < i ELSE h <= j \/ j < i}

Home(k, n) == hash[k] % n

\* The entries from k's home to i have keys, and other ones.
Passed(a, k, i) == \A j \in Path(Home(k, Capacity(a)), i, Capacity(a)) :
                       a[j].key # Nullptr /\ a[j].key # k

\* A search for a key that is there comes to it.
Reachable(a) == \A i \in Occupied(a) : Passed(a, a[i].key, i)

\* Where there is no key there is no value.
Blank(a) == \A i \in DOMAIN a : a[i].key = Nullptr => a[i].value = Nullptr

\* The array that is searched, and for what.
Searched == IF Resizing THEN old.filled ELSE entries
Wanted == IF Resizing THEN entries[old.index].key ELSE call.key

\* The search under way has passed nothing it was to find.
OnItsWay == Searching =>
    /\ probe \in [key : Key, index : 0 .. Capacity(Searched) - 1]
    /\ probe.key = Wanted
    /\ Passed(Searched, probe.key, probe.index)

\* What the array being filled has is what was moved to it.
Copied == Resizing =>
    /\ Reachable(old.filled) /\ Blank(old.filled)
    /\ \A i \in Before(old.index) : \E j \in Occupied(old.filled) : old.filled[j] = entries[i]
    /\ \A j \in Occupied(old.filled) : \E i \in Before(old.index) : old.filled[j] = entries[i]

\* The inductive invariant, beyond IInv.
Lookup == /\ hash \in [Key -> Nat]
          /\ Reachable(entries) /\ Blank(entries) /\ OnItsWay /\ Copied
-----------------------------------------------------------------------------
\* Facts about the way from a key's home.
LEMMA HomeInArray ==
  ASSUME hash \in [Key -> Nat], NEW n \in Nat \ {0}, NEW k \in Key
  PROVE  Home(k, n) \in 0 .. n - 1
<1>1. hash[k] \in Nat
  OBVIOUS
<1> QED
  BY <1>1 DEF Home

\* The entry after i, and that only i is passed on the way to it.
LEMMA PathToNext ==
  ASSUME NEW n \in Nat \ {0}, NEW h \in 0 .. n - 1, NEW i \in 0 .. n - 1
  PROVE  /\ (i + 1) % n \in 0 .. n - 1
         /\ Path(h, (i + 1) % n, n) \subseteq Path(h, i, n) \cup {i}
<1>1. (i + 1) % n = IF i + 1 = n THEN 0 ELSE i + 1
  OBVIOUS
<1> QED
  BY <1>1 DEF Path

\* Of two entries, one is passed on the way to the other; the way begins at home.
LEMMA PathOrder ==
  ASSUME NEW n \in Nat \ {0}, NEW h \in 0 .. n - 1
  PROVE  /\ Path(h, h, n) = {}
         /\ \A i, j \in 0 .. n - 1 : i # j => i \in Path(h, j, n) \/ j \in Path(h, i, n)
         /\ \A i \in 0 .. n - 1 : i \notin Path(h, i, n)
         /\ \A i : Path(h, i, n) \subseteq 0 .. n - 1
BY DEF Path

\* A search that has come to the key or to an entry without one has found the
\* only place the key may have.
LEMMA FoundPlace ==
  ASSUME hash \in [Key -> Nat], NEW n \in Nat \ {0}, NEW a \in Array(n), Reachable(a),
         NEW k \in Key, NEW i \in 0 .. n - 1, Passed(a, k, i), a[i].key \in {Nullptr, k}
  PROVE  \A j \in Occupied(a) : a[j].key = k => j = i
<1> SUFFICES ASSUME NEW j \in Occupied(a), a[j].key = k, j # i PROVE FALSE
  OBVIOUS
<1>1. Capacity(a) = n /\ j \in 0 .. n - 1 /\ Home(k, n) \in 0 .. n - 1
  BY ArrayCapacity, HomeInArray DEF Array, Occupied
<1>2. CASE j \in Path(Home(k, n), i, n)
  BY <1>1, <1>2 DEF Passed
<1>3. CASE i \in Path(Home(k, n), j, n)
  BY <1>1, <1>3 DEF Reachable, Passed
<1> QED
  BY <1>1, <1>2, <1>3, PathOrder

\* So no key has two.
LEMMA UniqueKeys ==
  ASSUME hash \in [Key -> Nat], NEW n \in Nat \ {0}, NEW a \in Array(n), Reachable(a)
  PROVE  \A i, j \in Occupied(a) : a[i].key = a[j].key => i = j
<1> SUFFICES ASSUME NEW i \in Occupied(a), NEW j \in Occupied(a), a[i].key = a[j].key
             PROVE  i = j
  OBVIOUS
<1>1. i \in 0 .. n - 1 /\ a[i].key \in Key
  BY DEF Occupied, Array, Entry
<1>2. Passed(a, a[i].key, i)
  BY DEF Reachable
<1> QED
  BY <1>1, <1>2, FoundPlace

\* Writing there keeps every key reachable.
Written(a, i, e) == [a EXCEPT ![i] = e]

LEMMA WriteReachable ==
  ASSUME hash \in [Key -> Nat], NEW n \in Nat \ {0}, NEW a \in Array(n), Reachable(a),
         NEW e \in Entry, e.key \in Key, NEW i \in 0 .. n - 1,
         Passed(a, e.key, i), a[i].key \in {Nullptr, e.key}
  PROVE  LET b == Written(a, i, e)
         IN /\ b \in Array(n) /\ Reachable(b)
            /\ Occupied(b) = Occupied(a) \cup {i}
            /\ b[i] = e /\ \A j \in Occupied(a) \ {i} : b[j] = a[j] /\ b[j].key # e.key
<1> DEFINE b == Written(a, i, e)
<1> USE HashMapAssumption
<1>1. b \in Array(n) /\ Capacity(a) = n /\ Capacity(b) = n
  BY WriteEntry, ArrayCapacity DEF Written
<1>2. /\ DOMAIN a = 0 .. n - 1 /\ DOMAIN b = 0 .. n - 1
      /\ \A j \in 0 .. n - 1 : b[j] = IF j = i THEN e ELSE a[j]
  BY DEF Array, Written
<1> HIDE DEF b
<1>3. Occupied(b) = Occupied(a) \cup {i}
  BY <1>2 DEF Occupied
<1>4. \A j \in Occupied(a) : a[j].key = e.key => j = i
  BY FoundPlace
<1>5. ASSUME NEW j \in Occupied(b) PROVE Passed(b, b[j].key, j)
  <2>1. j \in 0 .. n - 1 /\ b[j].key \in Key
    BY <1>1, <1>2, <1>5 DEF Occupied, Array, Entry
  <2>2. Home(b[j].key, n) \in 0 .. n - 1
    BY <2>1, HomeInArray
  <2>3. CASE j = i
    <3>1. \A m \in Path(Home(e.key, n), i, n) : m \in 0 .. n - 1 /\ m # i
      BY <2>2, <2>3, <1>2, PathOrder
    <3> QED
      BY <1>1, <1>2, <2>3, <3>1 DEF Passed
  <2>4. CASE j # i
    <3>1. j \in Occupied(a) /\ b[j] = a[j] /\ a[j].key # e.key
      BY <1>2, <1>3, <1>4, <2>1, <2>4
    <3>2. Passed(a, a[j].key, j)
      BY <3>1 DEF Reachable
    <3>3. \A m \in Path(Home(a[j].key, n), j, n) : m \in 0 .. n - 1
      BY <2>2, <3>1, PathOrder
    <3> QED
      BY <1>1, <1>2, <3>1, <3>2, <3>3 DEF Passed
  <2> QED
    BY <2>3, <2>4
<1>6. Reachable(b)
  BY <1>5 DEF Reachable
<1>7. b[i] = e /\ \A j \in Occupied(a) \ {i} : b[j] = a[j] /\ b[j].key # e.key
  BY <1>2, <1>4 DEF Occupied
<1> QED
  BY <1>1, <1>3, <1>6, <1>7 DEF b
LEMMA WriteBlank ==
  ASSUME NEW n \in Nat, NEW a \in Array(n), Blank(a), NEW e \in Entry, e.key \in Key, NEW i
  PROVE  Blank(Written(a, i, e))
BY HashMapAssumption DEF Blank, Written, Array

LEMMA CallocBlank == ASSUME NEW n \in Nat PROVE Blank(Calloc(n))
BY DEF Blank, Calloc, Empty

-----------------------------------------------------------------------------
\* The keys of an array, with their values.
Contents(a) == [k \in {a[i].key : i \in Occupied(a)} |->
                   a[CHOOSE i \in Occupied(a) : a[i].key = k].value]

LEMMA ContentsOfArray ==
  ASSUME hash \in [Key -> Nat], NEW n \in Nat \ {0}, NEW a \in Array(n), Reachable(a)
  PROVE  /\ DOMAIN Contents(a) = {a[i].key : i \in Occupied(a)}
         /\ \A i \in Occupied(a) : Contents(a)[a[i].key] = a[i].value
         /\ Contents(a) = [k \in DOMAIN Contents(a) |-> Contents(a)[k]]
<1>1. ASSUME NEW i \in Occupied(a) PROVE Contents(a)[a[i].key] = a[i].value
  <2> DEFINE j == CHOOSE j \in Occupied(a) : a[j].key = a[i].key
  <2>1. j \in Occupied(a) /\ a[j].key = a[i].key
    OBVIOUS
  <2>2. j = i
    BY <2>1, UniqueKeys
  <2> QED
    BY <2>2 DEF Contents
<1>2. DOMAIN Contents(a) = {a[i].key : i \in Occupied(a)}
  BY DEF Contents
<1>3. Contents(a) = [k \in DOMAIN Contents(a) |-> Contents(a)[k]]
  BY DEF Contents
<1> QED
  BY <1>1, <1>2, <1>3

\* An entry written where its key's search ends gives that key its value.
Updated(c, k, v) == [j \in DOMAIN c \cup {k} |-> IF j = k THEN v ELSE c[j]]

LEMMA ContentsWritten ==
  ASSUME hash \in [Key -> Nat], NEW n \in Nat \ {0}, NEW a \in Array(n), Reachable(a),
         NEW e \in Entry, e.key \in Key, NEW i \in 0 .. n - 1,
         Passed(a, e.key, i), a[i].key \in {Nullptr, e.key}
  PROVE  Contents(Written(a, i, e)) = Updated(Contents(a), e.key, e.value)
<1> DEFINE b == Written(a, i, e)
           c == Updated(Contents(a), e.key, e.value)
<1>1. /\ Reachable(b) /\ Occupied(b) = Occupied(a) \cup {i} /\ b[i] = e
      /\ \A j \in Occupied(a) \ {i} : b[j] = a[j] /\ b[j].key # e.key
  BY WriteReachable
<1>2. b \in Array(n)
  BY WriteReachable
<1> HIDE DEF b
<1>3. /\ DOMAIN Contents(b) = {b[j].key : j \in Occupied(b)}
      /\ \A j \in Occupied(b) : Contents(b)[b[j].key] = b[j].value
      /\ Contents(b) = [k \in DOMAIN Contents(b) |-> Contents(b)[k]]
  BY <1>1, <1>2, ContentsOfArray
<1>4. /\ DOMAIN Contents(a) = {a[j].key : j \in Occupied(a)}
      /\ \A j \in Occupied(a) : Contents(a)[a[j].key] = a[j].value
  BY ContentsOfArray
<1>5. \A j \in Occupied(a) : j = i => a[j].key = e.key
  BY DEF Occupied
<1>6. DOMAIN Contents(b) = DOMAIN Contents(a) \cup {e.key}
  BY <1>1, <1>3, <1>4, <1>5
<1>7. ASSUME NEW k \in DOMAIN Contents(b) PROVE Contents(b)[k] = c[k]
  <2>1. PICK j \in Occupied(b) : b[j].key = k
    BY <1>3
  <2>2. Contents(b)[k] = b[j].value
    BY <1>3, <2>1
  <2>3. CASE j = i
    BY <1>1, <1>6, <2>1, <2>2, <2>3 DEF Updated
  <2>4. CASE j # i
    BY <1>1, <1>4, <1>6, <2>1, <2>2, <2>4 DEF Updated
  <2> QED
    BY <2>3, <2>4
<1>8. Contents(b) = c
  BY <1>3, <1>6, <1>7 DEF Updated
<1> QED
  BY <1>8 DEF b

\* Two arrays of the same entries are the same table.
LEMMA ContentsSame ==
  ASSUME hash \in [Key -> Nat], NEW n \in Nat \ {0}, NEW a \in Array(n), Reachable(a),
         NEW m \in Nat \ {0}, NEW b \in Array(m), Reachable(b),
         \A i \in Occupied(a) : \E j \in Occupied(b) : b[j] = a[i],
         \A j \in Occupied(b) : \E i \in Occupied(a) : b[j] = a[i]
  PROVE  Contents(b) = Contents(a)
<1>1. /\ DOMAIN Contents(b) = {b[j].key : j \in Occupied(b)}
      /\ \A j \in Occupied(b) : Contents(b)[b[j].key] = b[j].value
      /\ Contents(b) = [k \in DOMAIN Contents(b) |-> Contents(b)[k]]
  BY ContentsOfArray
<1>2. /\ DOMAIN Contents(a) = {a[j].key : j \in Occupied(a)}
      /\ \A j \in Occupied(a) : Contents(a)[a[j].key] = a[j].value
      /\ Contents(a) = [k \in DOMAIN Contents(a) |-> Contents(a)[k]]
  BY ContentsOfArray
<1>3. DOMAIN Contents(b) = DOMAIN Contents(a)
  BY <1>1, <1>2
<1>4. ASSUME NEW k \in DOMAIN Contents(b) PROVE Contents(b)[k] = Contents(a)[k]
  BY <1>1, <1>2
<1> QED
  BY <1>1, <1>2, <1>3, <1>4

-----------------------------------------------------------------------------
LEMMA InitLookup == Init => Lookup /\ Promised!Init
<1> SUFFICES ASSUME Init PROVE Lookup /\ Promised!Init
  OBVIOUS
<1>1. Occupied(entries) = {} /\ hash \in [Key -> Nat] /\ ~Resizing /\ ~Searching
  BY DEF Init, Occupied, Calloc, Empty, Resizing, Searching
<1>2. Lookup
  BY <1>1, CallocBlank DEF Init, Lookup, Reachable, OnItsWay, Copied
<1>3. ValueOf = [k \in {} |-> Nullptr]
  BY <1>1 DEF ValueOf
<1> QED
  BY <1>2, <1>3 DEF Init, Promised!Init

\* What is there of an array and of a search as long as hash does not change.
LEMMA SameArray ==
  ASSUME UNCHANGED hash
  PROVE  /\ \A a, k, i : Passed(a, k, i)' <=> Passed(a, k, i)
         /\ \A a : Reachable(a)' <=> Reachable(a)
BY DEF Passed, Reachable, Home, Capacity, Path, Occupied
\* What the steps change of the table its user sees: nothing, but for Write.
Kept == UNCHANGED << ValueOf, answer >>

\* A search begins at home and has passed nothing.
LEMMA SearchBegins ==
  ASSUME hash \in [Key -> Nat], NEW n \in Nat \ {0}, NEW a \in Array(n), NEW k \in Key
  PROVE  /\ FindEntry(k, a) \in [key : Key, index : 0 .. Capacity(a) - 1]
         /\ FindEntry(k, a).key = k /\ FindEntry(k, a) # NoProbe
         /\ Passed(a, k, FindEntry(k, a).index)
<1>1. Capacity(a) = n /\ Home(k, n) \in 0 .. n - 1
  BY ArrayCapacity, HomeInArray
<1>2. FindEntry(k, a) = [key |-> k, index |-> Home(k, n)]
  BY <1>1 DEF FindEntry, Home
<1>3. Passed(a, k, Home(k, n))
  BY <1>1, PathOrder DEF Passed
<1> QED
  BY <1>1, <1>2, <1>3 DEF NoProbe

\* A call of the user's. An empty table is one that no key was set in.
LEMMA CallLookup ==
  ASSUME IInv, Lookup, NEW k \in Key, Get(k) \/ \E v \in Value : Set(k, v)
  PROVE  Lookup' /\ (Kept \/ Promised!Next)
<1> DEFINE n == Capacity(entries)
<1>1. /\ n \in Nat \ {0} /\ entries \in Array(n) /\ hash \in [Key -> Nat]
      /\ ~Resizing /\ ~Searching /\ call = Idle /\ UNCHANGED << hash, entries >>
  BY DEF IInv, Arrays, Calls, Lookup, Get, Set, Idle, map
<1>2. /\ (hash \in [Key -> Nat])' /\ Reachable(entries)' /\ Blank(entries)'
      /\ UNCHANGED ValueOf
  BY <1>1, SameArray DEF Lookup, ValueOf, Occupied, Blank
<1>3. /\ FindEntry(k, entries) \in [key : Key, index : 0 .. n - 1]
      /\ FindEntry(k, entries).key = k
      /\ Passed(entries, k, FindEntry(k, entries).index)
  BY <1>1, SearchBegins
<1>4. CASE Get(k) /\ count = 0
  <2>1. UNCHANGED << probe, old, call >> /\ answer' = << k, Nullptr >>
    BY <1>4 DEF Get
  <2>2. Lookup'
    BY <1>1, <1>2, <2>1 DEF Lookup, OnItsWay, Copied, Searching, Resizing
  <2>3. Occupied(entries) = {}
    <3>1. Cardinality(Occupied(entries)) = 0 /\ IsFiniteSet(Occupied(entries))
      BY <1>1, <1>4, ArrayCapacity DEF IInv, Counted
    <3> QED
      BY <3>1, FS_EmptySet
  <2>4. DOMAIN ValueOf = {}
    BY <2>3 DEF ValueOf
  <2>5. Promised!Get(k)
    BY <1>2, <2>1, <2>4 DEF Promised!Get
  <2> QED
    BY <2>2, <2>5 DEF Promised!Next
<1>5. CASE Get(k) /\ count # 0
  <2>1. /\ UNCHANGED << old, answer >> /\ call' = [op |-> "get", key |-> k]
        /\ probe' = FindEntry(k, entries)
    BY <1>5 DEF Get
  <2>2. ~Resizing'
    BY <1>1, <2>1 DEF Resizing
  <2>3. OnItsWay'
    BY <1>1, <1>3, <2>1, <2>2, SameArray DEF OnItsWay, Searched, Wanted, Capacity
  <2> QED
    BY <1>2, <2>1, <2>2, <2>3 DEF Lookup, Copied, Kept
<1>6. CASE \E v \in Value : Set(k, v)
  <2>1. PICK v \in Value : Set(k, v)
    BY <1>6
  <2>2. call' = [op |-> "set", key |-> k, value |-> v] /\ UNCHANGED answer
    BY <2>1 DEF Set
  <2>3. CASE MustGrow
    <3> DEFINE filled == Calloc(2 * n)
    <3>1. old' = [index |-> 0, filled |-> filled] /\ ~Searching'
      BY <1>1, <2>1, <2>3 DEF Set, Searching
    <3>2. Occupied(filled) = {}
      BY DEF Occupied, Calloc, Empty
    <3>3. Before(0)' = {}
      BY <1>1 DEF Before, Occupied, Array
    <3>4. Reachable(old.filled)' /\ Blank(old.filled)'
      BY <1>1, <3>1, <3>2, CallocBlank DEF Reachable, Occupied, Blank
    <3>5. Copied'
      BY <3>1, <3>2, <3>3, <3>4 DEF Copied, Occupied
    <3> QED
      BY <1>2, <2>2, <3>1, <3>5 DEF Lookup, OnItsWay, Kept
  <2>4. CASE ~MustGrow
    <3>1. probe' = FindEntry(k, entries) /\ ~Resizing'
      BY <1>1, <2>1, <2>4 DEF Set, Resizing
    <3>2. OnItsWay'
      BY <1>1, <1>3, <2>2, <3>1, SameArray DEF OnItsWay, Searched, Wanted, Capacity
    <3> QED
      BY <1>2, <2>2, <3>1, <3>2 DEF Lookup, Copied, Kept
  <2> QED
    BY <2>3, <2>4
<1> QED
  BY <1>4, <1>5, <1>6

\* A turn of the loop passes an entry that has another key.
LEMMA ProbeLookup ==
  ASSUME IInv, Lookup, (Resizing /\ Probe(old.filled)) \/ (~Resizing /\ Probe(entries))
  PROVE  Lookup' /\ Kept
<1> DEFINE n == Capacity(Searched)
<1>1. /\ Probe(Searched) /\ Searching /\ UNCHANGED << hash, entries, old, call, answer >>
      /\ hash \in [Key -> Nat]
  BY DEF Searched, Probe, map, Lookup
<1>2. Searched \in Array(n) /\ n \in Nat \ {0}
  <2>1. CASE ~Resizing
    BY <2>1 DEF Searched, IInv, Arrays
  <2>2. CASE Resizing
    <3>1. 2 * Capacity(entries) \in Nat \ {0} /\ old.filled \in Array(2 * Capacity(entries))
      BY <2>2 DEF IInv, Arrays, Growing
    <3> QED
      BY <2>2, <3>1, ArrayCapacity DEF Searched
  <2> QED
    BY <2>1, <2>2
<1>3. /\ probe \in [key : Key, index : 0 .. n - 1] /\ probe.key = Wanted
      /\ Passed(Searched, probe.key, probe.index)
  BY <1>1 DEF Lookup, OnItsWay
<1>4. /\ Searched[probe.index].key # Nullptr /\ Searched[probe.index].key # probe.key
      /\ probe' = [probe EXCEPT !.index = (probe.index + 1) % n]
  BY <1>1 DEF Probe, Found, NextIndex
<1>5. /\ (probe.index + 1) % n \in 0 .. n - 1
      /\ Passed(Searched, probe.key, (probe.index + 1) % n)
  <2>1. probe.key \in Key /\ probe.index \in 0 .. n - 1
    BY <1>3
  <2>2. Home(probe.key, n) \in 0 .. n - 1
    BY <1>1, <1>2, <2>1, HomeInArray
  <2> QED
    BY <1>2, <1>3, <1>4, <2>1, <2>2, PathToNext DEF Passed
<1>6. Searched' = Searched /\ Wanted' = Wanted /\ (Resizing' <=> Resizing)
  BY <1>1 DEF Searched, Wanted, Resizing
<1>7. OnItsWay'
  <2>1. probe'.key = probe.key /\ probe'.index = (probe.index + 1) % n
    BY <1>3, <1>4
  <2>2. probe' \in [key : Key, index : 0 .. n - 1]
    BY <1>3, <1>4, <1>5
  <2>3. Passed(Searched, probe.key, probe.index)'
    BY <1>1, <1>5, <1>6, <2>1 DEF Passed, Path, Home, Capacity
  <2> QED
    BY <1>3, <1>6, <2>1, <2>2, <2>3 DEF OnItsWay, Capacity
<1>8. Reachable(entries)' /\ Blank(entries)' /\ Copied'
  BY <1>1, <1>6, SameArray
  DEF Lookup, Copied, Reachable, Before, Occupied, Passed, Path, Home, Capacity, Resizing, Blank
<1> QED
  BY <1>1, <1>7, <1>8 DEF Lookup, Kept, ValueOf, Occupied
\* resize comes to the next entry: one without a key has nothing to be moved.
LEMMA NextEntryLookup ==
  ASSUME IInv, Lookup, NextEntry
  PROVE  Lookup' /\ Kept
<1> DEFINE n == Capacity(entries)
<1>1. /\ n \in Nat \ {0} /\ entries \in Array(n) /\ hash \in [Key -> Nat]
      /\ Resizing /\ ~Searching /\ old.index \in 0 .. n - 1
      /\ old \in [index : 0 .. n, filled : Array(2 * n)]
      /\ UNCHANGED << hash, entries, call, answer >>
  BY DEF IInv, Arrays, Growing, Lookup, NextEntry, Moved, map
<1>2. Reachable(entries)' /\ Blank(entries)' /\ Kept
  BY <1>1, SameArray DEF Lookup, Kept, ValueOf, Occupied, Blank
<1>3. CASE entries[old.index].key = Nullptr
  <2>1. old' = [old EXCEPT !.index = old.index + 1] /\ UNCHANGED probe
    BY <1>3 DEF NextEntry
  <2>2. old'.index = old.index + 1 /\ old'.filled = old.filled /\ old' # NoResize
    BY <1>1, <2>1 DEF NoResize
  <2>3. Before(old.index)' = Before(old.index)
    <3>1. old.index \in Nat /\ old.index \notin Occupied(entries)
      BY <1>1, <1>3 DEF Occupied
    <3>2. Before(old.index + 1) = Before(old.index)
      BY <3>1, MovedEntries
    <3> QED
      BY <1>1, <2>2, <3>2 DEF Before, Occupied
  <2>4. Copied'
    BY <1>1, <2>2, <2>3, SameArray DEF Lookup, Copied, Occupied, Blank
  <2> QED
    BY <1>1, <1>2, <2>1, <2>4 DEF Lookup, OnItsWay, Searching
<1>4. CASE entries[old.index].key # Nullptr
  <2> DEFINE k == entries[old.index].key
  <2>1. probe' = FindEntry(k, old.filled) /\ UNCHANGED old
    BY <1>4 DEF NextEntry
  <2>2. k \in Key /\ 2 * n \in Nat \ {0} /\ old.filled \in Array(2 * n)
    BY <1>1, <1>4 DEF Array, Entry
  <2>3. /\ FindEntry(k, old.filled) \in [key : Key, index : 0 .. Capacity(old.filled) - 1]
        /\ FindEntry(k, old.filled).key = k
        /\ Passed(old.filled, k, FindEntry(k, old.filled).index)
    BY <1>1, <2>2, SearchBegins
  <2>4. Resizing' /\ Searched' = old.filled /\ Wanted' = k
    BY <1>1, <2>1 DEF Resizing, Searched, Wanted
  <2>5. OnItsWay'
    BY <1>1, <2>1, <2>3, <2>4, SameArray DEF OnItsWay, Capacity
  <2>6. Copied'
    BY <1>1, <2>1, SameArray DEF Lookup, Copied, Before, Occupied, Resizing, Blank
  <2> QED
    BY <1>1, <1>2, <2>5, <2>6 DEF Lookup
<1> QED
  BY <1>3, <1>4

\* The entry that is moved goes where the search for its key ended; no key that
\* was moved before is overwritten, as the old array has each once.
LEMMA MoveEntryLookup ==
  ASSUME IInv, Lookup, MoveEntry
  PROVE  Lookup' /\ Kept
<1> DEFINE n == Capacity(entries)
           e == entries[old.index]
           a == old.filled
<1>1. /\ n \in Nat \ {0} /\ entries \in Array(n) /\ hash \in [Key -> Nat]
      /\ Resizing /\ Searching /\ old.index \in Occupied(entries)
      /\ old \in [index : 0 .. n, filled : Array(2 * n)]
      /\ UNCHANGED << hash, entries, call, answer >>
  BY DEF IInv, Arrays, Growing, Lookup, MoveEntry, map
<1>2. /\ e \in Entry /\ e.key \in Key /\ old.index \in 0 .. n - 1
      /\ 2 * n \in Nat \ {0} /\ a \in Array(2 * n) /\ Capacity(a) = 2 * n
  <2>1. 2 * n \in Nat \ {0} /\ a \in Array(2 * n) /\ old.index \in 0 .. n - 1
    BY <1>1 DEF Occupied, Array
  <2> QED
    BY <1>1, <2>1, ArrayCapacity DEF Occupied, Array, Entry
<1>3. /\ probe.index \in 0 .. 2 * n - 1 /\ Passed(a, e.key, probe.index)
      /\ a[probe.index].key \in {Nullptr, e.key}
      /\ Reachable(a)
  BY <1>1, <1>2 DEF Lookup, OnItsWay, Searched, Wanted, Copied, MoveEntry, Found
<1>4. /\ old' = [index |-> old.index + 1, filled |-> Written(a, probe.index, e)]
      /\ ~Searching'
  BY DEF MoveEntry, Destination, Written, Searching
<1> DEFINE b == Written(a, probe.index, e)
<1>5. /\ Reachable(b) /\ Occupied(b) = Occupied(a) \cup {probe.index} /\ b[probe.index] = e
      /\ \A j \in Occupied(a) \ {probe.index} : b[j] = a[j] /\ b[j].key # e.key
  BY <1>1, <1>2, <1>3, WriteReachable
<1>11. Blank(b)
  BY <1>1, <1>2, WriteBlank DEF Lookup, Copied
<1> HIDE DEF b
<1>6. old'.filled = b /\ old'.index = old.index + 1 /\ Resizing'
  BY <1>4 DEF b, Resizing, NoResize
<1>7. Before(old.index)' = Before(old.index) \cup {old.index}
  BY <1>1, <1>2, <1>6 DEF Before, Occupied, Array
<1>8. probe.index \notin Occupied(a)
  <2> SUFFICES ASSUME probe.index \in Occupied(a) PROVE FALSE
    OBVIOUS
  <2>1. a[probe.index].key = e.key
    BY <1>3 DEF Occupied
  <2>2. PICK i \in Before(old.index) : a[probe.index] = entries[i]
    BY <1>1 DEF Lookup, Copied
  <2>3. i \in Occupied(entries) /\ i # old.index /\ entries[i].key = entries[old.index].key
    BY <1>1, <1>2, <2>1, <2>2 DEF Before, Occupied, Array
  <2> QED
    BY <1>1, <2>3, UniqueKeys DEF Lookup
<1>9. Copied'
  <2>1. Reachable(old.filled)' /\ Blank(old.filled)'
    BY <1>1, <1>5, <1>6, <1>11, SameArray DEF Blank
  <2>2. ASSUME NEW i \in Before(old.index) \cup {old.index}
        PROVE  \E j \in Occupied(b) : b[j] = entries[i]
    <3>1. CASE i = old.index
      BY <1>5, <3>1
    <3>2. CASE i \in Before(old.index)
      <4>1. PICK j \in Occupied(a) : a[j] = entries[i]
        BY <1>1, <3>2 DEF Lookup, Copied
      <4> QED
        BY <1>5, <1>8, <4>1
    <3> QED
      BY <3>1, <3>2
  <2>3. ASSUME NEW j \in Occupied(b)
        PROVE  \E i \in Before(old.index) \cup {old.index} : b[j] = entries[i]
    <3>1. CASE j = probe.index
      BY <1>5, <3>1
    <3>2. CASE j # probe.index
      <4>1. j \in Occupied(a) /\ b[j] = a[j]
        BY <1>5, <3>2
      <4> QED
        BY <1>1, <4>1 DEF Lookup, Copied
    <3> QED
      BY <3>1, <3>2
  <2>4. Occupied(old.filled)' = Occupied(b)
    BY <1>6 DEF Occupied
  <2> QED
    BY <1>1, <1>6, <1>7, <2>1, <2>2, <2>3, <2>4 DEF Copied
<1>10. Reachable(entries)' /\ Blank(entries)' /\ Kept
  BY <1>1, SameArray DEF Lookup, Kept, ValueOf, Occupied, Blank
<1> QED
  BY <1>1, <1>4, <1>9, <1>10 DEF Lookup, OnItsWay

\* The new array has all there was, and the search for the key to be set begins in it.
LEMMA ResizedLookup ==
  ASSUME IInv, Lookup, Resized
  PROVE  Lookup' /\ Kept
<1> DEFINE n == Capacity(entries)
           a == old.filled
<1>1. /\ n \in Nat \ {0} /\ entries \in Array(n) /\ hash \in [Key -> Nat]
      /\ Resizing /\ call.key \in Key /\ old.index = n
      /\ old \in [index : 0 .. n, filled : Array(2 * n)]
      /\ entries' = a /\ ~Resizing' /\ probe' = FindEntry(call.key, a)
      /\ UNCHANGED << hash, call, answer >>
  BY DEF IInv, Arrays, Growing, Calls, Lookup, Resized, Moved, Resizing, Idle
<1>2. 2 * n \in Nat \ {0} /\ a \in Array(2 * n)
  BY <1>1
<1>3. Before(old.index) = Occupied(entries)
  BY <1>1 DEF Before, Occupied, Array
<1>4. Contents(a) = Contents(entries)
  <2>1. /\ Reachable(a) /\ Reachable(entries)
        /\ \A i \in Occupied(entries) : \E j \in Occupied(a) : a[j] = entries[i]
        /\ \A j \in Occupied(a) : \E i \in Occupied(entries) : a[j] = entries[i]
    BY <1>1, <1>3 DEF Lookup, Copied
  <2> QED
    BY <1>1, <1>2, <2>1, ContentsSame
<1>5. Kept
  <2>1. ValueOf = Contents(entries) /\ ValueOf' = Contents(a)
    BY <1>1 DEF ValueOf, Contents, Occupied
  <2> QED
    BY <1>1, <1>4, <2>1 DEF Kept
<1>6. /\ FindEntry(call.key, a) \in [key : Key, index : 0 .. Capacity(a) - 1]
      /\ FindEntry(call.key, a).key = call.key
      /\ Passed(a, call.key, FindEntry(call.key, a).index)
  BY <1>1, <1>2, SearchBegins
<1>7. OnItsWay'
  BY <1>1, <1>6, SameArray DEF OnItsWay, Searched, Wanted, Capacity
<1>8. Reachable(entries)' /\ Blank(entries)'
  BY <1>1, SameArray DEF Lookup, Copied, Blank
<1> QED
  BY <1>1, <1>5, <1>7, <1>8 DEF Lookup, Copied

\* The entry written is the only one the key may have.
LEMMA WriteLookup ==
  ASSUME IInv, Lookup, Write
  PROVE  Lookup' /\ Promised!Next
<1> DEFINE n == Capacity(entries)
           e == [key |-> call.key, value |-> call.value]
           b == Written(entries, probe.index, e)
<1>1. /\ n \in Nat \ {0} /\ entries \in Array(n) /\ hash \in [Key -> Nat]
      /\ ~Resizing /\ Searching /\ call.key \in Key /\ call.value \in Value
      /\ e \in Entry /\ e.key = call.key /\ e.value = call.value
  BY DEF IInv, Arrays, Calls, Lookup, Write, Idle, Entry
<1>2. /\ probe.index \in 0 .. n - 1 /\ Passed(entries, e.key, probe.index)
      /\ entries[probe.index].key \in {Nullptr, e.key} /\ Reachable(entries)
  BY <1>1 DEF Lookup, OnItsWay, Searched, Wanted, Write, Found
<1>3. /\ entries' = b /\ ~Searching' /\ ~Resizing' /\ answer' = << >> /\ UNCHANGED hash
  BY <1>1 DEF Write, Written, Searching, Resizing
<1> HIDE DEF e
<1>4. Reachable(b) /\ Blank(b)
  BY <1>1, <1>2, WriteReachable, WriteBlank DEF Lookup
<1>5. Contents(b) = Updated(Contents(entries), call.key, call.value)
  BY <1>1, <1>2, ContentsWritten
<1> HIDE DEF b
<1>6. Lookup'
  BY <1>1, <1>3, <1>4, SameArray DEF Lookup, OnItsWay, Copied, Blank
<1>7. ValueOf = Contents(entries) /\ ValueOf' = Contents(b)
  BY <1>3 DEF ValueOf, Contents, Occupied
<1>8. Promised!Set(call.key, call.value)
  BY <1>3, <1>5, <1>7 DEF Promised!Set, Updated
<1> QED
  BY <1>1, <1>6, <1>8 DEF Promised!Next

\* hashmap_get answers with the value the key has, or none.
LEMMA ReadLookup ==
  ASSUME IInv, Lookup, Read
  PROVE  Lookup' /\ Promised!Next
<1> DEFINE n == Capacity(entries)
<1>1. /\ n \in Nat \ {0} /\ entries \in Array(n) /\ hash \in [Key -> Nat]
      /\ ~Resizing /\ Searching /\ call.key \in Key
      /\ UNCHANGED << hash, entries, old >> /\ ~Searching'
      /\ answer' = << call.key, entries[probe.index].value >>
  BY DEF IInv, Arrays, Calls, Lookup, Read, Idle, map, Searching
<1>2. /\ probe.index \in 0 .. n - 1 /\ Passed(entries, call.key, probe.index)
      /\ entries[probe.index].key \in {Nullptr, call.key} /\ Reachable(entries)
  BY <1>1 DEF Lookup, OnItsWay, Searched, Wanted, Read, Found
<1>3. Lookup'
  BY <1>1, SameArray DEF Lookup, OnItsWay, Copied, Resizing, Blank
<1>4. ValueOf = Contents(entries) /\ UNCHANGED ValueOf
  BY <1>1 DEF ValueOf, Contents, Occupied
<1>5. /\ DOMAIN Contents(entries) = {entries[i].key : i \in Occupied(entries)}
      /\ \A i \in Occupied(entries) : Contents(entries)[entries[i].key] = entries[i].value
  BY <1>1, <1>2, ContentsOfArray
<1>6. answer' = << call.key, IF call.key \in DOMAIN ValueOf THEN ValueOf[call.key] ELSE Nullptr >>
  <2>1. CASE entries[probe.index].key = call.key
    <3>1. probe.index \in Occupied(entries)
      BY <1>1, <1>2, <2>1 DEF Occupied, Array
    <3> QED
      BY <1>1, <1>4, <1>5, <2>1, <3>1
  <2>2. CASE entries[probe.index].key = Nullptr
    <3>1. \A j \in Occupied(entries) : entries[j].key = call.key => j = probe.index
      BY <1>1, <1>2, FoundPlace
    <3>2. call.key \notin DOMAIN ValueOf
      BY <1>4, <1>5, <2>2, <3>1 DEF Occupied
    <3>3. entries[probe.index].value = Nullptr
      BY <1>1, <1>2, <2>2 DEF Lookup, Blank, Array
    <3> QED
      BY <1>1, <3>2, <3>3
  <2> QED
    BY <1>2, <2>1, <2>2
<1>7. Promised!Get(call.key)
  BY <1>4, <1>6 DEF Promised!Get
<1> QED
  BY <1>1, <1>3, <1>7 DEF Promised!Next
\* Every step keeps the invariant, and is a step of the dictionary or none.
LEMMA NextLookup ==
  IInv /\ Lookup /\ [Next]_vars => Lookup' /\ [Promised!Next]_<< ValueOf, answer >>
<1> SUFFICES ASSUME IInv, Lookup, [Next]_vars
             PROVE  Lookup' /\ (Kept \/ Promised!Next)
  BY DEF Kept
<1>1. CASE UNCHANGED vars
  <2>1. UNCHANGED << hash, entries, call, old, probe, answer >>
    BY <1>1 DEF vars, map
  <2> QED
    BY <2>1, SameArray
    DEF Lookup, OnItsWay, Copied, Blank, Kept, ValueOf, Searching, Searched, Wanted, Resizing,
        Before, Occupied, Capacity
<1>2. CASE Work
  BY <1>2, ProbeLookup, NextEntryLookup, MoveEntryLookup, ResizedLookup, WriteLookup, ReadLookup
  DEF Work
<1>3. CASE \E k \in Key : Get(k) \/ \E v \in Value : Set(k, v)
  BY <1>3, CallLookup
<1> QED
  BY <1>1, <1>2, <1>3 DEF Next

\* For any keys, hashes and initial capacity the table is a dictionary: whatever
\* collides, wraps around or is moved, a key has the value it was last given.
THEOREM TableIsDictionary == Spec => ImplementsDictionary
<1>1. Spec => [](IInv /\ Lookup)
  BY InitIInv, NextIInv, InitLookup, NextLookup, PTL DEF Spec
<1>2. Spec => Promised!Init /\ [][Promised!Next]_<< ValueOf, answer >>
  BY <1>1, InitLookup, NextLookup, PTL DEF Spec
<1> QED
  BY <1>2, PTL DEF ImplementsDictionary, Promised!Spec
=============================================================================
