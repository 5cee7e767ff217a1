------------------------------ MODULE HashMap ------------------------------
(***************************************************************************)
(* The table of names of base/hashmap.c: open addressing in an array       *)
(* whose capacity doubles. Every scope, the linked symbols, the labels of  *)
(* a function and the names of its parameters are kept in one. A step      *)
(* looks at one entry of the array; nothing is ever removed.               *)
(***************************************************************************)
EXTENDS Integers, FiniteSets

CONSTANTS
    Key, Value,
    Nullptr,          \* no key, no value
    InitialCapacity,  \* HASHMAP_INITIAL_CAPACITY, 16 in the code
    Hashes            \* what hash_string may be: functions from keys to numbers

ASSUME HashMapAssumption ==
    /\ Nullptr \notin Key /\ Nullptr \notin Value
    /\ InitialCapacity \in Nat \ {0}
    /\ Hashes \subseteq [Key -> Nat]

VARIABLES
    hash,             \* hash_string
    entries,          \* map->entries
    count,            \* map->count
    call,             \* the running call of the map's user
    old,              \* the index of the next entry resize moves, and the array it fills
    probe,            \* the search for a key: which, and the index it has come to
    answer            \* what the last call returned, and of which key

map == << hash, entries, count >>
vars == << hash, entries, count, call, old, probe, answer >>

Capacity(a) == Cardinality(DOMAIN a)
Empty == [key |-> Nullptr, value |-> Nullptr]
Calloc(n) == [i \in 0 .. n - 1 |-> Empty]

Idle == [op |-> "none"]
NoProbe == [key |-> Nullptr]
NoResize == [index |-> -1]

Init == /\ hash \in Hashes
        /\ entries = Calloc(InitialCapacity) /\ count = 0
        /\ call = Idle /\ old = NoResize /\ probe = NoProbe /\ answer = << >>

-----------------------------------------------------------------------------
\* The index a search in array a starts at.
FindEntry(k, a) == [key |-> k, index |-> hash[k] % Capacity(a)]

\* The search is over: an entry with no key, or with this one.
Found(a) == a[probe.index].key \in {Nullptr, probe.key}

\* Mutant: the search stops at the end of the array.
NextIndex_Clamped(a) ==
    IF probe.index + 1 = Capacity(a) THEN probe.index ELSE probe.index + 1

\* The entry after the last is the first.
NextIndex(a) == (probe.index + 1) % Capacity(a)

Searching == probe # NoProbe

\* One turn of find_entry's loop.
Probe(a) ==
    /\ Searching /\ ~Found(a)
    /\ probe' = [probe EXCEPT !.index = NextIndex(a)]
    /\ UNCHANGED << map, call, old, answer >>

-----------------------------------------------------------------------------
\* Mutant: the table grows when it is full.
MustGrow_Full == count >= Capacity(entries)

MustGrow == (count + 1) * 4 >= Capacity(entries) * 3

\* hashmap_set is called.
Set(k, v) ==
    /\ call = Idle
    /\ call' = [op |-> "set", key |-> k, value |-> v]
    /\ IF MustGrow
       THEN old' = [index |-> 0, filled |-> Calloc(2 * Capacity(entries))] /\ UNCHANGED probe
       ELSE probe' = FindEntry(k, entries) /\ UNCHANGED old
    /\ UNCHANGED << map, answer >>

\* hashmap_get is called; an empty table is not searched.
Get(k) ==
    /\ call = Idle
    /\ IF count = 0
       THEN answer' = << k, Nullptr >> /\ UNCHANGED << call, probe >>
       ELSE /\ call' = [op |-> "get", key |-> k]
            /\ probe' = FindEntry(k, entries)
            /\ UNCHANGED answer
    /\ UNCHANGED << map, old >>

Resizing == old # NoResize
Moved == old.index = Capacity(entries)

\* resize looks at the next entry of the old array.
NextEntry ==
    /\ Resizing /\ ~Searching /\ ~Moved
    /\ IF entries[old.index].key = Nullptr
       THEN old' = [old EXCEPT !.index = @ + 1] /\ UNCHANGED probe
       ELSE probe' = FindEntry(entries[old.index].key, old.filled) /\ UNCHANGED old
    /\ UNCHANGED << map, call, answer >>

\* Mutant: an entry keeps its index.
Destination_SameIndex == old.index

\* Where an entry of the old array goes in the new one.
Destination == probe.index

\* resize copies an entry.
MoveEntry ==
    /\ Resizing /\ Searching /\ Found(old.filled)
    /\ old' = [index |-> old.index + 1,
               filled |-> [old.filled EXCEPT ![Destination] = entries[old.index]]]
    /\ probe' = NoProbe
    /\ UNCHANGED << map, call, answer >>

\* resize ends, and hashmap_set goes on in the new array.
Resized ==
    /\ Resizing /\ ~Searching /\ Moved
    /\ entries' = old.filled
    /\ old' = NoResize
    /\ probe' = FindEntry(call.key, old.filled)
    /\ UNCHANGED << hash, count, call, answer >>

\* hashmap_set has found the entry to write.
Write ==
    /\ call.op = "set" /\ ~Resizing /\ Searching /\ Found(entries)
    /\ entries' = [entries EXCEPT ![probe.index] = [key |-> call.key, value |-> call.value]]
    /\ count' = IF entries[probe.index].key = Nullptr THEN count + 1 ELSE count
    /\ call' = Idle /\ probe' = NoProbe /\ answer' = << >>
    /\ UNCHANGED << hash, old >>

\* hashmap_get has found the key or learnt that it is not there.
Read ==
    /\ call.op = "get" /\ Searching /\ Found(entries)
    /\ answer' = << call.key, entries[probe.index].value >>
    /\ call' = Idle /\ probe' = NoProbe
    /\ UNCHANGED << map, old >>

\* What the map does of itself once it was called.
Work == \/ (Resizing /\ Probe(old.filled)) \/ (~Resizing /\ Probe(entries))
        \/ NextEntry \/ MoveEntry \/ Resized \/ Write \/ Read

Next == \/ \E k \in Key : Get(k) \/ \E v \in Value : Set(k, v)
        \/ Work

Spec == Init /\ [][Next]_vars /\ WF_vars(Work)

-----------------------------------------------------------------------------
Occupied(a) == {i \in DOMAIN a : a[i].key # Nullptr}

\* The table is never full: a search for a key that is not there, also in the
\* array being filled, comes to an entry that has none. The limit is checked
\* before an insertion, and by hashmap_set only.
RoomLeft == /\ Occupied(entries) # DOMAIN entries
            /\ Resizing => Occupied(old.filled) # DOMAIN old.filled

\* Every call returns, whatever the hashes: no search goes round for ever.
CallsReturn == call # Idle ~> call = Idle

ValueOf == [k \in {entries[i].key : i \in Occupied(entries)} |->
               entries[CHOOSE i \in Occupied(entries) : entries[i].key = k].value]

Promised == INSTANCE Dictionary WITH value <- ValueOf

\* Whatever the keys' hashes and wherever the search has to wrap around, and
\* across any growth, a key has the value it was last given.
ImplementsDictionary == Promised!Spec
=============================================================================
