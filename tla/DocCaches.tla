------------------------------ MODULE DocCaches ------------------------------
(***************************************************************************)
(* The cache of the documents one search has read (DocCache in             *)
(* src/src/search/runtime.rs): a map, and a queue of its keys from the     *)
(* least to the most recently used one.                                    *)
(***************************************************************************)
EXTENDS Integers, Sequences, FiniteSets

NewCache(requested) ==
  [capacity |-> IF requested < 1 THEN 1 ELSE requested,
   order |-> <<>>, entries |-> <<>>]

Cached(cache, key) == key \in DOMAIN cache.entries

\* The queue lists exactly the keys of the map, each once, and is not too long.
Agrees(cache) ==
  /\ \A i, j \in 1..Len(cache.order) : cache.order[i] = cache.order[j] => i = j
  /\ {cache.order[i] : i \in 1..Len(cache.order)} = DOMAIN cache.entries
  /\ Len(cache.order) <= cache.capacity

\* Mutant: the key of a hit is put last and stays where it was, too.
TouchTwice(cache, key) == [cache EXCEPT !.order = Append(@, key)]

\* The key leaves its place in the queue, if it has one, for the last one.
Touch(cache, key) ==
  LET order == cache.order
      place == CHOOSE i \in 1..Len(order) : order[i] = key
  IN [cache EXCEPT !.order =
        IF \E i \in 1..Len(order) : order[i] = key
        THEN [i \in 1..Len(order) |->
                CASE i = Len(order) -> key
                  [] i # Len(order) /\ i < place -> order[i]
                  [] OTHER -> order[i + 1]]
        ELSE Append(order, key)]

Full(cache) ==
  Cardinality(DOMAIN cache.entries) >= cache.capacity /\ cache.order # <<>>

\* The keys that give way to a new one.
Evicts(cache) == IF Full(cache) THEN {Head(cache.order)} ELSE {}

Insert(cache, key, value) ==
  LET kept == DOMAIN cache.entries \ Evicts(cache) IN
  [cache EXCEPT
     !.order = Append(IF Full(cache) THEN Tail(@) ELSE @, key),
     !.entries = [k \in kept \cup {key} |-> IF k = key THEN value ELSE @[k]]]
=============================================================================
