----------------------------- MODULE HashTable ------------------------------
(***************************************************************************)
(* libhash: the hash table that holds headers, parameters, routes and       *)
(* sub-routers, and the hash set that holds the known header names.  Both   *)
(* are arrays of prime length, searched by double hashing and resized by    *)
(* their load; they differ in what they do at the end of a probe sequence.  *)
(*                                                                         *)
(* A key is two numbers, the values of its hash polynomials.  h_hash sums   *)
(* signed chars, its powers overflow for long keys, and C's % keeps the     *)
(* sign: a key with bytes above 127, or a long one in a large table, may     *)
(* have a negative hash (NegA, NegB).  An attempt that looks in front of    *)
(* the array is undefined: it ends the model (wild).                         *)
(* `content' is what the calls so far promise; the server itself never       *)
(* deletes a key.                                                           *)
(***************************************************************************)
EXTENDS Integers, FiniteSets

CONSTANTS
  Keys,
  HashA, HashB,     \* the polynomial of a key with either prime
  NegA, NegB,       \* <<key, capacity>>: h_hash is negative, if it is not 0
  Values,
  DefaultCapacity,  \* H_DEFAULT_CAPACITY: 50
  SetCapacities,    \* what programs pass to hs_init: 3 and 39
  MaxBase,          \* bound on the base capacity
  MaxDeletes,       \* bound on the calls of ht_delete and hs_delete
  EMPTY,            \* the null pointer in a slot
  SENTINEL          \* HT_RECORD_SENTINEL

ASSUME HashAssumption == HashA \in [Keys -> Nat] /\ HashB \in [Keys -> Nat]

\* A table of a base capacity below 4 could become full, and a set of the base
\* capacity 1 would not grow: 2 is the next prime of both 1 and 2.
ASSUME CapacityAssumption ==
  DefaultCapacity \in 4..MaxBase /\ SetCapacities \subseteq (0..MaxBase) \ {1}
ASSUME DeletesAssumption == MaxBase \in Nat /\ MaxDeletes \in Nat

Record(k, v) == [key |-> k, value |-> v]

ASSUME SlotsAssumption ==
  /\ EMPTY # SENTINEL /\ EMPTY \notin Values \cup {"present"}
  /\ \A k \in Keys, v \in Values \cup {"present"} : Record(k, v) \notin {EMPTY, SENTINEL}

is_prime(x) == x > 1 /\ \A d \in 2 .. x - 1 : x % d # 0

\* Bertrand's postulate, for the capacities in question.
ASSUME PrimesAssumption ==
  \A x \in 2..MaxBase : \E p \in x .. 2 * x - 1 : is_prime(p)

VARIABLES
  kind,     \* "table" or "set"
  tab,      \* base_capacity, capacity, count and the slots, and whether a
            \* call has looked in front of them (wild)
  content,  \* the value each key should have, EMPTY for none
  deletes,  \* the calls of ht_delete or hs_delete so far
  looping   \* a call of ht_insert or hs_insert that never returns

hashVars == <<kind, tab, content, deletes, looping>>

Free(slot) == slot \in {EMPTY, SENTINEL}

-----------------------------------------------------------------------------
(* prime.c and hash.c *)

next_prime(x) == CHOOSE p \in x .. 2 * x :
                   is_prime(p) /\ \A q \in x .. p - 1 : ~is_prime(q)

h_hash(k, polynomial, negative, capacity) ==
  LET m == polynomial[k] % capacity
  IN  IF m # 0 /\ <<k, capacity>> \in negative THEN m - capacity ELSE m

\* The remainder has the sign of the dividend.
Remainder(n, capacity) ==
  LET m == n % capacity
  IN  IF n < 0 /\ m # 0 THEN m - capacity ELSE m

\* Mutant: a zero step stays zero.
ResolveZeroStep(k, capacity, attempt) ==
  Remainder(h_hash(k, HashA, NegA, capacity)
              + attempt * h_hash(k, HashB, NegB, capacity), capacity)

h_resolve_hash(k, capacity, attempt) ==
  LET a == h_hash(k, HashA, NegA, capacity)
      b == h_hash(k, HashB, NegB, capacity)
  IN  Remainder(a + attempt * (IF b = 0 THEN 1 ELSE b), capacity)

-----------------------------------------------------------------------------
(* Tables and sets *)

\* ht_init and hs_init
New(base) ==
  LET b == IF base = 0 THEN DefaultCapacity ELSE base
      c == next_prime(b)
  IN  [base |-> b, cap |-> c, count |-> 0,
       slots |-> [i \in 0 .. c - 1 |-> EMPTY], wild |-> FALSE]

HashInit ==
  /\ kind \in {"table", "set"}
  /\ tab \in {New(b) : b \in IF kind = "table" THEN {0} ELSE SetCapacities}
  /\ content = [k \in Keys |-> EMPTY]
  /\ deletes = 0 /\ looping = FALSE

\* The attempt looks in front of the array.
Outside(s, k, attempt) == h_resolve_hash(k, s.cap, attempt) < 0

Slot(s, k, attempt) == s.slots[h_resolve_hash(k, s.cap, attempt)]

Holds(slot, k) == ~Free(slot) /\ slot.key = k

\* The attempts at which the loops over the slots may stop: outside, at the key,
\* NULL or the sentinel.  After cap attempts the sequence starts again.
Stops(s, k) ==
  {i \in 0 .. s.cap - 1 : Outside(s, k, i) \/ Free(Slot(s, k, i)) \/ Holds(Slot(s, k, i), k)}

FirstStop(s, k) == LET stops == Stops(s, k)
                   IN  CHOOSE i \in stops : \A j \in stops : i <= j

\* The loops leave the array before anything stops them in it.
Leaves(s, k) == Stops(s, k) # {} /\ Outside(s, k, FirstStop(s, k))

\* Mutant: a replaced record is counted again.
PlaceCounting(s, k, v) ==
  LET at == h_resolve_hash(k, s.cap, FirstStop(s, k))
  IN  IF Leaves(s, k) THEN [s EXCEPT !.wild = TRUE]
      ELSE [s EXCEPT !.slots[at] = Record(k, v), !.count = @ + 1]

\* The end of an insertion: a table replaces the record of the key, a set
\* leaves the key it has.
Place(s, k, v) ==
  LET at == h_resolve_hash(k, s.cap, FirstStop(s, k))
  IN  IF Leaves(s, k) THEN [s EXCEPT !.wild = TRUE]
      ELSE IF Free(s.slots[at])
      THEN [s EXCEPT !.slots[at] = Record(k, v), !.count = @ + 1]
      ELSE IF kind = "table" THEN [s EXCEPT !.slots[at] = Record(k, v)]
      ELSE s

\* Mutant: the records are copied to the slots they had.
CopySlots(s, base) ==
  LET n == New(base)
  IN  [n EXCEPT !.count = s.count,
                !.slots = [i \in DOMAIN n.slots |->
                             IF i < s.cap THEN s.slots[i] ELSE EMPTY]]

\* ht_resize: the records are inserted into a new table in the order of their
\* slots; moved[i] is the new table after the first i slots.  It is never so
\* full that it would be resized itself.
Resize(s, base) ==
  LET moved[i \in 0 .. s.cap] ==
        IF i = 0 THEN New(base)
        ELSE IF Free(s.slots[i - 1]) THEN moved[i - 1]
        ELSE Place(moved[i - 1], s.slots[i - 1].key, s.slots[i - 1].value)
  IN  moved[s.cap]

load(s) == (s.count * 100) \div s.cap

Grown(s)  == IF load(s) > 70 THEN Resize(s, s.base * 2) ELSE s
Shrunk(s) == IF load(s) < 10 THEN Resize(s, s.base \div 2) ELSE s

InsertKey(k, v) ==
  /\ ~looping /\ ~tab.wild /\ (load(tab) > 70 => 2 * tab.base <= MaxBase)
  /\ LET s == Grown(tab)
     IN  IF Stops(s, k) = {} THEN looping' = TRUE /\ tab' = s
         ELSE looping' = FALSE /\ tab' = Place(s, k, v)
  /\ UNCHANGED <<kind, deletes>>

ht_insert(k, v) ==
  /\ kind = "table" /\ InsertKey(k, v)
  /\ content' = [content EXCEPT ![k] = v]

hs_insert(k) ==
  /\ kind = "set" /\ InsertKey(k, "present")
  /\ content' = [content EXCEPT ![k] = "present"]

\* The record of the key, if the loop stops at it.
Found(s, k) == Stops(s, k) # {} /\ ~Leaves(s, k) /\ Holds(Slot(s, k, FirstStop(s, k)), k)

\* A deletion leaves `mark' in the slot; it may loop like a search.
DeleteKey(k, mark) ==
  /\ ~looping /\ ~tab.wild /\ deletes < MaxDeletes
  /\ deletes' = deletes + 1
  /\ LET s  == Shrunk(tab)
         at == h_resolve_hash(k, s.cap, FirstStop(s, k))
     IN  /\ looping' = (Stops(s, k) = {})
         /\ tab' = IF Leaves(s, k) THEN [s EXCEPT !.wild = TRUE]
                   ELSE IF Found(s, k)
                   THEN [s EXCEPT !.slots[at] = mark, !.count = @ - 1] ELSE s
  /\ content' = [content EXCEPT ![k] = EMPTY]
  /\ UNCHANGED kind

ht_delete(k) == kind = "table" /\ DeleteKey(k, SENTINEL)
hs_delete(k) == kind = "set" /\ DeleteKey(k, EMPTY)

\* ht_search: the value found, NULL, "loops" if nothing stops the loop, or
\* "undefined" if it leaves the array.
ht_search(k) ==
  IF Stops(tab, k) = {} THEN "loops" ELSE IF Leaves(tab, k) THEN "undefined"
  ELSE IF Found(tab, k) THEN Slot(tab, k, FirstStop(tab, k)).value ELSE EMPTY

\* Mutant: the search gives up one attempt too early.
ContainsBreaksEarly(k) ==
  \E i \in 0 .. tab.count - 2 : /\ \A j \in 0..i : ~Outside(tab, k, j)
                                /\ Holds(Slot(tab, k, i), k)
                                /\ \A j \in 0 .. i - 1 : Slot(tab, k, j) # EMPTY

\* hs_contains: at most as many attempts as there are keys, so that a full set
\* can be searched.  The attempts are those inside the array.
hs_contains(k) ==
  \E i \in 0 .. tab.count - 1 : /\ \A j \in 0..i : ~Outside(tab, k, j)
                                /\ Holds(Slot(tab, k, i), k)
                                /\ \A j \in 0 .. i - 1 : Slot(tab, k, j) # EMPTY

HashEnded == (looping \/ tab.wild) /\ UNCHANGED hashVars

HashNext ==
  \/ \E k \in Keys, v \in Values : ht_insert(k, v)
  \/ \E k \in Keys : hs_insert(k) \/ ht_delete(k) \/ hs_delete(k)
  \/ HashEnded

HashSpec == HashInit /\ [][HashNext]_hashVars

-----------------------------------------------------------------------------

\* As long as nothing is deleted a table is the map its insertions describe,
\* through every collision, replacement and resize: what was inserted last for
\* a key is found, and nothing else.  Nothing is said once a call has left the
\* array, nor of the keys with which a search leaves it: their hash is negative.
TableIsMap ==
  kind = "table" /\ deletes = 0 /\ ~tab.wild =>
    \A k \in Keys : ~Leaves(tab, k) => ht_search(k) = content[k]

\* Likewise hs_contains finds exactly the keys inserted, in a set that is full
\* too: it never stops before the attempt at which a key was placed.
SetIsSet ==
  kind = "set" /\ deletes = 0 /\ ~tab.wild =>
    \A k \in Keys : ~Leaves(tab, k) => (hs_contains(k) <=> content[k] # EMPTY)

\* The count from which the load is computed is the number of records, whatever
\* is inserted, replaced, deleted or moved by a resize.
CountIsOccupied ==
  ~tab.wild => tab.count = Cardinality({i \in DOMAIN tab.slots : ~Free(tab.slots[i])})

\* No insertion runs through its probe sequence for ever, and a table keeps a
\* NULL slot for searches of absent keys to stop at.
CallsReturn ==
  deletes = 0 /\ ~tab.wild =>
    /\ ~looping
    /\ kind = "table" => \E i \in DOMAIN tab.slots : tab.slots[i] = EMPTY
=============================================================================
