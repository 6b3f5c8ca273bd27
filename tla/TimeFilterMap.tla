---------------------------- MODULE TimeFilterMap ----------------------------
(***************************************************************************)
(* The time-indexed set that the ledger uses wherever it must remember     *)
(* something for a limited time: intent hashes (replay protection) and     *)
(* Merkle tree roots (Zswap and Dust).  storage/src/storage.rs.            *)
(*                                                                         *)
(* A map is a record with the two fields of the Rust struct:               *)
(*   time_map  for every timestamp the items stored there ({}: no entry),  *)
(*   set       the multiset of the items, as the count of every item.      *)
(* `contains` is answered from `set` alone, so the two fields must agree.  *)
(***************************************************************************)
EXTENDS Naturals, FiniteSets

CONSTANT MaxTime    \* Timestamp::MAX, u64::MAX in the code

ASSUME MaxTimeAssumption == MaxTime \in Nat

Time == 0 .. MaxTime

(* Timestamp + Duration and Timestamp - Duration saturate, for durations   *)
(* that are not negative and fit into 64 bits (the code casts to u64).     *)
TimePlus(t, d) == IF t + d > MaxTime THEN MaxTime ELSE t + d

TimeMinus(t, d) == IF d > t THEN 0 ELSE t - d

TimeFilterMaps(Item) == [time_map : [Time -> SUBSET Item], set : [Item -> Nat]]

NewMap(Item) == [time_map |-> [t \in Time |-> {}], set |-> [i \in Item |-> 0]]

(* MultiSet::remove_n: the count is decremented and stops at zero. *)
RemoveN(count, n) == IF n > count THEN 0 ELSE count - n

(* The timestamps at which an item is stored. *)
HeldAt(m, i) == {t \in Time : i \in m.time_map[t]}

(* Mutant of Insert: the items of the old entry stay counted. *)
InsertKeepsOld(m, ts, v) ==
  [time_map |-> [m.time_map EXCEPT ![ts] = {v}], set |-> [m.set EXCEPT ![v] = @ + 1]]

(* insert replaces the entry at ts: every item of the old entry is taken   *)
(* out of the multiset, then the new item is counted.                      *)
Insert(m, ts, v) ==
  LET removed == [i \in DOMAIN m.set |->
                    RemoveN(m.set[i], IF i \in m.time_map[ts] THEN 1 ELSE 0)]
  IN  [time_map |-> [m.time_map EXCEPT ![ts] = {v}],
       set      |-> [removed EXCEPT ![v] = @ + 1]]

(* upsert appends the items vs to the entry at ts; the multiset counts     *)
(* each of them, whether or not the entry already held it.                 *)
Upsert(m, ts, vs) ==
  [time_map |-> [m.time_map EXCEPT ![ts] = @ \cup vs],
   set      |-> [i \in DOMAIN m.set |->
                   IF i \in vs THEN m.set[i] + 1 ELSE m.set[i]]]

UpsertOne(m, ts, v) == Upsert(m, ts, {v})

ContainsItem(m, v) == m.set[v] > 0

(* Mutant of Filter: the count is taken with <= instead of <. *)
FilterMiscounts(m, cutoff) ==
  [time_map |-> [t \in Time |-> IF t < cutoff THEN {} ELSE m.time_map[t]],
   set      |-> [i \in DOMAIN m.set |->
                   RemoveN(m.set[i], Cardinality({t \in HeldAt(m, i) : t <= cutoff}))]]

(* filter prunes the entries before the cutoff and takes each of their     *)
(* items out of the multiset, once per pruned entry.                       *)
Filter(m, cutoff) ==
  [time_map |-> [t \in Time |-> IF t < cutoff THEN {} ELSE m.time_map[t]],
   set      |-> [i \in DOMAIN m.set |->
                   RemoveN(m.set[i],
                           Cardinality({t \in HeldAt(m, i) : t < cutoff}))]]

(* The two fields agree: an item is counted once per timestamp holding it. *)
Consistent(m) == \A i \in DOMAIN m.set : m.set[i] = Cardinality(HeldAt(m, i))
=============================================================================
