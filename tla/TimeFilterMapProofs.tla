-------------------------- MODULE TimeFilterMapProofs --------------------------
(***************************************************************************)
(* The operations of a time filter map keep its two fields in agreement,   *)
(* for every set of items and every largest time.                          *)
(***************************************************************************)
EXTENDS TimeFilterMap, FiniteSetTheorems, TLAPS

(* There are finitely many times, so the times holding an item can be      *)
(* counted.                                                                *)
LEMMA HeldAtFinite ==
  ASSUME NEW m, NEW i
  PROVE  IsFiniteSet(HeldAt(m, i)) /\ Cardinality(HeldAt(m, i)) \in Nat
<1>1. IsFiniteSet(Time)
  BY FS_Interval, MaxTimeAssumption DEF Time
<1>2. HeldAt(m, i) \in SUBSET Time
  BY DEF HeldAt
<1>3. IsFiniteSet(HeldAt(m, i))
  BY <1>1, <1>2, FS_Subset
<1> QED  BY <1>3, FS_CardinalityType

(* In a consistent map, contains tells whether some time holds the item.   *)
LEMMA ContainsIffHeld ==
  ASSUME NEW Item, NEW m \in TimeFilterMaps(Item), Consistent(m), NEW i \in Item
  PROVE  ContainsItem(m, i) <=> HeldAt(m, i) # {}
<1>1. m.set[i] = Cardinality(HeldAt(m, i))
  BY DEF Consistent, TimeFilterMaps
<1>2. Cardinality(HeldAt(m, i)) = 0 <=> HeldAt(m, i) = {}
  BY HeldAtFinite, FS_EmptySet
<1> QED  BY <1>1, <1>2, HeldAtFinite DEF ContainsItem

(* TimeFilterMap::new *)
LEMMA NewMapCorrect ==
  ASSUME NEW Item
  PROVE  NewMap(Item) \in TimeFilterMaps(Item) /\ Consistent(NewMap(Item))
<1>1. NewMap(Item) \in TimeFilterMaps(Item)
  BY DEF NewMap, TimeFilterMaps
<1>2. ASSUME NEW i \in Item  PROVE NewMap(Item).set[i] = Cardinality(HeldAt(NewMap(Item), i))
  <2>1. HeldAt(NewMap(Item), i) = {}
    BY DEF HeldAt, NewMap
  <2> QED  BY <2>1, FS_EmptySet DEF NewMap
<1> QED  BY <1>1, <1>2 DEF Consistent, NewMap

(* TimeFilterMap::insert: a replaced entry is taken out of the multiset.   *)
LEMMA InsertCorrect ==
  ASSUME NEW Item, NEW m \in TimeFilterMaps(Item), NEW ts \in Time, NEW v \in Item
  PROVE  /\ Insert(m, ts, v) \in TimeFilterMaps(Item)
         /\ Consistent(m) => Consistent(Insert(m, ts, v))
<1> DEFINE n == Insert(m, ts, v)
<1>1. n \in TimeFilterMaps(Item)
  BY DEF Insert, TimeFilterMaps, RemoveN
<1>2. ASSUME Consistent(m), NEW i \in Item
      PROVE  n.set[i] = Cardinality(HeldAt(n, i))
  <2>1. m.set[i] = Cardinality(HeldAt(m, i))
    BY <1>2 DEF Consistent, TimeFilterMaps
  <2>2. HeldAt(n, i) = IF i = v THEN (HeldAt(m, i) \ {ts}) \cup {ts} ELSE HeldAt(m, i) \ {ts}
    BY DEF HeldAt, Insert, TimeFilterMaps
  <2>3. n.set[i] = RemoveN(m.set[i], IF i \in m.time_map[ts] THEN 1 ELSE 0)
                     + (IF i = v THEN 1 ELSE 0)
    BY DEF Insert, TimeFilterMaps, RemoveN
  <2>4. i \in m.time_map[ts] <=> ts \in HeldAt(m, i)
    BY DEF HeldAt
  <2>5. /\ IsFiniteSet(HeldAt(m, i) \ {ts})
        /\ Cardinality(HeldAt(m, i) \ {ts})
             = IF ts \in HeldAt(m, i) THEN Cardinality(HeldAt(m, i)) - 1
                                      ELSE Cardinality(HeldAt(m, i))
    BY HeldAtFinite, FS_RemoveElement
  <2>6. Cardinality(HeldAt(m, i) \ {ts}) \in Nat
    BY <2>5, FS_CardinalityType
  <2>7. Cardinality((HeldAt(m, i) \ {ts}) \cup {ts}) = Cardinality(HeldAt(m, i) \ {ts}) + 1
    BY <2>5, FS_AddElement
  <2>8. RemoveN(m.set[i], IF i \in m.time_map[ts] THEN 1 ELSE 0)
          = Cardinality(HeldAt(m, i) \ {ts})
    BY <2>1, <2>4, <2>5, <2>6, HeldAtFinite DEF RemoveN
  <2> QED  BY <2>2, <2>3, <2>6, <2>7, <2>8
<1> QED  BY <1>1, <1>2 DEF Consistent, TimeFilterMaps

(* TimeFilterMap::upsert of items that no time holds.                      *)
LEMMA UpsertCorrect ==
  ASSUME NEW Item, NEW m \in TimeFilterMaps(Item), NEW ts \in Time, NEW vs \in SUBSET Item
  PROVE  /\ Upsert(m, ts, vs) \in TimeFilterMaps(Item)
         /\ Consistent(m) /\ vs \cap m.time_map[ts] = {} => Consistent(Upsert(m, ts, vs))
<1> DEFINE n == Upsert(m, ts, vs)
<1>1. n \in TimeFilterMaps(Item)
  BY DEF Upsert, TimeFilterMaps
<1>2. ASSUME Consistent(m), vs \cap m.time_map[ts] = {}, NEW i \in Item
      PROVE  n.set[i] = Cardinality(HeldAt(n, i))
  <2>1. m.set[i] = Cardinality(HeldAt(m, i))
    BY <1>2 DEF Consistent, TimeFilterMaps
  <2>2. HeldAt(n, i) = IF i \in vs THEN HeldAt(m, i) \cup {ts} ELSE HeldAt(m, i)
    BY DEF HeldAt, Upsert, TimeFilterMaps
  <2>3. i \in vs => ts \notin HeldAt(m, i)
    BY <1>2 DEF HeldAt
  <2>4. i \in vs => Cardinality(HeldAt(m, i) \cup {ts}) = Cardinality(HeldAt(m, i)) + 1
    BY <2>3, HeldAtFinite, FS_AddElement
  <2> QED  BY <2>1, <2>2, <2>4 DEF Upsert, TimeFilterMaps
<1> QED  BY <1>1, <1>2 DEF Consistent, TimeFilterMaps

(* TimeFilterMap::filter: what is pruned is counted out, once per entry.   *)
LEMMA FilterCorrect ==
  ASSUME NEW Item, NEW m \in TimeFilterMaps(Item), NEW cutoff \in Nat
  PROVE  /\ Filter(m, cutoff) \in TimeFilterMaps(Item)
         /\ Consistent(m) => Consistent(Filter(m, cutoff))
<1> DEFINE n == Filter(m, cutoff)
           old(i) == {t \in HeldAt(m, i) : t < cutoff}
<1>1. ASSUME NEW i
      PROVE  /\ IsFiniteSet(old(i)) /\ Cardinality(old(i)) \in Nat
             /\ Cardinality(old(i)) <= Cardinality(HeldAt(m, i))
  <2>1. old(i) \in SUBSET HeldAt(m, i)
    OBVIOUS
  <2>2. IsFiniteSet(old(i)) /\ Cardinality(old(i)) <= Cardinality(HeldAt(m, i))
    BY <2>1, HeldAtFinite, FS_Subset
  <2> QED  BY <2>2, FS_CardinalityType
<1>2. n \in TimeFilterMaps(Item)
  <2>1. \A i \in Item : RemoveN(m.set[i], Cardinality(old(i))) \in Nat
    BY <1>1 DEF RemoveN, TimeFilterMaps
  <2> QED  BY <2>1 DEF Filter, TimeFilterMaps
<1>3. ASSUME Consistent(m), NEW i \in Item
      PROVE  n.set[i] = Cardinality(HeldAt(n, i))
  <2>1. m.set[i] = Cardinality(HeldAt(m, i))
    BY <1>3 DEF Consistent, TimeFilterMaps
  <2>2. HeldAt(n, i) = HeldAt(m, i) \ old(i)
    BY DEF HeldAt, Filter, TimeFilterMaps, Time
  <2>3. n.set[i] = RemoveN(m.set[i], Cardinality(old(i)))
    BY DEF Filter, TimeFilterMaps
  <2>4. HeldAt(m, i) \cap old(i) = old(i)
    OBVIOUS
  <2>5. Cardinality(HeldAt(m, i) \ old(i)) = Cardinality(HeldAt(m, i)) - Cardinality(old(i))
    BY <2>4, HeldAtFinite, FS_Difference
  <2> QED  BY <1>1, <2>1, <2>2, <2>3, <2>5, HeldAtFinite DEF RemoveN
<1> QED  BY <1>2, <1>3 DEF Consistent, TimeFilterMaps
=============================================================================
