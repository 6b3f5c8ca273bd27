------------------------------ MODULE LedgerTypes ------------------------------
(***************************************************************************)
(* The type invariant of the ledger, for all values of the constants, and  *)
(* the types of the operators it is built from.                            *)
(***************************************************************************)
EXTENDS Ledger, TimeFilterMapProofs, WellFoundedInduction

(* A set of natural numbers that is not empty has a least element: the     *)
(* loops over segments visit a segment that is still to do.                *)
LEMMA MinIsElement ==
  ASSUME NEW S \in SUBSET Nat, S # {}
  PROVE  Min(S) \in S
<1> DEFINE Less == {p \in Nat \X Nat : p[1] < p[2]}
<1>1. OpToRel(<, Nat) = Less
  BY Zenon DEF OpToRel
<1>2. IsWellFoundedOn(Less, Nat)
  <2> HIDE DEF Less
  <2> QED BY <1>1, NatLessThanWellFounded, Zenon
<1>3. PICK n \in S : \A m \in S : ~ (<<m, n>> \in Less)
  <2> HIDE DEF Less
  <2> QED BY <1>2, WFMin, Zenon
<1>4. \A m \in S : ~ (m < n)
  <2> TAKE m \in S
  <2>1. <<m, n>> \in Nat \X Nat /\ <<m, n>>[1] = m /\ <<m, n>>[2] = n
    OBVIOUS
  <2> QED  BY <1>3, <2>1
<1>5. n \in S /\ \A m \in S : n <= m
  BY <1>4
<1> QED  BY <1>5, Zenon DEF Min

-----------------------------------------------------------------------------
(* Saturating times stay times.                                            *)
LEMMA TimePlusType ==
  ASSUME NEW t \in Time, NEW d \in Nat
  PROVE  TimePlus(t, d) \in Time /\ TimePlus(t, d) >= t
BY MaxTimeAssumption DEF TimePlus, Time

(* A part of at most N in N of a value, computed from the quotient and the *)
(* remainder of the value, is at most the value.                           *)
LEMMA Euclid ==
  ASSUME NEW N \in Nat, N > 0, NEW v \in Nat, NEW q \in Nat, NEW r \in Nat,
         q = v \div N, r = v % N
  PROVE  v = q * N + r
OBVIOUS

LEMMA ProductBound ==
  ASSUME NEW N \in Nat, NEW x \in Nat, NEW p \in 0 .. N
  PROVE  x * p \in Nat /\ x * p <= x * N
OBVIOUS

LEMMA QuotientBound ==
  ASSUME NEW N \in Nat, N > 0, NEW y \in Nat, NEW x \in Nat, y <= x * N
  PROVE  (y \div N) \in Nat /\ (y \div N) <= x
<1>1. (y \div N) \in Nat
  OBVIOUS
<1> QED  BY <1>1

LEMMA PartBound ==
  ASSUME NEW N \in Nat, N > 0, NEW p \in 0 .. N, NEW v \in Nat
  PROVE  (v \div N) * p + ((v % N) * p) \div N \in 0 .. v
<1>1. (v \div N) \in Nat /\ (v % N) \in Nat
  OBVIOUS
<1>2. PICK q \in Nat, r \in Nat : q = v \div N /\ r = v % N
  BY <1>1
<1>3. v = q * N + r
  BY <1>2, Euclid
<1>4. q * p \in Nat /\ q * p <= q * N
  BY ProductBound
<1>5. r * p \in Nat /\ r * p <= r * N
  BY ProductBound
<1>6. ((r * p) \div N) \in Nat /\ ((r * p) \div N) <= r
  BY <1>5, QuotientBound
<1> DEFINE a == q * p
           b == (r * p) \div N
           c == q * N
<1>7. a \in Nat /\ b \in Nat /\ c \in Nat /\ a <= c /\ b <= r /\ v = c + r
  BY <1>3, <1>4, <1>6
<1>8. (v \div N) * p + ((v % N) * p) \div N = a + b
  BY <1>2
<1>9. a + b \in 0 .. v
  <2> HIDE DEF a, b, c
  <2> QED  BY <1>7
<1> QED  BY <1>8, <1>9, Zenon

(* basis_points_of is at most the value: the bridge fee can be deducted.   *)
LEMMA BasisPointsBound ==
  ASSUME NEW points \in Nat, points <= BasisPoints, NEW val \in Nat
  PROVE  BasisPointsOf(points, val) \in 0 .. val
<1>1. BasisPoints \in Nat /\ BasisPoints > 0
  BY DEF BasisPoints
<1>2. points \in 0 .. BasisPoints
  BY <1>1
<1> QED  BY <1>1, <1>2, PartBound DEF BasisPointsOf

(* The sum of the two parts is the share of the whole value, rounded down: *)
(* the quotient contributes no fraction, so nothing is lost by splitting.  *)
LEMMA QuotientRest ==
  ASSUME NEW N \in Nat, N > 0, NEW y \in Nat
  PROVE  /\ (y \div N) \in Nat
         /\ (y \div N) * N <= y /\ y < (y \div N) * N + N
OBVIOUS

LEMMA Distributes ==
  ASSUME NEW a \in Nat, NEW b \in Nat, NEW c \in Nat
  PROVE  (a + b) * c = a * c + b * c /\ (a * b) * c = (a * c) * b
OBVIOUS

LEMMA PartIsTheShare ==
  ASSUME NEW N \in Nat, N > 0, NEW p \in Nat, NEW v \in Nat, NEW part \in Nat,
         part = (v \div N) * p + ((v % N) * p) \div N
  PROVE  part * N <= p * v /\ p * v < (part + 1) * N
<1>1. (v \div N) \in Nat /\ (v % N) \in Nat
  OBVIOUS
<1>2. PICK q \in Nat, r \in Nat : q = v \div N /\ r = v % N
  BY <1>1
<1>3. v = q * N + r
  BY <1>2, Euclid
<1> DEFINE y == r * p
           b == y \div N
           w == q * p
           u == w * N
           z == b * N
<1>4. y \in Nat /\ w \in Nat /\ q * N \in Nat /\ u \in Nat
  OBVIOUS
<1>5. b \in Nat /\ z <= y /\ y < z + N
  BY <1>4, QuotientRest
<1>6. z \in Nat
  BY <1>5
<1>7. part = w + b
  BY <1>2
<1>8. p * v = u + y
  <2>1. v * p = (q * N) * p + r * p
    BY <1>3, <1>4, Distributes
  <2>2. (q * N) * p = (q * p) * N
    BY Distributes
  <2> QED  BY <2>1, <2>2
<1>9. part * N = u + z /\ (part + 1) * N = u + z + N
  <2>1. (w + b) * N = w * N + b * N
    BY <1>4, <1>5, Distributes
  <2>2. (part + 1) * N = part * N + 1 * N
    BY Distributes
  <2> QED  BY <1>7, <2>1, <2>2
<1> HIDE DEF y, u, z, w, b
<1> QED  BY <1>4, <1>5, <1>6, <1>8, <1>9

LEMMA BasisPointsShare ==
  ASSUME NEW points \in Nat, points <= BasisPoints, NEW val \in Nat
  PROVE  FeeIsItsShare(points, BasisPointsOf(points, val), val)
<1> DEFINE N == BasisPoints
           part == BasisPointsOf(points, val)
<1>1. N \in Nat /\ N > 0
  BY DEF BasisPoints
<1>2. part \in Nat
  BY BasisPointsBound
<1>3. part = (val \div N) * points + ((val % N) * points) \div N
  BY DEF BasisPointsOf
<1> HIDE DEF N, part
<1>4. part * N <= points * val /\ points * val < (part + 1) * N
  BY <1>1, <1>2, <1>3, PartIsTheShare
<1> QED  BY <1>4 DEF N, part, FeeIsItsShare

(* A sequence mapped element by element is a sequence.                     *)
LEMMA MapType ==
  ASSUME NEW S, NEW T, NEW s \in Seq(S), NEW f \in [DOMAIN s -> T]
  PROVE  f \in Seq(T)
<1>1. Len(s) \in Nat /\ f \in [1 .. Len(s) -> T]
  OBVIOUS
<1> QED  BY <1>1

LEMMA ConcatType ==
  ASSUME NEW S, NEW s \in Seq(S), NEW t \in Seq(S)
  PROVE  s \o t \in Seq(S) /\ Len(s \o t) = Len(s) + Len(t)
OBVIOUS

LEMMA RangeOfSeq ==
  ASSUME NEW S, NEW s \in Seq(S)
  PROVE  Range(s) \subseteq S
BY DEF Range

(* The nullifiers and the commitments of a shielded offer.                 *)
LEMMA OfferPartsType ==
  ASSUME NEW o \in ZswapOffer
  PROVE  OfferNullifiers(o) \in Seq(Nul) /\ OfferComs(o) \in Seq(Com)
<1>1. /\ o.inputs \in Seq(ZswapInput) /\ o.outputs \in Seq(Com)
      /\ o.transient \in Seq(Transient)
  BY DEF ZswapOffer
<1>2. [k \in DOMAIN o.inputs |-> o.inputs[k].nullifier] \in Seq(Nul)
  <2>1. \A k \in DOMAIN o.inputs : o.inputs[k] \in ZswapInput
    BY <1>1
  <2>2. [k \in DOMAIN o.inputs |-> o.inputs[k].nullifier] \in [DOMAIN o.inputs -> Nul]
    BY <2>1 DEF ZswapInput
  <2> QED  BY <1>1, <2>2, MapType
<1>3. [k \in DOMAIN o.transient |-> o.transient[k].nullifier] \in Seq(Nul)
  <2>1. \A k \in DOMAIN o.transient : o.transient[k] \in Transient
    BY <1>1
  <2>2. [k \in DOMAIN o.transient |-> o.transient[k].nullifier] \in [DOMAIN o.transient -> Nul]
    BY <2>1 DEF Transient
  <2> QED  BY <1>1, <2>2, MapType
<1>4. [k \in DOMAIN o.transient |-> o.transient[k].coin_com] \in Seq(Com)
  <2>1. \A k \in DOMAIN o.transient : o.transient[k] \in Transient
    BY <1>1
  <2>2. [k \in DOMAIN o.transient |-> o.transient[k].coin_com] \in [DOMAIN o.transient -> Com]
    BY <2>1 DEF Transient
  <2> QED  BY <1>1, <2>2, MapType
<1> QED  BY <1>1, <1>2, <1>3, <1>4, ConcatType DEF OfferNullifiers, OfferComs

(* ZswapState: new, try_apply and post_block_update.                       *)
LEMMA NewZswapType == NewZswap \in ZswapStates
<1>1. NewMap(Root) \in TimeFilterMaps(Root)
  BY NewMapCorrect
<1>2. <<>> \in Seq(Com) /\ Len(<<>>) <= TreeSize
  BY TreeSizeAssumption
<1> QED  BY <1>1, <1>2 DEF NewZswap, ZswapStates

LEMMA ZswapOfferType ==
  ASSUME NEW z \in ZswapStates, NEW o \in ZswapOffer, OfferOk(z, o)
  PROVE  ApplyZswapOffer(z, o) \in ZswapStates
<1>1. /\ OfferNullifiers(o) \in Seq(Nul) /\ OfferComs(o) \in Seq(Com)
      /\ z.coin_coms \in Seq(Com)
  BY OfferPartsType DEF ZswapStates
<1>2. Range(OfferNullifiers(o)) \subseteq Nul /\ Range(OfferComs(o)) \subseteq Com
  BY <1>1, RangeOfSeq
<1>3. /\ z.coin_coms \o OfferComs(o) \in Seq(Com)
      /\ Len(z.coin_coms \o OfferComs(o)) <= TreeSize
  BY <1>1, ConcatType DEF OfferOk
<1> QED  BY <1>2, <1>3, Zenon DEF ApplyZswapOffer, ZswapStates

LEMMA ZswapPostBlockCorrect ==
  ASSUME NEW z \in ZswapStates, NEW t \in Time, NEW retention \in Nat
  PROVE  /\ ZswapPostBlock(z, t, retention) \in ZswapStates
         /\ Consistent(z.past_roots) => Consistent(ZswapPostBlock(z, t, retention).past_roots)
<1> DEFINE m == Insert(z.past_roots, t, Len(z.coin_coms))
           n == Filter(m, TimeMinus(t, retention))
<1>1. z.past_roots \in TimeFilterMaps(Root) /\ Len(z.coin_coms) \in Root
  BY TreeSizeAssumption DEF ZswapStates, Root
<1>2. TimeMinus(t, retention) \in Nat
  BY MaxTimeAssumption DEF TimeMinus, Time
<1>3. m \in TimeFilterMaps(Root) /\ (Consistent(z.past_roots) => Consistent(m))
  BY <1>1, InsertCorrect
<1>4. n \in TimeFilterMaps(Root) /\ (Consistent(m) => Consistent(n))
  <2> HIDE DEF m
  <2> QED  BY <1>2, <1>3, FilterCorrect
<1>5. ZswapPostBlock(z, t, retention) = [z EXCEPT !.past_roots = n]
  BY DEF ZswapPostBlock
<1> HIDE DEF n, m
<1> QED  BY <1>3, <1>4, <1>5 DEF ZswapStates

-----------------------------------------------------------------------------
(* The intents of a transaction in the replay protection.                  *)
LEMMA ApplyIntentsCorrect ==
  ASSUME NEW m \in TimeFilterMaps(Intent \cup Instruction), NEW f, IsPartial(f, Segment, Intent)
  PROVE  /\ ApplyIntents(m, f, IntentTtl) \in TimeFilterMaps(Intent \cup Instruction)
         /\ Consistent(m) /\ (\A i \in Range(f) : i \notin m.time_map[Body[i].ttl])
              => Consistent(ApplyIntents(m, f, IntentTtl))
<1> DEFINE n == ApplyIntents(m, f, IntentTtl)
           new == Range(f)
<1>1. new \subseteq Intent
  BY DEF Range, IsPartial
<1>2. \A i \in Intent : IntentTtl[i] = Body[i].ttl /\ Body[i].ttl \in Time
  BY LedgerAssumption DEF IntentTtl, IsIntentBody
<1> HIDE DEF new
<1>3. n.time_map = [t \in Time |-> m.time_map[t] \cup {i \in new : IntentTtl[i] = t}]
  BY DEF ApplyIntents, new
<1>4. n.set = [i \in Intent \cup Instruction |-> IF i \in new THEN m.set[i] + 1 ELSE m.set[i]]
  BY DEF ApplyIntents, new, TimeFilterMaps
<1>5. n = [time_map |-> n.time_map, set |-> n.set]
  BY DEF ApplyIntents
<1>6. n.time_map \in [Time -> SUBSET (Intent \cup Instruction)]
  BY <1>1, <1>3 DEF TimeFilterMaps
<1>7. n.set \in [Intent \cup Instruction -> Nat]
  BY <1>4 DEF TimeFilterMaps
<1> HIDE DEF n
<1>8. n \in TimeFilterMaps(Intent \cup Instruction)
  BY <1>5, <1>6, <1>7 DEF TimeFilterMaps
<1>9. ASSUME Consistent(m), \A i \in new : i \notin m.time_map[Body[i].ttl],
             NEW i \in Intent \cup Instruction
      PROVE  n.set[i] = Cardinality(HeldAt(n, i))
  <2>1. m.set[i] = Cardinality(HeldAt(m, i))
    BY <1>9 DEF Consistent, TimeFilterMaps
  <2>2. i \notin new => HeldAt(n, i) = HeldAt(m, i)
    BY <1>3 DEF HeldAt
  <2>3. i \in new => HeldAt(n, i) = HeldAt(m, i) \cup {Body[i].ttl}
    BY <1>1, <1>2, <1>3 DEF HeldAt
  <2>4. i \in new => Body[i].ttl \notin HeldAt(m, i)
    BY <1>9 DEF HeldAt
  <2>5. i \in new =>
          Cardinality(HeldAt(m, i) \cup {Body[i].ttl}) = Cardinality(HeldAt(m, i)) + 1
    BY <2>4, HeldAtFinite, FS_AddElement, Zenon
  <2> QED  BY <1>4, <2>1, <2>2, <2>3, <2>5
<1>10. Consistent(m) /\ (\A i \in new : i \notin m.time_map[Body[i].ttl]) => Consistent(n)
  BY <1>7, <1>9 DEF Consistent
<1> QED  BY <1>8, <1>10 DEF n, new

-----------------------------------------------------------------------------
(* The Dust state.                                                         *)
LEMMA NewDustType == NewDust \in DustStates(NightNonce)
BY DEF NewDust, DustStates

(* What a function takes on a finite set is a finite set.                  *)
LEMMA FiniteImage ==
  ASSUME NEW f, IsFiniteSet(DOMAIN f)
  PROVE  IsFiniteSet({f[x] : x \in DOMAIN f})
<1> DEFINE S == DOMAIN f
           T == {f[x] : x \in S}
           g == [x \in S |-> f[x]]
<1>1. g \in [S -> T] /\ \A t \in T : \E x \in S : g[x] = t
  OBVIOUS
<1> HIDE DEF S, T, g
<1>2. g \in Surjection(S, T)
  BY <1>1, Zenon DEF Surjection
<1>3. IsFiniteSet(S)
  BY DEF S
<1>4. IsFiniteSet(T)
  BY <1>2, <1>3, FS_Surjection, Zenon
<1> QED  BY <1>4 DEF S, T

LEMMA FreshIndexType ==
  ASSUME NEW d \in DustStates(NightNonce), NEW infos, IsFiniteSet(infos), NEW g \in infos
  PROVE  FreshIndex(d, infos, g) \in Nat
<1> DEFINE before == {h \in infos \ {g} : h.nonce.output_no < g.nonce.output_no}
<1>1. before \in SUBSET infos
  OBVIOUS
<1> HIDE DEF before
<1>2. Cardinality(before) \in Nat
  BY <1>1, FS_Subset, FS_CardinalityType, Zenon
<1>3. d.generating_tree_first_free \in Nat
  BY DEF DustStates
<1>4. FreshIndex(d, infos, g) = d.generating_tree_first_free + Cardinality(before)
  BY Zenon DEF FreshIndex, before
<1> QED  BY <1>2, <1>3, <1>4

LEMMA FreshDustType ==
  ASSUME NEW d \in DustStates(NightNonce), NEW infos \in SUBSET GenerationInfo(NightNonce),
         IsFiniteSet(infos)
  PROVE  FreshDust(d, infos) \in DustStates(NightNonce)
<1>1. MaxTime \in Time
  BY MaxTimeAssumption DEF Time
<1>2. \A g \in infos : FreshIndex(d, infos, g) \in Nat /\ g.nonce \in NightNonce
  BY FreshIndexType DEF GenerationInfo
<1>3. FreshLeaves(d, infos)
        \subseteq [index : Nat, info : GenerationInfo(NightNonce), dtime : Time]
  BY <1>1, <1>2 DEF FreshLeaves
<1>4. FreshEntries(d, infos) \subseteq [nonce : NightNonce, index : Nat]
  BY <1>2 DEF FreshEntries
<1>5. d.generating_tree_first_free + Cardinality(infos) \in Nat
  <2>1. Cardinality(infos) \in Nat
    BY FS_CardinalityType, Zenon
  <2> QED  BY <2>1 DEF DustStates
<1>6. {x \in d.night_indices : \A g \in infos : g.nonce # x.nonce} \cup FreshEntries(d, infos)
        \subseteq [nonce : NightNonce, index : Nat]
  BY <1>4 DEF DustStates
<1> QED  BY <1>3, <1>5, <1>6, Zenon DEF FreshDust, DustStates

LEMMA MarkSpentType ==
  ASSUME NEW d \in DustStates(NightNonce), NEW nonces, NEW time \in Time
  PROVE  MarkSpent(d, nonces, time) \in DustStates(NightNonce)
<1> DEFINE L  == [index : Nat, info : GenerationInfo(NightNonce), dtime : Time]
           at == {x.index : x \in {y \in d.night_indices : y.nonce \in nonces}}
           t  == {IF l.index \in at THEN [l EXCEPT !.dtime = time] ELSE l : l \in d.generating_tree}
<1>1. MarkSpent(d, nonces, time) = [d EXCEPT !.generating_tree = t]
  BY DEF MarkSpent
<1> HIDE DEF at
<1>2. \A l \in d.generating_tree :
        (IF l.index \in at THEN [l EXCEPT !.dtime = time] ELSE l) \in L
  BY DEF DustStates
<1>3. t \subseteq L
  BY <1>2, Zenon
<1> HIDE DEF t
<1> QED  BY <1>1, <1>3 DEF DustStates

LEMMA NightInfosType ==
  ASSUME NEW created \in SUBSET Utxo, IsFiniteSet(created), NEW who, NEW delegation,
         \A a \in who : delegation[a] \in DustKey
  PROVE  /\ NightInfos(created, who, delegation) \subseteq GenerationInfo(NightNonce)
         /\ IsFiniteSet(NightInfos(created, who, delegation))
<1>1. \A u \in created : InitialNonce(u) \in NightNonce /\ u.value \in Nat
  BY DEF InitialNonce, NightNonce, Utxo
<1>2. NightInfos(created, who, delegation) \subseteq GenerationInfo(NightNonce)
  BY <1>1 DEF NightInfos, GenerationInfo
<1> DEFINE from == {v \in created : v.type_ = NIGHT /\ v.owner \in who}
           f    == [u \in from |-> [value |-> u.value, owner |-> delegation[u.owner],
                                    nonce |-> InitialNonce(u)]]
<1>3. IsFiniteSet(from)
  <2>1. from \in SUBSET created
    OBVIOUS
  <2> HIDE DEF from
  <2> QED  BY <2>1, FS_Subset, Zenon
<1>4. NightInfos(created, who, delegation) = {f[u] : u \in DOMAIN f} /\ DOMAIN f = from
  BY DEF NightInfos
<1> HIDE DEF f, from
<1> QED  BY <1>2, <1>3, <1>4, FiniteImage

LEMMA CreatedType ==
  ASSUME NEW i \in Intent, NEW s \in Segment \cup {0}
  PROVE  /\ Created(i, s) \subseteq Utxo /\ OfferOf(i, s) \in UnshieldedOffer
         /\ IsFiniteSet(Created(i, s))
<1>1. OfferOf(i, s) \in UnshieldedOffer
  BY LedgerAssumption DEF OfferOf, IsIntentBody
<1>2. OfferOf(i, s).outputs \in Seq(UtxoOutput)
  BY <1>1 DEF UnshieldedOffer
<1>3. [intent |-> i, segment |-> s] \in IntentHash
  BY DEF IntentHash, SectionHash
<1>4. \A k \in DOMAIN OfferOf(i, s).outputs :
        OfferOf(i, s).outputs[k] \in UtxoOutput /\ k - 1 \in Nat
  BY <1>2
<1>5. Created(i, s) \subseteq Utxo
  BY <1>3, <1>4 DEF Created, Utxo, UtxoOutput
<1> DEFINE o == OfferOf(i, s).outputs
           f == [k \in DOMAIN o |->
                   [value |-> o[k].value, owner |-> o[k].owner, type_ |-> o[k].type_,
                    intent_hash |-> [intent |-> i, segment |-> s], output_no |-> k - 1]]
<1>6. DOMAIN o = 1 .. Len(o) /\ Len(o) \in Nat
  BY <1>2
<1>7. IsFiniteSet(DOMAIN o)
  <2> HIDE DEF o
  <2>1. IsFiniteSet(1 .. Len(o))
    BY <1>6, FS_Interval
  <2> QED  BY <1>6, <2>1, Zenon
<1>8. Created(i, s) = {f[k] : k \in DOMAIN f} /\ DOMAIN f = DOMAIN o
  BY DEF Created
<1> HIDE DEF f, o
<1>9. IsFiniteSet(Created(i, s))
  BY <1>7, <1>8, FiniteImage
<1> QED  BY <1>1, <1>5, <1>9

LEMMA DustOfferType ==
  ASSUME NEW d \in DustStates(NightNonce), NEW inputs, NEW created \in SUBSET Utxo,
         IsFiniteSet(created), NEW registrations, NEW segment, NEW t \in Time
  PROVE  DustApplyOffer(d, inputs, created, registrations, segment, t) \in DustStates(NightNonce)
<1>1. OfferSpent(d, inputs, t) \in DustStates(NightNonce)
  BY MarkSpentType DEF OfferSpent
<1>2. \A a \in {b \in Address : d.address_delegation[b] # NoKey} :
        d.address_delegation[a] \in DustKey
  BY DEF DustStates
<1>3. /\ OfferInfos(d, created, registrations, segment) \subseteq GenerationInfo(NightNonce)
      /\ IsFiniteSet(OfferInfos(d, created, registrations, segment))
  BY <1>2, NightInfosType DEF OfferInfos
<1> QED  BY <1>1, <1>3, FreshDustType DEF DustApplyOffer

LEMMA RegistrationsType ==
  ASSUME NEW d \in DustStates(NightNonce), NEW created \in SUBSET Utxo,
         IsFiniteSet(created), NEW r, IsPartial(r, Address, DustKey \cup {NoKey})
  PROVE  ApplyRegistrations(d, created, r) \in DustStates(NightNonce)
<1> DEFINE dd == [a \in Address |-> IF a \in DOMAIN r THEN r[a] ELSE d.address_delegation[a]]
           e  == [d EXCEPT !.address_delegation = dd]
<1>1. dd \in [Address -> DustKey \cup {NoKey}]
  BY DEF IsPartial, DustStates
<1>2. e \in DustStates(NightNonce)
  <2> HIDE DEF dd
  <2> QED  BY <1>1 DEF DustStates
<1>3. \A a \in {b \in DOMAIN r : r[b] # NoKey} : r[a] \in DustKey
  BY DEF IsPartial
<1>4. /\ RegistrationInfos(created, r) \subseteq GenerationInfo(NightNonce)
      /\ IsFiniteSet(RegistrationInfos(created, r))
  BY <1>3, NightInfosType DEF RegistrationInfos
<1>5. FreshDust(e, RegistrationInfos(created, r)) \in DustStates(NightNonce)
  BY <1>2, <1>4, FreshDustType
<1> QED  BY <1>5 DEF ApplyRegistrations

LEMMA CNightType ==
  ASSUME NEW d \in DustStates(NightNonce), NEW e \in CNightEvent
  PROVE  ApplyCNight(d, e) \in DustStates(NightNonce)
<1>1. CNightInfo(e) \in GenerationInfo(NightNonce) /\ e.time \in Time
  BY DEF CNightInfo, CNightEvent, GenerationInfo, NightNonce
<1>2. IsFiniteSet({CNightInfo(e)})
  BY FS_Singleton, Zenon
<1> QED  BY <1>1, <1>2, FreshDustType, MarkSpentType DEF ApplyCNight

-----------------------------------------------------------------------------
(* Contracts: an action that succeeds leaves contract states behind.       *)
LEMMA OptionType ==
  ASSUME NEW S, NEW o \in Option(S), o # <<>>
  PROVE  o[1] \in S
<1>1. o \in Seq(S) /\ Len(o) >= 1
  BY DEF Option
<1> QED  BY <1>1

LEMMA SomeType ==
  ASSUME NEW S, NEW x \in S
  PROVE  <<x>> \in Option(S)
BY DEF Option

LEMMA TranscriptType ==
  ASSUME NEW c \in ContractStates, NEW t \in Transcript, TranscriptOk(c, t)
  PROVE  RunTranscript(c, t) \in ContractStates
<1> DEFINE b == [tt \in TokenType |-> c.balance[tt] + t.unshielded_inputs[tt]
                                                    - t.unshielded_outputs[tt]]
<1>1. \A tt \in TokenType : /\ c.balance[tt] \in Nat /\ t.unshielded_inputs[tt] \in Nat
                            /\ t.unshielded_outputs[tt] \in Nat
  BY DEF ContractStates, Transcript, Amounts
<1>2. b \in Amounts
  BY <1>1 DEF TranscriptOk, Amounts
<1>3. t.post \in Data
  BY DEF Transcript
<1>4. RunTranscript(c, t) = [c EXCEPT !.data = t.post, !.balance = b]
  BY DEF RunTranscript
<1> HIDE DEF b
<1> QED  BY <1>2, <1>3, <1>4, Zenon DEF ContractStates

LEMMA UpdateType ==
  ASSUME NEW c \in ContractStates, NEW u \in SingleUpdate
  PROVE  ApplyUpdate(c, u) \in ContractStates
<1>1. CASE u \in [type : {"ReplaceAuthority"}, counter : 0 .. MaxCounter]
  BY <1>1 DEF ApplyUpdate, ContractStates
<1>2. CASE u \in [type : {"VerifierKeyRemove", "VerifierKeyInsert", "IrRemove", "IrInsert"},
                  ep : EntryPoint]
  <2>1. <<u.ep, "vk">> \in EntryPoint \X Part /\ <<u.ep, "ir">> \in EntryPoint \X Part
    BY <1>2 DEF Part
  <2>2. \A x \in EntryPoint \X Part :
          /\ [c EXCEPT !.operations = @ \ {x}] \in ContractStates
          /\ [c EXCEPT !.operations = @ \cup {x}] \in ContractStates
    BY DEF ContractStates
  <2>3. u.type \in {"VerifierKeyRemove", "VerifierKeyInsert", "IrRemove", "IrInsert"}
    BY <1>2
  <2> QED  BY <2>1, <2>2, <2>3, Zenon DEF ApplyUpdate
<1> QED  BY <1>1, <1>2 DEF SingleUpdate

(* The four kinds of actions and what their fields are.                    *)
LEMMA ActionFields ==
  ASSUME NEW a \in Action
  PROVE  /\ a.address \in Contract
         /\ a.type \in {"Call", "Deploy", "Maintain", "Updates"}
         /\ a.type = "Call" => /\ a.guaranteed_transcript \in Option(Transcript)
                               /\ a.fallible_transcript \in Option(Transcript)
         /\ a.type = "Deploy" => a.initial_state \in ContractStates
         /\ a.type \in {"Maintain", "Updates"} =>
              a.updates \in Seq(SingleUpdate) /\ a.fits \in BOOLEAN
BY DEF Action

LEMMA ActionType ==
  ASSUME NEW contract \in Contracts, NEW a \in Action, NEW g \in BOOLEAN,
         ActionOk(contract, a, g)
  PROVE  ApplyAction(contract, a, g) \in Contracts
<1> DEFINE old == contract[a.address]
           new == AfterAction(old, a, g)
<1>1. a.address \in Contract /\ old \in Option(ContractStates)
  BY ActionFields DEF Contracts
<1>2. ASSUME ~ (a.type # "Call" /\ g)
      PROVE  new \in Option(ContractStates)
  <2>1. CASE a.type = "Call"
    <3> DEFINE t == CallTranscript(a, g)
    <3>1. t \in Option(Transcript)
      BY <2>1, ActionFields DEF CallTranscript
    <3>2. old # <<>> /\ (t # <<>> => TranscriptOk(old[1], t[1]))
      BY <2>1 DEF ActionOk
    <3>3. CASE t = <<>>
      <4>1. new = old
        BY <2>1, <3>3 DEF AfterAction
      <4> QED  BY <4>1, <1>1
    <3>4. CASE t # <<>>
      <4>1. t[1] \in Transcript /\ old[1] \in ContractStates
        BY <1>1, <3>1, <3>2, <3>4, OptionType
      <4>2. new = <<RunTranscript(old[1], t[1])>>
        BY <2>1, <3>4 DEF AfterAction
      <4>3. RunTranscript(old[1], t[1]) \in ContractStates
        BY <3>2, <3>4, <4>1, TranscriptType
      <4> QED  BY <4>2, <4>3, SomeType
    <3> QED  BY <3>3, <3>4
  <2>2. CASE a.type = "Deploy"
    BY <2>2, ActionFields, SomeType DEF AfterAction
  <2>3. CASE a.type = "Maintain"
    <3>1. old[1] \in ContractStates
      BY <1>1, <1>2, <2>3, OptionType DEF ActionOk
    <3>2. [old[1] EXCEPT !.counter = IncrementCounter(@)] \in ContractStates
      BY <3>1, MaxCounterAssumption DEF ContractStates, IncrementCounter
    <3>3. new = <<[old[1] EXCEPT !.counter = IncrementCounter(@)]>>
      BY <2>3 DEF AfterAction
    <3> QED  BY <3>2, <3>3, SomeType
  <2>4. CASE a.type = "Updates"
    <3>1. old[1] \in ContractStates
      BY <1>1, <1>2, <2>4, OptionType DEF ActionOk
    <3>2. CASE a.updates = <<>>
      <4>1. new = old
        BY <2>4, <3>2 DEF AfterAction
      <4> QED  BY <4>1, <1>1
    <3>3. CASE a.updates # <<>>
      <4>1. a.updates \in Seq(SingleUpdate)
        BY <2>4, ActionFields
      <4>2. a.updates[1] \in SingleUpdate
        BY <3>3, <4>1
      <4>3. new = <<ApplyUpdate(old[1], a.updates[1])>>
        BY <2>4, <3>3 DEF AfterAction
      <4> QED  BY <3>1, <4>2, <4>3, UpdateType, SomeType
    <3> QED  BY <3>2, <3>3
  <2> QED  BY <2>1, <2>2, <2>3, <2>4, ActionFields
<1>3. ApplyAction(contract, a, g) =
        IF a.type # "Call" /\ g THEN contract ELSE [contract EXCEPT ![a.address] = new]
  BY DEF ApplyAction
<1> HIDE DEF new
<1> QED  BY <1>1, <1>2, <1>3 DEF Contracts

LEMMA RestOfActionType ==
  ASSUME NEW a \in Action, NEW g \in BOOLEAN
  PROVE  RestOfAction(a, g) \in Seq(Action)
<1>1. CASE g \/ a.type \in {"Call", "Deploy"} \/ (a.type = "Updates" /\ a.updates = <<>>)
  BY <1>1 DEF RestOfAction
<1>2. CASE ~ (g \/ a.type \in {"Call", "Deploy"} \/ (a.type = "Updates" /\ a.updates = <<>>))
  <2> DEFINE rest == IF a.type = "Maintain" THEN a.updates ELSE Tail(a.updates)
  <2>1. a.type \in {"Maintain", "Updates"} /\ (a.type = "Updates" => a.updates # <<>>)
    BY <1>2, ActionFields
  <2>2. a.address \in Contract /\ a.fits \in BOOLEAN /\ a.updates \in Seq(SingleUpdate)
    BY <2>1, ActionFields
  <2>3. rest \in Seq(SingleUpdate)
    BY <2>1, <2>2
  <2>4. RestOfAction(a, g) = <<[type |-> "Updates", address |-> a.address, fits |-> a.fits,
                                updates |-> rest]>>
    BY <1>2, Zenon DEF RestOfAction
  <2> HIDE DEF rest
  <2>5. [type |-> "Updates", address |-> a.address, fits |-> a.fits, updates |-> rest] \in Action
    BY <2>2, <2>3 DEF Action
  <2> QED  BY <2>4, <2>5
<1> QED  BY <1>1, <1>2

-----------------------------------------------------------------------------
(* The operations on the state of the ledger.                              *)
LEMMA GenesisType ==
  ASSUME NEW g \in Genesis
  PROVE  GenesisState(g) \in LedgerStates
<1>1. /\ g.parameters \in Parameters /\ g.locked_pool \in Nat
      /\ g.reserve_pool \in Nat /\ g.treasury \in Nat
  BY LedgerAssumption
<1>2. /\ NewZswap \in ZswapStates /\ NewDust \in DustStates(NightNonce)
      /\ NewMap(Intent \cup Instruction) \in TimeFilterMaps(Intent \cup Instruction)
  BY NewZswapType, NewDustType, NewMapCorrect
<1>3. [c \in Contract |-> <<>>] \in Contracts
  BY DEF Contracts, Option
<1>4. [tt \in TokenType |-> 0] \in Amounts
  BY DEF Amounts
<1> QED  BY <1>1, <1>2, <1>3, <1>4 DEF GenesisState, LedgerStates

LEMMA UnshieldedType ==
  ASSUME NEW l \in LedgerStates, NEW i \in Intent, NEW s \in Segment \cup {0}, tblock \in Time
  PROVE  /\ ApplyUnshielded(l, i, s) \in LedgerStates
         /\ ApplyUnshielded(l, i, s).utxos = (l.utxos \ OfferOf(i, s).inputs) \cup Created(i, s)
         /\ ApplyUnshielded(l, i, s).spent = l.spent \cup OfferOf(i, s).inputs
         /\ ApplyUnshielded(l, i, s).applied = CountApplied(l.applied, i, s)
         /\ ApplyUnshielded(l, i, s).replay_protection = l.replay_protection
         /\ ApplyUnshielded(l, i, s).zswap = l.zswap
<1> DEFINE o == OfferOf(i, s)
           c == Created(i, s)
           d == DustApplyOffer(l.dust, o.inputs, c, Body[i].registrations, s, tblock)
           a == CountApplied(l.applied, i, s)
           u == (l.utxos \ o.inputs) \cup c
           p == l.spent \cup o.inputs
<1>1. c \subseteq Utxo /\ IsFiniteSet(c) /\ o.inputs \subseteq Utxo
  BY CreatedType DEF UnshieldedOffer
<1>2. d \in DustStates(NightNonce)
  BY <1>1, DustOfferType DEF LedgerStates
<1>3. [intent |-> i, segment |-> s] \in SectionHash
  BY DEF SectionHash
<1>4. a \in [SectionHash -> Nat]
  <2>1. l.applied \in [SectionHash -> Nat]
    BY DEF LedgerStates
  <2> QED  BY <1>3, <2>1 DEF CountApplied
<1>5. u \in SUBSET Utxo /\ p \in SUBSET Utxo
  BY <1>1 DEF LedgerStates
<1>6. ApplyUnshielded(l, i, s) = [l EXCEPT !.utxos = u, !.dust = d, !.applied = a, !.spent = p]
  BY DEF ApplyUnshielded
<1> HIDE DEF u, d, a, p
<1>7. /\ ApplyUnshielded(l, i, s) \in LedgerStates
      /\ ApplyUnshielded(l, i, s).utxos = u
      /\ ApplyUnshielded(l, i, s).spent = p
      /\ ApplyUnshielded(l, i, s).applied = a
      /\ ApplyUnshielded(l, i, s).replay_protection = l.replay_protection
      /\ ApplyUnshielded(l, i, s).zswap = l.zswap
  BY <1>2, <1>4, <1>5, <1>6, Zenon DEF LedgerStates
<1> QED  BY <1>7 DEF u, a, p

LEMMA RemembersType ==
  ASSUME NEW m \in TimeFilterMaps(Intent \cup Instruction), NEW c \in Instruction,
         NEW p \in Parameters, tblock \in Time
  PROVE  UpsertOne(m, TimePlus(tblock, p.global_ttl), c) \in TimeFilterMaps(Intent \cup Instruction)
<1>1. p.global_ttl \in Nat
  BY LedgerAssumption DEF LedgerParameters
<1>2. TimePlus(tblock, p.global_ttl) \in Time
  BY <1>1, TimePlusType
<1>3. {c} \in SUBSET (Intent \cup Instruction)
  OBVIOUS
<1> QED  BY <1>2, <1>3, UpsertCorrect DEF UpsertOne

LEMMA ClaimType ==
  ASSUME NEW l \in LedgerStates, NEW kind \in ClaimKind, NEW c \in Instruction, tblock \in Time,
         c.amount <= Claimable(l, kind)[c.target_address]
  PROVE  /\ AfterClaim(l, kind, c) \in LedgerStates
         /\ AfterClaim(l, kind, c).utxos = l.utxos \cup {ClaimUtxo(c)}
         /\ AfterClaim(l, kind, c).replay_protection
              = UpsertOne(l.replay_protection, TimePlus(tblock, l.parameters.global_ttl), c)
         /\ AfterClaim(l, kind, c).applied = l.applied
         /\ AfterClaim(l, kind, c).spent = l.spent
         /\ AfterClaim(l, kind, c).zswap = l.zswap
<1> DEFINE a == c.target_address
           r == UpsertOne(l.replay_protection, TimePlus(tblock, l.parameters.global_ttl), c)
           d == FreshDust(l.dust, ClaimInfos(l, c))
           u == l.utxos \cup {ClaimUtxo(c)}
           m == [l EXCEPT !.utxos = u, !.replay_protection = r, !.dust = d]
<1>1. a \in Address /\ c.amount \in Nat /\ c \in IntentHash
  BY LedgerAssumption DEF Instruction, IntentHash
<1>2. ClaimUtxo(c) \in Utxo
  BY <1>1, LedgerAssumption, Zenon DEF ClaimUtxo, Utxo
<1>3. l.parameters \in Parameters
  BY DEF LedgerStates
<1>4. r \in TimeFilterMaps(Intent \cup Instruction)
  BY <1>3, RemembersType, Zenon DEF LedgerStates
<1>5. d \in DustStates(NightNonce)
  <2> DEFINE who == {b \in Address : l.dust.address_delegation[b] # NoKey}
  <2>1. l.dust \in DustStates(NightNonce)
    BY DEF LedgerStates
  <2>2. \A b \in who : l.dust.address_delegation[b] \in DustKey
    BY <2>1 DEF DustStates
  <2>3. ClaimInfos(l, c) \subseteq GenerationInfo(NightNonce) /\ IsFiniteSet(ClaimInfos(l, c))
    <3>1. IsFiniteSet({ClaimUtxo(c)})
      BY FS_Singleton, Zenon
    <3> QED  BY <1>2, <2>2, <3>1, NightInfosType DEF ClaimInfos
  <2> QED  BY <2>1, <2>3, FreshDustType
<1>6. u \in SUBSET Utxo
  BY <1>2 DEF LedgerStates
<1>7. AfterClaim(l, kind, c) = IF kind = "Reward"
        THEN [m EXCEPT !.unclaimed_block_rewards[a] = @ - c.amount]
        ELSE [m EXCEPT !.bridge_receiving[a] = @ - c.amount]
  BY DEF AfterClaim
<1> HIDE DEF r, d, u
<1>8. /\ m \in LedgerStates /\ m.utxos = u /\ m.replay_protection = r
      /\ m.applied = l.applied /\ m.spent = l.spent /\ m.zswap = l.zswap
      /\ m.unclaimed_block_rewards = l.unclaimed_block_rewards
      /\ m.bridge_receiving = l.bridge_receiving
  BY <1>4, <1>5, <1>6, Zenon DEF LedgerStates
<1> HIDE DEF m, a
<1>9. /\ m.unclaimed_block_rewards \in [Address -> Nat] /\ m.bridge_receiving \in [Address -> Nat]
  BY <1>8 DEF LedgerStates
<1>10. CASE kind = "Reward"
  <2> DEFINE f == [m.unclaimed_block_rewards EXCEPT ![a] = @ - c.amount]
  <2>1. c.amount <= m.unclaimed_block_rewards[a]
    BY <1>8, <1>10 DEF Claimable, a
  <2>2. f \in [Address -> Nat]
    BY <1>1, <1>9, <2>1
  <2>3. AfterClaim(l, kind, c) = [m EXCEPT !.unclaimed_block_rewards = f]
    BY <1>7, <1>10
  <2> HIDE DEF f
  <2>4. AfterClaim(l, kind, c) \in LedgerStates
    BY <1>8, <2>2, <2>3 DEF LedgerStates
  <2> QED  BY <1>8, <2>3, <2>4 DEF LedgerStates, u, r
<1>11. CASE kind = "CardanoBridge"
  <2> DEFINE f == [m.bridge_receiving EXCEPT ![a] = @ - c.amount]
  <2>1. c.amount <= m.bridge_receiving[a]
    BY <1>8, <1>11 DEF Claimable, a
  <2>2. f \in [Address -> Nat]
    BY <1>1, <1>9, <2>1
  <2>3. AfterClaim(l, kind, c) = [m EXCEPT !.bridge_receiving = f]
    BY <1>7, <1>11
  <2> HIDE DEF f
  <2>4. AfterClaim(l, kind, c) \in LedgerStates
    BY <1>8, <2>2, <2>3 DEF LedgerStates
  <2> QED  BY <1>8, <2>3, <2>4 DEF LedgerStates, u, r
<1> QED  BY <1>10, <1>11 DEF ClaimKind

(* The parts of the state that replay protection is about.                 *)
SameHistory(l, m) ==
  /\ m.utxos = l.utxos /\ m.spent = l.spent /\ m.applied = l.applied
  /\ m.replay_protection = l.replay_protection

LEMMA OutputType ==
  ASSUME NEW l \in LedgerStates, NEW kind \in ClaimKind, NEW o \in Instruction, tblock \in Time,
         kind = "CardanoBridge" => BridgeFeeOk(l.parameters, o.amount)
  PROVE  /\ AfterOutput(l, kind, o) \in LedgerStates
         /\ AfterOutput(l, kind, o).replay_protection
              = UpsertOne(l.replay_protection, TimePlus(tblock, l.parameters.global_ttl), o)
         /\ AfterOutput(l, kind, o).utxos = l.utxos
         /\ AfterOutput(l, kind, o).applied = l.applied
         /\ AfterOutput(l, kind, o).spent = l.spent
         /\ AfterOutput(l, kind, o).zswap = l.zswap
<1> DEFINE a   == o.target_address
           fee == BridgeFee(l.parameters, o.amount)
           r   == UpsertOne(l.replay_protection, TimePlus(tblock, l.parameters.global_ttl), o)
           m   == [l EXCEPT !.replay_protection = r]
<1>1. a \in Address /\ o.amount \in Nat
  BY LedgerAssumption DEF Instruction
<1>2. l.parameters \in Parameters
  BY DEF LedgerStates
<1>3. r \in TimeFilterMaps(Intent \cup Instruction)
  BY <1>2, RemembersType, Zenon DEF LedgerStates
<1>4. AfterOutput(l, kind, o) = IF kind = "Reward"
        THEN [m EXCEPT !.unclaimed_block_rewards[a] = @ + o.amount]
        ELSE [m EXCEPT !.treasury = @ + fee, !.bridge_receiving[a] = @ + (o.amount - fee)]
  BY DEF AfterOutput
<1> HIDE DEF r
<1>5. /\ m \in LedgerStates /\ m.replay_protection = r /\ m.utxos = l.utxos
      /\ m.applied = l.applied /\ m.spent = l.spent /\ m.zswap = l.zswap
  BY <1>3 DEF LedgerStates
<1> HIDE DEF m, a, fee
<1>6. /\ m.unclaimed_block_rewards \in [Address -> Nat]
      /\ m.bridge_receiving \in [Address -> Nat] /\ m.treasury \in Nat
  BY <1>5 DEF LedgerStates
<1>7. CASE kind = "Reward"
  <2> DEFINE f == [m.unclaimed_block_rewards EXCEPT ![a] = @ + o.amount]
  <2>1. f \in [Address -> Nat]
    BY <1>1, <1>6
  <2>2. AfterOutput(l, kind, o) = [m EXCEPT !.unclaimed_block_rewards = f]
    BY <1>4, <1>7
  <2> HIDE DEF f
  <2>3. AfterOutput(l, kind, o) \in LedgerStates
    BY <1>5, <2>1, <2>2 DEF LedgerStates
  <2> QED  BY <1>5, <2>2, <2>3 DEF LedgerStates, r
<1>8. CASE kind = "CardanoBridge"
  <2> DEFINE f == [m.bridge_receiving EXCEPT ![a] = @ + (o.amount - fee)]
             t == m.treasury + fee
  <2>1. fee \in 0 .. o.amount
    <3>1. l.parameters.fee_basis_points \in Nat
      BY <1>2, LedgerAssumption DEF LedgerParameters
    <3>2. CASE o.amount < l.parameters.min_amount
      BY <1>1, <3>2 DEF fee, BridgeFee
    <3>3. CASE ~ (o.amount < l.parameters.min_amount)
      <4>1. l.parameters.fee_basis_points <= BasisPoints
        BY <1>8, <3>3 DEF BridgeFeeOk
      <4>2. fee = BasisPointsOf(l.parameters.fee_basis_points, o.amount)
        BY <3>3 DEF fee, BridgeFee
      <4>3. BasisPointsOf(l.parameters.fee_basis_points, o.amount) \in 0 .. o.amount
        BY <1>1, <3>1, <4>1, BasisPointsBound
      <4> QED  BY <4>2, <4>3, Zenon
    <3> QED  BY <3>2, <3>3
  <2>2. f \in [Address -> Nat] /\ t \in Nat
    BY <1>1, <1>6, <2>1
  <2>3. AfterOutput(l, kind, o) = [m EXCEPT !.treasury = t, !.bridge_receiving = f]
    BY <1>4, <1>8
  <2> HIDE DEF f, t
  <2>4. AfterOutput(l, kind, o) \in LedgerStates
    BY <1>5, <2>2, <2>3, Zenon DEF LedgerStates
  <2> QED  BY <1>5, <2>3, <2>4 DEF LedgerStates, r
<1> QED  BY <1>7, <1>8 DEF ClaimKind

LEMMA PoolsType ==
  ASSUME NEW l \in LedgerStates, NEW n \in Nat
  PROVE  /\ n <= l.block_reward_pool =>
              /\ AfterPayBlockRewards(l, n) \in LedgerStates
              /\ SameHistory(l, AfterPayBlockRewards(l, n))
              /\ AfterPayBlockRewards(l, n).zswap = l.zswap
         /\ n <= l.locked_pool =>
              /\ AfterUnlockToTreasury(l, n) \in LedgerStates
              /\ SameHistory(l, AfterUnlockToTreasury(l, n))
              /\ AfterUnlockToTreasury(l, n).zswap = l.zswap
         /\ n <= l.reserve_pool =>
              /\ AfterDistributeReserve(l, n) \in LedgerStates
              /\ SameHistory(l, AfterDistributeReserve(l, n))
              /\ AfterDistributeReserve(l, n).zswap = l.zswap
         /\ n <= l.locked_pool =>
              /\ AfterUnlockToReserve(l, n) \in LedgerStates
              /\ SameHistory(l, AfterUnlockToReserve(l, n))
              /\ AfterUnlockToReserve(l, n).zswap = l.zswap
<1>1. /\ l.block_reward_pool \in Nat /\ l.treasury \in Nat
      /\ l.locked_pool \in Nat /\ l.reserve_pool \in Nat
  BY DEF LedgerStates
<1>2. \A x, y \in Nat : n <= x => x - n \in Nat /\ y + n \in Nat
  OBVIOUS
<1>3. \A x, y \in Nat :
        /\ [l EXCEPT !.block_reward_pool = x, !.treasury = y] \in LedgerStates
        /\ [l EXCEPT !.locked_pool = x, !.treasury = y] \in LedgerStates
        /\ [l EXCEPT !.reserve_pool = x, !.block_reward_pool = y] \in LedgerStates
        /\ [l EXCEPT !.locked_pool = x, !.reserve_pool = y] \in LedgerStates
  BY Zenon DEF LedgerStates
<1>4. /\ n <= l.block_reward_pool => AfterPayBlockRewards(l, n) \in LedgerStates
      /\ n <= l.locked_pool => AfterUnlockToTreasury(l, n) \in LedgerStates
      /\ n <= l.reserve_pool => AfterDistributeReserve(l, n) \in LedgerStates
      /\ n <= l.locked_pool => AfterUnlockToReserve(l, n) \in LedgerStates
  BY <1>1, <1>2, <1>3
    , Zenon DEF AfterPayBlockRewards, AfterUnlockToTreasury, AfterDistributeReserve, AfterUnlockToReserve
<1> QED
  BY <1>4 DEF AfterPayBlockRewards, AfterUnlockToTreasury, AfterDistributeReserve,
              AfterUnlockToReserve, SameHistory, LedgerStates

LEMMA BlockType ==
  ASSUME NEW l \in LedgerStates, tblock \in Time
  PROVE  /\ AfterBlock(l) \in LedgerStates
         /\ AfterBlock(l).replay_protection = Filter(l.replay_protection, tblock)
         /\ AfterBlock(l).zswap = ZswapPostBlock(l.zswap, tblock, l.parameters.global_ttl)
         /\ AfterBlock(l).utxos = l.utxos
         /\ AfterBlock(l).spent = l.spent
         /\ AfterBlock(l).applied = l.applied
<1> DEFINE r == Filter(l.replay_protection, tblock)
           z == ZswapPostBlock(l.zswap, tblock, l.parameters.global_ttl)
<1>1. tblock \in Nat /\ l.parameters.global_ttl \in Nat
  BY LedgerAssumption DEF LedgerStates, LedgerParameters, Time
<1>2. r \in TimeFilterMaps(Intent \cup Instruction)
  BY <1>1, FilterCorrect DEF LedgerStates
<1>3. z \in ZswapStates
  BY <1>1, ZswapPostBlockCorrect DEF LedgerStates
<1>4. AfterBlock(l) = [l EXCEPT !.replay_protection = r, !.zswap = z]
  BY DEF AfterBlock, ReplayPostBlock
<1> HIDE DEF r, z
<1>5. /\ AfterBlock(l) \in LedgerStates /\ AfterBlock(l).replay_protection = r
      /\ AfterBlock(l).zswap = z /\ AfterBlock(l).utxos = l.utxos
      /\ AfterBlock(l).spent = l.spent /\ AfterBlock(l).applied = l.applied
  BY <1>2, <1>3, <1>4, Zenon DEF LedgerStates
<1> QED  BY <1>5 DEF r, z

-----------------------------------------------------------------------------
(* Typing needs to know that the loops visit segments of the transaction:  *)
(* the type invariant is inductive together with Control.                  *)
TypeInv == TypeOK /\ Control

LEMMA TransactionType ==
  ASSUME NEW t \in Transactions
  PROVE  /\ IsPartial(t.intents, Segment, Intent)
         /\ \A s \in DOMAIN t.intents : t.intents[s] \in Intent /\ s \in Segment
         /\ t.guaranteed_coins \in ZswapOffer
         /\ \A s \in Segment : ShieldedOffer(t, s) \in ZswapOffer
         /\ DOMAIN t.intents \subseteq FallibleSegments(t)
         /\ FallibleSegments(t) \subseteq Segment
<1>1. /\ IsPartial(t.intents, Segment, Intent) /\ t.guaranteed_coins \in ZswapOffer
      /\ IsPartial(t.fallible_coins, Segment, ZswapOffer)
  BY LedgerAssumption DEF IsTransaction
<1>2. NoOffer \in ZswapOffer
  BY DEF NoOffer, ZswapOffer
<1> QED  BY <1>1, <1>2 DEF IsPartial, FallibleSegments, ShieldedOffer

LEMMA NextSegment ==
  ASSUME TypeInv, tx # NoTx
  PROVE  /\ tx \in Transactions
         /\ todo \subseteq Segment
         /\ todo # {} => Min(todo) \in todo /\ Min(todo) \in Segment
         /\ InGuaranteed /\ todo # {} => /\ Min(todo) \in DOMAIN tx.intents
                                         /\ tx.intents[Min(todo)] \in Intent
<1>1. tx \in Transactions /\ todo \subseteq FallibleSegments(tx)
  BY DEF TypeInv, TypeOK
<1>2. todo \subseteq Segment
  BY <1>1, TransactionType
<1>3. todo \in SUBSET Nat
  BY <1>2, LedgerAssumption
<1>4. todo # {} => Min(todo) \in todo
  BY <1>3, MinIsElement
<1> QED  BY <1>1, <1>2, <1>4, TransactionType DEF TypeInv, Control

LEMMA ReturnTyped ==
  ASSUME TypeInv, NEW new \in LedgerStates, Return(new)
  PROVE  TypeInv'
<1>1. TypeOK'
  BY DEF TypeInv, TypeOK, Return, Phase, Queues, ClaimKind
<1>2. Control'
  BY DEF TypeInv, Control, Return, InGuaranteed, ClaimKind
<1> QED  BY <1>1, <1>2 DEF TypeInv

LEMMA FailFallibleTyped ==
  ASSUME TypeInv, tx # NoTx, NEW s \in Segment, FailFallible(s)
  PROVE  TypeInv'
<1>1. TypeOK'
  BY DEF TypeInv, TypeOK, FailFallible, Phase, Queues, ClaimKind
<1>2. Control'
  BY DEF TypeInv, Control, FailFallible, InGuaranteed, ClaimKind
<1> QED  BY <1>1, <1>2 DEF TypeInv

LEMMA FailSectionTyped ==
  ASSUME TypeInv, tx # NoTx, FailSection
  PROVE  TypeInv'
<1>1. ledger \in LedgerStates /\ section \in Segment \cup {0}
  BY DEF TypeInv, TypeOK
<1> QED  BY <1>1, ReturnTyped, FailFallibleTyped DEF FailSection

(* The steps of apply.                                                     *)
LEMMA BeginApplyTyped ==
  ASSUME TypeInv, NEW t \in Transactions, BeginApply(t)
  PROVE  TypeInv'
<1> DEFINE z == ApplyZswapOffer(ledger.zswap, t.guaranteed_coins)
           r == ApplyIntents(ledger.replay_protection, t.intents, IntentTtl)
<1>1. /\ ledger \in LedgerStates /\ ledger.zswap \in ZswapStates
      /\ ledger.replay_protection \in TimeFilterMaps(Intent \cup Instruction)
  BY DEF TypeInv, TypeOK, LedgerStates
<1>2. z \in ZswapStates
  BY <1>1, TransactionType, ZswapOfferType DEF BeginApply
<1>3. r \in TimeFilterMaps(Intent \cup Instruction)
  BY <1>1, TransactionType, ApplyIntentsCorrect, Zenon
<1>4. work' = [ledger EXCEPT !.replay_protection = r, !.zswap = z]
  BY DEF BeginApply
<1> HIDE DEF z, r
<1>5. work' \in LedgerStates
  BY <1>1, <1>2, <1>3, <1>4, Zenon DEF LedgerStates
<1>6. /\ phase = "idle" /\ phase' = "offer" /\ tx' = t /\ t # NoTx /\ todo' = DOMAIN t.intents
      /\ UNCHANGED <<ledger, tblock, section, queue, failed>>
  BY LedgerAssumption DEF BeginApply
<1>7. TypeOK'
  BY <1>5, <1>6, TransactionType DEF TypeInv, TypeOK, Phase, Queues, ClaimKind
<1>8. Control'
  BY <1>6 DEF TypeInv, Control, InGuaranteed, ClaimKind
<1> QED  BY <1>7, <1>8 DEF TypeInv

LEMMA GuaranteedOfferTyped ==
  ASSUME TypeInv, GuaranteedOffer
  PROVE  TypeInv'
<1> DEFINE i == tx.intents[Min(todo)]
<1>1. phase = "offer" /\ todo # {} /\ tx # NoTx /\ InGuaranteed /\ section = 0
  BY DEF GuaranteedOffer, TypeInv, TypeOK, ClaimKind, InGuaranteed, Control
<1>2. i \in Intent
  BY <1>1, NextSegment
<1>3. CASE /\ work' = ApplyUnshielded(work, i, 0)
           /\ phase' = "actions" /\ queue' = Body[i].actions
           /\ UNCHANGED <<ledger, tblock, tx, section, todo, failed>>
  <2> HIDE DEF i
  <2>1. work \in LedgerStates /\ tblock \in Time
    BY DEF TypeInv, TypeOK
  <2>2. work' \in LedgerStates
    BY <1>2, <1>3, <2>1, UnshieldedType
  <2>3. Body[i].actions \in Seq(Action)
    BY <1>2, LedgerAssumption DEF IsIntentBody
  <2>4. TypeOK'
    BY <1>1, <1>3, <2>2, <2>3 DEF TypeInv, TypeOK, Phase, Queues, ClaimKind
  <2>5. Control'
    BY <1>1, <1>3 DEF TypeInv, Control, InGuaranteed, ClaimKind
  <2> QED  BY <2>4, <2>5 DEF TypeInv
<1>4. CASE FailSection
  BY <1>1, <1>4, FailSectionTyped
<1> QED  BY <1>3, <1>4 DEF GuaranteedOffer

LEMMA RunActionTyped ==
  ASSUME TypeInv, RunAction
  PROVE  TypeInv'
<1> DEFINE a == Head(queue)
           g == section = 0
           t == IF a.type = "Call" THEN CallTranscript(a, g) ELSE <<>>
           c == ApplyAction(work.contract, a, g)
           m == IF t = <<>> THEN work.minted
                ELSE [tt \in TokenType |-> work.minted[tt] + t[1].unshielded_mints[tt]]
<1>1. phase = "actions" /\ queue # <<>> /\ tx # NoTx /\ queue \in Seq(Action)
  BY DEF RunAction, TypeInv, TypeOK, ClaimKind, Queues
<1>2. a \in Action /\ Tail(queue) \in Seq(Action) /\ g \in BOOLEAN
  BY <1>1
<1>3. /\ work \in LedgerStates /\ work.contract \in Contracts /\ work.minted \in Amounts
  BY DEF TypeInv, TypeOK, LedgerStates
<1>4. CASE /\ ActionOk(work.contract, a, g)
           /\ work' = [work EXCEPT !.contract = c, !.minted = m]
           /\ queue' = RestOfAction(a, g) \o Tail(queue)
           /\ UNCHANGED <<ledger, tblock, phase, tx, section, todo, failed>>
  <2> HIDE DEF a, g
  <2>1. c \in Contracts
    BY <1>2, <1>3, <1>4, ActionType
  <2>2. t \in Option(Transcript)
    <3>1. <<>> \in Option(Transcript)
      BY DEF Option
    <3> QED  BY <1>2, <3>1, ActionFields DEF CallTranscript
  <2>3. m \in Amounts
    <3>1. CASE t = <<>>
      BY <3>1, <1>3
    <3>2. CASE t # <<>>
      <4>1. t[1] \in Transcript
        BY <2>2, <3>2, OptionType
      <4> HIDE DEF t
      <4>2. \A tt \in TokenType : t[1].unshielded_mints[tt] \in Nat /\ work.minted[tt] \in Nat
        BY <1>3, <4>1 DEF Transcript, Amounts
      <4> QED  BY <3>2, <4>2 DEF Amounts
    <3> QED  BY <3>1, <3>2
  <2>4. queue' \in Seq(Action)
    BY <1>2, <1>4, RestOfActionType, ConcatType
  <2> HIDE DEF c, m
  <2>5. work' \in LedgerStates
    BY <1>3, <1>4, <2>1, <2>3, Zenon DEF LedgerStates
  <2>6. TypeOK'
    BY <1>1, <1>4, <2>4, <2>5 DEF TypeInv, TypeOK, Queues, ClaimKind
  <2>7. Control'
    BY <1>1, <1>4 DEF TypeInv, Control, InGuaranteed, ClaimKind
  <2> QED  BY <2>6, <2>7 DEF TypeInv
<1>5. CASE FailSection
  BY <1>1, <1>5, FailSectionTyped
<1> QED  BY <1>4, <1>5 DEF RunAction

LEMMA NextIntentTyped ==
  ASSUME TypeInv, NextIntent
  PROVE  TypeInv'
<1>1. TypeOK'
  BY DEF NextIntent, TypeInv, TypeOK, Phase, Queues, ClaimKind
<1>2. Control'
  BY DEF NextIntent, TypeInv, Control, InGuaranteed, ClaimKind
<1> QED  BY <1>1, <1>2 DEF TypeInv

LEMMA DustSpendsTyped ==
  ASSUME TypeInv, DustSpends
  PROVE  TypeInv'
<1> DEFINE d == ApplyDustSpends(work.dust, TxSpends(tx))
<1>1. phase = "offer" /\ tx # NoTx
  BY DEF DustSpends, TypeInv, TypeOK, ClaimKind
<1>2. tx \in Transactions
  BY <1>1, NextSegment
<1>3. CASE /\ work' = [work EXCEPT !.dust = d]
           /\ phase' = "registrations" /\ todo' = DOMAIN tx.intents
           /\ UNCHANGED <<ledger, tblock, tx, section, queue, failed>>
  <2>1. \A s \in DOMAIN tx.intents : Body[tx.intents[s]].spends \in Seq(DustNul)
    BY <1>2, TransactionType, LedgerAssumption DEF IsIntentBody
  <2>2. \A s \in DOMAIN tx.intents : \A k \in DOMAIN Body[tx.intents[s]].spends :
          Body[tx.intents[s]].spends[k] \in DustNul
    BY <2>1
  <2>3. Range(TxSpends(tx)) \subseteq DustNul
    <3> DEFINE P == UNION {{s} \X DOMAIN Body[tx.intents[s]].spends : s \in DOMAIN tx.intents}
    <3>1. ASSUME NEW p \in P  PROVE Body[tx.intents[p[1]]].spends[p[2]] \in DustNul
      <4>1. PICK s \in DOMAIN tx.intents : p \in {s} \X DOMAIN Body[tx.intents[s]].spends
        BY <3>1
      <4>2. p[1] = s /\ p[2] \in DOMAIN Body[tx.intents[s]].spends
        BY <4>1
      <4> QED  BY <2>2, <4>2
    <3> HIDE DEF P
    <3>2. TxSpends(tx) = [p \in P |-> Body[tx.intents[p[1]]].spends[p[2]]]
      BY DEF TxSpends, P
    <3> QED  BY <3>1, <3>2 DEF Range
  <2>4. work \in LedgerStates /\ work.dust \in DustStates(NightNonce)
    BY DEF TypeInv, TypeOK, LedgerStates
  <2>5. d \in DustStates(NightNonce)
    BY <2>3, <2>4 DEF ApplyDustSpends, DustStates
  <2> HIDE DEF d
  <2>6. work' \in LedgerStates
    BY <1>3, <2>4, <2>5 DEF LedgerStates
  <2>7. TypeOK'
    BY <1>1, <1>2, <1>3, <2>6, TransactionType DEF TypeInv, TypeOK, Phase, Queues, ClaimKind
  <2>8. Control'
    BY <1>1, <1>3 DEF TypeInv, Control, InGuaranteed, ClaimKind
  <2> QED  BY <2>7, <2>8 DEF TypeInv
<1>4. CASE FailSection
  BY <1>1, <1>4, FailSectionTyped
<1> QED  BY <1>3, <1>4 DEF DustSpends

LEMMA RegisterTyped ==
  ASSUME TypeInv, Register
  PROVE  TypeInv'
<1> DEFINE i == tx.intents[Min(todo)]
           r == Body[i].registrations
           d == ApplyRegistrations(work.dust, Created(i, 0), r)
<1>1. phase = "registrations" /\ todo # {} /\ tx # NoTx /\ InGuaranteed
  BY DEF Register, TypeInv, TypeOK, ClaimKind, InGuaranteed
<1>2. i \in Intent
  BY <1>1, NextSegment
<1>3. CASE /\ work' = [work EXCEPT !.dust = d]
           /\ todo' = todo \ {Min(todo)}
           /\ UNCHANGED <<ledger, tblock, phase, tx, section, queue, failed>>
  <2>1. /\ IsPartial(r, Address, DustKey \cup {NoKey})
        /\ Created(i, 0) \subseteq Utxo /\ IsFiniteSet(Created(i, 0))
    BY <1>2, CreatedType, LedgerAssumption, Zenon DEF IsIntentBody
  <2>2. work \in LedgerStates /\ work.dust \in DustStates(NightNonce)
    BY DEF TypeInv, TypeOK, LedgerStates
  <2>3. d \in DustStates(NightNonce)
    BY <2>1, <2>2, RegistrationsType
  <2> HIDE DEF d
  <2>4. work' \in LedgerStates
    BY <1>3, <2>2, <2>3 DEF LedgerStates
  <2>5. TypeOK'
    BY <1>1, <1>3, <2>4 DEF TypeInv, TypeOK, Queues, ClaimKind
  <2>6. Control'
    BY <1>1, <1>3 DEF TypeInv, Control, InGuaranteed, ClaimKind
  <2> QED  BY <2>5, <2>6 DEF TypeInv
<1>4. CASE FailSection
  BY <1>1, <1>4, FailSectionTyped
<1> QED  BY <1>3, <1>4 DEF Register

LEMMA EndGuaranteedTyped ==
  ASSUME TypeInv, EndGuaranteed
  PROVE  TypeInv'
<1>1. phase = "registrations" /\ tx # NoTx
  BY DEF EndGuaranteed, TypeInv, TypeOK, ClaimKind
<1>2. CASE /\ ledger' = work
           /\ phase' = "fallible" /\ todo' = FallibleSegments(tx)
           /\ UNCHANGED <<work, tblock, tx, section, queue, failed>>
  <2>1. TypeOK'
    BY <1>1, <1>2 DEF TypeInv, TypeOK, Phase, Queues, ClaimKind
  <2>2. Control'
    BY <1>1, <1>2 DEF TypeInv, Control, InGuaranteed, ClaimKind
  <2> QED  BY <2>1, <2>2 DEF TypeInv
<1>3. CASE FailSection
  BY <1>1, <1>3, FailSectionTyped
<1> QED  BY <1>2, <1>3 DEF EndGuaranteed

(* The state at the start of a fallible section, before its intent.        *)
LEMMA ShieldedOfferTyped ==
  ASSUME TypeInv, tx # NoTx, NEW s \in Segment, FallibleOk(work, tx, s),
         NEW l, l = [work EXCEPT !.zswap = ApplyZswapOffer(@, ShieldedOffer(tx, s))]
  PROVE  /\ l \in LedgerStates /\ SameHistory(work, l)
         /\ l.zswap = ApplyZswapOffer(work.zswap, ShieldedOffer(tx, s))
<1> DEFINE z == ApplyZswapOffer(work.zswap, ShieldedOffer(tx, s))
<1>1. work \in LedgerStates /\ work.zswap \in ZswapStates
  BY DEF TypeInv, TypeOK, LedgerStates
<1>2. ShieldedOffer(tx, s) \in ZswapOffer /\ OfferOk(work.zswap, ShieldedOffer(tx, s))
  BY NextSegment, TransactionType DEF FallibleOk
<1>3. z \in ZswapStates
  BY <1>1, <1>2, ZswapOfferType
<1>4. l = [work EXCEPT !.zswap = z]
  OBVIOUS
<1> HIDE DEF z
<1>5. l \in LedgerStates /\ SameHistory(work, l) /\ l.zswap = z
  BY <1>1, <1>3, <1>4 DEF LedgerStates, SameHistory
<1> QED  BY <1>5 DEF z

LEMMA StartFallibleTyped ==
  ASSUME TypeInv, StartFallible
  PROVE  TypeInv'
<1> DEFINE s == Min(todo)
           l == [work EXCEPT !.zswap = ApplyZswapOffer(@, ShieldedOffer(tx, s))]
<1>1. phase = "fallible" /\ todo # {} /\ tx # NoTx
  BY DEF StartFallible, TypeInv, TypeOK, ClaimKind
<1>2. s \in todo /\ s \in Segment /\ tx \in Transactions
  BY <1>1, NextSegment
<1>3. CASE /\ FallibleOk(work, tx, s)
           /\ work' = IF s \in DOMAIN tx.intents THEN ApplyUnshielded(l, tx.intents[s], s) ELSE l
           /\ queue' = IF s \in DOMAIN tx.intents THEN Body[tx.intents[s]].actions ELSE <<>>
           /\ phase' = "actions" /\ section' = s
           /\ UNCHANGED <<ledger, tblock, tx, todo, failed>>
  <2> HIDE DEF s
  <2>1. l \in LedgerStates
    BY <1>1, <1>2, <1>3, ShieldedOfferTyped
  <2> HIDE DEF l
  <2>2. s \in DOMAIN tx.intents => tx.intents[s] \in Intent
    BY <1>2, TransactionType
  <2>3. tblock \in Time
    BY DEF TypeInv, TypeOK
  <2>4. work' \in LedgerStates
    BY <1>2, <1>3, <2>1, <2>2, <2>3, UnshieldedType
  <2>5. queue' \in Seq(Action)
    BY <1>3, <2>2, LedgerAssumption DEF IsIntentBody
  <2>6. section' # 0
    BY <1>2, <1>3, LedgerAssumption
  <2>7. TypeOK'
    BY <1>1, <1>2, <1>3, <2>4, <2>5 DEF TypeInv, TypeOK, Phase, Queues, ClaimKind
  <2>8. Control'
    BY <1>1, <1>2, <1>3, <2>6 DEF TypeInv, Control, InGuaranteed, ClaimKind
  <2> QED  BY <2>7, <2>8 DEF TypeInv
<1>4. CASE FailFallible(s)
  BY <1>1, <1>2, <1>4, FailFallibleTyped
<1> QED  BY <1>3, <1>4 DEF StartFallible

LEMMA EndFallibleTyped ==
  ASSUME TypeInv, EndFallible
  PROVE  TypeInv'
<1>1. phase = "actions" /\ tx # NoTx
  BY DEF EndFallible, TypeInv, TypeOK, ClaimKind
<1>2. CASE /\ ledger' = work
           /\ phase' = "fallible" /\ section' = 0 /\ todo' = todo \ {section}
           /\ UNCHANGED <<work, tblock, tx, queue, failed>>
  <2>1. TypeOK'
    BY <1>1, <1>2 DEF TypeInv, TypeOK, Phase, Queues, ClaimKind
  <2>2. Control'
    BY <1>1, <1>2 DEF TypeInv, Control, InGuaranteed, ClaimKind
  <2> QED  BY <2>1, <2>2 DEF TypeInv
<1>3. CASE FailSection
  BY <1>1, <1>3, FailSectionTyped
<1> QED  BY <1>2, <1>3 DEF EndFallible

LEMMA EndApplyTyped ==
  ASSUME TypeInv, EndApply
  PROVE  TypeInv'
BY ReturnTyped DEF EndApply, TypeInv, TypeOK

(* Claims, system transactions and the end of a block.                     *)
LEMMA ClaimTyped ==
  ASSUME TypeInv, NEW kind \in ClaimKind, NEW c \in Instruction, Claim(kind, c)
  PROVE  TypeInv'
<1>1. ledger \in LedgerStates /\ tblock \in Time
  BY DEF TypeInv, TypeOK
<1>2. c.amount <= Claimable(ledger, kind)[c.target_address] /\ Return(AfterClaim(ledger, kind, c))
  BY Zenon DEF Claim
<1>3. AfterClaim(ledger, kind, c) \in LedgerStates
  BY <1>1, <1>2, ClaimType
<1> QED  BY <1>2, <1>3, ReturnTyped

LEMMA OverwriteParametersTyped ==
  ASSUME TypeInv, NEW p \in Parameters, OverwriteParameters(p)
  PROVE  TypeInv'
<1>1. [ledger EXCEPT !.parameters = p] \in LedgerStates
  BY DEF TypeInv, TypeOK, LedgerStates
<1> QED  BY <1>1, ReturnTyped DEF OverwriteParameters

LEMMA PoolsTyped ==
  ASSUME TypeInv, NEW n \in Amount,
         \/ PayBlockRewardsToTreasury(n) \/ UnlockToTreasury(n)
         \/ DistributeReserve(n) \/ UnlockToReserve(n)
  PROVE  TypeInv'
<1>1. ledger \in LedgerStates /\ n \in Nat
  BY LedgerAssumption DEF TypeInv, TypeOK
<1>2. PICK new \in LedgerStates : Return(new)
  BY <1>1, PoolsType
     DEF PayBlockRewardsToTreasury, UnlockToTreasury, DistributeReserve, UnlockToReserve
<1> QED  BY <1>2, ReturnTyped

LEMMA BeginDistributeTyped ==
  ASSUME TypeInv, NEW kind \in ClaimKind, NEW outputs \in Distributions,
         BeginDistribute(kind, outputs)
  PROVE  TypeInv' /\ SameHistory(ledger, work') /\ work'.zswap = ledger.zswap
<1>1. ledger \in LedgerStates
  BY DEF TypeInv, TypeOK
<1>2. PICK total \in 0 .. DistributedPool(ledger, kind) :
        work' = IF kind = "Reward" THEN [ledger EXCEPT !.block_reward_pool = @ - total]
                                   ELSE [ledger EXCEPT !.locked_pool = @ - total]
  BY Zenon DEF BeginDistribute
<1>3. ledger.block_reward_pool \in Nat /\ ledger.locked_pool \in Nat
  BY <1>1 DEF LedgerStates
<1>4. DistributedPool(ledger, kind) - total \in Nat
  BY <1>3 DEF DistributedPool
<1>5. PICK rest \in Nat :
        work' = IF kind = "Reward" THEN [ledger EXCEPT !.block_reward_pool = rest]
                                   ELSE [ledger EXCEPT !.locked_pool = rest]
  BY <1>2, <1>4 DEF DistributedPool
<1>6. work' \in LedgerStates /\ SameHistory(ledger, work') /\ work'.zswap = ledger.zswap
  BY <1>1, <1>5 DEF LedgerStates, SameHistory
<1>7. /\ phase = "idle" /\ phase' = kind /\ queue' = outputs /\ outputs \in Seq(Instruction)
      /\ UNCHANGED <<ledger, tblock, tx, section, todo, failed>>
  BY LedgerAssumption DEF BeginDistribute
<1>8. TypeOK'
  BY <1>6, <1>7 DEF TypeInv, TypeOK, Phase, Queues, ClaimKind
<1>9. Control'
  BY <1>7 DEF TypeInv, Control, InGuaranteed, ClaimKind
<1> QED  BY <1>6, <1>8, <1>9 DEF TypeInv

LEMMA DistributeOutputTyped ==
  ASSUME TypeInv, DistributeOutput
  PROVE  TypeInv'
<1> DEFINE o == Head(queue)
<1>1. /\ phase \in ClaimKind /\ queue # <<>> /\ queue \in Seq(Instruction)
      /\ work \in LedgerStates /\ ledger \in LedgerStates /\ tblock \in Time
  BY DEF DistributeOutput, TypeInv, TypeOK, Queues, ClaimKind
<1>2. o \in Instruction /\ Tail(queue) \in Seq(Instruction)
  BY <1>1
<1>3. CASE /\ phase = "CardanoBridge" => BridgeFeeOk(work.parameters, o.amount)
           /\ work' = AfterOutput(work, phase, o)
           /\ queue' = Tail(queue)
           /\ UNCHANGED <<ledger, tblock, phase, tx, section, todo, failed>>
  <2> HIDE DEF o
  <2>1. work' \in LedgerStates
    BY <1>1, <1>2, <1>3, OutputType
  <2>2. TypeOK'
    BY <1>1, <1>2, <1>3, <2>1 DEF TypeInv, TypeOK, Queues, ClaimKind
  <2>3. Control'
    BY <1>1, <1>3 DEF TypeInv, Control, InGuaranteed, ClaimKind
  <2> QED  BY <2>2, <2>3 DEF TypeInv
<1>4. CASE Return(ledger)
  BY <1>1, <1>4, ReturnTyped
<1> QED  BY <1>3, <1>4 DEF DistributeOutput

LEMMA EndDistributeTyped ==
  ASSUME TypeInv, EndDistribute
  PROVE  TypeInv'
<1>1. (IF NightBalanceOk(work) THEN work ELSE ledger) \in LedgerStates
  BY DEF TypeInv, TypeOK
<1> QED  BY <1>1, ReturnTyped DEF EndDistribute

LEMMA BeginCNightTyped ==
  ASSUME TypeInv, NEW events \in CNightBatches, BeginCNight(events)
  PROVE  TypeInv'
<1>1. TypeOK'
  BY LedgerAssumption DEF BeginCNight, TypeInv, TypeOK, Phase, Queues, ClaimKind
<1>2. Control'
  BY DEF BeginCNight, TypeInv, Control, InGuaranteed, ClaimKind
<1> QED  BY <1>1, <1>2 DEF TypeInv

LEMMA CNightStepTyped ==
  ASSUME TypeInv, CNightStep
  PROVE  TypeInv'
<1> DEFINE e == Head(queue)
           d == ApplyCNight(work.dust, e)
<1>1. /\ phase = "cnight" /\ queue # <<>> /\ queue \in Seq(CNightEvent)
      /\ work \in LedgerStates /\ ledger \in LedgerStates /\ work.dust \in DustStates(NightNonce)
  BY DEF CNightStep, TypeInv, TypeOK, Queues, LedgerStates
<1>2. e \in CNightEvent /\ Tail(queue) \in Seq(CNightEvent)
  BY <1>1
<1>3. CASE /\ work' = [work EXCEPT !.dust = d]
           /\ queue' = Tail(queue)
           /\ UNCHANGED <<ledger, tblock, phase, tx, section, todo, failed>>
  <2>1. d \in DustStates(NightNonce)
    BY <1>1, <1>2, CNightType
  <2> HIDE DEF d
  <2>2. work' \in LedgerStates
    BY <1>1, <1>3, <2>1, Zenon DEF LedgerStates
  <2>3. TypeOK'
    BY <1>1, <1>2, <1>3, <2>2 DEF TypeInv, TypeOK, Queues
  <2>4. Control'
    BY <1>1, <1>3 DEF TypeInv, Control, InGuaranteed, ClaimKind
  <2> QED  BY <2>3, <2>4 DEF TypeInv
<1>4. CASE Return(ledger)
  BY <1>1, <1>4, ReturnTyped
<1> QED  BY <1>3, <1>4 DEF CNightStep

LEMMA EndCNightTyped ==
  ASSUME TypeInv, EndCNight
  PROVE  TypeInv'
BY ReturnTyped DEF EndCNight, TypeInv, TypeOK

LEMMA EndBlockTyped ==
  ASSUME TypeInv, NEW t \in 0 .. MaxTime - 1, EndBlock(t)
  PROVE  TypeInv'
<1>1. AfterBlock(ledger) \in LedgerStates
  BY BlockType DEF TypeInv, TypeOK
<1>2. t \in Time
  BY MaxTimeAssumption DEF Time
<1>3. TypeOK'
  BY <1>1, <1>2 DEF EndBlock, TypeInv, TypeOK, Queues
<1>4. Control'
  BY DEF EndBlock, TypeInv, Control, InGuaranteed, ClaimKind
<1> QED  BY <1>3, <1>4 DEF TypeInv

-----------------------------------------------------------------------------
LEMMA TypeInvInit ==
  ASSUME Init
  PROVE  TypeInv
<1>1. ledger \in LedgerStates
  BY GenesisType DEF Init
<1>2. TypeOK
  BY <1>1, MaxTimeAssumption DEF Init, TypeOK, Time, Phase, Queues, ClaimKind
<1>3. Control
  BY DEF Init, Control, InGuaranteed
<1> QED  BY <1>2, <1>3 DEF TypeInv

LEMMA TypeInvNext ==
  ASSUME TypeInv, [Next]_vars
  PROVE  TypeInv'
<1>1. CASE UNCHANGED vars
  BY <1>1 DEF vars, TypeInv, TypeOK, Queues, Control, InGuaranteed
<1>2. CASE ApplyTransaction
  BY <1>2, BeginApplyTyped, GuaranteedOfferTyped, RunActionTyped, NextIntentTyped,
     DustSpendsTyped, RegisterTyped, EndGuaranteedTyped, StartFallibleTyped,
     EndFallibleTyped, EndApplyTyped DEF ApplyTransaction
<1>3. CASE ApplySystemTx
  BY <1>3, OverwriteParametersTyped, PoolsTyped, BeginDistributeTyped, DistributeOutputTyped,
     EndDistributeTyped, BeginCNightTyped, CNightStepTyped, EndCNightTyped, Zenon DEF ApplySystemTx
<1>4. CASE \E kind \in ClaimKind, c \in Instruction : Claim(kind, c)
  BY <1>4, ClaimTyped
<1>5. CASE \E t \in 0 .. MaxTime - 1 : EndBlock(t)
  BY <1>5, EndBlockTyped
<1> QED  BY <1>1, <1>2, <1>3, <1>4, <1>5 DEF Next

(* The ledger keeps its types whatever transactions, claims, system        *)
(* transactions and blocks it meets: no pool, reward or contract balance   *)
(* goes below zero, and the commitment tree never overflows.               *)
THEOREM LedgerTypeCorrect == Spec => []TypeOK
<1>1. Init => TypeInv
  BY TypeInvInit
<1>2. TypeInv /\ [Next]_vars => TypeInv'
  BY TypeInvNext
<1>3. TypeInv => TypeOK
  BY DEF TypeInv
<1> QED  BY <1>1, <1>2, <1>3, PTL DEF Spec
=============================================================================
