------------------------------ MODULE LedgerSteps -------------------------------
(***************************************************************************)
(* Replay protection, for all values of the constants: what keeps the      *)
(* history of a state sound, and that every step of applying a transaction *)
(* preserves the inductive invariant.                                      *)
(***************************************************************************)
EXTENDS LedgerTypes

Inv == TypeInv /\ ReplayInv

(* The hash of a section of an intent is not the hash of an instruction.   *)
LEMMA HashesDisjoint == SectionHash \cap Instruction = {}
<1> SUFFICES ASSUME NEW h \in SectionHash, h \in Instruction
             PROVE  FALSE
  OBVIOUS
<1>1. DOMAIN h = {"intent", "segment"}
  BY DEF SectionHash
<1>2. DOMAIN h = {"amount", "target_address", "nonce"}
  BY DEF Instruction
<1> QED  BY <1>1, <1>2

LEMMA TtlType ==
  ASSUME NEW i \in Intent
  PROVE  Body[i].ttl \in Time /\ Body[i].ttl \in Nat /\ IntentTtl[i] = Body[i].ttl
BY LedgerAssumption DEF IsIntentBody, IntentTtl, Time

(* Steps that leave the history of a state alone keep HistoryInv.          *)
LEMMA SameHistoryInv ==
  ASSUME NEW l, NEW m, SameHistory(l, m), HistoryInv(l)
  PROVE  HistoryInv(m)
BY DEF SameHistory, HistoryInv, Remembered, OutputsApplied, NeverBack

(* Applying the offer of a section that was never applied, of an intent    *)
(* that is remembered.                                                     *)
LEMMA ApplyKeepsHistory ==
  ASSUME NEW l \in LedgerStates, HistoryInv(l), tblock \in Time,
         NEW i \in Intent, NEW s \in Segment \cup {0},
         OfferOf(i, s).inputs \subseteq l.utxos,
         l.applied[[intent |-> i, segment |-> s]] = 0,
         i \in l.replay_protection.time_map[Body[i].ttl]
  PROVE  HistoryInv(ApplyUnshielded(l, i, s))
<1> DEFINE m == ApplyUnshielded(l, i, s)
           h == [intent |-> i, segment |-> s]
<1>1. /\ m.utxos = (l.utxos \ OfferOf(i, s).inputs) \cup Created(i, s)
      /\ m.spent = l.spent \cup OfferOf(i, s).inputs
      /\ m.applied = CountApplied(l.applied, i, s)
      /\ m.replay_protection = l.replay_protection
  BY UnshieldedType
<1>2. h \in SectionHash /\ h.intent = i /\ l.applied \in [SectionHash -> Nat]
  BY DEF SectionHash, LedgerStates
<1>3. \A g \in SectionHash : m.applied[g] = IF g = h THEN 1 ELSE l.applied[g]
  BY <1>1, <1>2 DEF CountApplied
<1>4. \A u \in Created(i, s) : u.intent_hash = h
  BY DEF Created
<1>5. h \notin Instruction
  BY <1>2, HashesDisjoint
<1> HIDE DEF m, h
<1>6. \A u \in l.utxos \cup l.spent : u.intent_hash # h
  BY <1>2 DEF HistoryInv, OutputsApplied, h
<1>7. Consistent(m.replay_protection)
  BY <1>1 DEF HistoryInv
<1>8. Remembered(m)
  BY <1>1, <1>2, <1>3 DEF HistoryInv, Remembered
<1>9. OutputsApplied(m)
  BY <1>1, <1>2, <1>3, <1>4 DEF HistoryInv, OutputsApplied
<1>10. NeverBack(m)
  BY <1>1, <1>4, <1>6 DEF HistoryInv, NeverBack
<1> QED  BY <1>7, <1>8, <1>9, <1>10 DEF HistoryInv, m

(* Remembering a claim or an output instruction that is not remembered.    *)
LEMMA UpsertKeepsHistory ==
  ASSUME NEW l \in LedgerStates, HistoryInv(l), tblock \in Time, NEW c \in Instruction,
         NEW ttl \in Time, ~ ContainsItem(l.replay_protection, c),
         NEW m, m.replay_protection = UpsertOne(l.replay_protection, ttl, c),
         m.applied = l.applied
  PROVE  Consistent(m.replay_protection) /\ Remembered(m)
<1> DEFINE r == l.replay_protection
           Item == Intent \cup Instruction
<1>1. r \in TimeFilterMaps(Item) /\ Consistent(r) /\ c \in Item
  BY DEF LedgerStates, HistoryInv
<1>2. HeldAt(r, c) = {}
  BY <1>1, ContainsIffHeld
<1>3. {c} \cap r.time_map[ttl] = {}
  BY <1>2 DEF HeldAt
<1>4. Consistent(m.replay_protection)
  <2> HIDE DEF r, Item
  <2> QED  BY <1>1, <1>3, UpsertCorrect DEF UpsertOne, r
<1>5. \A t \in Time : r.time_map[t] \subseteq m.replay_protection.time_map[t]
  BY <1>1 DEF UpsertOne, Upsert, TimeFilterMaps
<1>6. Remembered(m)
  BY <1>5, TtlType DEF HistoryInv, Remembered, SectionHash
<1> QED  BY <1>4, <1>6

LEMMA ClaimKeepsHistory ==
  ASSUME NEW l \in LedgerStates, HistoryInv(l), tblock \in Time,
         NEW kind \in ClaimKind, NEW c \in Instruction,
         c.amount <= Claimable(l, kind)[c.target_address],
         ~ ContainsItem(l.replay_protection, c)
  PROVE  HistoryInv(AfterClaim(l, kind, c))
<1> DEFINE m == AfterClaim(l, kind, c)
           ttl == TimePlus(tblock, l.parameters.global_ttl)
<1>1. /\ m.utxos = l.utxos \cup {ClaimUtxo(c)} /\ m.applied = l.applied /\ m.spent = l.spent
      /\ m.replay_protection = UpsertOne(l.replay_protection, ttl, c)
  BY ClaimType
<1>2. l.parameters.global_ttl \in Nat
  BY LedgerAssumption DEF LedgerStates, LedgerParameters
<1>3. ttl \in Time
  BY <1>2, TimePlusType
<1> HIDE DEF m, ttl
<1>4. Consistent(m.replay_protection) /\ Remembered(m)
  BY <1>1, <1>3, UpsertKeepsHistory
<1>5. ClaimUtxo(c).intent_hash = c /\ c \notin SectionHash
  BY HashesDisjoint DEF ClaimUtxo
<1>6. OutputsApplied(m) /\ NeverBack(m)
  BY <1>1, <1>5 DEF HistoryInv, OutputsApplied, NeverBack
<1> QED  BY <1>4, <1>6 DEF HistoryInv, m

LEMMA OutputKeepsHistory ==
  ASSUME NEW l \in LedgerStates, HistoryInv(l), tblock \in Time,
         NEW kind \in ClaimKind, NEW o \in Instruction,
         kind = "CardanoBridge" => BridgeFeeOk(l.parameters, o.amount),
         ~ ContainsItem(l.replay_protection, o)
  PROVE  HistoryInv(AfterOutput(l, kind, o))
<1> DEFINE m == AfterOutput(l, kind, o)
           ttl == TimePlus(tblock, l.parameters.global_ttl)
<1>1. /\ m.utxos = l.utxos /\ m.applied = l.applied /\ m.spent = l.spent
      /\ m.replay_protection = UpsertOne(l.replay_protection, ttl, o)
  BY OutputType
<1>2. l.parameters.global_ttl \in Nat
  BY LedgerAssumption DEF LedgerStates, LedgerParameters
<1>3. ttl \in Time
  BY <1>2, TimePlusType
<1> HIDE DEF m, ttl
<1>4. Consistent(m.replay_protection) /\ Remembered(m)
  BY <1>1, <1>3, UpsertKeepsHistory
<1>5. OutputsApplied(m) /\ NeverBack(m)
  BY <1>1 DEF HistoryInv, OutputsApplied, NeverBack
<1> QED  BY <1>4, <1>5 DEF HistoryInv, m

(* The sections that are pending, in each phase.                           *)
LEMMA PendingFacts ==
  ASSUME TypeInv, tx # NoTx
  PROVE  /\ PendingSegments \subseteq DOMAIN tx.intents
         /\ PendingGuaranteed \subseteq DOMAIN tx.intents
         /\ \A s \in DOMAIN tx.intents : tx.intents[s] \in Intent /\ s \in Segment /\ s # 0
         /\ PendingSections \subseteq SectionHash
         /\ \A i : [intent |-> i, segment |-> 0] \in PendingSections
                     <=> \E s \in PendingGuaranteed : tx.intents[s] = i
         /\ \A i, r : r # 0 =>
              ([intent |-> i, segment |-> r] \in PendingSections
                 <=> r \in PendingSegments /\ tx.intents[r] = i)
<1>1. \A s \in DOMAIN tx.intents : tx.intents[s] \in Intent /\ s \in Segment /\ s # 0
  BY NextSegment, TransactionType, LedgerAssumption
<1>2. PendingSegments \subseteq DOMAIN tx.intents
  BY DEF PendingSegments
<1>3. PendingGuaranteed \subseteq DOMAIN tx.intents
  BY DEF PendingGuaranteed, TypeInv, Control, InGuaranteed
<1>4. PendingSections \subseteq SectionHash
  BY <1>1, <1>2, <1>3 DEF PendingSections, SectionHash
<1>5. ASSUME NEW i
      PROVE  [intent |-> i, segment |-> 0] \in PendingSections
               <=> \E s \in PendingGuaranteed : tx.intents[s] = i
  BY <1>1, <1>2, Zenon DEF PendingSections
<1>6. ASSUME NEW i, NEW r, r # 0
      PROVE  [intent |-> i, segment |-> r] \in PendingSections
                 <=> r \in PendingSegments /\ tx.intents[r] = i
  BY <1>6, Zenon DEF PendingSections
<1> QED  BY <1>1, <1>2, <1>3, <1>4, <1>5, <1>6

(* What the invariant says of the two states, and of a transaction that is *)
(* being applied.                                                          *)
LEMMA InvStates ==
  ASSUME Inv
  PROVE  /\ ledger \in LedgerStates /\ work \in LedgerStates /\ tblock \in Time
         /\ HistoryInv(ledger) /\ HistoryInv(work)
<1>1. TypeOK /\ HistoryInv(ledger) /\ HistoryInv(work)
  BY Zenon DEF Inv, ReplayInv, TypeInv
<1> QED  BY <1>1, Zenon DEF TypeOK

LEMMA InvTransaction ==
  ASSUME Inv, tx # NoTx
  PROVE  /\ IsInjective(tx.intents)
         /\ \A s \in DOMAIN tx.intents :
              tx.intents[s] \in work.replay_protection.time_map[Body[tx.intents[s]].ttl]
         /\ \A h \in PendingSections : ledger.applied[h] = 0 /\ work.applied[h] = 0
<1>1. InTransaction
  BY Zenon DEF Inv, ReplayInv
<1> QED  BY <1>1 DEF InTransaction

(* A call that returns.                                                    *)
LEMMA ReturnKeeps ==
  ASSUME Inv, NEW new \in LedgerStates, Return(new), HistoryInv(new)
  PROVE  Inv'
<1>1. TypeInv'
  BY ReturnTyped DEF Inv
<1>2. ledger' = new /\ work' = new /\ tblock' = tblock /\ tx' = NoTx /\ phase' = "idle"
  BY DEF Return
<1>3. HistoryInv(ledger)' /\ HistoryInv(work)'
  BY <1>2 DEF HistoryInv, Remembered, OutputsApplied, NeverBack
<1>4. InTransaction'
  BY <1>2 DEF InTransaction
<1>5. AppliedSoFar'
  BY <1>2 DEF AppliedSoFar, InGuaranteed
<1> QED  BY <1>1, <1>3, <1>4, <1>5 DEF Inv, ReplayInv, TypeInv

(* A step within a section that changes nothing that replay protection     *)
(* knows about.                                                            *)
LEMMA QuietKeeps ==
  ASSUME Inv, TypeInv', UNCHANGED <<ledger, tblock, tx>>, SameHistory(work, work'),
         InGuaranteed' <=> InGuaranteed, PendingSections' = PendingSections
  PROVE  Inv'
<1>1. HistoryInv(ledger)' /\ HistoryInv(work)'
  BY DEF Inv, ReplayInv, SameHistory, HistoryInv, Remembered, OutputsApplied, NeverBack
<1>2. InTransaction'
  BY DEF Inv, ReplayInv, SameHistory, InTransaction
<1>3. AppliedSoFar'
  BY Zenon DEF Inv, ReplayInv, SameHistory, AppliedSoFar
<1> QED  BY <1>1, <1>2, <1>3 DEF Inv, ReplayInv, TypeInv

(* A section that ends, well or not: both states are then the same.        *)
LEMMA SettleKeeps ==
  ASSUME Inv, TypeInv', NEW new, HistoryInv(new), ledger' = new, work' = new,
         UNCHANGED <<tblock, tx>>, tx # NoTx, phase' = "fallible",
         \A s \in DOMAIN tx.intents :
           tx.intents[s] \in new.replay_protection.time_map[Body[tx.intents[s]].ttl],
         \A h \in PendingSections' : new.applied[h] = 0
  PROVE  Inv'
<1>1. HistoryInv(ledger)' /\ HistoryInv(work)'
  BY DEF HistoryInv, Remembered, OutputsApplied, NeverBack
<1>2. InTransaction'
  BY DEF Inv, ReplayInv, InTransaction, InGuaranteed
<1>3. AppliedSoFar'
  BY DEF AppliedSoFar, InGuaranteed
<1> QED  BY <1>1, <1>2, <1>3 DEF Inv, ReplayInv, TypeInv

LEMMA FailFallibleKeeps ==
  ASSUME Inv, tx # NoTx, ~ InGuaranteed, phase \in {"fallible", "actions"},
         NEW s \in Segment, FailFallible(s),
         phase = "actions" => s = section, phase = "fallible" => section = 0
  PROVE  Inv'
<1>1. TypeInv'
  BY FailFallibleTyped DEF Inv
<1>2. /\ ledger' = ledger /\ work' = ledger /\ UNCHANGED <<tblock, tx>> /\ phase' = "fallible"
      /\ section' = 0 /\ todo' = todo \ {s}
  BY DEF FailFallible
<1>3. tx' # NoTx
  BY <1>2
<1>4. PendingSegments' \subseteq PendingSegments /\ PendingGuaranteed' = {}
  <2>1. PendingSegments' = ((todo \ {s}) \ {0}) \cap DOMAIN tx.intents
    BY <1>2 DEF PendingSegments, InGuaranteed, ClaimKind
  <2>2. PendingSegments = (todo \ {section}) \cap DOMAIN tx.intents
    BY DEF PendingSegments, ClaimKind
  <2>3. PendingGuaranteed' = {}
    BY <1>2 DEF PendingGuaranteed
  <2> QED  BY <2>1, <2>2, <2>3
<1>5. PendingSections' \subseteq PendingSections
  BY <1>2, <1>4 DEF PendingSections
<1>6. \A h \in PendingSections' : ledger.applied[h] = 0
  BY <1>5 DEF Inv, ReplayInv, InTransaction
<1>7. \A r \in DOMAIN tx.intents :
        tx.intents[r] \in ledger.replay_protection.time_map[Body[tx.intents[r]].ttl]
  BY DEF Inv, ReplayInv, InTransaction
<1>8. HistoryInv(ledger)
  BY DEF Inv, ReplayInv
<1> QED  BY <1>1, <1>2, <1>6, <1>7, <1>8, SettleKeeps

LEMMA FailSectionKeeps ==
  ASSUME Inv, tx # NoTx, FailSection
  PROVE  Inv'
<1>1. ledger \in LedgerStates /\ HistoryInv(ledger)
  BY DEF Inv, ReplayInv, TypeInv, TypeOK
<1>2. CASE section = 0
  BY <1>1, <1>2, ReturnKeeps DEF FailSection
<1>3. CASE section # 0
  <2>1. phase = "actions" /\ section \in Segment /\ ~ InGuaranteed
    BY <1>3 DEF Inv, TypeInv, TypeOK, Control, Phase, ClaimKind, InGuaranteed
  <2> QED  BY <1>3, <2>1, FailFallibleKeeps DEF FailSection
<1> QED  BY <1>2, <1>3

-----------------------------------------------------------------------------
(* The steps of apply.                                                     *)
LEMMA BeginApplyKeeps ==
  ASSUME Inv, NEW t \in Transactions, BeginApply(t)
  PROVE  Inv'
<1> DEFINE r == ledger.replay_protection
           n == ApplyIntents(r, t.intents, IntentTtl)
           z == ApplyZswapOffer(ledger.zswap, t.guaranteed_coins)
           Item == Intent \cup Instruction
<1>1. TypeInv'
  BY BeginApplyTyped DEF Inv
<1>2. /\ phase = "idle" /\ phase' = "offer" /\ tx' = t /\ t # NoTx /\ todo' = DOMAIN t.intents
      /\ UNCHANGED <<ledger, tblock, section, queue, failed>>
      /\ IntentsOk(r, t.intents, IntentTtl, tblock, ledger.parameters.global_ttl)
  BY LedgerAssumption DEF BeginApply
<1>3. /\ ledger \in LedgerStates /\ r \in TimeFilterMaps(Item) /\ Consistent(r)
      /\ HistoryInv(ledger) /\ tblock \in Nat
  BY DEF Inv, ReplayInv, HistoryInv, TypeInv, TypeOK, LedgerStates, Time
<1>4. /\ \A s \in DOMAIN t.intents : t.intents[s] \in Intent /\ s \in Segment
      /\ IsPartial(t.intents, Segment, Intent)
  BY TransactionType
<1>5. IsInjective(t.intents)
  BY <1>2 DEF IntentsOk
<1>6. ASSUME NEW i \in Range(t.intents)
      PROVE  /\ i \in Intent /\ Body[i].ttl >= tblock
             /\ i \notin r.time_map[Body[i].ttl]
             /\ \A h \in SectionHash : h.intent = i => ledger.applied[h] = 0
  <2>1. PICK s \in DOMAIN t.intents : t.intents[s] = i
    BY DEF Range
  <2>2. i \in Intent
    BY <1>4, <2>1
  <2>3. ~ ContainsItem(r, i) /\ Body[i].ttl >= tblock
    BY <1>2, <2>1, <2>2, TtlType DEF IntentsOk, MemberOk
  <2>4. HeldAt(r, i) = {}
    BY <1>3, <2>2, <2>3, ContainsIffHeld
  <2>5. i \notin r.time_map[Body[i].ttl]
    BY <2>2, <2>4, TtlType DEF HeldAt
  <2>6. ASSUME NEW h \in SectionHash, h.intent = i  PROVE ledger.applied[h] = 0
    <3>1. ledger.applied[h] \in Nat
      BY <1>3 DEF LedgerStates
    <3>2. ~ (Body[i].ttl < tblock)
      BY <1>3, <2>2, <2>3, TtlType
    <3> QED  BY <1>3, <2>5, <2>6, <3>1, <3>2 DEF HistoryInv, Remembered
  <2> QED  BY <2>2, <2>3, <2>5, <2>6
<1>7. n \in TimeFilterMaps(Item) /\ Consistent(n)
  BY <1>3, <1>4, <1>6, ApplyIntentsCorrect, Zenon
<1>8. \A s \in Time : n.time_map[s] = r.time_map[s] \cup {i \in Range(t.intents) : IntentTtl[i] = s}
  BY DEF ApplyIntents
<1>9. work' = [ledger EXCEPT !.replay_protection = n, !.zswap = z]
  BY DEF BeginApply
<1> HIDE DEF n, z
<1>10. /\ work'.replay_protection = n /\ work'.applied = ledger.applied
       /\ work'.utxos = ledger.utxos /\ work'.spent = ledger.spent
  BY <1>3, <1>9 DEF LedgerStates
<1>11. HistoryInv(ledger)' /\ HistoryInv(work)'
  <2>1. Remembered(work)'
    <3> SUFFICES ASSUME NEW h \in SectionHash, ledger.applied[h] > 0
                 PROVE  \/ Body[h.intent].ttl < tblock
                        \/ h.intent \in n.time_map[Body[h.intent].ttl]
      BY <1>2, <1>10 DEF Remembered
    <3>1. Body[h.intent].ttl \in Time
      BY TtlType DEF SectionHash
    <3> QED  BY <1>3, <1>8, <3>1 DEF HistoryInv, Remembered
  <2>2. OutputsApplied(work)' /\ NeverBack(work)'
    BY <1>3, <1>10 DEF HistoryInv, OutputsApplied, NeverBack
  <2>3. HistoryInv(ledger)'
    BY <1>2, <1>3 DEF HistoryInv, Remembered, OutputsApplied, NeverBack
  <2>4. Consistent(work.replay_protection)'
    BY <1>7, <1>10
  <2> QED  BY <2>1, <2>2, <2>3, <2>4 DEF HistoryInv
<1>12. InGuaranteed' /\ PendingGuaranteed' = DOMAIN t.intents
  BY <1>2 DEF InGuaranteed, PendingGuaranteed
<1>13. \A h \in PendingSections' : h \in SectionHash /\ h.intent \in Range(t.intents)
  <2>1. PendingSegments' \subseteq DOMAIN t.intents /\ PendingGuaranteed' \subseteq DOMAIN t.intents
    BY <1>2 DEF PendingSegments, PendingGuaranteed
  <2> QED  BY <1>2, <1>4, <2>1 DEF PendingSections, SectionHash, Range
<1>14. \A h \in PendingSections' : ledger.applied[h] = 0
  BY <1>6, <1>13
<1>15. InTransaction'
  <2>1. \A s \in DOMAIN t.intents : t.intents[s] \in n.time_map[Body[t.intents[s]].ttl]
    BY <1>4, <1>8, TtlType DEF Range
  <2> QED  BY <1>2, <1>5, <1>10, <1>12, <1>14, <2>1 DEF InTransaction
<1>16. AppliedSoFar'
  <2> SUFFICES ASSUME NEW i \in Intent
               PROVE  LET h == [intent |-> i, segment |-> 0]
                      IN  IF i \in Range(t.intents)
                          THEN ledger.applied[h] = 0 /\ h \in PendingSections'
                          ELSE TRUE
    BY <1>2, <1>10, <1>12, Zenon DEF AppliedSoFar
  <2> DEFINE h == [intent |-> i, segment |-> 0]
  <2>1. h \in SectionHash /\ h.intent = i
    BY DEF SectionHash
  <2>2. i \in Range(t.intents) => h \in PendingSections'
    BY <1>2, <1>12 DEF PendingSections, Range
  <2> QED  BY <1>6, <2>1, <2>2
<1> QED  BY <1>1, <1>11, <1>15, <1>16 DEF Inv, ReplayInv, TypeInv

LEMMA GuaranteedOfferKeeps ==
  ASSUME Inv, GuaranteedOffer
  PROVE  Inv'
<1> DEFINE q == Min(todo)
           i == tx.intents[q]
           h == [intent |-> i, segment |-> 0]
<1>1. phase = "offer" /\ todo # {} /\ tx # NoTx /\ InGuaranteed /\ section = 0
  BY DEF GuaranteedOffer, Inv, TypeInv, TypeOK, ClaimKind, InGuaranteed, Control
<1>2. q \in todo /\ q \in DOMAIN tx.intents /\ i \in Intent
  BY <1>1, NextSegment DEF Inv
<1>3. CASE FailSection
  BY <1>1, <1>3, FailSectionKeeps
<1>4. CASE /\ UnshieldedOk(work, i, 0)
           /\ work' = ApplyUnshielded(work, i, 0)
           /\ phase' = "actions"
           /\ UNCHANGED <<ledger, tblock, tx, section, todo, failed>>
  <2>1. TypeInv'
    BY GuaranteedOfferTyped DEF Inv
  <2>2. /\ work \in LedgerStates /\ tblock \in Time /\ HistoryInv(work) /\ HistoryInv(ledger)
        /\ IsInjective(tx.intents)
    BY <1>1, InvStates, InvTransaction
  <2>3. i \in work.replay_protection.time_map[Body[i].ttl]
    BY <1>1, <1>2, InvTransaction
  <2>4. PendingSegments' = PendingSegments
    BY <1>1, <1>4 DEF PendingSegments, InGuaranteed, ClaimKind
  <2>5. PendingGuaranteed = todo /\ PendingGuaranteed' = todo \ {q}
    BY <1>1, <1>4 DEF PendingGuaranteed
  <2>6. InGuaranteed' /\ tx' # NoTx
    BY <1>1, <1>4 DEF InGuaranteed
  <2>7. h \in PendingSections
    BY <1>2, <2>5 DEF PendingSections
  <2>8. work.applied[h] = 0 /\ ledger.applied[h] = 0
    BY <1>1, <2>7, InvTransaction
  <2>9. HistoryInv(work') /\ work'.replay_protection = work.replay_protection
        /\ work'.applied = CountApplied(work.applied, i, 0)
    <3> HIDE DEF i, q
    <3>1. OfferOf(i, 0).inputs \subseteq work.utxos
      BY <1>4 DEF UnshieldedOk
    <3> QED  BY <1>2, <1>4, <2>2, <2>3, <2>8, <3>1, ApplyKeepsHistory, UnshieldedType
  <2>10. \A g \in SectionHash : work'.applied[g] = IF g = h THEN 1 ELSE work.applied[g]
    <3>1. h \in SectionHash
      BY <1>2 DEF SectionHash
    <3>2. work.applied \in [SectionHash -> Nat]
      BY <2>2 DEF LedgerStates
    <3>3. work'.applied = [work.applied EXCEPT ![h] = @ + 1]
      BY <2>9 DEF CountApplied
    <3> HIDE DEF h
    <3> QED  BY <2>8, <3>1, <3>2, <3>3
  <2>11. HistoryInv(ledger)' /\ HistoryInv(work)'
    BY <1>4, <2>2, <2>9, Zenon DEF HistoryInv, Remembered, OutputsApplied, NeverBack
  <2>12. \A s \in todo \ {q} : tx.intents[s] # i
    <3>1. todo \subseteq DOMAIN tx.intents
      BY <1>1 DEF Inv, TypeInv, Control
    <3> HIDE DEF q
    <3> QED  BY <1>2, <2>2, <3>1 DEF IsInjective
  <2>13. PendingSections' = PendingSections \ {h}
    <3> HIDE DEF i, q, h
    <3>1. PendingSections' = {[intent |-> tx.intents[s], segment |-> s] : s \in PendingSegments}
            \cup {[intent |-> tx.intents[s], segment |-> 0] : s \in todo \ {q}}
      BY <1>4, <2>4, <2>5 DEF PendingSections
    <3>2. PendingSections = {[intent |-> tx.intents[s], segment |-> s] : s \in PendingSegments}
            \cup {[intent |-> tx.intents[s], segment |-> 0] : s \in todo}
      BY <2>5 DEF PendingSections
    <3>3. \A s \in PendingSegments : [intent |-> tx.intents[s], segment |-> s] # h
      BY <1>1, PendingFacts DEF h, Inv
    <3>4. \A s \in todo : [intent |-> tx.intents[s], segment |-> 0] = h <=> s = q
      BY <1>2, <2>12 DEF h, i
    <3> QED  BY <3>1, <3>2, <3>3, <3>4
  <2>14. PendingSections \subseteq SectionHash
    BY <1>1, PendingFacts DEF Inv
  <2>15. InTransaction'
    <3>1. \A g \in PendingSections' : ledger'.applied[g] = 0 /\ work'.applied[g] = 0
      BY <1>1, <1>4, <2>10, <2>13, <2>14, InvTransaction
    <3>2. \A s \in DOMAIN tx.intents :
            tx.intents[s] \in work'.replay_protection.time_map[Body[tx.intents[s]].ttl]
      BY <1>1, <2>9, InvTransaction
    <3>3. IsInjective(tx.intents) /\ tx' = tx
      BY <1>4, <2>2
    <3> HIDE DEF i, q, h
    <3> QED  BY <2>6, <3>1, <3>2, <3>3, Zenon DEF InTransaction
  <2>16. AppliedSoFar'
    <3> SUFFICES ASSUME NEW j \in Intent
                 PROVE  LET g == [intent |-> j, segment |-> 0]
                        IN  IF j \in Range(tx.intents)
                            THEN /\ ledger.applied[g] = 0
                                 /\ work'.applied[g] = IF g \in PendingSections' THEN 0 ELSE 1
                            ELSE work'.applied[g] = ledger.applied[g]
      BY <1>4, <2>6, Zenon DEF AppliedSoFar
    <3> DEFINE g == [intent |-> j, segment |-> 0]
    <3>1. g \in SectionHash
      BY DEF SectionHash
    <3>2. IF j \in Range(tx.intents)
          THEN /\ ledger.applied[g] = 0
               /\ work.applied[g] = IF g \in PendingSections THEN 0 ELSE 1
          ELSE work.applied[g] = ledger.applied[g]
      BY <1>1 DEF Inv, ReplayInv, AppliedSoFar
    <3>3. g = h <=> j = i
      OBVIOUS
    <3>4. i \in Range(tx.intents)
      BY <1>2 DEF Range
    <3> HIDE DEF g, h, i
    <3> QED  BY <2>10, <2>13, <3>1, <3>2, <3>3, <3>4 DEF g
  <2> QED  BY <2>1, <2>11, <2>15, <2>16 DEF Inv, ReplayInv, TypeInv
<1> QED  BY <1>3, <1>4 DEF GuaranteedOffer

LEMMA RunActionKeeps ==
  ASSUME Inv, RunAction
  PROVE  Inv'
<1>1. phase = "actions" /\ tx # NoTx
  BY DEF RunAction, Inv, TypeInv, TypeOK, ClaimKind
<1>2. CASE FailSection
  BY <1>1, <1>2, FailSectionKeeps
<1>3. CASE ~ FailSection
  <2>1. TypeInv'
    BY RunActionTyped DEF Inv
  <2>2. PICK c, m : work' = [work EXCEPT !.contract = c, !.minted = m]
    BY <1>3, Zenon DEF RunAction
  <2>3. UNCHANGED <<ledger, tblock, phase, tx, section, todo, failed>>
    BY <1>3 DEF RunAction
  <2>4. work \in LedgerStates
    BY DEF Inv, TypeInv, TypeOK
  <2>5. SameHistory(work, work')
    BY <2>2, <2>4 DEF SameHistory, LedgerStates
  <2>6. (InGuaranteed' <=> InGuaranteed) /\ PendingSections' = PendingSections
    BY <2>3 DEF InGuaranteed, PendingSections, PendingSegments, PendingGuaranteed
  <2> QED  BY <2>1, <2>3, <2>5, <2>6, QuietKeeps
<1> QED  BY <1>2, <1>3

LEMMA NextIntentKeeps ==
  ASSUME Inv, NextIntent
  PROVE  Inv'
<1>1. TypeInv'
  BY NextIntentTyped DEF Inv
<1>2. /\ phase = "actions" /\ section = 0 /\ phase' = "offer" /\ todo' = todo \ {Min(todo)}
      /\ UNCHANGED <<ledger, work, tblock, tx, section, queue, failed>>
  BY DEF NextIntent
<1>3. InGuaranteed /\ InGuaranteed'
  BY <1>2 DEF InGuaranteed
<1>4. PendingSegments' = PendingSegments /\ PendingGuaranteed' = PendingGuaranteed
  BY <1>2, <1>3 DEF PendingSegments, PendingGuaranteed, ClaimKind
<1>5. PendingSections' = PendingSections /\ SameHistory(work, work')
  BY <1>2, <1>4 DEF PendingSections, SameHistory
<1> QED  BY <1>1, <1>2, <1>3, <1>5, QuietKeeps

LEMMA DustKeeps ==
  ASSUME Inv, DustSpends \/ Register
  PROVE  Inv'
<1>1. tx # NoTx /\ InGuaranteed
  BY DEF DustSpends, Register, Inv, TypeInv, TypeOK, ClaimKind, InGuaranteed
<1>2. CASE FailSection
  BY <1>1, <1>2, FailSectionKeeps
<1>3. CASE ~ FailSection
  <2>1. TypeInv'
    BY DustSpendsTyped, RegisterTyped DEF Inv
  <2>2. PICK d : work' = [work EXCEPT !.dust = d]
    BY <1>3 DEF DustSpends, Register
  <2>3. /\ UNCHANGED <<ledger, tblock, tx, section, queue, failed>>
        /\ phase' = "registrations" /\ PendingGuaranteed = {}
    BY <1>3 DEF DustSpends, Register, PendingGuaranteed
  <2>4. work \in LedgerStates
    BY DEF Inv, TypeInv, TypeOK
  <2>5. SameHistory(work, work')
    BY <2>2, <2>4 DEF SameHistory, LedgerStates
  <2>6. InGuaranteed' /\ PendingGuaranteed' = {}
    BY <2>3 DEF InGuaranteed, PendingGuaranteed
  <2>7. PendingSegments = DOMAIN tx.intents /\ PendingSegments' = DOMAIN tx.intents
    BY <1>1, <2>3, <2>6 DEF PendingSegments, InGuaranteed, ClaimKind
  <2>8. PendingSections' = PendingSections
    BY <2>3, <2>6, <2>7 DEF PendingSections
  <2> QED  BY <1>1, <2>1, <2>3, <2>5, <2>6, <2>8, QuietKeeps
<1> QED  BY <1>2, <1>3

LEMMA EndGuaranteedKeeps ==
  ASSUME Inv, EndGuaranteed
  PROVE  Inv'
<1>1. phase = "registrations" /\ tx # NoTx /\ InGuaranteed /\ section = 0
  BY DEF EndGuaranteed, Inv, TypeInv, TypeOK, ClaimKind, InGuaranteed, Control
<1>2. CASE FailSection
  BY <1>1, <1>2, FailSectionKeeps
<1>3. CASE ~ FailSection
  <2>1. TypeInv'
    BY EndGuaranteedTyped DEF Inv
  <2>2. /\ ledger' = work /\ work' = work /\ UNCHANGED <<tblock, tx>>
        /\ phase' = "fallible" /\ section' = 0 /\ todo' = FallibleSegments(tx)
    BY <1>1, <1>3 DEF EndGuaranteed
  <2>3. PendingSegments = DOMAIN tx.intents
    BY <1>1 DEF PendingSegments, ClaimKind
  <2>4. PendingSegments' \subseteq DOMAIN tx.intents /\ PendingGuaranteed' = {}
    BY <2>2 DEF PendingSegments, PendingGuaranteed, InGuaranteed
  <2>5. PendingSections' \subseteq PendingSections
    BY <2>2, <2>3, <2>4 DEF PendingSections
  <2>6. \A h \in PendingSections' : work.applied[h] = 0
    BY <1>1, <2>5, InvTransaction
  <2>7. \A r \in DOMAIN tx.intents :
          tx.intents[r] \in work.replay_protection.time_map[Body[tx.intents[r]].ttl]
    BY <1>1, InvTransaction
  <2>8. HistoryInv(work)
    BY InvStates
  <2> QED  BY <1>1, <2>1, <2>2, <2>6, <2>7, <2>8, SettleKeeps
<1> QED  BY <1>2, <1>3

LEMMA EndFallibleKeeps ==
  ASSUME Inv, EndFallible
  PROVE  Inv'
<1>1. phase = "actions" /\ section # 0 /\ tx # NoTx /\ ~ InGuaranteed
  BY DEF EndFallible, Inv, TypeInv, TypeOK, ClaimKind, InGuaranteed
<1>2. CASE FailSection
  BY <1>1, <1>2, FailSectionKeeps
<1>3. CASE ~ FailSection
  <2>1. TypeInv'
    BY EndFallibleTyped DEF Inv
  <2>2. /\ ledger' = work /\ work' = work /\ UNCHANGED <<tblock, tx>>
        /\ phase' = "fallible" /\ section' = 0 /\ todo' = todo \ {section}
    BY <1>3 DEF EndFallible
  <2>3. PendingSegments = (todo \ {section}) \cap DOMAIN tx.intents
    BY <1>1 DEF PendingSegments, ClaimKind
  <2>4. PendingSegments' \subseteq PendingSegments /\ PendingGuaranteed' = {}
    BY <2>2, <2>3 DEF PendingSegments, PendingGuaranteed, InGuaranteed
  <2>5. PendingSections' \subseteq PendingSections
    BY <2>2, <2>4 DEF PendingSections
  <2>6. \A h \in PendingSections' : work.applied[h] = 0
    BY <1>1, <2>5, InvTransaction
  <2>7. \A r \in DOMAIN tx.intents :
          tx.intents[r] \in work.replay_protection.time_map[Body[tx.intents[r]].ttl]
    BY <1>1, InvTransaction
  <2>8. HistoryInv(work)
    BY InvStates
  <2> QED  BY <1>1, <2>1, <2>2, <2>6, <2>7, <2>8, SettleKeeps
<1> QED  BY <1>2, <1>3

LEMMA StartFallibleKeeps ==
  ASSUME Inv, StartFallible
  PROVE  Inv'
<1> DEFINE s == Min(todo)
           l == [work EXCEPT !.zswap = ApplyZswapOffer(@, ShieldedOffer(tx, s))]
           i == tx.intents[s]
           h == [intent |-> i, segment |-> s]
<1>1. phase = "fallible" /\ todo # {} /\ tx # NoTx /\ section = 0 /\ ~ InGuaranteed
  BY DEF StartFallible, Inv, TypeInv, TypeOK, ClaimKind, InGuaranteed, Control
<1>2. s \in todo /\ s \in Segment /\ s # 0 /\ tx \in Transactions
  BY <1>1, NextSegment, LedgerAssumption DEF Inv
<1>3. CASE FailFallible(s)
  <2> HIDE DEF s
  <2> QED  BY <1>1, <1>2, <1>3, FailFallibleKeeps
<1>4. CASE /\ FallibleOk(work, tx, s)
           /\ work' = IF s \in DOMAIN tx.intents THEN ApplyUnshielded(l, i, s) ELSE l
           /\ phase' = "actions" /\ section' = s
           /\ UNCHANGED <<ledger, tblock, tx, todo, failed>>
  <2>1. TypeInv'
    BY StartFallibleTyped DEF Inv
  <2>2. /\ work \in LedgerStates /\ tblock \in Time /\ HistoryInv(work) /\ HistoryInv(ledger)
    BY InvStates
  <2> HIDE DEF s
  <2>3. l \in LedgerStates /\ SameHistory(work, l)
    BY <1>1, <1>2, <1>4, ShieldedOfferTyped DEF Inv
  <2>4. HistoryInv(l)
    <3> HIDE DEF l
    <3> QED  BY <2>2, <2>3, SameHistoryInv
  <2>5. ~ InGuaranteed' /\ tx' # NoTx
    BY <1>1, <1>2, <1>4 DEF InGuaranteed
  <2>6. /\ PendingSegments = todo \cap DOMAIN tx.intents
        /\ PendingSegments' = (todo \ {s}) \cap DOMAIN tx.intents
        /\ PendingGuaranteed = {} /\ PendingGuaranteed' = {}
    <3>1. PendingSegments = (todo \ {0}) \cap DOMAIN tx.intents
      BY <1>1 DEF PendingSegments, ClaimKind
    <3>2. 0 \notin todo
      BY <1>1, NextSegment, LedgerAssumption DEF Inv
    <3>3. PendingSegments' = (todo \ {s}) \cap DOMAIN tx.intents
      BY <1>4, <2>5 DEF PendingSegments, ClaimKind
    <3>4. PendingGuaranteed = {} /\ PendingGuaranteed' = {}
      BY <1>1, <1>2, <1>4 DEF PendingGuaranteed
    <3> QED  BY <3>1, <3>2, <3>3, <3>4
  <2>7. PendingSections' \subseteq PendingSections
    BY <1>4, <2>6 DEF PendingSections
  <2>8. \A g \in PendingSections' : g \in SectionHash /\ g # h
    <3>1. PendingSections \subseteq SectionHash
      BY <1>1, PendingFacts DEF Inv
    <3>2. \A r \in PendingSegments' : [intent |-> tx.intents[r], segment |-> r] # h
      BY <2>6
    <3>3. PendingSections' = {[intent |-> tx.intents[r], segment |-> r] : r \in PendingSegments'}
      BY <1>4, <2>6 DEF PendingSections
    <3> QED  BY <2>7, <3>1, <3>2, <3>3
  <2> HIDE DEF l
  <2>9. /\ HistoryInv(work')
        /\ work'.replay_protection = work.replay_protection
        /\ \A g \in SectionHash : g # h => work'.applied[g] = work.applied[g]
    <3>1. CASE s \notin DOMAIN tx.intents
      BY <1>4, <2>3, <2>4, <3>1 DEF SameHistory
    <3>2. CASE s \in DOMAIN tx.intents
      <4>1. i \in Intent
        BY <1>2, <3>2, TransactionType
      <4>2. h \in PendingSections
        BY <1>2, <2>6, <3>2 DEF PendingSections
      <4>3. l.applied[h] = 0
        BY <1>1, <2>3, <4>2, InvTransaction DEF SameHistory
      <4>4. i \in l.replay_protection.time_map[Body[i].ttl]
        BY <1>1, <2>3, <3>2, InvTransaction DEF SameHistory
      <4>5. OfferOf(i, s).inputs \subseteq l.utxos
        BY <1>4, <2>3, <3>2 DEF FallibleOk, UnshieldedOk, SameHistory
      <4>6. s \in Segment \cup {0}
        BY <1>2
      <4> HIDE DEF i
      <4>7. HistoryInv(ApplyUnshielded(l, i, s))
        BY <2>2, <2>3, <2>4, <4>1, <4>3, <4>4, <4>5, <4>6, ApplyKeepsHistory
      <4>8. /\ work'.applied = CountApplied(l.applied, i, s)
            /\ work'.replay_protection = l.replay_protection
        BY <1>4, <2>2, <2>3, <3>2, <4>1, <4>6, UnshieldedType
      <4>9. \A g \in SectionHash : g # h => work'.applied[g] = l.applied[g]
        <5>1. l.applied \in [SectionHash -> Nat]
          BY <2>3 DEF LedgerStates
        <5>2. work'.applied = [l.applied EXCEPT ![h] = @ + 1]
          BY <4>8 DEF CountApplied
        <5> HIDE DEF h
        <5> QED  BY <5>1, <5>2
      <4>10. HistoryInv(work')
        BY <1>4, <3>2, <4>7
      <4> QED  BY <2>3, <4>8, <4>9, <4>10 DEF SameHistory
    <3> QED  BY <3>1, <3>2
  <2>10. HistoryInv(ledger)' /\ HistoryInv(work)'
    BY <1>4, <2>2, <2>9, Zenon DEF HistoryInv, Remembered, OutputsApplied, NeverBack
  <2>11. InTransaction'
    <3>1. \A g \in PendingSections' : ledger'.applied[g] = 0 /\ work'.applied[g] = 0
      BY <1>1, <1>4, <2>7, <2>8, <2>9, Zenon DEF Inv, ReplayInv, InTransaction
    <3> QED  BY <1>1, <1>4, <2>5, <2>9, <3>1, Zenon DEF Inv, ReplayInv, InTransaction
  <2>12. AppliedSoFar'
    <3> SUFFICES ASSUME NEW j \in Intent
                 PROVE  work'.applied[[intent |-> j, segment |-> 0]]
                          = ledger.applied[[intent |-> j, segment |-> 0]]
      BY <1>4, <2>5, Zenon DEF AppliedSoFar
    <3> DEFINE g == [intent |-> j, segment |-> 0]
    <3>1. g \in SectionHash /\ g # h
      BY <1>2 DEF SectionHash
    <3>2. work.applied[g] = ledger.applied[g]
      BY <1>1 DEF Inv, ReplayInv, AppliedSoFar
    <3> QED  BY <2>9, <3>1, <3>2
  <2> QED  BY <2>1, <2>10, <2>11, <2>12 DEF Inv, ReplayInv, TypeInv
<1> QED  BY <1>3, <1>4 DEF StartFallible

=============================================================================
