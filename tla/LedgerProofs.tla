------------------------------ MODULE LedgerProofs ------------------------------
(***************************************************************************)
(* Replay protection, for all values of the constants: ReplayInv is        *)
(* inductive, no output is ever made twice, no spent UTXO comes back, and  *)
(* the ledger implements the unbounded history of intents.                 *)
(***************************************************************************)
EXTENDS LedgerSteps

-----------------------------------------------------------------------------
(* Claims, system transactions and the end of a block.                     *)
LEMMA ClaimKeeps ==
  ASSUME Inv, NEW kind \in ClaimKind, NEW c \in Instruction, Claim(kind, c)
  PROVE  Inv'
<1>1. ledger \in LedgerStates /\ HistoryInv(ledger) /\ tblock \in Time
  BY InvStates
<1>2. /\ c.amount <= Claimable(ledger, kind)[c.target_address]
      /\ ~ ContainsItem(ledger.replay_protection, c)
      /\ Return(AfterClaim(ledger, kind, c))
  BY DEF Claim, MemberOk
<1>3. AfterClaim(ledger, kind, c) \in LedgerStates /\ HistoryInv(AfterClaim(ledger, kind, c))
  BY <1>1, <1>2, ClaimType, ClaimKeepsHistory, Zenon
<1> QED  BY <1>2, <1>3, ReturnKeeps

LEMMA OverwriteParametersKeeps ==
  ASSUME Inv, NEW p \in Parameters, OverwriteParameters(p)
  PROVE  Inv'
<1> DEFINE new == [ledger EXCEPT !.parameters = p]
<1>1. ledger \in LedgerStates /\ HistoryInv(ledger)
  BY DEF Inv, ReplayInv, TypeInv, TypeOK
<1>2. new \in LedgerStates /\ SameHistory(ledger, new)
  BY <1>1 DEF LedgerStates, SameHistory
<1>3. Return(new)
  BY DEF OverwriteParameters
<1> HIDE DEF new
<1>4. HistoryInv(new)
  BY <1>1, <1>2, SameHistoryInv
<1> QED  BY <1>2, <1>3, <1>4, ReturnKeeps

LEMMA PoolsKeep ==
  ASSUME Inv, NEW n \in Amount,
         \/ PayBlockRewardsToTreasury(n) \/ UnlockToTreasury(n)
         \/ DistributeReserve(n) \/ UnlockToReserve(n)
  PROVE  Inv'
<1>1. ledger \in LedgerStates /\ HistoryInv(ledger) /\ n \in Nat
  BY LedgerAssumption DEF Inv, ReplayInv, TypeInv, TypeOK
<1>2. PICK new \in LedgerStates : Return(new) /\ SameHistory(ledger, new)
  BY <1>1, PoolsType
     DEF PayBlockRewardsToTreasury, UnlockToTreasury, DistributeReserve, UnlockToReserve
<1>3. HistoryInv(new)
  BY <1>1, <1>2, SameHistoryInv
<1> QED  BY <1>2, <1>3, ReturnKeeps

LEMMA BeginDistributeKeeps ==
  ASSUME Inv, NEW kind \in ClaimKind, NEW outputs \in Distributions,
         BeginDistribute(kind, outputs)
  PROVE  Inv'
<1>1. TypeInv' /\ SameHistory(ledger, work')
  BY BeginDistributeTyped DEF Inv
<1>2. /\ phase = "idle" /\ phase' = kind /\ UNCHANGED <<ledger, tblock, tx, section, todo, failed>>
      /\ tx = NoTx /\ work = ledger
  BY DEF BeginDistribute, Inv, TypeInv, TypeOK, Control
<1>3. ~ InGuaranteed /\ ~ InGuaranteed'
  BY <1>2 DEF InGuaranteed, ClaimKind
<1>4. PendingSections' = PendingSections
  <2>1. PendingSegments = {} /\ PendingSegments' = {}
    BY <1>2 DEF PendingSegments, ClaimKind
  <2>2. PendingGuaranteed = {} /\ PendingGuaranteed' = {}
    BY <1>2 DEF PendingGuaranteed, ClaimKind
  <2> QED  BY <2>1, <2>2, <1>2 DEF PendingSections
<1> QED  BY <1>1, <1>2, <1>3, <1>4, QuietKeeps

LEMMA DistributeOutputKeeps ==
  ASSUME Inv, DistributeOutput
  PROVE  Inv'
<1> DEFINE o == Head(queue)
<1>1. /\ phase \in ClaimKind /\ queue # <<>> /\ queue \in Seq(Instruction) /\ tx = NoTx
      /\ work \in LedgerStates /\ ledger \in LedgerStates /\ tblock \in Time
      /\ HistoryInv(work) /\ HistoryInv(ledger)
  BY DEF DistributeOutput, Inv, ReplayInv, TypeInv, TypeOK, Queues, ClaimKind
<1>2. o \in Instruction
  BY <1>1
<1>3. CASE Return(ledger)
  BY <1>1, <1>3, ReturnKeeps
<1>4. CASE ~ Return(ledger)
  <2>1. TypeInv'
    BY DistributeOutputTyped DEF Inv
  <2>2. /\ phase = "CardanoBridge" => BridgeFeeOk(work.parameters, o.amount)
        /\ ~ ContainsItem(work.replay_protection, o)
        /\ work' = AfterOutput(work, phase, o)
        /\ UNCHANGED <<ledger, tblock, phase, tx, section, todo, failed>>
    BY <1>4, Zenon DEF DistributeOutput, MemberOk
  <2> HIDE DEF o
  <2>3. HistoryInv(work') /\ work'.applied = work.applied
    BY <1>1, <1>2, <2>2, OutputKeepsHistory, OutputType
  <2>4. HistoryInv(ledger)' /\ HistoryInv(work)'
    BY <1>1, <2>2, <2>3, Zenon DEF HistoryInv, Remembered, OutputsApplied, NeverBack
  <2>5. InTransaction'
    BY <1>1, <2>2 DEF InTransaction
  <2>6. AppliedSoFar'
    BY <1>1, <2>2, <2>3, Zenon DEF Inv, ReplayInv, AppliedSoFar, InGuaranteed, ClaimKind
  <2> QED  BY <2>1, <2>4, <2>5, <2>6 DEF Inv, ReplayInv, TypeInv
<1> QED  BY <1>3, <1>4

LEMMA CNightKeeps ==
  ASSUME Inv, (\E events \in CNightBatches : BeginCNight(events)) \/ CNightStep
  PROVE  Inv'
<1>1. /\ work \in LedgerStates /\ ledger \in LedgerStates /\ HistoryInv(ledger) /\ tx = NoTx
  BY DEF BeginCNight, CNightStep, Inv, ReplayInv, TypeInv, TypeOK
<1>2. CASE Return(ledger)
  BY <1>1, <1>2, ReturnKeeps
<1>3. CASE ~ Return(ledger)
  <2>1. TypeInv'
    BY BeginCNightTyped, CNightStepTyped DEF Inv
  <2>2. /\ phase \in {"idle", "cnight"} /\ phase' = "cnight"
        /\ UNCHANGED <<ledger, tblock, tx, section, todo, failed>>
    BY <1>3 DEF BeginCNight, CNightStep
  <2>3. work' = work \/ \E d : work' = [work EXCEPT !.dust = d]
    BY <1>3 DEF BeginCNight, CNightStep
  <2>4. SameHistory(work, work')
    BY <1>1, <2>3 DEF SameHistory, LedgerStates
  <2>5. ~ InGuaranteed /\ ~ InGuaranteed'
    BY <2>2 DEF InGuaranteed
  <2>6. PendingSections' = PendingSections
    BY <2>2 DEF PendingSections, PendingSegments, PendingGuaranteed
  <2> QED  BY <2>1, <2>2, <2>4, <2>5, <2>6, QuietKeeps
<1> QED  BY <1>2, <1>3

(* A block that ends forgets only intents that can no longer be applied.   *)
LEMMA EndBlockKeeps ==
  ASSUME Inv, NEW t \in 0 .. MaxTime - 1, EndBlock(t)
  PROVE  Inv'
<1> DEFINE m == AfterBlock(ledger)
           r == ledger.replay_protection
<1>1. TypeInv'
  BY EndBlockTyped DEF Inv
<1>2. /\ phase = "idle" /\ t >= tblock /\ ledger' = m /\ work' = m /\ tblock' = t
      /\ UNCHANGED <<phase, tx, section, todo, queue, failed>> /\ tx = NoTx
  BY DEF EndBlock, Inv, TypeInv, TypeOK
<1>3. /\ ledger \in LedgerStates /\ tblock \in Time /\ tblock \in Nat /\ HistoryInv(ledger)
      /\ r \in TimeFilterMaps(Intent \cup Instruction) /\ Consistent(r)
  BY DEF Inv, ReplayInv, HistoryInv, TypeInv, TypeOK, LedgerStates, Time
<1>4. /\ m.replay_protection = Filter(r, tblock) /\ m.utxos = ledger.utxos
      /\ m.spent = ledger.spent /\ m.applied = ledger.applied
  BY <1>3, BlockType
<1>a. t \in Nat /\ tblock \in Nat /\ tblock <= t
  BY <1>2, <1>3
<1>5. Consistent(m.replay_protection)
  BY <1>3, <1>4, FilterCorrect
<1>6. \A s \in Time : ~ (s < tblock) => m.replay_protection.time_map[s] = r.time_map[s]
  BY <1>4 DEF Filter
<1> HIDE DEF m
<1>7. ASSUME NEW h \in SectionHash, m.applied[h] > 0
      PROVE  \/ Body[h.intent].ttl < t
             \/ h.intent \in m.replay_protection.time_map[Body[h.intent].ttl]
  <2>1. Body[h.intent].ttl \in Time /\ Body[h.intent].ttl \in Nat
    BY TtlType DEF SectionHash
  <2>2. \/ Body[h.intent].ttl < tblock
        \/ h.intent \in r.time_map[Body[h.intent].ttl]
    BY <1>3, <1>4, <1>7, Zenon DEF HistoryInv, Remembered
  <2>3. CASE Body[h.intent].ttl < tblock
    BY <1>a, <2>1, <2>3
  <2>4. CASE ~ (Body[h.intent].ttl < tblock)
    BY <1>6, <2>1, <2>2, <2>4
  <2> QED  BY <2>3, <2>4
<1>8. Remembered(ledger)'
  BY <1>2, <1>7 DEF Remembered
<1>9. OutputsApplied(ledger)' /\ NeverBack(ledger)'
  BY <1>2, <1>3, <1>4 DEF HistoryInv, OutputsApplied, NeverBack
<1>10. HistoryInv(ledger)'
  BY <1>2, <1>5, <1>8, <1>9 DEF HistoryInv
<1>11. HistoryInv(work)'
  BY <1>2, <1>10 DEF HistoryInv, Remembered, OutputsApplied, NeverBack
<1>12. InTransaction'
  BY <1>2 DEF InTransaction
<1>13. AppliedSoFar'
  BY <1>2 DEF AppliedSoFar, InGuaranteed
<1> QED  BY <1>1, <1>10, <1>11, <1>12, <1>13 DEF Inv, ReplayInv, TypeInv

-----------------------------------------------------------------------------
LEMMA InvInit ==
  ASSUME Init
  PROVE  Inv
<1>1. TypeInv
  BY TypeInvInit
<1>2. PICK g \in Genesis : ledger = GenesisState(g) /\ work = ledger /\ phase = "idle" /\ tx = NoTx
  BY DEF Init
<1>3. /\ ledger.replay_protection = NewMap(Intent \cup Instruction) /\ ledger.utxos = {}
      /\ ledger.spent = {} /\ ledger.applied = [h \in SectionHash |-> 0]
  BY <1>2 DEF GenesisState
<1>4. Consistent(ledger.replay_protection)
  BY <1>3, NewMapCorrect
<1>5. Remembered(ledger) /\ OutputsApplied(ledger) /\ NeverBack(ledger)
  BY <1>3 DEF Remembered, OutputsApplied, NeverBack
<1>6. HistoryInv(ledger) /\ HistoryInv(work)
  BY <1>2, <1>4, <1>5 DEF HistoryInv
<1>7. InTransaction /\ AppliedSoFar
  BY <1>2, Zenon DEF InTransaction, AppliedSoFar, InGuaranteed
<1> QED  BY <1>1, <1>6, <1>7 DEF Inv, ReplayInv, TypeInv

LEMMA ReturnWorkKeeps ==
  ASSUME Inv, EndApply \/ EndDistribute \/ EndCNight
  PROVE  Inv'
<1>1. /\ ledger \in LedgerStates /\ work \in LedgerStates
      /\ HistoryInv(ledger) /\ HistoryInv(work)
  BY DEF Inv, ReplayInv, TypeInv, TypeOK
<1>2. Return(ledger) \/ Return(work)
  BY DEF EndApply, EndDistribute, EndCNight
<1> QED  BY <1>1, <1>2, ReturnKeeps

LEMMA InvNext ==
  ASSUME Inv, [Next]_vars
  PROVE  Inv'
<1>1. CASE UNCHANGED vars
  <2>1. TypeInv'
    BY <1>1, TypeInvNext DEF Inv
  <2>2. SameHistory(work, work')
    BY <1>1 DEF vars, SameHistory
  <2>3. (InGuaranteed' <=> InGuaranteed) /\ PendingSections' = PendingSections
    BY <1>1 DEF vars, InGuaranteed, PendingSections, PendingSegments, PendingGuaranteed
  <2> QED  BY <1>1, <2>1, <2>2, <2>3, QuietKeeps DEF vars
<1>2. CASE ApplyTransaction
  BY <1>2, BeginApplyKeeps, GuaranteedOfferKeeps, RunActionKeeps, NextIntentKeeps, DustKeeps,
     EndGuaranteedKeeps, StartFallibleKeeps, EndFallibleKeeps, ReturnWorkKeeps
     DEF ApplyTransaction
<1>3. CASE ApplySystemTx
  BY <1>3, OverwriteParametersKeeps, PoolsKeep, BeginDistributeKeeps, DistributeOutputKeeps,
     CNightKeeps, ReturnWorkKeeps DEF ApplySystemTx
<1>4. CASE \E kind \in ClaimKind, c \in Instruction : Claim(kind, c)
  BY <1>4, ClaimKeeps
<1>5. CASE \E t \in 0 .. MaxTime - 1 : EndBlock(t)
  BY <1>5, EndBlockKeeps
<1> QED  BY <1>1, <1>2, <1>3, <1>4, <1>5 DEF Next

(* The strengthening holds in every reachable state.                       *)
THEOREM ReplayCorrect == Spec => []ReplayInv
<1>1. Init => Inv
  BY InvInit
<1>2. Inv /\ [Next]_vars => Inv'
  BY InvNext
<1>3. Inv => ReplayInv
  BY DEF Inv
<1> QED  BY <1>1, <1>2, <1>3, PTL DEF Spec

(* UtxoState::apply_offer is right not to check that the outputs are new:  *)
(* what a pending section creates neither exists nor ever existed.         *)
THEOREM OutputsAreFresh == Spec => []FreshOutputs
<1>1. Init => Inv
  BY InvInit
<1>2. Inv /\ [Next]_vars => Inv'
  BY InvNext
<1>3. Inv => FreshOutputs
  <2> SUFFICES ASSUME Inv, NEW h \in PendingSections,
                      NEW u \in Created(h.intent, h.segment), u \in work.utxos \cup work.spent
               PROVE  FALSE
    BY DEF FreshOutputs
  <2>1. tx # NoTx
    <3>1. PendingSegments # {} \/ PendingGuaranteed # {}
      BY DEF PendingSections
    <3> QED  BY <3>1 DEF PendingSegments, PendingGuaranteed, Inv, TypeInv, TypeOK, ClaimKind
  <2>2. h \in SectionHash
    BY <2>1, PendingFacts DEF Inv
  <2>3. u.intent_hash = h
    <3>1. PICK k \in DOMAIN OfferOf(h.intent, h.segment).outputs :
            u = [value |-> OfferOf(h.intent, h.segment).outputs[k].value,
                 owner |-> OfferOf(h.intent, h.segment).outputs[k].owner,
                 type_ |-> OfferOf(h.intent, h.segment).outputs[k].type_,
                 intent_hash |-> [intent |-> h.intent, segment |-> h.segment],
                 output_no |-> k - 1]
      BY DEF Created
    <3>2. h = [intent |-> h.intent, segment |-> h.segment]
      BY <2>2 DEF SectionHash
    <3> QED  BY <3>1, <3>2
  <2>4. work.applied[h] > 0
    BY <2>2, <2>3, Zenon DEF Inv, ReplayInv, HistoryInv, OutputsApplied
  <2>5. work.applied[h] = 0
    BY <2>1 DEF Inv, ReplayInv, InTransaction
  <2> QED  BY <2>4, <2>5
<1> QED  BY <1>1, <1>2, <1>3, PTL DEF Spec

(* A UTXO made by an intent that was spent never comes back.               *)
THEOREM SpentStaysSpent == Spec => []NoResurrection
<1>1. ReplayInv => NoResurrection
  BY DEF ReplayInv, HistoryInv, NoResurrection
<1> QED  BY <1>1, ReplayCorrect, PTL

-----------------------------------------------------------------------------
(* The refinement.  Only the end of a guaranteed section changes how often *)
(* the guaranteed sections of intents were applied.                        *)
GuaranteedCount(i) == ledger.applied[[intent |-> i, segment |-> 0]]

LEMMA OnlyEndGuaranteedCounts ==
  ASSUME Inv, [Next]_vars
  PROVE  \/ \A i \in Intent : GuaranteedCount(i)' = GuaranteedCount(i)
         \/ EndGuaranteed /\ ledger' = work
<1> SUFFICES ASSUME ~ (EndGuaranteed /\ ledger' = work)
             PROVE  \A i \in Intent : ledger'.applied[[intent |-> i, segment |-> 0]]
                                        = ledger.applied[[intent |-> i, segment |-> 0]]
  BY DEF GuaranteedCount
<1>1. /\ ledger \in LedgerStates /\ tblock \in Time
  BY DEF Inv, TypeInv, TypeOK
<1>2. ~ InGuaranteed => \A i \in Intent : work.applied[[intent |-> i, segment |-> 0]]
                                            = ledger.applied[[intent |-> i, segment |-> 0]]
  BY Zenon DEF Inv, ReplayInv, AppliedSoFar
<1>3. CASE UNCHANGED vars
  BY <1>3 DEF vars
<1>4. CASE ApplyTransaction
  <2>1. CASE \E t \in Transactions : BeginApply(t)
    BY <2>1 DEF BeginApply
  <2>2. CASE \/ GuaranteedOffer \/ RunAction \/ NextIntent \/ DustSpends \/ Register
             \/ EndGuaranteed \/ StartFallible \/ EndApply
    <3>1. ledger' = ledger
      BY <2>2, Zenon DEF GuaranteedOffer, RunAction, NextIntent, DustSpends, Register, EndGuaranteed,
                  StartFallible, EndApply, FailSection, FailFallible, Return
    <3> QED  BY <3>1
  <2>3. CASE EndFallible
    <3>1. ~ InGuaranteed
      BY <2>3 DEF EndFallible, InGuaranteed
    <3>2. ledger' = ledger \/ ledger' = work
      BY <2>3 DEF EndFallible, FailSection, FailFallible, Return
    <3> QED  BY <1>2, <3>1, <3>2, Zenon
  <2> QED  BY <1>4, <2>1, <2>2, <2>3, Zenon DEF ApplyTransaction
<1>5. CASE ApplySystemTx
  <2>1. CASE \E p \in Parameters : OverwriteParameters(p)
    BY <1>1, <2>1 DEF OverwriteParameters, Return, LedgerStates
  <2>2. CASE \E n \in Amount : \/ PayBlockRewardsToTreasury(n) \/ UnlockToTreasury(n)
                               \/ DistributeReserve(n) \/ UnlockToReserve(n)
    <3>1. PICK n \in Amount : \/ PayBlockRewardsToTreasury(n) \/ UnlockToTreasury(n)
                              \/ DistributeReserve(n) \/ UnlockToReserve(n)
      BY <2>2
    <3>2. n \in Nat
      BY LedgerAssumption
    <3>3. SameHistory(ledger, ledger')
      BY <1>1, <3>1, <3>2, PoolsType
         DEF PayBlockRewardsToTreasury, UnlockToTreasury, DistributeReserve, UnlockToReserve,
             Return
    <3> QED  BY <3>3 DEF SameHistory
  <2>3. CASE \E kind \in ClaimKind, outputs \in Distributions : BeginDistribute(kind, outputs)
    BY <2>3 DEF BeginDistribute
  <2>4. CASE (\E events \in CNightBatches : BeginCNight(events)) \/ CNightStep \/ DistributeOutput
    BY <2>4 DEF BeginCNight, CNightStep, DistributeOutput, Return
  <2>5. CASE EndDistribute \/ EndCNight
    <3>1. ~ InGuaranteed
      BY <2>5 DEF EndDistribute, EndCNight, InGuaranteed, ClaimKind
    <3>2. ledger' = ledger \/ ledger' = work
      BY <2>5 DEF EndDistribute, EndCNight, Return
    <3> QED  BY <1>2, <3>1, <3>2, Zenon
  <2> QED  BY <1>5, <2>1, <2>2, <2>3, <2>4, <2>5, Zenon DEF ApplySystemTx
<1>6. CASE \E kind \in ClaimKind, c \in Instruction : Claim(kind, c)
  <2>1. PICK kind \in ClaimKind, c \in Instruction : Claim(kind, c)
    BY <1>6
  <2>2. ledger' = AfterClaim(ledger, kind, c)
    BY <2>1, Zenon DEF Claim, Return
  <2>3. c.amount <= Claimable(ledger, kind)[c.target_address]
    BY <2>1, Zenon DEF Claim
  <2>4. ledger'.applied = ledger.applied
    BY <1>1, <2>2, <2>3, ClaimType, Zenon
  <2> QED  BY <2>4
<1>7. CASE \E t \in 0 .. MaxTime - 1 : EndBlock(t)
  <2>1. ledger' = AfterBlock(ledger)
    BY <1>7 DEF EndBlock
  <2>2. ledger'.applied = ledger.applied
    BY <1>1, <2>1, BlockType
  <2> QED  BY <2>2
<1> QED  BY <1>3, <1>4, <1>5, <1>6, <1>7, Zenon DEF Next

LEMMA EndGuaranteedApplies ==
  ASSUME Inv, EndGuaranteed, ledger' = work
  PROVE  /\ Range(tx.intents) \subseteq Intent
         /\ \A i \in Range(tx.intents) : GuaranteedCount(i) = 0
         /\ \A i \in Intent :
              GuaranteedCount(i)' = IF i \in Range(tx.intents) THEN 1 ELSE GuaranteedCount(i)
<1>1. phase = "registrations" /\ todo = {} /\ tx # NoTx /\ InGuaranteed
  BY DEF EndGuaranteed, Inv, TypeInv, TypeOK, ClaimKind, InGuaranteed
<1>2. Range(tx.intents) \subseteq Intent
  BY <1>1, PendingFacts DEF Inv, Range
<1>3. \A i \in Intent : [intent |-> i, segment |-> 0] \notin PendingSections
  <2>1. PendingGuaranteed = {}
    BY <1>1 DEF PendingGuaranteed
  <2> QED  BY <1>1, <2>1, PendingFacts, Zenon DEF Inv
<1>4. \A i \in Intent :
        IF i \in Range(tx.intents)
        THEN /\ ledger.applied[[intent |-> i, segment |-> 0]] = 0
             /\ work.applied[[intent |-> i, segment |-> 0]] = 1
        ELSE work.applied[[intent |-> i, segment |-> 0]]
               = ledger.applied[[intent |-> i, segment |-> 0]]
  BY <1>1, <1>3, Zenon DEF Inv, ReplayInv, AppliedSoFar
<1> QED  BY <1>2, <1>4 DEF GuaranteedCount

(* Although post_block_update forgets intents, the ledger behaves as one   *)
(* that remembers every intent for ever and applies each at most once.     *)
THEOREM ImplementsHistory == Spec => HistorySpec
<1> DEFINE count == [i \in Intent |-> ledger.applied[[intent |-> i, segment |-> 0]]]
<1>1. Init => History!Init
  <2> SUFFICES ASSUME Init  PROVE count = [i \in Intent |-> 0]
    BY DEF History!Init
  <2>1. ledger.applied = [h \in SectionHash |-> 0]
    BY DEF Init, GenesisState
  <2>2. \A i \in Intent : [intent |-> i, segment |-> 0] \in SectionHash
    BY DEF SectionHash
  <2> QED  BY <2>1, <2>2
<1>2. Init => Inv
  BY InvInit
<1>3. Inv /\ [Next]_vars => Inv'
  BY InvNext
<1>4. Inv /\ [Next]_vars => [History!Next]_count
  <2> SUFFICES ASSUME Inv, [Next]_vars  PROVE History!Next \/ count' = count
    OBVIOUS
  <2>1. CASE \A i \in Intent : GuaranteedCount(i)' = GuaranteedCount(i)
    BY <2>1 DEF GuaranteedCount
  <2>2. CASE EndGuaranteed /\ ledger' = work
    <3> DEFINE new == Range(tx.intents)
    <3>1. /\ new \subseteq Intent /\ \A i \in new : GuaranteedCount(i) = 0
          /\ \A i \in Intent :
               GuaranteedCount(i)' = IF i \in new THEN 1 ELSE GuaranteedCount(i)
      BY <2>2, EndGuaranteedApplies
    <3> HIDE DEF new
    <3>2. \A i \in new : count[i] = 0
      BY <3>1, Zenon DEF GuaranteedCount
    <3>3. count' = [i \in Intent |-> IF i \in new THEN 1 ELSE count[i]]
      BY <3>1 DEF GuaranteedCount
    <3>4. new \in SUBSET Intent
      BY <3>1
    <3>5. \E n \in SUBSET Intent :
            /\ \A i \in n : count[i] = 0
            /\ count' = [i \in Intent |-> IF i \in n THEN 1 ELSE count[i]]
      <4> HIDE DEF count
      <4> QED  BY <3>2, <3>3, <3>4
    <3> QED  BY <3>5, Zenon DEF History!Next, History!Apply
  <2> QED  BY <2>1, <2>2, OnlyEndGuaranteedCounts, Zenon
<1> QED  BY <1>1, <1>2, <1>3, <1>4, PTL DEF Spec, HistorySpec, History!Spec

(* A step of a distribution that goes on handles the head of the queue.    *)
LEMMA DistributionGoesOn ==
  ASSUME [Next]_vars, phase = "CardanoBridge", queue # <<>>, phase' = phase
  PROVE  UNCHANGED vars \/ DistributeOutput
<1>1. CASE ApplyTransaction
  BY <1>1 DEF ApplyTransaction, BeginApply, GuaranteedOffer, RunAction, NextIntent, DustSpends,
              Register, EndGuaranteed, StartFallible, EndFallible, EndApply
<1>2. CASE ApplySystemTx
  BY <1>2 DEF ApplySystemTx, OverwriteParameters, PayBlockRewardsToTreasury, UnlockToTreasury,
              DistributeReserve, UnlockToReserve, BeginDistribute, EndDistribute, BeginCNight,
              CNightStep, EndCNight
<1>3. CASE \E kind \in ClaimKind, c \in Instruction : Claim(kind, c)
  BY <1>3 DEF Claim
<1>4. CASE \E t \in 0 .. MaxTime - 1 : EndBlock(t)
  BY <1>4 DEF EndBlock
<1> QED  BY <1>1, <1>2, <1>3, <1>4, Zenon DEF Next

(* What a bridge transfer brings is split between the treasury and the     *)
(* address without a rest, and the fee is the share of the parameters,     *)
(* rounded down, for every amount and every share in basis points.         *)
THEOREM BridgeSplitCorrect == Spec => BridgeTransfersSplit
<1> DEFINE Split ==
      phase = "CardanoBridge" /\ queue # <<>> /\ phase' = phase =>
        LET o    == Head(queue)
            a    == o.target_address
            p    == work.parameters
            fee  == work'.treasury - work.treasury
            paid == work'.bridge_receiving[a] - work.bridge_receiving[a]
        IN  /\ fee + paid = o.amount
            /\ IF o.amount < p.min_amount THEN paid = 0
               ELSE FeeIsItsShare(p.fee_basis_points, fee, o.amount)
<1>1. TypeInv /\ [Next]_vars => [Split]_vars
  <2> SUFFICES ASSUME TypeInv, [Next]_vars, ~ UNCHANGED vars,
                      phase = "CardanoBridge", queue # <<>>, phase' = phase
               PROVE  Split
    OBVIOUS
  <2> DEFINE o == Head(queue)
             a == o.target_address
             p == work.parameters
             f == BridgeFee(p, o.amount)
  <2>1. DistributeOutput
    BY DistributionGoesOn
  <2>2. BridgeFeeOk(p, o.amount) /\ work' = AfterOutput(work, phase, o)
    BY <2>1 DEF DistributeOutput, Return
  <2>3. /\ work \in LedgerStates /\ o \in Instruction /\ o.amount \in Nat /\ a \in Address
    <3>1. queue \in Seq(Instruction) /\ work \in LedgerStates
      BY DEF TypeInv, TypeOK, Queues, ClaimKind
    <3>2. o \in Instruction
      BY <3>1
    <3> HIDE DEF o
    <3> QED  BY <3>1, <3>2, LedgerAssumption DEF Instruction
  <2>4. /\ work.treasury \in Nat /\ work.bridge_receiving \in [Address -> Nat]
        /\ p.fee_basis_points \in Nat /\ p.min_amount \in Nat
    BY <2>3, LedgerAssumption DEF LedgerStates, LedgerParameters
  <2> HIDE DEF o, p
  <2>5. f \in 0 .. o.amount
    <3>1. CASE o.amount < p.min_amount
      BY <2>3, <3>1 DEF BridgeFee
    <3>2. CASE ~ (o.amount < p.min_amount)
      <4>1. f = BasisPointsOf(p.fee_basis_points, o.amount)
        BY <3>2 DEF BridgeFee
      <4>2. p.fee_basis_points <= BasisPoints
        BY <2>2, <3>2 DEF BridgeFeeOk
      <4> QED  BY <2>3, <2>4, <4>1, <4>2, BasisPointsBound, Zenon
    <3> QED  BY <3>1, <3>2
  <2>6. /\ work'.treasury = work.treasury + f
        /\ work'.bridge_receiving[a] = work.bridge_receiving[a] + (o.amount - f)
    BY <2>2, <2>3, <2>4 DEF AfterOutput, p, LedgerStates
  <2>7. o.amount < p.min_amount => f = o.amount
    BY DEF BridgeFee
  <2>8. ~ (o.amount < p.min_amount) => FeeIsItsShare(p.fee_basis_points, f, o.amount)
    <3> SUFFICES ASSUME ~ (o.amount < p.min_amount)
                 PROVE  FeeIsItsShare(p.fee_basis_points, f, o.amount)
      OBVIOUS
    <3>1. f = BasisPointsOf(p.fee_basis_points, o.amount)
      BY DEF BridgeFee
    <3>2. p.fee_basis_points <= BasisPoints
      BY <2>2 DEF BridgeFeeOk
    <3> QED  BY <2>3, <2>4, <3>1, <3>2, BasisPointsShare, Zenon
  <2> HIDE DEF f
  <2>9. /\ work'.treasury - work.treasury = f
        /\ work'.bridge_receiving[a] - work.bridge_receiving[a] = o.amount - f
        /\ f + (o.amount - f) = o.amount
    BY <2>3, <2>4, <2>5, <2>6
  <2>10. o.amount < p.min_amount => o.amount - f = 0
    BY <2>3, <2>7
  <2> QED  BY <2>8, <2>9, <2>10, Zenon DEF o, p
<1>2. Init => TypeInv
  BY TypeInvInit
<1>3. TypeInv /\ [Next]_vars => TypeInv'
  BY TypeInvNext
<1> QED  BY <1>1, <1>2, <1>3, PTL DEF Spec, BridgeTransfersSplit
=============================================================================
