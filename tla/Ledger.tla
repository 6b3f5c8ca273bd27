-------------------------------- MODULE Ledger --------------------------------
(***************************************************************************)
(* The Midnight ledger: how transactions, claims, system transactions and  *)
(* the end of a block change the LedgerState (ledger/src/semantics.rs).    *)
(*                                                                         *)
(* The code computes the next state of the ledger in one call; here every  *)
(* iteration of its loops is a step, so that each error return leaves from *)
(* the place it has in the code:                                           *)
(*   ledger   the state after the last section that succeeded,             *)
(*   work     the state under construction, equal to ledger when idle,     *)
(*   tblock   the time of the block being built,                           *)
(*   phase    where in the call the ledger is ("idle": nowhere),           *)
(*   tx       the transaction being applied,                               *)
(*   section  the section being applied: 0 is the guaranteed one,          *)
(*   todo     the segments that the loop of the phase has yet to visit,    *)
(*   queue    the contract actions, outputs or events yet to be processed, *)
(*   failed   the fallible segments of tx that failed.                     *)
(* Only an idle ledger takes new calls.                                    *)
(***************************************************************************)
EXTENDS ReplayProtection, ZswapState, DustState, ContractState, FiniteSetsExt

CONSTANTS
  Intent,         \* intents, each standing for its segment-independent hash
  Body,           \* the contents of every intent
  Segment,        \* physical segments, positive numbers
  Transactions,   \* the transactions that may be submitted
  NoTx,           \* no transaction
  Nonce,          \* nonces of output instructions
  Amount,         \* amounts of system transactions and claims
  Distributions,  \* the output lists of DistributeNight
  CNightNonce,    \* nonces of Night on the other chain
  CNightBatches,  \* the event lists of CNightGeneratesDustUpdate
  Parameters,     \* the parameters that may be set
  Genesis,        \* genesis settings
  MaxSupply       \* MAX_SUPPLY

VARIABLES ledger, work, tblock, phase, tx, section, todo, queue, failed

vars == <<ledger, work, tblock, phase, tx, section, todo, queue, failed>>

-----------------------------------------------------------------------------
(* Hashes.  An output of an intent carries the hash of the intent and the  *)
(* segment its offer is applied in; an output instruction is hashed with   *)
(* its amount, target and nonce (mk_intent_hash).                          *)
Instruction == [amount : Amount, target_address : Address, nonce : Nonce]

SectionHash == [intent : Intent, segment : Segment \cup {0}]

IntentHash == SectionHash \cup Instruction

Utxo == [value : Nat, owner : Address, type_ : TokenType,
         intent_hash : IntentHash, output_no : Nat]

UtxoOutput == [value : Nat, owner : Address, type_ : TokenType]

UnshieldedOffer == [inputs : SUBSET Utxo, outputs : Seq(UtxoOutput)]

IsPartial(f, S, T) == DOMAIN f \subseteq S /\ f \in [DOMAIN f -> T]

IsIntentBody(b) ==
  /\ b.ttl \in Time
  /\ b.guaranteed_unshielded_offer \in UnshieldedOffer
  /\ b.fallible_unshielded_offer \in UnshieldedOffer
  /\ b.actions \in Seq(Action)
  /\ b.spends \in Seq(DustNul)
  /\ IsPartial(b.registrations, Address, DustKey \cup {NoKey})

ZswapOffer == [inputs : Seq(ZswapInput), outputs : Seq(Com), transient : Seq(Transient)]

(* Maps from segments: the intents, and the fallible shielded offers.      *)
IsTransaction(t) ==
  /\ IsPartial(t.intents, Segment, Intent)
  /\ t.guaranteed_coins \in ZswapOffer
  /\ IsPartial(t.fallible_coins, Segment, ZswapOffer)

CNightEvent == [value : Nat, owner : DustKey, time : Time,
                action : {"Create", "Destroy"}, nonce : CNightNonce]

LedgerParameters == [global_ttl : Nat, fee_basis_points : Nat,
                     min_amount : Nat, min_claimable : Nat]

ASSUME LedgerAssumption ==
  /\ \A i \in Intent : IsIntentBody(Body[i])
  /\ Segment \subseteq Nat \ {0} /\ IsFiniteSet(Segment)
  /\ \A t \in Transactions : IsTransaction(t)
  /\ NoTx \notin Transactions
  /\ NIGHT \in TokenType
  /\ \A i \in Intent : \A k \in DOMAIN Body[i].actions :
       LET a == Body[i].actions[k]
       IN  a.type = "Call" => \A t \in Range(a.guaranteed_transcript \o a.fallible_transcript) :
             t.unshielded_mints[NIGHT] = 0
  /\ IsFiniteSet(Amount) /\ Amount \subseteq Nat /\ MaxSupply \in Nat /\ MaxTime > 0
  /\ \A outputs \in Distributions : outputs \in Seq(Instruction)
  /\ \A events \in CNightBatches : events \in Seq(CNightEvent)
  /\ Parameters \subseteq LedgerParameters
  /\ Genesis \subseteq [parameters : Parameters, locked_pool : Nat,
                        reserve_pool : Nat, treasury : Nat]

(* The state of the ledger.  applied, spent and minted are history: how    *)
(* often the offer of a section of an intent was applied, the UTXOs        *)
(* consumed so far, and the amounts of tokens that contracts minted.       *)
NightNonce == [intent_hash : IntentHash, output_no : Nat] \cup CNightNonce

LedgerStates ==
  [parameters : Parameters,
   locked_pool : Nat, reserve_pool : Nat, block_reward_pool : Nat, treasury : Nat,
   bridge_receiving : [Address -> Nat], unclaimed_block_rewards : [Address -> Nat],
   zswap : ZswapStates, contract : Contracts, utxos : SUBSET Utxo,
   replay_protection : TimeFilterMaps(Intent \cup Instruction),
   dust : DustStates(NightNonce),
   applied : [SectionHash -> Nat], spent : SUBSET Utxo, minted : Amounts]

IntentTtl == [i \in Intent |-> Body[i].ttl]

(* The annotation sums and the check of check_night_balance_invariant.     *)
TokenInUtxos(l, tt) ==
  MapThenSumSet(LAMBDA u : u.value, {u \in l.utxos : u.type_ = tt})

TokenInContracts(l, tt) ==
  SumFunction([c \in Contract |-> IF l.contract[c] = <<>> THEN 0
                                  ELSE l.contract[c][1].balance[tt]])

TotalNight(l) ==
  TokenInUtxos(l, NIGHT) + l.locked_pool + l.reserve_pool + l.block_reward_pool
    + l.treasury + SumFunction(l.unclaimed_block_rewards)
    + SumFunction(l.bridge_receiving) + TokenInContracts(l, NIGHT)

NightBalanceOk(l) == TotalNight(l) = MaxSupply

-----------------------------------------------------------------------------
(* Sections of a transaction.  Segment 0 stands for the guaranteed one.    *)
FallibleSegments(t) == DOMAIN t.intents \cup DOMAIN t.fallible_coins

OfferOf(i, s) == IF s = 0 THEN Body[i].guaranteed_unshielded_offer
                          ELSE Body[i].fallible_unshielded_offer

(* The UTXOs that UtxoState::apply_offer makes of the outputs.             *)
Created(i, s) ==
  LET o == OfferOf(i, s).outputs
  IN  {[value |-> o[k].value, owner |-> o[k].owner, type_ |-> o[k].type_,
        intent_hash |-> [intent |-> i, segment |-> s], output_no |-> k - 1] : k \in DOMAIN o}

(* Both halves of an unshielded offer: the UTXO set and the Dust state.    *)
UnshieldedOk(l, i, s) ==
  /\ OfferOf(i, s).inputs \subseteq l.utxos
  /\ DustOfferOk(l.dust, Created(i, s), Body[i].registrations, s)

CountApplied(applied, i, s) == [applied EXCEPT ![[intent |-> i, segment |-> s]] = @ + 1]

(* Mutant of ApplyUnshielded: the inputs stay in the UTXO set.             *)
ApplyUnshieldedKeepsInputs(l, i, s) ==
  LET o == OfferOf(i, s)
  IN  [l EXCEPT !.utxos   = @ \cup Created(i, s),
                !.dust    = DustApplyOffer(@, o.inputs, Created(i, s),
                                           Body[i].registrations, s, tblock),
                !.applied = CountApplied(@, i, s),
                !.spent   = @ \cup o.inputs]

ApplyUnshielded(l, i, s) ==
  LET o == OfferOf(i, s)
  IN  [l EXCEPT !.utxos   = (@ \ o.inputs) \cup Created(i, s),
                !.dust    = DustApplyOffer(@, o.inputs, Created(i, s),
                                           Body[i].registrations, s, tblock),
                !.applied = CountApplied(@, i, s),
                !.spent   = @ \cup o.inputs]

(* What a section of an intent takes in and pays out of a token: balance.  *)
CallSum(i, s, effect, tt) ==
  LET a == Body[i].actions
  IN  SumFunction([k \in DOMAIN a |->
        IF a[k].type = "Call" /\ CallTranscript(a[k], s = 0) # <<>>
        THEN CallTranscript(a[k], s = 0)[1][effect][tt] ELSE 0])

Supplied(i, s, tt) ==
  MapThenSumSet(LAMBDA u : u.value, {u \in OfferOf(i, s).inputs : u.type_ = tt})
    + CallSum(i, s, "unshielded_outputs", tt) + CallSum(i, s, "unshielded_mints", tt)

Demanded(i, s, tt) ==
  LET o == OfferOf(i, s).outputs
  IN  SumFunction([k \in DOMAIN o |-> IF o[k].type_ = tt THEN o[k].value ELSE 0])
        + CallSum(i, s, "unshielded_inputs", tt)

(* Mutant of BalancingCheck: fallible sections are not balanced.           *)
BalancingCheckGuaranteed(t) ==
  LET segs == DOMAIN t.intents
  IN  \A tt \in TokenType :
        SumFunction([s \in segs |-> Supplied(t.intents[s], 0, tt)])
          >= SumFunction([s \in segs |-> Demanded(t.intents[s], 0, tt)])

(* balancing_check: no token is overspent in any segment.                  *)
BalancingCheck(t) ==
  LET segs == DOMAIN t.intents
  IN  \A tt \in TokenType :
        /\ SumFunction([s \in segs |-> Supplied(t.intents[s], 0, tt)])
             >= SumFunction([s \in segs |-> Demanded(t.intents[s], 0, tt)])
        /\ \A s \in segs : Supplied(t.intents[s], s, tt) >= Demanded(t.intents[s], s, tt)

(* disjoint_check, for the unshielded inputs: no two offers of the         *)
(* transaction name the same one.  (What it refuses among the shielded     *)
(* ones, the dry run refuses as well.)                                     *)
DisjointCheck(t) ==
  \A s, r \in DOMAIN t.intents : \A g, h \in {TRUE, FALSE} :
    <<s, g>> # <<r, h>> =>
      OfferOf(t.intents[s], IF g THEN 0 ELSE s).inputs
        \cap OfferOf(t.intents[r], IF h THEN 0 ELSE r).inputs = {}

(* The rest of well_formed that matters here: no zero-valued outputs, no   *)
(* deployed contract with a balance, valid proofs of the shielded inputs.  *)
WellFormed(t) ==
  /\ DisjointCheck(t)
  /\ BalancingCheck(t)
  /\ \A s \in DOMAIN t.intents :
       /\ \A u \in Created(t.intents[s], 0) \cup Created(t.intents[s], s) : u.value > 0
       /\ \A k \in DOMAIN Body[t.intents[s]].actions :
            LET a == Body[t.intents[s]].actions[k]
            IN  a.type = "Deploy" => \A tt \in TokenType : a.initial_state.balance[tt] = 0
  /\ SpendProofsValid(ledger.zswap, t.guaranteed_coins)
  /\ \A s \in DOMAIN t.fallible_coins : SpendProofsValid(ledger.zswap, t.fallible_coins[s])

-----------------------------------------------------------------------------
(* with_genesis_settings *)
GenesisState(g) ==
  [parameters |-> g.parameters,
   locked_pool |-> g.locked_pool, reserve_pool |-> g.reserve_pool,
   block_reward_pool |-> 0, treasury |-> g.treasury,
   bridge_receiving |-> [a \in Address |-> 0],
   unclaimed_block_rewards |-> [a \in Address |-> 0],
   zswap |-> NewZswap, contract |-> [c \in Contract |-> <<>>], utxos |-> {},
   replay_protection |-> NewMap(Intent \cup Instruction), dust |-> NewDust,
   applied |-> [h \in SectionHash |-> 0], spent |-> {}, minted |-> [tt \in TokenType |-> 0]]

Init ==
  /\ \E g \in Genesis : ledger = GenesisState(g) /\ NightBalanceOk(GenesisState(g))
  /\ work = ledger
  /\ tblock = 0
  /\ phase = "idle" /\ tx = NoTx /\ section = 0 /\ todo = {} /\ queue = <<>> /\ failed = {}

(* The call returns; new is the state of the ledger from now on.           *)
Return(new) ==
  /\ ledger' = new /\ work' = new
  /\ phase' = "idle" /\ tx' = NoTx /\ section' = 0 /\ todo' = {} /\ queue' = <<>>
  /\ failed' = {}
  /\ UNCHANGED tblock

(* Mutant of FailFallible: what the section did so far is kept.            *)
FailFallibleKeepsWork(s) ==
  /\ phase' = "fallible" /\ section' = 0 /\ todo' = todo \ {s} /\ queue' = <<>>
  /\ failed' = failed \cup {s}
  /\ UNCHANGED <<ledger, work, tblock, tx>>

(* An error return of apply_section: a guaranteed section takes the whole  *)
(* transaction with it, a fallible one only itself.                        *)
FailFallible(s) ==
  /\ work' = ledger
  /\ phase' = "fallible" /\ section' = 0 /\ todo' = todo \ {s} /\ queue' = <<>>
  /\ failed' = failed \cup {s}
  /\ UNCHANGED <<ledger, tblock, tx>>

FailSection == IF section = 0 THEN Return(ledger) ELSE FailFallible(section)

(* apply_guaranteed_only and the first part of the guaranteed section:     *)
(* replay protection, the guaranteed shielded offer, and the dry run of    *)
(* the fallible ones.  A transaction that fails here changes nothing.      *)
BeginApply(t) ==
  LET p     == ledger.parameters
      zswap == ApplyZswapOffer(ledger.zswap, t.guaranteed_coins)
  IN  /\ phase = "idle"
      /\ WellFormed(t)
      /\ IntentsOk(ledger.replay_protection, t.intents, IntentTtl, tblock, p.global_ttl)
      /\ OfferOk(ledger.zswap, t.guaranteed_coins)
      /\ DryRunOk(zswap, t.fallible_coins)
      /\ work' = [ledger EXCEPT
                    !.replay_protection = ApplyIntents(@, t.intents, IntentTtl),
                    !.zswap = zswap]
      /\ phase' = "offer" /\ tx' = t /\ todo' = DOMAIN t.intents
      /\ UNCHANGED <<ledger, tblock, section, queue, failed>>

(* The loop over the intents, in the order of their segments: the          *)
(* guaranteed unshielded offer of the intent, then its contract actions.   *)
GuaranteedOffer ==
  LET i == tx.intents[Min(todo)]
  IN  /\ phase = "offer" /\ todo # {}
      /\ \/ /\ UnshieldedOk(work, i, 0)
            /\ work' = ApplyUnshielded(work, i, 0)
            /\ phase' = "actions" /\ queue' = Body[i].actions
            /\ UNCHANGED <<ledger, tblock, tx, section, todo, failed>>
         \/ /\ ~ UnshieldedOk(work, i, 0)
            /\ FailSection

(* One contract action of the section.                                     *)
RunAction ==
  LET a == Head(queue)
      g == section = 0
      t == IF a.type = "Call" THEN CallTranscript(a, g) ELSE <<>>
  IN  /\ phase = "actions" /\ queue # <<>>
      /\ \/ /\ ActionOk(work.contract, a, g)
            /\ work' = [work EXCEPT
                 !.contract = ApplyAction(@, a, g),
                 !.minted = IF t = <<>> THEN @
                            ELSE [tt \in TokenType |-> @[tt] + t[1].unshielded_mints[tt]]]
            /\ queue' = RestOfAction(a, g) \o Tail(queue)
            /\ UNCHANGED <<ledger, tblock, phase, tx, section, todo, failed>>
         \/ /\ ~ ActionOk(work.contract, a, g)
            /\ FailSection

NextIntent ==
  /\ phase = "actions" /\ queue = <<>> /\ section = 0
  /\ phase' = "offer" /\ todo' = todo \ {Min(todo)}
  /\ UNCHANGED <<ledger, work, tblock, tx, section, queue, failed>>

(* After the loop: the Dust spends of all the intents, ...                 *)
TxSpends(t) ==
  [p \in UNION {{s} \X DOMAIN Body[t.intents[s]].spends : s \in DOMAIN t.intents} |->
     Body[t.intents[p[1]]].spends[p[2]]]

DustSpends ==
  /\ phase = "offer" /\ todo = {}
  /\ \/ /\ DustSpendsOk(work.dust, TxSpends(tx))
        /\ work' = [work EXCEPT !.dust = ApplyDustSpends(@, TxSpends(tx))]
        /\ phase' = "registrations" /\ todo' = DOMAIN tx.intents
        /\ UNCHANGED <<ledger, tblock, tx, section, queue, failed>>
     \/ /\ ~ DustSpendsOk(work.dust, TxSpends(tx))
        /\ FailSection

(* ... then the registrations, intent by intent, ...                       *)
Register ==
  LET i == tx.intents[Min(todo)]
      r == Body[i].registrations
  IN  /\ phase = "registrations" /\ todo # {}
      /\ \/ /\ RegistrationsOk(work.dust, Created(i, 0), r)
            /\ work' = [work EXCEPT !.dust = ApplyRegistrations(@, Created(i, 0), r)]
            /\ todo' = todo \ {Min(todo)}
            /\ UNCHANGED <<ledger, tblock, phase, tx, section, queue, failed>>
         \/ /\ ~ RegistrationsOk(work.dust, Created(i, 0), r)
            /\ FailSection

(* ... and the balance check that ends the guaranteed section.             *)
EndGuaranteed ==
  /\ phase = "registrations" /\ todo = {}
  /\ \/ /\ NightBalanceOk(work)
        /\ ledger' = work
        /\ phase' = "fallible" /\ todo' = FallibleSegments(tx)
        /\ UNCHANGED <<work, tblock, tx, section, queue, failed>>
     \/ /\ ~ NightBalanceOk(work)
        /\ FailSection

(* apply_fallible visits the fallible segments in order.  A section starts *)
(* with its shielded offer; an intent in the segment adds its fallible     *)
(* unshielded offer and its contract actions.                              *)
ShieldedOffer(t, s) == IF s \in DOMAIN t.fallible_coins THEN t.fallible_coins[s] ELSE NoOffer

FallibleOk(l, t, s) ==
  /\ OfferOk(l.zswap, ShieldedOffer(t, s))
  /\ s \in DOMAIN t.intents => UnshieldedOk(l, t.intents[s], s)

(* Mutant of StartFallible: the shielded offer is applied in place, so it  *)
(* stays when the unshielded offer fails.                                  *)
StartFallibleInPlace ==
  LET s == Min(todo)
      l == [work EXCEPT !.zswap = ApplyZswapOffer(@, ShieldedOffer(tx, s))]
  IN  /\ phase = "fallible" /\ todo # {}
      /\ \/ /\ FallibleOk(work, tx, s)
            /\ work' = IF s \in DOMAIN tx.intents THEN ApplyUnshielded(l, tx.intents[s], s) ELSE l
            /\ queue' = IF s \in DOMAIN tx.intents THEN Body[tx.intents[s]].actions ELSE <<>>
            /\ phase' = "actions" /\ section' = s
            /\ UNCHANGED <<ledger, tblock, tx, todo, failed>>
         \/ /\ ~ FallibleOk(work, tx, s)
            /\ work' = l /\ ledger' = l
            /\ phase' = "fallible" /\ section' = 0 /\ todo' = todo \ {s} /\ queue' = <<>>
            /\ failed' = failed \cup {s}
            /\ UNCHANGED <<tblock, tx>>

StartFallible ==
  LET s == Min(todo)
      l == [work EXCEPT !.zswap = ApplyZswapOffer(@, ShieldedOffer(tx, s))]
  IN  /\ phase = "fallible" /\ todo # {}
      /\ \/ /\ FallibleOk(work, tx, s)
            /\ work' = IF s \in DOMAIN tx.intents THEN ApplyUnshielded(l, tx.intents[s], s) ELSE l
            /\ queue' = IF s \in DOMAIN tx.intents THEN Body[tx.intents[s]].actions ELSE <<>>
            /\ phase' = "actions" /\ section' = s
            /\ UNCHANGED <<ledger, tblock, tx, todo, failed>>
         \/ /\ ~ FallibleOk(work, tx, s)
            /\ FailFallible(s)

EndFallible ==
  /\ phase = "actions" /\ queue = <<>> /\ section # 0
  /\ \/ /\ NightBalanceOk(work)
        /\ ledger' = work
        /\ phase' = "fallible" /\ section' = 0 /\ todo' = todo \ {section}
        /\ UNCHANGED <<work, tblock, tx, queue, failed>>
     \/ /\ ~ NightBalanceOk(work)
        /\ FailSection

EndApply ==
  /\ phase = "fallible" /\ todo = {}
  /\ Return(ledger)

-----------------------------------------------------------------------------
(* claim_unshielded: an address turns what it was rewarded or bridged into *)
(* a Night UTXO.  The hash does not tell the two kinds apart.              *)
ClaimKind == {"Reward", "CardanoBridge"}

(* Mutant of Claimable: the kinds are swapped.                             *)
ClaimableSwapped(l, kind) ==
  IF kind = "Reward" THEN l.bridge_receiving ELSE l.unclaimed_block_rewards

Claimable(l, kind) ==
  IF kind = "Reward" THEN l.unclaimed_block_rewards ELSE l.bridge_receiving

ClaimUtxo(c) == [value |-> c.amount, owner |-> c.target_address, type_ |-> NIGHT,
                 intent_hash |-> c, output_no |-> 0]

ClaimInfos(l, c) ==
  LET d == l.dust.address_delegation
  IN  NightInfos({ClaimUtxo(c)}, {a \in Address : d[a] # NoKey}, d)

AfterClaim(l, kind, c) ==
  LET a == c.target_address
      m == [l EXCEPT !.utxos = @ \cup {ClaimUtxo(c)},
                     !.replay_protection =
                        UpsertOne(@, TimePlus(tblock, l.parameters.global_ttl), c),
                     !.dust = FreshDust(@, ClaimInfos(l, c))]
  IN  IF kind = "Reward" THEN [m EXCEPT !.unclaimed_block_rewards[a] = @ - c.amount]
                         ELSE [m EXCEPT !.bridge_receiving[a] = @ - c.amount]

(* Mutant of Claim: the balance is not checked.                            *)
ClaimUnchecked(kind, c) ==
  LET p == ledger.parameters
  IN  /\ phase = "idle"
      /\ c.amount <= Claimable(ledger, kind)[c.target_address]
      /\ kind = "Reward" => c.amount >= p.min_claimable
      /\ MemberOk(ledger.replay_protection, c, TimePlus(tblock, p.global_ttl),
                  tblock, p.global_ttl)
      /\ FreshDustOk(ledger.dust, ClaimInfos(ledger, c))
      /\ Return(AfterClaim(ledger, kind, c))

Claim(kind, c) ==
  LET p == ledger.parameters
  IN  /\ phase = "idle"
      /\ c.amount <= Claimable(ledger, kind)[c.target_address]
      /\ kind = "Reward" => c.amount >= p.min_claimable
      /\ MemberOk(ledger.replay_protection, c, TimePlus(tblock, p.global_ttl),
                  tblock, p.global_ttl)
      /\ FreshDustOk(ledger.dust, ClaimInfos(ledger, c))
      /\ NightBalanceOk(AfterClaim(ledger, kind, c))
      /\ Return(AfterClaim(ledger, kind, c))

-----------------------------------------------------------------------------
(* System transactions.  One that is rejected changes nothing; payments    *)
(* from the treasury are always rejected.  Fees are in basis points.       *)
BasisPoints == 10000

OverwriteParameters(p) ==
  /\ phase = "idle"
  /\ p.fee_basis_points <= BasisPoints
  /\ Return([ledger EXCEPT !.parameters = p])

(* PayBlockRewardsToTreasury, UnlockToTreasury, DistributeReserve and      *)
(* UnlockToReserve move Night from one pool to another.                    *)
AfterPayBlockRewards(l, n) ==
  [l EXCEPT !.block_reward_pool = @ - n, !.treasury = @ + n]

AfterUnlockToTreasury(l, n) == [l EXCEPT !.locked_pool = @ - n, !.treasury = @ + n]

AfterDistributeReserve(l, n) ==
  [l EXCEPT !.reserve_pool = @ - n, !.block_reward_pool = @ + n]

AfterUnlockToReserve(l, n) == [l EXCEPT !.locked_pool = @ - n, !.reserve_pool = @ + n]

PayBlockRewardsToTreasury(n) ==
  /\ phase = "idle" /\ n <= ledger.block_reward_pool
  /\ NightBalanceOk(AfterPayBlockRewards(ledger, n))
  /\ Return(AfterPayBlockRewards(ledger, n))

UnlockToTreasury(n) ==
  /\ phase = "idle" /\ n <= ledger.locked_pool
  /\ NightBalanceOk(AfterUnlockToTreasury(ledger, n))
  /\ Return(AfterUnlockToTreasury(ledger, n))

DistributeReserve(n) ==
  /\ phase = "idle" /\ n <= ledger.reserve_pool
  /\ NightBalanceOk(AfterDistributeReserve(ledger, n))
  /\ Return(AfterDistributeReserve(ledger, n))

UnlockToReserve(n) ==
  /\ phase = "idle" /\ n <= ledger.locked_pool
  /\ NightBalanceOk(AfterUnlockToReserve(ledger, n))
  /\ Return(AfterUnlockToReserve(ledger, n))

(* DistributeNight: rewards come from the block reward pool, bridged Night *)
(* from the locked pool.  The kind is the phase while the outputs are      *)
(* processed; an output whose hash is remembered rejects all of them.      *)
DistributedPool(l, kind) == IF kind = "Reward" THEN l.block_reward_pool ELSE l.locked_pool

BeginDistribute(kind, outputs) ==
  LET total == SumFunction([k \in DOMAIN outputs |-> outputs[k].amount])
  IN  /\ phase = "idle"
      /\ total \in 0 .. DistributedPool(ledger, kind)
      /\ work' = IF kind = "Reward" THEN [ledger EXCEPT !.block_reward_pool = @ - total]
                                    ELSE [ledger EXCEPT !.locked_pool = @ - total]
      /\ phase' = kind /\ queue' = outputs
      /\ UNCHANGED <<ledger, tblock, tx, section, todo, failed>>

(* Mutant of BasisPointsOf: the remainder is divided before it is scaled.  *)
BasisPointsOfDivided(points, val) ==
  (val \div BasisPoints) * points + ((val % BasisPoints) \div BasisPoints) * points

(* basis_points_of, and the fee of a bridge transfer: all of a small one.  *)
(* Only genesis parameters can ask for more than the amount.               *)
BasisPointsOf(points, val) ==
  (val \div BasisPoints) * points + ((val % BasisPoints) * points) \div BasisPoints

BridgeFeeOk(p, amount) == amount < p.min_amount \/ p.fee_basis_points <= BasisPoints

BridgeFee(p, amount) ==
  IF amount < p.min_amount THEN amount ELSE BasisPointsOf(p.fee_basis_points, amount)

(* Mutant of AfterOutput: the fee is paid and not deducted.                *)
AfterOutputFeeOnTop(l, kind, o) ==
  LET a   == o.target_address
      fee == BridgeFee(l.parameters, o.amount)
      m   == [l EXCEPT !.replay_protection =
                 UpsertOne(@, TimePlus(tblock, l.parameters.global_ttl), o)]
  IN  IF kind = "Reward"
      THEN [m EXCEPT !.unclaimed_block_rewards[a] = @ + o.amount]
      ELSE [m EXCEPT !.treasury = @ + fee, !.bridge_receiving[a] = @ + o.amount]

AfterOutput(l, kind, o) ==
  LET a   == o.target_address
      fee == BridgeFee(l.parameters, o.amount)
      m   == [l EXCEPT !.replay_protection =
                 UpsertOne(@, TimePlus(tblock, l.parameters.global_ttl), o)]
  IN  IF kind = "Reward"
      THEN [m EXCEPT !.unclaimed_block_rewards[a] = @ + o.amount]
      ELSE [m EXCEPT !.treasury = @ + fee, !.bridge_receiving[a] = @ + (o.amount - fee)]

DistributeOutput ==
  LET o  == Head(queue)
      p  == work.parameters
      ok == /\ MemberOk(work.replay_protection, o, TimePlus(tblock, p.global_ttl),
                        tblock, p.global_ttl)
            /\ phase = "CardanoBridge" => BridgeFeeOk(p, o.amount)
  IN  /\ phase \in ClaimKind /\ queue # <<>>
      /\ \/ /\ ok
            /\ work' = AfterOutput(work, phase, o)
            /\ queue' = Tail(queue)
            /\ UNCHANGED <<ledger, tblock, phase, tx, section, todo, failed>>
         \/ /\ ~ ok
            /\ Return(ledger)

EndDistribute ==
  /\ phase \in ClaimKind /\ queue = <<>>
  /\ Return(IF NightBalanceOk(work) THEN work ELSE ledger)

(* CNightGeneratesDustUpdate: the events in order, all of them or none.    *)
BeginCNight(events) ==
  /\ phase = "idle"
  /\ phase' = "cnight" /\ queue' = events
  /\ UNCHANGED <<ledger, work, tblock, tx, section, todo, failed>>

CNightStep ==
  LET e == Head(queue)
  IN  /\ phase = "cnight" /\ queue # <<>>
      /\ \/ /\ CNightOk(work.dust, e)
            /\ work' = [work EXCEPT !.dust = ApplyCNight(@, e)]
            /\ queue' = Tail(queue)
            /\ UNCHANGED <<ledger, tblock, phase, tx, section, todo, failed>>
         \/ /\ ~ CNightOk(work.dust, e)
            /\ Return(ledger)

EndCNight ==
  /\ phase = "cnight" /\ queue = <<>>
  /\ Return(work)

-----------------------------------------------------------------------------
(* post_block_update at the time of the block, then a block that is not    *)
(* earlier.  Fee prices are left out.  No block has the time MaxTime.      *)
AfterBlock(l) ==
  [l EXCEPT !.replay_protection = ReplayPostBlock(@, tblock),
            !.zswap = ZswapPostBlock(@, tblock, l.parameters.global_ttl)]

EndBlock(t) ==
  /\ phase = "idle" /\ t >= tblock
  /\ ledger' = AfterBlock(ledger) /\ work' = AfterBlock(ledger)
  /\ tblock' = t
  /\ UNCHANGED <<phase, tx, section, todo, queue, failed>>

ApplyTransaction ==
  \/ \E t \in Transactions : BeginApply(t)
  \/ GuaranteedOffer
  \/ RunAction
  \/ NextIntent
  \/ DustSpends
  \/ Register
  \/ EndGuaranteed
  \/ StartFallible
  \/ EndFallible
  \/ EndApply

ApplySystemTx ==
  \/ \E p \in Parameters : OverwriteParameters(p)
  \/ \E n \in Amount : \/ PayBlockRewardsToTreasury(n)
                       \/ UnlockToTreasury(n)
                       \/ DistributeReserve(n)
                       \/ UnlockToReserve(n)
  \/ \E kind \in ClaimKind, outputs \in Distributions : BeginDistribute(kind, outputs)
  \/ DistributeOutput
  \/ EndDistribute
  \/ \E events \in CNightBatches : BeginCNight(events)
  \/ CNightStep
  \/ EndCNight

Next ==
  \/ ApplyTransaction
  \/ \E kind \in ClaimKind, c \in Instruction : Claim(kind, c)
  \/ ApplySystemTx
  \/ \E t \in 0 .. MaxTime - 1 : EndBlock(t)

Spec == Init /\ [][Next]_vars

-----------------------------------------------------------------------------
Phase == {"idle", "offer", "actions", "registrations", "fallible", "cnight"} \cup ClaimKind

Queues == IF phase = "cnight" THEN Seq(CNightEvent)
          ELSE IF phase \in ClaimKind THEN Seq(Instruction) ELSE Seq(Action)

(* The type invariant: both states are ledger states, and the loops of     *)
(* apply_section only hold segments of the transaction being applied.      *)
TypeOK ==
  /\ ledger \in LedgerStates /\ work \in LedgerStates
  /\ tblock \in Time
  /\ phase \in Phase
  /\ tx \in Transactions \cup {NoTx}
  /\ tx = NoTx <=> phase \in {"idle", "cnight"} \cup ClaimKind
  /\ section \in Segment \cup {0}
  /\ todo \subseteq (IF tx = NoTx THEN {} ELSE FallibleSegments(tx))
  /\ failed \subseteq Segment
  /\ queue \in Queues

(* The sections of intents that the transaction being applied has yet to   *)
(* reach: guaranteed ones first, then the fallible ones.                   *)
InGuaranteed == phase \in {"offer", "registrations"} \/ (phase = "actions" /\ section = 0)

PendingSegments ==
  IF phase \in {"idle", "cnight"} \cup ClaimKind THEN {}
  ELSE IF InGuaranteed THEN DOMAIN tx.intents
  ELSE (todo \ {section}) \cap DOMAIN tx.intents

PendingGuaranteed ==
  IF phase = "offer" THEN todo
  ELSE IF phase = "actions" /\ section = 0 THEN todo \ {Min(todo)} ELSE {}

PendingSections ==
  {[intent |-> tx.intents[s], segment |-> s] : s \in PendingSegments}
    \cup {[intent |-> tx.intents[s], segment |-> 0] : s \in PendingGuaranteed}

(* How the variables of the loops hang together.                           *)
Control ==
  /\ phase \in {"idle", "cnight", "offer", "registrations", "fallible"} \cup ClaimKind
       => section = 0
  /\ phase = "actions" => IF section = 0 THEN todo # {} ELSE section \in todo
  /\ InGuaranteed => todo \subseteq DOMAIN tx.intents
  /\ phase \in {"idle", "fallible"} => work = ledger

(* The strengthening behind the properties of replay protection.  In both  *)
(* states: an intent of which some section was applied is remembered until *)
(* its time to live has passed; a UTXO made by an intent, spent or not,    *)
(* comes from a section that was applied.                                  *)
Remembered(l) ==
  \A h \in SectionHash :
    l.applied[h] > 0 =>
      \/ Body[h.intent].ttl < tblock
      \/ h.intent \in l.replay_protection.time_map[Body[h.intent].ttl]

OutputsApplied(l) ==
  \A u \in l.utxos \cup l.spent : u.intent_hash \in SectionHash => l.applied[u.intent_hash] > 0

(* While a transaction is applied: its intents differ and are remembered,  *)
(* what it has yet to apply was never applied, and outside the sections    *)
(* that it went through the two states agree.                              *)
InTransaction ==
  tx # NoTx =>
    /\ IsInjective(tx.intents)
    /\ \A s \in DOMAIN tx.intents :
         LET i == tx.intents[s]
         IN  \A l \in IF InGuaranteed THEN {work} ELSE {ledger, work} :
               i \in l.replay_protection.time_map[Body[i].ttl]
    /\ \A h \in PendingSections : ledger.applied[h] = 0 /\ work.applied[h] = 0

AppliedSoFar ==
  \A i \in Intent :
    LET h == [intent |-> i, segment |-> 0]
    IN  IF InGuaranteed /\ i \in Range(tx.intents)
        THEN /\ ledger.applied[h] = 0
             /\ work.applied[h] = IF h \in PendingSections THEN 0 ELSE 1
        ELSE work.applied[h] = ledger.applied[h]

NeverBack(l) == \A u \in l.utxos \cap l.spent : u.intent_hash \in Instruction

HistoryInv(l) ==
  Consistent(l.replay_protection) /\ Remembered(l) /\ OutputsApplied(l) /\ NeverBack(l)

(* The inductive invariant of replay protection (apply_tx together with    *)
(* post_block_update), in the last settled state and in the one under      *)
(* construction: what can still be accepted and was applied is remembered. *)
ReplayInv ==
  /\ Control
  /\ HistoryInv(ledger) /\ HistoryInv(work)
  /\ InTransaction
  /\ AppliedSoFar

(* No output about to be created exists or ever existed: the reason why    *)
(* UtxoState::apply_offer need not check that the outputs are new ("not    *)
(* needed, due to the uniqueness of outputs").  It rests on replay         *)
(* protection having remembered every intent that can still be applied.    *)
FreshOutputs ==
  \A h \in PendingSections :
    Created(h.intent, h.segment) \cap (work.utxos \cup work.spent) = {}

(* A UTXO made by an intent that was spent never comes back.               *)
NoResurrection == NeverBack(ledger)

(* Replay protection implements the unbounded history of intents, although *)
(* post_block_update forgets intents: every step of the ledger applies a   *)
(* set of intents that were never applied before, or none.                 *)
History == INSTANCE IntentHistory
             WITH history <- [i \in Intent |-> ledger.applied[[intent |-> i, segment |-> 0]]]

HistorySpec == History!Spec

(* The dry run of the guaranteed section makes sure that no fallible       *)
(* segment fails because of its shielded offer, whichever of the segments  *)
(* before it succeed.                                                      *)
FallibleOffersApplicable ==
  phase = "fallible" =>
    \A s \in todo : OfferOk(work.zswap, ShieldedOffer(tx, s))

(* A fallible segment that failed left nothing behind, although segments   *)
(* before and after it were applied: no output, nullifier or commitment,   *)
(* and the next segment starts from the last state that was settled, its   *)
(* contracts included.                                                     *)
FailedLeaveNoTrace ==
  \A s \in failed :
    /\ phase = "fallible" => work = ledger
    /\ s \in DOMAIN tx.intents =>
         ledger.applied[[intent |-> tx.intents[s], segment |-> s]] = 0
    /\ \A u \in ledger.utxos : s \in DOMAIN tx.intents =>
         u.intent_hash # [intent |-> tx.intents[s], segment |-> s]
    /\ Range(OfferNullifiers(ShieldedOffer(tx, s))) \cap ledger.zswap.nullifiers = {}
    /\ Range(OfferComs(ShieldedOffer(tx, s))) \cap ledger.zswap.coin_coms_set = {}

(* Both time filter maps agree with their multisets: an intent hash or a   *)
(* root is found exactly while some timestamp still holds it.              *)
MapsConsistent ==
  \A l \in {ledger, work} : Consistent(l.replay_protection) /\ Consistent(l.zswap.past_roots)

(* A section that takes in exactly the Night it pays out passes the        *)
(* balance check at its end: UTXO set, contract balances and the           *)
(* balancing_check of well_formed count the same Night.                    *)
NightBalanced(t, s) ==
  IF s = 0
  THEN SumFunction([r \in DOMAIN t.intents |-> Supplied(t.intents[r], 0, NIGHT)])
         = SumFunction([r \in DOMAIN t.intents |-> Demanded(t.intents[r], 0, NIGHT)])
  ELSE s \in DOMAIN t.intents =>
         Supplied(t.intents[s], s, NIGHT) = Demanded(t.intents[s], s, NIGHT)

BalancedSectionsPass ==
  LET atEnd == \/ phase = "registrations" /\ todo = {}
               \/ phase = "actions" /\ queue = <<>> /\ section # 0
  IN  atEnd /\ NightBalanced(tx, section) => NightBalanceOk(work)

(* No custom token comes from nowhere: UTXOs and contract balances never   *)
(* hold more of it than contracts minted.  Nothing in apply checks this;   *)
(* it rests on balancing_check and on outputs being new.                   *)
NoInflation ==
  \A tt \in TokenType \ {NIGHT} :
    TokenInUtxos(ledger, tt) + TokenInContracts(ledger, tt) <= ledger.minted[tt]

(* The balance check never stops a system transaction whose amounts the    *)
(* pools cover: bridge fees and moves between pools account for every      *)
(* atomic unit.                                                            *)
SystemTxNeverUnbalanced ==
  /\ phase \in ClaimKind /\ queue = <<>> => NightBalanceOk(work)
  /\ phase = "idle" => \A n \in Amount :
       /\ n <= ledger.block_reward_pool => NightBalanceOk(AfterPayBlockRewards(ledger, n))
       /\ n <= ledger.locked_pool => /\ NightBalanceOk(AfterUnlockToTreasury(ledger, n))
                                     /\ NightBalanceOk(AfterUnlockToReserve(ledger, n))
       /\ n <= ledger.reserve_pool => NightBalanceOk(AfterDistributeReserve(ledger, n))

(* The fee is points/10000 of the amount, rounded down.                    *)
FeeIsItsShare(points, fee, amount) ==
  fee * BasisPoints <= points * amount /\ points * amount < (fee + 1) * BasisPoints

(* What a bridge transfer brings is split between the treasury and the     *)
(* address without a rest, and the fee is the share that the parameters    *)
(* name, rounded down, although basis_points_of computes it in two parts:  *)
(* all of an amount below the minimum, else points/10000 of it.            *)
BridgeTransfersSplit ==
  [][phase = "CardanoBridge" /\ queue # <<>> /\ phase' = phase =>
       LET o    == Head(queue)
           a    == o.target_address
           p    == work.parameters
           fee  == work'.treasury - work.treasury
           paid == work'.bridge_receiving[a] - work.bridge_receiving[a]
       IN  /\ fee + paid = o.amount
           /\ IF o.amount < p.min_amount THEN paid = 0
              ELSE FeeIsItsShare(p.fee_basis_points, fee, o.amount)]_vars

(* What an address may still claim, and the Night it holds.                *)
ClaimableOf(l, a) == l.unclaimed_block_rewards[a] + l.bridge_receiving[a]

NightOf(l, a) ==
  MapThenSumSet(LAMBDA u : u.value, {u \in l.utxos : u.owner = a /\ u.type_ = NIGHT})

(* What an address gives up by a claim, it holds as a new UTXO.  A claim   *)
(* repeated after its hash was forgotten names the UTXO of the first one:  *)
(* if that is unspent, claim_unshielded inserts what is there already, and *)
(* only the balance check at its end keeps the Night from being lost.      *)
ClaimsPaidInFull ==
  [][\A a \in Address : ClaimableOf(ledger', a) < ClaimableOf(ledger, a) =>
       NightOf(ledger', a) + ClaimableOf(ledger', a)
         = NightOf(ledger, a) + ClaimableOf(ledger, a)]_vars

(* What apply_offer and CNightGeneratesDustUpdate assert ("invariant       *)
(* violated: `night_indices` reference not backed in `generating_tree`"),  *)
(* and what they count on: a nonce that has leaves has an index, and it is *)
(* the index of the last one that was made for it, so that destroying the  *)
(* Night stops the leaf that generates.                                    *)
IndicesBacked ==
  \A l \in {ledger, work} :
    LET LeavesOf(nonce) == {leaf \in l.dust.generating_tree : leaf.info.nonce = nonce}
    IN  /\ \A x \in l.dust.night_indices :
             \E leaf \in LeavesOf(x.nonce) :
               /\ leaf.index = x.index
               /\ \A other \in LeavesOf(x.nonce) : other.index <= x.index
        /\ \A leaf \in l.dust.generating_tree :
             \E x \in l.dust.night_indices : x.nonce = leaf.info.nonce

(* Leaves that generate without a UTXO behind them: no dtime, no unspent   *)
(* output with their nonce.                                                *)
Unbacked(l) ==
  {leaf \in l.dust.generating_tree :
     /\ leaf.dtime = MaxTime /\ leaf.info.nonce \notin CNightNonce
     /\ \A u \in l.utxos : InitialNonce(u) # leaf.info.nonce}

(* Once the backing Night is spent, the Dust starts to decay: a leaf of    *)
(* the generation tree without a dtime is backed by an unspent UTXO.       *)
SpentNightDecays == phase = "idle" => Unbacked(ledger) = {}

(* The outputs that their own intent registers and that the guaranteed     *)
(* offer of a later intent of the same transaction spends.                 *)
SpentBeforeRegistered(t) ==
  {u \in UNION {Created(t.intents[s], 0) : s \in DOMAIN t.intents} :
     \E s, r \in DOMAIN t.intents :
       /\ s < r
       /\ u \in Created(t.intents[s], 0) \cap OfferOf(t.intents[r], 0).inputs
       /\ u.owner \in DOMAIN Body[t.intents[s]].registrations}

(* How a leaf comes to generate without Night: registrations are applied   *)
(* after the guaranteed offers of all the intents, so a registered output  *)
(* that the same transaction spends there gets its leaf when it is gone.   *)
(* No other step leaves Night spent and its leaf without a dtime: not a    *)
(* later transaction that spends a registered output, in either section,   *)
(* and not a claim that is repeated under another delegation.              *)
RegisteredNightDecays ==
  [][\A leaf \in Unbacked(ledger') \ Unbacked(ledger) :
       /\ tx # NoTx
       /\ \E u \in SpentBeforeRegistered(tx) : InitialNonce(u) = leaf.info.nonce]_vars

(* The commitment set answers for the tree: the same commitments, each of  *)
(* them once.                                                              *)
TreeMatchesSet ==
  \A l \in {ledger, work} :
    /\ Range(l.zswap.coin_coms) = l.zswap.coin_coms_set
    /\ IsInjective(l.zswap.coin_coms)
=============================================================================
