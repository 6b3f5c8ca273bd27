# Verification of the Midnight ledger

TLA+ models of the ledger of this repository and of the worker pool of its proof
server, checked by TLC on small instances and, for the properties that matter
most, proved by TLAPS for all values of the constants.

## 1. The system and its parts

A node keeps a `LedgerState` (`ledger/src/structure.rs`). It changes in four ways
(`ledger/src/semantics.rs`): a *transaction* is applied, unshielded Night is
*claimed*, a *system transaction* arrives from consensus, and a block ends
(`post_block_update`). A transaction holds intents, each in a physical segment, and
shielded (Zswap) offers. It is applied in sections: the *guaranteed* section does
the first half of every intent, all Dust spends and registrations, and makes a dry
run of all fallible shielded offers; then every *fallible* segment is applied, and
takes effect or not, on its own. Below the ledger state machine lie

* replay protection, a time filter map (`storage/src/storage.rs`) of the hashes of
  intents and output instructions, pruned when blocks end;
* the Zswap state (`zswap/src/ledger.rs`): commitment tree and set, nullifiers, and
  a time filter map of past roots;
* the UTXO set, and the pools of Night, whose total is checked after each section;
* the Dust state (`ledger/src/dust.rs`): which Night generates Dust for whom;
* the contracts and their maintenance.

Around the ledger are wallets (`zswap/src/local.rs`, `DustLocalState`), the storage
layer (`storage-core`: arena, write-back backend, incremental garbage collector),
the on-chain VM, the circuits and their prover, the proof server with its pool of
workers (`proof-server/src/worker_pool.rs`), and bindings. `PROJECT.json` lists every
part with its status, and the hazards of the code at the lines where they bite.

| part | source | module | status |
|---|---|---|---|
| ledger state machine | `ledger/src/semantics.rs` | `Ledger` | modelled |
| well-formedness | `ledger/src/verify.rs` | `Ledger` (`WellFormed`) | partly |
| replay protection | `ledger/src/semantics.rs` | `ReplayProtection`, `IntentHistory` | modelled |
| time filter map | `storage/src/storage.rs` | `TimeFilterMap` | modelled |
| Zswap state | `zswap/src/ledger.rs` | `ZswapState` | partly |
| UTXO set | `ledger/src/semantics.rs` | `Ledger` | modelled |
| Dust state | `ledger/src/dust.rs` | `DustState` | partly |
| contract actions | `ledger/src/semantics.rs` | `ContractState` | partly |
| proof server pool | `proof-server/src/worker_pool.rs` | `WorkerPool` | modelled |
| wallets (Zswap, Dust) | `zswap/src/local.rs`, `ledger/src/dust.rs` | | planned |
| storage backend, arena, collector | `storage-core/src` | | planned |
| Merkle tree, cost accounting, translation | `transient-crypto`, `storage/src` | | planned |
| VM, fees | `onchain-vm`, `base-crypto/src/cost_model.rs` | | planned, last |
| cryptography, ZKIR, serialization, bindings | several | | not modelled |

## 2. The modules

`TimeFilterMap`, `ReplayProtection`, `ZswapState`, `DustState` and `ContractState`
have no variables. Each defines the states of its component and, for every
operation of the code, a pair: the condition under which the operation succeeds
(`OfferOk`, `MemberOk`, `ActionOk`, ...) and the state it returns
(`ApplyZswapOffer`, `UpsertOne`, `ApplyAction`, ...). An operation that folds over
a list of effects that do not depend on each other is written for all of them at
once; the dry run, where each offer is tried on the state the last one left, is a
fold over the segments (`DryRunStep`).

The Dust state keeps the indices of the code: a leaf of `generating_tree` carries its
index, `generating_tree_first_free` is the next one, and `night_indices` holds the
entries of the map from nonces to indices. `FreshDust` takes consecutive indices in
the order of the outputs and replaces the entries of their nonces; `MarkSpent` looks
a nonce up and writes the dtime at the index it finds.

`Ledger` composes them into a state machine. The code computes the next state in
one call; the model takes one step per iteration of the code's loops, so every
error return leaves from its place in the code.

| variable | in the code |
|---|---|
| `ledger` | the `LedgerState` after the last section that succeeded |
| `work` | the state under construction inside the call |
| `tblock` | `context.block_context.tblock` |
| `phase`, `section` | where in the call the ledger is, and in which section |
| `tx`, `todo`, `queue` | the transaction, the segments and the actions, outputs or events still to be visited |
| `failed` | the fallible segments recorded as failed |

| actions | in the code |
|---|---|
| `BeginApply` | `well_formed`, then replay protection, guaranteed offer and dry run of `apply_section` |
| `GuaranteedOffer`, `RunAction`, `NextIntent` | the loop over the intents of the guaranteed section |
| `DustSpends`, `Register`, `EndGuaranteed` | the rest of the guaranteed section |
| `StartFallible`, `RunAction`, `EndFallible`, `EndApply` | `apply_fallible` |
| `Claim` | `claim_unshielded` |
| `OverwriteParameters`, the four moves between pools, `BeginDistribute` / `DistributeOutput` / `EndDistribute`, `BeginCNight` / `CNightStep` / `EndCNight` | `apply_system_tx` |
| `EndBlock` | `post_block_update`, and the time of the next block |

Three fields of the model's ledger are history: `applied` counts how often the offer
of a section of an intent was applied, `spent` keeps consumed UTXOs, and `minted`
what contracts minted. Nothing reads them but the properties.

`IntentHistory` is the abstract specification of replay protection: a history that
never forgets, to which a step adds a set of intents never applied before.
`HistorySpec` says that `Ledger` implements it.

`WorkerPool` models the proof server's pool with one step per lock or channel
operation: submission (`CheckCapacity`, `Insert`, `Send`, `Subscribe`), receiving
updates, `CancelFind` / `CancelSet`, the loop of a worker (`WorkerReceive`,
`WorkerGet`, `WorkerStart`, `WorkerFinish`, `WorkerExit`), the collector of timed-out
jobs, and `Shutdown`. `status` is the request map, `updates` the channel of each job,
`items` the channel of work items.

### Abstractions

* A hash is the record of what is hashed (hashing is injective); signatures, proofs
  and Pedersen commitments are sound, so only what they prove is left
  (`SpendProofsValid`: a spent coin was in the tree at the root that is named).
* An intent is its segment-independent hash; its contents are the constant `Body`.
* A contract call is its transcript: the state it expects, the state it leaves, and
  the tokens it takes in, pays out and mints.
* Merkle trees are sequences of leaves with a size; a root is the number of leaves.
* Times saturate at 0 and `MaxTime`, as `Timestamp` does at its limits. No block has
  the time `MaxTime`, and block times do not decrease (consensus sees to that).
  Durations are not negative and below 2^64: `Timestamp + Duration` casts an `i128`
  to `u64`, and the truncation of a longer duration is left out.
* Amounts are natural numbers. Where the code uses checked subtraction the model has
  a guard. A NIGHT sum cannot overflow `u128` with a supply below 2^64; the overflow
  error of the other token balances (`checked_add`) is left out.
* In the pool a job's time to live passes at any moment (`Expire`) and jobs expire in
  any order; each job is cancelled at most once; `poll` and `/ready` only read.

## 3. The runs

| run | instance | shows |
|---|---|---|
| `replay` | three intents with different times to live that deploy, mint from nothing, and move, alone or paired in two segments; `global_ttl` 1 or 2; times 0..3 | `ReplayInv`: applied intents are remembered while they could be accepted. `FreshOutputs`, `NoResurrection`: so no output is made twice. `HistorySpec`: the refinement |
| `system` | all system transactions and claims, three parameter sets (one of which only genesis can have), amounts and supply in units of 10003 | `BridgeTransfersSplit`: no unit is lost between fee and transfer and the fee is the rounded share. `IndicesBacked`: a nonce stands for the last leaf made for it. `SystemTxNeverUnbalanced`, `MapsConsistent`, `TypeOK` |
| `night` | seven intents that split, pass on, return and burn Night, register and spend Dust, in all pairs | `RegisteredNightDecays`: how a leaf can come to generate without Night. `BalancedSectionsPass` |
| `claims` | a claim that can be forgotten and repeated, two Dust keys, intents that register under one key and then the other and that spend the claimed UTXO | `ClaimsPaidInFull`: a claim is paid in full or refused. `RegisteredNightDecays`, here for a nonce with several leaves |
| `shielded` | all transactions of a guaranteed and two fallible offers out of five, a tree of two leaves, roots that expire, an intent that fails | `FallibleOffersApplicable`, `TreeMatchesSet`, `MapsConsistent`, `FailedLeaveNoTrace` |
| `contracts` | nine intents over one contract: deployment, calls in both sections, one that takes Night in and pays it out again, mints, maintenance that fails half-way | `NoInflation`, `BalancedSectionsPass`, `FailedLeaveNoTrace` |
| `pool_safety` | 2 jobs, 2 workers, a second subscriber, capacity 1 | `NoJobStranded`, `TypeOK` |
| `pool_liveness` | 2 jobs, 1 worker, fair scheduling | `EveryWaitEnds`, `ShutdownCompletes`, `FinalStatusInFlight`, `LostOnlyIfExpired` |

Four runs expect a violation (section 5).

**Bounds.** Times up to 3 let an intent be accepted at its first and at its last
moment, be forgotten, and be submitted again, under both values of `global_ttl`.
Two segments are enough for a segment that fails before one that succeeds and the
other way round, for one intent that depends on another, and for a tree that fills
up between two offers that fit alone. Minting intents need no input, so that
nothing but replay protection keeps them from being applied again. Amounts just above
10000, with a share of 3333 basis points, make both parts of `basis_points_of` count,
with a rest in the division. A `global_ttl` of 1 lets a claim be forgotten and made
again within the four times; what was distributed is enough for two claims. Two jobs and two
workers with capacity 1 reach every order of check, insert, pick-up, cancel,
timeout and shutdown. `SYMMETRY` (jobs and workers) is used in `pool_safety` only,
which checks no liveness. The pool's runs do not check deadlock, because a pool that
was shut down has nothing left to do; the ledger's runs do.

**Fairness** (`FairSpec`, the pool only): weak fairness of every step of a client
that has submitted, of the second half of a cancel, of the workers and of the
collector's stop: tokio keeps polling tasks that can go on, and the work itself, a
proof, terminates. Submitting, cancelling, shutdown, the passing of time and the
collector's rounds are not assumed to happen. The ledger needs no fairness: it is
a function that is called.

## 4. The proofs

| theorem | states |
|---|---|
| `LedgerTypes!LedgerTypeCorrect` | `Spec => []TypeOK` |
| `LedgerProofs!ReplayCorrect` | `Spec => []ReplayInv` |
| `LedgerProofs!OutputsAreFresh` | `Spec => []FreshOutputs` |
| `LedgerProofs!SpentStaysSpent` | `Spec => []NoResurrection` |
| `LedgerProofs!ImplementsHistory` | `Spec => HistorySpec` |
| `LedgerProofs!BridgeSplitCorrect` | `Spec => BridgeTransfersSplit` |
| `WorkerPoolProofs!PoolTypeCorrect` | `Spec => []TypeOK` |
| `WorkerPoolProofs!NoJobIsStranded` | `Spec => []NoJobStranded` |
| `WorkerPoolProofs!EndIsNotMissed` | `Spec => []FinalStatusInFlight`, if nobody but the submitter subscribes |
| `TimeFilterMapProofs` | `NewMap`, `Insert`, `Upsert` and `Filter` keep multiset and timestamps in step |

**Assumptions.** `LedgerAssumption` and the assumptions of the component modules say
only that constants have their types, that segments and amounts are finite sets, and
that contracts cannot mint Night (a mint's token type is a hash of the contract's
address). `EndIsNotMissed` assumes `Watcher = {}`; without it the property is false
(the run `pool_subscribers`).

**Types.** `TypeOK` says that no pool, claimable amount or contract balance is
negative and that the tree never holds more than it can. It is not inductive: that
`todo` holds the segment being applied when `RunAction` fails, and that the guaranteed
section only visits segments with an intent, comes from `Control`, which is added.

**Replay protection** (`LedgerSteps` for the steps of a transaction, `LedgerProofs`
for the rest and the theorems). That no intent is applied twice does not follow from the
guards alone, because the ledger forgets. The invariant `ReplayInv` says, of both
`ledger` and `work`: an intent with an applied section is held by the time map at
its own time to live, or that time has passed (`Remembered`), and the multiset that
answers `contains` agrees with the time map (`Consistent`). In `BeginApply` the
intent is not contained, hence held nowhere, and its time has not passed, hence none
of its sections was applied. `EndBlock` drops times before `tblock` and later blocks
are not earlier, hence what is dropped can never pass the check `ttl >= tblock`.
`global_ttl` may change at any time: the argument does not use it.
`InTransaction` and `AppliedSoFar` carry this through the steps of a transaction:
what it has yet to apply was never applied, whatever failed before.
`OutputsApplied` ties UTXOs to applied sections, which gives `FreshOutputs` and
`NeverBack`. For the refinement only `EndGuaranteed` changes the history, and it
adds exactly the intents of the transaction.

**Bridge fees.** With `v = q * 10000 + r`, the fee is `q * p + (r * p) div 10000`. The
first part contributes no fraction, so the sum is `(p * v) div 10000` (`PartIsTheShare`),
and it is at most `v` when `p` is at most 10000 (`PartBound`), which `BridgeFeeOk`
guards. A step that stays in the distribution is `DistributeOutput`
(`DistributionGoesOn`).

**The pool.** `NoJobStranded` says that a pending or processing job in the map is held
by a worker that will set its final status, or its item is in the channel, or its
client is about to send it. It is inductive with the types. `FinalStatusInFlight`
(`EndInFlight` in the proof) says that a job with a final status has it in its
channel until the submitter took it.

**Only model-checked.** Liveness of the pool (fairness is out of the prover's reach).
Conservation of tokens (`NoInflation`, `BalancedSectionsPass`,
`SystemTxNeverUnbalanced`): sums over sets and sequences need induction over data.
`ClaimsPaidInFull`, for the same reason. `RegisteredNightDecays`,
`FallibleOffersApplicable`, `TreeMatchesSet`, `FailedLeaveNoTrace`, `IndicesBacked`,
`MapsConsistent` and `LostOnlyIfExpired`, which a proof could reach.

## 5. Where the code and its text disagree

* `spent_night` (`SpentNightDecays`): registrations are applied after all the
  guaranteed offers, so an output that its own intent registers, and that a later
  intent of the transaction spends in the guaranteed section, gets a generation leaf
  after it is gone; its Dust never starts to decay. `spec/dust.md:62` says that Dust
  decays once the backing Night is spent. `RegisteredNightDecays`
  finds no other way on the instances of `night` and `claims`: every leaf that comes
  to generate without Night is that of an output registered and spent so, in the
  transaction that is being applied.
* `pool_subscribers` (`SubscribersSeeTheEnd`): receivers of one job share one
  channel, so each update reaches one of them, not all.
* `pool_cancel` (`CancelledIsNotRun`): a worker can pick the job up between the check
  and the write of `cancel`, which then returns `Ok` for a job that runs.
* `pool_capacity` (`CapacityRespected`): the capacity check and the insertion are
  under two locks; concurrent submissions exceed the capacity.

## 6. Not modelled, and the plan

Left out of the modelled parts: signatures and their thresholds, canonical order of
offers, sequencing and effects checks of `well_formed`, fees and prices, the Dust
commitment tree, its root history and Dust amounts, versions of verifier keys, the
contract whitelist of partial nodes, events, overflow of `u128`. Cryptography, ZKIR,
serialization and bindings have no shared state to model; the parts are listed with
reasons in `PROJECT.json`.

Planned, in this order:

1. **Storage backend** (`storage-core/src/backend.rs`): the cache states, deltas of
   reference counts, `cache`, `uncache`, `persist`, `unpersist`, `flush_to_db` with
   its batches and a crash between them, against an abstract store in which an
   object exists while something refers to it. Theorem: counts match references.
2. **Garbage collector** (`storage-core/src/gc.rs`), composed with the backend:
   marking and sweeping in slices while roots and pointers change. Nothing reachable
   is swept (proved); garbage is eventually swept (under fairness).
3. **Zswap wallet** (`zswap/src/local.rs`): pending spends and outputs against the
   offers of a ledger, failed transactions, collapsed updates of the Merkle tree.
4. **Dust wallet** (`DustLocalState`): replaying the ledger's events in the order
   they are emitted rebuilds the generation state; Dust amounts over time.
5. **More of the ledger**: `merge` of transactions, sequencing and effects checks of
   `well_formed`, fees and price adjustment.
6. **Cost accounting and state translation** (`storage/src/delta_tracking`,
   `storage/src/state_translation.rs`), and the stack machine of the VM as operators.
7. **Proofs** of `MapsConsistent`, `FallibleOffersApplicable`, `TreeMatchesSet`,
   `IndicesBacked`, `FailedLeaveNoTrace` and `LostOnlyIfExpired`.
