------------------------------- MODULE DustState -------------------------------
(***************************************************************************)
(* The Dust part of the ledger state, ledger/src/dust.rs: which Night      *)
(* generates Dust, for whom and until when, and the spent Dust UTXOs.      *)
(*                                                                         *)
(*   generating_tree             the leaves, each an info with its index   *)
(*                               and its dtime (MaxTime: never),           *)
(*   generating_tree_first_free  the index of the next leaf,               *)
(*   night_indices               the entries of the map from nonces to     *)
(*                               indices, at most one for a nonce.         *)
(* generating_set is the set of the infos in the tree.  Amounts of Dust    *)
(* and the commitment tree are left out.                                   *)
(***************************************************************************)
EXTENDS TimeFilterMap, Sequences, Functions

CONSTANTS Address,    \* Night addresses
          NIGHT,      \* the token type of Night
          DustKey,    \* Dust public keys
          NoKey,      \* no delegation; in a registration, a deregistration
          DustNul     \* Dust nullifiers

ASSUME NoKeyAssumption == NoKey \notin DustKey

GenerationInfo(Nonces) == [value : Nat, owner : DustKey, nonce : Nonces]

DustStates(Nonces) ==
  [address_delegation : [Address -> DustKey \cup {NoKey}],
   generating_tree    : SUBSET [index : Nat, info : GenerationInfo(Nonces), dtime : Time],
   generating_tree_first_free : Nat,
   night_indices      : SUBSET [nonce : Nonces, index : Nat],
   nullifiers         : SUBSET DustNul]

NewDust == [address_delegation |-> [a \in Address |-> NoKey], generating_tree |-> {},
            generating_tree_first_free |-> 0, night_indices |-> {}, nullifiers |-> {}]

GeneratingSet(d) == {l.info : l \in d.generating_tree}

(* fresh_dust_output for each of some infos with distinct nonces, in the   *)
(* order of the outputs: an info that was ever in the tree is refused; the *)
(* nonces now stand for the new leaves.                                    *)
FreshDustOk(d, infos) == infos \cap GeneratingSet(d) = {}

FreshIndex(d, infos, g) ==
  d.generating_tree_first_free
    + Cardinality({h \in infos \ {g} : h.nonce.output_no < g.nonce.output_no})

FreshLeaves(d, infos) ==
  {[index |-> FreshIndex(d, infos, g), info |-> g, dtime |-> MaxTime] : g \in infos}

FreshEntries(d, infos) ==
  {[nonce |-> g.nonce, index |-> FreshIndex(d, infos, g)] : g \in infos}

(* Mutant of FreshDust: a nonce that has an index keeps it.                *)
FreshDustKeepsIndex(d, infos) ==
  [d EXCEPT
     !.generating_tree = @ \cup FreshLeaves(d, infos),
     !.generating_tree_first_free = @ + Cardinality(infos),
     !.night_indices =
        @ \cup {x \in FreshEntries(d, infos) : \A y \in @ : y.nonce # x.nonce}]

FreshDust(d, infos) ==
  [d EXCEPT
     !.generating_tree = @ \cup FreshLeaves(d, infos),
     !.generating_tree_first_free = @ + Cardinality(infos),
     !.night_indices =
        {x \in @ : \A g \in infos : g.nonce # x.nonce} \cup FreshEntries(d, infos)]

(* Tracked Night is destroyed: the leaf at its index gets the time; Night  *)
(* that is not tracked is skipped.                                         *)
MarkSpent(d, nonces, time) ==
  LET at == {x.index : x \in {y \in d.night_indices : y.nonce \in nonces}}
  IN  [d EXCEPT !.generating_tree =
         {IF l.index \in at THEN [l EXCEPT !.dtime = time] ELSE l : l \in @}]

(* initial_nonce: the hash of the intent and the number of the output.     *)
InitialNonce(utxo) == [intent_hash |-> utxo.intent_hash, output_no |-> utxo.output_no]

(* The infos of those Night outputs of an offer whose owners are in who.   *)
NightInfos(created, who, delegation) ==
  {[value |-> u.value, owner |-> delegation[u.owner], nonce |-> InitialNonce(u)] :
     u \in {v \in created : v.type_ = NIGHT /\ v.owner \in who}}

(* apply_offer: Night inputs stop generating; Night outputs of delegated   *)
(* addresses start to, except, in segment 0, those of addresses that the   *)
(* same intent registers (`handled_by_registration`).                      *)
OfferSpent(d, inputs, tblock) ==
  MarkSpent(d, {InitialNonce(u) : u \in {v \in inputs : v.type_ = NIGHT}}, tblock)

OfferInfos(d, created, registrations, segment) ==
  LET handled   == IF segment = 0 THEN DOMAIN registrations ELSE {}
      delegated == {a \in Address : d.address_delegation[a] # NoKey}
  IN  NightInfos(created, delegated \ handled, d.address_delegation)

DustOfferOk(d, created, registrations, segment) ==
  FreshDustOk(d, OfferInfos(d, created, registrations, segment))

DustApplyOffer(d, inputs, created, registrations, segment, tblock) ==
  FreshDust(OfferSpent(d, inputs, tblock), OfferInfos(d, created, registrations, segment))

(* apply_spend for all the spends of a transaction: no double spends.      *)
DustSpendsOk(d, nuls) ==
  /\ \A k, l \in DOMAIN nuls : nuls[k] = nuls[l] => k = l
  /\ Range(nuls) \cap d.nullifiers = {}

ApplyDustSpends(d, nuls) == [d EXCEPT !.nullifiers = @ \cup Range(nuls)]

(* apply_registration for the registrations of one intent, one per Night   *)
(* key: delegations are set or removed, and the guaranteed Night outputs   *)
(* of a registered key start to generate.  A key without a delegation      *)
(* cannot be deregistered.                                                 *)
RegistrationInfos(created, registrations) ==
  NightInfos(created, {a \in DOMAIN registrations : registrations[a] # NoKey}, registrations)

RegistrationsOk(d, created, registrations) ==
  /\ \A a \in DOMAIN registrations :
       registrations[a] = NoKey => d.address_delegation[a] # NoKey
  /\ FreshDustOk(d, RegistrationInfos(created, registrations))

(* Mutant of ApplyRegistrations: the new leaves get no index.              *)
ApplyRegistrationsUnindexed(d, created, registrations) ==
  LET delegated == [d EXCEPT !.address_delegation =
                      [a \in Address |-> IF a \in DOMAIN registrations
                                         THEN registrations[a] ELSE @[a]]]
  IN  [FreshDust(delegated, RegistrationInfos(created, registrations))
         EXCEPT !.night_indices = d.night_indices]

ApplyRegistrations(d, created, registrations) ==
  FreshDust([d EXCEPT !.address_delegation =
               [a \in Address |-> IF a \in DOMAIN registrations
                                  THEN registrations[a] ELSE @[a]]],
            RegistrationInfos(created, registrations))

(* One event of CNightGeneratesDustUpdate: Night on the other chain starts *)
(* or stops to generate; destroying untracked Night changes nothing.       *)
CNightInfo(e) == [value |-> e.value, owner |-> e.owner, nonce |-> e.nonce]

CNightOk(d, e) == e.action = "Create" => FreshDustOk(d, {CNightInfo(e)})

ApplyCNight(d, e) ==
  IF e.action = "Create" THEN FreshDust(d, {CNightInfo(e)})
                         ELSE MarkSpent(d, {e.nonce}, e.time)
=============================================================================
