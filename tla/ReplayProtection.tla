--------------------------- MODULE ReplayProtection ---------------------------
(***************************************************************************)
(* ReplayProtectionState of ledger/src/semantics.rs: the hashes of applied *)
(* intents, each remembered until its time to live has passed.             *)
(***************************************************************************)
EXTENDS TimeFilterMap, Functions

(* Mutant of MemberOk: a time to live in the past is accepted.             *)
MemberOkIfExpired(m, h, ttl, tblock, global_ttl) ==
  ~ ContainsItem(m, h) /\ ttl <= TimePlus(tblock, global_ttl)

(* apply_member accepts a hash it does not remember whose time to live     *)
(* lies in the window that starts now and is global_ttl long.              *)
MemberOk(m, h, ttl, tblock, global_ttl) ==
  /\ ~ ContainsItem(m, h)
  /\ ttl >= tblock
  /\ ttl <= TimePlus(tblock, global_ttl)

(* Mutant of IntentsOk: the intents of a transaction are only compared     *)
(* with each other.                                                        *)
IntentsOkUnremembered(m, intents, ttl, tblock, global_ttl) == IsInjective(intents)

(* apply_tx folds apply_intent over the intents of a transaction, a map    *)
(* from segments; a second copy of an intent finds the first remembered.   *)
IntentsOk(m, intents, ttl, tblock, global_ttl) ==
  /\ IsInjective(intents)
  /\ \A s \in DOMAIN intents :
       MemberOk(m, intents[s], ttl[intents[s]], tblock, global_ttl)

ApplyIntents(m, intents, ttl) ==
  LET new == Range(intents)
  IN  [time_map |-> [t \in Time |-> m.time_map[t] \cup {i \in new : ttl[i] = t}],
       set      |-> [i \in DOMAIN m.set |->
                       IF i \in new THEN m.set[i] + 1 ELSE m.set[i]]]

(* Mutant of ReplayPostBlock: a hash is forgotten when its time to live is *)
(* reached, not when it has passed.                                        *)
ForgetEarly(m, tblock) == Filter(m, tblock + 1)

(* post_block_update forgets the hashes whose time to live has passed.     *)
ReplayPostBlock(m, tblock) == Filter(m, tblock)
=============================================================================
