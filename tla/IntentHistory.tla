----------------------------- MODULE IntentHistory -----------------------------
(***************************************************************************)
(* What replay protection promises, as an abstract specification: the      *)
(* ledger behaves as if it kept every intent it ever applied, for ever,    *)
(* and applied only transactions made of new intents.  The real ledger     *)
(* forgets an intent when its time to live has passed.                     *)
(***************************************************************************)
CONSTANT Intent

VARIABLE history    \* how often each intent was applied

Init == history = [i \in Intent |-> 0]

Apply(new) ==
  /\ \A i \in new : history[i] = 0
  /\ history' = [i \in Intent |-> IF i \in new THEN 1 ELSE history[i]]

Next == \E new \in SUBSET Intent : Apply(new)

Spec == Init /\ [][Next]_history
=============================================================================
