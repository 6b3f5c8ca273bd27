----------------------------- MODULE ContractState -----------------------------
(***************************************************************************)
(* The contracts of the ledger and the effect of one contract action, from *)
(* apply_actions of ledger/src/semantics.rs.                               *)
(*                                                                         *)
(* What a contract stores is a value of Data.  A transcript records the    *)
(* state it was made for and the one it leads to: it runs to its declared  *)
(* effects exactly when the contract is in the former.                     *)
(***************************************************************************)
EXTENDS Naturals, Sequences

CONSTANTS Contract,      \* contract addresses
          Data,          \* contents of contract states
          EntryPoint,    \* operations
          MaxCounter,    \* the largest maintenance counter, u32::MAX
          TokenType      \* unshielded token types

ASSUME MaxCounterAssumption == MaxCounter \in Nat

Amounts == [TokenType -> Nat]

(* An operation is the set of its parts: a verifier key, an IR.  It exists *)
(* while it has one.                                                       *)
Part == {"vk", "ir"}

ContractStates == [data : Data, balance : Amounts, counter : 0 .. MaxCounter,
                   operations : SUBSET (EntryPoint \X Part)]

(* Map::get of an address: a sequence of at most one element.              *)
Option(S) == {o \in Seq(S) : Len(o) <= 1}

Contracts == [Contract -> Option(ContractStates)]

Transcript == [pre : Data, post : Data, unshielded_inputs : Amounts,
               unshielded_outputs : Amounts, unshielded_mints : Amounts]

SingleUpdate == [type : {"ReplaceAuthority"}, counter : 0 .. MaxCounter]
                  \cup [type : {"VerifierKeyRemove", "VerifierKeyInsert", "IrRemove", "IrInsert"},
                        ep : EntryPoint]

Action ==
  [type : {"Call"}, address : Contract, guaranteed_transcript : Option(Transcript),
   fallible_transcript : Option(Transcript)]
  \cup [type : {"Deploy"}, address : Contract, initial_state : ContractStates, fits : BOOLEAN]
  \cup [type : {"Maintain"}, address : Contract, counter : 0 .. MaxCounter,
        updates : Seq(SingleUpdate), fits : BOOLEAN]
  \cup [type : {"Updates"}, address : Contract, updates : Seq(SingleUpdate), fits : BOOLEAN]

(* A call runs the transcript of the section; without one it only needs    *)
(* the contract to exist.  The balance takes the inputs first.             *)
CallTranscript(call, guaranteed) ==
  IF guaranteed THEN call.guaranteed_transcript ELSE call.fallible_transcript

TranscriptOk(c, t) ==
  /\ c.data = t.pre
  /\ \A tt \in TokenType :
       t.unshielded_outputs[tt] <= c.balance[tt] + t.unshielded_inputs[tt]

(* Mutant of RunTranscript: the outputs are taken first, down to zero.     *)
RunTranscriptOutputsFirst(c, t) ==
  [c EXCEPT !.data = t.post,
            !.balance = [tt \in TokenType |->
              (IF t.unshielded_outputs[tt] > @[tt] THEN 0 ELSE @[tt] - t.unshielded_outputs[tt])
                + t.unshielded_inputs[tt]]]

RunTranscript(c, t) ==
  [c EXCEPT !.data = t.post,
            !.balance = [tt \in TokenType |-> @[tt] + t.unshielded_inputs[tt]
                                                    - t.unshielded_outputs[tt]]]

(* One SingleUpdate of a maintenance update.  ReplaceAuthority brings its  *)
(* own counter; IrRemove only needs the operation to exist.                *)
UpdateOk(c, u) ==
  \/ u.type = "ReplaceAuthority"
  \/ u.type = "VerifierKeyRemove" /\ <<u.ep, "vk">> \in c.operations
  \/ u.type = "VerifierKeyInsert" /\ <<u.ep, "vk">> \notin c.operations
  \/ u.type = "IrRemove" /\ \E p \in Part : <<u.ep, p>> \in c.operations
  \/ u.type = "IrInsert" /\ <<u.ep, "ir">> \notin c.operations

ApplyUpdate(c, u) ==
  CASE u.type = "ReplaceAuthority"  -> [c EXCEPT !.counter = u.counter]
    [] u.type = "VerifierKeyRemove" -> [c EXCEPT !.operations = @ \ {<<u.ep, "vk">>}]
    [] u.type = "VerifierKeyInsert" -> [c EXCEPT !.operations = @ \cup {<<u.ep, "vk">>}]
    [] u.type = "IrRemove"          -> [c EXCEPT !.operations = @ \ {<<u.ep, "ir">>}]
    [] u.type = "IrInsert"          -> [c EXCEPT !.operations = @ \cup {<<u.ep, "ir">>}]

IncrementCounter(n) == IF n = MaxCounter THEN n ELSE n + 1

(* Whether an action of a section can be executed.  In the guaranteed      *)
(* section Deploy and Maintain are skipped.  "Updates" is what is left of  *)
(* a maintenance update after its counter was checked; `fits` is the check *)
(* of the size of the metadata, made when no update is left.               *)
ActionOk(contract, a, guaranteed) ==
  LET old == contract[a.address]
  IN  \/ a.type # "Call" /\ guaranteed
      \/ /\ a.type = "Call" /\ old # <<>>
         /\ LET t == CallTranscript(a, guaranteed)
            IN  t # <<>> => TranscriptOk(old[1], t[1])
      \/ a.type = "Deploy" /\ old = <<>> /\ a.fits
      \/ a.type = "Maintain" /\ old # <<>> /\ old[1].counter = a.counter
      \/ /\ a.type = "Updates" /\ old # <<>>
         /\ IF a.updates = <<>> THEN a.fits ELSE UpdateOk(old[1], a.updates[1])

(* The contract at the address of the action, after the action.            *)
AfterAction(old, a, guaranteed) ==
  CASE a.type = "Call" -> LET t == CallTranscript(a, guaranteed)
                          IN  IF t = <<>> THEN old ELSE <<RunTranscript(old[1], t[1])>>
    [] a.type = "Deploy"   -> <<a.initial_state>>
    [] a.type = "Maintain" -> <<[old[1] EXCEPT !.counter = IncrementCounter(@)]>>
    [] a.type = "Updates"  -> IF a.updates = <<>> THEN old
                              ELSE <<ApplyUpdate(old[1], a.updates[1])>>

ApplyAction(contract, a, guaranteed) ==
  IF a.type # "Call" /\ guaranteed THEN contract
  ELSE [contract EXCEPT ![a.address] = AfterAction(@, a, guaranteed)]

(* What is left of the action: a maintenance update goes on with its list. *)
RestOfAction(a, guaranteed) ==
  IF guaranteed \/ a.type \in {"Call", "Deploy"} \/ (a.type = "Updates" /\ a.updates = <<>>)
  THEN <<>>
  ELSE <<[type |-> "Updates", address |-> a.address, fits |-> a.fits,
          updates |-> IF a.type = "Maintain" THEN a.updates ELSE Tail(a.updates)]>>
=============================================================================
