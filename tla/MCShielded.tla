------------------------------- MODULE MCShielded -------------------------------
(***************************************************************************)
(* Shielded offers on a small instance: transactions with a guaranteed     *)
(* offer and two fallible ones that make coins, spend them against recent  *)
(* and expired roots, and use transients, in a tree that can fill up; an   *)
(* intent can make the first fallible segment fail.                        *)
(***************************************************************************)
EXTENDS Ledger

CONSTANTS m1, m2, m3, u1, u2, bad, alice, night

Makes(m) == [NoOffer EXCEPT !.outputs = <<m>>]
Spends(u, m, r, new) == [NoOffer EXCEPT !.outputs = new,
                           !.inputs = <<[nullifier |-> u, coin |-> m, root |-> r]>>]
Passes(m, u) == [NoOffer EXCEPT !.transient = <<[coin_com |-> m, nullifier |-> u]>>]

Offers == {Makes(m1), Makes(m2), Passes(m3, u2), Spends(u1, m1, 1, <<>>),
           Spends(u1, m1, 2, <<m2>>)}

(* bad spends a UTXO that does not exist, in its fallible offer.           *)
MCBody ==
  [i \in {bad} |->
     [ttl |-> 1, actions |-> <<>>, spends |-> <<>>, registrations |-> <<>>,
      guaranteed_unshielded_offer |-> [inputs |-> {}, outputs |-> <<>>],
      fallible_unshielded_offer |->
        [outputs |-> <<>>,
         inputs |-> {[value |-> 1, owner |-> alice, type_ |-> night, output_no |-> 0,
                      intent_hash |-> [intent |-> bad, segment |-> 0]]}]]]

MCTransactions ==
  [intents : {<<>>, <<bad>>}, guaranteed_coins : Offers \cup {NoOffer},
   fallible_coins : UNION {[S -> Offers] : S \in SUBSET Segment}]

P == [global_ttl |-> 1, fee_basis_points |-> 0, min_amount |-> 0, min_claimable |-> 1]
MCParameters == {P}
MCGenesis == {[parameters |-> P, locked_pool |-> 1, reserve_pool |-> 0, treasury |-> 0]}
=============================================================================
