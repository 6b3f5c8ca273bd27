-------------------------------- MODULE MCClaims --------------------------------
(***************************************************************************)
(* Repeated claims on a small instance: the claimant uses one nonce again  *)
(* after the hash of the first claim was forgotten, while the UTXO of the  *)
(* first claim is unspent, or spent by one of two intents, and under       *)
(* delegations to two Dust keys.                                           *)
(***************************************************************************)
EXTENDS Ledger, TLC

CONSTANTS alice, bob, key1, key2, n1, n2, first, second, early, late

Instr(n, nonce) == [amount |-> n, target_address |-> alice, nonce |-> nonce]
ToBob == [inputs |-> {ClaimUtxo(Instr(1, n2))},
          outputs |-> <<[value |-> 1, owner |-> bob, type_ |-> NIGHT]>>]
Nothing == [inputs |-> {}, outputs |-> <<>>]

Plain(ttl) == [ttl |-> ttl, guaranteed_unshielded_offer |-> Nothing,
               fallible_unshielded_offer |-> Nothing, actions |-> <<>>, spends |-> <<>>,
               registrations |-> <<>>]

(* first, second    register alice for a Dust key,                         *)
(* early, late      hand the claimed Night to bob, in either section.      *)
MCBody ==
  (first :> [Plain(0) EXCEPT !.registrations = alice :> key1])
  @@ (second :> [Plain(2) EXCEPT !.registrations = alice :> key2])
  @@ (early :> [Plain(1) EXCEPT !.guaranteed_unshielded_offer = ToBob])
  @@ (late :> [Plain(3) EXCEPT !.fallible_unshielded_offer = ToBob])

MCTransactions == {[intents |-> 1 :> i, guaranteed_coins |-> NoOffer,
                    fallible_coins |-> <<>>] : i \in Intent}

MCDistributions == {<<Instr(2, n1)>>}
P == [global_ttl |-> 1, fee_basis_points |-> 0, min_amount |-> 0, min_claimable |-> 1]
MCParameters == {P}
MCGenesis == {[parameters |-> P, locked_pool |-> 2, reserve_pool |-> 0, treasury |-> 0]}
=============================================================================
