-------------------------------- MODULE MCNight --------------------------------
(***************************************************************************)
(* Night and the Dust it generates on a small instance: a claim puts Night *)
(* into a UTXO, intents split it, pass it on, burn it, register addresses  *)
(* for Dust and spend Dust, alone or two in a transaction.                 *)
(***************************************************************************)
EXTENDS Ledger, TLC

CONSTANTS alice, bob, dust_key, dust_nul, n1, n2,
          split, pass, back, quick, burn, lose, leave

Night(n, addr) == [value |-> n, owner |-> addr, type_ |-> NIGHT]
Made(i, s, k, n, addr) == [value |-> n, owner |-> addr, type_ |-> NIGHT,
                           intent_hash |-> [intent |-> i, segment |-> s], output_no |-> k]
Offer(in, out) == [inputs |-> in, outputs |-> out]
Instr(nonce) == [amount |-> 2, target_address |-> alice, nonce |-> nonce]
Claimed == ClaimUtxo(Instr(n2))

Plain == [ttl |-> 1, guaranteed_unshielded_offer |-> Offer({}, <<>>),
          fallible_unshielded_offer |-> Offer({}, <<>>), actions |-> <<>>, spends |-> <<>>,
          registrations |-> <<>>]

(* split    registers alice, whose claimed Night it divides,               *)
(* pass     registers bob, then hands alice's part to bob,                 *)
(* back     returns that part to alice,                                    *)
(* quick    takes alice's part already in the guaranteed section,          *)
(* burn     destroys bob's part in a fallible section,                     *)
(* lose     destroys it in the guaranteed section, paying with Dust,       *)
(* leave    deregisters alice, paying with Dust.                           *)
MCBody ==
  (split :> [Plain EXCEPT
     !.guaranteed_unshielded_offer = Offer({Claimed}, <<Night(1, alice), Night(1, bob)>>),
     !.registrations = alice :> dust_key])
  @@ (pass :> [Plain EXCEPT
     !.fallible_unshielded_offer = Offer({Made(split, 0, 0, 1, alice)}, <<Night(1, bob)>>),
     !.registrations = bob :> dust_key])
  @@ (back :> [Plain EXCEPT
     !.guaranteed_unshielded_offer = Offer({Made(pass, 1, 0, 1, bob)}, <<Night(1, alice)>>)])
  @@ (quick :> [Plain EXCEPT
     !.guaranteed_unshielded_offer = Offer({Made(split, 0, 0, 1, alice)}, <<Night(1, bob)>>)])
  @@ (burn :> [Plain EXCEPT
     !.fallible_unshielded_offer = Offer({Made(split, 0, 1, 1, bob)}, <<>>)])
  @@ (lose :> [Plain EXCEPT
     !.guaranteed_unshielded_offer = Offer({Made(split, 0, 1, 1, bob)}, <<>>),
     !.spends = <<dust_nul>>])
  @@ (leave :> [Plain EXCEPT !.spends = <<dust_nul>>, !.registrations = alice :> NoKey])

Transaction(intents) == [intents |-> intents, guaranteed_coins |-> NoOffer,
                         fallible_coins |-> <<>>]
MCTransactions ==
  {Transaction(1 :> i) : i \in Intent}
    \cup {Transaction((1 :> i) @@ (2 :> j)) : i \in Intent, j \in Intent}

MCDistributions == {<<Instr(n1)>>}
P == [global_ttl |-> 1, fee_basis_points |-> 0, min_amount |-> 0, min_claimable |-> 1]
MCParameters == {P}
MCGenesis == {[parameters |-> P, locked_pool |-> 2, reserve_pool |-> 0, treasury |-> 0]}
=============================================================================
