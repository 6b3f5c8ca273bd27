------------------------------ MODULE MCContracts ------------------------------
(***************************************************************************)
(* Contracts on a small instance: one that is deployed, takes in Night and *)
(* pays it out, mints a token and hands it over, and is maintained.  A     *)
(* section may fail at any of several actions.                             *)
(***************************************************************************)
EXTENDS Ledger, TLC

CONSTANTS con, d0, d1, ep, alice, night, tok, n1, n2,
          dep, put, swap, keep, pay, grab, fix, half, fake

Zero == [tt \in TokenType |-> 0]
One(tt) == [Zero EXCEPT ![tt] = 1]
Out(tt) == [value |-> 1, owner |-> alice, type_ |-> tt]
Offer(in, out) == [inputs |-> in, outputs |-> out]
Instr(nonce) == [amount |-> 1, target_address |-> alice, nonce |-> nonce]

Effect(pre, post) == [pre |-> pre, post |-> post, unshielded_inputs |-> Zero,
                      unshielded_outputs |-> Zero, unshielded_mints |-> Zero]
Call(g, f) == [type |-> "Call", address |-> con,
               guaranteed_transcript |-> g, fallible_transcript |-> f]
Deploy == [type |-> "Deploy", address |-> con, fits |-> TRUE,
           initial_state |-> [data |-> d0, balance |-> Zero, counter |-> 0,
                              operations |-> {<<ep, "vk">>}]]
Maintain(updates, fits) == [type |-> "Maintain", address |-> con, counter |-> 0,
                            updates |-> updates, fits |-> fits]
On(type) == [type |-> type, ep |-> ep]
Replace(n) == [type |-> "ReplaceAuthority", counter |-> n]

Plain == [ttl |-> 1, guaranteed_unshielded_offer |-> Offer({}, <<>>),
          fallible_unshielded_offer |-> Offer({}, <<>>), actions |-> <<>>, spends |-> <<>>,
          registrations |-> <<>>]

Coin(tt, i, s) == [value |-> 1, owner |-> alice, type_ |-> tt, output_no |-> 0,
                   intent_hash |-> [intent |-> i, segment |-> s]]

(* dep      deploys and replaces the authority at once,                    *)
(* put      pays the claimed Night to the contract,                        *)
(* swap     pays it and is paid it back by the same call,                  *)
(* keep     mints a token into a UTXO, and pays it to the contract,        *)
(* pay      is paid the token, then the Night; either may be missing,      *)
(* grab     is paid the token in the guaranteed section; its maintenance   *)
(*          update makes the contract too large,                           *)
(* fix      replaces the key and the IR of the operation,                  *)
(* half     fails after half of its updates,                               *)
(* fake     makes a token from nothing, so it is not well formed.          *)
MCBody ==
  (dep :> [Plain EXCEPT !.actions = <<Deploy, Maintain(<<Replace(0)>>, TRUE)>>])
  @@ (put :> [Plain EXCEPT
     !.fallible_unshielded_offer = Offer({ClaimUtxo(Instr(n2))}, <<>>),
     !.actions = <<Call(<<>>, <<[Effect(d0, d1) EXCEPT !.unshielded_inputs = One(night)]>>)>>])
  @@ (swap :> [Plain EXCEPT
     !.fallible_unshielded_offer = Offer({ClaimUtxo(Instr(n2))}, <<Out(night)>>),
     !.actions = <<Call(<<>>, <<[Effect(d0, d0) EXCEPT !.unshielded_inputs = One(night),
                                                       !.unshielded_outputs = One(night)]>>)>>])
  @@ (keep :> [Plain EXCEPT
     !.guaranteed_unshielded_offer = Offer({}, <<Out(tok)>>),
     !.fallible_unshielded_offer = Offer({Coin(tok, keep, 0)}, <<>>),
     !.actions = <<Call(<<[Effect(d0, d0) EXCEPT !.unshielded_mints = One(tok)]>>,
                        <<[Effect(d0, d0) EXCEPT !.unshielded_inputs = One(tok)]>>)>>])
  @@ (pay :> [Plain EXCEPT
     !.fallible_unshielded_offer = Offer({}, <<Out(tok), Out(night)>>),
     !.actions = <<Call(<<>>, <<[Effect(d1, d1) EXCEPT !.unshielded_outputs = One(tok)]>>),
                   Call(<<>>, <<[Effect(d1, d0) EXCEPT !.unshielded_outputs = One(night)]>>)>>])
  @@ (grab :> [Plain EXCEPT
     !.guaranteed_unshielded_offer = Offer({}, <<Out(tok)>>),
     !.actions = <<Call(<<[Effect(d0, d0) EXCEPT !.unshielded_outputs = One(tok)]>>, <<>>),
                   Maintain(<<>>, FALSE)>>])
  @@ (fix :> [Plain EXCEPT
     !.actions = <<Maintain(<<On("VerifierKeyRemove"), On("VerifierKeyInsert"), On("IrInsert"),
                              On("IrRemove"), Replace(1)>>, TRUE)>>])
  @@ (half :> [Plain EXCEPT
     !.actions = <<Maintain(<<On("IrInsert"), On("IrInsert")>>, TRUE)>>])
  @@ (fake :> [Plain EXCEPT !.fallible_unshielded_offer = Offer({}, <<Out(tok)>>)])

Transaction(intents) == [intents |-> intents, guaranteed_coins |-> NoOffer,
                         fallible_coins |-> <<>>]
MCTransactions ==
  {Transaction(1 :> i) : i \in Intent}
    \cup {Transaction((1 :> p[1]) @@ (2 :> p[2])) :
            p \in {<<dep, keep>>, <<dep, fix>>, <<keep, grab>>, <<put, pay>>, <<half, put>>}}

MCDistributions == {<<Instr(n1)>>}
P == [global_ttl |-> 1, fee_basis_points |-> 0, min_amount |-> 0, min_claimable |-> 1]
MCParameters == {P}
MCGenesis == {[parameters |-> P, locked_pool |-> 1, reserve_pool |-> 0, treasury |-> 0]}
=============================================================================
