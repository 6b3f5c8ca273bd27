-------------------------------- MODULE MCReplay --------------------------------
(***************************************************************************)
(* Replay protection on a small instance: intents with different times to  *)
(* live that deploy a contract, mint a token and move it, in transactions  *)
(* of one or two intents, while blocks end and global_ttl changes.         *)
(* Minting needs no input, so only replay protection keeps the minted UTXO *)
(* from being made again.                                                  *)
(***************************************************************************)
EXTENDS Ledger, TLC

CONSTANTS con, d0, dep, mint, move, alice, night, tok

None == [inputs |-> {}, outputs |-> <<>>]
Zero == [tt \in TokenType |-> 0]
OneTok == [Zero EXCEPT ![tok] = 1]

Coin(i, s) == [value |-> 1, owner |-> alice, type_ |-> tok,
               intent_hash |-> [intent |-> i, segment |-> s], output_no |-> 0]
ToSelf(in) == [inputs |-> in, outputs |-> <<[value |-> 1, owner |-> alice, type_ |-> tok]>>]

Mint(pre, post) == [pre |-> pre, post |-> post, unshielded_inputs |-> Zero,
                    unshielded_outputs |-> Zero, unshielded_mints |-> OneTok]

Plain(ttl) == [ttl |-> ttl, guaranteed_unshielded_offer |-> None,
               fallible_unshielded_offer |-> None, actions |-> <<>>, spends |-> <<>>,
               registrations |-> <<>>]

MCBody ==
  (dep :> [Plain(2) EXCEPT !.actions =
     <<[type |-> "Deploy", address |-> con, fits |-> TRUE,
        initial_state |-> [data |-> d0, balance |-> Zero, counter |-> 0, operations |-> {}]]>>])
  @@ (mint :> [Plain(1) EXCEPT
     !.guaranteed_unshielded_offer = ToSelf({}),
     !.fallible_unshielded_offer = ToSelf({}),
     !.actions = <<[type |-> "Call", address |-> con,
                    guaranteed_transcript |-> <<Mint(d0, d0)>>,
                    fallible_transcript |-> <<Mint(d0, d0)>>]>>])
  @@ (move :> [Plain(2) EXCEPT
     !.guaranteed_unshielded_offer = ToSelf({Coin(mint, 0)}),
     !.fallible_unshielded_offer = ToSelf({Coin(mint, 1)})])

Alone(s, i) == [intents |-> s :> i, guaranteed_coins |-> NoOffer, fallible_coins |-> <<>>]
Both(i, j) == [intents |-> (1 :> i) @@ (2 :> j),
               guaranteed_coins |-> NoOffer, fallible_coins |-> <<>>]

MCTransactions == {Alone(s, i) : s \in Segment, i \in Intent}
                    \cup {Both(i, j) : i \in Intent, j \in Intent}

P(ttl) == [global_ttl |-> ttl, fee_basis_points |-> 0, min_amount |-> 0, min_claimable |-> 0]
MCParameters == {P(1), P(2)}
MCGenesis == {[parameters |-> P(2), locked_pool |-> 0, reserve_pool |-> MaxSupply, treasury |-> 0]}
=============================================================================
