-------------------------------- MODULE MCSystem --------------------------------
(***************************************************************************)
(* System transactions and claims on a small instance: Night moves between *)
(* the pools, is distributed as rewards and over the bridge, with and      *)
(* without fees, and is claimed, while blocks end and parameters change.   *)
(***************************************************************************)
EXTENDS Ledger, TLC

CONSTANTS alice, bob, dust_key, n1, n2, cnight

(* The unit of Night in the amounts below: more than 10000, so that fees   *)
(* have a part from the quotient and one from the remainder of the amount. *)
Unit == 10003

Output(n, addr, nonce) == [amount |-> n * Unit, target_address |-> addr, nonce |-> nonce]

MCAmount == {Unit, 2 * Unit}
MCDistributions == {<<Output(2, alice, n1)>>,
                    <<Output(1, alice, n1), Output(1, bob, n1)>>,
                    <<Output(1, alice, n1), Output(1, alice, n1)>>}

Event(action, n, time) == [value |-> n, owner |-> dust_key, time |-> time,
                           action |-> action, nonce |-> cnight]
MCCNightBatches == {<<Event("Create", 1, 0)>>,
                    <<Event("Destroy", 1, 1), Event("Create", 2, 1)>>}

P(bps, least) == [global_ttl |-> 1, fee_basis_points |-> bps,
                  min_amount |-> least * Unit, min_claimable |-> least * Unit]
G(p, locked, reserve, treasury) ==
  [parameters |-> p, locked_pool |-> locked * Unit, reserve_pool |-> reserve * Unit,
   treasury |-> treasury * Unit]
MCParameters == {P(0, 1), P(3333, 2), P(10001, 1)}
MCGenesis == {G(P(0, 1), 2, 2, 0), G(P(10001, 1), 3, 0, 1), G(P(0, 1), 3, 0, 0)}
MCMaxSupply == 4 * Unit
=============================================================================
