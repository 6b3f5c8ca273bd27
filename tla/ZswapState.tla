------------------------------ MODULE ZswapState ------------------------------
(***************************************************************************)
(* The shielded part of the ledger state, zswap/src/ledger.rs, for a node  *)
(* that tracks every contract (no whitelist).                              *)
(*                                                                         *)
(* The commitment tree only grows, so within one history the root of the   *)
(* tree with n leaves is identified with the number n.                     *)
(***************************************************************************)
EXTENDS TimeFilterMap, Sequences, Functions, FiniteSetsExt

CONSTANTS Com,        \* coin commitments
          Nul,        \* nullifiers
          TreeSize    \* leaves of the commitment tree, 2^ZSWAP_TREE_HEIGHT

ASSUME TreeSizeAssumption == TreeSize \in Nat

Root == 0 .. TreeSize

ZswapInput == [nullifier : Nul, coin : Com, root : Root]

Transient == [coin_com : Com, nullifier : Nul]

NoOffer == [inputs |-> <<>>, outputs |-> <<>>, transient |-> <<>>]

ZswapStates ==
  {z \in [coin_coms : Seq(Com), coin_coms_set : SUBSET Com,
          nullifiers : SUBSET Nul, past_roots : TimeFilterMaps(Root)] :
     Len(z.coin_coms) <= TreeSize}

NewZswap == [coin_coms |-> <<>>, coin_coms_set |-> {}, nullifiers |-> {},
             past_roots |-> NewMap(Root)]

(* The nullifiers and the commitments of an offer in the order try_apply   *)
(* meets them: inputs, then outputs, then transients.                      *)
OfferNullifiers(o) ==
  [k \in DOMAIN o.inputs |-> o.inputs[k].nullifier]
    \o [k \in DOMAIN o.transient |-> o.transient[k].nullifier]

OfferComs(o) == o.outputs \o [k \in DOMAIN o.transient |-> o.transient[k].coin_com]

(* try_apply fails on an input with an unknown root, on a nullifier or a   *)
(* commitment that is already present (in the state or earlier in the      *)
(* offer), and when the commitment tree is full.                           *)
OfferOk(z, o) ==
  /\ \A k \in DOMAIN o.inputs : ContainsItem(z.past_roots, o.inputs[k].root)
  /\ IsInjective(OfferNullifiers(o))
  /\ Range(OfferNullifiers(o)) \cap z.nullifiers = {}
  /\ IsInjective(OfferComs(o))
  /\ Range(OfferComs(o)) \cap z.coin_coms_set = {}
  /\ Len(z.coin_coms) + Len(OfferComs(o)) <= TreeSize

(* Mutant of ApplyZswapOffer: transients do not enter the tree.            *)
ApplyWithoutTransients(z, o) ==
  [z EXCEPT !.nullifiers    = @ \cup Range(OfferNullifiers(o)),
            !.coin_coms_set = @ \cup Range(OfferComs(o)),
            !.coin_coms     = @ \o o.outputs]

ApplyZswapOffer(z, o) ==
  [z EXCEPT !.nullifiers    = @ \cup Range(OfferNullifiers(o)),
            !.coin_coms_set = @ \cup Range(OfferComs(o)),
            !.coin_coms     = @ \o OfferComs(o)]

(* Mutant of DryRunOk: every offer is tried alone.                         *)
DryRunEachAlone(z, offers) == \A s \in DOMAIN offers : OfferOk(z, offers[s])

(* The dry run of all the fallible offers of a transaction, a map from     *)
(* segments: the try_fold applies them one after the other, the one of the *)
(* largest segment last, and none of them may fail.                        *)
DryRunStep(offers, s, r) ==
  [ok |-> r.ok /\ OfferOk(r.zswap, offers[s]), zswap |-> ApplyZswapOffer(r.zswap, offers[s])]

DryRunOk(z, offers) ==
  MapThenFoldSet(LAMBDA s, r : DryRunStep(offers, s, r), [ok |-> TRUE, zswap |-> z],
                 LAMBDA s : s, LAMBDA S : Max(S), DOMAIN offers).ok

(* A spend proof shows that the coin is a leaf of the tree with the root.  *)
SpendProofsValid(z, o) ==
  \A k \in DOMAIN o.inputs :
    \E n \in 1 .. Len(z.coin_coms) :
      n <= o.inputs[k].root /\ z.coin_coms[n] = o.inputs[k].coin

(* post_block_update records the current root at the time of the block (in *)
(* place of one recorded at the same time) and drops the expired roots.    *)
ZswapPostBlock(z, tblock, retention) ==
  [z EXCEPT !.past_roots = Filter(Insert(@, tblock, Len(z.coin_coms)),
                                  TimeMinus(tblock, retention))]
=============================================================================
