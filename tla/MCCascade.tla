----------------------------- MODULE MCCascade -----------------------------
(***************************************************************************)
(* Instances of Cascade for TLC, and the properties that need sums.         *)
(***************************************************************************)
EXTENDS Cascade, FiniteSetsExt, TLC

CONSTANTS va, vb, vc, payer

tx(id, from, nonce, to, value, price) ==
    [id |-> id, from |-> from, to |-> to, nonce |-> nonce, value |-> value, price |-> price]

MCNodes == {va, vb, vc}
MCAccounts == {va, vb, vc, payer}
MCNoMinimum == [n \in MCNodes |-> 0]
MCWeight == [S \in SUBSET MCNodes |-> MapThenSumSet(Stake, S)]
MCTotalStake == MapThenSumSet(Stake, MCNodes)

(* Two correct nodes and a signer with half of the stake that acks both of   *)
(* two conflicting payments.  9 of 10 confirm.                                *)
MCEquivBalance == va :> 4 @@ vb :> 1 @@ vc :> 5 @@ payer :> 3
MCEquivTxs == {tx(1, payer, 0, va, 1, 1), tx(2, payer, 0, vb, 2, 1)}
MCEquivBodies == {<<t>> : t \in MCEquivTxs}
(* The same with prices: va does not count the acks of others for the cheaper *)
(* of the two, vb does.                                                      *)
MCPricedTxs == {tx(1, payer, 0, va, 1, 2), tx(2, payer, 0, vb, 2, 1)}
MCPricedBodies == {<<t>> : t \in MCPricedTxs}
MCMinimum == [MCNoMinimum EXCEPT ![va] = 2]
(* Node va among two validators whose blocks are arbitrary lists.  vc has    *)
(* most of the stake: vc and one other confirm, a third ack is to spare.      *)
MCTrioBalance == va :> 1 @@ vb :> 1 @@ vc :> 8 @@ payer :> 4
MCChainTxs == {tx(1, payer, 0, va, 1, 1), tx(2, payer, 1, vb, 1, 1), tx(3, va, 0, payer, 1, 1)}
MCPairTxs == {tx(1, payer, 0, va, 1, 1), tx(2, payer, 1, vb, 1, 1)}
MCNoBodies == {}
(* Payments of two senders, which vb and vc ack in one and the same order.   *)
MCIndependentTxs == {tx(1, payer, 0, va, 1, 1), tx(3, vc, 0, payer, 1, 1)}
MCSameBody == {<<tx(3, vc, 0, payer, 1, 1), tx(1, payer, 0, va, 1, 1)>>}
MCChainBodies == {<<>>} \cup {<<t>> : t \in MCChainTxs}

(* The balances are exactly what the applied transactions make of genesis:   *)
(* no execution is lost, repeated or reordered into another result by stale   *)
(* validation, the two loops of Process or a rejected block.                  *)
Value(t) == t.value
LedgerExact ==
    \A n \in Correct : \A x \in Accounts :
        state[n].balance[x] + MapThenSumSet(Cost, {t \in done[n] : t.from = x})
            = InitBalance[x] + MapThenSumSet(Value, {t \in done[n] : t.to = x})
=============================================================================
