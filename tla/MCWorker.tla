------------------------------ MODULE MCWorker ------------------------------
(***************************************************************************)
(* Instances of Worker for TLC: one payer with two rivals for its first      *)
(* nonce and a payment at the second.                                         *)
(***************************************************************************)
EXTENDS Worker, TLC

CONSTANTS payer, payee

MCAccounts == {payer, payee}
MCBalance == payer :> 9 @@ payee :> 0
pay(id, nonce, price) == [id |-> id, from |-> payer, to |-> payee, nonce |-> nonce, value |-> 1, price |-> price]
MCTxs == {pay(1, 0, 1), pay(2, 0, 2), pay(3, 1, 1)}
=============================================================================
