----------------------------- MODULE Transfers -----------------------------
(***************************************************************************)
(* Account states and payment transactions: what core/state_transition.go   *)
(* does to a statedb.  No variables: the operators of the other modules.     *)
(*                                                                         *)
(* A transaction is a plain value transfer that passes the checks which     *)
(* look at the transaction alone (type, size, sign, signature, intrinsic    *)
(* gas).  Gas is counted in units of one transfer: a transfer uses exactly  *)
(* the one unit it is given, so its fee is its gas price.                   *)
(***************************************************************************)
EXTENDS Integers

CONSTANTS
    Accounts,      \* addresses: payers, payees and validators
    Txs,           \* the transactions of the instance
    InitBalance    \* the genesis allocation

TxType == [id: Nat, from: Accounts, to: Accounts, nonce: Nat, value: Nat, price: Nat]

(* Genesis gives every account a balance; transactions are well formed.     *)
ASSUME TransfersAssumption ==
    /\ Txs \subseteq TxType
    /\ InitBalance \in [Accounts -> Nat]

-----------------------------------------------------------------------------
(* Acks are counted per (sender, nonce): two transactions of one slot are   *)
(* alternatives, at most one of them can ever take effect.                  *)
Slot(t) == <<t.from, t.nonce>>
Slots == {Slot(t) : t \in Txs}
Conflict(t, u) == t # u /\ Slot(t) = Slot(u)

Cost(t) == t.value + t.price

(* A statedb, restricted to what a transfer reads and writes.               *)
States == [nonce: [Accounts -> Nat], balance: [Accounts -> Nat]]
Genesis == [nonce |-> [a \in Accounts |-> 0], balance |-> InitBalance]

(* Mutant: buyGas does not ask for the fee.                                  *)
AffordableWithoutFee(s, t) == s.balance[t.from] >= t.value

Affordable(s, t) == s.balance[t.from] >= Cost(t)

(* Mutant: preCheck has no ErrNonceTooHigh.                                  *)
ApplicableEarly(s, t) == s.nonce[t.from] <= t.nonce /\ Affordable(s, t)

(* Mutant: preCheck does not compare nonces.                                 *)
ApplicableAgain(s, t) == Affordable(s, t)

(* preCheck, buyGas and the transfer check of TransitionDb.                 *)
Applicable(s, t) == s.nonce[t.from] = t.nonce /\ Affordable(s, t)

(* The sender pays value and fee, the fee is burned, the nonce advances.    *)
Apply(s, t) ==
    [nonce   |-> [s.nonce EXCEPT ![t.from] = t.nonce + 1],
     balance |-> [s.balance EXCEPT ![t.from] = @ - Cost(t), ![t.to] = @ + t.value]]
=============================================================================
