------------------------------ MODULE Multishot ------------------------------
(***************************************************************************)
(* One slot (sender and nonce) with rival transactions, and the            *)
(* a-posteriori consensus that is to settle it when no rival gets a        *)
(* quorum of acks: the part of addAck that proposes, and the handler of    *)
(* the contract's decisions in the event loop of the pool                  *)
(* (core/tx_pool.go).                                                      *)
(*                                                                         *)
(* addAck holds the pool's mutex, the handler does not, and both add to    *)
(* the same big.Int. Each is therefore a reading and a writing step; a     *)
(* sum that was read before the other one wrote is written all the same.   *)
(*                                                                         *)
(* The contract is not in the repository. It decides one transaction of    *)
(* the slot at some time, whoever proposed it, and every node is told.     *)
(***************************************************************************)
EXTENDS Integers

CONSTANTS
    Validators,     \* the validators, all of them nodes
    Faulty,         \* validators that may ack several rivals
    Weight,         \* Weight[S]: the balances of S in stakeState, added up
    Txs,            \* the rival transactions of the slot
    NoTx

RivalsAssumption ==
    /\ Faulty \subseteq Validators /\ NoTx \notin Txs
    /\ Weight \in [SUBSET Validators -> Nat]
    /\ Weight[{}] = 0
    /\ \A S, T \in SUBSET Validators : Weight[S \cup T] + Weight[S \cap T] = Weight[S] + Weight[T]

VARIABLES
    unconfirmed,    \* unconfirmed[n][t]: ackWeight, or Missing
    voted,          \* voted[n]: validators counted at n for the slot
    stakeReceived,  \* stakeReceived[n]
    confirmed,      \* confirmed[n]: reported confirmed, or appended, at n
    call,           \* call[n]: the addAck in progress
    handler,        \* handler[n]: the decision being handled
    acked,          \* acked[v]: the rival that correct validator v acked
    proposals,      \* what the contract was asked to decide
    decided,        \* what the contract decided
    panicked,       \* nodes whose event loop panicked
    counted         \* history: counted[n][t], validators counted for t at n

pool == <<unconfirmed, voted, stakeReceived, confirmed>>
multishotVars == <<pool, call, handler, acked, proposals, decided, panicked, counted>>

Correct == Validators \ Faulty
Missing == -1
NoAck == [from |-> NoTx, tx |-> NoTx, read |-> 0]
Waiting == [stage |-> "waiting", read |-> 0]
Handled == [stage |-> "handled", read |-> 0]
NoSigner == "none"

Stake(v) == Weight[{v}]
QuorumStake == (Weight[Validators] * 4) \div 5
APosterioriStake == (Weight[Validators] * 4) \div 5

MultishotInit ==
    /\ unconfirmed = [n \in Correct |-> [t \in Txs |-> Missing]]
    /\ voted = [n \in Correct |-> {}]
    /\ stakeReceived = [n \in Correct |-> 0]
    /\ confirmed = [n \in Correct |-> {}]
    /\ call = [n \in Correct |-> NoAck]
    /\ handler = [n \in Correct |-> Waiting]
    /\ acked = [v \in Correct |-> NoTx]
    /\ proposals = {}
    /\ decided = NoTx
    /\ panicked = {}
    /\ counted = [n \in Correct |-> [t \in Txs |-> {}]]

------------------------------------------------------------------------------
(* Acks.                                                                   *)

(* The entry of t exists from the first ack on, before the duplicate is    *)
(* recognised.                                                             *)
Entry(w) == IF w = Missing THEN 0 ELSE w

AckStartRecounting(n, v, t) ==
    /\ n \notin panicked
    /\ call[n] = NoAck
    /\ unconfirmed' = [unconfirmed EXCEPT ![n][t] = Entry(@)]
    /\ call' = [call EXCEPT ![n] =
                    [from |-> v, tx |-> t, read |-> Entry(unconfirmed[n][t])]]
    /\ UNCHANGED <<voted, stakeReceived, confirmed, handler, proposals,
                   decided, panicked, counted>>

(* addAck up to the read of the weight: the entry is created if there is   *)
(* none, the ack of a validator that was counted is ignored.               *)
AckStart(n, v, t) ==
    /\ n \notin panicked
    /\ call[n] = NoAck
    /\ unconfirmed' = [unconfirmed EXCEPT ![n][t] = Entry(@)]
    /\ call' = IF v \in voted[n] THEN call
               ELSE [call EXCEPT ![n] =
                        [from |-> v, tx |-> t, read |-> Entry(unconfirmed[n][t])]]
    /\ UNCHANGED <<voted, stakeReceived, confirmed, handler, proposals,
                   decided, panicked, counted>>

(* The ack of the node's own miner: validateAck admits one transaction of  *)
(* the slot.                                                               *)
OwnAck(n, t) ==
    /\ acked[n] = NoTx
    /\ AckStart(n, n, t)
    /\ acked' = [acked EXCEPT ![n] = t]

(* The ack in an imported block. A faulty validator may have acked t.      *)
BlockAck(n, v, t) ==
    /\ v # n
    /\ v \in Correct => acked[v] = t
    /\ AckStart(n, v, t)
    /\ UNCHANGED acked

(* addAck passes empty options to Propose; the authorised ones made when   *)
(* the pool was set up are not used.                                       *)
ProposeOpts == [signer |-> NoSigner]

(* The contract binding refuses to send a transaction without a signer.    *)
Sendable(opts) == opts.signer # NoSigner

(* The comparisons of addAck.                                              *)
Confirms(w) == w > QuorumStake
Launches(received) == received > APosterioriStake

(* addAck from the write of the weight on. potentialTx is set in a copy of *)
(* the entry, the map keeps nil. An error of Propose is only logged.       *)
AckEnd(n) ==
    /\ n \notin panicked
    /\ call[n] # NoAck
    /\ LET v == call[n].from
           t == call[n].tx
           w == call[n].read + Stake(v)
           received == stakeReceived[n] + Stake(v)
       IN  /\ unconfirmed' = [unconfirmed EXCEPT ![n][t] = w]
           /\ stakeReceived' = [stakeReceived EXCEPT ![n] = received]
           /\ voted' = [voted EXCEPT ![n] = @ \cup {v}]
           /\ counted' = [counted EXCEPT ![n][t] = @ \cup {v}]
           /\ confirmed' = IF Confirms(w)
                           THEN [confirmed EXCEPT ![n] = @ \cup {t}]
                           ELSE confirmed
           /\ proposals' = IF ~Confirms(w) /\ Launches(received) /\ Sendable(ProposeOpts)
                           THEN proposals \cup {t}
                           ELSE proposals
    /\ call' = [call EXCEPT ![n] = NoAck]
    /\ UNCHANGED <<handler, acked, decided, panicked>>

------------------------------------------------------------------------------
(* Decisions.                                                              *)

(* The contract decides, and emits the event every node watches.           *)
Decide(t) ==
    /\ decided = NoTx
    /\ decided' = t
    /\ UNCHANGED <<pool, call, handler, acked, proposals, panicked, counted>>

(* The event loop takes the decision and reads the weight of the           *)
(* transaction. Without an entry the lookup gives an empty record, and     *)
(* adding to its nil weight panics.                                        *)
DecisionRead(n) ==
    /\ n \notin panicked
    /\ decided # NoTx
    /\ handler[n] = Waiting
    /\ IF unconfirmed[n][decided] = Missing
       THEN panicked' = panicked \cup {n} /\ UNCHANGED handler
       ELSE /\ handler' = [handler EXCEPT
                    ![n] = [stage |-> "adding", read |-> unconfirmed[n][decided]]]
            /\ UNCHANGED panicked
    /\ UNCHANGED <<pool, call, acked, proposals, decided, counted>>

DecisionWriteAll(n) ==
    /\ n \notin panicked
    /\ handler[n].stage = "adding"
    /\ unconfirmed' = [unconfirmed EXCEPT ![n] =
            [t \in Txs |-> Entry(unconfirmed[n][t]) + QuorumStake + 1]]
    /\ handler' = [handler EXCEPT ![n] = Handled]
    /\ UNCHANGED <<voted, stakeReceived, confirmed, call, acked, proposals,
                   decided, panicked, counted>>

(* potentialTx of the stored entry is nil, so the handler adds a quorum's  *)
(* worth of weight, for the next ack to find; the other branch, which      *)
(* appends the transaction to the confirmed list, is never taken.          *)
DecisionWrite(n) ==
    /\ n \notin panicked
    /\ handler[n].stage = "adding"
    /\ unconfirmed' = [unconfirmed EXCEPT
                            ![n][decided] = handler[n].read + QuorumStake + 1]
    /\ handler' = [handler EXCEPT ![n] = Handled]
    /\ UNCHANGED <<voted, stakeReceived, confirmed, call, acked, proposals,
                   decided, panicked, counted>>

MultishotNext ==
    \/ \E n \in Correct, t \in Txs : OwnAck(n, t)
    \/ \E n \in Correct, v \in Validators, t \in Txs : BlockAck(n, v, t)
    \/ \E n \in Correct : AckEnd(n) \/ DecisionRead(n) \/ DecisionWrite(n)
    \/ \E t \in Txs : Decide(t)

MultishotSpec == MultishotInit /\ [][MultishotNext]_multishotVars

(* Calls end and events are taken; correct validators ack, and their       *)
(* blocks arrive.                                                          *)
MultishotFairness ==
    \A n \in Correct :
        /\ WF_multishotVars(\E t \in Txs : OwnAck(n, t))
        /\ WF_multishotVars(AckEnd(n))
        /\ WF_multishotVars(DecisionRead(n))
        /\ WF_multishotVars(DecisionWrite(n))
        /\ \A v \in Correct, t \in Txs :
                SF_multishotVars(BlockAck(n, v, t) /\ v \notin voted[n])

MultishotLiveSpec == MultishotSpec /\ MultishotFairness

------------------------------------------------------------------------------
MultishotTypeOK ==
    /\ unconfirmed \in [Correct -> [Txs -> Nat \cup {Missing}]]
    /\ voted \in [Correct -> SUBSET Validators]
    /\ stakeReceived \in [Correct -> Nat]
    /\ confirmed \in [Correct -> SUBSET Txs]
    /\ call \in [Correct -> {NoAck} \cup [from: Validators, tx: Txs, read: Nat]]
    /\ handler \in [Correct -> [stage: {"waiting", "adding", "handled"}, read: Nat]]
    /\ acked \in [Correct -> Txs \cup {NoTx}]
    /\ proposals \subseteq Txs
    /\ decided \in Txs \cup {NoTx}
    /\ panicked \subseteq Correct
    /\ counted \in [Correct -> [Txs -> SUBSET Validators]]

VotersCounted(n) ==
    /\ stakeReceived[n] = Weight[voted[n]]
    /\ call[n] # NoAck => call[n].from \notin voted[n]
    /\ handler[n].stage = "adding" => decided # NoTx

TallyExact(n, t) ==
    /\ counted[n][t] \subseteq voted[n]
    /\ t # decided => Entry(unconfirmed[n][t]) = Weight[counted[n][t]]
    /\ t # decided /\ call[n].tx = t => call[n].read = Weight[counted[n][t]]
    /\ \A v \in Correct :
        v \in counted[n][t] \/ (call[n].from = v /\ call[n].tx = t) => acked[v] = t

(* The sums of addAck are exact except for the decided transaction, whose   *)
(* weight the handler changes without the lock: stakeReceived is the stake  *)
(* of the voters, a weight (also the one a call has read) that of the       *)
(* validators counted. Nobody is counted twice, and a correct validator     *)
(* only for what it acked.                                                  *)
TallyInv == \A n \in Correct : VotersCounted(n) /\ \A t \in Txs : TallyExact(n, t)

(* What addAck reports confirmed was decided by the contract or has more   *)
(* than 4/5 of the stake among the validators counted for it, whatever the *)
(* unlocked addition of the decision handler overwrites.                   *)
ConfirmedBacked ==
    \A n \in Correct : \A t \in confirmed[n] :
        t = decided \/ Weight[counted[n][t]] > QuorumStake

(* What is confirmed is backed, with the sums that the proof needs for it:  *)
(* at every interleaving of addAck with the handler that takes no lock the  *)
(* tally of a rival that was not decided is exact.                          *)
TallySound == MultishotTypeOK /\ TallyInv /\ ConfirmedBacked

(* The faulty validators have less stake than any two quorums share.       *)
FaultBound == Weight[Faulty] + Weight[Validators] <= 2 * QuorumStake + 1

(* Two rivals are confirmed, at one or at two correct nodes, only if one   *)
(* of them is what the contract decided: a faulty validator that acks both *)
(* counts once per node and slot, and correct ones ack once.               *)
RivalsOnlyByDecision ==
    \A m, n \in Correct : \A t \in confirmed[m], u \in confirmed[n] :
        t # u => decided \in {t, u}

(* A decision for a transaction that was not seen yet is kept until it is  *)
(* (comment of the decision handler): no node's event loop panics on it.   *)
DecisionKept == panicked = {}

(* Once a node has counted more than 4/5 of the stake and the slot has no  *)
(* confirmed transaction, the consensus is launched (comment in addAck).   *)
Launched ==
    \A n \in Correct :
        stakeReceived[n] > APosterioriStake /\ confirmed[n] = {}
            => proposals # {}

(* A decided transaction that a node has seen is processed there (comments *)
(* of addAck and of the decision handler).                                 *)
DecisionTakesEffect ==
    \A n \in Correct, t \in Txs :
        (handler[n] = Handled /\ decided = t) ~> t \in confirmed[n]
==============================================================================
