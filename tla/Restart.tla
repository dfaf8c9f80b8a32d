------------------------------ MODULE Restart ------------------------------
(***************************************************************************)
(* One Cascadeth node that is stopped, crashes and is started again.  On     *)
(* disk are the blocks (its own chain and the ones it imported) and the      *)
(* states that were flushed; the tallies, the expected nonces, the confirmed *)
(* list and the root of the detached state live in memory only.             *)
(*                                                                         *)
(* A block of another validator carries one ack, and Process runs in one     *)
(* step (it holds both mutexes); module Cascade has its interleavings.       *)
(* The node's own chain is a sequence; module Worker has its siblings.       *)
(* The node runs with gcmode "full", the default: Stop writes the state to   *)
(* disk.  With gcmode "archive" writeBlockWithState writes every state.      *)
(***************************************************************************)
EXTENDS Transfers, Sequences, FiniteSets, FiniteSetsExt

CONSTANTS
    me,            \* the node's own address
    Others,        \* the other validators
    TotalStake,    \* chainConfig.TotalStake
    MaxBlocks,     \* bound: blocks the node seals
    MaxStops       \* bound: stops and crashes

Signers == Others \cup {me}

(* The validators have accounts; the total stake and the bounds are numbers. *)
RestartAssumption ==
    /\ Signers \subseteq Accounts
    /\ TotalStake \in Nat /\ MaxBlocks \in Nat /\ MaxStops \in Nat

QuorumStake == (TotalStake * 4) \div 5

VARIABLES
    status,           \* "up", "down", or "panic" (NewBlockChain did not return)
    chain,            \* disk: the node's own blocks, [txs, root, done]
    imported,         \* disk: blocks of others, <<author, transaction>>
    flushed,          \* disk: the states written there
    state,            \* bc.stateRoot
    done,             \* history: the transactions that state has executed
    stakeState,       \* pool.stakeState
    currentState,     \* pool.currentState
    expectedAckNonce, \* pool.expectedAckNonce
    ackWeight,        \* pool.unconfirmed
    voted,            \* pool.voted
    confirmed,        \* pool.confirmed
    resetDue,         \* a ChainHeadEvent the pool has not handled yet
    current,          \* w.current: [txs, state, done] of the block being filled
    stops

disk == <<chain, imported, flushed>>
pool == <<stakeState, currentState, expectedAckNonce, ackWeight, voted, confirmed>>
vars == <<status, disk, state, done, pool, resetDue, current, stops>>

(* The pool and the miner as NewTxPool and newWorker leave them on a state.  *)
Fresh(s, d) ==
    /\ state' = s
    /\ done' = d
    /\ stakeState' = s
    /\ currentState' = s
    /\ expectedAckNonce' = [a \in Accounts |-> 0]
    /\ ackWeight' = [t \in Txs |-> 0]
    /\ voted' = [s2 \in Slots |-> {}]
    /\ confirmed' = <<>>
    /\ resetDue' = FALSE
    /\ current' = [txs |-> <<>>, state |-> s, done |-> d]

Init ==
    /\ status = "up"
    /\ chain = <<>> /\ imported = {} /\ flushed = {Genesis}
    /\ state = Genesis /\ done = {}
    /\ stakeState = Genesis /\ currentState = Genesis
    /\ expectedAckNonce = [a \in Accounts |-> 0]
    /\ ackWeight = [t \in Txs |-> 0]
    /\ voted = [s \in Slots |-> {}]
    /\ confirmed = <<>>
    /\ resetDue = FALSE
    /\ current = [txs |-> <<>>, state |-> Genesis, done |-> {}]
    /\ stops = 0

TypeOK ==
    /\ status \in {"up", "down", "panic"}
    /\ chain \in Seq([txs: Seq(Txs), root: States, done: SUBSET Txs])
    /\ imported \subseteq Others \X Txs
    /\ flushed \subseteq {Genesis} \cup {chain[i].root : i \in DOMAIN chain}
    /\ state \in States /\ stakeState \in States /\ currentState \in States
    /\ done \subseteq Txs
    /\ expectedAckNonce \in [Accounts -> Nat]
    /\ ackWeight \in [Txs -> Nat]
    /\ voted \in [Slots -> SUBSET Signers]
    /\ confirmed \in Seq(Txs)
    /\ resetDue \in BOOLEAN
    /\ current \in [txs: Seq(Txs), state: States, done: SUBSET Txs]
    /\ stops \in 0 .. MaxStops

-----------------------------------------------------------------------------
Stake(v) == stakeState.balance[v]

Counts(t, v) == v \notin voted[Slot(t)]
Confirms(t, v) == Counts(t, v) /\ ackWeight[t] + Stake(v) > QuorumStake

(* addAck up to the confirmation; expectedAckNonce is the miner's business.  *)
addAck(t, v) ==
    /\ ackWeight' = IF Counts(t, v) THEN [ackWeight EXCEPT ![t] = @ + Stake(v)] ELSE ackWeight
    /\ voted' = [voted EXCEPT ![Slot(t)] = @ \cup {v}]

(* The second loop of Process on the state s: what is applicable to the      *)
(* state from before the block runs, what is too early stays, the rest goes. *)
(* r is [ok, state, done, kept]; an entry that validates and cannot run      *)
(* fails the block.                                                          *)
RunConfirmed(r, t) ==
    IF ~r.ok THEN r
    ELSE IF Applicable(state, t)
    THEN IF Applicable(r.state, t)
         THEN [r EXCEPT !.state = Apply(@, t), !.done = @ \cup {t}]
         ELSE [r EXCEPT !.ok = FALSE]
    ELSE IF state.nonce[t.from] <= t.nonce THEN [r EXCEPT !.kept = Append(@, t)]
    ELSE r

RECURSIVE SecondLoop(_, _)
SecondLoop(r, list) ==
    IF list = <<>> THEN r ELSE SecondLoop(RunConfirmed(r, Head(list)), Tail(list))

(* insertChain for the block of v with the single ack t.  A block that is in *)
(* the database is not processed again; one that fails leaves the state, but *)
(* not the tallies, nor the confirmed list, which keeps what the loop has    *)
(* compacted so far in front of its old entries.                             *)
Process(v, t) ==
    LET before == [ok |-> TRUE, state |-> state, done |-> done, kept |-> <<>>]
        relevant == state.nonce[t.from] <= t.nonce
        conf == relevant /\ Confirms(t, v)
        first == IF conf /\ Applicable(state, t)
                 THEN [before EXCEPT !.state = Apply(@, t), !.done = @ \cup {t}]
                 ELSE before
        list == IF conf /\ ~Applicable(state, t) THEN Append(confirmed, t) ELSE confirmed
        r == SecondLoop(first, list)
    IN
    /\ status = "up"
    /\ <<v, t>> \notin imported
    /\ currentState' = state
    /\ IF relevant THEN addAck(t, v) ELSE UNCHANGED <<ackWeight, voted>>
    /\ \/ /\ r.ok
          /\ confirmed' = r.kept
          /\ state' = r.state /\ done' = r.done
          /\ imported' = imported \cup {<<v, t>>}
       \/ /\ ~r.ok
          /\ confirmed' = r.kept \o SubSeq(list, Len(r.kept) + 1, Len(list))
          /\ UNCHANGED <<state, done, imported>>
    /\ UNCHANGED <<status, chain, flushed, stakeState, expectedAckNonce, resetDue, current,
                   stops>>

(* pool.reset on a head event.                                               *)
reset ==
    /\ status = "up"
    /\ resetDue
    /\ resetDue' = FALSE
    /\ currentState' = state
    /\ UNCHANGED <<status, disk, state, done, stakeState, expectedAckNonce, ackWeight, voted,
                   confirmed, current, stops>>

-----------------------------------------------------------------------------
(* makeCurrent: the next block is filled on the detached state; acks in a    *)
(* block that was not sealed are dropped with it.                            *)
makeCurrent ==
    /\ status = "up"
    /\ current' = [txs |-> <<>>, state |-> state, done |-> done]
    /\ current' # current
    /\ UNCHANGED <<status, disk, state, done, pool, resetDue, stops>>

(* ApplyTransaction: the node acks t.  A transaction its ack confirms is     *)
(* queued and, when it applies, run on the miner's own copy of the state.    *)
ApplyTransaction(t) ==
    LET conf == Confirms(t, me)
        runs == conf /\ Applicable(current.state, t)
    IN
    /\ status = "up"
    /\ expectedAckNonce[t.from] = t.nonce /\ Affordable(currentState, t)
    /\ expectedAckNonce' = [expectedAckNonce EXCEPT ![t.from] = t.nonce + 1]
    /\ addAck(t, me)
    /\ confirmed' = IF conf THEN Append(confirmed, t) ELSE confirmed
    /\ current' = [txs   |-> IF conf /\ ~runs THEN current.txs ELSE Append(current.txs, t),
                   state |-> IF runs THEN Apply(current.state, t) ELSE current.state,
                   done  |-> IF runs THEN current.done \cup {t} ELSE current.done]
    /\ UNCHANGED <<status, disk, state, done, stakeState, currentState, resetDue, stops>>

(* resultLoop and writeBlockWithState in mining mode: the block becomes the  *)
(* head, its header carries the root of the miner's copy, and the node's     *)
(* detached root stays.  The next block is then filled from the start.       *)
Seal ==
    /\ status = "up"
    /\ Len(chain) < MaxBlocks
    /\ current.txs # <<>>
    /\ chain' = Append(chain, [txs |-> current.txs, root |-> current.state, done |-> current.done])
    /\ resetDue' = TRUE
    /\ current' = [txs |-> <<>>, state |-> state, done |-> done]
    /\ UNCHANGED <<status, imported, flushed, state, done, pool, stops>>

-----------------------------------------------------------------------------
(* BlockChain.Stop: the states of the head and of the block before it are    *)
(* written to disk.                                                          *)
Stop ==
    /\ status = "up"
    /\ stops < MaxStops
    /\ stops' = stops + 1
    /\ status' = "down"
    /\ flushed' = flushed \cup {chain[i].root : i \in DOMAIN chain \cap {Len(chain) - 1, Len(chain)}}
    /\ UNCHANGED <<chain, imported, state, done, pool, resetDue, current>>

(* A crash writes nothing.                                                   *)
Crash ==
    /\ status = "up"
    /\ stops < MaxStops
    /\ stops' = stops + 1
    /\ status' = "down"
    /\ UNCHANGED <<disk, state, done, pool, resetDue, current>>

HeadBlock == IF chain = <<>> THEN [txs |-> <<>>, root |-> Genesis, done |-> {}]
             ELSE chain[Len(chain)]

(* Mutant: the detached root is kept on disk, the tallies behind it are not.  *)
StartOnState ==
    /\ status = "down"
    /\ status' = "up"
    /\ Fresh(state, done)
    /\ UNCHANGED <<disk, stops>>

(* NewBlockChain and NewTxPool: the detached root is the root of the head    *)
(* block; the pool and the miner start empty.                                *)
Start ==
    /\ status = "down"
    /\ HeadBlock.root \in flushed
    /\ status' = "up"
    /\ Fresh(HeadBlock.root, HeadBlock.done)
    /\ UNCHANGED <<disk, stops>>

(* Without the state of the head block NewBlockChain calls SetHead, whose    *)
(* first statement is a panic.                                               *)
StartPanics ==
    /\ status = "down"
    /\ HeadBlock.root \notin flushed
    /\ status' = "panic"
    /\ UNCHANGED <<disk, state, done, pool, resetDue, current, stops>>

Next ==
    \/ \E v \in Others, t \in Txs : Process(v, t)
    \/ reset \/ makeCurrent
    \/ \E t \in Txs : ApplyTransaction(t)
    \/ Seal \/ Stop \/ Crash \/ Start \/ StartPanics

Spec == Init /\ [][Next]_vars

-----------------------------------------------------------------------------
(* A statedb that holds the effect of one transaction per slot, without gaps. *)
Value(t) == t.value
Exact(s, d) ==
    /\ \A t, u \in d : ~Conflict(t, u)
    /\ \A a \in Accounts : s.nonce[a] = Cardinality({t \in d : t.from = a})
    /\ \A t \in d : t.nonce < s.nonce[t.from]
    /\ \A a \in Accounts :
          s.balance[a] + MapThenSumSet(Cost, {t \in d : t.from = a})
              = InitBalance[a] + MapThenSumSet(Value, {t \in d : t.to = a})

(* The detached state, the one a block is being filled on and every root in  *)
(* a header are what one transaction per slot, without gaps, makes of        *)
(* genesis: a restart may forget executions (stateRoot goes back to the       *)
(* head's root) but never repeats, invents or mixes them.                    *)
StatesExact ==
    /\ Exact(state, done)
    /\ Exact(current.state, current.done)
    /\ \A i \in DOMAIN chain : Exact(chain[i].root, chain[i].done)

(* What a running node has executed it can trace to its own past: either the *)
(* root of one of its blocks has it, or it has counted a quorum for it since  *)
(* it was started (addAck, stateRoot in NewBlockChain).                       *)
ExecutedAccounted ==
    status = "up" => \A t \in done :
        ackWeight[t] > QuorumStake \/ \E i \in DOMAIN chain : t \in chain[i].done

(* "expectedAckNonce: Nonces that we have already acked", "LOCAL: single     *)
(* not-acked nonce allowed": the node's blocks hold one ack per slot.        *)
OneAckPerSlot ==
    \A i, j \in DOMAIN chain : \A k \in DOMAIN chain[i].txs, l \in DOMAIN chain[j].txs :
        ~Conflict(chain[i].txs[k], chain[j].txs[l])

(* "Head state is missing, before the state recovery, find out the disk      *)
(* layer point": a node whose head state is missing recovers.                *)
Recovers == status # "panic"

(* "Three of the nodes are servers/validators [...] Their cumulative stake is *)
(* stored in totalStake" (README.md): the stakes the pool weighs acks with     *)
(* (stakeState, taken in reset) add up to the configured total.               *)
StakeIsTotal == MapThenSumSet(Stake, Signers) = TotalStake
=============================================================================
