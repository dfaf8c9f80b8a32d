------------------------------ MODULE Cascade ------------------------------
(***************************************************************************)
(* A network of Cascadeth nodes.  Every validator extends a chain of its    *)
(* own; a transaction in a validator's block is that validator's ack.  A    *)
(* node adds the stake of the acks it sees (core/tx_pool.go), and applies a  *)
(* transaction to its own, detached state once more than QuorumStake has     *)
(* acked it (core/state_processor.go, core/blockchain.go).  Its own acks     *)
(* come from the blocks its miner assembles (miner/worker.go, here reduced   *)
(* to which acks reach a block; module Worker has the pipeline).             *)
(*                                                                         *)
(* Process holds the pool's mutex and the chain's mutex for a whole block;   *)
(* its two loops are modelled one transaction at a time, and every action    *)
(* that needs one of the mutexes waits for proc[n] to be Idle.               *)
(***************************************************************************)
EXTENDS Transfers, Sequences, FiniteSets

CONSTANTS
    Nodes,         \* the addresses that run a node, a subset of Accounts
    Signers,       \* the validators authorised by clique
    Miners,        \* the nodes that are started with mining on
    Faulty,        \* signers whose blocks do not come from this code
    FaultyBodies,  \* the transaction lists such a block may carry
    GasPrice,      \* GasPrice[n]: minimal gas price n accepts from others
    TotalStake,    \* chainConfig.TotalStake, the sum of the stakes
    Weight,        \* Weight[S]: the stake of a set of nodes
    BlockGas,      \* gas limit of a block, in transfers
    MaxHeight,     \* bound: height of a validator's chain
    MaxBlocks      \* bound: blocks a node seals, forks of its chain included

Correct == Nodes \ Faulty

(* The stake of a node is its genesis balance; the stakes of a set add up;  *)
(* the configured total is at least the stake there is.                      *)
ASSUME CascadeAssumption ==
    /\ Nodes \subseteq Accounts
    /\ Signers \subseteq Nodes /\ Miners \subseteq Nodes /\ Faulty \subseteq Signers
    /\ FaultyBodies \subseteq Seq(Txs)
    /\ GasPrice \in [Nodes -> Nat]
    /\ TotalStake \in Nat /\ BlockGas \in Nat /\ MaxHeight \in Nat /\ MaxBlocks \in Nat

ASSUME WeightAssumption ==
    /\ Weight \in [SUBSET Nodes -> Nat]
    /\ Weight[{}] = 0
    /\ \A v \in Nodes : Weight[{v}] = InitBalance[v]
    /\ \A S, T \in SUBSET Nodes : Weight[S \cup T] + Weight[S \cap T] = Weight[S] + Weight[T]
    /\ Weight[Nodes] <= TotalStake

QuorumStake == (TotalStake * 4) \div 5

(* stakeState.GetBalance: the stake state is the first state the pool saw.  *)
Stake(v) == InitBalance[v]

-----------------------------------------------------------------------------
(* A block is named by what it contains: its author, the transaction lists  *)
(* of its ancestors, its own list.  Genesis is the empty path.               *)
Path == Seq(Seq(Txs))
Blocks == [author: Nodes, parent: Path, txs: Seq(Txs)]
PathOf(b) == Append(b.parent, b.txs)

Idle == [stage |-> "idle"]
Runs == [stage: {"acks", "confirmed"}, block: Blocks, i: Nat \ {0}, kept: Nat,
         statedb: States, gas: Nat]

VARIABLES
    state,            \* bc.stateRoot: the node's detached state
    known,            \* blocks in the node's database
    head,             \* CurrentBlock, always a block of its own
    currentState,     \* pool.currentState
    expectedAckNonce, \* pool.expectedAckNonce
    ackWeight,        \* pool.unconfirmed[from][nonce][hash].ackWeight
    voted,            \* pool.voted[from][nonce]
    stakeReceived,    \* pool.stakeReceived[from][nonce]
    confirmed,        \* pool.confirmed
    resetDue,         \* a ChainHeadEvent the pool has not handled yet
    proc,             \* the Process call in progress
    work,             \* acks of the miner that are not in a sealed block yet
    sent,             \* blocks the correct validators have broadcast
    counted           \* history: whose ack was added to ackWeight[n][t]

chainVars == <<state, known, head>>
ackVars == <<expectedAckNonce, ackWeight, voted, stakeReceived, counted>>
vars == <<chainVars, currentState, ackVars, confirmed, resetDue, proc, work, sent>>

Init ==
    /\ state = [n \in Nodes |-> Genesis]
    /\ known = [n \in Nodes |-> {}]
    /\ head = [n \in Nodes |-> <<>>]
    /\ currentState = [n \in Nodes |-> Genesis]
    /\ expectedAckNonce = [n \in Nodes |-> [a \in Accounts |-> 0]]
    /\ ackWeight = [n \in Nodes |-> [t \in Txs |-> 0]]
    /\ voted = [n \in Nodes |-> [s \in Slots |-> {}]]
    /\ stakeReceived = [n \in Nodes |-> [s \in Slots |-> 0]]
    /\ confirmed = [n \in Nodes |-> <<>>]
    /\ resetDue = [n \in Nodes |-> FALSE]
    /\ proc = [n \in Nodes |-> Idle]
    /\ work = [n \in Nodes |-> <<>>]
    /\ sent = {}
    /\ counted = [n \in Nodes |-> [t \in Txs |-> {}]]

(* The type invariant: the pool's tallies, the node's states and the list   *)
(* of a Process call in progress stay well formed; balances never go        *)
(* negative.                                                                *)
TypeOK ==
    /\ state \in [Nodes -> States]
    /\ known \in [Nodes -> SUBSET Blocks]
    /\ head \in [Nodes -> Path]
    /\ currentState \in [Nodes -> States]
    /\ expectedAckNonce \in [Nodes -> [Accounts -> Nat]]
    /\ ackWeight \in [Nodes -> [Txs -> Nat]]
    /\ voted \in [Nodes -> [Slots -> SUBSET Nodes]]
    /\ stakeReceived \in [Nodes -> [Slots -> Nat]]
    /\ confirmed \in [Nodes -> Seq(Txs)]
    /\ resetDue \in [Nodes -> BOOLEAN]
    /\ proc \in [Nodes -> {Idle} \cup Runs]
    /\ work \in [Nodes -> Seq(Txs)]
    /\ sent \subseteq Blocks
    /\ counted \in [Nodes -> [Txs -> SUBSET Nodes]]

-----------------------------------------------------------------------------
(* The transaction pool.  validateTx is only ever called for non-local       *)
(* transactions; its outcomes are told apart by what Process does with them. *)
Underpriced(n, t) == t.price < GasPrice[n]

validateTx(n, t) == ~Underpriced(n, t) /\ Applicable(currentState[n], t)

(* ErrNonceTooHigh, or ErrInsufficientFunds at the right nonce.              *)
LaterTx(n, t) ==
    /\ ~Underpriced(n, t)
    /\ \/ currentState[n].nonce[t.from] < t.nonce
       \/ currentState[n].nonce[t.from] = t.nonce /\ ~Affordable(currentState[n], t)

validateAck(n, t, local) ==
    IF local
    THEN expectedAckNonce[n][t.from] = t.nonce /\ Affordable(currentState[n], t)
    ELSE ~Underpriced(n, t) /\ currentState[n].nonce[t.from] <= t.nonce

(* Mutant: exactly QuorumStake is taken for a quorum.                        *)
addAckConfirmsAtQuorum(n, t, v) ==
    v \notin voted[n][Slot(t)] /\ ackWeight[n][t] + Stake(v) >= QuorumStake

addAckConfirms(n, t, v) ==
    v \notin voted[n][Slot(t)] /\ ackWeight[n][t] + Stake(v) > QuorumStake

(* Mutant: pool.voted is not looked at.                                      *)
addAckUnchecked(n, t, v, isLocal) ==
    /\ expectedAckNonce' = IF isLocal
                           THEN [expectedAckNonce EXCEPT ![n][t.from] = t.nonce + 1]
                           ELSE expectedAckNonce
    /\ ackWeight' = [ackWeight EXCEPT ![n][t] = @ + Stake(v)]
    /\ stakeReceived' = [stakeReceived EXCEPT ![n][Slot(t)] = @ + Stake(v)]
    /\ voted' = [voted EXCEPT ![n][Slot(t)] = @ \cup {v}]
    /\ counted' = [counted EXCEPT ![n][t] = @ \cup {v}]

(* Mutant: expectedAckNonce is set where the vote turns out to be a repetition. *)
addAckLateNonce(n, t, v, isLocal) ==
    LET s == Slot(t) IN
    \/ /\ v \in voted[n][s]
       /\ expectedAckNonce' = IF isLocal
                              THEN [expectedAckNonce EXCEPT ![n][t.from] = t.nonce + 1]
                              ELSE expectedAckNonce
       /\ UNCHANGED <<ackWeight, stakeReceived, voted, counted>>
    \/ /\ v \notin voted[n][s]
       /\ ackWeight' = [ackWeight EXCEPT ![n][t] = @ + Stake(v)]
       /\ stakeReceived' = [stakeReceived EXCEPT ![n][s] = @ + Stake(v)]
       /\ voted' = [voted EXCEPT ![n][s] = @ \cup {v}]
       /\ counted' = [counted EXCEPT ![n][t] = @ \cup {v}]
       /\ UNCHANGED expectedAckNonce

addAck(n, t, v, isLocal) ==
    LET s == Slot(t) IN
    /\ expectedAckNonce' = IF isLocal
                           THEN [expectedAckNonce EXCEPT ![n][t.from] = t.nonce + 1]
                           ELSE expectedAckNonce
    /\ \/ /\ v \in voted[n][s]
          /\ UNCHANGED <<ackWeight, stakeReceived, voted, counted>>
       \/ /\ v \notin voted[n][s]
          /\ ackWeight' = [ackWeight EXCEPT ![n][t] = @ + Stake(v)]
          /\ stakeReceived' = [stakeReceived EXCEPT ![n][s] = @ + Stake(v)]
          /\ voted' = [voted EXCEPT ![n][s] = @ \cup {v}]
          /\ counted' = [counted EXCEPT ![n][t] = @ \cup {v}]

(* pool.reset: a block of its own became the head.                           *)
reset(n) ==
    /\ proc[n] = Idle
    /\ resetDue[n]
    /\ resetDue' = [resetDue EXCEPT ![n] = FALSE]
    /\ currentState' = [currentState EXCEPT ![n] = state[n]]
    /\ UNCHANGED <<chainVars, ackVars, confirmed, proc, work, sent>>

-----------------------------------------------------------------------------
(* Importing a block of another validator.                                   *)
ParentKnown(n, b) ==
    \/ b.parent = <<>>
    \/ \E p \in known[n] : p.author = b.author /\ PathOf(p) = b.parent

(* insertChain up to the first loop of Process: the block is new, its parent *)
(* is here and by the same authorised signer.                                *)
ProcessStart(n, b) ==
    /\ proc[n] = Idle
    /\ b \notin known[n]
    /\ b.author \in Signers
    /\ ParentKnown(n, b)
    /\ currentState' = [currentState EXCEPT ![n] = state[n]]
    /\ proc' = [proc EXCEPT ![n] = [stage |-> "acks", block |-> b, i |-> 1, kept |-> 0,
                                    statedb |-> state[n], gas |-> BlockGas]]
    /\ UNCHANGED <<chainVars, ackVars, confirmed, resetDue, work, sent>>

(* applyTransaction inside Process; an error abandons the block, and with it *)
(* statedb, but none of the changes made to the pool so far.                 *)
applyTransaction(n, t) ==
    LET p == proc[n] IN
    proc' = [proc EXCEPT ![n] =
                IF p.gas > 0 /\ Applicable(p.statedb, t)
                THEN [p EXCEPT !.i = @ + 1, !.gas = @ - 1, !.statedb = Apply(@, t)]
                ELSE Idle]

(* The first loop: the transactions of the block are acks by its author.     *)
ProcessAck(n) ==
    LET p == proc[n]
        t == p.block.txs[p.i]
        v == p.block.author
    IN
    /\ p.stage = "acks"
    /\ p.i <= Len(p.block.txs)
    /\ \/ /\ ~validateAck(n, t, FALSE)
          /\ proc' = [proc EXCEPT ![n].i = @ + 1]
          /\ UNCHANGED <<ackVars, confirmed>>
       \/ /\ validateAck(n, t, FALSE)
          /\ addAck(n, t, v, FALSE)
          /\ \/ /\ ~addAckConfirms(n, t, v)
                /\ proc' = [proc EXCEPT ![n].i = @ + 1]
                /\ UNCHANGED confirmed
             \/ /\ addAckConfirms(n, t, v)
                /\ ~validateTx(n, t)
                /\ confirmed' = [confirmed EXCEPT ![n] = Append(@, t)]
                /\ proc' = [proc EXCEPT ![n].i = @ + 1]
             \/ /\ addAckConfirms(n, t, v)
                /\ validateTx(n, t)
                /\ applyTransaction(n, t)
                /\ UNCHANGED confirmed
    /\ UNCHANGED <<chainVars, currentState, resetDue, work, sent>>

(* Mutant: the write index of the compaction starts one entry ahead.         *)
ProcessAcksDoneAhead(n) ==
    /\ proc[n].stage = "acks"
    /\ proc[n].i > Len(proc[n].block.txs)
    /\ proc' = [proc EXCEPT ![n].stage = "confirmed", ![n].i = 1, ![n].kept = 1]
    /\ UNCHANGED <<chainVars, currentState, ackVars, confirmed, resetDue, work, sent>>

ProcessAcksDone(n) ==
    /\ proc[n].stage = "acks"
    /\ proc[n].i > Len(proc[n].block.txs)
    /\ proc' = [proc EXCEPT ![n].stage = "confirmed", ![n].i = 1]
    /\ UNCHANGED <<chainVars, currentState, ackVars, confirmed, resetDue, work, sent>>

(* The second loop compacts the confirmed list in place while it walks it.   *)
ProcessConfirmed(n) ==
    LET p == proc[n]
        t == confirmed[n][p.i]
    IN
    /\ p.stage = "confirmed"
    /\ p.i <= Len(confirmed[n])
    /\ \/ /\ LaterTx(n, t)
          /\ confirmed' = [confirmed EXCEPT ![n][p.kept + 1] = t]
          /\ proc' = [proc EXCEPT ![n].i = @ + 1, ![n].kept = @ + 1]
       \/ /\ ~LaterTx(n, t) /\ ~validateTx(n, t)
          /\ proc' = [proc EXCEPT ![n].i = @ + 1]
          /\ UNCHANGED confirmed
       \/ /\ validateTx(n, t)
          /\ applyTransaction(n, t)
          /\ UNCHANGED confirmed
    /\ UNCHANGED <<chainVars, currentState, ackVars, resetDue, work, sent>>

(* The end of Process and writeBlockWithState for a block that is not ours.  *)
ProcessDone(n) ==
    LET p == proc[n] IN
    /\ p.stage = "confirmed"
    /\ p.i > Len(confirmed[n])
    /\ confirmed' = [confirmed EXCEPT ![n] = SubSeq(@, 1, p.kept)]
    /\ state' = [state EXCEPT ![n] = p.statedb]
    /\ known' = [known EXCEPT ![n] = @ \cup {p.block}]
    /\ proc' = [proc EXCEPT ![n] = Idle]
    /\ UNCHANGED <<head, currentState, ackVars, resetDue, work, sent>>

-----------------------------------------------------------------------------
(* The miner, as far as the network sees it.  ApplyTransaction acks a        *)
(* transaction.  One that its own ack confirms is queued in confirmed and     *)
(* run on the miner's copy of the state; when that fails (included = FALSE)   *)
(* the ack is recorded but the transaction is not put in the block.           *)
ApplyTransaction(n, t, included) ==
    /\ proc[n] = Idle
    /\ validateAck(n, t, TRUE)
    /\ addAck(n, t, n, TRUE)
    /\ \/ /\ ~addAckConfirms(n, t, n)
          /\ included
          /\ UNCHANGED confirmed
       \/ /\ addAckConfirms(n, t, n)
          /\ confirmed' = [confirmed EXCEPT ![n] = Append(@, t)]
    /\ work' = IF included THEN [work EXCEPT ![n] = Append(@, t)] ELSE work
    /\ UNCHANGED <<chainVars, currentState, resetDue, proc, sent>>

(* resultLoop: a block with the k oldest open acks is sealed, written and    *)
(* broadcast.  Its task was built on the head or, late, on the head before;   *)
(* of two blocks at the same height either may be made the head (toss).  The  *)
(* node's state does not change.                                              *)
OwnBlocks(n) == {b \in known[n] : b.author = n}
OwnPaths(n) == {<<>>} \cup {PathOf(b) : b \in OwnBlocks(n)}

resultLoop(n, k, parent, toss) ==
    LET b == [author |-> n, parent |-> parent, txs |-> SubSeq(work[n], 1, k)]
        canonical == Len(parent) >= Len(head[n]) \/ toss
    IN
    /\ proc[n] = Idle
    /\ n \in Miners \cap Signers
    /\ Len(head[n]) - 1 <= Len(parent)
    /\ Len(parent) < MaxHeight /\ Cardinality(OwnBlocks(n)) < MaxBlocks
    /\ b \notin known[n]
    /\ known' = [known EXCEPT ![n] = @ \cup {b}]
    /\ head' = IF canonical THEN [head EXCEPT ![n] = PathOf(b)] ELSE head
    /\ resetDue' = IF canonical THEN [resetDue EXCEPT ![n] = TRUE] ELSE resetDue
    /\ sent' = sent \cup {b}
    /\ work' = [work EXCEPT ![n] = SubSeq(@, k + 1, Len(@))]
    /\ UNCHANGED <<state, currentState, ackVars, confirmed, proc>>

(* A sealing task that is superseded, or a half-filled block dropped on a    *)
(* new head, takes its acks with it.                                          *)
interrupt(n, k) ==
    /\ n \in Miners
    /\ work' = [work EXCEPT ![n] = SubSeq(@, k + 1, Len(@))]
    /\ UNCHANGED <<chainVars, currentState, ackVars, confirmed, resetDue, proc, sent>>

-----------------------------------------------------------------------------
(* What may arrive at n: the blocks of the correct validators, in any order  *)
(* and any number of times, and of a faulty signer any list of transactions   *)
(* on top of genesis or of a block it has given n before.                     *)
FaultyBlocks(n) ==
    {[author |-> v, parent |-> parent, txs |-> txs] :
        v \in Faulty,
        parent \in {q \in {<<>>} \cup {PathOf(p) : p \in known[n]} : Len(q) < MaxHeight},
        txs \in FaultyBodies}
Arriving(n) == sent \cup FaultyBlocks(n)

NodeStep(n) ==
    \/ \E b \in Arriving(n) : ProcessStart(n, b)
    \/ ProcessAck(n) \/ ProcessAcksDone(n) \/ ProcessConfirmed(n) \/ ProcessDone(n)
    \/ \E t \in Txs, included \in BOOLEAN : ApplyTransaction(n, t, included)
    \/ \E k \in 0 .. Len(work[n]), parent \in OwnPaths(n), toss \in BOOLEAN :
          resultLoop(n, k, parent, toss)
    \/ \E k \in 1 .. Len(work[n]) : interrupt(n, k)
    \/ reset(n)

Next == \E n \in Correct : NodeStep(n)

Spec == Init /\ [][Next]_vars
-----------------------------------------------------------------------------
Confirmed(n, t) == ackWeight[n][t] > QuorumStake

(* The faulty signers hold less stake than any two quorums share.            *)
FaultBound == Weight[Faulty] + TotalStake <= 2 * QuorumStake + 1

(* No double spend: two transactions of one sender and nonce never both gain *)
(* a quorum at correct nodes, however blocks are interleaved, interrupted,    *)
(* rejected or relayed, and whatever a faulty signer tells different nodes.   *)
(* It rests on addAck counting a validator once per slot and on               *)
(* expectedAckNonce letting a node ack a slot once.                           *)
Agreement ==
    \A m, n \in Correct : \A t, u \in Txs :
        Conflict(t, u) => ~(Confirmed(m, t) /\ Confirmed(n, u))

(* The inductive invariant behind Agreement.  A node's tally of a transaction *)
(* is the stake of a set of validators, disjoint from the set behind any      *)
(* rival; and whatever a correct validator is counted for, in any tally, open *)
(* block or broadcast block, it has counted for itself first.                 *)
TalliesExclusive ==
    \A n \in Nodes : \A t \in Txs :
        /\ ackWeight[n][t] = Weight[counted[n][t]]
        /\ counted[n][t] \subseteq voted[n][Slot(t)]
        /\ \A u \in Txs : Conflict(t, u) => counted[n][t] \cap counted[n][u] = {}

Backed(v, txs) == v \in Correct => \A i \in DOMAIN txs : v \in counted[v][txs[i]]

AcksBacked ==
    /\ \A n \in Nodes : \A t \in Txs : \A v \in counted[n][t] \cap Correct : v \in counted[v][t]
    /\ \A n \in Nodes : Backed(n, work[n])
    /\ \A b \in sent : b \in known[b.author] /\ Backed(b.author, b.txs)
    /\ \A n \in Correct : proc[n] # Idle =>
          proc[n].block.author # n /\ Backed(proc[n].block.author, proc[n].block.txs)

(* A node has voted for a slot only if its expected nonce is past it.         *)
OwnVotesPast ==
    \A n \in Correct : \A t \in Txs :
        n \in voted[n][Slot(t)] => t.nonce < expectedAckNonce[n][t.from]

(* Together: a tally is the stake of validators that count only once per    *)
(* slot, and a correct validator's ack, wherever it shows up, was its first *)
(* for the slot (addAck, validateAck, resultLoop).                          *)
AckInv == TalliesExclusive /\ AcksBacked /\ OwnVotesPast

(* The second loop of Process writes the confirmed list behind the entry it   *)
(* reads, and never past its end.                                             *)
CompactionBehind ==
    \A n \in Nodes :
        /\ proc[n].stage = "acks" => proc[n].kept = 0
        /\ proc[n].stage = "confirmed" =>
              proc[n].kept < proc[n].i /\ proc[n].i <= Len(confirmed[n]) + 1

(* Every nonce the state s has consumed was consumed by a transaction with a  *)
(* quorum at n.                                                               *)
StateBacked(n, s) ==
    \A x \in Accounts : \A k \in 0 .. s.nonce[x] - 1 :
        \E t \in Txs : Slot(t) = <<x, k>> /\ Confirmed(n, t)

(* Whatever waits in the confirmed list, also while it is compacted in place  *)
(* or left half rewritten by a rejected block, and whatever Process executed, *)
(* on the node's state or on the copy a block runs on, has a quorum at that   *)
(* node.                                                                      *)
ExecutionBacked ==
    \A n \in Nodes :
        /\ \A i \in DOMAIN confirmed[n] : Confirmed(n, confirmed[n][i])
        /\ StateBacked(n, state[n])
        /\ proc[n] # Idle => StateBacked(n, proc[n].statedb)

(* "Here we do not care too much about errors, since if there is any, there   *)
(* will be a bad block exception and while we will not insert any more blocks *)
(* from this validators, supposedly we don't need to as he was malicious":    *)
(* Process only gives up on the block of a faulty signer.                     *)
BadBlockIsFaulty ==
    [][\A n \in Correct :
          proc[n] # Idle /\ proc'[n] = Idle /\ proc[n].block \notin known'[n]
              => proc[n].block.author \in Faulty]_vars

(* "Otherwise add to confirmed, such that we can apply it later": between two *)
(* blocks, a transaction with a quorum is applied, or superseded, or waits in *)
(* the confirmed list.                                                        *)
ConfirmedKept ==
    \A n \in Correct : \A t \in Txs :
        proc[n] = Idle /\ Confirmed(n, t) /\ state[n].nonce[t.from] <= t.nonce
            => \E i \in DOMAIN confirmed[n] : confirmed[n][i] = t

-----------------------------------------------------------------------------
(* What the nodes settle on is what some correct node has a quorum for; a node *)
(* has executed what its state has consumed the nonce of.                      *)
chosen == {t \in Txs : \E n \in Correct : Confirmed(n, t)}
done == [n \in Correct |-> {t \in Txs : Confirmed(n, t) /\ t.nonce < state[n].nonce[t.from]}]

Settled == INSTANCE Settlement WITH Replicas <- Correct, chosen <- chosen, done <- done

(* The network implements Settlement: a quorum is the choice, and the end of   *)
(* Process executes a gapless set of chosen transactions and takes none back.  *)
Settles == Settled!Spec
=============================================================================
