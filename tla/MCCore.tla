------------------------------- MODULE MCCore -------------------------------
(*****************************************************************************)
(* The parts of a node around the network model of Cascade: restarts and     *)
(* crashes, the transaction pool, the decisions of the a-posteriori          *)
(* consensus, the clique engine and the control of the miner, each on a      *)
(* small instance. They share no state here, so interleaving their steps     *)
(* shows nothing more about any of them: in a behaviour one of them moves,   *)
(* and the others stay as they are.                                          *)
(*****************************************************************************)
EXTENDS Multishot, MinerControl, TLC

CONSTANTS me, vb, vc, va, payer, nobody

VARIABLES
  focus,   \* the component that moves
  \* Restart
  status, upChain, imported, flushed, state, done, stakeState, currentState,
  expectedAckNonce, ackWeight, upVoted, upConfirmed, resetDue, current, stops,
  \* TxPool
  minP, minChain, minNext, minRun, minAnnounced, minOffered, minBlock, minHeadTxs, minStarts,
  \* TxPool
  limP, limChain, limNext, limRun, limAnnounced, limOffered, limBlock, limHeadTxs, limStarts,
  \* Clique
  clqChain, recents, disk, now

\* Restart: the node and vb are a quorum, also without vc; two rivals and a payment that
\* follows either of them.
MCAccounts == {me, vb, vc, payer}
MCBalance == me :> 2 @@ vb :> 4 @@ vc :> 1 @@ payer :> 4
pay(id, nonce, to) ==
  [id |-> id, from |-> payer, to |-> to, nonce |-> nonce, value |-> 1, price |-> 1]
MCTxs == {pay(1, 0, vb), pay(2, 0, me), pay(3, 1, vb)}

\* TxPool: rivals for the first slot of ann and a follower; or up to three nonces of one
\* sender and two of the other, the middle one the cheapest.
Tx(a, b, n, v, g) == [from |-> a, to |-> b, nonce |-> n, value |-> v, price |-> g]
Users == {"ann", "bob"}
FewTxs == {Tx("ann", "bob", 0, 2, 1), Tx("ann", "bob", 0, 1, 2), Tx("ann", "bob", 1, 1, 1)}
ManyTxs == {Tx("ann", "bob", 0, 1, 3), Tx("ann", "bob", 1, 1, 1), Tx("ann", "bob", 2, 1, 4),
            Tx("bob", "ann", 0, 1, 2), Tx("bob", "ann", 1, 1, 4)}
OwnTxs == {Tx("ann", "bob", 0, 1, 3)}

\* Multishot: a quorum is 9 of 10, half of which a faulty validator has.
MCWeight == [S \in SUBSET {va, vb, vc} |->
    (IF va \in S THEN 4 ELSE 0) + (IF vb \in S THEN 1 ELSE 0) + (IF vc \in S THEN 5 ELSE 0)]

-----------------------------------------------------------------------------
(* The components. *)

\* Two own blocks: rivals, the acks of one other and two stops or crashes; or the acks of two others and one.
Restart == INSTANCE Restart WITH Others <- {vb}, Accounts <- MCAccounts, Txs <- MCTxs,
  InitBalance <- MCBalance, TotalStake <- 7, MaxBlocks <- 2, MaxStops <- 2,
  chain <- upChain, voted <- upVoted, confirmed <- upConfirmed
Acks == INSTANCE Restart WITH Others <- {vb, vc}, Accounts <- MCAccounts,
  Txs <- {pay(1, 0, vb), pay(3, 1, vb)}, InitBalance <- MCBalance, TotalStake <- 7,
  MaxBlocks <- 2, MaxStops <- 1, chain <- upChain, voted <- upVoted,
  confirmed <- upConfirmed
upVars == <<status, upChain, imported, flushed, state, done, stakeState, currentState,
             expectedAckNonce, ackWeight, upVoted, upConfirmed, resetDue, current, stops>>

\* A pool that feeds the miner, with blocks of others and side blocks.
Pool == INSTANCE TxPool WITH Accounts <- Users, Txs <- FewTxs,
  InitBalance <- [a \in Users |-> 5], Prices <- {1}, PriceBump <- 10, AccountSlots <- 1,
  GlobalSlots <- 2, AccountQueue <- 1, GlobalQueue <- 1, LocalTxs <- {},
  BlockTxs <- {Tx("ann", "bob", 0, 1, 2)}, Ackable <- FewTxs, MayExpire <- {},
  Mining <- TRUE, EmptyBlocks <- TRUE, Siblings <- TRUE, MaxStarts <- 1, p <- minP,
  chain <- minChain, next <- minNext, run <- minRun, announced <- minAnnounced,
  offered <- minOffered, block <- minBlock, headTxs <- minHeadTxs, starts <- minStarts
minVars == <<minP, minChain, minNext, minRun, minAnnounced, minOffered, minBlock, minHeadTxs, minStarts>>

\* A pool at its limits, with local transactions, price changes and a restart.
Limits == INSTANCE TxPool WITH Accounts <- Users, Txs <- ManyTxs,
  InitBalance <- [a \in Users |-> 9], Prices <- {1, 3}, PriceBump <- 10, AccountSlots <- 1,
  GlobalSlots <- 3, AccountQueue <- 1, GlobalQueue <- 1, LocalTxs <- OwnTxs, BlockTxs <- {},
  Ackable <- {}, MayExpire <- {"ann"}, Mining <- FALSE, EmptyBlocks <- FALSE,
  Siblings <- FALSE, MaxStarts <- 2, p <- limP, chain <- limChain, next <- limNext,
  run <- limRun, announced <- limAnnounced, offered <- limOffered, block <- limBlock,
  headTxs <- limHeadTxs, starts <- limStarts
limVars == <<limP, limChain, limNext, limRun, limAnnounced, limOffered, limBlock, limHeadTxs, limStarts>>

\* Two signers and a candidate; checkpoints every third block, stored every second.
Clique == INSTANCE Clique WITH GenesisSigners <- {va, vb}, Candidates <- {vc},
  Nobody <- nobody, Epoch <- 3, checkpointInterval <- 2, Period <- 1, MaxNumber <- 4,
  MaxTime <- 4, chain <- clqChain
clqVars == <<clqChain, recents, disk, now>>

\* Multishot and MinerControl take their constants from the cfg: three validators, one
\* faulty, and two rivals; three calls and two synchronisations around two heads, or one
\* change of the interval around three.
ControlStep == ControlNext /\ sets' = 0 /\ heads' <= 2
RateStep == ControlNext /\ syncs' = 0 /\ calls' <= 1

vars == <<focus, upVars, minVars, limVars, clqVars, multishotVars, controlVars>>

-----------------------------------------------------------------------------
Init ==
  /\ focus \in {"restart", "acks", "pool", "limits", "clique", "multishot", "control",
                 "rate"}
  /\ IF focus = "acks" THEN Acks!Init ELSE Restart!Init
  /\ Pool!Init
  /\ Limits!Init
  /\ Clique!Init
  /\ MultishotInit
  /\ ControlInit
  /\ focus # "rate" => recommit = 1000

Next ==
  \/ /\ focus = "restart" /\ Restart!Next
     /\ UNCHANGED <<focus, minVars, limVars, clqVars, multishotVars, controlVars>>
  \/ /\ focus = "acks" /\ Acks!Next
     /\ UNCHANGED <<focus, minVars, limVars, clqVars, multishotVars, controlVars>>
  \/ /\ focus = "pool" /\ Pool!Next
     /\ UNCHANGED <<focus, upVars, limVars, clqVars, multishotVars, controlVars>>
  \/ /\ focus = "limits" /\ Limits!Next
     /\ UNCHANGED <<focus, upVars, minVars, clqVars, multishotVars, controlVars>>
  \/ /\ focus = "clique" /\ Clique!Next
     /\ UNCHANGED <<focus, upVars, minVars, limVars, multishotVars, controlVars>>
  \/ /\ focus = "multishot" /\ MultishotNext
     /\ UNCHANGED <<focus, upVars, minVars, limVars, clqVars, controlVars>>
  \/ /\ focus = "control" /\ ControlStep
     /\ UNCHANGED <<focus, upVars, minVars, limVars, clqVars, multishotVars>>
  \/ /\ focus = "rate" /\ RateStep
     /\ UNCHANGED <<focus, upVars, minVars, limVars, clqVars, multishotVars>>

Spec == Init /\ [][Next]_vars

-----------------------------------------------------------------------------
ASSUME Restart!RestartAssumption /\ Acks!RestartAssumption
ASSUME Pool!TxPoolAssumption /\ Limits!TxPoolAssumption
ASSUME Clique!CliqueAssumption
ASSUME RivalsAssumption /\ FaultBound
ASSUME ControlAssumption

(* What they promise; each part is stated and explained in its module, which for *)
(* Multishot and MinerControl also states the whole.                            *)

\* The detached state and each root in a header are what one transaction per slot makes
\* of genesis, and what a running node has executed has a quorum it counted since its start
\* or is in the root of one of its blocks: a stop or crash between two steps may forget
\* executions, never repeat or mix them (NewBlockChain, writeBlockWithState).
RestartSound ==
  /\ focus = "restart" => Restart!TypeOK /\ Restart!StatesExact /\ Restart!ExecutedAccounted
  /\ focus = "acks" => Acks!TypeOK /\ Acks!StatesExact /\ Acks!ExecutedAccounted

\* Lookup, pending and queued lists and next nonces of the pool agree (what
\* validateTxPoolInternals of the tests asserts), each pending transaction is announced or
\* due to be, the pending ones of a sender leave no gap, the pool is within its limits
\* unless only local transactions are left, and a sender with queued transactions has a
\* heartbeat: at any interleaving of add with the runs of runReorg. A run of runReorg
\* leaves the lists within their limits, but for local senders and guaranteed slots, and a
\* local transaction leaves the pool only when acked, not payable or outbid
\* (truncatePending, truncateQueue).
PoolSound ==
  /\ []/\ focus = "pool" => Pool!TypeOK /\ Pool!Consistent /\ Pool!AnnouncedOrDue
       /\ focus = "limits" => /\ Limits!TypeOK /\ Limits!Consistent /\ Limits!NoGaps
                              /\ Limits!Bounded /\ Limits!QueuedAlive
  /\ [][focus = "limits" => Limits!TruncatedStep /\ Limits!LocalsKeptStep]_vars

\* A signer snapshot in memory or on disk is what genesis and the headers give, its tally
\* is the number of votes, no chain changes the set of signers, and what Prepare and Seal
\* produce passes verifyHeader once its time has come (Clique.snapshot, Snapshot.apply).
CliqueSound ==
  focus = "clique" => /\ Clique!TypeOK /\ Clique!SnapshotsExact /\ Clique!TallyExact
                      /\ Clique!SignersFixed /\ Clique!PreparedVerifies
=============================================================================
