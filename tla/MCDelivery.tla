----------------------------- MODULE MCDelivery -----------------------------
(*****************************************************************************)
(* That things get on: what the pool, the fetchers, the broadcast, the       *)
(* dialer and the lookups owe their users in the end, under the fairness of  *)
(* each. In a behaviour one of them moves, and the others stay as they are.  *)
(*****************************************************************************)
EXTENDS Integers, Sequences, FiniteSets, TLC

CONSTANTS None, genesis, b1, b2, p1, p2, h1, h2, t1, t2

VARIABLES
  focus,   \* the component that moves
  \* TxPool
  minP, minChain, next, run, minAnnounced, offered, minBlock, headTxs, starts,
  \* BlockFetcher
  fetF, imports, fetChain, headerReqs, bodyReqs, fetPeers, fetNotifies, injects, overtaken,
  \* TxFetcher
  txfF, txfKnown, underpriced, txfAsked, notices, deliveries, drops, txfPeers,
  txfNotifies, broadcasts,
  \* Broadcast
  insert, propagating, announcing, broKnown, queuedBlocks, queuedBlockAnns, writer, sent,
  broAnnounced, crossed, theirs, broPool,
  offer, loop, txEvents,
  \* Server
  conns, srvPeers, inboundCount, trusted, static, srvPool, dialing, connected, dialPeers,
  history, phase,
  \* Lookup
  lkpPc, started, live, queries, lkpAsked, seen, result, replyCh, query, buffer, cancelled,
  table, fails

\* TxPool: a transaction of ann and a follower, or a rival that outbids it.
Tx(n, v, g) == [from |-> "ann", to |-> "bob", nonce |-> n, value |-> v, price |-> g]
Users == {"ann", "bob"}
FewTxs == {Tx(0, 1, 1), Tx(1, 1, 1)}
RivalTxs == {Tx(0, 2, 1), Tx(0, 1, 2)}

\* BlockFetcher: a block and its child with transactions.
MCBlocks == {b1, b2}
MCParent == [h \in MCBlocks |-> IF h = b1 THEN genesis ELSE b1]
MCBody == [h \in MCBlocks |-> IF h = b1 THEN "none" ELSE "txs"]

-----------------------------------------------------------------------------
(* The components. *)

\* A pool that feeds the miner, with blocks of others, and one that gets rivals.
Pool == INSTANCE TxPool WITH Accounts <- Users, Txs <- FewTxs,
  InitBalance <- [a \in Users |-> 3], Prices <- {1}, PriceBump <- 10, AccountSlots <- 1,
  GlobalSlots <- 2, AccountQueue <- 1, GlobalQueue <- 1, LocalTxs <- {}, BlockTxs <- FewTxs,
  Ackable <- FewTxs, MayExpire <- {}, Mining <- TRUE, EmptyBlocks <- TRUE,
  Siblings <- FALSE, MaxStarts <- 1, p <- minP, chain <- minChain,
  announced <- minAnnounced, block <- minBlock
Rivals == INSTANCE TxPool WITH Accounts <- Users, Txs <- RivalTxs,
  InitBalance <- [a \in Users |-> 3], Prices <- {1}, PriceBump <- 10, AccountSlots <- 1,
  GlobalSlots <- 2, AccountQueue <- 1, GlobalQueue <- 1, LocalTxs <- {}, BlockTxs <- {},
  Ackable <- RivalTxs, MayExpire <- {}, Mining <- TRUE, EmptyBlocks <- TRUE,
  Siblings <- FALSE, MaxStarts <- 1, p <- minP, chain <- minChain,
  announced <- minAnnounced, block <- minBlock
minVars == <<minP, minChain, next, run, minAnnounced, offered, minBlock, headTxs, starts>>

\* Two peers that keep to the protocol.
Blocks == INSTANCE BlockFetcher WITH Blocks <- MCBlocks, Peers <- {p1, p2},
  Genesis <- genesis, NoPeer <- None, Parent <- MCParent, Body <- MCBody, Empty <- {b1},
  Invalid <- {}, Failing <- {}, Liars <- {}, Leaving <- {}, hashLimit <- 3, blockLimit <- 2,
  MaxNotifies <- 2, MaxInjects <- 1, f <- fetF, chain <- fetChain, peers <- fetPeers,
  notifies <- fetNotifies
fetVars == <<fetF, imports, fetChain, headerReqs, bodyReqs, fetPeers, fetNotifies, injects, overtaken>>

\* One honest peer, and one that may leave, answer in part or not at all.
Transactions == INSTANCE TxFetcher WITH Peers <- {p1, p2}, Hashes <- {h1, h2},
  Cheap <- {h2}, Honest <- {p1}, Leaving <- {p2}, maxTxAnnounces <- 3,
  maxTxRetrievals <- 2, MaxNotifies <- 2, MaxBroadcasts <- 0, f <- txfF, known <- txfKnown,
  asked <- txfAsked, peers <- txfPeers, notifies <- txfNotifies
txfVars == <<txfF, txfKnown, underpriced, txfAsked, notices, deliveries, drops, txfPeers,
              txfNotifies, broadcasts>>

\* Two transactions that are announced again.
Announcement == INSTANCE Broadcast WITH Mined <- {}, Imported <- {}, Txs <- {t1, t2},
  maxKnownBlocks <- 4, maxQueuedBlocks <- 1, maxQueuedBlockAnns <- 1, maxQueued <- 2,
  maxPacket <- 1, MaxTxEvents <- 3, known <- broKnown, announced <- broAnnounced,
  pool <- broPool
broVars == <<insert, propagating, announcing, broKnown, queuedBlocks, queuedBlockAnns, writer, sent,
              broAnnounced, crossed, theirs, broPool, offer, loop, txEvents>>

\* A static node whose address has to be found, and another that is dialled.
Dialer == INSTANCE Server WITH Nodes <- {1, 2}, StaticNodes <- {1}, Located <- {},
  Resolved <- {"tcp"}, Ops <- {"static"}, MaxPeers <- 2, maxDialPeers <- 1,
  maxActiveDials <- 1, MaxInbound <- 0, peers <- srvPeers, pool <- srvPool
srvVars == <<conns, srvPeers, inboundCount, trusted, static, srvPool, dialing, connected, dialPeers,
              history, phase>>

\* Three nodes and two lookups.
Lookup == INSTANCE Lookup WITH Nodes <- {1, 2, 3}, Self <- 1, alpha <- 2, bucketSize <- 2,
  maxFindnodeFailures <- 2, MaxLookups <- 2, pc <- lkpPc, asked <- lkpAsked
lkpVars == <<lkpPc, started, live, queries, lkpAsked, seen, result, replyCh, query, buffer, cancelled,
              table, fails>>

vars == <<focus, minVars, fetVars, txfVars, broVars, srvVars, lkpVars>>

-----------------------------------------------------------------------------
Init ==
  /\ focus \in {"pool", "rivals", "blocks", "transactions", "announcement", "dialer",
                 "lookup"}
  /\ IF focus = "rivals" THEN Rivals!Init ELSE Pool!Init
  /\ Blocks!Init
  /\ Transactions!Init
  /\ Announcement!BroadcastInit
  /\ Dialer!Init
  /\ Lookup!Init
  /\ focus # "lookup" => table = {2} /\ fails = [n \in 1 .. 3 |-> 0]

Next ==
  \/ /\ focus = "pool" /\ Pool!Next
     /\ UNCHANGED <<focus, fetVars, txfVars, broVars, srvVars, lkpVars>>
  \/ /\ focus = "rivals" /\ Rivals!Next
     /\ UNCHANGED <<focus, fetVars, txfVars, broVars, srvVars, lkpVars>>
  \/ /\ focus = "blocks" /\ Blocks!Next
     /\ UNCHANGED <<focus, minVars, txfVars, broVars, srvVars, lkpVars>>
  \/ /\ focus = "transactions" /\ Transactions!Next
     /\ UNCHANGED <<focus, minVars, fetVars, broVars, srvVars, lkpVars>>
  \/ /\ focus = "announcement" /\ Announcement!BroadcastNext
     /\ UNCHANGED <<focus, minVars, fetVars, txfVars, srvVars, lkpVars>>
  \/ /\ focus = "dialer" /\ Dialer!Next
     /\ UNCHANGED <<focus, minVars, fetVars, txfVars, broVars, lkpVars>>
  \/ /\ focus = "lookup" /\ Lookup!Next
     /\ UNCHANGED <<focus, minVars, fetVars, txfVars, broVars, srvVars>>

Spec == Init /\ [][Next]_vars

\* The fairness of the component that moves.
LiveSpec ==
  /\ Spec
  /\ \/ []<>(focus = "pool") /\ Pool!Fairness
     \/ []<>(focus = "rivals") /\ Rivals!Fairness
     \/ []<>(focus = "blocks") /\ Blocks!Fairness
     \/ []<>(focus = "transactions") /\ Transactions!Fairness
     \/ []<>(focus = "announcement") /\ Announcement!BroadcastFairness
     \/ []<>(focus = "dialer") /\ Dialer!Fairness
     \/ []<>(focus = "lookup") /\ Lookup!Fairness

-----------------------------------------------------------------------------
(* What they owe; each part is stated and explained in its module. *)

\* A pending transaction is announced or leaves the pool, and a queued one that has become
\* executable leaves the queue (scheduleReorgLoop, promoteExecutables).
PoolDelivers ==
  /\ focus = "rivals" => Rivals!Announces
  /\ focus = "pool" => Pool!Promotes

\* A valid block that was announced and whose parent is there is imported, unless an import
\* of it began before the parent was there; a transaction an honest peer has announced
\* reaches the pool, also if another peer is asked first and does not answer.
FetchersDeliver ==
  /\ focus = "blocks" => Blocks!Fetched
  /\ focus = "transactions" => Transactions!Delivers

\* A connection that takes for ever to write to does not hold up the loop that broadcasts
\* to all peers; "The dialer attempts keep these nodes connected at all times": a static
\* node is dialled or connected again and again while there are slots; and a lookup ends
\* (AsyncSendTransactions, dialScheduler.loop, lookup.advance).
NetworkGoesOn ==
  /\ focus = "announcement" => Announcement!TxLoopGoesOn
  /\ focus = "dialer" => Dialer!StaticDialed
  /\ focus = "lookup" => Lookup!NextReturns
=============================================================================
