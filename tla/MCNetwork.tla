----------------------------- MODULE MCNetwork ------------------------------
(*****************************************************************************)
(* What a node shares with others: the fetchers of blocks and transactions,  *)
(* the peers and what is broadcast to them, the p2p server with its dialer,  *)
(* discovery, and the interface for clients, each on a small instance. They  *)
(* share no state here, so interleaving their steps shows nothing more about *)
(* any of them: in a behaviour one of them moves, and the others stay as     *)
(* they are.                                                                 *)
(*****************************************************************************)
EXTENDS Peers, Broadcast, Feed, TypeMux, RPCClient, Filters, TLC

CONSTANTS genesis, b1, b2, c2, d1, p1, p2, h1, h2, x1, x2, y1, x, y

VARIABLES
  focus,   \* the component that moves
  \* BlockFetcher
  fetF, imports, chain, headerReqs, bodyReqs, fetPeers, fetNotifies, injects, overtaken,
  \* TxFetcher
  txfF, txfKnown, underpriced, txfAsked, notices, deliveries, drops, txfPeers,
  txfNotifies, broadcasts,
  \* Server
  srvConns, srvPeers, inboundCount, trusted, static, srvPool, dialing, connected, dialPeers,
  history, srvPhase,
  \* UDPv4
  plist, deadline, nextTimeout, timer, fired, answers, reply, received, udpPc, net,
  udpReading, udpUp, udpClosed,
  \* DiscTable
  entries, replacements, initDone, refreshing, waiting, revalidating, state, old, seeds,
  \* Lookup
  lkpPc, started, live, queries, lkpAsked, seen, result, replyCh, query, buffer, cancelled,
  table, fails

\* A block, its child with transactions, a sibling of the child with the same transactions,
\* and a sibling of the block.
MCBlocks == {b1, b2, c2, d1}
MCParent == [h \in MCBlocks |-> IF h \in {b1, d1} THEN genesis ELSE b1]
MCBody == [h \in MCBlocks |-> IF h \in {b1, d1} THEN "none" ELSE "txs"]

\* Peers: node x connects twice, node y once, and there is room for one.
MCIdOf == x1 :> x @@ x2 :> x @@ y1 :> y

\* RPCClient: a call, a subscription and its end, and two reconnections.
MCKind == <<"call", "sub", "unsub">>
MCUnsubOf == <<0, 0, 2>>

\* Filters: a filter for mined and pending logs, and a subscription to mined ones.
MCTypes == <<{"logs", "pending"}, {"logs"}>>

-----------------------------------------------------------------------------
(* The components. Peers, Broadcast, Feed, TypeMux, RPCClient and Filters are extended, with
   their constants in the configuration: two mined blocks, an imported one and two
   transactions to broadcast, two subscriptions and two senders or posters of events. *)

\* Two peers, one of which invents announcements and one of which leaves.
Fetcher == INSTANCE BlockFetcher WITH Blocks <- MCBlocks, Peers <- {p1, p2},
  Genesis <- genesis, NoPeer <- None, Parent <- MCParent, Body <- MCBody, Empty <- {b1, d1},
  Invalid <- {c2}, Failing <- {d1}, Liars <- {p1}, Leaving <- {p2}, hashLimit <- 2,
  blockLimit <- 1, MaxNotifies <- 3, MaxInjects <- 1, f <- fetF, peers <- fetPeers,
  notifies <- fetNotifies
fetVars == <<fetF, imports, chain, headerReqs, bodyReqs, fetPeers, fetNotifies, injects, overtaken>>

\* Two transactions, one too cheap; one peer that leaves, and broadcasts.
Transactions == INSTANCE TxFetcher WITH Peers <- {p1, p2}, Hashes <- {h1, h2},
  Cheap <- {h2}, Honest <- {}, Leaving <- {p2}, maxTxAnnounces <- 2,
  maxTxRetrievals <- 2, MaxNotifies <- 2, MaxBroadcasts <- 1, f <- txfF, known <- txfKnown,
  asked <- txfAsked, peers <- txfPeers, notifies <- txfNotifies
txfVars == <<txfF, txfKnown, underpriced, txfAsked, notices, deliveries, drops, txfPeers,
              txfNotifies, broadcasts>>

\* Static nodes to dial, one without an address; nodes that are trusted; nodes that only connect.
Dialer == INSTANCE Server WITH Nodes <- {1, 2, 3}, StaticNodes <- {1, 2}, Located <- {1},
  Resolved <- {"tcp", "udp"}, Ops <- {"static"}, MaxPeers <- 3, maxDialPeers <- 1,
  maxActiveDials <- 2, MaxInbound <- 1, conns <- srvConns, peers <- srvPeers,
  pool <- srvPool, phase <- srvPhase
Trust == INSTANCE Server WITH Nodes <- {1, 2}, StaticNodes <- {1}, Located <- {1},
  Resolved <- {"tcp"}, Ops <- {"inbound", "trust"}, MaxPeers <- 2,
  maxDialPeers <- 1, maxActiveDials <- 1, MaxInbound <- 1, conns <- srvConns,
  peers <- srvPeers, pool <- srvPool, phase <- srvPhase
Inbound == INSTANCE Server WITH Nodes <- {1, 2}, StaticNodes <- {}, Located <- {},
  Resolved <- {"tcp"}, Ops <- {"inbound"}, MaxPeers <- 2, maxDialPeers <- 1,
  maxActiveDials <- 1, MaxInbound <- 2, conns <- srvConns, peers <- srvPeers,
  pool <- srvPool, phase <- srvPhase
srvVars == <<srvConns, srvPeers, inboundCount, trusted, static, srvPool, dialing, connected, dialPeers,
              history, srvPhase>>

\* A record asked for while the node is pinged; a lookup and a ping that answers a ping.
Records == INSTANCE UDPv4 WITH Calls <- {1, 2}, kind <- <<"enr", "ping">>, dest <- <<1, 1>>,
  bucketSize <- 2, RespTimeout <- 1, pc <- udpPc, reading <- udpReading, up <- udpUp,
  closed <- udpClosed
Neighbors == INSTANCE UDPv4 WITH Calls <- {1, 2}, kind <- <<"find", "pingback">>,
  dest <- <<1, 1>>, bucketSize <- 2, RespTimeout <- 1, pc <- udpPc, reading <- udpReading,
  up <- udpUp, closed <- udpClosed
udpVars == <<plist, deadline, nextTimeout, timer, fired, answers, reply, received, udpPc, net,
              udpReading, udpUp, udpClosed>>

\* A bucket of two and a replacement; who calls refresh is in MCEndings.
Table == INSTANCE DiscTable WITH Ids <- {1, 2, 3}, bucketSize <- 2, maxReplacements <- 1,
  MaxWaiting <- 0
dhtVars == <<entries, replacements, initDone, refreshing, waiting, revalidating, state, old, seeds>>

\* Five nodes, two queries at a time.
Lookups == INSTANCE Lookup WITH Nodes <- {1, 2, 3, 4, 5}, Self <- 1, alpha <- 2,
  bucketSize <- 2, maxFindnodeFailures <- 2, MaxLookups <- 1, pc <- lkpPc, asked <- lkpAsked
lkpVars == <<lkpPc, started, live, queries, lkpAsked, seen, result, replyCh, query, buffer, cancelled,
              table, fails>>

vars == <<focus, fetVars, txfVars, peersVars, broadcastVars, feedVars, muxVars, srvVars, udpVars,
          dhtVars, lkpVars, clientVars, filterVars>>

-----------------------------------------------------------------------------
Init ==
  /\ focus \in {"blocks", "transactions", "peers", "propagation", "announcement", "feed",
                 "mux", "dialer", "trust", "inbound", "records", "neighbors", "table",
                 "lookup", "client", "filters"}
  /\ Fetcher!Init
  /\ Transactions!Init
  /\ PeersInit
  /\ BroadcastInit
  /\ FeedInit
  /\ MuxInit
  /\ CASE focus = "trust" -> Trust!Init
       [] focus = "inbound" -> Inbound!Init
       [] OTHER -> Dialer!Init
  /\ IF focus = "neighbors" THEN Neighbors!Init ELSE Records!Init
  /\ Table!Init
  /\ Lookups!Init
  /\ ClientInit
  /\ FilterInit
  /\ focus # "table" => entries = <<>>
  /\ focus # "lookup" => table = {2} /\ fails = [n \in 1 .. 5 |-> 0]

Next ==
  \/ /\ focus = "blocks" /\ Fetcher!Next
     /\ UNCHANGED <<focus, txfVars, peersVars, broadcastVars, feedVars, muxVars, srvVars, udpVars,
                    dhtVars, lkpVars, clientVars, filterVars>>
  \/ /\ focus = "transactions" /\ Transactions!Next
     /\ UNCHANGED <<focus, fetVars, peersVars, broadcastVars, feedVars, muxVars, srvVars, udpVars,
                    dhtVars, lkpVars, clientVars, filterVars>>
  \/ /\ focus = "peers" /\ PeersNext
     /\ UNCHANGED <<focus, fetVars, txfVars, broadcastVars, feedVars, muxVars, srvVars, udpVars,
                    dhtVars, lkpVars, clientVars, filterVars>>
  \/ /\ focus = "propagation" /\ BlockStep
     /\ UNCHANGED <<focus, fetVars, txfVars, peersVars, feedVars, muxVars, srvVars, udpVars,
                    dhtVars, lkpVars, clientVars, filterVars>>
  \/ /\ focus = "announcement" /\ TxStep
     /\ UNCHANGED <<focus, fetVars, txfVars, peersVars, feedVars, muxVars, srvVars, udpVars,
                    dhtVars, lkpVars, clientVars, filterVars>>
  \/ /\ focus = "feed" /\ FeedNext
     /\ UNCHANGED <<focus, fetVars, txfVars, peersVars, broadcastVars, muxVars, srvVars, udpVars,
                    dhtVars, lkpVars, clientVars, filterVars>>
  \/ /\ focus = "mux" /\ MuxNext
     /\ UNCHANGED <<focus, fetVars, txfVars, peersVars, broadcastVars, feedVars, srvVars, udpVars,
                    dhtVars, lkpVars, clientVars, filterVars>>
  \/ /\ focus = "dialer" /\ Dialer!Next
     /\ UNCHANGED <<focus, fetVars, txfVars, peersVars, broadcastVars, feedVars, muxVars, udpVars,
                    dhtVars, lkpVars, clientVars, filterVars>>
  \/ /\ focus = "trust" /\ Trust!Next
     /\ UNCHANGED <<focus, fetVars, txfVars, peersVars, broadcastVars, feedVars, muxVars, udpVars,
                    dhtVars, lkpVars, clientVars, filterVars>>
  \/ /\ focus = "inbound" /\ Inbound!Next
     /\ UNCHANGED <<focus, fetVars, txfVars, peersVars, broadcastVars, feedVars, muxVars, udpVars,
                    dhtVars, lkpVars, clientVars, filterVars>>
  \/ /\ focus = "records" /\ Records!Next
     /\ UNCHANGED <<focus, fetVars, txfVars, peersVars, broadcastVars, feedVars, muxVars, srvVars,
                    dhtVars, lkpVars, clientVars, filterVars>>
  \/ /\ focus = "neighbors" /\ Neighbors!Next
     /\ UNCHANGED <<focus, fetVars, txfVars, peersVars, broadcastVars, feedVars, muxVars, srvVars,
                    dhtVars, lkpVars, clientVars, filterVars>>
  \/ /\ focus = "table" /\ Table!Next
     /\ UNCHANGED <<focus, fetVars, txfVars, peersVars, broadcastVars, feedVars, muxVars, srvVars,
                    udpVars, lkpVars, clientVars, filterVars>>
  \/ /\ focus = "lookup" /\ Lookups!Next
     /\ UNCHANGED <<focus, fetVars, txfVars, peersVars, broadcastVars, feedVars, muxVars, srvVars,
                    udpVars, dhtVars, clientVars, filterVars>>
  \/ /\ focus = "client" /\ ClientNext
     /\ UNCHANGED <<focus, fetVars, txfVars, peersVars, broadcastVars, feedVars, muxVars, srvVars,
                    udpVars, dhtVars, lkpVars, filterVars>>
  \/ /\ focus = "filters" /\ FilterNext
     /\ UNCHANGED <<focus, fetVars, txfVars, peersVars, broadcastVars, feedVars, muxVars, srvVars,
                    udpVars, dhtVars, lkpVars, clientVars>>

Spec == Init /\ [][Next]_vars

-----------------------------------------------------------------------------
ASSUME Fetcher!FetcherAssumption
ASSUME Transactions!TxFetcherAssumption
ASSUME PeersAssumption /\ BroadcastAssumption /\ FeedAssumption /\ MuxAssumption
ASSUME ClientAssumption /\ FiltersAssumption

(* What they promise; each part is stated and explained in its module. What the extended ones
   promise is in their modules: PeersSound, BroadcastSound, FeedSound, MuxSound, ClientSound
   and FiltersSound. *)

\* Queue and per-peer counts of the block fetcher agree, the header and the body of a block
\* are asked of one peer at a time, what waits has a timer that will fire, and blocks enter
\* the chain after their parents, only valid ones (enqueue, forgetBlock, importBlocks).
BlocksSound ==
  focus = "blocks" => /\ Fetcher!TypeOK /\ Fetcher!QueueExact /\ Fetcher!RequestedOnce
                      /\ Fetcher!TimersArmed /\ Fetcher!ParentFirst

\* A transaction hash is waiting, queued or being fetched, never two of these; what is being
\* fetched is in an open request; what a peer announced is listed at the hash; and while a
\* peer could be asked for something, a request runs whose end will schedule it
\* (scheduleFetches, rescheduleTimeout).
TransactionsSound ==
  focus = "transactions" =>
    /\ Transactions!TypeOK /\ Transactions!OneStage /\ Transactions!FetchBacked
    /\ Transactions!AnnouncesListed /\ Transactions!NothingIdle

\* There is one dial per node at most and the scheduler knows the tasks that run, the pool
\* holds the static nodes that may be dialled, and the run loop and the dialer count the
\* peers exactly and within their limits, though several connections may pass the first
\* check together (startDial, updateStaticPool, setupConn, run).
ServerSound ==
  /\ focus = "dialer" => Dialer!TasksKnown /\ Dialer!PoolExact /\ Dialer!DialBound
  /\ focus = "trust" => Trust!PeersCounted
  /\ focus = "inbound" => Inbound!PeersCounted

\* A matcher is told the end of its request at most once and has a timer until then; a node
\* is at most once in its bucket, and the end of a revalidation drops nobody but the node
\* that was pinged; a lookup counts its queries and ends when it has asked the closest nodes
\* it saw (UDPv4.loop, addSeenNode, replace, lookup.advance).
DiscoverySound ==
  /\ []/\ focus = "records" => Records!ToldOnce /\ Records!TimerSet
       /\ focus = "neighbors" => Neighbors!ToldOnce /\ Neighbors!TimerSet
       /\ focus = "table" => Table!BucketSound
       /\ focus = "lookup" => Lookups!QueriesCounted /\ Lookups!AskedClosest
  /\ [][focus = "table" => Table!DropsPingedOnlyStep]_vars

=============================================================================
