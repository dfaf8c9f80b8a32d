----------------------------- MODULE MCEndings ------------------------------
(*****************************************************************************)
(* That things end: whoever waits for a request, a subscription or a stop is *)
(* released, under the fairness of each component. In a behaviour one of     *)
(* them moves, and the others stay as they are.                              *)
(*****************************************************************************)
EXTENDS Integers, Sequences, FiniteSets, TLC

CONSTANTS None, x1, x2, x, s1, q1, q2

VARIABLES
  focus,   \* the component that moves
  \* Peers
  stage, regPeers, downloader, removal, disconnected, regClosed, stopping, heard,
  \* Server
  srvConns, srvPeers, inboundCount, trusted, static, pool, dialing, connected, dialPeers,
  history, srvPhase,
  \* Feed
  inbox, sendCases, sendLock, send, feedSub, channel, delivered, owed, wrapper, unsubCall, scope,
  subs, cancelling,
  \* TypeMux
  subm, mutex, stopped, muxSub, postMu, post, call, muxCloser, muxGot,
  \* UDPv4
  plist, deadline, nextTimeout, timer, fired, answers, reply, received, udpPc, net,
  udpReading, udpUp, udpClosed,
  \* DiscTable
  entries, replacements, initDone, refreshing, waiting, revalidating, state, old, seeds,
  \* RPCClient
  rpcPc, retry, resp, bad, asked, writeConn, alive, rpcConns, reader, rpcAt, why, conn,
  next, rpcReading, locked, lastOp, respWait, reqSent, clientSubs, once, rpcClosing,
  rpcCloser,
  \* Filters
  index, sending, events, fltPhase, gor, have, filters, buf, expired, toUninstall, fltUnsub,
  fltMu, fltGot, due

-----------------------------------------------------------------------------
(* The components. *)

\* A node that is dropped and comes back.
Peers == INSTANCE Peers WITH Conns <- {x1, x2}, IdOf <- x1 :> x @@ x2 :> x,
  NoConn <- None, Trusted <- {}, maxPeers <- 1, MaxDrops <- 1, peers <- regPeers, closed <- regClosed
regVars == <<stage, regPeers, downloader, removal, disconnected, regClosed, stopping, heard>>

\* A static node that is dialled and connects while the server stops.
Server == INSTANCE Server WITH Nodes <- {1}, StaticNodes <- {1}, Located <- {},
  Resolved <- {"tcp"}, Ops <- {"inbound", "static", "stop"}, MaxPeers <- 1,
  maxDialPeers <- 1, maxActiveDials <- 1, MaxInbound <- 1, conns <- srvConns,
  peers <- srvPeers, phase <- srvPhase
srvVars == <<srvConns, srvPeers, inboundCount, trusted, static, pool, dialing, connected, dialPeers,
              history, srvPhase>>

\* A subscription and two senders.
Feed == INSTANCE Feed WITH Subscribers <- {s1}, Senders <- {q1, q2}, NoSender <- None,
  Buffer <- 1, MaxSends <- 2
evtVars == <<inbox, sendCases, sendLock, send, feedSub, channel, delivered, owed, wrapper, unsubCall, scope,
              subs, cancelling>>

\* A subscription and two posters.
Mux == INSTANCE TypeMux WITH Subs <- {s1}, Posters <- {q1, q2}, sub <- muxSub
muxVars == <<subm, mutex, stopped, muxSub, postMu, post, call, muxCloser, muxGot>>

\* One lookup.
Discovery == INSTANCE UDPv4 WITH Calls <- {1}, kind <- <<"find">>, dest <- <<1>>,
  bucketSize <- 1, RespTimeout <- 1, pc <- udpPc, reading <- udpReading, up <- udpUp,
  closed <- udpClosed
udpVars == <<plist, deadline, nextTimeout, timer, fired, answers, reply, received, udpPc, net,
              udpReading, udpUp, udpClosed>>

\* A bucket of one and a replacement.
Table == INSTANCE DiscTable WITH Ids <- {1, 2}, bucketSize <- 1, maxReplacements <- 1,
  MaxWaiting <- 2
dhtVars == <<entries, replacements, initDone, refreshing, waiting, revalidating, state, old, seeds>>

\* A call, a subscription and its end, and two connections.
Client == INSTANCE RPCClient WITH Calls <- {1, 2, 3}, kind <- <<"call", "sub", "unsub">>,
  unsubOf <- <<0, 0, 2>>, Deadline <- {1}, MaxConns <- 2, pc <- rpcPc, conns <- rpcConns, at <- rpcAt,
  reading <- rpcReading, closing <- rpcClosing, closer <- rpcCloser
rpcVars == <<rpcPc, retry, resp, bad, asked, writeConn, alive, rpcConns, reader, rpcAt, why, conn,
              next, rpcReading, locked, lastOp, respWait, reqSent, clientSubs, once,
              rpcClosing, rpcCloser>>

\* A filter for mined and pending logs, and a subscription to mined ones.
Filters == INSTANCE Filters WITH Filters <- {1, 2}, Push <- {2},
  types <- <<{"logs", "pending"}, {"logs"}>>, MaxEvents <- 1, phase <- fltPhase,
  unsub <- fltUnsub, mu <- fltMu, got <- fltGot
fltVars == <<index, sending, events, fltPhase, gor, have, filters, buf, expired, toUninstall, fltUnsub,
              fltMu, fltGot, due>>

vars == <<focus, regVars, srvVars, evtVars, muxVars, udpVars, dhtVars, rpcVars, fltVars>>

-----------------------------------------------------------------------------
Init ==
  /\ focus \in {"peers", "server", "feed", "mux", "discovery", "table", "client", "filters"}
  /\ Peers!PeersInit
  /\ Server!Init
  /\ Feed!FeedInit
  /\ Mux!MuxInit
  /\ Discovery!Init
  /\ Table!Init
  /\ Client!ClientInit
  /\ Filters!FilterInit
  /\ focus # "table" => entries = <<>>

Next ==
  \/ /\ focus = "peers" /\ Peers!PeersNext
     /\ UNCHANGED <<focus, srvVars, evtVars, muxVars, udpVars, dhtVars, rpcVars, fltVars>>
  \/ /\ focus = "server" /\ Server!Next
     /\ UNCHANGED <<focus, regVars, evtVars, muxVars, udpVars, dhtVars, rpcVars, fltVars>>
  \/ /\ focus = "feed" /\ Feed!FeedNext
     /\ UNCHANGED <<focus, regVars, srvVars, muxVars, udpVars, dhtVars, rpcVars, fltVars>>
  \/ /\ focus = "mux" /\ Mux!MuxNext
     /\ UNCHANGED <<focus, regVars, srvVars, evtVars, udpVars, dhtVars, rpcVars, fltVars>>
  \/ /\ focus = "discovery" /\ Discovery!Next
     /\ UNCHANGED <<focus, regVars, srvVars, evtVars, muxVars, dhtVars, rpcVars, fltVars>>
  \/ /\ focus = "table" /\ Table!Next
     /\ UNCHANGED <<focus, regVars, srvVars, evtVars, muxVars, udpVars, rpcVars, fltVars>>
  \/ /\ focus = "client" /\ Client!ClientNext
     /\ UNCHANGED <<focus, regVars, srvVars, evtVars, muxVars, udpVars, dhtVars, fltVars>>
  \/ /\ focus = "filters" /\ Filters!FilterNext
     /\ UNCHANGED <<focus, regVars, srvVars, evtVars, muxVars, udpVars, dhtVars, rpcVars>>

Spec == Init /\ [][Next]_vars

\* The fairness of the component that moves.
LiveSpec ==
  /\ Spec
  /\ \/ []<>(focus = "peers") /\ Peers!PeersFairness
     \/ []<>(focus = "server") /\ Server!Fairness
     \/ []<>(focus = "feed") /\ Feed!FeedFairness
     \/ []<>(focus = "mux") /\ Mux!MuxFairness
     \/ []<>(focus = "discovery") /\ Discovery!Fairness
     \/ []<>(focus = "table") /\ Table!Fairness
     \/ []<>(focus = "client") /\ Client!ClientFairness
     \/ []<>(focus = "filters") /\ Filters!FilterFairness

-----------------------------------------------------------------------------
(* What ends; each part is stated and explained in its module. *)

\* When the node stops, the handler of each connection returns that the peer set knows or
\* that was told to disconnect, and so does Server.Stop: dial tasks, set-ups and peers all
\* end (peerSet.close, Server.run, dialScheduler.loop).
NodeStops ==
  /\ focus = "peers" => Peers!HandlerStops
  /\ focus = "server" => Server!StopEnds

\* Unsubscribe returns whatever Send is doing, and SubscriptionScope.Close does
\* (Feed.remove); Unsubscribe and Stop of a TypeMux return and posters are released.
SubscriptionsEnd ==
  /\ focus = "feed" => Feed!FeedUnsubscribes /\ Feed!ScopeCloses
  /\ focus = "mux" => Mux!ClosingEnds

\* A request is answered, times out, or fails because discovery closed; whoever waits for a
\* refresh is released; and both loops end when they are closed (UDPv4.loop, Table.loop).
DiscoveryEnds ==
  /\ focus = "discovery" => Discovery!RequestEnds /\ Discovery!CloseEnds
  /\ focus = "table" => Table!RefreshAnswers /\ Table!CloseEnds

\* A call whose context ends returns and so does Client.Close, unless an Unsubscribe that
\* waits for dispatch holds it up (dispatch, requestOp.wait, cancelAllRequests); the event
\* loop of the filters gets on though who it sends to may be unsubscribing or waiting for
\* the lock of the API, Unsubscribe returns, and a filter that nobody polls is uninstalled
\* (eventLoop, timeoutLoop).
ClientsServed ==
  /\ focus = "client" => Client!CallReturns /\ Client!CloseEnds
  /\ focus = "filters" => Filters!LoopGoesOn /\ Filters!FilterUnsubscribes /\ Filters!IdleDropped
=============================================================================
