-------------------------------- MODULE Peers --------------------------------
(***************************************************************************)
(* The life of a connection in the eth handler: runEthPeer registers it in *)
(* the peer set and the downloader and serves it, removePeer takes it out  *)
(* again, called when runEthPeer returns and by the fetchers and timers    *)
(* that want to be rid of a peer, and Stop closes everything               *)
(* (eth/handler.go, eth/peerset.go).  Peers are looked up by their id, and *)
(* a node that comes back has the same id on a new connection.             *)
(*                                                                         *)
(* The snap extension is not negotiated: the network runs without it.      *)
(***************************************************************************)
EXTENDS Integers, FiniteSets

CONSTANTS
    Conns,          \* connections, in the course of time
    IdOf,           \* IdOf[c]: the id of the node at the other end
    Trusted,        \* connections that maxPeers does not concern
    maxPeers,
    NoConn,
    MaxDrops        \* bound: calls of removePeer by fetchers and timers

PeersAssumption ==
    /\ NoConn \notin Conns /\ maxPeers \in Nat /\ MaxDrops \in Nat
    /\ Conns \cap (1 .. MaxDrops) = {}

Ids == {IdOf[c] : c \in Conns}
Removals == Conns \cup (1 .. MaxDrops)

VARIABLES
    stage,          \* stage[c]: where runEthPeer of c is
    peers,          \* peers[id]: the registered connection, or NoConn
    downloader,     \* ids registered in the downloader
    removal,        \* removal[k]: the removePeer call k, [id, conn, at]
    disconnected,   \* connections that were told to disconnect
    closed,         \* ps.closed
    stopping,       \* h.Stop was called
    heard           \* ids that messages were handled for

peersVars == <<stage, peers, downloader, removal, disconnected, closed, stopping, heard>>

NoCall == [id |-> NoConn, conn |-> NoConn, at |-> "none"]

PeersInit ==
    /\ stage = [c \in Conns |-> "new"]
    /\ peers = [i \in Ids |-> NoConn]
    /\ downloader = {}
    /\ removal = [k \in Removals |-> NoCall]
    /\ disconnected = {}
    /\ closed = FALSE /\ stopping = FALSE
    /\ heard = {}

Registered == {i \in Ids : peers[i] # NoConn}

Go(c, from, to) == stage[c] = from /\ stage' = [stage EXCEPT ![c] = to]

(* The p2p server runs one connection per id: the next begins when the     *)
(* handler of the one before has returned.                                 *)
Connect(c) ==
    /\ Go(c, "new", "handshake")
    /\ \A d \in Conns \ {c} : IdOf[d] = IdOf[c] => stage[d] \in {"new", "gone"}
    /\ UNCHANGED <<peers, downloader, removal, disconnected, closed, stopping, heard>>

(* The handshake, which may fail, and the check of the number of peers.    *)
Handshake(c) ==
    /\ \/ Go(c, "handshake", "gone")
       \/ /\ c \in Trusted \/ Cardinality(Registered) < maxPeers
          /\ Go(c, "handshake", "checked")
    /\ UNCHANGED <<peers, downloader, removal, disconnected, closed, stopping, heard>>

(* A set that was closed takes new peers.                                  *)
registerPeerLate(c) ==
    IF peers[IdOf[c]] # NoConn
    THEN Go(c, "checked", "gone") /\ UNCHANGED peers
    ELSE Go(c, "checked", "registered") /\ peers' = [peers EXCEPT ![IdOf[c]] = c]

registerPeer(c) ==
    IF closed \/ peers[IdOf[c]] # NoConn
    THEN Go(c, "checked", "gone") /\ UNCHANGED peers
    ELSE Go(c, "checked", "registered") /\ peers' = [peers EXCEPT ![IdOf[c]] = c]

Register(c) ==
    /\ stage[c] = "checked"
    /\ registerPeer(c)
    /\ UNCHANGED <<downloader, removal, disconnected, closed, stopping, heard>>

(* The peer must still be registered; the downloader refuses an id it has. *)
(* An error ends runEthPeer.                                               *)
RegisterDownloader(c) ==
    /\ IF peers[IdOf[c]] = NoConn \/ IdOf[c] \in downloader
       THEN Go(c, "registered", "returning") /\ UNCHANGED downloader
       ELSE Go(c, "registered", "serving") /\ downloader' = downloader \cup {IdOf[c]}
    /\ heard' = heard \cup {IdOf[c]}
    /\ UNCHANGED <<peers, removal, disconnected, closed, stopping>>

(* The message handler returns: the connection was closed by us, or by the *)
(* other side.                                                             *)
Serve(c) ==
    /\ Go(c, "serving", "returning")
    /\ UNCHANGED <<peers, downloader, removal, disconnected, closed, stopping, heard>>

(* removePeer: the lookup, after which the call goes on with the id and    *)
(* with the connection it found.                                           *)
Lookup(k, i) ==
    removal' = IF peers[i] = NoConn THEN removal
               ELSE [removal EXCEPT ![k] = [id |-> i, conn |-> peers[i], at |-> "found"]]

(* The deferred call when runEthPeer returns; without a peer it does       *)
(* nothing.                                                                *)
Return(c) ==
    /\ Lookup(c, IdOf[c])
    /\ Go(c, "returning", IF peers[IdOf[c]] = NoConn THEN "gone" ELSE "removing")
    /\ UNCHANGED <<peers, downloader, disconnected, closed, stopping, heard>>

(* A fetcher, the downloader or the checkpoint timer drops a peer by the   *)
(* id that a message of it came with, in a goroutine of its own.           *)
Drop(k, i) ==
    /\ k \in 1 .. MaxDrops
    /\ removal[k].at = "none"
    /\ i \in heard /\ peers[i] # NoConn
    /\ Lookup(k, i)
    /\ UNCHANGED <<stage, peers, downloader, disconnected, closed, stopping, heard>>

To(k, from, to) ==
    removal[k].at = from /\ removal' = [removal EXCEPT ![k].at = to]

(* h.downloader.UnregisterPeer and h.txFetcher.Drop, by id.                *)
RemoveDownloader(k) ==
    /\ To(k, "found", "unregister")
    /\ downloader' = downloader \ {removal[k].id}
    /\ UNCHANGED <<stage, peers, disconnected, closed, stopping, heard>>

(* The peer is disconnected and stays in the set.                         *)
RemovePeerNot(k) ==
    /\ To(k, "unregister", "disconnect")
    /\ UNCHANGED <<stage, peers, downloader, disconnected, closed, stopping, heard>>

(* h.peers.unregisterPeer, by id; an error is only logged.                 *)
RemovePeer(k) ==
    /\ To(k, "unregister", "disconnect")
    /\ peers' = [peers EXCEPT ![removal[k].id] = NoConn]
    /\ UNCHANGED <<stage, downloader, disconnected, closed, stopping, heard>>

(* The connection found at the beginning is told to disconnect; the        *)
(* deferred call ends runEthPeer.                                          *)
Disconnect(k) ==
    /\ To(k, "disconnect", "done")
    /\ disconnected' = disconnected \cup {removal[k].conn}
    /\ stage' = IF k \in Conns THEN [stage EXCEPT ![k] = "gone"] ELSE stage
    /\ UNCHANGED <<peers, downloader, closed, stopping, heard>>

(* Stop: the loops end; then the set is closed and its peers are           *)
(* disconnected, and Stop waits for all handlers.  New connections are     *)
(* still made, the p2p server stops later.                                 *)
StopHandler ==
    /\ ~stopping /\ stopping' = TRUE
    /\ UNCHANGED <<stage, peers, downloader, removal, disconnected, closed, heard>>

ClosePeers ==
    /\ stopping /\ ~closed
    /\ closed' = TRUE
    /\ disconnected' = disconnected \cup {peers[i] : i \in Registered}
    /\ UNCHANGED <<stage, peers, downloader, removal, stopping, heard>>

PeersNext ==
    \/ \E c \in Conns : \/ Connect(c) \/ Handshake(c) \/ Register(c)
                        \/ RegisterDownloader(c) \/ Serve(c) \/ Return(c)
    \/ \E k \in Removals, i \in Ids : Drop(k, i)
    \/ \E k \in Removals : RemoveDownloader(k) \/ RemovePeer(k) \/ Disconnect(k)
    \/ StopHandler \/ ClosePeers

PeersSpec == PeersInit /\ [][PeersNext]_peersVars

(* Handlers and calls make progress.  A connection is served until one of  *)
(* its ends closes it: only a disconnected one must come to its end.       *)
PeersFairness ==
    /\ WF_peersVars(ClosePeers)
    /\ \A c \in Conns :
        /\ WF_peersVars(Handshake(c)) /\ WF_peersVars(Register(c))
        /\ WF_peersVars(RegisterDownloader(c)) /\ WF_peersVars(Return(c))
        /\ WF_peersVars(c \in disconnected /\ Serve(c))
    /\ \A k \in Removals :
        WF_peersVars(RemoveDownloader(k)) /\ WF_peersVars(RemovePeer(k)) /\ WF_peersVars(Disconnect(k))

PeersLiveSpec == PeersSpec /\ PeersFairness

------------------------------------------------------------------------------
PeersTypeOK ==
    /\ stage \in [Conns -> {"new", "handshake", "checked", "registered", "serving",
                            "returning", "removing", "gone"}]
    /\ peers \in [Ids -> Conns \cup {NoConn}]
    /\ downloader \subseteq Ids /\ heard \subseteq Ids /\ disconnected \subseteq Conns
    /\ removal \in [Removals -> [id: Ids \cup {NoConn}, conn: Conns \cup {NoConn},
                              at: {"none", "found", "unregister", "disconnect", "done"}]]
    /\ closed \in BOOLEAN /\ stopping \in BOOLEAN

Active(c) == stage[c] \notin {"new", "gone"}

(* The deferred removal of a connection is under way exactly while its       *)
(* handler is removing, and works on the id of the connection.               *)
Removing(c) ==
    /\ removal[c].at # "none" => removal[c].id = IdOf[c] /\ stage[c] \in {"removing", "gone"}
    /\ stage[c] = "removing" => removal[c].at \in {"found", "unregister", "disconnect"}
    /\ removal[c].at = "disconnect" => peers[IdOf[c]] = NoConn \/ stage[c] = "gone"

(* What keeps the set free of ghosts: a registered connection is under its   *)
(* own id, between its registration and the end of its removal; the server    *)
(* runs one connection per id; an id stays free from the removal of a         *)
(* connection until its handler has returned; a removal in progress has found *)
(* a connection.                                                              *)
RegistryInv ==
    /\ \A i \in Ids : peers[i] # NoConn =>
          /\ IdOf[peers[i]] = i
          /\ stage[peers[i]] \in {"registered", "serving", "returning", "removing"}
    /\ \A c, d \in Conns : Active(c) /\ Active(d) /\ IdOf[c] = IdOf[d] => c = d
    /\ \A c \in Conns : Removing(c)
    /\ \A k \in Removals : removal[k].at # "none" => removal[k].conn # NoConn

(* A connection whose handler has returned is in the peer set of its id no *)
(* more, whoever else removed or registered peers of that id meanwhile:    *)
(* broadcasts never go to a dead connection.                               *)
NoGhosts == \A i \in Ids : peers[i] # NoConn => stage[peers[i]] # "gone"

(* The peer set has no ghosts, and what keeps it free of them holds at      *)
(* every interleaving of runEthPeer with removePeer and Stop.               *)
PeersSound == PeersTypeOK /\ RegistryInv /\ NoGhosts

(* A connection that is served though the set does not know it: removePeer  *)
(* of an earlier connection of the id came in between.                      *)
Lost(c) == stage[c] = "serving" /\ c \notin disconnected /\ peers[IdOf[c]] # c

(* When the node stops every handler returns, also those that were between  *)
(* their handshake and their registration when the set was closed; only one *)
(* whose connection was taken out of the set without being closed may go on. *)
HandlerStops == stopping ~> (\A c \in Conns : stage[c] \in {"new", "gone"} \/ Lost(c))

(* "Disconnect existing sessions": Stop, which waits for all handlers,      *)
(* returns.                                                                 *)
HandlerAlwaysStops == stopping ~> (\A c \in Conns : stage[c] \in {"new", "gone"})

Busy(c) == \E k \in Removals : removal[k].id = IdOf[c] /\ removal[k].at \notin {"none", "done"}

(* "removePeer unregisters a peer from the downloader and fetchers, removes *)
(* it from the set of tracked peers and closes the network connection to    *)
(* it": when no call is in progress, a connection that is served and was    *)
(* not told to disconnect is the registered one of its id.                  *)
ServedIsRegistered ==
    \A c \in Conns :
        stage[c] = "serving" /\ c \notin disconnected /\ ~Busy(c)
            => peers[IdOf[c]] = c /\ IdOf[c] \in downloader

==============================================================================
