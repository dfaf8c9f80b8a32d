------------------------------- MODULE Server -------------------------------
(* The peer-to-peer server of a node (p2p/server.go) and its dial scheduler *)
(* (p2p/dial.go): two loops that exchange rendezvous messages, one           *)
(* goroutine per dial or accepted connection, and one per peer.              *)
(*                                                                           *)
(* A connection record is the goroutine that sets it up: a dial task or an   *)
(* accepted connection. Its stages are "dial" (tasks only), "enc" (running   *)
(* the encryption handshake), "post" (waiting for the first check), "proto", *)
(* "add" (waiting for the second) and "done". A static task has the address  *)
(* it dials (dest); the scheduler may have dropped it from its list since    *)
(* (listed). Times are left out: an entry of the dial history may expire     *)
(* whenever the scheduler waits.                                             *)
EXTENDS Naturals, Integers, FiniteSets, FiniteSetsExt

CONSTANTS Nodes,          \* remote nodes, numbers
          StaticNodes,    \* nodes that are configured or added as static
          Located,        \* the static nodes whose address is configured
          Resolved,       \* what discovery may say of a node: subset of {"tcp", "udp"}
          Ops,            \* the calls of this instance
          MaxPeers, maxDialPeers, maxActiveDials,
          MaxInbound      \* connections set up at once by listenLoop (slots)

VARIABLES conns,        \* connections being set up
          peers,        \* run: the peers, node -> [kind, trusted]
          inboundCount, trusted,
          static,       \* dial scheduler: static nodes -> address of the task
          pool,         \* staticPool
          dialing, connected, dialPeers, history,
          phase         \* of the server: "up", "quit" (Stop called), "spin", "sched", "down"
vars == <<conns, peers, inboundCount, trusted, static, pool, dialing, connected, dialPeers, history, phase>>
runVars == <<peers, inboundCount, trusted>>
schedVars == <<static, pool, dialing, connected, dialPeers, history>>

Dialed(kind) == kind # "inbound"
Closed == phase # "up"                        \* srv.quit is closed
maxInboundConns == MaxPeers - maxDialPeers
ConnLimit == MaxInbound + maxActiveDials      \* names for connections, enough for all
fresh == Min((1 .. ConnLimit) \ {c.id : c \in conns})
NewConn(n, kind, stage) == [id |-> fresh, node |-> n, kind |-> kind, stage |-> stage, trusted |-> FALSE,
                            dest |-> "tcp", listed |-> FALSE]

-----------------------------------------------------------------------------
(* The dial scheduler. Its loop launches static dials before it waits again; *)
(* a state of it is a record s, and Settle is the top of the loop.            *)

sched == [static |-> static, pool |-> pool, dialing |-> dialing, connected |-> connected,
          dialPeers |-> dialPeers, history |-> history]

\* checkDial: a task without address is located later, one without TCP port is
\* not dialled.
checkDial(s, n, addr) ==
  addr # "udp" /\ n \notin s.dialing /\ n \notin s.connected /\ n \notin s.history

freeDialSlots(s) == Min({(maxDialPeers - s.dialPeers) * 2, maxActiveDials}) - Cardinality(s.dialing)

updateStaticPool(s, n) ==
  IF n \in DOMAIN s.static /\ checkDial(s, n, s.static[n]) THEN [s EXCEPT !.pool = @ \cup {n}] ELSE s

startDial(s, n) == [s EXCEPT !.history = @ \cup {n}, !.dialing = @ \cup {n}, !.pool = @ \ {n}]

Without(f, n) == [m \in DOMAIN f \ {n} |-> f[m]]

SetSched(s) ==
  /\ static' = s.static /\ pool' = s.pool /\ dialing' = s.dialing
  /\ connected' = s.connected /\ dialPeers' = s.dialPeers /\ history' = s.history

\* startStaticDials: random tasks of the pool, as many as there are slots. The
\* other connections of the new state are C.
Settle(s, C) ==
  LET n == Min({freeDialSlots(s), Cardinality(s.pool)})
      ids  == (1 .. ConnLimit) \ {c.id : c \in C}
      rank(x, S) == Cardinality({y \in S : y < x})
  IN  IF n <= 0 THEN SetSched(s) /\ conns' = C
      ELSE \E S \in kSubset(n, s.pool) :
             /\ SetSched([s EXCEPT !.history = @ \cup S, !.dialing = @ \cup S, !.pool = @ \ S])
             /\ conns' = C \cup {[id |-> CHOOSE i \in ids : rank(i, ids) = rank(x, S), node |-> x,
                                  kind |-> "static", stage |-> "dial", trusted |-> FALSE,
                                  dest |-> s.static[x], listed |-> TRUE] : x \in S}

\* A candidate of discovery; the channel is only read when slots are left.
NodesIn(n) ==
  /\ phase # "down" /\ freeDialSlots(sched) > 0
  /\ checkDial(sched, n, "tcp")
  /\ Settle(startDial(sched, n), conns \cup {NewConn(n, "dyn", "dial")})
  /\ UNCHANGED <<runVars, phase>>

\* A task that ends without the node going back to the pool.
TaskForgotten(c) ==
  /\ phase # "down" /\ Dialed(c.kind) /\ c.stage = "done"
  /\ Settle([sched EXCEPT !.dialing = @ \ {c.node}], conns \ {c})
  /\ UNCHANGED <<runVars, phase>>

\* A dial task ends.
TaskDone(c) ==
  /\ phase # "down" /\ Dialed(c.kind) /\ c.stage = "done"
  /\ Settle(updateStaticPool([sched EXCEPT !.dialing = @ \ {c.node}], c.node), conns \ {c})
  /\ UNCHANGED <<runVars, phase>>

addStatic(n) ==
  /\ "static" \in Ops /\ phase = "up" /\ n \notin DOMAIN static
  /\ LET addr == IF n \in Located THEN "tcp" ELSE "none"
         s    == [sched EXCEPT !.static = [m \in DOMAIN static \cup {n} |-> IF m = n THEN addr ELSE static[m]]]
     IN  Settle(updateStaticPool(s, n), conns)
  /\ UNCHANGED <<runVars, phase>>

\* A task that runs goes on.
removeStatic(n) ==
  /\ "static" \in Ops /\ phase = "up" /\ n \in DOMAIN static
  /\ Settle([sched EXCEPT !.static = Without(static, n), !.pool = pool \ {n}],
            {IF c.node = n THEN [c EXCEPT !.listed = FALSE] ELSE c : c \in conns})
  /\ UNCHANGED <<runVars, phase>>

\* An expiry that does not look at the static nodes.
ExpireOnly(n) ==
  /\ phase # "down" /\ n \in history
  /\ Settle([sched EXCEPT !.history = @ \ {n}], conns)
  /\ UNCHANGED <<runVars, phase>>

expireHistory(n) ==
  /\ phase # "down" /\ n \in history
  /\ Settle(updateStaticPool([sched EXCEPT !.history = @ \ {n}], n), conns)
  /\ UNCHANGED <<runVars, phase>>

peerAdded(c) ==
  [sched EXCEPT !.connected = @ \cup {c.node}, !.pool = @ \ {c.node},
                !.dialPeers = IF Dialed(c.kind) THEN @ + 1 ELSE @]

peerRemoved(n, kind) ==
  updateStaticPool([sched EXCEPT !.connected = @ \ {n},
                                 !.dialPeers = IF Dialed(kind) THEN @ - 1 ELSE @], n)

-----------------------------------------------------------------------------
(* Dial tasks and connections. *)

Step(c, stage) == conns' = (conns \ {c}) \cup {[c EXCEPT !.stage = stage]}

\* A static task without address asks discovery first; the answer replaces the
\* address of that task, not of one added for the node since. A failed dial of a
\* static task asks once more.
resolve(c) ==
  /\ c.stage = "dial" /\ c.kind = "static"
  /\ \E addr \in Resolved :
       /\ conns' = (conns \ {c}) \cup {[c EXCEPT !.dest = addr]}
       /\ static' = IF c.listed THEN [static EXCEPT ![c.node] = addr] ELSE static
  /\ UNCHANGED <<pool, dialing, connected, dialPeers, history, runVars, phase>>

DialFails(c) ==
  /\ c.stage = "dial"
  /\ Step(c, "done")
  /\ UNCHANGED <<runVars, schedVars, phase>>

\* setupConn is entered only while the server runs.
DialConnects(c) ==
  /\ c.stage = "dial" /\ c.dest = "tcp"
  /\ Step(c, IF Closed THEN "done" ELSE "enc")
  /\ UNCHANGED <<runVars, schedVars, phase>>

\* listenLoop takes a slot and a connection.
Accept(n) ==
  /\ "inbound" \in Ops /\ phase = "up"
  /\ Cardinality({c \in conns : c.kind = "inbound"}) < MaxInbound
  /\ conns' = conns \cup {NewConn(n, "inbound", "enc")}
  /\ UNCHANGED <<runVars, schedVars, phase>>

\* A handshake succeeds or fails; both have timeouts.
Handshake(c, ok) ==
  /\ c.stage \in {"enc", "proto"}
  /\ Step(c, IF ~ok THEN "done" ELSE IF c.stage = "enc" THEN "post" ELSE "add")
  /\ UNCHANGED <<runVars, schedVars, phase>>

\* checkpoint returns when the server quits.
CheckpointQuits(c) ==
  /\ Closed /\ c.stage \in {"post", "add"}
  /\ Step(c, "done")
  /\ UNCHANGED <<runVars, schedVars, phase>>

\* The slot goes back to listenLoop.
InboundDone(c) ==
  /\ c.kind = "inbound" /\ c.stage = "done"
  /\ conns' = conns \ {c}
  /\ UNCHANGED <<runVars, schedVars, phase>>

-----------------------------------------------------------------------------
(* The run loop. *)

Running == phase \in {"up", "quit"}

postHandshakeChecks(c) ==
  /\ ~c.trusted => Cardinality(DOMAIN peers) < MaxPeers
  /\ ~c.trusted /\ c.kind = "inbound" => inboundCount < maxInboundConns
  /\ c.node \notin DOMAIN peers

\* The first check; the trusted flag is set before it.
PostHandshake(c) ==
  /\ Running /\ c.stage = "post"
  /\ LET d == [c EXCEPT !.trusted = c.node \in trusted]
     IN  conns' = (conns \ {c}) \cup {[d EXCEPT !.stage = IF postHandshakeChecks(d) THEN "proto" ELSE "done"]}
  /\ UNCHANGED <<runVars, schedVars, phase>>

Admit(c) ==
  /\ peers' = [n \in DOMAIN peers \cup {c.node} |->
                 IF n = c.node THEN [kind |-> c.kind, trusted |-> c.trusted] ELSE peers[n]]
  /\ inboundCount' = IF c.kind = "inbound" THEN inboundCount + 1 ELSE inboundCount
  /\ Settle(peerAdded(c), (conns \ {c}) \cup {[c EXCEPT !.stage = "done"]})

\* The second check repeats the first, since the peers may have changed.
AddPeer(c) ==
  /\ Running /\ c.stage = "add"
  /\ IF postHandshakeChecks(c) THEN Admit(c)
     ELSE Step(c, "done") /\ UNCHANGED <<peers, inboundCount, schedVars>>
  /\ UNCHANGED <<trusted, phase>>

\* A peer's protocols have ended. While the server spins down the peer is only
\* taken off the map.
DelPeer(n) ==
  /\ Running /\ n \in DOMAIN peers
  /\ peers' = Without(peers, n)
  /\ inboundCount' = IF peers[n].kind = "inbound" THEN inboundCount - 1 ELSE inboundCount
  /\ Settle(peerRemoved(n, peers[n].kind), conns)
  /\ UNCHANGED <<trusted, phase>>

SpinDelPeer(n) ==
  /\ phase = "spin" /\ n \in DOMAIN peers
  /\ peers' = Without(peers, n)
  /\ UNCHANGED <<conns, inboundCount, trusted, schedVars, phase>>

SetTrusted(n, yes) ==
  /\ "trust" \in Ops /\ phase = "up" /\ (n \in trusted) # yes
  /\ trusted' = IF yes THEN trusted \cup {n} ELSE trusted \ {n}
  /\ peers' = IF n \in DOMAIN peers THEN [peers EXCEPT ![n].trusted = yes] ELSE peers
  /\ UNCHANGED <<conns, inboundCount, schedVars, phase>>

\* Stop closes quit; the loop leaves its select, disconnects the peers and waits
\* for them, then stops the scheduler, which waits for the tasks it knows of.
Stop ==
  /\ "stop" \in Ops /\ phase = "up" /\ phase' = "quit"
  /\ UNCHANGED <<conns, runVars, schedVars>>

Quit ==
  /\ phase = "quit" /\ phase' = "spin"
  /\ UNCHANGED <<conns, runVars, schedVars>>

StopScheduler ==
  /\ phase = "spin" /\ DOMAIN peers = {} /\ phase' = "sched"
  /\ UNCHANGED <<conns, runVars, schedVars>>

\* The scheduler's loop is over: only finished tasks are received.
SchedulerDrains(c) ==
  /\ phase = "sched" /\ Dialed(c.kind) /\ c.stage = "done" /\ dialing # {}
  /\ dialing' = dialing \ {c.node} /\ conns' = conns \ {c}
  /\ UNCHANGED <<runVars, static, pool, connected, dialPeers, history, phase>>

\* loopWG: the run loop has returned and listenLoop has all its slots back.
Stopped ==
  /\ phase = "sched" /\ dialing = {} /\ ~\E c \in conns : c.kind = "inbound"
  /\ phase' = "down"
  /\ UNCHANGED <<conns, runVars, schedVars>>

-----------------------------------------------------------------------------
Init ==
  /\ conns = {} /\ peers = <<>> /\ inboundCount = 0 /\ trusted = {}
  /\ static = <<>> /\ pool = {} /\ dialing = {} /\ connected = {} /\ dialPeers = 0 /\ history = {}
  /\ phase = "up"

ConnStep(c) ==
  \/ resolve(c) \/ DialFails(c) \/ DialConnects(c)
  \/ \E ok \in BOOLEAN : Handshake(c, ok)
  \/ CheckpointQuits(c) \/ InboundDone(c) \/ PostHandshake(c) \/ AddPeer(c)
  \/ SchedulerDrains(c)

Next ==
  \/ \E c \in conns : ConnStep(c) \/ (phase # "sched" /\ TaskDone(c))
  \/ \E n \in Nodes : \/ Accept(n) \/ DelPeer(n) \/ SpinDelPeer(n)
                      \/ \E yes \in BOOLEAN : SetTrusted(n, yes)
                      \/ phase # "sched" /\ (NodesIn(n) \/ expireHistory(n))
  \/ \E n \in StaticNodes : addStatic(n) \/ removeStatic(n)
  \/ Stop \/ Quit \/ StopScheduler \/ Stopped

Spec == Init /\ [][Next]_vars

\* Dials and handshakes have timeouts, history entries expire, goroutines that
\* can go on do, and a disconnected peer's protocols return.
Moves(i) == \E c \in conns :
  /\ c.id = i
  /\ \/ DialFails(c) \/ DialConnects(c) \/ Handshake(c, TRUE) \/ Handshake(c, FALSE)
     \/ CheckpointQuits(c) \/ InboundDone(c) \/ PostHandshake(c) \/ AddPeer(c)
     \/ SchedulerDrains(c) \/ (phase # "sched" /\ TaskDone(c))
Fairness ==
  /\ \A i \in 1 .. ConnLimit : WF_vars(Moves(i))
  /\ \A n \in Nodes : WF_vars(phase # "sched" /\ expireHistory(n)) /\ WF_vars(SpinDelPeer(n))
  /\ WF_vars(Quit) /\ WF_vars(StopScheduler) /\ WF_vars(Stopped)
LiveSpec == Spec /\ Fairness

-----------------------------------------------------------------------------
(* What the server promises. *)

\* There is at most one dial per node and the scheduler knows exactly the tasks
\* that run: a second task would overwrite the first in dialing, which is then
\* freed while a dial goes on, and stop would not wait for it (startDial).
TasksKnown ==
  phase # "down" =>
    /\ dialing = {c.node : c \in {d \in conns : Dialed(d.kind)}}
    /\ \A c, d \in conns : Dialed(c.kind) /\ Dialed(d.kind) /\ c.node = d.node => c = d

\* The pool holds the static nodes that may be dialled, all of them and no other,
\* whatever ends, expires, connects or is removed while a dial is running.
PoolExact ==
  Running => pool = {n \in DOMAIN static : checkDial(sched, n, static[n])}

\* The scheduler and the run loop agree on the peers and on how they came, and
\* nobody is a peer beyond the limits unless trusted when checked, although two
\* connections of a node, or one too many, may pass the first check together.
PeersCounted ==
  Running =>
    /\ connected = DOMAIN peers
    /\ inboundCount = Cardinality({n \in DOMAIN peers : peers[n].kind = "inbound"})
    /\ dialPeers = Cardinality({n \in DOMAIN peers : Dialed(peers[n].kind)})
    /\ "trust" \notin Ops => Cardinality(DOMAIN peers) <= MaxPeers /\ inboundCount <= maxInboundConns

\* Dialled peers never exceed twice the share of the peers reserved for them,
\* which is what the slots add up to (freeDialSlots).
DialBound == Running => dialPeers <= 2 * maxDialPeers

\* "The dialer attempts keep these nodes connected at all times" (dial.go:87):
\* a static node is dialled or connected again and again, as long as it is
\* static, the server runs and there are slots.
StaticDialed ==
  \A n \in StaticNodes :
    []<>(n \in dialing \cup connected \/ n \notin DOMAIN static \/ freeDialSlots(sched) <= 0 \/ Closed)

\* Stop returns: it waits for peers, tasks and slots, and none of them waits for
\* a loop that is gone (runPeer's send to delpeer, checkpoint, doneCh).
StopEnds == phase = "quit" ~> phase = "down"
=============================================================================
