------------------------------ MODULE Broadcast ------------------------------
(***************************************************************************)
(* How blocks and transactions leave a node towards one of its peers:      *)
(* BroadcastBlock, called for mined blocks and by the importer of the      *)
(* block fetcher, and BroadcastTransactions (eth/handler.go), the peer's   *)
(* bounded queues with the writers that empty them                         *)
(* (eth/protocols/eth/peer.go, broadcast.go).  Chain synchronisation is    *)
(* switched off in Cascadeth: a block that is not sent or announced does   *)
(* not reach the peer, and neither do the acks in it.                      *)
(***************************************************************************)
EXTENDS Integers, Sequences, FiniteSets, FiniteSetsExt

CONSTANTS
    Mined, Imported,    \* blocks, by the goroutine that broadcasts them
    Txs,
    maxKnownBlocks, maxQueuedBlocks, maxQueuedBlockAnns,
    maxQueued,          \* maxQueuedTxs and maxQueuedTxAnns
    maxPacket,          \* transactions that fit in one packet
    MaxTxEvents         \* bound: events of new transactions

Blocks == Mined \cup Imported
Loops == {"broadcast", "announce"}

BroadcastAssumption ==
    /\ IsFiniteSet(Blocks) /\ IsFiniteSet(Txs) /\ Mined \cap Imported = {}
    /\ maxKnownBlocks \in Nat /\ maxQueuedBlocks \in Nat /\ maxQueuedBlockAnns \in Nat
    /\ maxQueued \in Nat /\ maxPacket \in Nat \ {0} /\ MaxTxEvents \in Nat

VARIABLES
    insert,         \* insert[b]: what became of b at our own chain
    propagating,        \* propagating[b]: BroadcastBlock(b, true)
    announcing,     \* announcing[b]: BroadcastBlock(b, false)
    known,          \* p.knownBlocks
    queuedBlocks, queuedBlockAnns,
    writer,         \* broadcastBlocks runs
    sent, announced,        \* history: what was written to the peer, in order
    crossed,        \* history: one goroutine listed the peer before the other had marked b
    theirs,         \* history: the peer sent us b before either goroutine listed it
    pool,           \* transactions in the pool
    offer,          \* what txBroadcastLoop waits to hand over: [loop, txs]
    loop,           \* loop[l]: [queue, inflight, failed] of a transaction writer
    txEvents

stageVars == <<insert, propagating, announcing>>
queueVars == <<queuedBlocks, queuedBlockAnns, writer, sent, announced>>
blockVars == <<stageVars, known, queueVars, crossed, theirs>>
txVars == <<pool, offer, loop, txEvents>>
broadcastVars == <<blockVars, txVars>>

Nothing == [loop |-> "none", txs |-> <<>>]

BroadcastInit ==
    /\ insert = [b \in Blocks |-> "none"]
    /\ propagating = [b \in Blocks |-> "idle"] /\ announcing = [b \in Blocks |-> "idle"]
    /\ known = {}
    /\ queuedBlocks = <<>> /\ queuedBlockAnns = <<>>
    /\ writer = TRUE
    /\ sent = <<>> /\ announced = <<>> /\ crossed = {} /\ theirs = {}
    /\ pool = Txs
    /\ offer = Nothing
    /\ loop = [l \in Loops |-> [queue |-> <<>>, inflight |-> {}, failed |-> FALSE]]
    /\ txEvents = 0

------------------------------------------------------------------------------
(* Blocks.                                                                 *)

(* A full set loses a member chosen at random.                             *)
mark(b) ==
    IF Cardinality(known) >= maxKnownBlocks
    THEN \E x \in known : known' = (known \ {x}) \cup {b}
    ELSE known' = known \cup {b}

(* The stages of a goroutine that broadcasts: it does not run, has yet to  *)
(* look at knownBlocks, has listed the peer, or has queued the block and   *)
(* not yet marked it.                                                      *)
Stages == {"idle", "look", "listed", "queued"}
OnList == {"listed", "queued"}

(* The miner's loop: a block is announced once its propagation is over, and *)
(* before the next one is propagated.                                      *)
MinedBlock(b) ==
    /\ b \in Mined /\ insert[b] = "none"
    /\ \A c \in Mined : propagating[c] = "idle" /\ announcing[c] = "idle"
    /\ insert' = [insert EXCEPT ![b] = "in"]
    /\ propagating' = [propagating EXCEPT ![b] = "look"]
    /\ UNCHANGED <<announcing, known, queueVars, crossed, theirs, txVars>>

(* The importer propagates in a goroutine of its own what verifyHeader      *)
(* accepts (a future block it does not propagate), and goes on.  A block   *)
(* that was not inserted may come again; bound: not while it is still      *)
(* being broadcast.                                                        *)
ImportBlock(b) ==
    /\ b \in Imported /\ insert[b] \in {"none", "failed"}
    /\ propagating[b] = "idle" /\ announcing[b] = "idle"
    /\ insert' = [insert EXCEPT ![b] = "inserting"]
    /\ \E s \in {"look", "idle"} : propagating' = [propagating EXCEPT ![b] = s]
    /\ UNCHANGED <<announcing, known, queueVars, crossed, theirs, txVars>>

(* A block that was inserted is announced, in another goroutine; not one   *)
(* that failed, nor one that insertChain keeps for later (HasBlock).       *)
InsertChain(b) ==
    /\ b \in Imported /\ insert[b] = "inserting"
    /\ \/ /\ insert' = [insert EXCEPT ![b] = "in"]
          /\ announcing' = [announcing EXCEPT ![b] = "look"]
       \/ /\ insert' = [insert EXCEPT ![b] = "failed"]
          /\ UNCHANGED announcing
    /\ UNCHANGED <<propagating, known, queueVars, crossed, theirs, txVars>>

(* The propagation is over; the miner's loop goes on to announce.          *)
EndPropagation(b) ==
    /\ propagating' = [propagating EXCEPT ![b] = "idle"]
    /\ announcing' = IF b \in Mined THEN [announcing EXCEPT ![b] = "look"] ELSE announcing

(* peersWithoutBlock: the peer is on the list, or not.                     *)
Propagate(b) ==
    /\ propagating[b] = "look"
    /\ IF b \in known
       THEN EndPropagation(b) /\ UNCHANGED crossed
       ELSE /\ propagating' = [propagating EXCEPT ![b] = "listed"]
            /\ crossed' = crossed \cup {c \in {b} : announcing[b] \in OnList}
            /\ UNCHANGED announcing
    /\ UNCHANGED <<insert, known, queueVars, theirs, txVars>>

(* The parent is not, or no longer, in our chain ("dangling block").       *)
Dangling(b) ==
    /\ propagating[b] = "listed"
    /\ EndPropagation(b)
    /\ UNCHANGED <<insert, known, queueVars, crossed, theirs, txVars>>

(* A full queue drops the block, which is then not marked either.          *)
AsyncSendNewBlock(b) ==
    /\ propagating[b] = "listed"
    /\ IF Len(queuedBlocks) < maxQueuedBlocks
       THEN /\ queuedBlocks' = Append(queuedBlocks, b)
            /\ propagating' = [propagating EXCEPT ![b] = "queued"]
            /\ UNCHANGED announcing
       ELSE EndPropagation(b) /\ UNCHANGED queuedBlocks
    /\ UNCHANGED <<insert, known, queuedBlockAnns, writer, sent, announced, crossed, theirs,
                   txVars>>

(* The block is queued but not marked.                                     *)
AsyncSendNewBlockUnmarked(b) ==
    /\ propagating[b] = "queued"
    /\ EndPropagation(b)
    /\ UNCHANGED <<insert, known, queueVars, crossed, theirs, txVars>>

(* The writer may have written the block by now.                           *)
MarkPropagated(b) ==
    /\ propagating[b] = "queued"
    /\ mark(b)
    /\ EndPropagation(b)
    /\ UNCHANGED <<insert, queueVars, crossed, theirs, txVars>>

Announce(b) ==
    /\ announcing[b] = "look"
    /\ announcing' = [announcing EXCEPT ![b] = IF b \in known THEN "idle" ELSE "listed"]
    /\ crossed' = crossed \cup {c \in {b} : b \notin known /\ propagating[b] \in OnList}
    /\ UNCHANGED <<insert, propagating, known, queueVars, theirs, txVars>>

AsyncSendNewBlockHash(b) ==
    /\ announcing[b] = "listed"
    /\ IF Len(queuedBlockAnns) < maxQueuedBlockAnns
       THEN /\ queuedBlockAnns' = Append(queuedBlockAnns, b)
            /\ announcing' = [announcing EXCEPT ![b] = "queued"]
       ELSE /\ announcing' = [announcing EXCEPT ![b] = "idle"]
            /\ UNCHANGED queuedBlockAnns
    /\ UNCHANGED <<insert, propagating, known, queuedBlocks, writer, sent, announced, crossed, theirs,
                   txVars>>

MarkAnnounced(b) ==
    /\ announcing[b] = "queued"
    /\ mark(b)
    /\ announcing' = [announcing EXCEPT ![b] = "idle"]
    /\ UNCHANGED <<insert, propagating, queueVars, crossed, theirs, txVars>>

(* Blocks that were written to the peer or wait in a queue to be, and      *)
(* those of which that holds for the hash.                                 *)
InFull == sent \o queuedBlocks
ByHash == announced \o queuedBlockAnns

(* The peer sends or announces a block to us, possibly one of our own that *)
(* it has from another peer: it is marked.                                 *)
FromPeer(b) ==
    /\ b \in Mined => insert[b] = "in"
    /\ mark(b)
    /\ theirs' = theirs \cup {c \in {b} : /\ propagating[b] \notin OnList
                                          /\ announcing[b] \notin OnList
                                          /\ b \notin Range(InFull) \cup Range(ByHash)}
    /\ UNCHANGED <<stageVars, queueVars, crossed, txVars>>

(* broadcastBlocks writes from either queue; an error ends it.             *)
SendNewBlock ==
    /\ writer /\ queuedBlocks # <<>>
    /\ queuedBlocks' = Tail(queuedBlocks)
    /\ mark(Head(queuedBlocks))
    /\ sent' = Append(sent, Head(queuedBlocks))
    /\ UNCHANGED <<stageVars, queuedBlockAnns, writer, announced, crossed, theirs,
                   txVars>>

SendNewBlockHashes ==
    /\ writer /\ queuedBlockAnns # <<>>
    /\ queuedBlockAnns' = Tail(queuedBlockAnns)
    /\ mark(Head(queuedBlockAnns))
    /\ announced' = Append(announced, Head(queuedBlockAnns))
    /\ UNCHANGED <<stageVars, queuedBlocks, writer, sent, crossed, theirs, txVars>>

SendFails ==
    /\ writer /\ queuedBlocks \o queuedBlockAnns # <<>>
    /\ writer' = FALSE
    /\ UNCHANGED <<stageVars, known, queuedBlocks, queuedBlockAnns, sent, announced, crossed, theirs,
                   txVars>>

------------------------------------------------------------------------------
(* Transactions.  A writer is in its select; before it gets there it       *)
(* starts a send in the background, if none is running and there is        *)
(* something to send.                                                      *)

(* The packet is cut off at its size; hashes that have left the pool are    *)
(* taken off the queue and do not count.                                    *)
PacketEnd(q) ==
    Min({n \in 0 .. Len(q) : n = Len(q) \/ Cardinality({i \in 1 .. n : q[i] \in pool}) = maxPacket})

StartSend(r) ==
    LET n == PacketEnd(r.queue) IN
    IF r.inflight # {} THEN r
    ELSE [r EXCEPT !.inflight = {r.queue[i] : i \in 1 .. n} \cap pool,
                   !.queue = SubSeq(r.queue, n + 1, Len(r.queue))]

(* A new event for txBroadcastLoop: the peer is among those that get the   *)
(* transactions, or among those that get an announcement.                  *)
BroadcastTransactions(l, ts) ==
    /\ offer = Nothing /\ txEvents < MaxTxEvents
    /\ offer' = [loop |-> l, txs |-> ts]
    /\ txEvents' = txEvents + 1
    /\ UNCHANGED <<blockVars, pool, loop>>

Capped(q) == IF Len(q) > maxQueued THEN SubSeq(q, Len(q) - maxQueued + 1, Len(q)) ELSE q

(* The writer accepts, also while a send is under way; after a failure it  *)
(* throws everything away.                                                 *)
AsyncSendTransactions(l) ==
    /\ offer.loop = l
    /\ offer' = Nothing
    /\ IF loop[l].failed
       THEN UNCHANGED loop
       ELSE loop' = [loop EXCEPT ![l] =
                StartSend([loop[l] EXCEPT !.queue = Capped(@ \o offer.txs)])]
    /\ UNCHANGED <<blockVars, pool, txEvents>>

SendDone(l) ==
    /\ loop[l].inflight # {} /\ ~loop[l].failed
    /\ loop' = [loop EXCEPT ![l] = StartSend([loop[l] EXCEPT !.inflight = {}])]
    /\ UNCHANGED <<blockVars, pool, offer, txEvents>>

(* The background send fails: done is never closed, no further send starts. *)
TxSendFails(l) ==
    /\ loop[l].inflight # {} /\ ~loop[l].failed
    /\ loop' = [loop EXCEPT ![l].failed = TRUE]
    /\ UNCHANGED <<blockVars, pool, offer, txEvents>>

LeavePool(t) ==
    /\ t \in pool
    /\ pool' = pool \ {t}
    /\ UNCHANGED <<blockVars, offer, loop, txEvents>>

Batches == {<<t>> : t \in Txs} \cup {p \in Txs \X Txs : p[1] # p[2]}

BlockStep ==
    \/ \E b \in Blocks :
        \/ MinedBlock(b) \/ ImportBlock(b) \/ InsertChain(b)
        \/ Propagate(b) \/ Dangling(b) \/ AsyncSendNewBlock(b) \/ MarkPropagated(b)
        \/ Announce(b) \/ AsyncSendNewBlockHash(b) \/ MarkAnnounced(b)
        \/ FromPeer(b)
    \/ SendNewBlock \/ SendNewBlockHashes \/ SendFails

TxStep ==
    \/ \E l \in Loops :
        \/ \E ts \in Batches : BroadcastTransactions(l, ts)
        \/ AsyncSendTransactions(l) \/ SendDone(l) \/ TxSendFails(l)
    \/ \E t \in Txs : LeavePool(t)

BroadcastNext == BlockStep \/ TxStep

BroadcastSpec == BroadcastInit /\ [][BroadcastNext]_broadcastVars

(* The goroutines run.  A write to the connection may take for ever.        *)
BroadcastFairness ==
    /\ \A b \in Blocks :
        /\ WF_broadcastVars(Propagate(b)) /\ WF_broadcastVars(AsyncSendNewBlock(b) \/ Dangling(b))
        /\ WF_broadcastVars(MarkPropagated(b)) /\ WF_broadcastVars(Announce(b))
        /\ WF_broadcastVars(AsyncSendNewBlockHash(b)) /\ WF_broadcastVars(MarkAnnounced(b))
    /\ \A l \in Loops : WF_broadcastVars(AsyncSendTransactions(l))

BroadcastLiveSpec == BroadcastSpec /\ BroadcastFairness

(* The connection is slow, but what is queued is written or the connection  *)
(* fails.                                                                   *)
BroadcastWriteSpec ==
    /\ BroadcastLiveSpec
    /\ WF_broadcastVars(SendNewBlock \/ SendFails) /\ WF_broadcastVars(SendNewBlockHashes \/ SendFails)

------------------------------------------------------------------------------
(* The types of what the broadcasts and the writers share.                  *)
BroadcastTypeOK ==
    /\ insert \in [Blocks -> {"none", "inserting", "failed", "in"}]
    /\ propagating \in [Blocks -> Stages] /\ announcing \in [Blocks -> Stages]
    /\ known \subseteq Blocks
    /\ queuedBlocks \in Seq(Blocks) /\ queuedBlockAnns \in Seq(Blocks)
    /\ sent \in Seq(Blocks) /\ announced \in Seq(Blocks)
    /\ writer \in BOOLEAN /\ crossed \subseteq Blocks /\ theirs \subseteq Blocks
    /\ pool \subseteq Txs
    /\ offer \in [loop : Loops \cup {"none"}, txs : Seq(Txs)]
    /\ loop \in [Loops -> [queue : Seq(Txs), inflight : SUBSET Txs, failed : BOOLEAN]]
    /\ txEvents \in Nat

(* As long as knownBlocks does not overflow, and at every interleaving of   *)
(* the two goroutines of a block with each other, the writer and what the   *)
(* peer sends: a block is on its way to a peer, or was written to it, at    *)
(* most once in full and at most once as a hash; both only if it was        *)
(* imported and one goroutine listed the peer before the other had marked   *)
(* the block; and neither if the peer sent it before anyone listed it.      *)
AtMostOnce ==
    Cardinality(Blocks) < maxKnownBlocks =>
        /\ IsInjective(InFull) /\ IsInjective(ByHash)
        /\ Range(InFull) \cap Range(ByHash) \subseteq crossed \cap Imported
        /\ theirs \cap (Range(InFull) \cup Range(ByHash)) = {}

(* Why it holds: what was queued is known or about to be marked, and a      *)
(* goroutine that has yet to queue its block finds it queued by the other   *)
(* one at most.                                                             *)
KnownInv ==
    Cardinality(Blocks) < maxKnownBlocks =>
        /\ \A b \in Range(InFull) : /\ b \in known \/ propagating[b] = "queued"
                                    /\ propagating[b] # "listed"
                                    /\ announcing[b] = "listed" => b \in crossed
        /\ \A b \in Range(ByHash) : /\ b \in known \/ announcing[b] = "queued"
                                    /\ announcing[b] # "listed"
                                    /\ propagating[b] = "listed" => b \in crossed
        /\ \A b \in Blocks : propagating[b] \in OnList /\ announcing[b] \in OnList => b \in crossed
        /\ crossed \subseteq Imported
        /\ \A b \in Imported : insert[b] = "inserting" => announcing[b] = "idle"
        /\ \A b \in Mined : propagating[b] = "idle" \/ announcing[b] = "idle"
        /\ \A b \in theirs :
            b \in known /\ propagating[b] \notin OnList /\ announcing[b] \notin OnList

(* A writer's queue stays within its limit, and hashes wait in it only      *)
(* while a send is under way, whose end will start the next: none is left   *)
(* waiting because the ones before it have left the pool.                   *)
QueueMoves ==
    \A l \in Loops :
        /\ Len(loop[l].queue) <= maxQueued
        /\ loop[l].queue # <<>> => loop[l].inflight # {}

(* A block is written to a peer at most once in full and at most once as a  *)
(* hash, both only if the two goroutines of an import crossed, and not at   *)
(* all if the peer had sent it before (AsyncSendNewBlock,                   *)
(* AsyncSendNewBlockHash); and hashes of transactions wait in a writer's    *)
(* queue only while a send is under way (announceTransactions).             *)
BroadcastSound == BroadcastTypeOK /\ KnownInv /\ AtMostOnce /\ QueueMoves

(* A connection that takes for ever to write to does not hold up the loop   *)
(* that broadcasts to all peers.                                            *)
TxLoopGoesOn == offer # Nothing ~> offer = Nothing

(* "Transfer to all peers" (BroadcastBlock): a block the node mined is sent *)
(* or announced to the peer, unless writing to it fails or it has the block. *)
MinedReachesPeer ==
    \A b \in Mined :
        (insert[b] = "in" /\ propagating[b] = "idle" /\ announcing[b] = "idle")
            ~> (~writer \/ b \in known \cup Range(sent \o announced))
==============================================================================
