------------------------------- MODULE Worker -------------------------------
(***************************************************************************)
(* The block production pipeline of one node (miner/worker.go): newWorkLoop *)
(* asks for work, mainLoop fills a block and acks its transactions on the    *)
(* way, taskLoop hands it to the engine, the engine seals it when its time    *)
(* comes, resultLoop writes and broadcasts it.  The four goroutines meet at   *)
(* channels: newWorkCh and taskCh are unbuffered, resultCh is not.            *)
(*                                                                         *)
(* The pool and the state are reduced to what the miner sees of them: which  *)
(* transactions are pending, the expected ack nonce, and how an ack came out. *)
(***************************************************************************)
EXTENDS Transfers, Sequences, FiniteSets, Functions

CONSTANTS
    BlockGas,         \* gas limit of a block, in transfers
    resultQueueSize,  \* capacity of resultCh
    MaxHeight,        \* bound: height of the node's chain
    MaxBlocks,        \* bound: blocks the node writes
    MaxStarts         \* bound: times mining is switched on

ASSUME WorkerAssumption ==
    /\ BlockGas \in Nat /\ resultQueueSize \in Nat
    /\ MaxHeight \in Nat /\ MaxBlocks \in Nat /\ MaxStarts \in Nat

(* A block, as in Cascade: the lists of its ancestors and its own list.      *)
Path == Seq(Seq(Txs))
Blocks == [parent: Path, txs: Seq(Txs)]
PathOf(b) == Append(b.parent, b.txs)

None == [none |-> TRUE]
Sent == [sent |-> TRUE]
Environments == [parent: Path, txs: Seq(Txs), gas: Nat, uncles: Nat]

VARIABLES
    running,           \* w.running
    starts,            \* how often mining was switched on
    startCh,           \* tokens in w.startCh, or waiting to enter it
    chainHeadCh,       \* number of head events waiting in w.chainHeadCh
    txsCh,             \* transactions announced on w.txsCh
    newTxs,            \* w.newTxs is not zero
    newWork,           \* newWorkLoop's request: blocked on newWorkCh, or just Sent
    interrupt,         \* the signal left for the work in progress
    filling,           \* mainLoop is inside commitTransactions of commitNewWork
    offered,           \* transactions it has still to try
    current,           \* w.current
    prev,              \* the task taskLoop has seen last
    sealing,           \* the block the engine is about to seal
    resultCh,          \* sealed blocks on their way to resultLoop
    written,           \* blocks written and broadcast
    head,              \* CurrentBlock
    pending,           \* pool.pending
    expectedAckNonce   \* pool.expectedAckNonce

poolVars == <<pending, expectedAckNonce>>
eventVars == <<running, starts, startCh, chainHeadCh, txsCh, newTxs>>
workVars == <<newWork, interrupt, filling, offered, current>>
sealVars == <<prev, sealing, resultCh>>
vars == <<poolVars, eventVars, workVars, sealVars, written, head>>

Init ==
    /\ running = FALSE /\ starts = 0 /\ startCh = 1 /\ chainHeadCh = 0 /\ txsCh = {} /\ newTxs = FALSE
    /\ newWork = None /\ interrupt = "none" /\ filling = FALSE /\ offered = {}
    /\ current = None
    /\ prev = None /\ sealing = None /\ resultCh = <<>>
    /\ written = {} /\ head = <<>>
    /\ pending = {}
    /\ expectedAckNonce = [a \in Accounts |-> 0]

(* The type invariant of the pipeline: what each channel and each goroutine   *)
(* holds; resultCh never exceeds its capacity.                                *)
TypeOK ==
    /\ running \in BOOLEAN /\ newTxs \in BOOLEAN /\ filling \in BOOLEAN
    /\ startCh \in Nat /\ chainHeadCh \in Nat /\ starts \in Nat
    /\ txsCh \subseteq Txs /\ offered \subseteq Txs /\ pending \subseteq Txs
    /\ newWork \in {None, Sent} \cup [noempty: BOOLEAN]
    /\ interrupt \in {"none", "newHead", "resubmit"}
    /\ current \in {None} \cup Environments
    /\ prev \in {None} \cup Blocks /\ sealing \in {None} \cup Blocks
    /\ resultCh \in Seq(Blocks) /\ Len(resultCh) <= resultQueueSize
    /\ written \subseteq Blocks /\ head \in Path
    /\ expectedAckNonce \in [Accounts -> Nat]

-----------------------------------------------------------------------------
(* The pool, as far as the miner can tell: a transaction that is not acked    *)
(* yet follows the pending ones of its sender, or outbids its rival, and is    *)
(* announced; a reset drops what is acked.                                     *)
promoteTx(t) ==
    /\ t \notin pending
    /\ t.nonce >= expectedAckNonce[t.from]
    /\ t.nonce > expectedAckNonce[t.from] =>
          \E u \in pending : u.from = t.from /\ u.nonce + 1 = t.nonce
    /\ \A u \in pending : Conflict(t, u) => u.price < t.price
    /\ pending' = {u \in pending : ~Conflict(t, u)} \cup {t}
    /\ txsCh' = txsCh \cup {t}
    /\ UNCHANGED <<expectedAckNonce, running, starts, startCh, chainHeadCh, newTxs,
                   workVars, sealVars, written, head>>

demoteUnexecutables ==
    LET olds == {t \in pending : t.nonce < expectedAckNonce[t.from]} IN
    /\ olds # {}
    /\ pending' = pending \ olds
    /\ UNCHANGED <<expectedAckNonce, eventVars, workVars, sealVars, written, head>>

start ==
    /\ ~running
    /\ starts < MaxStarts
    /\ starts' = starts + 1
    /\ running' = TRUE /\ startCh' = startCh + 1
    /\ UNCHANGED <<poolVars, chainHeadCh, txsCh, newTxs, workVars, sealVars, written, head>>

stop ==
    /\ running
    /\ running' = FALSE
    /\ UNCHANGED <<poolVars, starts, startCh, chainHeadCh, txsCh, newTxs, workVars, sealVars, written, head>>

-----------------------------------------------------------------------------
(* newWorkLoop: interrupt the work in progress, then block on newWorkCh.     *)
commitRequest(noempty, s) ==
    /\ newWork = None
    /\ newWork' = [noempty |-> noempty]
    /\ interrupt' = s
    /\ UNCHANGED <<poolVars, running, starts, txsCh, newTxs, filling, offered, current, sealVars, written, head>>

newWorkStart ==
    /\ startCh > 0
    /\ startCh' = startCh - 1
    /\ commitRequest(FALSE, "newHead")
    /\ UNCHANGED chainHeadCh

newWorkHead ==
    /\ chainHeadCh > 0
    /\ chainHeadCh' = chainHeadCh - 1
    /\ commitRequest(FALSE, "newHead")
    /\ UNCHANGED startCh

(* Once the request is taken, newWorkLoop forgets the announcements so far.    *)
newWorkTaken ==
    /\ newWork = Sent
    /\ newWork' = None
    /\ newTxs' = FALSE
    /\ UNCHANGED <<poolVars, running, starts, startCh, chainHeadCh, txsCh, interrupt, filling, offered,
                   current, sealVars, written, head>>

(* The timer runs once a first request was taken.                             *)
newWorkTimer ==
    /\ current # None /\ running /\ newTxs
    /\ commitRequest(TRUE, "resubmit")
    /\ UNCHANGED <<startCh, chainHeadCh>>

-----------------------------------------------------------------------------
(* commit: the block goes to taskLoop, which drops it if it is the one it has *)
(* seen last and otherwise stops the sealing in progress.                      *)
commit(env) ==
    LET b == [parent |-> env.parent, txs |-> env.txs] IN
    IF running /\ b # prev
    THEN prev' = b /\ sealing' = b
    ELSE UNCHANGED <<prev, sealing>>

(* Mutant: makeCurrent keeps the list of the block that was discarded.        *)
makeCurrentKeeping ==
    [parent |-> head, txs |-> IF current = None THEN <<>> ELSE current.txs,
     gas |-> BlockGas, uncles |-> 0]

makeCurrent == [parent |-> head, txs |-> <<>>, gas |-> BlockGas, uncles |-> 0]

(* mainLoop takes the request: a new environment on the head, an empty block  *)
(* in advance unless the request forbids it, and the pending transactions.    *)
commitNewWork ==
    /\ newWork \notin {None, Sent} /\ ~filling
    /\ current' = makeCurrent
    /\ IF newWork.noempty THEN UNCHANGED <<prev, sealing>> ELSE commit(makeCurrent)
    /\ offered' = pending
    /\ filling' = (pending # {})
    /\ newWork' = Sent /\ interrupt' = "none"
    /\ UNCHANGED <<poolVars, eventVars, resultCh, written, head>>

(* ApplyTransaction, seen from the miner.  A nonce other than the expected    *)
(* one is refused, so is a payer without funds.  An ack without a quorum, or  *)
(* one whose transaction then executes, puts the transaction in the block;     *)
(* when its execution fails the ack stays recorded all the same.               *)
(* Mutant: validateAck does not compare the nonce.                            *)
OutcomesUnchecked(t) == {"poor", "acked", "executed", "failed"}

Outcomes(t) ==
    IF expectedAckNonce[t.from] # t.nonce
    THEN {"unexpected"}
    ELSE {"poor", "acked", "executed", "failed"}

commitTransaction(t, outcome) ==
    LET records == outcome \in {"acked", "executed", "failed"} IN
    /\ current.gas > 0
    /\ outcome \in Outcomes(t)
    /\ expectedAckNonce' = IF records THEN [expectedAckNonce EXCEPT ![t.from] = t.nonce + 1]
                                      ELSE expectedAckNonce
    /\ current' = CASE outcome = "acked"    -> [current EXCEPT !.txs = Append(@, t)]
                    [] outcome = "executed" -> [current EXCEPT !.txs = Append(@, t), !.gas = @ - 1]
                    [] OTHER                -> current

(* Shift goes on with the sender's next transaction, Pop drops the sender.    *)
Shift(t) == offered \ {t}
Pop(t) == {u \in offered : u.from # t.from}
NextOf(t) == \A u \in offered : u.from = t.from => t.nonce <= u.nonce

(* One round of commitTransactions.  Senders are taken in any order.          *)
commitTransactions(t, outcome) ==
    /\ filling /\ interrupt = "none"
    /\ t \in offered /\ NextOf(t)
    /\ commitTransaction(t, outcome)
    /\ \/ outcome \in {"unexpected", "acked", "executed", "failed"} /\ offered' = Shift(t)
       \/ outcome \in {"poor", "failed"} /\ offered' = Pop(t)
    /\ UNCHANGED <<pending, eventVars, newWork, interrupt, filling, sealVars, written, head>>

(* The block is full, or all is tried, or it is time to resubmit.             *)
commitFull ==
    /\ filling
    /\ \/ interrupt = "none" /\ (offered = {} \/ current.gas = 0)
       \/ interrupt = "resubmit"
    /\ commit(current)
    /\ filling' = FALSE /\ offered' = {}
    /\ UNCHANGED <<poolVars, eventVars, newWork, interrupt, current, resultCh, written, head>>

(* A new head: the semi-finished block is left behind.                        *)
commitInterruptNewHead ==
    /\ filling /\ interrupt = "newHead"
    /\ filling' = FALSE /\ offered' = {}
    /\ UNCHANGED <<poolVars, eventVars, newWork, interrupt, current, sealVars, written, head>>

(* Announced transactions: acked at once when the node does not mine.         *)
txsNotRunning(t, outcome) ==
    /\ ~filling /\ ~running /\ current # None
    /\ t \in txsCh
    /\ commitTransaction(t, outcome)
    /\ txsCh' = txsCh \ {t} /\ newTxs' = TRUE
    /\ UNCHANGED <<pending, running, starts, startCh, chainHeadCh, newWork, interrupt, filling,
                   offered, sealVars, written, head>>

txsOther(t) ==
    /\ ~filling
    /\ (~running /\ current # None) => current.gas = 0
    /\ t \in txsCh
    /\ txsCh' = txsCh \ {t}
    /\ newTxs' = (newTxs \/ running \/ current = None)
    /\ UNCHANGED <<poolVars, running, starts, startCh, chainHeadCh, workVars, sealVars, written, head>>

(* A block of another validator on an ancestor of ours counts as an uncle:    *)
(* whatever w.current holds is committed again.  The engine drops uncles.     *)
chainSide ==
    /\ ~filling /\ running
    /\ current # None
    /\ current.uncles < 2 /\ current.parent # <<>>
    /\ current' = [current EXCEPT !.uncles = @ + 1]
    /\ commit(current)
    /\ UNCHANGED <<poolVars, eventVars, newWork, interrupt, filling, offered, resultCh, written, head>>

-----------------------------------------------------------------------------
(* Mutant: the sealed block is queued without asking for room.                *)
SealUnbounded ==
    /\ sealing # None
    /\ sealing' = None
    /\ resultCh' = Append(resultCh, sealing)
    /\ UNCHANGED <<poolVars, eventVars, workVars, prev, written, head>>

(* Clique.Seal: the time of the block has come; without room in resultCh the  *)
(* block is dropped.                                                           *)
Seal ==
    /\ sealing # None
    /\ sealing' = None
    /\ resultCh' = IF Len(resultCh) < resultQueueSize THEN Append(resultCh, sealing) ELSE resultCh
    /\ UNCHANGED <<poolVars, eventVars, workVars, prev, written, head>>

(* At equal height chance decides which block is the head (toss).             *)
resultLoop(toss) ==
    LET b == Head(resultCh)
        canonical == Len(b.parent) >= Len(head) \/ (Len(b.parent) + 1 = Len(head) /\ toss)
    IN
    /\ resultCh # <<>>
    /\ resultCh' = Tail(resultCh)
    /\ \/ /\ b \in written
          /\ UNCHANGED <<written, head, chainHeadCh>>
       \/ /\ b \notin written
          /\ Len(b.parent) < MaxHeight /\ Cardinality(written) < MaxBlocks
          /\ written' = written \cup {b}
          /\ head' = IF canonical THEN PathOf(b) ELSE head
          /\ chainHeadCh' = IF canonical THEN chainHeadCh + 1 ELSE chainHeadCh
    /\ UNCHANGED <<poolVars, running, starts, startCh, txsCh, newTxs, workVars, prev, sealing>>

Next ==
    \/ \E t \in Txs : promoteTx(t)
    \/ demoteUnexecutables
    \/ start \/ stop
    \/ newWorkStart \/ newWorkHead \/ newWorkTimer \/ newWorkTaken
    \/ commitNewWork
    \/ \E t \in Txs : \E outcome \in Outcomes(t) :
          commitTransactions(t, outcome) \/ txsNotRunning(t, outcome)
    \/ commitFull \/ commitInterruptNewHead
    \/ \E t \in Txs : txsOther(t)
    \/ chainSide
    \/ Seal
    \/ \E toss \in BOOLEAN : resultLoop(toss)

Spec == Init /\ [][Next]_vars

-----------------------------------------------------------------------------
Published == UNION {Range(b.txs) : b \in written}

(* A node never publishes acks for two transactions of one slot, whatever     *)
(* blocks were interrupted, superseded, sealed twice or written as siblings:   *)
(* other nodes count a correct validator on the strength of this.              *)
NoEquivocation == \A t, u \in Published : ~Conflict(t, u)

(* Along every chain of blocks a node writes, the acks for one sender come in  *)
(* the order of nonces and none is repeated, also across blocks built before   *)
(* and after an interrupt or on a head that was replaced.                       *)
AcksInOrder ==
    \A b \in written :
        LET path == PathOf(b) IN
        \A i, j \in DOMAIN path : \A k \in DOMAIN path[i], l \in DOMAIN path[j] :
            (i < j \/ (i = j /\ k < l)) /\ path[i][k].from = path[j][l].from
                => path[i][k].nonce < path[j][l].nonce

(* "Main case, the transaction could not be applied because of insufficient    *)
(* acks, but should still be included in blocks": while the node mines, a       *)
(* transaction that was put in the block under construction stays on its way    *)
(* into a block until it is in one.                                              *)
OnTheWay ==
    (IF current = None THEN {} ELSE Range(current.txs))
        \cup (IF sealing = None THEN {} ELSE Range(sealing.txs))
        \cup UNION {Range(resultCh[i].txs) : i \in DOMAIN resultCh}
AckReachesBlock == [][running => OnTheWay \subseteq (OnTheWay \cup Published)']_vars
=============================================================================
