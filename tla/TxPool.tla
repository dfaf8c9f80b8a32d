------------------------------- MODULE TxPool -------------------------------
(***************************************************************************)
(* The transaction pool of one node (core/tx_pool.go, core/tx_list.go): the  *)
(* lookup of all transactions, the pending and queued lists, the virtual     *)
(* nonces, the price heap with its count of stale entries, heartbeats, the   *)
(* journal, and the scheduler that runs resets and promotions.              *)
(*                                                                         *)
(* The methods work on a record p that holds the pool; a method that takes   *)
(* the mutex is one step.  Around it: the chain's state, which imports move   *)
(* and which the pool only sees when it is reset, and the miner, which acks   *)
(* from a copy of the pending lists.                                         *)
(***************************************************************************)
EXTENDS Integers, Sequences, FiniteSets, FiniteSetsExt, SequencesExt

CONSTANTS
    Accounts,      \* senders
    Txs,           \* records with fields from, to, nonce, value, price
    InitBalance,   \* balance of each sender
    Prices,        \* the minimal gas prices the operator may set
    PriceBump,     \* percentage a replacement has to add
    AccountSlots, GlobalSlots, AccountQueue, GlobalQueue,
    LocalTxs,      \* the transactions that may come in through AddLocals
    BlockTxs,      \* the transactions that the blocks of others ack and confirm
    Ackable,       \* bound: the transactions the miner gets to
    MayExpire,     \* bound: the senders that may be idle for a lifetime
    Mining,        \* the node seals blocks
    EmptyBlocks,   \* clique period > 0: blocks without acks are sealed too
    Siblings,      \* own blocks may be sealed late, as siblings of the head
    MaxStarts      \* bound: how often the node is started

TxPoolAssumption ==
    /\ \A t \in Txs : t.from \in Accounts /\ {t.nonce, t.value, t.price} \subseteq Nat
    /\ LocalTxs \cup BlockTxs \cup Ackable \subseteq Txs /\ MayExpire \subseteq Accounts
    /\ InitBalance \in [Accounts -> Nat]
    /\ Prices \subseteq Nat /\ Prices # {} /\ MaxStarts \in Nat \ {0}

VARIABLES
    p,             \* the pool, see NewTxPool
    chain,         \* the detached state of the chain: nonces and balances
    next,          \* scheduleReorgLoop: what the next run will do
    run,           \* the runReorg in progress
    announced,     \* pending transactions sent to the subscribers of the pool
    offered,       \* the miner's copy of the pending lists
    block,         \* acks of the block the miner fills
    headTxs,       \* acks in the node's head block
    starts

vars == <<p, chain, next, run, announced, offered, block, headTxs, starts>>

Idle == [stage |-> "idle"]
NoRequest == [launch |-> FALSE, reset |-> FALSE, discarded |-> {}, included |-> {},
              dirty |-> {}, events |-> {}]

(* A pool on a state, with the journal file that is on disk.                 *)
NewTxPool(state, journal) ==
    [currentState |-> state, expectedAckNonce |-> [a \in Accounts |-> 0], gasPrice |-> Min(Prices),
     locals |-> {}, localTxs |-> {}, remoteTxs |-> {}, pending |-> {}, queue |-> {},
     nonces |-> state.nonce, heap |-> [t \in Txs |-> 0], stales |-> 0, beats |-> <<>>,
     journal |-> journal]

Init ==
    /\ chain = [nonce |-> [a \in Accounts |-> 0], balance |-> InitBalance]
    /\ p = NewTxPool(chain, {})
    /\ next = NoRequest /\ run = Idle
    /\ announced = {} /\ offered = {} /\ block = {} /\ headTxs = {}
    /\ starts = 1

-----------------------------------------------------------------------------
Cost(t) == t.value + t.price

(* Lists are sets of transactions with at most one per sender and nonce.     *)
All(q) == q.localTxs \cup q.remoteTxs
Of(S, a) == {t \in S : t.from = a}
SameSlot(S, t) == {u \in S : u.from = t.from /\ u.nonce = t.nonce}
Lowest(S) == CHOOSE t \in S : \A u \in S : t.nonce <= u.nonce
Highest(S) == CHOOSE t \in S : \A u \in S : t.nonce >= u.nonce
ByNonce(S) == SetToSortSeq(S, LAMBDA t, u : t.nonce < u.nonce)
LowestFew(S, n) == {t \in S : Cardinality({u \in S : u.nonce < t.nonce}) < n}

(* txList.Add over an older transaction.                                     *)
Outbids(t, old) ==
    /\ old.price < t.price
    /\ t.price >= (old.price * (100 + PriceBump)) \div 100

(* txPricedList: a heap of the remote transactions, removed ones included.   *)
HeapSize(q) == MapThenSumSet(LAMBDA t : q.heap[t], Txs)
Cheaper(t, u) == t.price < u.price \/ (t.price = u.price /\ t.nonce > u.nonce)
HeapTop(q) ==
    LET S == {t \in Txs : q.heap[t] > 0} IN CHOOSE t \in S : \A u \in S : ~Cheaper(u, t)
Pop(q, t) == [q EXCEPT !.heap[t] = @ - 1]
Stale(q, t) == t \notin q.remoteTxs
Put(q, t, local) == IF local THEN q ELSE [q EXCEPT !.heap[t] = @ + 1]
Reheap(q) ==
    [q EXCEPT !.heap = [t \in Txs |-> IF t \in q.remoteTxs THEN 1 ELSE 0], !.stales = 0]

Removed(q, n) ==
    IF q.stales + n <= HeapSize(q) \div 4 THEN [q EXCEPT !.stales = @ + n] ELSE Reheap(q)

(* Cap, Underpriced and Discard pop stale entries on their way.  They return *)
(* the pool and the transactions to drop.                                    *)
RECURSIVE DropStale(_)
DropStale(q) ==
    IF HeapSize(q) > 0 /\ Stale(q, HeapTop(q))
    THEN DropStale([Pop(q, HeapTop(q)) EXCEPT !.stales = @ - 1]) ELSE q

RECURSIVE Cap(_, _, _)
Cap(q, threshold, drop) ==
    LET c == DropStale(q) IN
    IF HeapSize(c) > 0 /\ HeapTop(c).price < threshold
    THEN Cap(Pop(c, HeapTop(c)), threshold, Append(drop, HeapTop(c)))
    ELSE [pool |-> c, drop |-> drop]

RECURSIVE Discard(_, _, _, _)
Discard(q, slots, force, drop) ==
    IF HeapSize(q) = 0 /\ slots > 0 /\ ~force
    THEN [pool |-> FoldLeft(LAMBDA x, t : Put(x, t, FALSE), q, drop), drop |-> <<>>, ok |-> FALSE]
    ELSE IF HeapSize(q) = 0 \/ slots <= 0 THEN [pool |-> q, drop |-> drop, ok |-> TRUE]
    ELSE LET t == HeapTop(q) IN
         IF Stale(q, t) THEN Discard([Pop(q, t) EXCEPT !.stales = @ - 1], slots, force, drop)
         ELSE Discard(Pop(q, t), slots - 1, force, Append(drop, t))

Forget(q, S) == [q EXCEPT !.localTxs = @ \ S, !.remoteTxs = @ \ S]
Remember(q, t, local) ==
    IF local THEN [q EXCEPT !.localTxs = @ \cup {t}] ELSE [q EXCEPT !.remoteTxs = @ \cup {t}]

(* Heartbeats, oldest first.                                                 *)
NoBeat(q, a) == [q EXCEPT !.beats = SelectSeq(@, LAMBDA x : x # a)]
Beat(q, a) == [NoBeat(q, a) EXCEPT !.beats = Append(@, a)]
FirstBeat(q, a) == IF a \in ToSet(q.beats) THEN q ELSE Beat(q, a)
QueueGone(q, a) == IF Of(q.queue, a) = {} THEN NoBeat(q, a) ELSE q

SetIfLower(q, a, n) == IF q.nonces[a] <= n THEN q ELSE [q EXCEPT !.nonces[a] = n]

-----------------------------------------------------------------------------
validateAck(q, t, local) ==
    IF local
    THEN q.expectedAckNonce[t.from] = t.nonce /\ q.currentState.balance[t.from] >= Cost(t)
    ELSE t.price >= q.gasPrice /\ q.currentState.nonce[t.from] <= t.nonce

(* enqueueTx, which leaves the pool alone when an older transaction is better. *)
enqueueTx(q, t, local, addAll) ==
    LET old == SameSlot(q.queue, t)
        r == [q EXCEPT !.queue = (@ \ old) \cup {t}]
        s == IF old = {} THEN r ELSE Removed(Forget(r, old), 1)
    IN
    IF \E o \in old : ~Outbids(t, o) THEN q
    ELSE FirstBeat(IF addAll THEN Put(Remember(s, t, local), t, local) ELSE s, t.from)

enqueueAll(q, S) == FoldLeft(LAMBDA x, t : enqueueTx(x, t, FALSE, FALSE), q, ByNonce(S))

promoteTx(q, t) ==
    LET old == SameSlot(q.pending, t)
        r == [q EXCEPT !.pending = (@ \ old) \cup {t}, !.nonces[t.from] = t.nonce + 1]
    IN
    IF \E o \in old : ~Outbids(t, o) THEN Removed(Forget(q, {t}), 1)
    ELSE Beat(IF old = {} THEN r ELSE Removed(Forget(r, old), 1), t.from)

(* Mutant: the transactions after the removed one stay pending.              *)
removeTxAlone(q, t, outofbound) ==
    LET f == IF outofbound THEN Removed(Forget(q, {t}), 1) ELSE Forget(q, {t}) IN
    IF t \notin All(q) THEN q
    ELSE IF SameSlot(f.pending, t) # {}
    THEN SetIfLower([f EXCEPT !.pending = @ \ SameSlot(f.pending, t)], t.from, t.nonce)
    ELSE QueueGone([f EXCEPT !.queue = @ \ SameSlot(f.queue, t)], t.from)

(* removeTx: what follows a removed pending transaction is queued again.     *)
removeTx(q, t, outofbound) ==
    LET f == IF outofbound THEN Removed(Forget(q, {t}), 1) ELSE Forget(q, {t})
        invalids == {u \in Of(f.pending, t.from) : u.nonce > t.nonce}
        r == [f EXCEPT !.pending = @ \ (SameSlot(f.pending, t) \cup invalids)]
    IN
    IF t \notin All(q) THEN q
    ELSE IF SameSlot(f.pending, t) # {}
    THEN SetIfLower(enqueueAll(r, invalids), t.from, t.nonce)
    ELSE QueueGone([f EXCEPT !.queue = @ \ SameSlot(f.queue, t)], t.from)

removeAll(q, list, outofbound) == FoldLeft(LAMBDA x, t : removeTx(x, t, outofbound), q, list)

journalTx(q, t) == IF t.from \in q.locals THEN [q EXCEPT !.journal = @ \cup {t}] ELSE q

(* A sender that is local from now on takes its transactions out of the heap. *)
addLocal(q, a) ==
    LET moved == Of(q.remoteTxs, a) IN
    Removed([q EXCEPT !.locals = @ \cup {a}, !.remoteTxs = @ \ moved, !.localTxs = @ \cup moved],
            Cardinality(moved))

(* add: [pool, ok, replaced, event].                                         *)
Rejected(q) == [pool |-> q, ok |-> FALSE, replaced |-> FALSE, event |-> {}]

(* The rest of add, when there is room: replace a pending transaction, or    *)
(* queue this one.                                                           *)
insert(q, t, local, isLocal) ==
    LET old == SameSlot(q.pending, t)
        r == Put(Remember(Removed(Forget([q EXCEPT !.pending = (@ \ old) \cup {t}], old), 1),
                          t, isLocal), t, isLocal)
        e == enqueueTx(q, t, isLocal, TRUE)
        m == IF local /\ t.from \notin q.locals THEN addLocal(e, t.from) ELSE e
    IN
    IF old # {}
    THEN IF \E o \in old : ~Outbids(t, o) THEN Rejected(q)
         ELSE [pool |-> Beat(journalTx(r, t), t.from), ok |-> TRUE, replaced |-> TRUE, event |-> {t}]
    ELSE IF t \notin e.queue THEN Rejected(q)
    ELSE [pool |-> journalTx(m, t), ok |-> TRUE, replaced |-> SameSlot(q.queue, t) # {}, event |-> {}]

add(q, t, local) ==
    LET isLocal == local \/ t.from \in q.locals
        excess == Cardinality(All(q)) + 1 - (GlobalSlots + GlobalQueue)
        u == IF isLocal THEN q ELSE DropStale(q)
        underpriced == ~isLocal /\ HeapSize(u) > 0 /\ HeapTop(u).price >= t.price
        d == Discard(u, excess, isLocal, <<>>)
    IN
    IF t \in All(q) \/ ~validateAck(q, t, isLocal) THEN Rejected(q)
    ELSE IF excess <= 0 THEN insert(q, t, local, isLocal)
    ELSE IF underpriced THEN Rejected(u)
    ELSE IF ~d.ok THEN Rejected(d.pool)
    ELSE insert(removeAll(d.pool, d.drop, FALSE), t, local, isLocal)

-----------------------------------------------------------------------------
(* promoteExecutables for one account.                                       *)
Run(S) ==   \* the consecutive nonces from the lowest one
    {t \in S : \A n \in Lowest(S).nonce .. t.nonce : \E u \in S : u.nonce = n}

promoteAccount(q, a) ==
    LET forwards == {t \in Of(q.queue, a) : t.nonce < q.expectedAckNonce[a]}
        drops == {t \in Of(q.queue, a) \ forwards : Cost(t) > q.currentState.balance[a]}
        list == Of(q.queue, a) \ (forwards \cup drops)
        ready == IF list # {} /\ Lowest(list).nonce <= q.nonces[a] THEN Run(list) ELSE {}
        rest == list \ ready
        caps == IF a \in q.locals THEN {} ELSE rest \ LowestFew(rest, AccountQueue)
        r == Forget([q EXCEPT !.queue = @ \ (forwards \cup drops \cup ready)], forwards \cup drops)
        s == FoldLeft(LAMBDA x, t : promoteTx(x, t), r, ByNonce(ready))
        gone == Cardinality(forwards) + Cardinality(drops) + Cardinality(caps)
    IN
    IF Of(q.queue, a) = {} THEN q
    ELSE QueueGone(Removed(Forget([s EXCEPT !.queue = @ \ caps], caps), gone), a)

promoteExecutables(q, order) == FoldLeft(LAMBDA x, a : promoteAccount(x, a), q, order)

(* demoteUnexecutables for one account.                                      *)
demoteAccount(q, a) ==
    LET list == Of(q.pending, a)
        olds == {t \in list : t.nonce < q.expectedAckNonce[a]}
        drops == {t \in list \ olds : Cost(t) > q.currentState.balance[a]}
        invalids == {t \in list \ (olds \cup drops) : \E d \in drops : d.nonce < t.nonce}
        rest == list \ (olds \cup drops \cup invalids)
        gapped == IF SameSlot(rest, [from |-> a, nonce |-> q.expectedAckNonce[a]]) = {} THEN rest ELSE {}
        r == [Forget(q, olds \cup drops) EXCEPT !.pending = (@ \ list) \cup (rest \ gapped)]
    IN
    IF list = {} THEN q
    ELSE enqueueAll(enqueueAll(Removed(r, Cardinality(olds) + Cardinality(drops)), invalids), gapped)

demoteUnexecutables(q, order) == FoldLeft(LAMBDA x, a : demoteAccount(x, a), q, order)

(* truncatePending: the senders with most pending transactions lose their    *)
(* last ones until the limit is met or all are down to AccountSlots.         *)
PendingOf(q, a) == Cardinality(Of(q.pending, a))
DropLast(q, a) ==
    LET t == Highest(Of(q.pending, a)) IN
    Removed(SetIfLower(Forget([q EXCEPT !.pending = @ \ {t}], {t}), a, t.nonce), 1)
DropEach(q, list) == FoldLeft(LAMBDA x, a : DropLast(x, a), q, list)
Over(q) == Cardinality(q.pending) > GlobalSlots

RECURSIVE Level(_, _, _)   \* until the last but one offender has n transactions
Level(q, list, n) ==
    IF Over(q) /\ PendingOf(q, Last(list)) > n THEN Level(DropEach(q, list), list, n) ELSE q

RECURSIVE Equalize(_, _, _)
Equalize(q, offenders, spammers) ==
    IF ~Over(q) \/ spammers = <<>> THEN [pool |-> q, offenders |-> offenders]
    ELSE LET o == Head(spammers) IN
         Equalize(IF offenders = <<>> THEN q ELSE Level(q, offenders, PendingOf(q, o)),
                  Append(offenders, o), Tail(spammers))

truncatePending(q) ==
    LET big == {a \in Accounts \ q.locals : PendingOf(q, a) > AccountSlots}
        e == Equalize(q, <<>>, SetToSortSeq(big, LAMBDA a, b : PendingOf(q, a) > PendingOf(q, b)))
    IN
    IF ~Over(q) \/ big = {} THEN q ELSE Level(e.pool, e.offenders, AccountSlots)

(* truncateQueue: the latest senders lose their last transactions.           *)
RECURSIVE DropQueued(_, _, _)
DropQueued(q, drop, order) ==
    IF drop <= 0 \/ order = <<>> THEN q
    ELSE LET list == ByNonce(Of(q.queue, Last(order)))
             gone == IF Len(list) <= drop THEN list ELSE SubSeq(Reverse(list), 1, drop)
         IN DropQueued(removeAll(q, gone, TRUE), drop - Len(gone), Front(order))

truncateQueue(q) ==
    DropQueued(q, Cardinality(q.queue) - GlobalQueue,
               SelectSeq(q.beats, LAMBDA a : a \notin q.locals /\ Of(q.queue, a) # {}))

(* The nonces are brought up to date at the end of a run.                    *)
updateNonces(q) ==
    [q EXCEPT !.nonces = [a \in Accounts |->
        IF Of(q.pending, a) = {} THEN @[a] ELSE Highest(Of(q.pending, a)).nonce + 1]]

Event(E, t) == (E \ SameSlot(E, t)) \cup {t}   \* queuedEvents are kept by nonce

addTxsLocked(q, list) ==
    FoldLeft(LAMBDA x, t : LET r == add(x.pool, t, FALSE) IN
                [pool |-> r.pool, events |-> IF r.event = {} THEN x.events ELSE Event(x.events, t)],
            [pool |-> q, events |-> next.events], list)

-----------------------------------------------------------------------------
queueTxEvent(E, r) == FoldSet(LAMBDA t, x : Event(x, t), E, r.event)

(* AddLocals and AddRemotes with one transaction: add, then ask for a run.   *)
addTxs(t, local) ==
    /\ t \notin All(p)
    /\ \E r \in {add(p, t, local)} :
         /\ p' = r.pool
         /\ next' = [next EXCEPT !.launch = TRUE, !.events = queueTxEvent(@, r),
                                 !.dirty = IF r.ok /\ ~r.replaced THEN @ \cup {t.from} ELSE @]
    /\ UNCHANGED <<chain, run, announced, offered, block, headTxs, starts>>

(* addAck, as far as these lists go: an unknown transaction is added, and no *)
(* run is asked for.                                                         *)
Learn(q, t) == IF t \notin All(q) /\ validateAck(q, t, TRUE) THEN add(q, t, FALSE) ELSE Rejected(q)

(* Process of a block with an ack for t: the pool works on the state from    *)
(* before the block.  Transactions that are confirmed move the chain's state. *)
CanExecute(t) ==
    t.price >= p.gasPrice /\ chain.nonce[t.from] = t.nonce /\ chain.balance[t.from] >= Cost(t)
Paid(balance, t) ==
    LET b == [balance EXCEPT ![t.from] = @ - Cost(t)]
    IN [a \in Accounts |-> IF a = t.to THEN b[a] + t.value ELSE b[a]]

Process(t, executed) ==
    LET q == [p EXCEPT !.currentState = chain] IN
    /\ \E r \in {IF validateAck(q, t, FALSE) THEN Learn(q, t) ELSE Rejected(q)} :
         /\ p' = r.pool
         /\ next' = [next EXCEPT !.events = queueTxEvent(@, r)]
    /\ \/ executed = {} /\ UNCHANGED chain
       \/ \E x \in executed :
            /\ CanExecute(x)
            /\ chain' = [nonce |-> [chain.nonce EXCEPT ![x.from] = @ + 1],
                         balance |-> Paid(chain.balance, x)]
    /\ UNCHANGED <<run, announced, offered, block, headTxs, starts>>

(* The miner takes a copy of the pending lists and acks from it.             *)
Pending ==
    /\ offered # p.pending \cap Ackable
    /\ offered' = p.pending \cap Ackable
    /\ UNCHANGED <<p, chain, next, run, announced, block, headTxs, starts>>

ApplyTransaction(t) ==
    /\ t \in offered
    /\ validateAck(p, t, TRUE)
    /\ \E r \in {Learn(p, t)} :
         /\ p' = [r.pool EXCEPT !.expectedAckNonce[t.from] = t.nonce + 1]
         /\ next' = [next EXCEPT !.events = queueTxEvent(@, r)]
    /\ block' = block \cup {t}
    /\ UNCHANGED <<chain, run, announced, offered, headTxs, starts>>

(* Mutant: a reset request waits for the next promotion.                     *)
SealQuietly(sibling) ==
    /\ Mining
    /\ EmptyBlocks \/ block # {}
    /\ sibling => Siblings /\ headTxs # {}
    /\ next' = [next EXCEPT !.reset = TRUE]
    /\ headTxs' = block
    /\ block' = {}
    /\ UNCHANGED <<p, chain, run, announced, offered, starts>>

(* A sealed block becomes the head and loop asks for a reset.  Requests that  *)
(* come while one waits only move its new head.  A sibling of the head takes  *)
(* the head's acks out of the chain.                                         *)
Seal(sibling) ==
    /\ Mining
    /\ EmptyBlocks \/ block # {}
    /\ sibling => Siblings /\ headTxs # {}
    /\ next' = [next EXCEPT
                  !.launch = TRUE, !.reset = TRUE,
                  !.discarded = IF next.reset THEN @ ELSE IF sibling THEN headTxs ELSE {},
                  !.included = IF next.reset /\ ~sibling THEN @ \cup headTxs ELSE @]
    /\ headTxs' = block
    /\ block' = {}
    /\ UNCHANGED <<p, chain, run, announced, offered, starts>>

(* scheduleReorgLoop starts a run when none is active.                       *)
scheduleReorg ==
    /\ run = Idle /\ next.launch
    /\ run' = [stage |-> "run", reset |-> next.reset, dirty |-> next.dirty, events |-> next.events,
               reinject |-> next.discarded \ (next.included \cup headTxs)]
    /\ next' = NoRequest
    /\ UNCHANGED <<p, chain, announced, offered, block, headTxs, starts>>

reset(q) == [q EXCEPT !.currentState = chain, !.nonces = chain.nonce]

(* runReorg up to the release of the mutex.  Maps are walked in any order.   *)
runReorg(order) ==
    LET fresh == IF run.reset THEN reset(p) ELSE p
        walk == IF run.reset THEN order ELSE SelectSeq(order, LAMBDA a : a \in run.dirty)
    IN
    /\ run.stage = "run"
    /\ \E r \in {addTxsLocked(fresh, IF run.reset THEN ByNonce(run.reinject) ELSE <<>>)} :
       \E q \in {promoteExecutables(r.pool, walk)} :
       \E d \in {IF run.reset THEN demoteUnexecutables(q, order) ELSE q} :
         LET stale == {t \in run.events : run.reset /\ t.nonce < r.pool.nonces[t.from]} IN
         /\ p' = updateNonces(truncateQueue(truncatePending(d)))
         /\ run' = [stage |-> "send",
                    txs |-> FoldSet(LAMBDA t, x : Event(x, t), run.events \ stale,
                                    q.pending \ r.pool.pending)]
         /\ next' = [next EXCEPT !.events = r.events]
    /\ UNCHANGED <<chain, announced, offered, block, headTxs, starts>>

(* The end of runReorg: the feed.                                            *)
sendEvents ==
    /\ run.stage = "send"
    /\ announced' = (announced \cup run.txs) \cap p.pending
    /\ run' = Idle
    /\ UNCHANGED <<p, chain, next, offered, block, headTxs, starts>>

(* The eviction tick of loop: the accounts in S have been idle too long.     *)
evict(S) ==
    /\ S # {}
    /\ S \subseteq {a \in MayExpire \ p.locals : Of(p.queue, a) # {}}
    /\ p' = removeAll(p, FoldSet(LAMBDA a, s : s \o ByNonce(Of(p.queue, a)), <<>>, S), TRUE)
    /\ UNCHANGED <<chain, next, run, announced, offered, block, headTxs, starts>>

SetGasPrice(price) ==
    LET c == Cap(p, price, <<>>) IN
    /\ price # p.gasPrice
    /\ p' = [removeAll(c.pool, c.drop, FALSE) EXCEPT !.gasPrice = price]
    /\ UNCHANGED <<chain, next, run, announced, offered, block, headTxs, starts>>

(* The journal tick: the file is written again from the local transactions.  *)
local(q) == {t \in q.pending \cup q.queue : t.from \in q.locals}
rotate(q) == [q EXCEPT !.journal = local(q)]
Rejournal ==
    /\ p.journal # local(p)
    /\ p' = rotate(p)
    /\ UNCHANGED <<chain, next, run, announced, offered, block, headTxs, starts>>

(* A stop and a start: a new pool takes the journal's entries, in the order  *)
(* of the file, through AddLocals and rewrites the file.                     *)
Restart(file) ==
    LET load == FoldLeft(LAMBDA q, t : add(q, t, TRUE).pool, NewTxPool(chain, {}), file) IN
    /\ starts < MaxStarts
    /\ ToSet(file) = p.journal /\ Len(file) = Cardinality(p.journal)
    /\ p' = rotate(load)
    /\ next' = [NoRequest EXCEPT !.launch = file # <<>>, !.dirty = {t.from : t \in load.queue}]
    /\ run' = Idle
    /\ announced' = {} /\ offered' = {} /\ block' = {}
    /\ starts' = starts + 1
    /\ UNCHANGED <<chain, headTxs>>

-----------------------------------------------------------------------------
Orders == SetToSeqs(Accounts)

Next ==
    \/ \E t \in Txs : addTxs(t, FALSE)
    \/ \E t \in LocalTxs : addTxs(t, TRUE)
    \/ \E t \in BlockTxs : Process(t, {})
    \/ \E t \in BlockTxs : Process(t, BlockTxs)
    \/ Pending
    \/ \E t \in Txs : ApplyTransaction(t)
    \/ \E sibling \in BOOLEAN : Seal(sibling)
    \/ scheduleReorg
    \/ \E order \in Orders : runReorg(order)
    \/ sendEvents
    \/ \E S \in SUBSET MayExpire : evict(S)
    \/ \E price \in Prices : SetGasPrice(price)
    \/ Rejournal
    \/ \E file \in SetToSeqs(p.journal) : Restart(file)

Spec == Init /\ [][Next]_vars

(* The goroutines of the pool make progress: the scheduler starts requested   *)
(* runs, a run ends, and the subscribers of the feed take the events.  A      *)
(* mining node keeps sealing: clique signs a block every period, without a    *)
(* period as soon as there are acks.  The second conjunct is weak fairness of *)
(* runReorg, which is enabled in its stage and leaves it.                    *)
Fairness ==
    /\ WF_vars(scheduleReorg)
    /\ []<>(run.stage # "run")
    /\ WF_vars(sendEvents)
    /\ WF_vars(Seal(FALSE))

LiveSpec == Spec /\ Fairness

-----------------------------------------------------------------------------
(* Every list is in range of its type, with one transaction per slot.        *)
TypeOK ==
    /\ p.locals \subseteq Accounts /\ p.journal \subseteq Txs
    /\ p.localTxs \cap p.remoteTxs = {} /\ All(p) \subseteq Txs
    /\ \A S \in {p.pending, p.queue} : \A t \in S : SameSlot(S, t) = {t}
    /\ p.nonces \in [Accounts -> Nat] /\ p.heap \in [Txs -> Nat]
    /\ chain.nonce \in [Accounts -> Nat] /\ chain.balance \in [Accounts -> Nat]
    /\ next.events \subseteq Txs /\ next.dirty \subseteq Accounts
    /\ run.stage \in {"idle", "run", "send"}
    /\ offered \subseteq Txs /\ announced \subseteq Txs

(* The lookup has exactly the transactions of the two lists, each in one of   *)
(* them, and the next nonce of a sender is the one after its last pending     *)
(* transaction (what validateTxPoolInternals of the pool's tests asserts).    *)
Consistent ==
    /\ All(p) = p.pending \cup p.queue
    /\ p.pending \cap p.queue = {}
    /\ \A a \in Accounts :
         Of(p.pending, a) # {} => p.nonces[a] = Highest(Of(p.pending, a)).nonce + 1

(* txPricedList.stales is documented as the "Number of stale price points":   *)
(* the heap entries without a remote transaction in the pool.                *)
StalesExact ==
    p.stales = MapThenSumSet(LAMBDA t : IF Stale(p, t) THEN p.heap[t] ELSE 0, Txs)

(* The pending transactions of a sender leave no gap in its nonces.          *)
NoGaps == \A a \in Accounts : Of(p.pending, a) # {} => Run(Of(p.pending, a)) = Of(p.pending, a)

(* demoteUnexecutables: "If there's a gap in front, alert (should never       *)
(* happen)".  The first pending transaction is at most the next to ack.      *)
NoGapInFront ==
    \A a \in Accounts :
        Of(p.pending, a) # {} => Lowest(Of(p.pending, a)).nonce <= p.expectedAckNonce[a]

(* add keeps the pool within its limits, unless only local ones are left.    *)
Bounded == Cardinality(All(p)) <= GlobalSlots + GlobalQueue \/ p.remoteTxs = {}

(* After a run the lists are within their limits, except for local senders   *)
(* and for senders within their guaranteed slots.                            *)
TruncatedStep ==
    run.stage = "run" /\ run'.stage = "send" =>
        /\ Cardinality(p'.pending) > GlobalSlots =>
             \A a \in Accounts \ p'.locals : Cardinality(Of(p'.pending, a)) <= AccountSlots
        /\ Cardinality(p'.queue) > GlobalQueue => \A t \in p'.queue : t.from \in p'.locals

(* A queued sender has a heartbeat: without one the eviction would take its   *)
(* transactions at the next tick.                                            *)
QueuedAlive == \A t \in p.queue : t.from \in ToSet(p.beats)

(* AddLocals marks "the senders as a local ones".                            *)
LocalSendersMarked == \A t \in p.localTxs : t.from \in p.locals

(* While the node is up, a transaction of a local sender leaves the pool only *)
(* when its slot is acked, it is not payable, or a better one took its slot.  *)
LocalsKeptStep ==
    starts' = starts =>
        \A t \in All(p) : t.from \in p.locals /\ t \notin All(p') =>
            \/ t.nonce < p'.expectedAckNonce[t.from]
            \/ Cost(t) > p'.currentState.balance[t.from]
            \/ \E u \in All(p') : u.from = t.from /\ u.nonce = t.nonce /\ Outbids(u, t)

(* Every pending transaction that the state has not passed is announced, or   *)
(* will be with the run in progress or the next one.                         *)
AnnouncedOrDue ==
    \A t \in p.pending :
        \/ t.nonce < chain.nonce[t.from]
        \/ t \in announced \/ t \in next.events
        \/ (run.stage = "run" /\ t \in run.events) \/ (run.stage = "send" /\ t \in run.txs)

(* The journal is for "storing locally created transactions to allow         *)
(* non-executed ones to survive node restarts".                              *)
JournalSurvives ==
    [][starts' # starts =>
        \A t \in p.journal : chain.nonce[t.from] <= t.nonce => t \in p'.journal]_vars

(* A pending transaction is announced or leaves.                             *)
Announces == \A t \in Txs : t \in p.pending ~> t \in announced \/ t \notin p.pending

(* A queued transaction whose turn has come moves on: it becomes pending, or  *)
(* it leaves the queue.                                                      *)
Promotes ==
    \A t \in Txs :
        (t \in p.queue /\ t.nonce = chain.nonce[t.from] /\ t.nonce = p.expectedAckNonce[t.from])
            ~> (t \notin p.queue)
=============================================================================
