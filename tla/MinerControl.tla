---------------------------- MODULE MinerControl ----------------------------
(***************************************************************************)
(* The control loops of the miner and the channels between them:           *)
(* Miner.update (miner/miner.go), which starts and stops the worker for    *)
(* the user and around a synchronisation, newWorkLoop, which asks mainLoop *)
(* for new blocks and keeps the resubmit interval, and mainLoop, which     *)
(* reports back how filling a block went (miner/worker.go).  Module Worker *)
(* has the content of the blocks; here a block is only local and remote    *)
(* transactions to commit.                                                 *)
(***************************************************************************)
EXTENDS Integers, Sequences

CONSTANTS
    resubmitAdjustChanSize, \* capacity of resubmitAdjustCh
    Intervals,      \* intervals a user asks for (milliseconds)
    Ratios,         \* gas used by an interrupted block, in tenths of the limit
    MaxHeads,       \* bound: chain head events
    MaxCalls,       \* bound: calls of Start and Stop
    MaxSyncs,       \* bound: synchronisations
    MaxSets         \* bound: calls of SetRecommitInterval

ControlAssumption ==
    /\ resubmitAdjustChanSize \in Nat
    /\ Intervals \subseteq Nat /\ Ratios \subseteq 0 .. 10
    /\ MaxHeads \in Nat /\ MaxCalls \in Nat /\ MaxSyncs \in Nat /\ MaxSets \in Nat

minRecommitInterval == 1000
maxRecommitInterval == 15000
intervalAdjustBias == 200

VARIABLES
    running,        \* w.running
    startCh,        \* a token is in startCh
    shouldStart, canStart, subscribed,  \* of Miner.update
    wanted,         \* what the user asked for last: to mine or not
    syncing,        \* events posted by the downloader and not handled yet
    syncs, calls, heads, sets,          \* counters for the bounds
    newWork,        \* newWorkLoop: "select", "send" while it offers a request, "taken"
    main,           \* mainLoop: "select", "local", "remote", "inc", "dec" (sending)
    rest,           \* mainLoop: batches to commit after the current one
    signal,         \* the interrupt of the request mainLoop works on
    newTxs,         \* w.newTxs is not zero
    armed, tick,    \* the resubmit timer, and its channel
    adjusts,        \* resubmitAdjustCh: ratio of an increase, or 0 to decrease
    minRecommit, recommit

userVars == <<shouldStart, canStart, subscribed, wanted, syncing, syncs, calls>>
workVars == <<newWork, main, rest, signal, newTxs, armed, tick>>
rateVars == <<adjusts, minRecommit, recommit>>
controlVars == <<running, startCh, heads, sets, userVars, workVars, rateVars>>

ControlInit ==
    /\ running = FALSE /\ startCh = TRUE
    /\ shouldStart = FALSE /\ canStart = TRUE /\ subscribed = TRUE
    /\ wanted = FALSE /\ syncing = <<>>
    /\ syncs = 0 /\ calls = 0 /\ heads = 0 /\ sets = 0
    /\ newWork = "select" /\ main = "select" /\ rest = <<>> /\ signal = "none"
    /\ newTxs = FALSE /\ armed = FALSE /\ tick = FALSE
    /\ adjusts = <<>>
    /\ recommit \in {IF i < minRecommitInterval THEN minRecommitInterval ELSE i :
                        i \in Intervals}
    /\ minRecommit = recommit

------------------------------------------------------------------------------
(* Miner.update.  worker.start blocks while a token is in startCh.          *)

workerStart == ~startCh /\ running' = TRUE /\ startCh' = TRUE

(* The downloader posts the events of a synchronisation, one at a time.     *)
Post(ev) ==
    /\ IF ev = "start" THEN syncs < MaxSyncs /\ syncs' = syncs + 1
                       ELSE UNCHANGED syncs
    /\ subscribed
    /\ syncing' = Append(syncing, ev)
    /\ UNCHANGED <<running, startCh, heads, sets, shouldStart, canStart,
                   subscribed, wanted, calls, workVars, rateVars>>

LastPosted == IF syncing = <<>> THEN (IF canStart THEN "done" ELSE "start")
                                ELSE syncing[Len(syncing)]

Sync == \E ev \in {"start", "done", "failed"} :
            (ev = "start") = (LastPosted # "start") /\ Post(ev)

SyncStarted ==
    /\ syncing # <<>> /\ Head(syncing) = "start"
    /\ syncing' = Tail(syncing)
    /\ running' = FALSE /\ canStart' = FALSE
    /\ shouldStart' = (shouldStart \/ running)
    /\ UNCHANGED <<startCh, heads, sets, subscribed, wanted, syncs, calls,
                   workVars, rateVars>>

(* DoneEvent and FailedEvent; after the first of the former the loop stops  *)
(* listening.                                                               *)
SyncEnded ==
    /\ syncing # <<>> /\ Head(syncing) \in {"done", "failed"}
    /\ subscribed' = (Head(syncing) # "done")
    /\ syncing' = IF Head(syncing) = "done" THEN <<>> ELSE Tail(syncing)
    /\ canStart' = TRUE
    /\ IF shouldStart THEN workerStart ELSE UNCHANGED <<running, startCh>>
    /\ UNCHANGED <<heads, sets, shouldStart, wanted, syncs, calls, workVars, rateVars>>

Start ==
    /\ calls < MaxCalls /\ calls' = calls + 1
    /\ IF canStart THEN workerStart ELSE UNCHANGED <<running, startCh>>
    /\ shouldStart' = TRUE /\ wanted' = TRUE
    /\ UNCHANGED <<heads, sets, canStart, subscribed, syncing, syncs, workVars, rateVars>>

(* Stop pauses the worker and keeps the wish.                                *)
StopPaused ==
    /\ calls < MaxCalls /\ calls' = calls + 1
    /\ running' = FALSE /\ wanted' = FALSE
    /\ UNCHANGED <<startCh, heads, sets, shouldStart, canStart, subscribed,
                   syncing, syncs, workVars, rateVars>>

Stop ==
    /\ calls < MaxCalls /\ calls' = calls + 1
    /\ shouldStart' = FALSE /\ running' = FALSE /\ wanted' = FALSE
    /\ UNCHANGED <<startCh, heads, sets, canStart, subscribed, syncing, syncs,
                   workVars, rateVars>>

------------------------------------------------------------------------------
(* newWorkLoop.                                                             *)

(* commit up to the blocking send: the block in progress is interrupted.    *)
commit(s) == newWork' = "send" /\ signal' = s

NewStart ==
    /\ newWork = "select" /\ startCh
    /\ startCh' = FALSE
    /\ commit("newHead")
    /\ UNCHANGED <<running, heads, sets, userVars, main, rest, newTxs, armed,
                   tick, rateVars>>

NewHead ==
    /\ newWork = "select" /\ heads < MaxHeads
    /\ heads' = heads + 1
    /\ commit("newHead")
    /\ UNCHANGED <<running, startCh, sets, userVars, main, rest, newTxs, armed,
                   tick, rateVars>>

Fire ==
    /\ armed
    /\ armed' = FALSE /\ tick' = TRUE
    /\ UNCHANGED <<running, startCh, heads, sets, userVars, newWork, main, rest,
                   signal, newTxs, rateVars>>

(* The tick of the timer: nothing while the node does not mine, and the     *)
(* timer is then not set again; reset without new transactions.             *)
Tick ==
    /\ newWork = "select" /\ tick
    /\ tick' = FALSE
    /\ \/ ~running /\ UNCHANGED <<armed, newWork, signal>>
       \/ running /\ ~newTxs /\ armed' = TRUE /\ UNCHANGED <<newWork, signal>>
       \/ running /\ newTxs /\ commit("resubmit") /\ UNCHANGED armed
    /\ UNCHANGED <<running, startCh, heads, sets, userVars, main, rest, newTxs,
                   rateVars>>

SetRecommitInterval(i) ==
    /\ newWork = "select" /\ sets < MaxSets
    /\ sets' = sets + 1
    /\ minRecommit' = IF i < minRecommitInterval THEN minRecommitInterval ELSE i
    /\ recommit' = minRecommit'
    /\ UNCHANGED <<running, startCh, heads, userVars, workVars, adjusts>>

(* The end of commit: mainLoop may have filled the block by now, and counted *)
(* new transactions.                                                         *)
ResetTimer ==
    /\ newWork = "taken"
    /\ newWork' = "select" /\ armed' = TRUE /\ newTxs' = FALSE
    /\ UNCHANGED <<running, startCh, heads, sets, userVars, main, rest, signal, tick,
                   rateVars>>

Least(a, b) == IF a < b THEN a ELSE b
Greatest(a, b) == IF a < b THEN b ELSE a

(* In tenths, and truncated to milliseconds; target is 10 * recommit / ratio *)
(* for an increase and minRecommit for a decrease.                           *)
recalcRecommit(prev, ratio) ==
    IF ratio > 0
    THEN Least((9 * prev + (10 * prev) \div ratio + intervalAdjustBias) \div 10,
               maxRecommitInterval)
    ELSE Greatest((9 * prev + minRecommit - intervalAdjustBias) \div 10, minRecommit)

Adjust ==
    /\ newWork = "select" /\ adjusts # <<>>
    /\ adjusts' = Tail(adjusts)
    /\ recommit' = recalcRecommit(recommit, Head(adjusts))
    /\ UNCHANGED <<running, startCh, heads, sets, userVars, workVars, minRecommit>>

------------------------------------------------------------------------------
(* mainLoop.                                                                *)

Batches == {<<>>, <<"local">>, <<"remote">>, <<"local", "remote">>}

NextBatch(b) ==
    IF b = <<>> THEN main' = "select" /\ rest' = <<>>
                ELSE main' = Head(b) /\ rest' = Tail(b)

(* mainLoop takes the request, while newWorkLoop may stay behind in commit. *)
(* Pending transactions are local, remote, both or none; commitNewWork may  *)
(* also give up early, which is the case of none.                           *)
TakeWork(b) ==
    /\ newWork = "send" /\ main = "select"
    /\ newWork' = "taken" /\ signal' = "none"
    /\ NextBatch(b)
    /\ UNCHANGED <<running, startCh, heads, sets, userVars, newTxs, armed, tick, rateVars>>

(* commitTransactions for one batch: it is interrupted or completes.        *)
CommitBatch ==
    /\ main \in {"local", "remote"}
    /\ \E seen \in {signal, "none"} :
          IF seen = "newHead"
          THEN main' = "select" /\ rest' = <<>>
          ELSE main' = (IF seen = "resubmit" THEN "inc" ELSE "dec") /\ UNCHANGED rest
    /\ UNCHANGED <<running, startCh, heads, sets, userVars, newWork, signal,
                   newTxs, armed, tick, rateVars>>

(* The blocking send of the feedback; ratios below a tenth count as one.    *)
Feedback(r) ==
    /\ main \in {"inc", "dec"}
    /\ Len(adjusts) < resubmitAdjustChanSize
    /\ adjusts' = Append(adjusts, IF main = "dec" THEN 0 ELSE Greatest(r, 1))
    /\ NextBatch(rest)
    /\ UNCHANGED <<running, startCh, heads, sets, userVars, newWork, signal,
                   newTxs, armed, tick, minRecommit, recommit>>

(* New transactions are announced while mainLoop is free.                   *)
TxsCh ==
    /\ main = "select" /\ ~newTxs
    /\ newTxs' = TRUE
    /\ UNCHANGED <<running, startCh, heads, sets, userVars, newWork, main, rest,
                   signal, armed, tick, rateVars>>

Update == SyncStarted \/ SyncEnded
NewWorkLoop == NewStart \/ NewHead \/ Tick \/ Adjust \/ ResetTimer
MainLoop == (\E b \in Batches : TakeWork(b)) \/ CommitBatch \/ (\E r \in Ratios : Feedback(r))

ControlNext ==
    \/ Sync \/ SyncStarted \/ SyncEnded \/ Start \/ Stop
    \/ NewStart \/ NewHead \/ Fire \/ Tick \/ Adjust \/ ResetTimer
    \/ \E i \in Intervals : SetRecommitInterval(i)
    \/ \E b \in Batches : TakeWork(b)
    \/ CommitBatch
    \/ \E r \in Ratios : Feedback(r)
    \/ TxsCh

ControlSpec == ControlInit /\ [][ControlNext]_controlVars

(* The loops run.  A synchronisation that started ends.  newWorkLoop selects *)
(* at random among the channels that are ready, so feedback that keeps being *)
(* ready is taken in the end.                                                *)
ControlFairness ==
    /\ WF_controlVars(Update) /\ WF_controlVars(MainLoop) /\ WF_controlVars(NewWorkLoop)
    /\ SF_controlVars(Adjust) /\ SF_controlVars(NewStart)
    /\ WF_controlVars(LastPosted = "start" /\ Sync)

ControlLiveSpec == ControlSpec /\ ControlFairness

------------------------------------------------------------------------------
ControlTypeOK ==
    /\ running \in BOOLEAN /\ shouldStart \in BOOLEAN /\ canStart \in BOOLEAN /\ wanted \in BOOLEAN
    /\ newTxs \in BOOLEAN
    /\ syncing \in Seq({"start", "done", "failed"})
    /\ newWork \in {"select", "send", "taken"}
    /\ main \in {"select", "local", "remote", "inc", "dec"}
    /\ rest \in Seq({"local", "remote"})
    /\ signal \in {"none", "newHead", "resubmit"}
    /\ adjusts \in Seq(0 .. 10) /\ Len(adjusts) <= resubmitAdjustChanSize
    /\ minRecommit \in Nat /\ recommit \in Nat

(* Between the events of a synchronisation and with any calls of Start and  *)
(* Stop in between, the worker does not run while one is going on           *)
(* (Miner.update, as long as it listens).                                   *)
PausedWhileSyncing == ~canStart => ~running

(* Once Miner.update is idle, the worker runs if the user asked for it last *)
(* and no synchronisation is going on: no order of events and calls loses   *)
(* the wish.                                                                *)
WishKept == (canStart /\ syncing = <<>>) => (running = wanted)

(* A block is cut short only for the sake of a newer request, and for every *)
(* newer request: its signal is set while it is being filled if and only if *)
(* newWorkLoop stands ready with the next (newWorkLoop, commit).            *)
InterruptedForNewer ==
    main # "select" => (signal # "none" <=> newWork = "send")

(* newTxs counts transactions only when mainLoop is free, and newWorkLoop    *)
(* clears it after each request, before it looks at it again: the signal to  *)
(* resubmit never reaches a block that is being filled, so semi-finished     *)
(* work is never cut short for it and the feedback that would lengthen the   *)
(* interval is never sent.                                                   *)
ResubmitNeverInterrupts == main # "select" => signal # "resubmit"

(* Whatever feedback is sent and in whatever order it is taken around        *)
(* changes by the user, the interval is the one the user asked for           *)
(* (recalcRecommit, newWorkLoop).                                            *)
IntervalIsUsers == recommit = minRecommit

(* Why these hold.  While the worker may run it does what the user asked for, *)
(* otherwise shouldStart remembers it; a block being filled is signalled when *)
(* the next request is offered; once newWorkLoop has cleared newTxs no new    *)
(* transactions are counted while a block is filled, so the only feedback is  *)
(* the one that shortens the interval, and it has nothing to shorten.         *)
ControlInv ==
    /\ canStart => running = wanted
    /\ ~canStart => ~running /\ shouldStart = wanted
    /\ shouldStart => wanted
    /\ main # "select" => (signal # "none" <=> newWork = "send")
    /\ main # "select" /\ newWork # "taken" => ~newTxs
    /\ main # "select" => signal # "resubmit"
    /\ main # "inc" /\ adjusts \in Seq({0})
    /\ recommit = minRecommit

(* All of it: the worker does not run during a synchronisation and runs       *)
(* afterwards if the user asked for it last (Miner.update), a block is cut    *)
(* short only for a newer request, and the interval stays the user's          *)
(* (newWorkLoop, recalcRecommit).                                             *)
MinerControlled ==
    /\ ControlTypeOK /\ ControlInv /\ PausedWhileSyncing /\ WishKept
    /\ InterruptedForNewer /\ ResubmitNeverInterrupts /\ IntervalIsUsers

(* newWorkLoop submits new mining work upon received events: a request that *)
(* it offers is taken in the end.                                           *)
Submits == newWork = "send" ~> newWork = "select"
==============================================================================
