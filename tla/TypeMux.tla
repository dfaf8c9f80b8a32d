------------------------------- MODULE TypeMux -------------------------------
(***************************************************************************)
(* event.TypeMux (event/event.go): the miner posts mined blocks through it *)
(* to the handler's broadcast loop, the downloader posts the events that   *)
(* pause the miner.  A delivery blocks until it is received or the         *)
(* subscription is being closed; the channel itself is closed at the end,  *)
(* and a send on a closed channel would panic.  One event type.            *)
(***************************************************************************)
EXTENDS Integers, Sequences, Functions

CONSTANTS Subs, Posters, None

Stopper == "Stop"               \* the goroutine that calls Stop

MuxAssumption == Stopper \notin Subs /\ None \notin Subs \cup {Stopper, "open", "nil"}

VARIABLES
    subm,           \* the subscriptions, in order
    mutex,          \* "free", or "held" by Stop
    stopped,
    sub,            \* sub[s]: [made, closed, closing (closed), postC, readC]
    postMu,         \* postMu[s]: [readers, writer (waiting or holding)]
    post,           \* post[p]: [pc, list, chan], the call of Post by p
    call,           \* call[s]: Unsubscribe of s: "no", "del", "close", "done"
    muxCloser,         \* muxCloser[s]: who is inside closewait of s, or None
    muxGot             \* history: events received through s

muxVars == <<subm, mutex, stopped, sub, postMu, post, call, muxCloser, muxGot>>

MuxInit ==
    /\ subm = <<>> /\ mutex = "free" /\ stopped = FALSE
    /\ sub = [s \in Subs |-> [made |-> FALSE, closed |-> FALSE, closing |-> FALSE,
                              postC |-> "open", readC |-> "open"]]
    /\ postMu = [s \in Subs |-> [readers |-> {}, writer |-> FALSE]]
    /\ post = [p \in Posters |-> [pc |-> "idle", list |-> <<>>, chan |-> None]]
    /\ call = [s \in Subs |-> "no"]
    /\ muxCloser = [s \in Subs |-> None]
    /\ muxGot = [s \in Subs |-> {}]

------------------------------------------------------------------------------
MuxSubscribe(s) ==
    /\ ~sub[s].made /\ mutex = "free"
    /\ IF stopped
       THEN /\ sub' = [sub EXCEPT ![s] = [@ EXCEPT !.made = TRUE, !.closed = TRUE,
                                                   !.readC = "closed"]]
            /\ UNCHANGED subm
       ELSE /\ sub' = [sub EXCEPT ![s].made = TRUE]
            /\ subm' = Append(subm, s)
    /\ UNCHANGED <<mutex, stopped, postMu, post, call, muxCloser, muxGot>>

(* The list is read under the mutex and used after it is released.         *)
Post(p) ==
    /\ post[p].pc = "idle" /\ mutex = "free"
    /\ post' = [post EXCEPT ![p] = IF stopped THEN [@ EXCEPT !.pc = "done"]
                                   ELSE [@ EXCEPT !.pc = "next", !.list = subm]]
    /\ UNCHANGED <<subm, mutex, stopped, sub, postMu, call, muxCloser, muxGot>>

(* A waiting writer keeps new readers out.  An event older than the        *)
(* subscription may be delivered here; the code skips it.                  *)
deliver(p) ==
    LET s == Head(post[p].list) IN
    /\ post[p].pc = "next" /\ post[p].list # <<>>
    /\ ~postMu[s].writer
    /\ postMu' = [postMu EXCEPT ![s].readers = @ \cup {p}]
    /\ post' = [post EXCEPT ![p].pc = "select", ![p].chan = sub[s].postC]
    /\ UNCHANGED <<subm, mutex, stopped, sub, call, muxCloser, muxGot>>

Delivered(p, s) ==
    /\ postMu' = [postMu EXCEPT ![s].readers = @ \ {p}]
    /\ post' = [post EXCEPT ![p] = [pc |-> "next", list |-> Tail(@.list), chan |-> None]]

MuxReceive(p) ==
    LET s == Head(post[p].list) IN
    /\ post[p].pc = "select" /\ post[p].chan = "open"
    /\ muxGot' = [muxGot EXCEPT ![s] = @ \cup {p}]
    /\ Delivered(p, s)
    /\ UNCHANGED <<subm, mutex, stopped, sub, call, muxCloser>>

Abandon(p) ==
    LET s == Head(post[p].list) IN
    /\ post[p].pc = "select" /\ sub[s].closing
    /\ Delivered(p, s)
    /\ UNCHANGED <<subm, mutex, stopped, sub, call, muxCloser, muxGot>>

PostDone(p) ==
    /\ post[p].pc = "next" /\ post[p].list = <<>>
    /\ post' = [post EXCEPT ![p].pc = "done"]
    /\ UNCHANGED <<subm, mutex, stopped, sub, postMu, call, muxCloser, muxGot>>

------------------------------------------------------------------------------
MuxUnsubscribe(s) ==
    /\ sub[s].made /\ call[s] = "no"
    /\ call' = [call EXCEPT ![s] = "del"]
    /\ UNCHANGED <<subm, mutex, stopped, sub, postMu, post, muxCloser, muxGot>>

posdelete(slice, pos) == SubSeq(slice, 1, pos - 1) \o SubSeq(slice, pos + 1, Len(slice))

del(s) ==
    /\ call[s] = "del" /\ mutex = "free"
    /\ \/ s \notin Range(subm) /\ UNCHANGED subm
       \/ \E pos \in DOMAIN subm : subm[pos] = s /\ subm' = posdelete(subm, pos)
    /\ call' = [call EXCEPT ![s] = "close"]
    /\ UNCHANGED <<mutex, stopped, sub, postMu, post, muxCloser, muxGot>>

Wants(s, c) ==
    \/ c = s /\ call[s] = "close"
    \/ c = Stopper /\ mutex = "held" /\ s \in Range(subm) /\ ~sub[s].closed

(* The channel is closed without waiting for deliveries.                   *)
closewaitAtOnce(s, c) ==
    /\ Wants(s, c) /\ muxCloser[s] = None /\ ~sub[s].closed
    /\ sub' = [sub EXCEPT ![s] = [@ EXCEPT !.closed = TRUE, !.closing = TRUE,
                                           !.postC = "nil", !.readC = "closed"]]
    /\ call' = IF c = s THEN [call EXCEPT ![s] = "done"] ELSE call
    /\ UNCHANGED <<subm, mutex, stopped, postMu, post, muxCloser, muxGot>>

(* closeMu is taken, deliveries are told to give up, and postMu is asked   *)
(* for.                                                                    *)
closewait(s, c) ==
    /\ Wants(s, c) /\ muxCloser[s] = None /\ ~sub[s].closed
    /\ sub' = [sub EXCEPT ![s].closed = TRUE, ![s].closing = TRUE]
    /\ postMu' = [postMu EXCEPT ![s].writer = TRUE]
    /\ muxCloser' = [muxCloser EXCEPT ![s] = c]
    /\ UNCHANGED <<subm, mutex, stopped, post, call, muxGot>>

closeChannel(s) ==
    /\ muxCloser[s] # None /\ postMu[s].readers = {}
    /\ sub' = [sub EXCEPT ![s].postC = "nil", ![s].readC = "closed"]
    /\ postMu' = [postMu EXCEPT ![s].writer = FALSE]
    /\ muxCloser' = [muxCloser EXCEPT ![s] = None]
    /\ call' = IF muxCloser[s] = s THEN [call EXCEPT ![s] = "done"] ELSE call
    /\ UNCHANGED <<subm, mutex, stopped, post, muxGot>>

AlreadyClosed(s) ==
    /\ call[s] = "close" /\ muxCloser[s] = None /\ sub[s].closed
    /\ call' = [call EXCEPT ![s] = "done"]
    /\ UNCHANGED <<subm, mutex, stopped, sub, postMu, post, muxCloser, muxGot>>

StopMux ==
    /\ mutex = "free" /\ ~stopped
    /\ mutex' = "held"
    /\ UNCHANGED <<subm, stopped, sub, postMu, post, call, muxCloser, muxGot>>

StopDone ==
    /\ mutex = "held"
    /\ \A s \in Range(subm) : sub[s].closed /\ muxCloser[s] = None
    /\ mutex' = "free" /\ stopped' = TRUE /\ subm' = <<>>
    /\ UNCHANGED <<sub, postMu, post, call, muxCloser, muxGot>>

Closing(s) ==
    \/ del(s) \/ closeChannel(s) \/ AlreadyClosed(s)
    \/ \E c \in {s, Stopper} : closewait(s, c)

Posting(p) == deliver(p) \/ Abandon(p) \/ PostDone(p)

MuxNext ==
    \/ \E s \in Subs : MuxSubscribe(s) \/ MuxUnsubscribe(s) \/ Closing(s)
    \/ \E p \in Posters : Post(p) \/ Posting(p) \/ MuxReceive(p)
    \/ StopMux \/ StopDone

MuxSpec == MuxInit /\ [][MuxNext]_muxVars

(* Calls that have begun go on where they can; nobody has to receive.      *)
MuxFairness ==
    /\ \A s \in Subs : WF_muxVars(Closing(s))
    /\ \A p \in Posters : WF_muxVars(Posting(p))
    /\ WF_muxVars(StopDone)

MuxLiveSpec == MuxSpec /\ MuxFairness

------------------------------------------------------------------------------
(* The types of the lists, locks and calls (TypeMux, TypeMuxSubscription).  *)
MuxTypeOK ==
    /\ subm \in Seq(Subs) /\ mutex \in {"free", "held"} /\ stopped \in BOOLEAN
    /\ sub \in [Subs -> [made: BOOLEAN, closed: BOOLEAN, closing: BOOLEAN,
                         postC: {"open", "nil"}, readC: {"open", "closed"}]]
    /\ postMu \in [Subs -> [readers: SUBSET Posters, writer: BOOLEAN]]
    /\ post \in [Posters -> [pc: {"idle", "next", "select", "done"}, list: Seq(Subs),
                             chan: {"open", "nil", None}]]
    /\ call \in [Subs -> {"no", "del", "close", "done"}]
    /\ muxCloser \in [Subs -> Subs \cup {Stopper, None}]
    /\ muxGot \in [Subs -> SUBSET Posters]

Listed(s) == sub[s].made /\ (sub[s].postC = "open" => sub[s].readC = "open")

(* Who delivers holds the read lock, of a subscription that was made before *)
(* Stop and whose channel is nil once it is closed.                         *)
DeliverInv ==
    /\ \A s \in Range(subm) : Listed(s)
    /\ \A p \in Posters :
        /\ \A s \in Range(post[p].list) : Listed(s)
        /\ post[p].pc = "select" =>
              /\ post[p].list # <<>> /\ p \in postMu[Head(post[p].list)].readers
              /\ post[p].chan = "open" => sub[Head(post[p].list)].readC = "open"

(* A subscription is in the list until it is closed or about to be, and who *)
(* closes it is its own Unsubscribe, or Stop before it returns.             *)
CloseInv ==
    /\ mutex = "held" => ~stopped
    /\ stopped => subm = <<>>
    /\ \A s \in Subs :
        /\ ~sub[s].made => ~sub[s].closed /\ sub[s].readC = "open" /\ call[s] = "no"
        /\ sub[s].made /\ ~sub[s].closed => s \in Range(subm) \/ call[s] = "close"
        /\ sub[s].closed /\ muxCloser[s] = None => sub[s].readC = "closed"
        /\ muxCloser[s] # None => sub[s].closed
        /\ muxCloser[s] = Stopper => mutex = "held" /\ s \in Range(subm)
        /\ muxCloser[s] = s => call[s] = "close"
        /\ muxCloser[s] \in {s, Stopper, None}

(* No delivery waits on a channel that has been closed, which would panic: *)
(* closewait closes it only between deliveries, and later ones see nil.    *)
NoSendOnClosed ==
    \A p \in Posters :
        post[p].pc = "select" /\ post[p].chan = "open" =>
            sub[Head(post[p].list)].readC = "open"

(* Nothing is received once Stop has returned, also not from a Post that   *)
(* read the list of subscriptions before, except through a subscription    *)
(* that is being cancelled at that moment.                                 *)
QuietAfterStopStep ==
    \A s \in Subs : stopped /\ call[s] # "close" => muxGot'[s] = muxGot[s]

(* No poster sends on a closed channel, and nothing is received after Stop,  *)
(* at every interleaving of Post with Unsubscribe and Stop (closewait,        *)
(* deliver).                                                                 *)
MuxSound ==
    /\ [](MuxTypeOK /\ DeliverInv /\ CloseInv /\ NoSendOnClosed)
    /\ [][QuietAfterStopStep]_muxVars

(* "Stop blocks until all current deliveries have finished" (Stop).        *)
StopWaits == [][stopped => muxGot' = muxGot]_muxVars

(* Cancelling and stopping end although nobody receives, and release the   *)
(* goroutine that posts.                                                   *)
ClosingEnds ==
    /\ \A s \in Subs : call[s] = "del" ~> call[s] = "done"
    /\ mutex = "held" ~> stopped
    /\ \A p \in Posters : (post[p].pc = "next" /\ stopped) ~> post[p].pc = "done"
==============================================================================
