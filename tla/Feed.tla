-------------------------------- MODULE Feed --------------------------------
(***************************************************************************)
(* event.Feed and SubscriptionScope (event/feed.go, subscription.go), which *)
(* carry head events, transactions and logs between the parts of a node.   *)
(* Send keeps one list of channels: those that still wait for the value    *)
(* come first and are the prefix it selects on.  A subscription that is     *)
(* cancelled while a Send is blocked is removed by that Send.               *)
(***************************************************************************)
EXTENDS Integers, Sequences, FiniteSetsExt

CONSTANTS
    Subscribers,    \* subscriptions, each with a channel of its own
    Senders,        \* goroutines that call Send
    NoSender,
    Buffer,         \* bound: capacity of the channels
    MaxSends        \* bound: calls of Send per sender

FeedAssumption ==
    /\ NoSender \notin Senders /\ NoSender \notin Subscribers
    /\ Buffer \in Nat /\ MaxSends \in Nat

VARIABLES
    inbox, sendCases,
    sendLock,       \* the sender or remover that holds it, or NoSender
    send,           \* send[p]: [pc, cases (the length of the prefix), i, count]
    feedSub,        \* feedSub[s]: "none", "subscribed", "removing" or "gone"
    channel,        \* values in the channel of s
    delivered,      \* history: values put into the channel of s
    owed,           \* history: subscribers the current Send must reach
    wrapper,        \* wrapper[s]: what Track returned, "none", "live" or "nil"
    unsubCall,      \* unsubCall[s]: the subscriber's Unsubscribe: "no", "called", "done"
    scope, subs,    \* the scope is "open", "closing" or "closed"; what it tracks
    cancelling      \* the subscription Close is cancelling, or NoSender

sendVars == <<inbox, sendCases, sendLock, send, channel, delivered, owed>>
scopeVars == <<wrapper, unsubCall, scope, subs, cancelling>>
feedVars == <<sendVars, feedSub, scopeVars>>

FeedInit ==
    /\ inbox = <<>> /\ sendCases = <<>>
    /\ sendLock = NoSender
    /\ send = [p \in Senders |-> [pc |-> "idle", cases |-> 0, i |-> 1, count |-> 0]]
    /\ feedSub = [s \in Subscribers |-> "none"]
    /\ channel = [s \in Subscribers |-> <<>>]
    /\ delivered = [s \in Subscribers |-> <<>>]
    /\ owed = {}
    /\ wrapper = [s \in Subscribers |-> "none"]
    /\ unsubCall = [s \in Subscribers |-> "no"]
    /\ scope = "open" /\ subs = {} /\ cancelling = NoSender

------------------------------------------------------------------------------
find(cs, s) == Min({i \in DOMAIN cs : cs[i] = s})
delete(cs, index) == SubSeq(cs, 1, index - 1) \o SubSeq(cs, index + 1, Len(cs))
deleteCase(cs, s) == delete(cs, find(cs, s))
deactivate(cs, i, last) == [cs EXCEPT ![i] = cs[last], ![last] = cs[i]]

FeedSubscribe(s) ==
    /\ feedSub[s] = "none"
    /\ inbox' = Append(inbox, s)
    /\ feedSub' = [feedSub EXCEPT ![s] = "subscribed"]
    /\ UNCHANGED <<sendCases, sendLock, send, channel, delivered, owed, scopeVars>>

Value(p) == <<p, send[p].count>>

(* Takes the lock and adds the inbox to the cases.                         *)
Send(p) ==
    /\ send[p].pc = "idle" /\ send[p].count < MaxSends
    /\ sendLock = NoSender
    /\ sendLock' = p
    /\ sendCases' = sendCases \o inbox
    /\ inbox' = <<>>
    /\ send' = [send EXCEPT ![p] = [pc |-> "try", cases |-> Len(sendCases'),
                                    i |-> 1, count |-> @.count + 1]]
    /\ owed' = {s \in Subscribers : feedSub[s] = "subscribed" /\ unsubCall[s] = "no" /\ cancelling # s}
    /\ UNCHANGED <<channel, delivered, feedSub, scopeVars>>

trySendTo(p, i) ==
    LET s == sendCases[i] IN
    /\ Len(channel[s]) < Buffer
    /\ channel' = [channel EXCEPT ![s] = Append(@, Value(p))]
    /\ delivered' = [delivered EXCEPT ![s] = Append(@, Value(p))]
    /\ owed' = owed \ {s}
    /\ sendCases' = deactivate(sendCases, i, send[p].cases)

(* The fast path goes through the prefix once.                             *)
TrySend(p) ==
    /\ send[p].pc = "try" /\ send[p].i <= send[p].cases
    /\ \/ /\ trySendTo(p, send[p].i)
          /\ send' = [send EXCEPT ![p].cases = @ - 1]
       \/ /\ Len(channel[sendCases[send[p].i]]) = Buffer
          /\ send' = [send EXCEPT ![p].i = @ + 1]
          /\ UNCHANGED <<channel, delivered, owed, sendCases>>
    /\ UNCHANGED <<inbox, sendLock, feedSub, scopeVars>>

TryDone(p) ==
    /\ send[p].pc = "try" /\ send[p].i > send[p].cases
    /\ send' = [send EXCEPT ![p].pc = IF send[p].cases = 0 THEN "idle" ELSE "select"]
    /\ sendLock' = IF send[p].cases = 0 THEN NoSender ELSE sendLock
    /\ UNCHANGED <<inbox, sendCases, channel, delivered, owed, feedSub, scopeVars>>

SelectSend(p) ==
    /\ send[p].pc = "select"
    /\ \E i \in 1 .. send[p].cases : trySendTo(p, i)
    /\ send' = [send EXCEPT ![p].pc = "try", ![p].cases = @ - 1, ![p].i = 1]
    /\ UNCHANGED <<inbox, sendLock, feedSub, scopeVars>>

(* The prefix keeps its length.                                            *)
SelectRemoveKeeping(p, s) ==
    /\ send[p].pc = "select" /\ feedSub[s] = "removing"
    /\ sendCases' = deleteCase(sendCases, s)
    /\ send' = [send EXCEPT ![p].pc = "try", ![p].i = 1]
    /\ feedSub' = [feedSub EXCEPT ![s] = "gone"]
    /\ UNCHANGED <<inbox, sendLock, channel, delivered, owed, scopeVars>>

(* The remover hands its channel over; a case that still waits also leaves *)
(* the prefix.                                                             *)
SelectRemove(p, s) ==
    LET index == find(sendCases, s) IN
    /\ send[p].pc = "select" /\ feedSub[s] = "removing"
    /\ sendCases' = deleteCase(sendCases, s)
    /\ send' = [send EXCEPT ![p].pc = "try", ![p].i = 1,
                            ![p].cases = IF index <= @ THEN @ - 1 ELSE @]
    /\ feedSub' = [feedSub EXCEPT ![s] = "gone"]
    /\ UNCHANGED <<inbox, sendLock, channel, delivered, owed, scopeVars>>

FeedReceive(s) ==
    /\ channel[s] # <<>>
    /\ channel' = [channel EXCEPT ![s] = Tail(@)]
    /\ UNCHANGED <<inbox, sendCases, sendLock, send, delivered, owed, feedSub, scopeVars>>

------------------------------------------------------------------------------
(* feedSub.Unsubscribe runs once, for the subscriber or for the scope.     *)
Called(s) == feedSub[s] = "subscribed" /\ (unsubCall[s] = "called" \/ cancelling = s)

remove(s) ==
    /\ Called(s)
    /\ feedSub' = [feedSub EXCEPT ![s] = IF s \in Range(inbox) THEN "gone" ELSE "removing"]
    /\ inbox' = IF s \in Range(inbox) THEN deleteCase(inbox, s) ELSE inbox
    /\ UNCHANGED <<sendCases, sendLock, send, channel, delivered, owed, scopeVars>>

(* No Send is in progress: the remover takes the lock itself.              *)
removeLocked(s) ==
    /\ feedSub[s] = "removing" /\ sendLock = NoSender
    /\ sendCases' = deleteCase(sendCases, s)
    /\ feedSub' = [feedSub EXCEPT ![s] = "gone"]
    /\ UNCHANGED <<inbox, sendLock, send, channel, delivered, owed, scopeVars>>

------------------------------------------------------------------------------
(* The scope.  Its mutex is held during Close.                             *)
Track(s) ==
    /\ feedSub[s] # "none" /\ wrapper[s] = "none" /\ scope # "closing"
    /\ wrapper' = [wrapper EXCEPT ![s] = IF scope = "open" THEN "live" ELSE "nil"]
    /\ subs' = IF scope = "open" THEN subs \cup {s} ELSE subs
    /\ UNCHANGED <<sendVars, feedSub, unsubCall, scope, cancelling>>

FeedUnsubscribe(s) ==
    /\ wrapper[s] = "live" /\ unsubCall[s] = "no"
    /\ unsubCall' = [unsubCall EXCEPT ![s] = "called"]
    /\ owed' = owed \ {s}
    /\ UNCHANGED <<inbox, sendCases, sendLock, send, channel, delivered, feedSub,
                   wrapper, scope, subs, cancelling>>

UnsubscribeDone(s) ==
    /\ unsubCall[s] = "called" /\ feedSub[s] = "gone" /\ scope # "closing"
    /\ unsubCall' = [unsubCall EXCEPT ![s] = "done"]
    /\ subs' = subs \ {s}
    /\ UNCHANGED <<sendVars, feedSub, wrapper, scope, cancelling>>

CloseScope ==
    /\ scope = "open"
    /\ scope' = "closing"
    /\ UNCHANGED <<sendVars, feedSub, wrapper, unsubCall, subs, cancelling>>

CloseSub(s) ==
    /\ scope = "closing" /\ cancelling = NoSender
    /\ s \in subs /\ feedSub[s] # "gone"
    /\ cancelling' = s
    /\ owed' = owed \ {s}
    /\ UNCHANGED <<inbox, sendCases, sendLock, send, channel, delivered, feedSub,
                   wrapper, unsubCall, scope, subs>>

(* Close cancels the wrapper, which takes the scope's mutex.               *)
CloseSubDoneWrapped(s) ==
    /\ cancelling = s /\ feedSub[s] = "gone" /\ s \notin subs
    /\ cancelling' = NoSender
    /\ UNCHANGED <<sendVars, feedSub, wrapper, unsubCall, scope, subs>>

CloseSubDone(s) ==
    /\ cancelling = s /\ feedSub[s] = "gone"
    /\ cancelling' = NoSender
    /\ UNCHANGED <<sendVars, feedSub, wrapper, unsubCall, scope, subs>>

CloseDone ==
    /\ scope = "closing" /\ cancelling = NoSender
    /\ \A s \in subs : feedSub[s] = "gone"
    /\ scope' = "closed" /\ subs' = {}
    /\ UNCHANGED <<sendVars, feedSub, wrapper, unsubCall, cancelling>>

Removal(s) ==
    \/ remove(s) \/ removeLocked(s)
    \/ \E p \in Senders : SelectRemove(p, s)

Sending(p) == TrySend(p) \/ TryDone(p) \/ SelectSend(p)

FeedNext ==
    \/ \E p \in Senders : Send(p) \/ Sending(p)
    \/ \E s \in Subscribers :
        \/ FeedSubscribe(s) \/ FeedReceive(s) \/ Removal(s)
        \/ Track(s) \/ FeedUnsubscribe(s) \/ UnsubscribeDone(s)
        \/ CloseSub(s) \/ CloseSubDone(s)
    \/ CloseScope \/ CloseDone

FeedSpec == FeedInit /\ [][FeedNext]_feedVars

(* Calls that have begun go on where they can.  Receivers may stop          *)
(* receiving: "Slow subscribers are not dropped".                           *)
FeedFairness ==
    /\ \A p \in Senders : WF_feedVars(Sending(p))
    /\ \A s \in Subscribers :
        /\ WF_feedVars(Removal(s)) /\ WF_feedVars(UnsubscribeDone(s))
        /\ WF_feedVars(CloseSub(s)) /\ WF_feedVars(CloseSubDone(s))
    /\ WF_feedVars(CloseDone)

FeedLiveSpec == FeedSpec /\ FeedFairness

------------------------------------------------------------------------------
SendState == [pc : {"idle", "try", "select"}, cases : Nat, i : Nat, count : Nat]

(* The types of what senders, removers and the scope share.                 *)
FeedTypeOK ==
    /\ inbox \in Seq(Subscribers) /\ sendCases \in Seq(Subscribers)
    /\ sendLock \in Senders \cup {NoSender}
    /\ send \in [Senders -> SendState]
    /\ feedSub \in [Subscribers -> {"none", "subscribed", "removing", "gone"}]
    /\ channel \in [Subscribers -> Seq(Senders \X Nat)]
    /\ delivered \in [Subscribers -> Seq(Senders \X Nat)]
    /\ owed \subseteq Subscribers
    /\ unsubCall \in [Subscribers -> {"no", "called", "done"}]
    /\ cancelling \in Subscribers \cup {NoSender}

(* A channel is in one list at most and at most once, exactly as long as    *)
(* its subscription has not been removed.                                   *)
ListInv ==
    /\ IsInjective(inbox) /\ IsInjective(sendCases)
    /\ \A s \in Subscribers :
        /\ s \in Range(inbox) => feedSub[s] = "subscribed" /\ s \notin Range(sendCases)
        /\ s \in Range(sendCases) => feedSub[s] \in {"subscribed", "removing"}
        /\ feedSub[s] = "subscribed" => s \in Range(inbox) \cup Range(sendCases)
        /\ feedSub[s] = "removing" => s \in Range(sendCases)

(* The channels of the prefix that Send p still selects on.                 *)
Waiting(p) == {sendCases[i] : i \in 1 .. send[p].cases}

(* The lock is held by the one Send that runs.  Everyone it owes the value  *)
(* still waits in its prefix, and who waits in the prefix has not got it.   *)
PrefixInv ==
    /\ \A p \in Senders : send[p].pc # "idle" <=> sendLock = p
    /\ \A p \in Senders : sendLock = p =>
        /\ send[p].cases <= Len(sendCases) /\ send[p].i >= 1
        /\ owed \subseteq Waiting(p)
        /\ \A s \in Waiting(p) : Value(p) \notin Range(delivered[s])
    /\ \A s \in owed : feedSub[s] = "subscribed" /\ unsubCall[s] = "no" /\ cancelling # s
    /\ \A s \in Subscribers : \A v \in Range(delivered[s]) : v[2] <= send[v[1]].count

(* When a Send returns, the value is in the channel of everyone who had     *)
(* subscribed before and has not cancelled since, and nobody ever gets a    *)
(* value twice: removing a channel in the middle of a Send neither skips    *)
(* nor repeats another.                                                     *)
DeliveredOnce ==
    /\ sendLock = NoSender => owed = {}
    /\ \A s \in Subscribers : IsInjective(delivered[s])

(* Once Unsubscribe has returned, nothing is put into the channel any more. *)
SilentAfterStep == \A s \in Subscribers : feedSub[s] = "gone" => delivered'[s] = delivered[s]

(* What Send and the subscriptions promise (Feed.Send, Feed.remove).        *)
FeedSound ==
    /\ [](FeedTypeOK /\ ListInv /\ PrefixInv /\ DeliveredOnce)
    /\ [][SilentAfterStep]_feedVars

(* Unsubscribe returns although a Send is blocked, on this subscriber or on *)
(* another one.                                                             *)
FeedUnsubscribes == \A s \in Subscribers : unsubCall[s] = "called" ~> unsubCall[s] = "done"

(* Close returns in the same circumstances, whatever subscribers cancel at  *)
(* the same time.                                                           *)
ScopeCloses == scope = "closing" ~> scope = "closed"
==============================================================================
