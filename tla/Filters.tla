------------------------------ MODULE Filters ------------------------------
(****************************************************************************)
(* Log filters (eth/filters): the event loop that installs subscriptions and *)
(* sends events to them on unbuffered channels, the goroutine of each filter *)
(* that collects what it gets, and the calls that create, poll and uninstall *)
(* filters, with the loop that drops those nobody polls.  Matching of logs    *)
(* is left out: every event of its type concerns a filter.                    *)
(****************************************************************************)
EXTENDS Integers, Sequences, FiniteSets

CONSTANTS
  Filters,      \* filters and subscriptions that are created, each once
  Push,         \* those whose events are pushed to a client, not polled
  types,        \* types[f]: the events it wants, a subset of {"logs", "pending"}
  MaxEvents     \* bound: events broadcast

FiltersAssumption ==
  /\ Push \subseteq Filters /\ MaxEvents \in Nat
  /\ types \in [Filters -> SUBSET {"logs", "pending"}]

VARIABLES
  index,        \* the loop's index: <<type, filter>>
  sending,      \* filters the loop still has to send the current event to
  events,       \* events broadcast so far
  phase,        \* "none", "installed", "active"
  gor,          \* goroutine of a filter: "none", "select", "have", "end", "gone"
  have,         \* the event a goroutine holds
  filters,      \* api.filters
  buf,          \* what a filter collected
  expired,      \* deadline has fired
  toUninstall,  \* of the timeout loop
  unsub,        \* Unsubscribe: "no", "sending", "done"
  mu,           \* filtersMu, when held across a call
  got,          \* history: what the polls of a filter returned
  due           \* history: the events broadcast while it was installed

filterVars == <<index, sending, events, phase, gor, have, filters, buf, expired, toUninstall,
          unsub, mu, got, due>>

-----------------------------------------------------------------------------
(* The event loop. *)

AtSelect == sending = {}

\* An event: the filters of its type, in any order.  Nothing else is handled until
\* the last has taken it.
Broadcast(t) ==
  /\ AtSelect /\ events < MaxEvents
  /\ events' = events + 1
  /\ sending' = {f \in Filters : <<t, f>> \in index}
  /\ due' = [f \in Filters |-> IF f \in sending' THEN Append(due[f], events') ELSE due[f]]
  /\ UNCHANGED <<index, phase, gor, have, filters, buf, expired, toUninstall, unsub, mu, got>>

\* The filter's goroutine takes the event.
Deliver(f) ==
  /\ f \in sending /\ gor[f] = "select"
  /\ sending' = sending \ {f}
  /\ gor' = [gor EXCEPT ![f] = "have"]
  /\ have' = [have EXCEPT ![f] = events]
  /\ UNCHANGED <<index, events, phase, filters, buf, expired, toUninstall, unsub, mu, got, due>>

\* Unsubscribe takes it, so that the loop gets to the request.
Swallow(f) ==
  /\ f \in sending /\ unsub[f] = "sending"
  /\ sending' = sending \ {f}
  /\ UNCHANGED <<index, events, phase, gor, have, filters, buf, expired, toUninstall, unsub, mu, got, due>>

\* Mutant: the goroutine is started before the filter is known to the API.
InstallStarts(f) ==
  /\ AtSelect /\ phase[f] = "none"
  /\ index' = index \cup (types[f] \X {f})
  /\ phase' = [phase EXCEPT ![f] = "installed"]
  /\ gor' = [gor EXCEPT ![f] = "select"]
  /\ UNCHANGED <<sending, events, have, filters, buf, expired, toUninstall, unsub, mu, got, due>>

Install(f) ==
  /\ AtSelect /\ phase[f] = "none"
  /\ index' = index \cup (types[f] \X {f})
  /\ phase' = [phase EXCEPT ![f] = "installed"]
  /\ UNCHANGED <<sending, events, gor, have, filters, buf, expired, toUninstall, unsub, mu, got, due>>

\* The request arrives; err is closed and Unsubscribe returns.
Uninstall(f) ==
  /\ AtSelect /\ unsub[f] = "sending"
  /\ index' = {e \in index : e[2] # f}
  /\ unsub' = [unsub EXCEPT ![f] = "done"]
  /\ mu' = IF mu = f THEN 0 ELSE mu
  /\ UNCHANGED <<sending, events, phase, gor, have, filters, buf, expired, toUninstall, got, due>>

-----------------------------------------------------------------------------
(* The goroutine of a filter, and of a subscription. *)

Collect(f) ==
  /\ gor[f] = "have" /\ mu = 0 /\ f \notin Push
  /\ buf' = IF f \in filters THEN [buf EXCEPT ![f] = Append(@, have[f])] ELSE buf
  /\ gor' = [gor EXCEPT ![f] = "select"]
  /\ UNCHANGED <<index, sending, events, phase, have, filters, expired, toUninstall, unsub, mu, got, due>>

\* Logs: the event goes to the client; no lock is needed.
Notify(f) ==
  /\ gor[f] = "have" /\ f \in Push
  /\ got' = [got EXCEPT ![f] = Append(@, have[f])]
  /\ gor' = [gor EXCEPT ![f] = "select"]
  /\ UNCHANGED <<index, sending, events, phase, have, filters, buf, expired, toUninstall, unsub, mu, due>>

\* The client ends the subscription or is gone: the goroutine itself unsubscribes,
\* and nobody else receives.
ClientGone(f) ==
  /\ gor[f] = "select" /\ f \in Push
  /\ gor' = [gor EXCEPT ![f] = "gone"]
  /\ unsub' = [unsub EXCEPT ![f] = "sending"]
  /\ UNCHANGED <<index, sending, events, phase, have, filters, buf, expired, toUninstall, mu, got, due>>

\* err is closed: the filter is deleted, again.
SeesErr(f) ==
  /\ gor[f] = "select" /\ unsub[f] = "done"
  /\ gor' = [gor EXCEPT ![f] = "end"]
  /\ UNCHANGED <<index, sending, events, phase, have, filters, buf, expired, toUninstall, unsub, mu, got, due>>

Ends(f) ==
  /\ gor[f] = "end" /\ mu = 0
  /\ filters' = filters \ {f}
  /\ gor' = [gor EXCEPT ![f] = "gone"]
  /\ UNCHANGED <<index, sending, events, phase, have, buf, expired, toUninstall, unsub, mu, got, due>>

-----------------------------------------------------------------------------
(* The API. *)

\* NewFilter and Logs, after subscribe returned: the filter and its goroutine.
NewFilter(f) ==
  /\ phase[f] = "installed" /\ mu = 0
  /\ phase' = [phase EXCEPT ![f] = "active"]
  /\ filters' = filters \cup ({f} \ Push)
  /\ gor' = [gor EXCEPT ![f] = "select"]
  /\ UNCHANGED <<index, sending, events, have, buf, expired, toUninstall, unsub, mu, got, due>>

GetFilterChanges(f) ==
  /\ f \in filters /\ mu = 0
  /\ got' = [got EXCEPT ![f] = @ \o buf[f]]
  /\ buf' = [buf EXCEPT ![f] = <<>>]
  /\ expired' = expired \ {f}
  /\ UNCHANGED <<index, sending, events, phase, gor, have, filters, toUninstall, unsub, mu, due>>

\* Mutant: the lock is held during Unsubscribe.
UninstallLocked(f) ==
  /\ f \in filters /\ mu = 0
  /\ filters' = filters \ {f}
  /\ unsub' = [unsub EXCEPT ![f] = "sending"]
  /\ mu' = f
  /\ UNCHANGED <<index, sending, events, phase, gor, have, buf, expired, toUninstall, got, due>>

UninstallFilter(f) ==
  /\ f \in filters /\ mu = 0
  /\ filters' = filters \ {f}
  /\ unsub' = [unsub EXCEPT ![f] = "sending"]
  /\ UNCHANGED <<index, sending, events, phase, gor, have, buf, expired, toUninstall, mu, got, due>>

\* The deadline of a filter fires.
Expire(f) ==
  /\ f \in filters \ expired
  /\ expired' = expired \cup {f}
  /\ UNCHANGED <<index, sending, events, phase, gor, have, filters, buf, toUninstall, unsub, mu, got, due>>

\* timeoutLoop: filters that expired are deleted, then unsubscribed one by one.
TimeoutTick ==
  /\ toUninstall = {} /\ mu = 0
  /\ filters \cap expired # {}
  /\ toUninstall' = filters \cap expired
  /\ filters' = filters \ expired
  /\ UNCHANGED <<index, sending, events, phase, gor, have, buf, expired, unsub, mu, got, due>>

TimeoutUnsubscribes ==
  \E f \in toUninstall :
    /\ \A g \in toUninstall : unsub[g] # "sending"
    /\ \/ /\ unsub[f] = "no"
          /\ unsub' = [unsub EXCEPT ![f] = "sending"]
          /\ UNCHANGED toUninstall
       \/ /\ unsub[f] = "done"
          /\ toUninstall' = toUninstall \ {f}
          /\ UNCHANGED unsub
    /\ UNCHANGED <<index, sending, events, phase, gor, have, filters, buf, expired, mu, got, due>>

-----------------------------------------------------------------------------
FilterInit ==
  /\ index = {} /\ sending = {} /\ events = 0
  /\ phase = [f \in Filters |-> "none"]
  /\ gor = [f \in Filters |-> "none"] /\ have = [f \in Filters |-> 0]
  /\ filters = {} /\ buf = [f \in Filters |-> <<>>] /\ expired = {} /\ toUninstall = {}
  /\ unsub = [f \in Filters |-> "no"] /\ mu = 0
  /\ got = [f \in Filters |-> <<>>] /\ due = [f \in Filters |-> <<>>]

Loop(f) == Deliver(f) \/ Swallow(f) \/ Uninstall(f)

Goroutine(f) == Collect(f) \/ Notify(f) \/ SeesErr(f) \/ Ends(f)

FilterNext ==
  \/ \E t \in {"logs", "pending"} : Broadcast(t)
  \/ \E f \in Filters :
       \/ Loop(f) \/ Goroutine(f) \/ Install(f)
       \/ NewFilter(f) \/ GetFilterChanges(f) \/ UninstallFilter(f) \/ Expire(f)
       \/ ClientGone(f)
  \/ TimeoutTick \/ TimeoutUnsubscribes

FilterSpec == FilterInit /\ [][FilterNext]_filterVars

\* The loops and goroutines run; the loop's select takes a request that waits.
FilterFairness ==
  /\ \A f \in Filters : WF_filterVars(Loop(f)) /\ WF_filterVars(Goroutine(f)) /\ WF_filterVars(NewFilter(f))
  /\ \A f \in Filters : SF_filterVars(Uninstall(f))
  /\ WF_filterVars(TimeoutTick) /\ WF_filterVars(TimeoutUnsubscribes)

FilterLiveSpec == FilterSpec /\ FilterFairness

-----------------------------------------------------------------------------
(* What filters promise. *)

\* The types of what the loops share.
FilterTypeOK ==
  /\ index \subseteq {"logs", "pending"} \X Filters /\ sending \subseteq Filters /\ events \in Nat
  /\ phase \in [Filters -> {"none", "installed", "active"}]
  /\ gor \in [Filters -> {"none", "select", "have", "end", "gone"}]
  /\ have \in [Filters -> Nat]
  /\ filters \subseteq Filters /\ expired \subseteq Filters /\ toUninstall \subseteq Filters
  /\ buf \in [Filters -> Seq(Nat)] /\ got \in [Filters -> Seq(Nat)] /\ due \in [Filters -> Seq(Nat)]
  /\ unsub \in [Filters -> {"no", "sending", "done"}]
  /\ mu = 0

\* "GetFilterChanges returns the logs for the filter with the given id since last
\* time it was called": polls, what is collected and what is on its way are all the
\* events since the filter was installed, in order and once, although it is
\* installed before it is known to the API and before anyone receives.
Exact(f) ==
  got[f] \o buf[f] \o (IF gor[f] = "have" THEN <<have[f]>> ELSE <<>>)
    \o (IF f \in sending THEN <<events>> ELSE <<>>) = due[f]

PollsExact ==
  \A f \in filters \cup {g \in Push : unsub[g] = "no"} : Exact(f)

\* "this ensures that the manager won't use the event channel": after Unsubscribe
\* the loop has nothing to send to the filter, now or later.
QuietAfterUnsubscribe ==
  \A f \in Filters : unsub[f] = "done" => f \notin sending /\ \A e \in index : e[2] # f

\* Why they hold: a filter that is not known to the API yet has nothing but the event
\* the loop is sending; one that is known has a goroutine and nobody unsubscribes it; and
\* what leaves the API is no longer polled (NewFilter, UninstallFilter, timeoutLoop).
FilterInv ==
  \A f \in Filters :
    /\ phase[f] = "none" => f \notin sending /\ \A e \in index : e[2] # f
    /\ phase[f] # "active" =>
         /\ gor[f] = "none" /\ unsub[f] = "no" /\ f \notin filters \cup toUninstall
         /\ got[f] = <<>> /\ Exact(f)
    /\ phase[f] = "active" /\ unsub[f] # "done" => gor[f] \in {"select", "have", "gone"}
    /\ f \in filters => phase[f] = "active" /\ unsub[f] = "no" /\ f \notin Push \cup toUninstall
    /\ f \in toUninstall => f \notin Push
    /\ gor[f] = "gone" => unsub[f] # "no"
    /\ f \in Push \/ phase[f] # "active" => buf[f] = <<>>

\* Successive polls of a filter return what happened since its installation, once and in
\* order (GetFilterChanges), and nothing is sent to it after Unsubscribe returned.
FiltersSound == FilterTypeOK /\ FilterInv /\ PollsExact /\ QuietAfterUnsubscribe

\* The loop always gets on with the next event or request: who it sends to receives,
\* though it may be about to unsubscribe or wait for the API's lock.
LoopGoesOn == sending # {} ~> sending = {}

\* Unsubscribe returns, from a call or from the timeout loop.
FilterUnsubscribes == \A f \in Filters : unsub[f] = "sending" ~> unsub[f] = "done"

\* A filter whose deadline has passed is dropped unless it is polled.
IdleDropped ==
  \A f \in Filters : f \in expired /\ f \in filters ~> f \notin expired \/ f \notin filters
=============================================================================
