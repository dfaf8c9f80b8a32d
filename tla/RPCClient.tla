----------------------------- MODULE RPCClient -----------------------------
(****************************************************************************)
(* The RPC client of a connection that can break (rpc/client.go,             *)
(* rpc/handler.go, rpc/subscription.go): callers register with the dispatch  *)
(* loop, write under the lock that reqInit and reqSent make, reconnect when   *)
(* the write fails, and wait for their response; a read loop feeds dispatch.  *)
(* A subscription is a call whose response starts it; ending it makes a call  *)
(* of its own, from inside the subscription's quitOnce.  Forwarding           *)
(* notifications, HTTP, batches (one operation with several ids) and calls    *)
(* that the server makes are left out.                                        *)
(****************************************************************************)
EXTENDS Integers, FiniteSets

CONSTANTS
  Calls,        \* operations, each done once
  kind,         \* kind[c]: "call", "sub", or "unsub" of the sub unsubOf[c]
  unsubOf,
  Deadline,     \* calls whose context ends
  MaxConns      \* bound: connections dialled, the first included

NoOp == 0

ClientAssumption ==
  /\ NoOp \notin Calls
  /\ kind \in [Calls -> {"call", "sub", "unsub"}]
  /\ \A u \in Calls : kind[u] = "unsub" => unsubOf[u] \in Calls

VARIABLES
  pc,           \* where each caller is
  retry,        \* callers whose write is the second one
  resp,         \* op.resp: "open", "answered", "closed"
  bad,          \* op.resp was closed or written to after it was closed
  asked,        \* <<call, connection>> the server got and has not answered
  writeConn,    \* 0 when nil
  alive,        \* connections that work
  conns,        \* connections dialled
  reader,       \* connection of the read loop, 0 when none runs
  at, why,      \* dispatch: "select", "cancelSubs", "drain" or "gone", and the case
  conn,         \* connection of the current handler
  next,         \* connection that was handed over by reconnect
  reading, locked, lastOp, respWait,
  reqSent,      \* the channel of capacity one
  clientSubs,   \* subscriptions of the current handler
  once,         \* quitOnce of each sub: "none" before it starts, "free", "busy", "done"
  closing,
  closer        \* Close: "no", "called", "done"

clientVars == <<pc, retry, resp, bad, asked, writeConn, alive, conns, reader, at, why, conn,
          next, reading, locked, lastOp, respWait, reqSent, clientSubs, once, closing, closer>>
link == <<asked, writeConn, alive, conns, reader>>
disp == <<at, why, conn, next, reading, locked, lastOp, respWait, clientSubs, closing>>

-----------------------------------------------------------------------------
(* Callers. *)

Start(c) ==
  /\ pc[c] = "idle" /\ kind[c] # "unsub"
  /\ pc' = [pc EXCEPT ![c] = "init"]
  /\ UNCHANGED <<retry, resp, bad, link, disp, reqSent, once, closer>>

\* Unsubscribe, or the end of forward with an error: the call is made inside
\* quitOnce.
Unsubscribe(u) ==
  LET s == unsubOf[u] IN
  /\ kind[u] = "unsub" /\ pc[u] = "idle" /\ once[s] = "free" /\ pc[s] = "done"
  /\ once' = [once EXCEPT ![s] = "busy"]
  /\ pc' = [pc EXCEPT ![u] = "init"]
  /\ UNCHANGED <<retry, resp, bad, link, disp, reqSent, closer>>

\* A call returns; an unsubscribe leaves quitOnce.
Returns(c) ==
  /\ pc' = [pc EXCEPT ![c] = "done"]
  /\ once' = IF kind[c] = "unsub" THEN [once EXCEPT ![unsubOf[c]] = "done"] ELSE once

\* send and wait give up when the context ends or the client closes.
InitFails(c) ==
  /\ pc[c] = "init" /\ (closing \/ c \in Deadline)
  /\ Returns(c)
  /\ UNCHANGED <<retry, resp, bad, link, disp, reqSent, closer>>

\* write: on a connection that broke it may fail or seem to work.
WriteOk(c) ==
  /\ pc[c] = "write" /\ writeConn # 0
  /\ asked' = IF writeConn \in alive THEN asked \cup {<<c, writeConn>>} ELSE asked
  /\ pc' = [pc EXCEPT ![c] = "sent"]
  /\ UNCHANGED <<retry, resp, bad, writeConn, alive, conns, reader, disp, reqSent, once, closer>>

WriteFails(c) ==
  /\ pc[c] = "write" /\ writeConn # 0
  /\ writeConn \notin alive \/ c \in Deadline
  /\ writeConn' = 0
  /\ retry' = retry \cup {c}
  /\ pc' = [pc EXCEPT ![c] = IF c \in retry THEN "failed" ELSE "write"]
  /\ UNCHANGED <<resp, bad, asked, alive, conns, reader, disp, reqSent, once, closer>>

\* reconnect: dialling fails, or gives a connection for dispatch.
DialFails(c) ==
  /\ pc[c] = "write" /\ writeConn = 0
  /\ pc' = [pc EXCEPT ![c] = "failed"]
  /\ UNCHANGED <<retry, resp, bad, link, disp, reqSent, once, closer>>

Dial(c) ==
  /\ pc[c] = "write" /\ writeConn = 0 /\ conns < MaxConns
  /\ conns' = conns + 1 /\ alive' = alive \cup {conns + 1}
  /\ pc' = [pc EXCEPT ![c] = "reconnect"]
  /\ UNCHANGED <<retry, resp, bad, asked, writeConn, reader, disp, reqSent, once, closer>>

\* didClose: the new connection is closed again.
ReconnectQuits(c) ==
  /\ pc[c] = "reconnect" /\ at = "gone"
  /\ alive' = alive \ {conns}
  /\ pc' = [pc EXCEPT ![c] = "failed"]
  /\ UNCHANGED <<retry, resp, bad, asked, writeConn, conns, reader, disp, reqSent, once, closer>>

\* The result of the write goes to reqSent, which has room for it.
Sent(c) ==
  /\ pc[c] \in {"sent", "failed"} /\ reqSent = {}
  /\ reqSent' = {pc[c]}
  /\ IF pc[c] = "sent" THEN pc' = [pc EXCEPT ![c] = "wait"] /\ UNCHANGED once ELSE Returns(c)
  /\ UNCHANGED <<retry, resp, bad, link, disp, closer>>

Answered(c) ==
  /\ pc[c] = "wait" /\ resp[c] # "open"
  /\ Returns(c)
  /\ UNCHANGED <<retry, resp, bad, link, disp, reqSent, closer>>

Expires(c) ==
  /\ pc[c] = "wait" /\ c \in Deadline
  /\ pc' = [pc EXCEPT ![c] = "timeout"]
  /\ UNCHANGED <<retry, resp, bad, link, disp, reqSent, once, closer>>

TimeoutQuits(c) ==
  /\ pc[c] = "timeout" /\ closing
  /\ Returns(c)
  /\ UNCHANGED <<retry, resp, bad, link, disp, reqSent, closer>>

-----------------------------------------------------------------------------
(* The handler. *)

\* op.resp of the calls in S is closed.
Close(S) ==
  /\ resp' = [c \in Calls |-> IF c \in S THEN "closed" ELSE resp[c]]
  /\ bad' = (bad \/ \E c \in S : resp[c] = "closed")

\* cancelAllRequests, first loop: all but the one in flight are closed, all are
\* removed.
cancelAllRequests(inflight) == Close(respWait \ {inflight}) /\ respWait' = {}

\* Second loop: quitWithError(false, err) of every subscription, which waits for
\* a quitOnce that is busy.
QuitSubs ==
  /\ \A s \in clientSubs : once[s] # "busy"
  /\ once' = [c \in Calls |-> IF c \in clientSubs THEN "done" ELSE once[c]]
  /\ clientSubs' = {}

-----------------------------------------------------------------------------
(* The dispatch loop. *)

\* The read loop has a message: handleResponse.
ReadOp ==
  /\ at = "select" /\ reader # 0
  /\ \E c \in Calls :
       /\ <<c, reader>> \in asked
       /\ asked' = asked \ {<<c, reader>>}
       /\ respWait' = respWait \ {c}
       /\ IF c \notin respWait THEN UNCHANGED <<resp, bad, clientSubs, once>>
          ELSE IF kind[c] = "sub"
            THEN /\ Close({c})
                 /\ \/ clientSubs' = clientSubs \cup {c} /\ once' = [once EXCEPT ![c] = "free"]
                    \/ UNCHANGED <<clientSubs, once>>
            ELSE /\ resp' = [resp EXCEPT ![c] = "answered"]
                 /\ bad' = (bad \/ resp[c] = "closed")
                 /\ UNCHANGED <<clientSubs, once>>
  /\ UNCHANGED <<pc, retry, writeConn, alive, conns, reader, at, why, conn, next, reading, locked,
                 lastOp, reqSent, closing, closer>>

\* The read loop ends: conn.close(err, lastOp).
ReadErr ==
  /\ at = "select" /\ reader # 0 /\ reader \notin alive
  /\ reader' = 0
  /\ cancelAllRequests(lastOp)
  /\ at' = "cancelSubs" /\ why' = "readErr"
  /\ UNCHANGED <<pc, retry, asked, writeConn, alive, conns, conn, next, reading, locked, lastOp,
                 reqSent, clientSubs, once, closing, closer>>

\* A writer hands over its new connection, which it uses from then on.
Reconnected(c) ==
  /\ at = "select" /\ pc[c] = "reconnect"
  /\ pc' = [pc EXCEPT ![c] = "write"]
  /\ writeConn' = conns /\ next' = conns
  /\ IF reading
       THEN cancelAllRequests(lastOp) /\ at' = "cancelSubs" /\ why' = "reconnected"
       ELSE at' = "drain" /\ why' = "reconnected" /\ UNCHANGED <<respWait, resp, bad>>
  /\ UNCHANGED <<retry, asked, alive, conns, reader, conn, reading, locked, lastOp,
                 reqSent, clientSubs, once, closing, closer>>

\* The rest of conn.close: subscriptions quit and the codec is closed.
ConnClosed ==
  /\ at = "cancelSubs"
  /\ QuitSubs
  /\ alive' = alive \ {conn}
  /\ IF why = "readErr" THEN at' = "select" /\ reading' = FALSE
     ELSE at' = "drain" /\ UNCHANGED reading
  /\ UNCHANGED <<pc, retry, resp, bad, asked, writeConn, conns, reader, why, conn, next, locked,
                 lastOp, respWait, reqSent, closing, closer>>

\* Mutant: the new handler does not know the operation in flight.
DrainedForgets ==
  /\ at = "drain" /\ (reader # 0 => reader \notin alive)
  /\ IF why = "close"
       THEN /\ at' = "gone" /\ reader' = 0
            /\ UNCHANGED <<conn, reading, respWait, clientSubs>>
       ELSE /\ at' = "select" /\ reader' = next /\ conn' = next /\ reading' = TRUE
            /\ respWait' = {} /\ clientSubs' = {}
  /\ UNCHANGED <<pc, retry, resp, bad, asked, writeConn, alive, conns, why, next, locked, lastOp,
                 reqSent, once, closing, closer>>

\* drainRead drops what is read until the read loop has ended; then a new handler
\* takes over the operation in flight, or dispatch is gone.
Drained ==
  /\ at = "drain" /\ (reader # 0 => reader \notin alive)
  /\ IF why = "close"
       THEN /\ at' = "gone" /\ reader' = 0
            /\ UNCHANGED <<conn, reading, respWait, clientSubs>>
       ELSE /\ at' = "select" /\ reader' = next /\ conn' = next /\ reading' = TRUE
            /\ respWait' = {lastOp} /\ clientSubs' = {}
  /\ UNCHANGED <<pc, retry, resp, bad, asked, writeConn, alive, conns, why, next, locked, lastOp,
                 reqSent, once, closing, closer>>

\* A request comes in and takes the write lock.
ReqInit(c) ==
  /\ at = "select" /\ ~locked /\ pc[c] = "init"
  /\ pc' = [pc EXCEPT ![c] = "write"]
  /\ locked' = TRUE /\ lastOp' = c
  /\ respWait' = respWait \cup {c}
  /\ UNCHANGED <<retry, resp, bad, link, at, why, conn, next, reading, reqSent, clientSubs, once,
                 closing, closer>>

ReqSent ==
  /\ at = "select" /\ reqSent # {}
  /\ respWait' = IF reqSent = {"failed"} THEN respWait \ {lastOp} ELSE respWait
  /\ reqSent' = {} /\ locked' = FALSE /\ lastOp' = NoOp
  /\ UNCHANGED <<pc, retry, resp, bad, link, at, why, conn, next, reading, clientSubs, once,
                 closing, closer>>

ReqTimeout(c) ==
  /\ at = "select" /\ pc[c] = "timeout"
  /\ respWait' = respWait \ {c}
  /\ Returns(c)
  /\ UNCHANGED <<retry, resp, bad, link, at, why, conn, next, reading, locked, lastOp, reqSent,
                 clientSubs, closing, closer>>

\* Close reaches dispatch, which quits: the handler is closed only while reading.
Quit ==
  /\ at = "select" /\ closer = "called"
  /\ closing' = TRUE /\ why' = "close"
  /\ IF reading
       THEN cancelAllRequests(NoOp) /\ at' = "cancelSubs"
       ELSE at' = "gone" /\ UNCHANGED <<respWait, resp, bad>>
  /\ UNCHANGED <<pc, retry, link, conn, next, reading, locked, lastOp, reqSent, clientSubs, once, closer>>

-----------------------------------------------------------------------------
(* The user and the network. *)

CallClose ==
  /\ closer = "no"
  /\ closer' = "called"
  /\ UNCHANGED <<pc, retry, resp, bad, link, disp, reqSent, once>>

CloseReturns ==
  /\ closer = "called" /\ at = "gone"
  /\ closer' = "done"
  /\ UNCHANGED <<pc, retry, resp, bad, link, disp, reqSent, once>>

Break ==
  /\ \E k \in alive : alive' = alive \ {k}
  /\ UNCHANGED <<pc, retry, resp, bad, asked, writeConn, conns, reader, disp, reqSent, once, closer>>

-----------------------------------------------------------------------------
ClientInit ==
  /\ pc = [c \in Calls |-> "idle"] /\ retry = {} /\ resp = [c \in Calls |-> "open"] /\ bad = FALSE
  /\ asked = {} /\ writeConn = 1 /\ alive = {1} /\ conns = 1 /\ reader = 1
  /\ at = "select" /\ why = "none" /\ conn = 1 /\ next = 0 /\ reading = TRUE
  /\ locked = FALSE /\ lastOp = NoOp /\ respWait = {} /\ reqSent = {}
  /\ clientSubs = {} /\ once = [c \in Calls |-> "none"] /\ closing = FALSE /\ closer = "no"

Caller(c) ==
  \/ InitFails(c) \/ WriteOk(c) \/ WriteFails(c) \/ Dial(c) \/ DialFails(c) \/ ReconnectQuits(c)
  \/ Sent(c) \/ Answered(c) \/ Expires(c) \/ TimeoutQuits(c)

Dispatch ==
  \/ ReadOp \/ ReadErr \/ ConnClosed \/ Drained \/ ReqSent \/ Quit
  \/ \E c \in Calls : Reconnected(c) \/ ReqInit(c) \/ ReqTimeout(c)

ClientNext ==
  \/ \E c \in Calls : Start(c) \/ Unsubscribe(c) \/ Caller(c)
  \/ Dispatch \/ CallClose \/ CloseReturns \/ Break

ClientSpec == ClientInit /\ [][ClientNext]_clientVars

\* Goroutines run: every caller that can move does, and dispatch takes what waits;
\* there are finitely many operations, so nothing is overtaken for ever.  The
\* server need not answer, connections need not break.
ClientFairness ==
  /\ \A c \in Calls : WF_clientVars(Caller(c))
  /\ WF_clientVars(ReadErr) /\ WF_clientVars(ConnClosed) /\ WF_clientVars(Drained) /\ WF_clientVars(ReqSent) /\ WF_clientVars(Quit)
  /\ \A c \in Calls : WF_clientVars(Reconnected(c)) /\ WF_clientVars(ReqInit(c)) /\ WF_clientVars(ReqTimeout(c))
  /\ WF_clientVars(CloseReturns)

ClientLiveSpec == ClientSpec /\ ClientFairness

-----------------------------------------------------------------------------
(* What the client promises. *)

Writing == {"write", "reconnect", "sent", "failed"}

\* The types of what the callers and dispatch share.
ClientTypeOK ==
  /\ pc \in [Calls -> Writing \cup {"idle", "init", "wait", "timeout", "done"}]
  /\ resp \in [Calls -> {"open", "answered", "closed"}]
  /\ once \in [Calls -> {"none", "free", "busy", "done"}]
  /\ bad \in BOOLEAN /\ reading \in BOOLEAN /\ locked \in BOOLEAN /\ closing \in BOOLEAN
  /\ at \in {"select", "cancelSubs", "drain", "gone"}
  /\ why \in {"none", "readErr", "reconnected", "close"}
  /\ lastOp \in Calls \cup {NoOp}
  /\ respWait \subseteq Calls /\ clientSubs \subseteq Calls
  /\ reqSent \in {{}, {"sent"}, {"failed"}}
  /\ asked \subseteq Calls \X Nat
  /\ writeConn \in Nat /\ conns \in Nat /\ reader \in Nat /\ next \in Nat

\* A response channel is closed at most once and never written to after that, which
\* would be a panic in dispatch: responses, a read error, a reconnect and Close race
\* for it ("Remove the op so that later calls will not close op.resp again").
ChannelSafe == ~bad

\* The write lock is one: at most one caller writes or reconnects, it is the one that
\* dispatch takes to be in flight, and a new handler has an operation to take over.
WriteLocked ==
  /\ Cardinality({c \in Calls : pc[c] \in Writing}) <= 1
  /\ at # "gone" => \A c \in Calls : pc[c] \in Writing => lastOp = c /\ locked
  /\ at = "drain" /\ why = "reconnected" => lastOp # NoOp

\* While a connection is read, the operation in flight is known to the handler that
\* will see its response, also after a reconnect in the middle of its write.
InFlightKnown ==
  at = "select" /\ reading /\ lastOp # NoOp =>
    lastOp \in respWait \/ resp[lastOp] # "open" \/ pc[lastOp] = "done"

\* Why they hold: the caller that writes is the one dispatch takes to be in flight and
\* its result is still out; what waits for a response was not told yet; a request that
\* was not written has no response; and while dispatch changes the connection, the
\* operation in flight is not told (send, dispatch, cancelAllRequests).
ClientInv ==
  /\ ChannelSafe
  /\ \A c \in Calls : pc[c] \in Writing => locked /\ lastOp = c /\ reqSent = {}
  /\ ~locked => lastOp = NoOp /\ reqSent = {}
  /\ locked => lastOp # NoOp
  /\ \A c \in respWait : resp[c] # "closed" /\ pc[c] \notin {"idle", "init"}
  /\ \A c \in Calls : pc[c] \in {"idle", "init"} => resp[c] = "open"
  /\ \A c \in Calls : pc[c] \in {"write", "reconnect"} /\ ~closing => resp[c] = "open"
  /\ \A a \in asked : pc[a[1]] \notin {"idle", "init", "write", "reconnect", "failed"}
  /\ at = "cancelSubs" => why # "none"
  /\ at = "drain" => why \in {"reconnected", "close"}
  /\ closing <=> at # "select" /\ why = "close"
  /\ at = "gone" => closing
  /\ at \in {"cancelSubs", "drain"} /\ why = "reconnected" =>
       locked /\ resp[lastOp] = "open" /\ pc[lastOp] \notin {"idle", "init"}
  /\ InFlightKnown

\* A response channel is closed once and not written after that, one caller at most
\* writes or reconnects, and the operation in flight is known to the handler that will
\* see its response, also after a reconnect (dispatch, handler.close, send).
ClientSound == ClientTypeOK /\ ClientInv /\ WriteLocked

\* conn.close waits for an Unsubscribe that is inside quitOnce; its call waits for
\* dispatch, or for a response that nobody will see, and may do so for ever.
QuitWaits == at = "cancelSubs" /\ \E s \in clientSubs : once[s] = "busy"

\* A call whose context ends returns, whatever becomes of the connection, as long as
\* dispatch is not held up by an Unsubscribe (send, requestOp.wait).
CallReturns == \A c \in Deadline : pc[c] # "idle" ~> pc[c] = "done" \/ QuitWaits

\* So does Close, which waits for dispatch.
CloseEnds == closer = "called" ~> closer = "done" \/ QuitWaits

\* "If the context is canceled before the call has successfully returned, CallContext
\* returns immediately" (client.go:286).
CallAlwaysReturns == \A c \in Deadline : pc[c] = "init" ~> pc[c] = "done"

\* "Close closes the client, aborting any in-flight requests" (client.go:251).
CloseAlwaysEnds == closer = "called" ~> closer = "done"

\* "dispatch has accepted the request and will close the channel when it quits"
\* (client.go:310): nobody waits for dispatch once it is gone.
QuitSignals ==
  at = "gone" => \A c \in Calls : pc[c] = "wait" /\ c \notin Deadline => resp[c] # "open"

\* "Unsubscribe unsubscribes the notification and closes the error channel"
\* (subscription.go:244): Unsubscribe gets out of quitOnce.
UnsubscribeEnds ==
  \A u \in Calls : kind[u] = "unsub" /\ pc[u] # "idle" ~> pc[u] = "done"
=============================================================================
