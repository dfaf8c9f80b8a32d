----------------------------- MODULE ClientProofs ----------------------------
(***************************************************************************)
(* The interface for clients: the RPC client, for any calls, deadlines and  *)
(* reconnections, and the filter system of the server, for any filters and  *)
(* events.                                                                  *)
(***************************************************************************)
EXTENDS RPCClient, Filters, FiniteSetTheorems, SequenceTheorems, TLAPS

(* The inductive invariant.                                                *)
ClientIInv == ClientTypeOK /\ ClientInv

(* A client that has just dialled waits for nothing.                        *)
LEMMA ClientStarts == ASSUME ClientAssumption, ClientInit PROVE ClientIInv
<1>1. ClientTypeOK
  BY Zenon DEF ClientAssumption, ClientInit, ClientTypeOK, Writing, NoOp
<1>2. ClientInv
  BY DEF ClientAssumption, ClientInit, ClientInv, ChannelSafe, InFlightKnown, Writing, NoOp
<1> QED
  BY <1>1, <1>2 DEF ClientIInv

(* What a caller does.                                                       *)
LEMMA CallerTypes ==
    ASSUME ClientAssumption, ClientTypeOK, NEW c \in Calls, Caller(c) \/ Start(c) \/ Unsubscribe(c)
    PROVE  ClientTypeOK'
<1> USE DEF ClientAssumption, ClientTypeOK, link, disp, Writing, Returns, NoOp
<1>1. CASE Start(c)
  BY <1>1 DEF Start
<1>2. CASE Unsubscribe(c)
  BY <1>2 DEF Unsubscribe
<1>3. CASE InitFails(c)
  BY <1>3 DEF InitFails
<1>4. CASE WriteOk(c)
  BY <1>4 DEF WriteOk
<1>5. CASE WriteFails(c)
  BY <1>5 DEF WriteFails
<1>6. CASE Dial(c)
  BY <1>6 DEF Dial
<1>7. CASE DialFails(c)
  BY <1>7 DEF DialFails
<1>8. CASE ReconnectQuits(c)
  BY <1>8 DEF ReconnectQuits
<1>9. CASE Sent(c)
  BY <1>9 DEF Sent
<1>10. CASE Answered(c)
  BY <1>10 DEF Answered
<1>11. CASE Expires(c)
  BY <1>11 DEF Expires
<1>12. CASE TimeoutQuits(c)
  BY <1>12, SMTT(30) DEF TimeoutQuits
<1> QED
  BY <1>1, <1>2, <1>3, <1>4, <1>5, <1>6, <1>7, <1>8, <1>9, <1>10, <1>11, <1>12, Zenon DEF Caller

(* Callers keep the rest of the invariant.                                 *)
LEMMA CallerInv ==
    ASSUME ClientAssumption, ClientIInv, NEW c \in Calls, Caller(c) \/ Start(c) \/ Unsubscribe(c)
    PROVE  ClientInv'
<1> USE DEF ClientAssumption, ClientTypeOK, ClientInv, ChannelSafe, InFlightKnown, ClientIInv, link, disp, Writing, Returns, NoOp
<1>1. CASE Start(c)
  BY <1>1, SMTT(30) DEF Start
<1>2. CASE Unsubscribe(c)
  BY <1>2, SMTT(30) DEF Unsubscribe
<1>3. CASE InitFails(c)
  BY <1>3, SMTT(30) DEF InitFails
<1>4. CASE WriteOk(c)
  BY <1>4 DEF WriteOk
<1>5. CASE WriteFails(c)
  BY <1>5, SMTT(30) DEF WriteFails
<1>6. CASE Dial(c)
  BY <1>6, SMTT(30) DEF Dial
<1>7. CASE DialFails(c)
  BY <1>7, SMTT(30) DEF DialFails
<1>8. CASE ReconnectQuits(c)
  BY <1>8, SMTT(30) DEF ReconnectQuits
<1>9. CASE Sent(c)
  BY <1>9 DEF Sent
<1>10. CASE Answered(c)
  BY <1>10, SMTT(30) DEF Answered
<1>11. CASE Expires(c)
  BY <1>11, SMTT(30) DEF Expires
<1>12. CASE TimeoutQuits(c)
  BY <1>12, Zenon DEF TimeoutQuits
<1> QED
  BY <1>1, <1>2, <1>3, <1>4, <1>5, <1>6, <1>7, <1>8, <1>9, <1>10, <1>11, <1>12, Zenon DEF Caller

(* What dispatch does. *)
LEMMA DispatchTypes ==
    ASSUME ClientAssumption, ClientIInv, Dispatch \/ CallClose \/ CloseReturns \/ Break
    PROVE  ClientTypeOK'
<1> USE DEF ClientAssumption, ClientTypeOK, ClientIInv, link, disp, Writing, Returns, NoOp
<1>1. CASE ReadOp
  <2>1. PICK c \in Calls : ReadOp!2!(c)
    BY <1>1, Zenon DEF ReadOp
  <2>2. resp' \in [Calls -> {"open", "answered", "closed"}] /\ bad' \in BOOLEAN
    <3>1. CASE UNCHANGED <<resp, bad>>
      BY <3>1, Zenon
    <3>2. CASE Close({c})
      BY <3>2, Zenon DEF Close
    <3>3. CASE resp' = [resp EXCEPT ![c] = "answered"] /\ bad' = (bad \/ resp[c] = "closed")
      BY <3>3, Zenon
    <3> QED
      BY <2>1, <3>1, <3>2, <3>3, ZenonT(30)
  <2>3. once' \in [Calls -> {"none", "free", "busy", "done"}] /\ clientSubs' \subseteq Calls
    BY <2>1
  <2> QED
    BY <1>1, <2>1, <2>2, <2>3, Zenon DEF ReadOp
<1>2. CASE ReadErr
  BY <1>2 DEF ReadErr, cancelAllRequests, Close
<1>3. CASE ConnClosed
  BY <1>3, Zenon DEF ConnClosed, QuitSubs
<1>4. CASE Drained
  <2>1. why = "reconnected" => lastOp \in Calls
    BY <1>4 DEF Drained, ClientInv
  <2>2. respWait' \subseteq Calls /\ clientSubs' \subseteq Calls /\ reader' \in Nat /\ at' \in {"select", "gone"}
    BY <1>4, <2>1 DEF Drained, ClientInv
  <2>3. reading' \in BOOLEAN
    BY <1>4, Zenon DEF Drained
  <2> QED
    BY <1>4, <2>2, <2>3 DEF Drained
<1>5. CASE ReqSent
  BY <1>5, Zenon DEF ReqSent
<1>6. CASE Quit
  BY <1>6 DEF Quit, cancelAllRequests, Close
<1>7. CASE CallClose
  BY <1>7 DEF CallClose
<1>8. CASE CloseReturns
  BY <1>8, Zenon DEF CloseReturns
<1>9. CASE Break
  BY <1>9, SMTT(30) DEF Break
<1>10. ASSUME NEW c \in Calls, Reconnected(c) PROVE ClientTypeOK'
  BY <1>10 DEF Reconnected, cancelAllRequests, Close
<1>11. ASSUME NEW c \in Calls, ReqInit(c) PROVE ClientTypeOK'
  BY <1>11, Zenon DEF ReqInit
<1>12. ASSUME NEW c \in Calls, ReqTimeout(c) PROVE ClientTypeOK'
  BY <1>12, ZenonT(30) DEF ReqTimeout
<1> QED
  BY <1>1, <1>2, <1>3, <1>4, <1>5, <1>6, <1>7, <1>8, <1>9, <1>10, <1>11, <1>12, Zenon DEF Dispatch

(* The dispatch loop keeps the rest of the invariant.                      *)
LEMMA DispatchInv ==
    ASSUME ClientAssumption, ClientIInv, Dispatch \/ CallClose \/ CloseReturns \/ Break
    PROVE  ClientInv'
<1> USE DEF ClientInv, ChannelSafe, InFlightKnown, ClientAssumption, ClientTypeOK, ClientIInv, link, disp, Writing, Returns, NoOp
<1>1. CASE ReadOp
  BY <1>1 DEF ReadOp, Close
<1>2. CASE ReadErr
  BY <1>2, Zenon DEF ReadErr, cancelAllRequests, Close
<1>3. CASE ConnClosed
  BY <1>3, Zenon DEF ConnClosed, QuitSubs
<1>4. CASE Drained
  BY <1>4, SMTT(30) DEF Drained
<1>5. CASE ReqSent
  BY <1>5, Zenon DEF ReqSent
<1>6. CASE Quit
  BY <1>6, SMTT(30) DEF Quit, cancelAllRequests, Close
<1>7. CASE CallClose
  BY <1>7, Zenon DEF CallClose
<1>8. CASE CloseReturns
  BY <1>8, Zenon DEF CloseReturns
<1>9. CASE Break
  BY <1>9, Zenon DEF Break
<1>10. ASSUME NEW c \in Calls, Reconnected(c) PROVE ClientInv'
  BY <1>10 DEF Reconnected, cancelAllRequests, Close
<1>11. ASSUME NEW c \in Calls, ReqInit(c) PROVE ClientInv'
  BY <1>11, SMTT(30) DEF ReqInit
<1>12. ASSUME NEW c \in Calls, ReqTimeout(c) PROVE ClientInv'
  BY <1>12 DEF ReqTimeout
<1> QED
  BY <1>1, <1>2, <1>3, <1>4, <1>5, <1>6, <1>7, <1>8, <1>9, <1>10, <1>11, <1>12, Zenon DEF Dispatch


(* Dispatch, the callers and the connection keep the invariant.              *)
LEMMA ClientSteps ==
    ASSUME ClientAssumption, ClientIInv, [ClientNext]_clientVars
    PROVE  ClientIInv'
<1>1. CASE ClientNext
  BY <1>1, CallerTypes, CallerInv, DispatchTypes, DispatchInv DEF ClientNext, ClientIInv
<1>2. CASE UNCHANGED clientVars
  <2>1. ClientTypeOK'
    BY <1>2, SMTT(30) DEF ClientIInv, ClientTypeOK, clientVars
  <2>2. ClientInv'
    BY <1>2, Zenon DEF ClientIInv, ClientInv, ChannelSafe, InFlightKnown, clientVars
  <2> QED
    BY <2>1, <2>2, Zenon DEF ClientIInv
<1> QED
  BY <1>1, <1>2

(* The write lock is one: who writes is the operation in flight.             *)
LEMMA OneWriter == ASSUME ClientAssumption, ClientIInv PROVE WriteLocked
<1> DEFINE W == {c \in Calls : pc[c] \in Writing}
<1>1. W \subseteq {lastOp}
  BY DEF ClientIInv, ClientInv
<1>2. Cardinality(W) <= 1
  <2>1. IsFiniteSet({lastOp}) /\ Cardinality({lastOp}) = 1
    BY FS_Singleton, Zenon
  <2> QED
    BY <1>1, <2>1, FS_Subset
<1> QED
  BY <1>2, Zenon DEF WriteLocked, ClientIInv, ClientInv

(* The client closes a response channel once and writes to none that is    *)
(* closed, at most one caller writes or reconnects, and the operation in   *)
(* flight is known to the handler that will see its response, also across  *)
(* a reconnect (dispatch, handler.close, send).                            *)
THEOREM ClientIsSound ==
    ASSUME ClientAssumption
    PROVE  ClientSpec => []ClientSound
<1>1. ClientInit => ClientIInv
  BY ClientStarts
<1>2. ClientIInv /\ [ClientNext]_clientVars => ClientIInv'
  BY ClientSteps
<1>3. ClientIInv => ClientSound
  BY OneWriter DEF ClientIInv, ClientSound
<1> QED
  BY <1>1, <1>2, <1>3, PTL DEF ClientSpec

-----------------------------------------------------------------------------
(* The inductive invariant.                                                *)
FilterIInv == FilterTypeOK /\ FilterInv /\ PollsExact /\ QuietAfterUnsubscribe

(* Known(f): what is on its way to f is accounted for.                       *)
Known(f) == f \in filters \/ phase[f] # "active" \/ (f \in Push /\ unsub[f] = "no")

(* How an event moves through the parts of a filter: it is sent, the         *)
(* goroutine takes it, adds it to the buffer or notifies the client, and a   *)
(* poll takes the buffer.                                                    *)
LEMMA SentPart ==
    ASSUME NEW g \in Seq(Nat), NEW b \in Seq(Nat), NEW h \in Seq(Nat), NEW e \in Nat
    PROVE  g \o b \o h \o <<e>> = Append(g \o b \o h \o <<>>, e)
OBVIOUS

(* The goroutine takes what was sent.                                      *)
LEMMA TakenPart ==
    ASSUME NEW g \in Seq(Nat), NEW b \in Seq(Nat), NEW e \in Nat
    PROVE  g \o b \o <<e>> \o <<>> = g \o b \o <<>> \o <<e>>
OBVIOUS

(* It adds it to the buffer.                                               *)
LEMMA CollectedPart ==
    ASSUME NEW g \in Seq(Nat), NEW b \in Seq(Nat), NEW s \in Seq(Nat), NEW e \in Nat
    PROVE  g \o Append(b, e) \o <<>> \o s = g \o b \o <<e>> \o s
<1>1. Append(b, e) = b \o <<e>> /\ b \o <<e>> \in Seq(Nat)
  BY AppendIsConcat
<1> QED
  BY <1>1, SMTT(30)

(* It notifies the client.                                                 *)
LEMMA NotifiedPart ==
    ASSUME NEW g \in Seq(Nat), NEW s \in Seq(Nat), NEW e \in Nat
    PROVE  Append(g, e) \o <<>> \o <<>> \o s = g \o <<>> \o <<e>> \o s
<1>1. Append(g, e) = g \o <<e>> /\ g \o <<e>> \in Seq(Nat)
  BY AppendIsConcat
<1> QED
  BY <1>1

(* A poll takes the buffer.                                                *)
LEMMA PolledPart ==
    ASSUME NEW g \in Seq(Nat), NEW b \in Seq(Nat), NEW h \in Seq(Nat), NEW s \in Seq(Nat)
    PROVE  (g \o b) \o <<>> \o h \o s = g \o b \o h \o s
OBVIOUS

(* Every step keeps the types.                                             *)
LEMMA FilterTypes ==
    ASSUME FiltersAssumption, FilterIInv, FilterNext
    PROVE  FilterTypeOK'
<1> USE DEF FilterTypeOK, FilterIInv, FiltersAssumption
<1>1. ASSUME NEW t \in {"logs", "pending"}, Broadcast(t) PROVE FilterTypeOK'
  BY <1>1 DEF Broadcast, AtSelect
<1>2. ASSUME NEW f \in Filters, Deliver(f) PROVE FilterTypeOK'
  BY <1>2, Zenon DEF Deliver, AtSelect
<1>3. ASSUME NEW f \in Filters, Swallow(f) PROVE FilterTypeOK'
  BY <1>3, Zenon DEF Swallow, AtSelect
<1>4. ASSUME NEW f \in Filters, Uninstall(f) PROVE FilterTypeOK'
  BY <1>4, Zenon DEF Uninstall, AtSelect
<1>5. ASSUME NEW f \in Filters, Collect(f) PROVE FilterTypeOK'
  BY <1>5, SMTT(30) DEF Collect, AtSelect
<1>6. ASSUME NEW f \in Filters, Notify(f) PROVE FilterTypeOK'
  BY <1>6, SMTT(30) DEF Notify, AtSelect
<1>7. ASSUME NEW f \in Filters, SeesErr(f) PROVE FilterTypeOK'
  BY <1>7 DEF SeesErr, AtSelect
<1>8. ASSUME NEW f \in Filters, Ends(f) PROVE FilterTypeOK'
  BY <1>8, Zenon DEF Ends, AtSelect
<1>9. ASSUME NEW f \in Filters, Install(f) PROVE FilterTypeOK'
  BY <1>9, Zenon DEF Install, AtSelect
<1>10. ASSUME NEW f \in Filters, NewFilter(f) PROVE FilterTypeOK'
  BY <1>10, Zenon DEF NewFilter, AtSelect
<1>11. ASSUME NEW f \in Filters, GetFilterChanges(f) PROVE FilterTypeOK'
  BY <1>11, SMTT(30) DEF GetFilterChanges, AtSelect
<1>12. ASSUME NEW f \in Filters, UninstallFilter(f) PROVE FilterTypeOK'
  BY <1>12, Zenon DEF UninstallFilter, AtSelect
<1>13. ASSUME NEW f \in Filters, Expire(f) PROVE FilterTypeOK'
  BY <1>13, Zenon DEF Expire, AtSelect
<1>14. ASSUME NEW f \in Filters, ClientGone(f) PROVE FilterTypeOK'
  BY <1>14, Zenon DEF ClientGone, AtSelect
<1>15. CASE TimeoutTick
  BY <1>15, Zenon DEF TimeoutTick
<1>16. CASE TimeoutUnsubscribes
  BY <1>16, Zenon DEF TimeoutUnsubscribes
<1> HIDE DEF FilterTypeOK, FilterIInv, FiltersAssumption
<1> QED
  BY <1>1, <1>2, <1>3, <1>4, <1>5, <1>6, <1>7, <1>8, <1>9, <1>10, <1>11, <1>12, <1>13, <1>14, <1>15, <1>16, Zenon DEF FilterNext, Loop, Goroutine

(* Every step keeps a filter that has unsubscribed quiet.                  *)
LEMMA FilterQuiet ==
    ASSUME FiltersAssumption, FilterIInv, FilterNext
    PROVE  QuietAfterUnsubscribe'
<1> USE DEF FilterTypeOK, FilterIInv, FilterInv, QuietAfterUnsubscribe, FiltersAssumption
<1>1. ASSUME NEW t \in {"logs", "pending"}, Broadcast(t) PROVE QuietAfterUnsubscribe'
  BY <1>1 DEF Broadcast, AtSelect
<1>2. ASSUME NEW f \in Filters, Deliver(f) PROVE QuietAfterUnsubscribe'
  BY <1>2, Zenon DEF Deliver, AtSelect
<1>3. ASSUME NEW f \in Filters, Swallow(f) PROVE QuietAfterUnsubscribe'
  BY <1>3, Zenon DEF Swallow, AtSelect
<1>4. ASSUME NEW f \in Filters, Uninstall(f) PROVE QuietAfterUnsubscribe'
  BY <1>4, SMTT(30) DEF Uninstall, AtSelect
<1>5. ASSUME NEW f \in Filters, Collect(f) PROVE QuietAfterUnsubscribe'
  BY <1>5, Zenon DEF Collect, AtSelect
<1>6. ASSUME NEW f \in Filters, Notify(f) PROVE QuietAfterUnsubscribe'
  BY <1>6, Zenon DEF Notify, AtSelect
<1>7. ASSUME NEW f \in Filters, SeesErr(f) PROVE QuietAfterUnsubscribe'
  BY <1>7, Zenon DEF SeesErr, AtSelect
<1>8. ASSUME NEW f \in Filters, Ends(f) PROVE QuietAfterUnsubscribe'
  BY <1>8, Zenon DEF Ends, AtSelect
<1>9. ASSUME NEW f \in Filters, Install(f) PROVE QuietAfterUnsubscribe'
  BY <1>9, SMTT(30) DEF Install, AtSelect
<1>10. ASSUME NEW f \in Filters, NewFilter(f) PROVE QuietAfterUnsubscribe'
  BY <1>10, Zenon DEF NewFilter, AtSelect
<1>11. ASSUME NEW f \in Filters, GetFilterChanges(f) PROVE QuietAfterUnsubscribe'
  BY <1>11, Zenon DEF GetFilterChanges, AtSelect
<1>12. ASSUME NEW f \in Filters, UninstallFilter(f) PROVE QuietAfterUnsubscribe'
  BY <1>12, SMTT(30) DEF UninstallFilter, AtSelect
<1>13. ASSUME NEW f \in Filters, Expire(f) PROVE QuietAfterUnsubscribe'
  BY <1>13, Zenon DEF Expire, AtSelect
<1>14. ASSUME NEW f \in Filters, ClientGone(f) PROVE QuietAfterUnsubscribe'
  BY <1>14, SMTT(30) DEF ClientGone, AtSelect
<1>15. CASE TimeoutTick
  BY <1>15, Zenon DEF TimeoutTick
<1>16. CASE TimeoutUnsubscribes
  BY <1>16 DEF TimeoutUnsubscribes
<1> HIDE DEF FilterTypeOK, FilterIInv, FilterInv, QuietAfterUnsubscribe, FiltersAssumption
<1> QED
  BY <1>1, <1>2, <1>3, <1>4, <1>5, <1>6, <1>7, <1>8, <1>9, <1>10, <1>11, <1>12, <1>13, <1>14, <1>15, <1>16, Zenon DEF FilterNext, Loop, Goroutine

(* The parts of what a filter was sent, in a state.                          *)
LEMMA ExactParts ==
    ASSUME FilterIInv, NEW g \in Filters
    PROVE  /\ got[g] \in Seq(Nat) /\ buf[g] \in Seq(Nat) /\ due[g] \in Seq(Nat) /\ have[g] \in Nat /\ events \in Nat
           /\ <<>> \in Seq(Nat) /\ <<have[g]>> \in Seq(Nat) /\ <<events>> \in Seq(Nat)
           /\ Known(g) => Exact(g)
BY DEF FilterIInv, FilterTypeOK, FilterInv, PollsExact, Known

(* A step that does not concern g.                                           *)
LEMMA ExactStays ==
    ASSUME FilterIInv, NEW g \in Filters, Known(g),
           got'[g] = got[g], buf'[g] = buf[g], due'[g] = due[g],
           gor'[g] = "have" <=> gor[g] = "have", have'[g] = have[g],
           g \in sending' <=> g \in sending, events' = events
    PROVE  Exact(g)'
BY ExactParts, Zenon DEF Exact

(* Every step keeps what is on its way to a filter accounted for.          *)
LEMMA FilterExact ==
    ASSUME FiltersAssumption, FilterIInv, FilterNext
    PROVE  \A g \in Filters : Known(g)' => Exact(g)'
<1>1. ASSUME NEW t \in {"logs", "pending"}, Broadcast(t) PROVE \A g \in Filters : Known(g)' => Exact(g)'
  <2> SUFFICES ASSUME NEW g \in Filters, Known(g)' PROVE Exact(g)'
    OBVIOUS
  <2>1. Known(g) /\ g \notin sending
    BY <1>1 DEF Broadcast, AtSelect, Known, FilterIInv, FilterTypeOK, FilterInv
  <2>2. PICK h \in Seq(Nat) : h = IF gor[g] = "have" THEN <<have[g]>> ELSE <<>>
    BY ExactParts, Zenon
  <2>3. got[g] \o buf[g] \o h \o <<>> = due[g]
    BY <2>1, <2>2, ExactParts, ZenonT(30) DEF Exact
  <2>4. got[g] \in Seq(Nat) /\ buf[g] \in Seq(Nat) /\ events' \in Nat
    BY <1>1, ExactParts, SMTT(30) DEF Broadcast
  <2>5. got[g] \o buf[g] \o h \o <<events'>> = Append(got[g] \o buf[g] \o h \o <<>>, events')
    BY <2>4, SentPart, Zenon
  <2> QED
    BY <1>1, <2>2, <2>3, <2>5, Zenon DEF Broadcast, Exact, FilterIInv, FilterTypeOK
<1>2. ASSUME NEW f \in Filters, Deliver(f) PROVE \A g \in Filters : Known(g)' => Exact(g)'
  <2> SUFFICES ASSUME NEW g \in Filters, Known(g)' PROVE Exact(g)'
    OBVIOUS
  <2>1. Known(g)
    BY <1>2, Zenon DEF Deliver, Known, FilterIInv, FilterTypeOK, FilterInv
  <2>4. /\ got[g] \in Seq(Nat) /\ buf[g] \in Seq(Nat) /\ have[g] \in Nat /\ events \in Nat
        /\ <<>> \in Seq(Nat)
    BY ExactParts, Zenon
  <2>2. CASE g # f
    BY <1>2, <2>1, <2>2, ExactStays, Zenon DEF Deliver, FilterIInv, FilterTypeOK
  <2>3. CASE g = f
    <3>1. got[g] \o buf[g] \o <<>> \o <<events>> = due[g]
      BY <1>2, <2>1, <2>3, ExactParts, Zenon DEF Deliver, Exact
    <3>2. got[g] \o buf[g] \o <<events>> \o <<>> = due[g]
      BY <2>4, <3>1, TakenPart, Zenon
    <3> QED
      BY <1>2, <2>3, <3>2, Zenon DEF Deliver, Exact, FilterIInv, FilterTypeOK
  <2> QED
    BY <2>2, <2>3
<1>3. ASSUME NEW f \in Filters, Swallow(f) PROVE \A g \in Filters : Known(g)' => Exact(g)'
  <2> SUFFICES ASSUME NEW g \in Filters, Known(g)' PROVE Exact(g)'
    OBVIOUS
  <2>1. Known(g) /\ g # f
    BY <1>3 DEF Swallow, Known, FilterIInv, FilterTypeOK, FilterInv
  <2> QED
    BY <1>3, <2>1, ExactStays, Zenon DEF Swallow, FilterIInv, FilterTypeOK
<1>4. ASSUME NEW f \in Filters, Uninstall(f) PROVE \A g \in Filters : Known(g)' => Exact(g)'
  <2> SUFFICES ASSUME NEW g \in Filters, Known(g)' PROVE Exact(g)'
    OBVIOUS
  <2>1. Known(g)
    BY <1>4, Zenon DEF Uninstall, Known, FilterIInv, FilterTypeOK, FilterInv
  <2> QED
    BY <1>4, <2>1, ExactStays, Zenon DEF Uninstall, FilterIInv, FilterTypeOK
<1>5. ASSUME NEW f \in Filters, Collect(f) PROVE \A g \in Filters : Known(g)' => Exact(g)'
  <2> SUFFICES ASSUME NEW g \in Filters, Known(g)' PROVE Exact(g)'
    OBVIOUS
  <2>1. Known(g)
    BY <1>5, Zenon DEF Collect, Known, FilterIInv, FilterTypeOK, FilterInv
  <2>4. /\ got[g] \in Seq(Nat) /\ buf[g] \in Seq(Nat) /\ have[g] \in Nat /\ events \in Nat
        /\ <<>> \in Seq(Nat)
    BY ExactParts
  <2>2. CASE g # f
    BY <1>5, <2>1, <2>2, ExactStays, Zenon DEF Collect, FilterIInv, FilterTypeOK
  <2>3. CASE g = f
    <3>1. PICK s \in Seq(Nat) : s = IF g \in sending THEN <<events>> ELSE <<>>
      BY ExactParts, Zenon
    <3>2. got[g] \o buf[g] \o <<have[g]>> \o s = due[g]
      BY <1>5, <2>1, <2>3, <3>1, ExactParts, Zenon DEF Collect, Exact
    <3>3. got[g] \o Append(buf[g], have[g]) \o <<>> \o s = got[g] \o buf[g] \o <<have[g]>> \o s
      <4>1. PICK x \in Seq(Nat) : x = got[g]
        BY <2>4, Zenon
      <4>2. PICK y \in Seq(Nat) : y = buf[g]
        BY <2>4, Zenon
      <4>3. PICK n \in Nat : n = have[g]
        BY <2>4, Zenon
      <4>4. x \o Append(y, n) \o <<>> \o s = x \o y \o <<n>> \o s
        BY CollectedPart, ZenonT(30)
      <4> QED
        BY <4>1, <4>2, <4>3, <4>4, Zenon
    <3>4. g \in filters
      BY <1>5, <2>1, <2>3 DEF Collect, Known, FilterIInv, FilterTypeOK, FilterInv
    <3>5. buf'[g] = Append(buf[g], have[g]) /\ gor'[g] # "have" /\ got'[g] = got[g]
          /\ due'[g] = due[g] /\ s = IF g \in sending' THEN <<events'>> ELSE <<>>
      BY <1>5, <2>3, <3>1, <3>4, Zenon DEF Collect, FilterIInv, FilterTypeOK
    <3> QED
      BY <3>2, <3>3, <3>5, Zenon DEF Exact
  <2> QED
    BY <2>2, <2>3
<1>6. ASSUME NEW f \in Filters, Notify(f) PROVE \A g \in Filters : Known(g)' => Exact(g)'
  <2> SUFFICES ASSUME NEW g \in Filters, Known(g)' PROVE Exact(g)'
    OBVIOUS
  <2>1. Known(g)
    BY <1>6, Zenon DEF Notify, Known, FilterIInv, FilterTypeOK, FilterInv
  <2>4. /\ got[g] \in Seq(Nat) /\ buf[g] \in Seq(Nat) /\ have[g] \in Nat /\ events \in Nat
        /\ <<>> \in Seq(Nat)
    BY ExactParts
  <2>2. CASE g # f
    BY <1>6, <2>1, <2>2, ExactStays, Zenon DEF Notify, FilterIInv, FilterTypeOK
  <2>3. CASE g = f
    <3>1. PICK s \in Seq(Nat) : s = IF g \in sending THEN <<events>> ELSE <<>>
      BY ExactParts, Zenon
    <3>2. got[g] \o <<>> \o <<have[g]>> \o s = due[g] /\ buf[g] = <<>>
      <4>1. buf[g] = <<>>
        BY <1>6, <2>3 DEF Notify, FilterIInv, FilterTypeOK, FilterInv
      <4> QED
        BY <1>6, <2>1, <2>3, <3>1, <4>1, ExactParts, Zenon DEF Notify, Exact
    <3>3. Append(got[g], have[g]) \o <<>> \o <<>> \o s = got[g] \o <<>> \o <<have[g]>> \o s
      BY <2>4, NotifiedPart, Zenon
    <3>4. got'[g] = Append(got[g], have[g]) /\ gor'[g] # "have" /\ buf'[g] = <<>>
          /\ due'[g] = due[g] /\ s = IF g \in sending' THEN <<events'>> ELSE <<>>
      BY <1>6, <2>3, <3>1, <3>2, Zenon DEF Notify, FilterIInv, FilterTypeOK, FilterInv
    <3> QED
      BY <3>2, <3>3, <3>4, Zenon DEF Exact
  <2> QED
    BY <2>2, <2>3
<1>7. ASSUME NEW f \in Filters, SeesErr(f) PROVE \A g \in Filters : Known(g)' => Exact(g)'
  <2> SUFFICES ASSUME NEW g \in Filters, Known(g)' PROVE Exact(g)'
    OBVIOUS
  <2>1. Known(g)
    BY <1>7, Zenon DEF SeesErr, Known, FilterIInv, FilterTypeOK, FilterInv
  <2> QED
    BY <1>7, <2>1, ExactStays, Zenon DEF SeesErr, FilterIInv, FilterTypeOK
<1>8. ASSUME NEW f \in Filters, Ends(f) PROVE \A g \in Filters : Known(g)' => Exact(g)'
  <2> SUFFICES ASSUME NEW g \in Filters, Known(g)' PROVE Exact(g)'
    OBVIOUS
  <2>1. Known(g)
    BY <1>8, Zenon DEF Ends, Known, FilterIInv, FilterTypeOK, FilterInv
  <2> QED
    BY <1>8, <2>1, ExactStays, Zenon DEF Ends, FilterIInv, FilterTypeOK
<1>9. ASSUME NEW f \in Filters, Install(f) PROVE \A g \in Filters : Known(g)' => Exact(g)'
  <2> SUFFICES ASSUME NEW g \in Filters, Known(g)' PROVE Exact(g)'
    OBVIOUS
  <2>1. Known(g)
    BY <1>9, Zenon DEF Install, Known, FilterIInv, FilterTypeOK, FilterInv
  <2> QED
    BY <1>9, <2>1, ExactStays, Zenon DEF Install, FilterIInv, FilterTypeOK
<1>10. ASSUME NEW f \in Filters, NewFilter(f) PROVE \A g \in Filters : Known(g)' => Exact(g)'
  <2> SUFFICES ASSUME NEW g \in Filters, Known(g)' PROVE Exact(g)'
    OBVIOUS
  <2>1. Known(g)
    BY <1>10, Zenon DEF NewFilter, Known, FilterIInv, FilterTypeOK, FilterInv
  <2> QED
    BY <1>10, <2>1, ExactStays, Zenon DEF NewFilter, FilterIInv, FilterTypeOK, FilterInv
<1>11. ASSUME NEW f \in Filters, GetFilterChanges(f) PROVE \A g \in Filters : Known(g)' => Exact(g)'
  <2> SUFFICES ASSUME NEW g \in Filters, Known(g)' PROVE Exact(g)'
    OBVIOUS
  <2>1. Known(g)
    BY <1>11, Zenon DEF GetFilterChanges, Known, FilterIInv, FilterTypeOK, FilterInv
  <2>4. /\ got[g] \in Seq(Nat) /\ buf[g] \in Seq(Nat) /\ have[g] \in Nat /\ events \in Nat
        /\ <<>> \in Seq(Nat)
    BY ExactParts
  <2>2. CASE g # f
    BY <1>11, <2>1, <2>2, ExactStays, Zenon DEF GetFilterChanges, FilterIInv, FilterTypeOK
  <2>3. CASE g = f
    <3>1. PICK s \in Seq(Nat) : s = IF g \in sending THEN <<events>> ELSE <<>>
      BY ExactParts, Zenon
    <3>2. PICK h \in Seq(Nat) : h = IF gor[g] = "have" THEN <<have[g]>> ELSE <<>>
      BY ExactParts, Zenon
    <3>3. got[g] \o buf[g] \o h \o s = due[g]
      BY <2>1, <2>3, <3>1, <3>2, ExactParts, Zenon DEF Exact
    <3>4. (got[g] \o buf[g]) \o <<>> \o h \o s = got[g] \o buf[g] \o h \o s
      BY <2>4, PolledPart
    <3>5. got'[g] = got[g] \o buf[g] /\ buf'[g] = <<>> /\ due'[g] = due[g]
          /\ s = (IF g \in sending' THEN <<events'>> ELSE <<>>)
          /\ h = IF gor'[g] = "have" THEN <<have'[g]>> ELSE <<>>
      BY <1>11, <2>3, <3>1, <3>2, Zenon DEF GetFilterChanges, FilterIInv, FilterTypeOK
    <3> QED
      BY <3>3, <3>4, <3>5, Zenon DEF Exact
  <2> QED
    BY <2>2, <2>3
<1>12. ASSUME NEW f \in Filters, UninstallFilter(f) PROVE \A g \in Filters : Known(g)' => Exact(g)'
  <2> SUFFICES ASSUME NEW g \in Filters, Known(g)' PROVE Exact(g)'
    OBVIOUS
  <2>1. Known(g)
    BY <1>12, Zenon DEF UninstallFilter, Known, FilterIInv, FilterTypeOK, FilterInv
  <2> QED
    BY <1>12, <2>1, ExactStays, Zenon DEF UninstallFilter, FilterIInv, FilterTypeOK
<1>13. ASSUME NEW f \in Filters, Expire(f) PROVE \A g \in Filters : Known(g)' => Exact(g)'
  <2> SUFFICES ASSUME NEW g \in Filters, Known(g)' PROVE Exact(g)'
    OBVIOUS
  <2>1. Known(g)
    BY <1>13 DEF Expire, Known, FilterIInv, FilterTypeOK, FilterInv
  <2> QED
    BY <1>13, <2>1, ExactStays, Zenon DEF Expire, FilterIInv, FilterTypeOK
<1>14. ASSUME NEW f \in Filters, ClientGone(f) PROVE \A g \in Filters : Known(g)' => Exact(g)'
  <2> SUFFICES ASSUME NEW g \in Filters, Known(g)' PROVE Exact(g)'
    OBVIOUS
  <2>1. Known(g)
    BY <1>14, Zenon DEF ClientGone, Known, FilterIInv, FilterTypeOK, FilterInv
  <2> QED
    BY <1>14, <2>1, ExactStays, Zenon DEF ClientGone, FilterIInv, FilterTypeOK
<1>15. CASE TimeoutTick
  <2> SUFFICES ASSUME NEW g \in Filters, Known(g)' PROVE Exact(g)'
    OBVIOUS
  <2>1. Known(g)
    BY <1>15 DEF TimeoutTick, Known, FilterIInv, FilterTypeOK, FilterInv
  <2> QED
    BY <1>15, <2>1, ExactStays, Zenon DEF TimeoutTick, FilterIInv, FilterTypeOK
<1>16. CASE TimeoutUnsubscribes
  <2> SUFFICES ASSUME NEW g \in Filters, Known(g)' PROVE Exact(g)'
    OBVIOUS
  <2>1. Known(g)
    <3>1. PICK f \in toUninstall : TimeoutUnsubscribes!(f)
      BY <1>16, Zenon DEF TimeoutUnsubscribes
    <3>2. unsub \in [Filters -> {"no", "sending", "done"}] /\ toUninstall \subseteq Filters /\ f \notin Push
      BY <3>1 DEF FilterIInv, FilterTypeOK, FilterInv
    <3>3. filters' = filters /\ phase' = phase /\ (g \in Push => unsub'[g] = unsub[g])
      BY <3>1, <3>2
    <3> QED
      BY <3>3 DEF Known
  <2> QED
    BY <1>16, <2>1, ExactStays, Zenon DEF TimeoutUnsubscribes, FilterIInv, FilterTypeOK
<1> QED
  BY <1>1, <1>2, <1>3, <1>4, <1>5, <1>6, <1>7, <1>8, <1>9, <1>10, <1>11, <1>12, <1>13, <1>14, <1>15, <1>16, Zenon DEF FilterNext, Loop, Goroutine

(* What FilterInv says of a filter beside its events.                        *)
Placed(f) ==
  /\ phase[f] = "none" => f \notin sending /\ \A e \in index : e[2] # f
  /\ phase[f] # "active" =>
       gor[f] = "none" /\ unsub[f] = "no" /\ f \notin filters \cup toUninstall /\ got[f] = <<>>
  /\ phase[f] = "active" /\ unsub[f] # "done" => gor[f] \in {"select", "have", "gone"}
  /\ f \in filters => phase[f] = "active" /\ unsub[f] = "no" /\ f \notin Push \cup toUninstall
  /\ f \in toUninstall => f \notin Push
  /\ gor[f] = "gone" => unsub[f] # "no"
  /\ f \in Push \/ phase[f] # "active" => buf[f] = <<>>

(* Installing, polling and uninstalling a filter keep its stages in step.    *)
LEMMA FilterPlaced ==
    ASSUME FiltersAssumption, FilterIInv, FilterNext
    PROVE  \A g \in Filters : Placed(g)'
<1> USE DEF FilterTypeOK, FilterIInv, FilterInv, FiltersAssumption, Placed
<1>1. ASSUME NEW t \in {"logs", "pending"}, Broadcast(t) PROVE \A g \in Filters : Placed(g)'
  BY <1>1 DEF Broadcast, AtSelect
<1>2. ASSUME NEW f \in Filters, Deliver(f) PROVE \A g \in Filters : Placed(g)'
  BY <1>2 DEF Deliver, AtSelect
<1>3. ASSUME NEW f \in Filters, Swallow(f) PROVE \A g \in Filters : Placed(g)'
  BY <1>3 DEF Swallow, AtSelect
<1>4. ASSUME NEW f \in Filters, Uninstall(f) PROVE \A g \in Filters : Placed(g)'
  BY <1>4, SMTT(30) DEF Uninstall, AtSelect
<1>5. ASSUME NEW f \in Filters, Collect(f) PROVE \A g \in Filters : Placed(g)'
  BY <1>5, SMTT(30) DEF Collect, AtSelect
<1>6. ASSUME NEW f \in Filters, Notify(f) PROVE \A g \in Filters : Placed(g)'
  BY <1>6, SMTT(30) DEF Notify, AtSelect
<1>7. ASSUME NEW f \in Filters, SeesErr(f) PROVE \A g \in Filters : Placed(g)'
  BY <1>7, SMTT(30) DEF SeesErr, AtSelect
<1>8. ASSUME NEW f \in Filters, Ends(f) PROVE \A g \in Filters : Placed(g)'
  BY <1>8, SMTT(30) DEF Ends, AtSelect
<1>9. ASSUME NEW f \in Filters, Install(f) PROVE \A g \in Filters : Placed(g)'
  BY <1>9, SMTT(30) DEF Install, AtSelect
<1>10. ASSUME NEW f \in Filters, NewFilter(f) PROVE \A g \in Filters : Placed(g)'
  BY <1>10, SMTT(30) DEF NewFilter, AtSelect
<1>11. ASSUME NEW f \in Filters, GetFilterChanges(f) PROVE \A g \in Filters : Placed(g)'
  BY <1>11, SMTT(30) DEF GetFilterChanges, AtSelect
<1>12. ASSUME NEW f \in Filters, UninstallFilter(f) PROVE \A g \in Filters : Placed(g)'
  BY <1>12, SMTT(30) DEF UninstallFilter, AtSelect
<1>13. ASSUME NEW f \in Filters, Expire(f) PROVE \A g \in Filters : Placed(g)'
  BY <1>13, Zenon DEF Expire, AtSelect
<1>14. ASSUME NEW f \in Filters, ClientGone(f) PROVE \A g \in Filters : Placed(g)'
  BY <1>14 DEF ClientGone, AtSelect
<1>15. CASE TimeoutTick
  BY <1>15, Zenon DEF TimeoutTick
<1>16. CASE TimeoutUnsubscribes
  BY <1>16, SMTT(30) DEF TimeoutUnsubscribes
<1> HIDE DEF FilterTypeOK, FilterIInv, FilterInv, FiltersAssumption, Placed
<1>17. ASSUME NEW f \in Filters, Loop(f) PROVE \A g \in Filters : Placed(g)'
  BY <1>2, <1>3, <1>4, <1>17, Zenon DEF Loop
<1>18. ASSUME NEW f \in Filters, Goroutine(f) PROVE \A g \in Filters : Placed(g)'
  BY <1>5, <1>6, <1>7, <1>8, <1>18, Zenon DEF Goroutine
<1> QED
  BY <1>1, <1>9, <1>10, <1>11, <1>12, <1>13, <1>14, <1>15, <1>16, <1>17, <1>18, Zenon DEF FilterNext

(* Nothing is installed at the start.                                      *)
LEMMA FilterStarts == ASSUME FiltersAssumption, FilterInit PROVE FilterIInv
<1>1. FilterTypeOK
  BY DEF FilterInit, FilterTypeOK
<1>2. \A f \in Filters : Exact(f)
  BY DEF FilterInit, Exact
<1>3. FilterInv
  BY <1>2, Zenon DEF FilterInit, FilterInv
<1>4. PollsExact
  BY <1>2 DEF FiltersAssumption, FilterInit, PollsExact
<1>5. QuietAfterUnsubscribe
  BY DEF FilterInit, QuietAfterUnsubscribe
<1> QED
  BY <1>1, <1>3, <1>4, <1>5, Zenon DEF FilterIInv

(* Every step keeps the invariant.                                         *)
LEMMA FilterSteps ==
    ASSUME FiltersAssumption, FilterIInv, [FilterNext]_filterVars
    PROVE  FilterIInv'
<1>1. CASE FilterNext
  <2>1. FilterTypeOK' /\ QuietAfterUnsubscribe'
    BY <1>1, FilterTypes, FilterQuiet
  <2>2. \A g \in Filters : (Known(g)' => Exact(g)') /\ Placed(g)'
    BY <1>1, FilterExact, FilterPlaced, Zenon
  <2>3. FilterInv'
    BY <2>2, Zenon DEF FilterInv, Placed, Known
  <2>4. PollsExact'
    BY <2>1, <2>2 DEF PollsExact, Known, FilterTypeOK, FiltersAssumption
  <2> QED
    BY <2>1, <2>3, <2>4 DEF FilterIInv
<1>2. CASE UNCHANGED filterVars
  <2>1. \A g \in Filters : Exact(g)' = Exact(g)
    BY <1>2, Zenon DEF filterVars, Exact
  <2>2. FilterTypeOK'
    BY <1>2, Zenon DEF FilterIInv, FilterTypeOK, filterVars
  <2>3. FilterInv'
    BY <1>2, <2>1, Zenon DEF FilterIInv, FilterInv, filterVars
  <2>4. PollsExact'
    BY <1>2, <2>1, Zenon DEF FilterIInv, FilterTypeOK, PollsExact, filterVars, FiltersAssumption
  <2>5. QuietAfterUnsubscribe'
    BY <1>2, Zenon DEF FilterIInv, QuietAfterUnsubscribe, filterVars
  <2> QED
    BY <2>2, <2>3, <2>4, <2>5, Zenon DEF FilterIInv
<1> QED
  BY <1>1, <1>2

(* Successive polls of a filter return what happened since its             *)
(* installation, once and in order (GetFilterChanges), and nothing is sent *)
(* to a filter after its Unsubscribe has returned, at every interleaving   *)
(* of event loop, polls, timeouts and cancellations.                       *)
THEOREM FiltersAreSound ==
    ASSUME FiltersAssumption
    PROVE  FilterSpec => []FiltersSound
<1>1. FilterInit => FilterIInv
  BY FilterStarts
<1>2. FilterIInv /\ [FilterNext]_filterVars => FilterIInv'
  BY FilterSteps
<1>3. FilterIInv => FiltersSound
  BY DEF FilterIInv, FiltersSound
<1> QED
  BY <1>1, <1>2, <1>3, PTL DEF FilterSpec
==============================================================================
