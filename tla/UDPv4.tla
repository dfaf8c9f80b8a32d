------------------------------- MODULE UDPv4 -------------------------------
(****************************************************************************)
(* The discovery protocol's requests (p2p/discover/v4_udp.go): callers      *)
(* register a reply matcher, one loop owns the list of matchers and its     *)
(* timer, readLoop hands it packets.  UDP may lose, repeat and reorder.     *)
(* Deadlines are the time that is left, in units of which RespTimeout make   *)
(* respTimeout.  They have a monotonic clock reading, so the branch for a   *)
(* clock that jumped back is never taken and is left out.                   *)
(****************************************************************************)
EXTENDS Integers, SequencesExt, FiniteSets

CONSTANTS
  Calls,        \* requests made, each at most once
  kind,         \* kind[c]: "ping", "pingback", "find" or "enr"
  dest,         \* dest[c]: the node asked
  bucketSize,   \* nodes after which a findnode request is complete
  RespTimeout,
  None

VARIABLES
  plist,        \* the pending matchers, <<call, packet type>>
  deadline,     \* time left until a matcher's deadline, 0 when it has passed
  nextTimeout,  \* head of plist when the timer was last set
  timer,        \* time left until the timer fires, None if it is not set
  fired,        \* what is in timeout.C: the matchers whose deadline had passed
  answers,      \* what each matcher's errc received, in order
  reply,        \* whether a matcher was given a packet
  received,     \* nodes a findnode matcher was given
  pc,           \* where a caller is
  net,          \* packets sent to this node: each may arrive any number of times
  reading,      \* the packet readLoop waits with in handleReply
  up,           \* which of "loop" and "readLoop" run
  closed        \* closeCtx is done

vars == <<plist, deadline, nextTimeout, timer, fired, answers, reply, received,
          pc, net, reading, up, closed>>

wire == <<net, reading>>
list == <<plist, deadline, nextTimeout, timer>>

-----------------------------------------------------------------------------
(* Requests and replies. *)

\* The packet types of a call's matchers: all but pings ping first when the bond
\* is too old (ensureBond).
Expects(c) == CASE kind[c] = "find" -> "neighbors"
                [] kind[c] = "enr"  -> "enr"
                [] OTHER            -> "pong"

Matchers == {<<c, Expects(c)>> : c \in Calls} \cup {<<c, "pong">> : c \in {d \in Calls : kind[d] \in {"find", "enr"}}}

\* Replies: a pong or a record names the request, neighbors only carry nodes.
Packets == {[from |-> dest[m[1]], ptype |-> m[2], tok |-> m, nodes |-> 0] : m \in {n \in Matchers : n[2] # "neighbors"}}
             \cup {[from |-> dest[c], ptype |-> "neighbors", tok |-> None, nodes |-> k] :
                     c \in {d \in Calls : kind[d] = "find"}, k \in {1, bucketSize}}

Answer(m) == {p \in Packets : p.from = dest[m[1]] /\ p.ptype = m[2] /\ (p.tok # None => p.tok = m)}

Matches(m, p) == dest[m[1]] = p.from /\ m[2] = p.ptype

\* requestDone, as the callback of the request returns it.
RequestDone(m, p) ==
  IF p.ptype = "neighbors" THEN received[m[1]] + p.nodes >= bucketSize ELSE p.tok = m

-----------------------------------------------------------------------------
(* The loop.  Every turn starts with resetTimeout, which is part of the turn   *)
(* before.  Removing an element cuts the walk short: a removed element has no   *)
(* Next, so only the first one to go is removed.                                *)

resetTimeout(pl, dl, nt, tm) ==
  /\ plist' = pl
  /\ deadline' = dl
  /\ IF pl = <<>> \/ nt = Head(pl)
       THEN nextTimeout' = nt /\ timer' = tm
       ELSE nextTimeout' = Head(pl) /\ timer' = dl[Head(pl)]

Without(m) == SelectSeq(plist, LAMBDA x : x # m)

\* addReplyMatcher: the caller m[1] hands over its matcher.
AddMatcher(m) ==
  /\ "loop" \in up
  /\ pc[m[1]] = <<"add", m[2]>>
  /\ resetTimeout(Append(plist, m), [deadline EXCEPT ![m] = RespTimeout], nextTimeout, timer)
  /\ pc' = [pc EXCEPT ![m[1]] = <<"wait", m[2]>>]
  /\ net' = net \cup Answer(m)
  /\ UNCHANGED <<fired, answers, reply, received, reading, up, closed>>

\* The positions of the matchers that are given packet p.
Given(p) ==
  {i \in DOMAIN plist :
     /\ Matches(plist[i], p)
     /\ \A j \in 1 .. i - 1 : Matches(plist[j], p) => ~RequestDone(plist[j], p)}

GotReply ==
  /\ "loop" \in up
  /\ \E p \in reading :
       LET given == {plist[i] : i \in Given(p)}
           done  == {m \in given : RequestDone(m, p)} IN
       /\ received' = [c \in Calls |->
                        received[c] + IF \E m \in given : m[1] = c THEN p.nodes ELSE 0]
       /\ reply' = [m \in Matchers |-> reply[m] \/ m \in given]
       /\ answers' = [m \in Matchers |-> IF m \in done THEN Append(answers[m], "nil") ELSE answers[m]]
       /\ resetTimeout(SelectSeq(plist, LAMBDA m : m \notin done), deadline, nextTimeout, timer)
  /\ reading' = {}
  /\ UNCHANGED <<fired, pc, net, up, closed>>

\* Mutant: an expired matcher is told, but stays in the list.
TimeoutKeeps ==
  /\ "loop" \in up
  /\ \E late \in fired :
       LET due == {i \in DOMAIN plist : plist[i] \in late} IN
       IF due = {}
         THEN resetTimeout(plist, deadline, None, timer) /\ UNCHANGED answers
         ELSE LET m == plist[Min(due)] IN
              /\ answers' = [answers EXCEPT ![m] = Append(@, "timeout")]
              /\ resetTimeout(plist, deadline, None, timer)
  /\ fired' = {}
  /\ UNCHANGED <<reply, received, pc, net, reading, up, closed>>

\* timeout.C: its value is the time at which the timer fired, which tells who is late.
Timeout ==
  /\ "loop" \in up
  /\ \E late \in fired :
       LET due == {i \in DOMAIN plist : plist[i] \in late} IN
       IF due = {}
         THEN resetTimeout(plist, deadline, None, timer) /\ UNCHANGED answers
         ELSE LET m == plist[Min(due)] IN
              /\ answers' = [answers EXCEPT ![m] = Append(@, "timeout")]
              /\ resetTimeout(Without(m), deadline, None, timer)
  /\ fired' = {}
  /\ UNCHANGED <<reply, received, pc, net, reading, up, closed>>

LoopCloses ==
  /\ "loop" \in up /\ closed
  /\ answers' = [m \in Matchers |-> IF Contains(plist, m) THEN Append(answers[m], "closed") ELSE answers[m]]
  /\ up' = up \ {"loop"}
  /\ UNCHANGED <<list, fired, reply, received, pc, wire, closed>>

TimerFires ==
  /\ timer = 0
  /\ fired' = IF fired = {} THEN {{m \in Range(plist) : deadline[m] = 0}} ELSE fired
  /\ timer' = None
  /\ UNCHANGED <<plist, deadline, nextTimeout, answers, reply, received, pc, wire, up, closed>>

Less(t) == IF t = None \/ t = 0 THEN t ELSE t - 1

Tick ==
  /\ deadline' = [m \in Matchers |-> Less(deadline[m])]
  /\ timer' = Less(timer)
  /\ <<deadline', timer'>> # <<deadline, timer>>
  /\ UNCHANGED <<plist, nextTimeout, fired, answers, reply, received, pc, wire, up, closed>>

-----------------------------------------------------------------------------
(* Callers.  pc is <<"idle", ..>>, <<"add", t>> in pending's select, <<"wait", *)
(* t>> at errc, <<"sleep", t>> in ensureBond, <<"done", result>>.               *)

\* findnode and RequestENR may have to ensure the bond first.
Request(c) ==
  /\ pc[c] = <<"idle", "">>
  /\ \E t \in {Expects(c), "pong"} : pc' = [pc EXCEPT ![c] = <<"add", t>>]
  /\ UNCHANGED <<list, fired, answers, reply, received, wire, up, closed>>

\* pending, when discovery is closed: the error goes to the matcher's own errc.
PendingClosed(m) ==
  /\ closed
  /\ pc[m[1]] = <<"add", m[2]>>
  /\ answers' = [answers EXCEPT ![m] = Append(@, "closed")]
  /\ pc' = [pc EXCEPT ![m[1]] = <<"wait", m[2]>>]
  /\ UNCHANGED <<list, fired, reply, received, wire, up, closed>>

\* The caller reads errc; a pingback does not look (handlePing).  findnode turns a
\* timeout into success if some packet came.
Answered(m) ==
  LET c == m[1]
      err == answers[m][1] IN
  /\ pc[c] = <<"wait", m[2]>>
  /\ kind[c] # "pingback" => answers[m] # <<>>
  /\ pc' = [pc EXCEPT ![c] =
       CASE kind[c] = "pingback" -> <<"done", "nil">>
         [] kind[c] # "pingback" /\ m[2] # Expects(c) -> <<"sleep", Expects(c)>>
         [] OTHER -> <<"done", IF kind[c] = "find" /\ err = "timeout" /\ reply[m] THEN "nil" ELSE err>>]
  /\ UNCHANGED <<list, fired, answers, reply, received, wire, up, closed>>

Slept(c) ==
  /\ pc[c][1] = "sleep"
  /\ pc' = [pc EXCEPT ![c] = <<"add", pc[c][2]>>]
  /\ UNCHANGED <<list, fired, answers, reply, received, wire, up, closed>>

-----------------------------------------------------------------------------
(* The connection and Close. *)

\* readLoop reads some packet that was sent, again perhaps, and enters handleReply.
Read ==
  /\ "readLoop" \in up /\ ~closed /\ reading = {}
  /\ \E p \in net : reading' = {p}
  /\ UNCHANGED <<list, fired, answers, reply, received, pc, net, up, closed>>

\* handleReply, when discovery is closed.
ReplyClosed ==
  /\ closed /\ reading # {}
  /\ reading' = {}
  /\ UNCHANGED <<list, fired, answers, reply, received, pc, net, up, closed>>

\* The connection is closed: readLoop ends at its next read.
ReadFails ==
  /\ closed /\ "readLoop" \in up /\ reading = {}
  /\ up' = up \ {"readLoop"}
  /\ UNCHANGED <<list, fired, answers, reply, received, pc, wire, closed>>

\* Close; it waits for both goroutines.
Close ==
  /\ ~closed
  /\ closed' = TRUE
  /\ UNCHANGED <<list, fired, answers, reply, received, pc, wire, up>>

-----------------------------------------------------------------------------
Init ==
  /\ plist = <<>> /\ deadline = [m \in Matchers |-> 0]
  /\ nextTimeout = None /\ timer = None /\ fired = {}
  /\ answers = [m \in Matchers |-> <<>>]
  /\ reply = [m \in Matchers |-> FALSE]
  /\ received = [c \in Calls |-> 0]
  /\ pc = [c \in Calls |-> <<"idle", "">>]
  /\ net = {} /\ reading = {}
  /\ up = {"loop", "readLoop"} /\ closed = FALSE

Loop == (\E m \in Matchers : AddMatcher(m)) \/ GotReply \/ Timeout \/ LoopCloses

Caller(c) ==
  \/ Slept(c)
  \/ \E m \in Matchers : m[1] = c /\ (PendingClosed(m) \/ Answered(m))

Next ==
  \/ Loop \/ TimerFires \/ Tick \/ Close
  \/ \E c \in Calls : Request(c) \/ Caller(c)
  \/ Read \/ ReplyClosed \/ ReadFails

Spec == Init /\ [][Next]_vars

\* Goroutines run, time passes and timers fire.  A choice of the loop's select
\* that stays possible is made: Go picks among the ready cases at random.
Fairness ==
  /\ WF_vars(TimerFires) /\ WF_vars(Tick)
  /\ SF_vars(GotReply) /\ SF_vars(Timeout) /\ WF_vars(LoopCloses)
  /\ \A m \in Matchers : SF_vars(AddMatcher(m))
  /\ \A c \in Calls : WF_vars(Caller(c))
  /\ WF_vars(ReplyClosed) /\ WF_vars(ReadFails)

LiveSpec == Spec /\ Fairness

-----------------------------------------------------------------------------
(* What the requests promise. *)

\* A matcher is told once.  errc has room for one error, and the loop would block
\* for ever on a second (loop sends from four places, pending from a fifth); a
\* pingback's is never read.
ToldOnce ==
  \A m \in Matchers :
    /\ Len(answers[m]) <= 1
    /\ Contains(plist, m) /\ "loop" \in up => answers[m] = <<>>
    /\ Len(SelectSeq(plist, LAMBDA x : x = m)) <= 1

\* While something is pending the timer is set for the first deadline, or has
\* fired and the loop will see it, whatever replies removed and a stale value in
\* timeout.C did: resetTimeout acts only when the head has changed.
TimerSet ==
  "loop" \in up /\ plist # <<>> =>
    \/ timer # None /\ timer <= deadline[Head(plist)]
    \/ fired # {}

\* A request is answered: by a reply, by its timeout, or because discovery closed.
RequestEnds ==
  \A c \in Calls : pc[c] # <<"idle", "">> ~> pc[c][1] = "done"

\* Close returns: both goroutines end, although readLoop may be handing a packet
\* to a loop that is gone.
CloseEnds == closed ~> up = {}

\* "Incoming packets from a node are dispatched to all callback functions for that
\* node" (v4_udp.go:92): the packet the loop takes reaches every matcher of its
\* node and type that is pending.
DispatchedToAll ==
  [][\A p \in reading :
       GotReply => \A m \in Range(plist) : Matches(m, p) => reply'[m]]_vars
=============================================================================
