----------------------------- MODULE DiscTable -----------------------------
(****************************************************************************)
(* The node table of discovery (p2p/discover/table.go): one bucket with its  *)
(* entries and replacements, and the loop that schedules refreshes and       *)
(* revalidations, each in a goroutine of its own.  Nodes are added and       *)
(* deleted by lookups and by pings at any time.  Of the limits on addresses  *)
(* only the verdict is kept: addIP may refuse.  It is asked once or twice    *)
(* for the same address in a call and answers the same.                      *)
(****************************************************************************)
EXTENDS Integers, SequencesExt, FiniteSets

CONSTANTS
  Ids,              \* nodes of the bucket
  bucketSize,
  maxReplacements,
  MaxWaiting        \* bound: callers of refresh at a time

VARIABLES
  entries,          \* sequence of [id, live, aged]: live if a check succeeded,
                    \* aged if addedAt is at least seedMinTableTime ago
  replacements,     \* sequence of the same
  initDone,
  refreshing,       \* doRefresh runs
  waiting,          \* callers of refresh that wait
  revalidating,     \* <<>>, <<"ping", node>> or <<"done">>
  state,            \* "running", "closing" (after the loop), "closed"
  old,              \* history: ids in the table for seedMinTableTime
  seeds             \* nodes copied to the database

vars == <<entries, replacements, initDone, refreshing, waiting, revalidating,
          state, old, seeds>>
loopVars == <<initDone, refreshing, waiting, revalidating, state>>

\* A new object has a zero addedAt, long ago; adding it as an entry sets the time.
New(id) == [id |-> id, live |-> FALSE, aged |-> TRUE]
Added(id) == [New(id) EXCEPT !.aged = FALSE]

IdsOf(s) == {s[i].id : i \in DOMAIN s}

-----------------------------------------------------------------------------
(* Operations on the bucket, each under the table's mutex. *)

deleteNode(s, id) == SelectSeq(s, LAMBDA n : n.id # id)

pushNode(s, n, max) == SubSeq(<<n>> \o s, 1, Min({Len(s) + 1, max}))

\* An address is found to fit or not; a node in the list already stays as it is.
addReplacement(n, fits) ==
  /\ entries' = entries
  /\ replacements' = IF n.id \notin IdsOf(replacements) /\ fits
                       THEN pushNode(replacements, n, maxReplacements)
                       ELSE replacements

addSeenNode(id, fits) ==
  \/ id \in IdsOf(entries) /\ UNCHANGED <<entries, replacements>>
  \/ id \notin IdsOf(entries) /\ Len(entries) >= bucketSize /\ addReplacement(New(id), fits)
  \/ /\ id \notin IdsOf(entries) /\ Len(entries) < bucketSize
     /\ IF fits
          THEN entries' = Append(entries, Added(id)) /\ replacements' = deleteNode(replacements, id)
          ELSE UNCHANGED <<entries, replacements>>

\* bumpInBucket, when the node's address is unchanged or fits: the new object
\* takes the place of the old one.
Bumped(n) == <<n>> \o deleteNode(entries, n.id)

\* A node that pinged.  In the bucket and refused, it is refused again below.
addVerifiedNode(id, fits) ==
  \/ /\ id \in IdsOf(entries)
     /\ entries' = IF fits THEN Bumped(New(id)) ELSE entries
     /\ UNCHANGED replacements
  \/ id \notin IdsOf(entries) /\ Len(entries) >= bucketSize /\ addReplacement(New(id), fits)
  \/ /\ id \notin IdsOf(entries) /\ Len(entries) < bucketSize
     /\ IF fits
          THEN entries' = pushNode(entries, Added(id), bucketSize) /\ replacements' = deleteNode(replacements, id)
          ELSE UNCHANGED <<entries, replacements>>

replace(last) ==
  IF entries = <<>> \/ Last(entries).id # last THEN UNCHANGED <<entries, replacements>>
  ELSE IF replacements = <<>>
    THEN entries' = deleteNode(entries, last) /\ UNCHANGED replacements
    ELSE \E r \in Range(replacements) :
           /\ replacements' = deleteNode(replacements, r.id)
           /\ entries' = Append(Front(entries), r)

\* Who is no entry any more has not been in the table for long.
StillOld == old' = old \cap IdsOf(entries')

-----------------------------------------------------------------------------
(* What other parts do: seeds and replies to lookups, pings, failed queries. *)

Seen(id) ==
  /\ \E fits \in BOOLEAN : addSeenNode(id, fits)
  /\ StillOld
  /\ UNCHANGED <<loopVars, seeds>>

Verified(id) ==
  /\ initDone
  /\ \E fits \in BOOLEAN : addVerifiedNode(id, fits)
  /\ StillOld
  /\ UNCHANGED <<loopVars, seeds>>

delete(id) ==
  /\ entries' = deleteNode(entries, id)
  /\ StillOld
  /\ UNCHANGED <<replacements, loopVars, seeds>>

\* seedMinTableTime passes for all that are in the table.
Age ==
  /\ entries' = [i \in DOMAIN entries |-> [entries[i] EXCEPT !.aged = TRUE]]
  /\ old' = IdsOf(entries)
  /\ UNCHANGED <<replacements, loopVars, seeds>>

-----------------------------------------------------------------------------
(* The loop. *)

\* The ticker, or a call of refresh, starts doRefresh unless it runs.
RefreshTick ==
  /\ state = "running" /\ ~refreshing
  /\ refreshing' = TRUE
  /\ UNCHANGED <<entries, replacements, initDone, waiting, revalidating, state, old, seeds>>

refresh ==
  /\ state = "running" /\ waiting < MaxWaiting
  /\ waiting' = waiting + 1
  /\ refreshing' = TRUE
  /\ UNCHANGED <<entries, replacements, initDone, revalidating, state, old, seeds>>

\* doRefresh ended: all that wait, initDone among them the first time, are closed.
RefreshDone ==
  /\ refreshing
  /\ state # "closed"
  /\ refreshing' = FALSE /\ waiting' = 0 /\ initDone' = TRUE
  /\ UNCHANGED <<entries, replacements, revalidating, state, old, seeds>>

\* doRevalidate picks the last node of a bucket.  There may be none.
StartRevalidate ==
  /\ state = "running" /\ revalidating = <<>>
  /\ revalidating' = IF entries = <<>> THEN <<"done">> ELSE <<"ping", Last(entries)>>
  /\ UNCHANGED <<entries, replacements, initDone, refreshing, waiting, state, old, seeds>>

\* The ping returns.  The object that was pinged goes to the front, with its check
\* and its age, if its id is still there and its address, a new one perhaps, fits.
Pinged ==
  /\ revalidating # <<>> /\ revalidating[1] = "ping"
  /\ LET last == revalidating[2] IN
       \/ /\ entries' = IF last.id \in IdsOf(entries) THEN Bumped([last EXCEPT !.live = TRUE]) ELSE entries
          /\ UNCHANGED replacements
       \/ UNCHANGED <<entries, replacements>>
       \/ replace(last.id)
  /\ revalidating' = <<"done">>
  /\ StillOld
  /\ UNCHANGED <<initDone, refreshing, waiting, state, seeds>>

\* Mutant: the end of the loop does not wait for doRevalidate.
RevalidateDoneRunning ==
  /\ revalidating = <<"done">> /\ state = "running"
  /\ revalidating' = <<>>
  /\ UNCHANGED <<entries, replacements, initDone, refreshing, waiting, state, old, seeds>>

\* The loop, or its end, takes what doRevalidate sends.
RevalidateDone ==
  /\ revalidating = <<"done">> /\ state # "closed"
  /\ revalidating' = <<>>
  /\ UNCHANGED <<entries, replacements, initDone, refreshing, waiting, state, old, seeds>>

copyLiveNodes ==
  /\ state = "running"
  /\ seeds' = seeds \cup {n.id : n \in {m \in Range(entries) : m.live /\ m.aged}}
  /\ UNCHANGED <<entries, replacements, loopVars, old>>

\* closeReq ends the loop; it waits for both goroutines, then releases who waits.
Close ==
  /\ state = "running"
  /\ state' = "closing"
  /\ UNCHANGED <<entries, replacements, initDone, refreshing, waiting, revalidating, old, seeds>>

Closed ==
  /\ state = "closing" /\ ~refreshing /\ revalidating = <<>>
  /\ state' = "closed" /\ waiting' = 0
  /\ UNCHANGED <<entries, replacements, initDone, refreshing, revalidating, old, seeds>>

-----------------------------------------------------------------------------
\* newTable has loaded the seeds, the loop has started the first refresh; initDone
\* is the first that waits.
Init ==
  /\ entries \in {<<>>} \cup {<<Added(id)>> : id \in Ids}
  /\ replacements = <<>>
  /\ initDone = FALSE /\ refreshing = TRUE /\ waiting = 1
  /\ revalidating = <<>> /\ state = "running"
  /\ old = {} /\ seeds = {}

Next ==
  \/ \E id \in Ids : Seen(id) \/ Verified(id) \/ delete(id)
  \/ Age
  \/ RefreshTick \/ refresh \/ RefreshDone
  \/ StartRevalidate \/ Pinged \/ RevalidateDone \/ copyLiveNodes
  \/ Close \/ Closed

Spec == Init /\ [][Next]_vars

\* Lookups and pings end (UDPv4, Lookup), and the goroutines run.
Fairness ==
  /\ WF_vars(RefreshDone) /\ WF_vars(Pinged) /\ WF_vars(RevalidateDone) /\ WF_vars(Closed)

LiveSpec == Spec /\ Fairness

-----------------------------------------------------------------------------
(* What the table promises. *)

\* A node is at most once in its bucket, as an entry or as a replacement, and both
\* lists keep their sizes, although nodes move between them on five paths and a
\* revalidation ends on a bucket that is not the one it started with.
BucketSound ==
  /\ Cardinality(IdsOf(entries)) = Len(entries) /\ Len(entries) <= bucketSize
  /\ Cardinality(IdsOf(replacements)) = Len(replacements) /\ Len(replacements) <= maxReplacements
  /\ IdsOf(entries) \cap IdsOf(replacements) = {}

\* "If 'last' isn't the last entry, it has either been replaced with someone else or
\* became active" (replace): the end of a revalidation drops nobody but the node
\* that was pinged.
DropsPingedOnlyStep ==
  Len(revalidating) = 2 /\ revalidating' = <<"done">> =>
    IdsOf(entries) \ {revalidating[2].id} \subseteq IdsOf(entries')

\* Whoever waits for a refresh is released by it, or by the table's end.
RefreshAnswers == waiting > 0 ~> waiting = 0

\* close returns: neither goroutine waits for a loop that has ended.
CloseEnds == state = "closing" ~> state = "closed"

\* "copyLiveNodes adds nodes from the table to the database if they have been in
\* the table longer than seedMinTableTime" (table.go:379).
SeedsAged ==
  [][seeds' # seeds => seeds' \ seeds \subseteq old]_vars
=============================================================================
