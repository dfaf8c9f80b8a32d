------------------------------- MODULE Lookup -------------------------------
(****************************************************************************)
(* Network lookups (p2p/discover/lookup.go) as the dialer's iterator runs    *)
(* them: a lookup asks the closest nodes it has seen, at most alpha at a     *)
(* time, each in a goroutine of its own that also counts failures and        *)
(* updates the table.  A node is its distance to the target.  Of the table   *)
(* only the entries of one bucket are kept; DiscTable has the rest.          *)
(****************************************************************************)
EXTENDS Integers, SequencesExt, FiniteSets

CONSTANTS
  Nodes,                \* a set of numbers: distances
  Self,                 \* this node, which others may return
  alpha,
  bucketSize,
  maxFindnodeFailures,
  MaxLookups            \* bound: lookups the iterator starts

VARIABLES
  pc,           \* where the iterator is
  started,      \* lookups started
  live,         \* queryfunc # nil
  queries, asked, seen, result,
  replyCh,      \* sequence of sets of nodes
  query,        \* node -> "none", "ask" or "delete"
  buffer,       \* nodes the iterator still has to return
  cancelled,    \* the iterator's context
  table,        \* entries of the bucket
  fails         \* findnode failures in a row, from the database

vars == <<pc, started, live, queries, asked, seen, result, replyCh, query,
          buffer, cancelled, table, fails>>
it == <<live, queries, asked, seen, result>>

Running == {n \in Nodes : query[n] # "none"}

\* The k closest of a set, in order.
Closest(S, k) == LET s == SetToSortSeq(S, <) IN SubSeq(s, 1, Min({k, Len(s)}))

-----------------------------------------------------------------------------
(* The iterator: Next consumes its buffer and advances lookups to refill it. *)

NextNode ==
  /\ pc = "idle"
  /\ buffer' = IF buffer > 0 THEN buffer - 1 ELSE 0
  /\ pc' = IF buffer > 1 THEN "idle" ELSE "resume"
  /\ UNCHANGED <<started, it, replyCh, query, cancelled, table, fails>>

\* The loop of Next without a lookup: stop, or start one.
Refill ==
  /\ pc = "refill"
  /\ \/ cancelled /\ pc' = "stopped" /\ UNCHANGED <<started, it, replyCh>>
     \/ /\ ~cancelled /\ started < MaxLookups
        /\ pc' = "start" /\ started' = started + 1
        /\ live' = TRUE /\ queries' = -1 /\ asked' = {Self} /\ seen' = {} /\ result' = <<>>
        /\ replyCh' = <<>>
  /\ UNCHANGED <<query, buffer, cancelled, table, fails>>

\* Next goes on with the lookup it has.
Resume ==
  /\ pc = "resume"
  /\ pc' = IF cancelled THEN "stopped" ELSE "start"
  /\ UNCHANGED <<started, it, replyCh, query, buffer, cancelled, table, fails>>

Cancel ==
  /\ ~cancelled
  /\ cancelled' = TRUE
  /\ UNCHANGED <<pc, started, it, replyCh, query, buffer, table, fails>>

-----------------------------------------------------------------------------
(* One lookup. *)

\* startQueries: nothing after shutdown; the first reply comes from the table; then
\* the closest nodes that were not asked.  The lookup ends when none is left.
startQueries ==
  LET ask == Closest({n \in Range(result) : n \notin asked}, alpha - queries) IN
  /\ pc = "start"
  /\ \/ /\ ~live
        /\ pc' = "refill"
        /\ UNCHANGED <<queries, asked, replyCh, query>>
     \/ /\ live /\ queries = -1
        /\ queries' = 1
        /\ replyCh' = Append(replyCh, {n : n \in Range(Closest(table, bucketSize))})
        /\ pc' = "select"
        /\ UNCHANGED <<asked, query>>
     \/ /\ live /\ queries >= 0
        /\ asked' = asked \cup Range(ask)
        /\ query' = [n \in Nodes |-> IF n \in Range(ask) THEN "ask" ELSE query[n]]
        /\ queries' = queries + Len(ask)
        /\ pc' = IF queries' > 0 THEN "select" ELSE "refill"
        /\ UNCHANGED replyCh
  /\ UNCHANGED <<started, live, seen, result, buffer, cancelled, table, fails>>

\* nodesByDistance.push of every new node: the bucketSize closest, in order.
push(new) == Closest(Range(result) \cup new, bucketSize)

\* advance takes a reply and returns if it has new nodes.
Reply ==
  LET new == Head(replyCh) \ seen IN
  /\ pc = "select" /\ replyCh # <<>>
  /\ replyCh' = Tail(replyCh)
  /\ seen' = seen \cup new
  /\ result' = push(new)
  /\ queries' = queries - 1
  /\ buffer' = Cardinality(new)
  /\ pc' = IF new # {} THEN "idle" ELSE "start"
  /\ UNCHANGED <<started, live, asked, query, cancelled, table, fails>>

\* advance sees that the context is done: shutdown.
Shutdown ==
  /\ pc = "select" /\ cancelled
  /\ pc' = "drain"
  /\ UNCHANGED <<started, it, replyCh, query, buffer, cancelled, table, fails>>

\* shutdown takes a reply for every query that was started.
Drain ==
  /\ pc = "drain"
  /\ \/ /\ queries > 0 /\ replyCh # <<>>
        /\ queries' = queries - 1 /\ replyCh' = Tail(replyCh)
        /\ UNCHANGED <<pc, live, buffer>>
     \/ /\ queries <= 0
        /\ live' = FALSE /\ buffer' = 0 /\ pc' = "start"
        /\ UNCHANGED <<queries, replyCh>>
  /\ UNCHANGED <<started, asked, seen, result, query, cancelled, table, fails>>

-----------------------------------------------------------------------------
(* A query's goroutine. *)

\* The transport was closed under the query.  Failures are not counted then.
QueryClosed(n) ==
  /\ query[n] = "ask" /\ cancelled
  /\ query' = [query EXCEPT ![n] = "none"]
  /\ replyCh' = Append(replyCh, {})
  /\ UNCHANGED <<pc, started, it, buffer, cancelled, table, fails>>

\* The node answers: the failures end, and the table takes what it has room for.
QueryAnswers(n) ==
  /\ query[n] = "ask"
  /\ \E r \in SUBSET Nodes \ {{}} :
       /\ Cardinality(r) <= bucketSize
       /\ \E add \in SUBSET (r \ (table \cup {Self})) :
            /\ Cardinality(table \cup add) <= bucketSize
            /\ table' = table \cup add
       /\ replyCh' = Append(replyCh, r)
  /\ fails' = [fails EXCEPT ![n] = 0]
  /\ query' = [query EXCEPT ![n] = "none"]
  /\ UNCHANGED <<pc, started, it, buffer, cancelled>>

\* It answers nothing useful.  Too many failures, and enough others in the bucket
\* when bucketLen looks: it will be deleted.
QueryFails(n) ==
  /\ query[n] = "ask"
  /\ fails' = [fails EXCEPT ![n] = Min({@ + 1, maxFindnodeFailures})]
  /\ IF fails[n] + 1 >= maxFindnodeFailures /\ Cardinality(table) >= bucketSize \div 2
       THEN query' = [query EXCEPT ![n] = "delete"] /\ UNCHANGED replyCh
       ELSE query' = [query EXCEPT ![n] = "none"] /\ replyCh' = Append(replyCh, {})
  /\ UNCHANGED <<pc, started, it, buffer, cancelled, table>>

QueryDeletes(n) ==
  /\ query[n] = "delete"
  /\ table' = table \ {n}
  /\ query' = [query EXCEPT ![n] = "none"]
  /\ replyCh' = Append(replyCh, {})
  /\ UNCHANGED <<pc, started, it, buffer, cancelled, fails>>

-----------------------------------------------------------------------------
Init ==
  /\ pc = "refill" /\ started = 0
  /\ live = FALSE /\ queries = -1 /\ asked = {} /\ seen = {} /\ result = <<>>
  /\ replyCh = <<>> /\ query = [n \in Nodes |-> "none"]
  /\ buffer = 0 /\ cancelled = FALSE
  /\ table \in {S \in SUBSET (Nodes \ {Self}) : Cardinality(S) \in 1 .. bucketSize}
  /\ fails \in {[n \in Nodes |-> 0], [n \in Nodes |-> maxFindnodeFailures - 1]}

Iterator == Refill \/ Resume \/ startQueries \/ Reply \/ Shutdown \/ Drain

Query(n) == QueryClosed(n) \/ QueryAnswers(n) \/ QueryFails(n) \/ QueryDeletes(n)

Next == NextNode \/ Iterator \/ Cancel \/ \E n \in Nodes : Query(n)

Spec == Init /\ [][Next]_vars

\* Goroutines run and every query returns (UDPv4); the user may stop asking.
Fairness == WF_vars(Iterator) /\ \A n \in Nodes : WF_vars(Query(n))
LiveSpec == Spec /\ Fairness

-----------------------------------------------------------------------------
(* What lookups promise. *)

\* The count of queries is exactly what was started and not yet taken, so shutdown
\* waits for every query and for no more, and replyCh, whose capacity is alpha,
\* never blocks one.
QueriesCounted ==
  pc \in {"idle", "start", "select", "drain"} /\ started > 0 =>
    /\ queries >= 0 => queries = Cardinality(Running) + Len(replyCh)
    /\ Len(replyCh) <= alpha

\* A lookup that ends by itself has asked the closest nodes of all it saw, whatever
\* the order of the answers ("The lookup ends when no more nodes can be asked").
AskedClosest ==
  pc = "refill" /\ live =>
    /\ result = Closest(seen, bucketSize)
    /\ Range(result) \subseteq asked

\* A lookup ends and the iterator's Next returns, and after Close it returns false:
\* nothing is left waiting for a reply.
NextReturns == pc \in {"start", "select", "drain"} ~> pc \in {"idle", "refill", "stopped"}

\* "Remove the node from the local table if it fails to return anything useful too
\* many times, but only if there are enough other nodes in the bucket"
\* (lookup.go:151): a deletion leaves the others that were enough.
EnoughOthers ==
  [][\A n \in Nodes : QueryDeletes(n) /\ n \in table => Cardinality(table) >= bucketSize \div 2]_vars
=============================================================================
