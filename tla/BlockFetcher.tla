---------------------------- MODULE BlockFetcher ----------------------------
(***************************************************************************)
(* The block fetcher (eth/fetcher/block_fetcher.go) of a full node: block     *)
(* announcements, the fetch of header and body, and the goroutines that       *)
(* import.  Cascadeth imports every block at once and never gives up a fetch. *)
(*                                                                         *)
(* The fetcher's maps are a record f, changed by its loop only.  The loop     *)
(* empties the import queue before it waits for the next event, so enqueue    *)
(* includes the start of the import.  A batch is one header; timers have       *)
(* expired for any of the announcements.                                     *)
(***************************************************************************)
EXTENDS Integers, Sequences, FiniteSets, SequencesExt

CONSTANTS
    Peers, Blocks, Genesis, NoPeer,
    Parent,          \* [Blocks -> Blocks \cup {Genesis}]
    Body,            \* [Blocks -> bodies], equal for blocks with the same body
    Empty,           \* blocks without transactions
    Invalid,         \* blocks verifyHeader refuses
    Failing,         \* blocks insertChain refuses
    Liars,           \* peers that announce a wrong number
    Leaving,         \* peers that may disconnect
    hashLimit, blockLimit,
    MaxNotifies, MaxInjects     \* bounds

FetcherAssumption ==
    /\ Genesis \notin Blocks /\ NoPeer \notin Peers
    /\ Parent \in [Blocks -> Blocks \cup {Genesis}]
    /\ Empty \subseteq Blocks /\ Invalid \subseteq Blocks /\ Failing \subseteq Blocks
    /\ Liars \subseteq Peers /\ Leaving \subseteq Peers
    /\ {hashLimit, blockLimit, MaxNotifies, MaxInjects} \subseteq Nat

VARIABLES
    f,           \* the fetcher
    imports,     \* import goroutines
    chain,       \* blocks in the database
    headerReqs, bodyReqs,    \* requests on their way, <<peer, block>>
    peers,       \* connected peers
    notifies, injects,       \* messages received: bounds, and their order
    overtaken    \* history: blocks dropped although their parent came first

vars == <<f, imports, chain, headerReqs, bodyReqs, peers, notifies, injects, overtaken>>

Hashes(m) == {h \in Blocks : m[h] # NoPeer}
Announced(s) == {h \in Blocks : s.announced[h] # <<>>}

Init ==
    /\ f = [announces  |-> [p \in Peers |-> 0],
            announced  |-> [h \in Blocks |-> <<>>],
            fetching   |-> [h \in Blocks |-> NoPeer],
            fetched    |-> [h \in Blocks |-> NoPeer],
            completing |-> [h \in Blocks |-> NoPeer],
            queued     |-> [h \in Blocks |-> NoPeer],
            queues     |-> [p \in Peers |-> 0],
            fetchTimer |-> TRUE, completeTimer |-> TRUE]
    /\ imports = {}
    /\ chain = {Genesis}
    /\ headerReqs = {} /\ bodyReqs = {}
    /\ peers = Peers
    /\ notifies = 0
    /\ injects = <<>>
    /\ overtaken = {}

-----------------------------------------------------------------------------
Less(n) == IF n > 0 THEN n - 1 ELSE 0

(* Every announcement of h leaves its map and is taken off its peer's count.  *)
forgetHash(s, h) ==
    LET origins == s.announced[h]
                   \o SelectSeq(<<s.fetching[h], s.fetched[h], s.completing[h]>>, LAMBDA p : p # NoPeer)
    IN [s EXCEPT !.announces = FoldLeft(LAMBDA n, p : [n EXCEPT ![p] = Less(@)], @, origins),
                 !.announced[h] = <<>>,
                 !.fetching[h] = NoPeer, !.fetched[h] = NoPeer, !.completing[h] = NoPeer]

forgetBlock(s, h) ==
    IF s.queued[h] = NoPeer THEN s
    ELSE [s EXCEPT !.queues[s.queued[h]] = Less(@), !.queued[h] = NoPeer]

(* enqueue, and what the loop does next with the block: forget it, if it is   *)
(* known by now, or start its import.                                        *)
Refused(s, p) == s.queues[p] + 1 > blockLimit

Starts(s, p, h) == ~Refused(s, p) /\ s.queued[h] = NoPeer /\ h \notin chain

enqueue(s, p, h) ==
    IF Refused(s, p) THEN forgetHash(s, h)
    ELSE IF Starts(s, p, h) THEN [s EXCEPT !.queues[p] = @ + 1, !.queued[h] = p]
    ELSE s

Started(s, p, h) == IF Starts(s, p, h) THEN {[hash |-> h, origin |-> p, stage |-> "check"]} ELSE {}

-----------------------------------------------------------------------------
Schedulable(h) == f.fetching[h] = NoPeer /\ f.completing[h] = NoPeer

Schedule(p, h) ==
    LET s == [f EXCEPT !.announces[p] = @ + 1, !.announced[h] = Append(@, p)]
    IN [s EXCEPT !.fetchTimer = @ \/ Cardinality(Announced(s)) = 1]

(* A peer announces a block.                                                 *)
Notify(p, h) ==
    /\ p \in peers /\ notifies < MaxNotifies
    /\ notifies' = notifies + 1
    /\ f' = IF f.announces[p] + 1 <= hashLimit /\ Schedulable(h) THEN Schedule(p, h) ELSE f
    /\ UNCHANGED <<imports, chain, headerReqs, bodyReqs, peers, injects, overtaken>>

(* A peer sends a whole block.                                               *)
Inject(p, h) ==
    /\ p \in peers /\ Len(injects) < MaxInjects
    /\ injects' = Append(injects, h)
    /\ f' = enqueue(f, p, h)
    /\ imports' = imports \cup Started(f, p, h)
    /\ UNCHANGED <<chain, headerReqs, bodyReqs, peers, notifies, overtaken>>

(* An announcement has waited long enough: its header is asked of one of the  *)
(* peers that announced it, the others are forgotten.                        *)
FetchTimer(h, p) ==
    /\ f.fetchTimer
    /\ \E i \in 1 .. Len(f.announced[h]) : f.announced[h][i] = p
    /\ LET s == forgetHash(f, h)
       IN f' = [s EXCEPT !.fetching[h] = IF h \in chain THEN NoPeer ELSE p,
                         !.fetchTimer = Announced(s) # {}]
    /\ headerReqs' = headerReqs \cup (IF h \in chain \/ p \notin peers THEN {} ELSE {<<p, h>>})
    /\ UNCHANGED <<imports, chain, bodyReqs, peers, notifies, injects, overtaken>>

(* The timer runs out with nothing announced (it is set when the loop starts). *)
FetchTimerIdle ==
    /\ f.fetchTimer /\ Announced(f) = {}
    /\ f' = [f EXCEPT !.fetchTimer = FALSE]
    /\ UNCHANGED <<imports, chain, headerReqs, bodyReqs, peers, notifies, injects, overtaken>>

(* The bodies of all fetched headers are asked for.                          *)
CompleteTimer ==
    /\ f.completeTimer
    /\ LET all == SetToSeq(Hashes(f.fetched))
           ask == {h \in Hashes(f.fetched) : h \notin chain}
           s == FoldLeft(forgetHash, f, all)
       IN /\ f' = [s EXCEPT !.completing = [h \in Blocks |-> IF h \in ask THEN f.fetched[h] ELSE @[h]],
                            !.completeTimer = FALSE]
          /\ bodyReqs' = bodyReqs \cup {<<f.fetched[h], h>> : h \in {x \in ask : f.fetched[x] \in peers}}
    /\ UNCHANGED <<imports, chain, headerReqs, peers, notifies, injects, overtaken>>

dropPeer(p) ==
    /\ peers' = peers \ {p}
    /\ headerReqs' = {r \in headerReqs : r[1] # p}
    /\ bodyReqs' = {r \in bodyReqs : r[1] # p}

(* A requested header arrives.                                               *)
FilterHeaders(p, h) ==
    /\ <<p, h>> \in headerReqs
    /\ LET mine == f.fetching[h] = p /\ f.fetched[h] = NoPeer
                   /\ f.completing[h] = NoPeer /\ f.queued[h] = NoPeer
           bad == mine /\ p \in Liars
           late == mine /\ h \in chain
           direct == [f EXCEPT !.completing[h] = p]
           partial == [f EXCEPT !.fetched[h] = p]
       IN /\ f' = IF bad \/ late THEN forgetHash(f, h)
                  ELSE IF ~mine THEN f
                  ELSE IF h \in Empty THEN enqueue(direct, p, h)
                  ELSE [partial EXCEPT !.completeTimer = @ \/ Cardinality(Hashes(partial.fetched)) = 1]
          /\ imports' = imports \cup
               (IF mine /\ ~bad /\ ~late /\ h \in Empty THEN Started(direct, p, h) ELSE {})
          /\ IF bad THEN dropPeer(p)
             ELSE headerReqs' = headerReqs \ {<<p, h>>} /\ UNCHANGED <<bodyReqs, peers>>
    /\ UNCHANGED <<chain, notifies, injects, overtaken>>

(* A requested body arrives; it fits every block of this peer with that body. *)
FilterBodies(p, h) ==
    /\ <<p, h>> \in bodyReqs
    /\ LET fits == {x \in Blocks : f.completing[x] = p /\ f.queued[x] = NoPeer /\ Body[x] = Body[h]}
           s == FoldLeft(forgetHash, f, SetToSeq(fits \cap chain))
           Import(acc, x) == [f |-> enqueue(acc.f, p, x), imports |-> acc.imports \cup Started(acc.f, p, x)]
           end == FoldLeft(Import, [f |-> s, imports |-> imports], SetToSeq(fits \ chain))
       IN f' = end.f /\ imports' = end.imports
    /\ bodyReqs' = bodyReqs \ {<<p, h>>}
    /\ UNCHANGED <<chain, headerReqs, peers, notifies, injects, overtaken>>

-----------------------------------------------------------------------------
(* Mutant: a block is imported although its parent is unknown.               *)
UnconnectedNever(h) == FALSE
Unconnected(h) == Parent[h] \notin chain

(* The goroutine of importBlocks: the parent has to be there, a header that   *)
(* does not verify costs the peer its connection.                            *)
ImportCheck(i) ==
    /\ i \in imports /\ i.stage = "check"
    /\ LET orphan == Unconnected(i.hash)
           bad == ~orphan /\ i.hash \in Invalid
       IN /\ imports' = (imports \ {i}) \cup {[i EXCEPT !.stage = IF orphan \/ bad THEN "done" ELSE "insert"]}
          /\ IF bad THEN dropPeer(i.origin) ELSE UNCHANGED <<headerReqs, bodyReqs, peers>>
          /\ overtaken' = IF orphan /\ \E j, k \in 1 .. Len(injects) :
                                 j < k /\ injects[j] = Parent[i.hash] /\ injects[k] = i.hash
                          THEN overtaken \cup {i.hash} ELSE overtaken
    /\ UNCHANGED <<f, chain, notifies, injects>>

Insert(i) ==
    /\ i \in imports /\ i.stage = "insert"
    /\ imports' = (imports \ {i}) \cup {[i EXCEPT !.stage = "done"]}
    /\ chain' = chain \cup ({i.hash} \ Failing)
    /\ UNCHANGED <<f, headerReqs, bodyReqs, peers, notifies, injects, overtaken>>

(* The loop takes the goroutine's last message.                              *)
Done(i) ==
    /\ i \in imports /\ i.stage = "done"
    /\ imports' = imports \ {i}
    /\ f' = forgetBlock(forgetHash(f, i.hash), i.hash)
    /\ UNCHANGED <<chain, headerReqs, bodyReqs, peers, notifies, injects, overtaken>>

(* A peer goes away and with it the answers it owes.                         *)
Disconnect(p) ==
    /\ p \in Leaving \cap peers
    /\ dropPeer(p)
    /\ UNCHANGED <<f, imports, chain, notifies, injects, overtaken>>

FetchTimerC == FetchTimerIdle \/ \E h \in Blocks, p \in Peers : FetchTimer(h, p)

Next ==
    \/ \E p \in Peers, h \in Blocks : Notify(p, h) \/ Inject(p, h)
    \/ FetchTimerC
    \/ CompleteTimer
    \/ \E p \in Peers, h \in Blocks : FilterHeaders(p, h) \/ FilterBodies(p, h)
    \/ \E i \in imports : ImportCheck(i) \/ Insert(i) \/ Done(i)
    \/ \E p \in Peers : Disconnect(p)

Spec == Init /\ [][Next]_vars

(* The loop keeps running, timers run out, imports finish, and a peer that    *)
(* stays connected answers.                                                  *)
Fairness ==
    /\ \A h \in Blocks : WF_vars(\E p \in Peers : FetchTimer(h, p))
    /\ WF_vars(CompleteTimer)
    /\ \A p \in Peers, h \in Blocks : WF_vars(FilterHeaders(p, h)) /\ WF_vars(FilterBodies(p, h))
    /\ \A h \in Blocks : WF_vars(\E i \in imports : i.hash = h /\ (ImportCheck(i) \/ Insert(i) \/ Done(i)))

LiveSpec == Spec /\ Fairness

-----------------------------------------------------------------------------
(* The maps hold peers and blocks, the counters stay within the limits.      *)
TypeOK ==
    LET OrNone == [Blocks -> Peers \cup {NoPeer}] IN
    /\ f.announces \in [Peers -> 0 .. hashLimit]
    /\ \A h \in Blocks : \A i \in 1 .. Len(f.announced[h]) : f.announced[h][i] \in Peers
    /\ {f.fetching, f.fetched, f.completing, f.queued} \subseteq OrNone
    /\ f.queues \in [Peers -> 0 .. blockLimit]
    /\ \A i \in imports : i.hash \in Blocks /\ i.origin \in Peers /\ i.stage \in {"check", "insert", "done"}
    /\ chain \subseteq Blocks \cup {Genesis} /\ peers \subseteq Peers

(* The queue's bookkeeping is exact: a block is queued as long as its one      *)
(* import runs, and a peer's count is the number of its blocks.              *)
QueueExact ==
    /\ \A i, j \in imports : i.hash = j.hash => i = j
    /\ Hashes(f.queued) = {i.hash : i \in imports}
    /\ \A p \in Peers : f.queues[p] = Cardinality({h \in Blocks : f.queued[h] = p})

(* A block is asked of one peer at a time, by one kind of request.           *)
RequestedOnce ==
    \A h \in Blocks :
        /\ f.announced[h] # <<>> => f.fetching[h] = NoPeer /\ f.completing[h] = NoPeer
        /\ f.fetched[h] # NoPeer => f.fetching[h] = f.fetched[h]
        /\ Cardinality({p \in peers : <<p, h>> \in headerReqs /\ f.fetching[h] = p}
                       \cup {p \in peers : <<p, h>> \in bodyReqs /\ f.completing[h] = p}) <= 1

(* While something waits for a timer, the timer is set.                      *)
TimersArmed ==
    /\ Announced(f) # {} => f.fetchTimer
    /\ Hashes(f.fetched) # {} => f.completeTimer

(* Blocks enter the database after their parents only, and only valid ones.  *)
ParentFirst ==
    \A h \in chain \ {Genesis} : Parent[h] \in chain /\ h \notin Invalid \cup Failing

(* A valid block that a peer has announced, and whose parent the node has, is  *)
(* imported in the end, whatever arrives meanwhile.  An import of it that has  *)
(* begun before the parent was there is not counted in: it forgets the        *)
(* announcement when it ends.                                                *)
Fetched ==
    \A h \in Blocks \ (Invalid \cup Failing) :
        f.announced[h] # <<>> /\ f.queued[h] = NoPeer /\ Parent[h] \in chain ~> h \in chain

(* A block sent after its parent is not dropped for the lack of it: "for now  *)
(* we assume that the network/adversary does not reorder packets".           *)
InOrderImported == overtaken = {}

(* A fetch ends: "Maximum allotted time to return an explicitly requested      *)
(* block/transaction".                                                       *)
FetchEnds == \A h \in Blocks : f.fetching[h] # NoPeer ~> f.fetching[h] = NoPeer

(* A peer has at most hashLimit blocks announced that are not dealt with.    *)
AnnouncesBounded ==
    \A p \in Peers :
        Cardinality({h \in Blocks : \/ p \in {f.announced[h][i] : i \in 1 .. Len(f.announced[h])}
                                    \/ p \in {f.fetching[h], f.fetched[h], f.completing[h]}}) <= hashLimit
=============================================================================
