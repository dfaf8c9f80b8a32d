------------------------------ MODULE TxFetcher ------------------------------
(***************************************************************************)
(* The transaction fetcher (eth/fetcher/tx_fetcher.go): announced             *)
(* transactions wait for a broadcast, are queued, and are fetched from one of *)
(* the peers that announced them; a fetch may be answered in part, answered    *)
(* by others, time out, or lose its peer.                                    *)
(*                                                                         *)
(* The maps of the fetcher are a record f; an entry that is missing in Go is   *)
(* the empty set or None.  waitslots is waitlist by peer and not kept twice.  *)
(* Each case of the loop's select is an action.  Go's map order is arbitrary, *)
(* so scheduleFetches has a set of results.                                  *)
(***************************************************************************)
EXTENDS Integers, Sequences, FiniteSets, SequencesExt

CONSTANTS
    Peers, Hashes, None,
    Cheap,               \* transactions the pool refuses as underpriced
    Honest,              \* peers that have what they announce and answer in full
    Leaving,             \* peers that may be removed
    maxTxAnnounces, maxTxRetrievals,
    MaxNotifies, MaxBroadcasts       \* bounds

TxFetcherAssumption ==
    /\ None \notin Peers
    /\ Cheap \subseteq Hashes /\ Honest \subseteq Peers /\ Leaving \subseteq Peers
    /\ {maxTxAnnounces, MaxNotifies, MaxBroadcasts} \subseteq Nat /\ maxTxRetrievals \in Nat \ {0}

VARIABLES
    f,               \* the fetcher
    known,           \* transactions in the pool
    underpriced,     \* f.underpriced
    asked,           \* the request each peer has not answered yet
    notices,         \* calls of Notify that wait for the loop
    deliveries,      \* calls of Enqueue that wait for the loop
    drops,           \* calls of Drop that wait for the loop
    peers,           \* connected peers
    notifies, broadcasts

vars == <<f, known, underpriced, asked, notices, deliveries, drops, peers, notifies, broadcasts>>
env == <<known, underpriced, deliveries, peers, notifies, broadcasts>>

Init ==
    /\ f = [waitlist   |-> [h \in Hashes |-> {}],
            announces  |-> [p \in Peers |-> {}],
            announced  |-> [h \in Hashes |-> {}],
            fetching   |-> [h \in Hashes |-> None],
            requests   |-> [p \in Peers |-> None],
            alternates |-> [h \in Hashes |-> {}],
            waitTimer |-> FALSE, timeoutTimer |-> FALSE, panic |-> FALSE]
    /\ known = {} /\ underpriced = {}
    /\ asked = [p \in Peers |-> <<>>]
    /\ notices = {} /\ deliveries = {} /\ drops = {}
    /\ peers = Peers
    /\ notifies = 0 /\ broadcasts = 0

Waiting(s) == {h \in Hashes : s.waitlist[h] # {}}
Requested(s) == {p \in Peers : s.requests[p] # None}

-----------------------------------------------------------------------------
(* scheduleFetches.  Assign asks an idle peer for some of what it announced;  *)
(* a hash that has alternates already is a panic.                            *)
Idle(s, p) == s.requests[p] = None
Free(s, p) == {h \in s.announces[p] : s.fetching[h] = None}

Request(s, p, hashes) ==
    LET set == ToSet(hashes) IN
    [s EXCEPT !.fetching = [h \in Hashes |-> IF h \in set THEN p ELSE @[h]],
              !.alternates = [h \in Hashes |-> IF h \in set THEN s.announced[h] ELSE @[h]],
              !.announced = [h \in Hashes |-> IF h \in set THEN {} ELSE @[h]],
              !.requests[p] = [hashes |-> hashes, stolen |-> {}],
              !.panic = @ \/ \E h \in set : s.alternates[h] # {}]

Assign(s, p) ==
    IF ~Idle(s, p) \/ Free(s, p) = {} THEN {s}
    ELSE {Request(s, p, hashes) :
            hashes \in UNION {SetToSeqs(S) : S \in {T \in SUBSET Free(s, p) :
                Cardinality(T) = IF Cardinality(Free(s, p)) < maxTxRetrievals
                                 THEN Cardinality(Free(s, p)) ELSE maxTxRetrievals}}}

scheduleFetches(s, actives) ==
    LET idle == Requested(s) = {}
        All(order) == FoldLeft(LAMBDA states, p : UNION {Assign(t, p) : t \in states}, {s}, order)
        results == UNION {All(order) : order \in SetToSeqs(actives)}
    IN {[t EXCEPT !.timeoutTimer = @ \/ (idle /\ Requested(t) # {})] : t \in results}

(* Without a list, all peers that have announced something.                  *)
Announcers(s) == {p \in Peers : s.announces[p] # {}}

(* What the requests made by a step mean for the network: a peer that is gone *)
(* makes the request fail, and the goroutine calls Drop.                     *)
Sent(old, new) ==
    LET fresh == {p \in Requested(new) : old.requests[p] = None} IN
    /\ asked' = [p \in Peers |-> IF p \in fresh \cap peers THEN new.requests[p].hashes ELSE asked[p]]
    /\ drops' = drops \cup (fresh \ peers)

-----------------------------------------------------------------------------
(* One announced hash: an alternate, a queued, a waiting or a new one.       *)
Announce(s, p, h) ==
    CASE s.alternates[h] # {} -> [s EXCEPT !.alternates[h] = @ \cup {p}, !.announces[p] = @ \cup {h}]
      [] s.alternates[h] = {} /\ s.announced[h] # {} ->
             [s EXCEPT !.announced[h] = @ \cup {p}, !.announces[p] = @ \cup {h}]
      [] OTHER -> [s EXCEPT !.waitlist[h] = @ \cup {p}]

Used(s, p) == Cardinality({h \in Hashes : p \in s.waitlist[h]}) + Cardinality(s.announces[p])

(* ann.hashes[:want-maxTxAnnounces], for hashes in any order.                *)
Kept(p, hashes) ==
    LET want == Used(f, p) + Cardinality(hashes) IN
    IF want <= maxTxAnnounces THEN {hashes}
    ELSE {S \in SUBSET hashes : Cardinality(S) = want - maxTxAnnounces}

(* The messages of a peer are handled one after the other.                   *)
Handling(p) == \E c \in notices \cup deliveries : c.origin = p

(* A peer announces transactions; those that are known here, or refused       *)
(* before, are filtered outside of the loop.                                 *)
Notify(p, hashes) ==
    /\ p \in peers /\ ~Handling(p)
    /\ notifies < MaxNotifies
    /\ notifies' = notifies + 1
    /\ LET unknowns == hashes \ (known \cup underpriced) IN
       /\ unknowns # {}
       /\ notices' = notices \cup {[origin |-> p, hashes |-> unknowns]}
    /\ UNCHANGED <<f, known, underpriced, asked, deliveries, drops, peers, broadcasts>>

(* The loop takes an announcement, also of what has arrived since.           *)
notify(ann) ==
    LET p == ann.origin IN
    /\ ann \in notices
    /\ notices' = notices \ {ann}
    /\ IF Used(f, p) >= maxTxAnnounces THEN UNCHANGED <<f, asked, drops>>
       ELSE \E some \in Kept(p, ann.hashes) :
            LET s == FoldLeft(LAMBDA t, h : Announce(t, p, h), f, SetToSeq(some))
                t == [s EXCEPT !.waitTimer = @ \/ (Waiting(f) = {} /\ Waiting(s) # {})]
            IN \E u \in IF f.announces[p] = {} /\ t.announces[p] # {}
                        THEN scheduleFetches(t, {p}) ELSE {t} :
                  f' = u /\ Sent(f, u)
    /\ UNCHANGED env

(* Some transactions (S) have waited long enough and are queued.             *)
waitTrigger(S) ==
    /\ f.waitTimer /\ S \subseteq Waiting(f)
    /\ LET moved == [f EXCEPT
              !.announced = [h \in Hashes |-> IF h \in S THEN f.waitlist[h] ELSE @[h]],
              !.announces = [p \in Peers |-> @[p] \cup {h \in S : p \in f.waitlist[h]}],
              !.waitlist = [h \in Hashes |-> IF h \in S THEN {} ELSE @[h]],
              !.panic = @ \/ \E h \in S : f.announced[h] # {}]
           s == [moved EXCEPT !.waitTimer = Waiting(moved) # {}]
       IN \E t \in scheduleFetches(s, UNION {f.waitlist[h] : h \in S}) : f' = t /\ Sent(f, t)
    /\ UNCHANGED <<env, notices>>

(* Mutant: the hashes that were not delivered are not queued again.          *)
TimeOutForgets(s, p) ==
    LET back == ToSet(s.requests[p].hashes) \ s.requests[p].stolen IN
    [s EXCEPT !.announces = [q \in Peers |-> @[q] \ back],
              !.alternates = [h \in Hashes |-> IF h \in back THEN {} ELSE @[h]],
              !.fetching = [h \in Hashes |-> IF h \in back THEN None ELSE @[h]],
              !.requests[p].hashes = <<>>]

(* A request has taken too long: what it still misses goes back to the queue, *)
(* without this peer; the request stays, without hashes, and keeps it busy.   *)
TimeOut(s, p) ==
    LET back == ToSet(s.requests[p].hashes) \ s.requests[p].stolen IN
    [s EXCEPT !.announced = [h \in Hashes |-> IF h \in back THEN s.alternates[h] \ {p} ELSE @[h]],
              !.announces[p] = @ \ back,
              !.alternates = [h \in Hashes |-> IF h \in back THEN {} ELSE @[h]],
              !.fetching = [h \in Hashes |-> IF h \in back THEN None ELSE @[h]],
              !.requests[p].hashes = <<>>,
              !.panic = @ \/ \E h \in back : s.announced[h] # {}]

timeoutTrigger(P) ==
    /\ f.timeoutTimer
    /\ P \subseteq {p \in Requested(f) : f.requests[p].hashes # <<>>}
    /\ LET s == FoldLeft(TimeOut, f, SetToSeq(P))
       IN \E t \in scheduleFetches(s, Announcers(s)) : f' = t /\ Sent(f, t)
    /\ UNCHANGED <<env, notices>>

-----------------------------------------------------------------------------
(* Enqueue: the transactions are offered to the pool, then the loop hears.    *)
Enqueue(p, hashes, direct) ==
    /\ ~Handling(p)
    /\ known' = known \cup (hashes \ Cheap)
    /\ underpriced' = underpriced \cup (hashes \cap Cheap)
    /\ deliveries' = deliveries \cup {[origin |-> p, hashes |-> hashes, direct |-> direct]}
    /\ UNCHANGED <<f, notices, drops, peers, notifies>>

(* A peer answers with some of what it was asked for.                        *)
Reply(p, hashes) ==
    /\ p \in peers /\ asked[p] # <<>>
    /\ hashes \subseteq ToSet(asked[p])
    /\ p \in Honest => hashes = ToSet(asked[p])
    /\ asked' = [asked EXCEPT ![p] = <<>>]
    /\ Enqueue(p, hashes, TRUE)
    /\ UNCHANGED broadcasts

(* A peer sends a transaction unasked.                                       *)
Broadcast(p, h) ==
    /\ p \in peers /\ broadcasts < MaxBroadcasts
    /\ broadcasts' = broadcasts + 1
    /\ Enqueue(p, {h}, FALSE)
    /\ UNCHANGED asked

(* One delivered hash disappears from all stages; if another peer was asked   *)
(* for it, that request is told (no request there would be a panic).         *)
Delivered(s, h, d) ==
    LET o == s.fetching[h]
        stolen == o # None /\ (o # d.origin \/ ~d.direct)
        gone == [s EXCEPT !.announces = [p \in Peers |-> @[p] \ {h}],
                          !.announced[h] = {}, !.alternates[h] = {}, !.fetching[h] = None]
    IN IF s.waitlist[h] # {} THEN [s EXCEPT !.waitlist[h] = {}]
       ELSE IF ~stolen THEN gone
       ELSE IF s.requests[o] = None THEN [gone EXCEPT !.panic = TRUE]
       ELSE [gone EXCEPT !.requests[o].stolen = @ \cup {h}]

(* The rest of a request that was answered: hashes before the last delivered  *)
(* one are not at this peer, those after it may be asked of it again.        *)
Missing(s, d, req) ==
    LET hit == {i \in 1 .. Len(req.hashes) : req.hashes[i] \in d.hashes}
        cutoff == IF hit = {} THEN Len(req.hashes) + 1 ELSE CHOOSE i \in hit : \A j \in hit : j <= i
        rest == {i \in 1 .. Len(req.hashes) : req.hashes[i] \notin d.hashes \cup req.stolen}
        absent == {req.hashes[i] : i \in {j \in rest : j < cutoff}}
        done == ToSet(req.hashes) \ req.stolen
        Back(h) == s.alternates[h] \ (IF h \in absent THEN {d.origin} ELSE {})
        back == {h \in {req.hashes[i] : i \in rest} : Back(h) # {}}
    IN [s EXCEPT !.announces[d.origin] = @ \ absent,
                 !.announced = [h \in Hashes |-> IF h \in back THEN Back(h) ELSE @[h]],
                 !.alternates = [h \in Hashes |-> IF h \in done THEN {} ELSE @[h]],
                 !.fetching = [h \in Hashes |-> IF h \in done THEN None ELSE @[h]],
                 !.panic = @ \/ \E h \in back : s.announced[h] # {}]

cleanup(d) ==
    /\ d \in deliveries
    /\ deliveries' = deliveries \ {d}
    /\ LET s == FoldLeft(LAMBDA t, h : Delivered(t, h, d), f, SetToSeq(d.hashes))
           req == s.requests[d.origin]
           t == Missing([s EXCEPT !.requests[d.origin] = None], d, req)
       IN IF ~d.direct \/ req = None THEN f' = s /\ UNCHANGED <<asked, drops>>
          ELSE \E u \in scheduleFetches(t, Announcers(t)) : f' = u /\ Sent(t, u)
    /\ UNCHANGED <<known, underpriced, notices, peers, notifies, broadcasts>>

-----------------------------------------------------------------------------
(* A peer is removed: Drop is called.                                        *)
removePeer(p) ==
    /\ p \in Leaving \cap peers
    /\ peers' = peers \ {p}
    /\ drops' = drops \cup {p}
    /\ asked' = [asked EXCEPT ![p] = <<>>]
    /\ UNCHANGED <<f, known, underpriced, notices, deliveries, notifies, broadcasts>>

(* The unanswered part of a dropped peer's request goes back to the queue.   *)
Cancelled(s, p) ==
    LET req == s.requests[p]
        back == ToSet(req.hashes) \ req.stolen
    IN IF req = None THEN s
       ELSE [s EXCEPT !.announced = [h \in Hashes |-> IF h \in back /\ s.alternates[h] \ {p} # {}
                                                      THEN s.alternates[h] \ {p} ELSE @[h]],
                      !.alternates = [h \in Hashes |-> IF h \in back THEN {} ELSE @[h]],
                      !.fetching = [h \in Hashes |-> IF h \in back THEN None ELSE @[h]],
                      !.requests[p] = None]

(* Mutant: the loop forgets the peer and does not ask anyone else.           *)
dropQuietly(p) ==
    /\ p \in drops
    /\ LET waits == [f EXCEPT !.waitlist = [h \in Hashes |-> @[h] \ {p}]]
           s == Cancelled(waits, p)
       IN f' = [s EXCEPT !.announced = [h \in Hashes |-> IF h \in s.announces[p] THEN @[h] \ {p} ELSE @[h]],
                         !.announces[p] = {}]
    /\ drops' = drops \ {p}
    /\ UNCHANGED <<env, notices, asked>>

(* The loop removes the traces of a peer from the lists.                     *)
drop(p) ==
    /\ p \in drops
    /\ LET waits == [f EXCEPT !.waitlist = [h \in Hashes |-> @[h] \ {p}]]
           s == Cancelled(waits, p)
           t == [s EXCEPT !.announced = [h \in Hashes |-> IF h \in s.announces[p] THEN @[h] \ {p} ELSE @[h]],
                          !.announces[p] = {},
                          !.waitTimer = @ \/ (waits # f /\ Waiting(waits) # {}),
                          !.timeoutTimer = @ \/ f.requests[p] # None]
       IN \E u \in IF f.requests[p] # None THEN scheduleFetches(t, Announcers(t)) ELSE {t} :
            /\ f' = u
            /\ LET fresh == {q \in Requested(u) : t.requests[q] = None} IN
               /\ asked' = [q \in Peers |-> IF q \in fresh \cap peers THEN u.requests[q].hashes ELSE asked[q]]
               /\ drops' = (drops \ {p}) \cup (fresh \ peers)
    /\ UNCHANGED <<env, notices>>

Next ==
    \/ \E p \in Peers, hashes \in SUBSET Hashes : Notify(p, hashes) \/ Reply(p, hashes)
    \/ \E S \in SUBSET Hashes : waitTrigger(S)
    \/ \E P \in SUBSET Peers : timeoutTrigger(P)
    \/ \E p \in Peers, h \in Hashes : Broadcast(p, h)
    \/ \E n \in notices : notify(n)
    \/ \E d \in deliveries : cleanup(d)
    \/ \E p \in Peers : removePeer(p) \/ drop(p)

Spec == Init /\ [][Next]_vars

(* Timers run out, the loop takes what is sent to it, honest peers answer.   *)
(* Each conjunct is weak fairness of an action, that of waitTrigger,          *)
(* timeoutTrigger, notify, cleanup, drop and Reply: it is enabled in the      *)
(* states that are excluded for ever, and leaves them.                       *)
Fairness ==
    /\ \A h \in Hashes : []<>~(f.waitTimer /\ h \in Waiting(f))
    /\ \A p \in Peers :
        /\ []<>~(f.timeoutTimer /\ p \in Requested(f) /\ f.requests[p].hashes # <<>>)
        /\ []<>(\A n \in notices : n.origin # p)
        /\ []<>(\A d \in deliveries : d.origin # p)
        /\ []<>(p \notin drops)
        /\ p \in Honest =>
            []<>~(p \in peers /\ asked[p] # <<>> /\ ~Handling(p))

LiveSpec == Spec /\ Fairness

-----------------------------------------------------------------------------
(* The maps have their types, no request is larger than allowed, and none of  *)
(* the panics of the loop is reached.                                        *)
TypeOK ==
    /\ f.waitlist \in [Hashes -> SUBSET Peers]
    /\ f.announces \in [Peers -> SUBSET Hashes]
    /\ f.announced \in [Hashes -> SUBSET Peers] /\ f.alternates \in [Hashes -> SUBSET Peers]
    /\ f.fetching \in [Hashes -> Peers \cup {None}]
    /\ \A p \in Requested(f) : Len(f.requests[p].hashes) <= maxTxRetrievals
    /\ ~f.panic

(* "Each tracked transaction (hash) must only be present in one of the three   *)
(* stages": waiting, queued, being fetched.                                  *)
OneStage ==
    \A h \in Hashes :
        Cardinality({i \in 1 .. 3 : <<f.waitlist[h] # {}, f.announced[h] # {}, f.fetching[h] # None>>[i]}) <= 1

(* A transaction that is being fetched is in the live request of that peer,   *)
(* and in no other request unless delivered meanwhile.                       *)
FetchBacked ==
    \A h \in Hashes :
        /\ f.fetching[h] # None =>
             /\ f.requests[f.fetching[h]] # None
             /\ h \in ToSet(f.requests[f.fetching[h]].hashes)
             /\ h \notin f.requests[f.fetching[h]].stolen
        /\ \A p \in Requested(f) :
             h \in ToSet(f.requests[p].hashes) /\ p # f.fetching[h] => h \in f.requests[p].stolen

(* Each announcement is listed for its peer, each listed one at its hash.     *)
AnnouncesListed ==
    \A p \in Peers : \A h \in f.announces[p] : p \in f.announced[h] \cup f.alternates[h]

(* Nothing is forgotten: while a peer could be asked for a queued transaction  *)
(* some request runs whose end will schedule it, and the timers are set.     *)
NothingIdle ==
    /\ Waiting(f) # {} => f.waitTimer
    /\ Requested(f) # {} => f.timeoutTimer
    /\ Requested(f) = {} => \A p \in Peers : f.announces[p] = {}

(* A transaction that an honest peer has announced reaches the pool, also if   *)
(* another peer is asked for it first and does not answer, or not in full.    *)
Delivers ==
    \A p \in Honest \ Leaving, h \in Hashes :
        p \in f.waitlist[h] \cup f.announced[h] \cup f.alternates[h] ~> h \in known \cup underpriced

(* "A peer was dropped, remove all traces of it".                            *)
TracesRemoved ==
    \A p \in Peers \ (peers \cup drops) :
        \A h \in Hashes : p \notin f.waitlist[h] \cup f.announced[h] \cup f.alternates[h]

(* "the maximum number of unique transaction a peer can announce": more are    *)
(* not tracked for one peer.                                                 *)
AnnouncesBounded == \A p \in Peers : Used(f, p) <= maxTxAnnounces
=============================================================================
