------------------------------- MODULE TrieDB -------------------------------
(* trie/database.go, the reference counted cache of trie nodes in front of   *)
(* the disk, and writeBlockWithState (core/blockchain.go), which decides     *)
(* which states are kept, flushed and collected.  Nodes are named by their   *)
(* hash, so their children are constants.  The chain's mutex lets one block  *)
(* be written at a time; readers run at any time.                            *)
EXTENDS Integers, Sequences, FiniteSets, SequencesExt, FiniteSetsExt, TLC

CONSTANTS Nodes,          \* hashes of trie nodes
          Kids,           \* node -> nodes it refers to by hash
          Ext,            \* account node -> storage roots of its accounts
          Roots,          \* the states of the instance
          Genesis,        \* the first of them
          None,           \* the empty hash
          TriesInMemory,
          MaxHeight,      \* blocks per chain
          MaxCrashes

Chains == {"own", "peer"}

GraphAssumption ==
    /\ Kids \in [Nodes -> SUBSET Nodes] /\ Ext \in [Nodes -> SUBSET Nodes]
    /\ Genesis \in Roots /\ Roots \subseteq Nodes /\ None \notin Nodes

VARIABLES db,         \* dirties, metaroot references, flush-list ends, sizes
          disk,       \* nodes on disk
          task,       \* what remains of the block write in progress
          stateRoot,  \* the node's detached state
          env,        \* the state the miner's block started from, or None
          height,     \* chain -> number of its last block
          headers,    \* roots in the headers of the own chain
          triegc,     \* roots to be dereferenced, with their block numbers
          crashes     \* crashes so far

vars == <<db, disk, task, stateRoot, env, height, headers, triegc, crashes>>

MapSize == 2      \* cachedNodeChildrenSize, in units of one child entry
Children(n) == Kids[n] \union Ext[n]

RECURSIVE Reach(_)
Reach(n) == {n} \union UNION {Reach(m) : m \in Children(n)}

NoDB == [dirties |-> <<>>, meta |-> [r \in Nodes |-> 0], oldest |-> None, newest |-> None,
         dirtiesSize |-> 0, childrenSize |-> 0]
dirty(d, n) == n \in DOMAIN d.dirties

Init == /\ db = NoDB
        /\ disk = Reach(Genesis)
        /\ task = <<>>
        /\ stateRoot = Genesis /\ env = Genesis
        /\ height = [c \in Chains |-> 0]
        /\ headers = <<>>
        /\ triegc = <<>>
        /\ crashes = 0

-----------------------------------------------------------------------------
(* The cache *)

insert(d, h) ==
    IF dirty(d, h) THEN d
    ELSE LET entry   == [parents |-> 0, mapped |-> FALSE, children |-> {},
                         flushPrev |-> d.newest, flushNext |-> None]
             counted == [n \in DOMAIN d.dirties |->
                            IF n \in Kids[h] THEN [d.dirties[n] EXCEPT !.parents = @ + 1]
                            ELSE d.dirties[n]]
             linked  == IF d.oldest = None THEN counted
                        ELSE [counted EXCEPT ![d.newest].flushNext = h]
         IN  [d EXCEPT !.dirties = (h :> entry) @@ linked,
                       !.oldest = IF d.oldest = None THEN h ELSE @,
                       !.newest = h,
                       !.dirtiesSize = @ + 1]

\* a reference from an account node to a storage root is counted once, one
\* from outside (the metaroot) every time
reference(d, child, parent) ==
    IF ~dirty(d, child) \/ child \in d.dirties[parent].children THEN d
    ELSE [d EXCEPT !.dirties[child].parents = @ + 1,
                   !.dirties[parent].children = @ \union {child},
                   !.dirties[parent].mapped = TRUE,
                   !.childrenSize = @ + 1 + IF d.dirties[parent].mapped THEN 0 ELSE MapSize]

Reference(d, root) ==
    IF ~dirty(d, root) THEN d
    ELSE [d EXCEPT !.dirties[root].parents = @ + 1, !.meta[root] = @ + 1,
                   !.childrenSize = @ + IF d.meta[root] = 0 THEN 1 ELSE 0]

\* takes a node out of the flush-list
unlink(d, h) ==
    LET node == d.dirties[h]
        Prev(e, n, p) == IF n = None THEN e ELSE [e EXCEPT !.dirties[n].flushPrev = p]
        Nxt(e, p, n)  == IF p = None THEN e ELSE [e EXCEPT !.dirties[p].flushNext = n]
    IN  CASE h = d.oldest -> Prev([d EXCEPT !.oldest = node.flushNext], node.flushNext, None)
          [] h # d.oldest /\ h = d.newest -> Nxt([d EXCEPT !.newest = node.flushPrev], node.flushPrev, None)
          [] OTHER -> Prev(Nxt(d, node.flushPrev, node.flushNext), node.flushNext, node.flushPrev)

drop(d, h) == [d EXCEPT !.dirties = [n \in DOMAIN @ \ {h} |-> @[n]], !.dirtiesSize = @ - 1]

\* mutant: storage tries are not dereferenced
RECURSIVE DereferenceInner(_, _)
DereferenceInner(d, child) ==
    IF ~dirty(d, child) THEN d
    ELSE LET node == d.dirties[child]
             less == IF node.parents > 0 THEN node.parents - 1 ELSE 0
             all  == FoldSet(LAMBDA k, e : DereferenceInner(e, k), unlink(d, child), Kids[child])
         IN  IF less > 0 THEN [d EXCEPT !.dirties[child].parents = less] ELSE drop(all, child)

RECURSIVE dereference(_, _)
dereference(d, child) ==
    IF ~dirty(d, child) THEN d
    ELSE LET node == d.dirties[child]
             less == IF node.parents > 0 THEN node.parents - 1 ELSE 0
             all  == FoldSet(LAMBDA k, e : dereference(e, k), unlink(d, child),
                             Kids[child] \union node.children)
         IN  IF less > 0 THEN [d EXCEPT !.dirties[child].parents = less]
             ELSE [drop(all, child) EXCEPT !.childrenSize = @ - Cardinality(node.children)
                                                              - IF node.mapped THEN MapSize ELSE 0]

Collect(d, child) == dereference(d, child)

Dereference(d, root) ==
    Collect([d EXCEPT !.meta[root] = IF @ > 0 THEN @ - 1 ELSE 0,
                      !.childrenSize = @ - IF d.meta[root] = 1 THEN 1 ELSE 0], root)

\* the nodes Commit visits, children first
RECURSIVE postorder(_, _)
postorder(d, h) ==
    IF ~dirty(d, h) THEN <<>>
    ELSE Append(FoldSet(LAMBDA k, seq : seq \o SelectSeq(postorder(d, k), LAMBDA n : ~Contains(seq, n)),
                        <<>>, Kids[h] \union d.dirties[h].children), h)

RECURSIVE listed(_, _)
listed(d, h) == IF ~dirty(d, h) THEN <<>> ELSE <<h>> \o listed(d, d.dirties[h].flushNext)
flushList(d) == listed(d, d.oldest)

\* cleaner.Put for one node
uncache(d, h) ==
    IF ~dirty(d, h) THEN d
    ELSE LET node == d.dirties[h]
         IN  [drop(unlink(d, h), h) EXCEPT
                 !.dirtiesSize = @ - Cardinality(node.children) - IF node.mapped THEN MapSize ELSE 0]

\* Cap removes the oldest nodes
uncap(d, h) ==
    LET node == d.dirties[h]
    IN  [drop(unlink(d, h), h) EXCEPT
            !.childrenSize = @ - Cardinality(node.children) - IF node.mapped THEN MapSize ELSE 0]

-----------------------------------------------------------------------------
(* Writing blocks *)

Readable(n) == n \in disk \/ dirty(db, n)
StateReadable == \A n \in Reach(stateRoot) : Readable(n)

Rank(n) == Cardinality(Reach(n))
Ordered(S) == SetToSortSeq(S, LAMBDA a, b : Rank(a) < Rank(b))

\* StateDB.Commit: new is inserted children first, each account node then
\* refers to its storage roots
committed(d, new) ==
    LET put(e, h) == FoldSet(LAMBDA x, f : reference(f, x, h), insert(e, h), Ext[h])
    IN  FoldLeft(put, d, Ordered(new))

\* the tasks of the write of a block: Cap when the memory allowance is
\* exceeded, Commit when the time allowance is, then the collection
Tasks(d, number) ==
    IF number <= TriesInMemory THEN {<<>>}
    ELSE LET chosen == number - TriesInMemory
             list == flushList(d)
             caps == {<<>>} \union {<<[kind |-> "cap", list |-> SubSeq(list, 1, n), done |-> 0]>> :
                                       n \in DOMAIN list}
             commits == {<<>>} \union IF chosen > Len(headers) THEN {}
                          ELSE {<<[kind |-> "commit", root |-> headers[chosen], batch |-> <<>>]>>}
         IN  {a \o b \o <<[kind |-> "gc", chosen |-> chosen]>> : a \in caps, b \in commits}

WriteBlock(c, root, new) ==
    LET number == height[c] + 1
        d == Reference(committed(db, new), root)
    IN  /\ task = <<>>
        /\ number <= MaxHeight
        /\ db' = d
        /\ triegc' = Append(triegc, <<root, number>>)
        /\ height' = [height EXCEPT ![c] = number]
        /\ task' \in Tasks(d, number)
        /\ UNCHANGED <<disk, crashes>>

\* another validator's block is executed on the node's state; besides what is
\* new, nodes that were changed and changed back are inserted again
Import == \E root \in Roots :
    /\ StateReadable
    /\ \E new \in {Reach(root) \ Reach(stateRoot), IF root = stateRoot THEN {} ELSE Reach(root)} :
          WriteBlock("peer", root, new)
    /\ stateRoot' = root
    /\ UNCHANGED <<headers, env>>

\* the miner starts a block, and writes it with the state it started from
makeCurrent == /\ env # stateRoot
               /\ env' = stateRoot
               /\ UNCHANGED <<db, disk, task, stateRoot, height, headers, triegc, crashes>>

Mined == /\ env # None
         /\ WriteBlock("own", env, {})
         /\ env' = None
         /\ headers' = Append(headers, env)
         /\ UNCHANGED stateRoot

Working(kind) == task # <<>> /\ (task # <<>> => task[1].kind = kind)
Job == task[1]

\* a batch of trie nodes reaches the disk
Flush ==
    /\ Working("cap")
    /\ Job.done < Len(Job.list)
    /\ \E n \in Job.done + 1 .. Len(Job.list) :
          /\ disk' = disk \union Range(SubSeq(Job.list, Job.done + 1, n))
          /\ task' = [task EXCEPT ![1].done = n]
    /\ UNCHANGED <<db, stateRoot, env, height, headers, triegc, crashes>>

\* Cap forgets what it wrote once everything is written
Capped ==
    /\ Working("cap")
    /\ Job.done = Len(Job.list)
    /\ db' = FoldLeft(uncap, db, Job.list)
    /\ task' = Tail(task)
    /\ UNCHANGED <<disk, stateRoot, env, height, headers, triegc, crashes>>

\* Commit writes batches of nodes in postorder and forgets each one after it
CommitBatch ==
    /\ Working("commit")
    /\ Job.batch = <<>>
    /\ LET todo == postorder(db, Job.root)
       IN  \E n \in DOMAIN todo : /\ disk' = disk \union Range(SubSeq(todo, 1, n))
                                  /\ task' = [task EXCEPT ![1].batch = SubSeq(todo, 1, n)]
    /\ UNCHANGED <<db, stateRoot, env, height, headers, triegc, crashes>>

CommitReplay ==
    /\ Working("commit")
    /\ Job.batch # <<>>
    /\ db' = FoldLeft(uncache, db, Job.batch)
    /\ task' = [task EXCEPT ![1].batch = <<>>]
    /\ UNCHANGED <<disk, stateRoot, env, height, headers, triegc, crashes>>

CommitDone ==
    /\ Working("commit")
    /\ Job.batch = <<>> /\ ~dirty(db, Job.root)
    /\ task' = Tail(task)
    /\ UNCHANGED <<db, disk, stateRoot, env, height, headers, triegc, crashes>>

GarbageCollect ==
    /\ Working("gc")
    /\ LET old == SelectSeq(triegc, LAMBDA t : t[2] <= Job.chosen)
       IN  db' = FoldLeft(LAMBDA d, t : Dereference(d, t[1]), db, old)
    /\ triegc' = SelectSeq(triegc, LAMBDA t : t[2] > Job.chosen)
    /\ task' = Tail(task)
    /\ UNCHANGED <<disk, stateRoot, env, height, headers, crashes>>

-----------------------------------------------------------------------------
Referenced == {r \in Nodes : db.meta[r] > 0}
Live == UNION {Reach(r) : r \in Referenced}

\* the machine stops; only the disk is left, and the node goes on from a state
\* it finds there
Crash == /\ crashes < MaxCrashes
         /\ crashes' = crashes + 1
         /\ db' = NoDB
         /\ task' = <<>> /\ triegc' = <<>>
         /\ \E r \in Roots \intersect disk : stateRoot' = r /\ env' = r
         /\ UNCHANGED <<disk, height, headers>>

Next == \/ Import \/ makeCurrent \/ Mined
        \/ Flush \/ Capped \/ CommitBatch \/ CommitReplay \/ CommitDone \/ GarbageCollect
        \/ Crash

Spec == Init /\ [][Next]_vars

-----------------------------------------------------------------------------
(* Properties *)

\* Reference keeps a trie alive (blockchain.go:1631): as long as a root is
\* referenced, every node below it, storage tries included, is in the cache or
\* on disk, whatever was shared, flushed, inserted again or collected, and also
\* between the write of a batch and its removal from the cache: readers look
\* into the cache first and then on disk, without a lock (database.go:594).
LiveReadable == \A n \in Live : Readable(n)

\* Whatever batch a crash cuts off, a node on disk has all its children there,
\* so a root found on disk is a complete state.
DiskClosed == \A n \in disk : Children(n) \subseteq disk

\* Collection leaves nothing behind: a cached node belongs to a referenced
\* root (the "Dangling trie nodes" test of BlockChain.Stop).
NothingDangles == task = <<>> => DOMAIN db.dirties \subseteq Live

\* The flush-list (database.go:74) links exactly the cached nodes, in both
\* directions.
FlushListExact ==
    LET l == flushList(db)
    IN  /\ Range(l) = DOMAIN db.dirties
        /\ Len(l) = Cardinality(DOMAIN db.dirties)
        /\ l # <<>> => db.newest = Last(l)
        /\ \A i \in 2 .. Len(l) : db.dirties[l[i]].flushPrev = l[i - 1]

\* The node's own state is not collected as long as its chain is less than
\* TriesInMemory blocks longer than the one whose block gave it that state:
\* states are collected by the number of the block just written, whichever
\* chain that is on (blockchain.go:1644).
StateKept == height["own"] - height["peer"] < TriesInMemory => StateReadable

\* "Instead of using parent root for current state, keep it stored here"
\* (blockchain.go:218), and the reference of its block is there "to keep trie
\* alive" (blockchain.go:1631): it is never collected.
StateNeverCollected == StateReadable

\* "Storage size of the external children tracking" (database.go:88) is what
\* the references held take.
ChildrenSizeExact ==
    db.childrenSize = Cardinality(Referenced)
        + MapThenSumSet(LAMBDA n : Cardinality(db.dirties[n].children)
                                     + (IF db.dirties[n].mapped THEN MapSize ELSE 0), DOMAIN db.dirties)
=============================================================================
