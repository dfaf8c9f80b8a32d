------------------------------ MODULE Snapshot ------------------------------
(* The state snapshot of a node (core/state/snapshot): a flat copy of one   *)
(* state on disk (the disk layer), one diff layer per later state above it, *)
(* and a generator that fills the disk layer from the trie while the layers *)
(* above it move. In Cascadeth the layers form a tree: an imported block    *)
(* extends the layer of stateRoot, a mined block the layer of the state it  *)
(* was filled on, which is often an older one.                              *)
(*                                                                          *)
(* A StateDB holds on to a layer it was given, so every layer object that   *)
(* was ever created may be read at any time. A state root is the sequence   *)
(* of changes that led to the state. Keys are numbered in the order of the  *)
(* hashes the generator follows: an account before its slots.               *)
EXTENDS Naturals, Sequences, SequencesExt, Functions, FiniteSets

CONSTANTS NKeys,       \* keys 1..NKeys in the snapshot
          Owner,       \* Owner[k]: the account a key belongs to (k itself for an account)
          Orders,      \* the orders in which imported blocks change the state
          Alt,         \* a change only a mined block makes
          Layers,      \* the diff layers kept (128)
          GenLayers,   \* the diff layers kept while generating (8)
          AggLimit,    \* aggregatorMemoryLimit, in merged changes
          MaxMined,    \* bound: mined blocks
          MaxRestarts, \* bound: stops and crashes
          None

Keys     == 1 .. NKeys
Accounts == {Owner[k] : k \in Keys}
Done     == NKeys + 1
Error    == {}          \* ErrSnapshotStale, ErrNotCoveredYet; a value v read is {v}

VARIABLES order,   \* the order of this behaviour, one of Orders
          obj,     \* all layer objects of this process, in order of creation
          tree,    \* Tree.layers: a set of objects, one per root
          disk,    \* the persistent part: root, data, generator progress, journal
          gen,     \* the generator of the disk layer: can it be aborted, is a wipe running
          cap,     \* the Cap call in progress, or None
          reader,  \* a read in progress: layer, key, answer of the bloom filter
          stateRoot, past, head, mined, restarts
vars == <<order, obj, tree, disk, gen, cap, reader, stateRoot, past, head, mined, restarts>>
chainVars == <<stateRoot, past, head, mined>>

-----------------------------------------------------------------------------
(* The states the tries hold. *)

\* A change destructs accounts and then writes keys; the value 0 deletes.
Apply(data, c) == [k \in Keys |-> IF k \in DOMAIN c.data THEN c.data[k]
                                  ELSE IF Owner[k] \in c.des THEN 0 ELSE data[k]]
Content(root) == FoldLeft(Apply, [k \in Keys |-> 0], root)

-----------------------------------------------------------------------------
(* Layers. *)

IsDisk(i) == obj[i].parent = None
DiskLayer(root) == [root |-> root, parent |-> None, origin |-> None, stale |-> FALSE,
                    aborted |-> FALSE,  \* its generator has taken an abort and is gone
                    des |-> {}, data |-> <<>>, bloom |-> [des |-> {}, keys |-> {}], memory |-> 0]

\* rebloom: the parent's filter, empty above the disk layer, and the own items.
rebloom(objs, i, origin) ==
  LET o  == objs[i]
      up == IF objs[o.parent].parent = None THEN [des |-> {}, keys |-> {}] ELSE objs[o.parent].bloom
  IN  [objs EXCEPT ![i] = [o EXCEPT !.origin = origin,
           !.bloom = [des |-> up.des \cup o.des, keys |-> up.keys \cup DOMAIN o.data]]]

newDiffLayer(objs, p, root, c) ==
  LET n == Len(objs) + 1
      o == [root |-> root, parent |-> p, origin |-> None, stale |-> FALSE, des |-> c.des,
            data |-> c.data, bloom |-> None, memory |-> 1]
  IN  rebloom(Append(objs, o), n, IF objs[p].parent = None THEN p ELSE objs[p].origin)

\* The layer of a root in the tree.
HasLayer(root) == \E i \in tree : obj[i].root = root
Layer(root)    == CHOOSE i \in tree : obj[i].root = root
DiskBase       == CHOOSE i \in tree : IsDisk(i)
DiskRoot       == obj[DiskBase].root
put(objs, t, i) == {j \in t : objs[j].root # objs[i].root} \cup {i}

\* diskLayer.AccountRLP and Storage.
ReadDisk(i, k) ==
  IF obj[i].stale \/ k > disk.marker THEN Error ELSE {disk.data[k]}

\* accountRLP and storage: down the layers; the locks are held on the way, so
\* the walk is one step.
RECURSIVE Walk(_, _)
Walk(i, k) ==
  CASE IsDisk(i)                  -> ReadDisk(i, k)
    [] ~IsDisk(i) /\ obj[i].stale -> Error
    [] OTHER -> IF k \in DOMAIN obj[i].data THEN {obj[i].data[k]}
                ELSE IF Owner[k] \in obj[i].des THEN {0} ELSE Walk(obj[i].parent, k)

InBloom(i, k) == k \in obj[i].bloom.keys \/ Owner[k] \in obj[i].bloom.des

\* A read first asks the filter, which may err on one side, and lets go of the
\* lock; then it walks, or goes straight to the origin it finds by then.
ReadStart(i, k, hit) ==
  /\ reader = None
  /\ InBloom(i, k) /\ ~IsDisk(i) => hit
  /\ reader' = [layer |-> i, key |-> k, hit |-> hit]
  /\ UNCHANGED <<order, obj, tree, disk, gen, cap, chainVars, restarts>>

Answer(r) == IF r.hit \/ IsDisk(r.layer) THEN Walk(r.layer, r.key)
             ELSE ReadDisk(obj[r.layer].origin, r.key)

ReadEnd ==
  /\ reader # None
  /\ reader' = None
  /\ UNCHANGED <<order, obj, tree, disk, gen, cap, chainVars, restarts>>

-----------------------------------------------------------------------------
(* Commit: Update, then Cap. Commits are serialised by the chain's mutex.    *)

\* Update puts a layer above the parent's, if the tree still has that; Cap
\* follows in any case.
Update(base, c) ==
  LET root == Append(base, c)
      objs == newDiffLayer(obj, Layer(base), root, c)
      put1 == HasLayer(base)
  IN  /\ cap = None
      /\ obj' = IF put1 THEN objs ELSE obj
      /\ tree' = IF put1 THEN put(objs, tree, Len(objs)) ELSE tree
      /\ cap' = IF put1 \/ HasLayer(root) THEN [pc |-> "flatten", root |-> root, diff |-> None] ELSE None

Import ==
  /\ Len(stateRoot) < Len(order)
  /\ LET c == order[Len(stateRoot) + 1]
     IN  Update(stateRoot, c) /\ stateRoot' = Append(stateRoot, c)
  /\ past' = past \cup {stateRoot'}
  /\ UNCHANGED <<order, disk, gen, reader, head, mined, restarts>>

Mined(base) ==
  /\ mined < MaxMined
  /\ \E c \in {Alt} \cup {order[j] : j \in {Len(base) + 1} \cap DOMAIN order} :
       Update(base, c) /\ head' = Append(base, c)
  /\ mined' = mined + 1
  /\ UNCHANGED <<order, disk, gen, reader, stateRoot, past, restarts>>

\* cap's dive: the layer n steps below i, or None if the disk layer comes first.
RECURSIVE Dive(_, _)
Dive(i, n) == IF IsDisk(i) THEN None ELSE IF n = 0 THEN i ELSE Dive(obj[i].parent, n - 1)

\* Layer i merged into layer p, the flattened rest below it: the maps of p are
\* reused, p is marked stale and a new layer stands for both. Merging twice into
\* one layer panics (id None).
Combined(o, p, kept) ==
  [p EXCEPT !.root = o.root, !.des = p.des \cup o.des,
            !.data = [k \in DOMAIN kept \cup DOMAIN o.data |->
                        IF k \in DOMAIN o.data THEN o.data[k] ELSE kept[k]],
            !.bloom = o.bloom, !.memory = p.memory + o.memory]

Combine(o, p) == Combined(o, p, Restrict(p.data, {k \in DOMAIN p.data : Owner[k] \notin o.des}))

Merge(objs, i, p) ==
  IF objs[p].stale THEN [objs |-> objs, id |-> None]
  ELSE [objs |-> Append([objs EXCEPT ![p].stale = TRUE], Combine(objs[i], objs[p])), id |-> Len(objs) + 1]

\* flatten: a layer right above the disk layer is returned as it is.
RECURSIVE flatten(_, _)
flatten(objs, i) ==
  IF objs[objs[i].parent].parent = None THEN [objs |-> objs, id |-> i]
  ELSE LET below == flatten(objs, objs[i].parent)
       IN  IF below.id = None THEN below ELSE Merge(below.objs, i, below.id)

NLayers == IF disk.marker # Done /\ Layers > GenLayers THEN GenLayers ELSE Layers

\* genAbort of a disk layer: it stays behind in a layer that was persisted over.
genAbort(i) == IF obj[i].stale THEN obj[i].aborted ELSE gen.abort

\* Cap up to the relinking of the layer above the flattened one.
CapFlatten ==
  /\ cap # None /\ cap.pc = "flatten"
  /\ LET top == Layer(cap.root)
         d   == IF IsDisk(top) THEN None ELSE Dive(top, NLayers - 1)
         p   == obj[d].parent
     IN  IF d = None \/ IsDisk(p)
         THEN /\ cap' = [cap EXCEPT !.pc = "tidy"]
              /\ UNCHANGED <<obj, tree>>
         ELSE LET f == flatten(obj, p)
              IN  IF f.id = None
                  THEN cap' = [cap EXCEPT !.pc = "panic"] /\ UNCHANGED <<obj, tree>>
                  ELSE /\ tree' = put(f.objs, tree, f.id)
                       /\ obj' = [f.objs EXCEPT ![d].parent = f.id]
                       /\ cap' = [cap EXCEPT !.diff = d,
                            !.pc = IF f.objs[f.id].memory < AggLimit /\ ~genAbort(f.objs[f.id].parent) THEN "tidy" ELSE "persist"]
  /\ UNCHANGED <<order, disk, gen, reader, chainVars, restarts>>

\* diffToDisk that also skips the key the generator stopped at.
FlushedBelow(data, b, marker) ==
  [k \in Keys |-> IF k >= marker THEN data[k]
                  ELSE IF k \in DOMAIN b.data THEN b.data[k]
                  ELSE IF Owner[k] \in b.des THEN 0 ELSE data[k]]

\* What diffToDisk writes: only keys the generator has covered.
Flushed(data, b, marker) ==
  [k \in Keys |-> IF k > marker THEN data[k]
                  ELSE IF k \in DOMAIN b.data THEN b.data[k]
                  ELSE IF Owner[k] \in b.des THEN 0 ELSE data[k]]

\* diffToDisk: the base goes stale, one batch writes data, root and progress,
\* and a new disk layer takes over, with the generator if it is not done. On a
\* base that was persisted over before it panics, or waits for the base's
\* generator, which is gone.
CapPersist ==
  /\ cap # None /\ cap.pc = "persist"
  /\ LET f    == obj[cap.diff].parent
         base == obj[f].parent
         n    == Len(obj) + 1
     IN  IF obj[base].stale
         THEN /\ cap' = [cap EXCEPT !.pc = IF genAbort(base) THEN "stuck" ELSE "panic"]
              /\ UNCHANGED <<obj, tree, disk, gen>>
         ELSE /\ obj' = Append([obj EXCEPT ![base].stale = TRUE, ![base].aborted = gen.abort,
                                          ![cap.diff].parent = n],
                               DiskLayer(obj[f].root))
              /\ tree' = put(obj', tree, n)
              /\ disk' = [disk EXCEPT !.root = obj[f].root, !.data = Flushed(@, obj[f], disk.marker),
                                      !.wiping = gen.wiping]
              /\ gen' = [gen EXCEPT !.abort = disk.marker # Done]
              /\ cap' = [cap EXCEPT !.pc = "tidy"]
  /\ UNCHANGED <<order, reader, chainVars, restarts>>

Child(i, j) == ~IsDisk(j) /\ obj[obj[j].parent].root = obj[i].root

\* remove: a stale layer goes with the layers of the tree above it.
RECURSIVE Above(_)
Above(S) == LET T == S \cup {j \in tree : \E i \in S : Child(i, j)}
            IN  IF T = S THEN S ELSE Above(T)

Reblooms(objs, S, base) ==
  LET byDepth == SetToSortSeq(S, LAMBDA i, j : Len(objs[i].root) < Len(objs[j].root))
  IN  FoldLeft(LAMBDA a, i : rebloom(a, i, base), objs, byDepth)

\* The rest of Cap: stale layers leave the tree; if the disk layer moved,
\* the layers above it get new filters and the new origin.
CapTidy ==
  /\ cap # None /\ cap.pc = "tidy"
  /\ tree' = tree \ Above({i \in tree : obj[i].stale})
  /\ LET base == obj[cap.diff].parent
     IN  obj' = IF cap.diff # None /\ IsDisk(base) THEN Reblooms(obj, (Above({base}) \ {base}) \cap tree', base) ELSE obj
  /\ cap' = None
  /\ UNCHANGED <<order, disk, gen, reader, chainVars, restarts>>

-----------------------------------------------------------------------------
(* The generator and the wiper. *)

\* A batch up to key m, from the trie of the disk layer's root, with the marker.
GenBatch(m) ==
  /\ gen.abort /\ ~gen.wiping
  /\ disk.marker < m /\ m <= Done
  /\ disk' = [disk EXCEPT !.marker = m, !.wiping = FALSE,
       !.data = [k \in Keys |-> IF disk.marker < k /\ k <= m /\ Content(disk.root)[k] # 0
                                THEN Content(disk.root)[k] ELSE @[k]]]
  /\ UNCHANGED <<order, obj, tree, gen, cap, reader, chainVars, restarts>>

\* wipeContent removes whatever an earlier snapshot left, some keys at a time.
Wipe(k) ==
  /\ gen.wiping /\ disk.data[k] # 0
  /\ disk' = [disk EXCEPT !.data[k] = 0]
  /\ UNCHANGED <<order, obj, tree, gen, cap, reader, chainVars, restarts>>

WipeDone ==
  /\ gen.wiping /\ \A k \in Keys : disk.data[k] = 0
  /\ gen' = [gen EXCEPT !.wiping = FALSE]
  /\ UNCHANGED <<order, obj, tree, disk, cap, reader, chainVars, restarts>>

-----------------------------------------------------------------------------
(* Stop, crash and start. *)

\* The diffs of a layer and those below it, the lowest first.
RECURSIVE Diffs(_)
Diffs(i) == IF IsDisk(i) THEN <<>>
            ELSE Append(Diffs(obj[i].parent), [root |-> obj[i].root, des |-> obj[i].des, data |-> obj[i].data])

RECURSIVE Fresh(_)
Fresh(i) == ~obj[i].stale /\ (IsDisk(i) \/ Fresh(obj[i].parent))

RECURSIVE Bottom(_)
Bottom(i) == IF IsDisk(i) THEN i ELSE Bottom(obj[i].parent)

\* Tree.Journal of the head block's state, if the tree has it and nothing below
\* it is stale.
Journal(d) ==
  IF HasLayer(head) /\ Fresh(Layer(head))
  THEN [d EXCEPT !.journal = [base |-> DiskRoot, diffs |-> Diffs(Layer(head))],
                 !.wiping = gen.wiping]
  ELSE d

\* It starts at the disk layer below, whose generator it aborts: one that is
\* gone never answers.
JournalBlocks == HasLayer(head) /\ obj[Bottom(Layer(head))].aborted

\* loadAndParseJournal: diffs that do not fit the disk layer are dropped.
Loaded(d) == IF d.journal = None \/ d.journal.base # d.root THEN <<>> ELSE d.journal.diffs

\* New: the snapshot is taken if its head is the chain's, with the generator
\* and the wipe where they were; else its root is deleted and it is rebuilt.
Open(d, root) ==
  LET diffs == Loaded(d)
      last  == IF diffs = <<>> THEN d.root ELSE Last(diffs).root
      objs  == FoldLeft(LAMBDA a, x : newDiffLayer(a, Len(a), x.root, x), <<DiskLayer(d.root)>>, diffs)
      ok    == d.root # None /\ last = root
  IN  /\ obj' = IF ok THEN objs ELSE <<>>
      /\ tree' = IF ok THEN DOMAIN objs ELSE {}
      /\ disk' = IF ok THEN d ELSE [d EXCEPT !.root = None]
      /\ gen' = [abort |-> ok /\ d.marker # Done, wiping |-> ok /\ d.marker # Done /\ d.wiping]
      /\ cap' = IF ok THEN None ELSE [pc |-> "rebuild", root |-> root, diff |-> None]
      /\ reader' = None
      /\ stateRoot' = root /\ past' = {root} /\ head' = root
      /\ UNCHANGED <<order, mined>>

\* generateSnapshot: a new disk layer, nothing covered, a wipe under way.
Rebuild ==
  /\ cap # None /\ cap.pc = "rebuild"
  /\ obj' = <<DiskLayer(cap.root)>> /\ tree' = {1}
  /\ disk' = [disk EXCEPT !.root = cap.root, !.marker = 0, !.wiping = TRUE]
  /\ gen' = [abort |-> TRUE, wiping |-> TRUE]
  /\ cap' = None
  /\ UNCHANGED <<order, reader, chainVars, restarts>>

\* BlockChain.Stop journals, and the next start finds the same head.
Stop ==
  /\ restarts < MaxRestarts /\ cap = None
  /\ IF JournalBlocks
     THEN /\ cap' = [pc |-> "hung", root |-> head, diff |-> None]
          /\ UNCHANGED <<order, obj, tree, disk, gen, reader, chainVars, restarts>>
     ELSE restarts' = restarts + 1 /\ Open(Journal(disk), head)

\* The process dies at any point; the next start finds the last head block.
Crash ==
  /\ restarts < MaxRestarts
  /\ restarts' = restarts + 1
  /\ Open(disk, head)

-----------------------------------------------------------------------------
\* The first start, or one that finds a finished snapshot of the genesis state.
Init ==
  /\ order \in Orders
  /\ obj = <<DiskLayer(<<>>)>> /\ tree = {1}
  /\ \E new \in BOOLEAN :
       /\ disk = [root |-> <<>>, data |-> [k \in Keys |-> 0], marker |-> IF new THEN 0 ELSE Done,
                  wiping |-> new, journal |-> None]
       /\ gen = [abort |-> new, wiping |-> new]
  /\ cap = None /\ reader = None
  /\ stateRoot = <<>> /\ past = {<<>>} /\ head = <<>> /\ mined = 0 /\ restarts = 0

Next ==
  \/ Import
  \/ \E b \in past : Mined(b)
  \/ CapFlatten \/ CapPersist \/ CapTidy
  \/ \E m \in 1 .. Done : GenBatch(m)
  \/ \E k \in Keys : Wipe(k)
  \/ WipeDone
  \/ \E i \in DOMAIN obj, k \in Keys, hit \in BOOLEAN : ReadStart(i, k, hit)
  \/ ReadEnd
  \/ Rebuild \/ Stop \/ Crash

Spec == Init /\ [][Next]_vars

-----------------------------------------------------------------------------
(* What the snapshot promises. *)

\* A read of any layer, however old the caller's handle on it and whatever was
\* flattened, persisted, generated or restarted since the filter was asked,
\* returns what the trie of the layer's root holds, or an error that sends the
\* caller to the trie (diffLayer.AccountRLP, Storage; statedb.go:526).
ReadsExact ==
  reader # None => Answer(reader) \subseteq {Content(obj[reader.layer].root)[reader.key]}

\* What the disk holds up to the marker is the state of the root it names, at
\* every point at which the process may die (diffToDisk, generate, wipe).
DiskExact ==
  disk.root # None =>
    \A k \in Keys : k <= disk.marker => disk.data[k] = Content(disk.root)[k]

\* The layers the node's state builds on stay usable: no layer below that of
\* stateRoot goes stale, their origin is the live disk layer, and Cap never
\* merges into a layer that was merged into before (the panics in flatten and
\* diffToDisk) nor waits for a generator that is gone, although mined blocks branch off from older states and are capped as well.
StateLive ==
  /\ cap # None => cap.pc \notin {"panic", "stuck"}
  /\ cap = None => /\ Cardinality({i \in tree : IsDisk(i)}) = 1
                   /\ HasLayer(stateRoot) =>
                        /\ Fresh(Layer(stateRoot))
                        /\ ~IsDisk(Layer(stateRoot)) => obj[Layer(stateRoot)].origin = DiskBase

\* BlockChain.Stop comes to its end: it "ensures that the entirety of the state
\* snapshot is journalled" (blockchain.go:1063) and never waits for a generator
\* that is gone.
StopReturns == cap # None => cap.pc # "hung"

\* Outside of Cap the tree holds no layer that links into a stale one, which is
\* what the comment on the removal in Cap says (snapshot.go:345).
LinksLive == cap = None => \A i \in tree : Fresh(i)
=============================================================================
