------------------------------ MODULE StateDB ------------------------------
(* core/state: the state a block is executed on.  Accounts live in objects   *)
(* with three layers of storage caches; every change leaves an entry in a    *)
(* journal from which RevertToSnapshot undoes it; Finalise, IntermediateRoot *)
(* and Commit move the changes down to the tries and, in parallel, to the    *)
(* flat snapshot layer.  A trie and its root hash are the map they hold.     *)
EXTENDS Integers, Sequences, FiniteSets, SequencesExt, TLC

CONSTANTS Addrs, Keys, None,
          Contracts,      \* addresses at which contracts are created
          ripemd,         \* the address with the touch exception
          WithSnap,       \* a snapshot tree is in use
          Faults,         \* a storage read may fail ("read")
          Ops,            \* the operations of this instance
          MaxJournal,     \* entries in the journal of one transaction
          MaxRevisions,   \* snapshots of one transaction
          MaxFinalises    \* transactions, over all blocks

VARIABLES s,          \* the StateDB but for the fields below
          revisions,  \* validRevisions
          trie,       \* s.trie: address -> account or None
          db,         \* the committed account trie
          flat,       \* the snapshot: accounts and storage of the parent
          saved,      \* history: the visible state at each valid revision
          finalises,  \* history: Finalise calls so far
          failed      \* history: a read failed in this block

vars == <<s, revisions, trie, db, flat, saved, finalises, failed>>

Values == 0 .. 2
NoStorage == [k \in Keys |-> 0]
NoAccount == [nonce |-> 0, bal |-> 0, code |-> FALSE, root |-> NoStorage]
NoList == [addresses |-> <<>>, slots |-> <<>>]
Pair(x, y) == (x :> y)

newObject(d) == [nonce |-> d.nonce, bal |-> d.bal, code |-> d.code, root |-> d.root,
                 origin |-> <<>>, pending |-> <<>>, dirty |-> <<>>,
                 suicided |-> FALSE, deleted |-> FALSE, dbErr |-> FALSE]
empty(o) == o.nonce = 0 /\ o.bal = 0 /\ ~o.code
dataOf(o) == [nonce |-> o.nonce, bal |-> o.bal, code |-> o.code, root |-> o.root]

New == [objs |-> [a \in Addrs |-> None], pending |-> {}, dirty |-> {},
        snap |-> WithSnap, destructs |-> {}, accounts |-> <<>>, storage |-> <<>>,
        journal |-> <<>>, dirties |-> [a \in Addrs |-> 0],
        refund |-> 0, logs |-> 0, accessList |-> NoList]

Init == /\ s = New
        /\ revisions = <<>>
        /\ \E d \in {[a \in Addrs |-> None],
                     [a \in Addrs |-> IF a \in Contracts
                          THEN [nonce |-> 1, bal |-> 1, code |-> TRUE, root |-> [k \in Keys |-> 1]]
                          ELSE None]} :
              /\ trie = d
              /\ db = d
              /\ flat = [acc |-> d, sto |-> [a \in Addrs |-> IF d[a] = None THEN NoStorage ELSE d[a].root]]
        /\ saved = <<>>
        /\ finalises = 0
        /\ failed = FALSE

-----------------------------------------------------------------------------
(* Reading *)

getDeletedStateObject(st, a) ==
    IF st.objs[a] # None THEN st.objs[a]
    ELSE LET d == IF st.snap THEN flat.acc[a] ELSE trie[a]
         IN  IF d = None THEN None ELSE newObject(d)

getStateObject(st, a) ==
    LET o == getDeletedStateObject(st, a)
    IN  IF o = None THEN None ELSE IF o.deleted THEN None ELSE o

Exist(st, a) == getStateObject(st, a) # None

\* the value, and the object with what the read caches
GetCommittedState(st, a, o, k) ==
    IF k \in DOMAIN o.pending THEN [v |-> o.pending[k], o |-> o]
    ELSE IF k \in DOMAIN o.origin THEN [v |-> o.origin[k], o |-> o]
    ELSE IF st.snap /\ a \in st.destructs THEN [v |-> 0, o |-> o]
    ELSE LET v == IF st.snap THEN flat.sto[a][k] ELSE o.root[k]
         IN  [v |-> v, o |-> [o EXCEPT !.origin = Pair(k, v) @@ @]]

GetState(st, a, o, k) ==
    IF k \in DOMAIN o.dirty THEN [v |-> o.dirty[k], o |-> o] ELSE GetCommittedState(st, a, o, k)

-----------------------------------------------------------------------------
(* The journal: an entry knows the address it dirtied and how to undo itself *)

dirtied(e) == IF e.kind \in {"reset", "refund", "log", "listAddr", "listSlot"} THEN None ELSE e.a

append(st, e) ==
    [st EXCEPT !.journal = Append(@, e),
               !.dirties = [a \in Addrs |-> IF dirtied(e) = a THEN @[a] + 1 ELSE @[a]]]

setStateObject(st, a, o) == [st EXCEPT !.objs[a] = o]

\* DeleteSlot drops the slot map of the address once it is empty
DeleteSlot(l, a, k) ==
    LET idx  == l.addresses[a]
        left == l.slots[idx] \ {k}
    IN  IF left = {}
        THEN [addresses |-> [l.addresses EXCEPT ![a] = -1], slots |-> SubSeq(l.slots, 1, idx - 1)]
        ELSE [l EXCEPT !.slots[idx] = left]

DeleteAddress(l, a) ==
    [l EXCEPT !.addresses = [b \in DOMAIN @ \ {a} |-> @[b]]]

undo(st, e) ==
    CASE e.kind = "create"   -> [st EXCEPT !.objs[e.a] = None]
      [] e.kind = "reset"    -> [st EXCEPT !.objs[e.a] = e.prev,
                                           !.destructs = IF ~e.prevdestruct /\ st.snap THEN @ \ {e.a} ELSE @]
      [] e.kind = "suicide"  -> IF Exist(st, e.a)
                                THEN [st EXCEPT !.objs[e.a].suicided = e.prev, !.objs[e.a].bal = e.bal]
                                ELSE st
      [] e.kind = "touch"    -> st
      [] e.kind = "balance"  -> [st EXCEPT !.objs[e.a].bal = e.prev]
      [] e.kind = "nonce"    -> [st EXCEPT !.objs[e.a].nonce = e.prev]
      [] e.kind = "code"     -> [st EXCEPT !.objs[e.a].code = e.prev]
      [] e.kind = "storage"  -> [st EXCEPT !.objs[e.a].dirty = Pair(e.k, e.prev) @@ @]
      [] e.kind = "refund"   -> [st EXCEPT !.refund = e.prev]
      [] e.kind = "log"      -> [st EXCEPT !.logs = @ - 1]
      [] e.kind = "listAddr" -> [st EXCEPT !.accessList = DeleteAddress(@, e.a)]
      [] e.kind = "listSlot" -> [st EXCEPT !.accessList = DeleteSlot(@, e.a, e.k)]

\* undoes one entry and its dirty count
undone(st, e) ==
    LET u == undo(st, e)
    IN  [u EXCEPT !.dirties = [a \in Addrs |-> IF dirtied(e) = a THEN @[a] - 1 ELSE @[a]]]

revert(st, snapshot) ==
    [FoldLeft(undone, st, Reverse(SubSeq(st.journal, snapshot + 1, Len(st.journal))))
        EXCEPT !.journal = SubSeq(@, 1, snapshot)]

-----------------------------------------------------------------------------
(* Creating and changing objects *)

createObject(st, a) ==
    LET prev == getDeletedStateObject(st, a)
        o    == newObject(NoAccount)
    IN  IF prev = None
        THEN setStateObject(append(st, [kind |-> "create", a |-> a]), a, o)
        ELSE setStateObject(
               append([st EXCEPT !.destructs = IF st.snap THEN @ \union {a} ELSE @],
                      [kind |-> "reset", a |-> a, prev |-> prev, prevdestruct |-> a \in st.destructs]), a, o)

\* the live object of a, created or loaded if need be
GetOrNewStateObject(st, a) ==
    IF Exist(st, a) THEN setStateObject(st, a, getStateObject(st, a)) ELSE createObject(st, a)

touch(st, a) ==
    LET t == append(st, [kind |-> "touch", a |-> a])
    IN  IF a = ripemd THEN [t EXCEPT !.dirties[a] = @ + 1] ELSE t

SetBalance(st, a, n) ==
    [append(st, [kind |-> "balance", a |-> a, prev |-> st.objs[a].bal]) EXCEPT !.objs[a].bal = n]

AddBalance(a, n) ==
    LET st == GetOrNewStateObject(s, a)
    IN  IF n = 0 THEN IF empty(st.objs[a]) THEN touch(st, a) ELSE st
        ELSE SetBalance(st, a, st.objs[a].bal + n)

SubBalance(a, n) == LET st == GetOrNewStateObject(s, a) IN SetBalance(st, a, st.objs[a].bal - n)

SetNonce(st, a, n) ==
    LET t == GetOrNewStateObject(st, a)
    IN  [append(t, [kind |-> "nonce", a |-> a, prev |-> t.objs[a].nonce]) EXCEPT !.objs[a].nonce = n]

SetCode(a) ==
    LET st == GetOrNewStateObject(s, a)
    IN  [append(st, [kind |-> "code", a |-> a, prev |-> st.objs[a].code]) EXCEPT !.objs[a].code = TRUE]

SetState(a, k, v) ==
    LET st == GetOrNewStateObject(s, a)
        g  == GetState(st, a, st.objs[a], k)
        t  == setStateObject(st, a, g.o)
    IN  IF g.v = v THEN t
        ELSE [append(t, [kind |-> "storage", a |-> a, k |-> k, prev |-> g.v])
                 EXCEPT !.objs[a].dirty = Pair(k, v) @@ @]

Suicide(a) ==
    LET o  == getStateObject(s, a)
        st == append(setStateObject(s, a, o), [kind |-> "suicide", a |-> a, prev |-> o.suicided, bal |-> o.bal])
    IN  [st EXCEPT !.objs[a].suicided = TRUE, !.objs[a].bal = 0]

\* carries the balance over; evm.create then gives the account nonce 1
CreateAccount(a) ==
    LET old == getStateObject(s, a)
        st  == createObject(s, a)
        t   == IF old = None THEN st ELSE [st EXCEPT !.objs[a].bal = old.bal]
    IN  SetNonce(t, a, 1)

AddRefund == [append(s, [kind |-> "refund", prev |-> s.refund]) EXCEPT !.refund = @ + 1]
AddLog == [append(s, [kind |-> "log"]) EXCEPT !.logs = @ + 1]

listed(a) == a \in DOMAIN s.accessList.addresses
AddAddressToAccessList(a) ==
    IF listed(a) THEN s
    ELSE append([s EXCEPT !.accessList.addresses = Pair(a, -1) @@ @], [kind |-> "listAddr", a |-> a])

AddSlotToAccessList(a, k) ==
    LET l   == s.accessList
        st  == IF listed(a) THEN s ELSE append(s, [kind |-> "listAddr", a |-> a])
        e   == [kind |-> "listSlot", a |-> a, k |-> k]
    IN  IF ~listed(a) \/ (listed(a) => l.addresses[a] = -1)
        THEN append([st EXCEPT !.accessList = [addresses |-> Pair(a, Len(l.slots) + 1) @@ l.addresses,
                                               slots     |-> Append(l.slots, {k})]], e)
        ELSE IF k \in l.slots[l.addresses[a]] THEN st
        ELSE append([st EXCEPT !.accessList.slots[l.addresses[a]] = @ \union {k}], e)

-----------------------------------------------------------------------------
(* Moving changes down *)

finalise(o) == [o EXCEPT !.pending = o.dirty @@ @, !.dirty = <<>>]

touchedObjs(st) == {a \in Addrs : st.dirties[a] > 0 /\ st.objs[a] # None}
Without(f, gone) == [a \in DOMAIN f \ gone |-> f[a]]

Finalised(st) ==
    LET D    == touchedObjs(st)
        dead == {a \in D : st.objs[a].suicided \/ empty(st.objs[a])}
    IN  [st EXCEPT
          !.objs = [a \in Addrs |-> IF a \notin D THEN @[a]
                                    ELSE IF a \in dead THEN [@[a] EXCEPT !.deleted = TRUE]
                                    ELSE finalise(@[a])],
          !.destructs = IF st.snap THEN @ \union dead ELSE @,
          !.accounts = IF st.snap THEN Without(@, dead) ELSE @,
          !.storage = IF st.snap THEN Without(@, dead) ELSE @,
          !.pending = @ \union D, !.dirty = @ \union D,
          !.refund = IF st.journal = <<>> THEN @ ELSE 0,
          !.dirties = IF st.journal = <<>> THEN @ ELSE [a \in Addrs |-> 0],
          !.journal = <<>>]

\* the slots whose pending value differs from the cached original
changedSlots(o) ==
    {k \in DOMAIN o.pending : o.pending[k] # (IF k \in DOMAIN o.origin THEN o.origin[k] ELSE 0)}

updateRoot(o) ==
    LET new == [k \in changedSlots(o) |-> o.pending[k]]
    IN  [o EXCEPT !.origin = new @@ @, !.root = [k \in Keys |-> (new @@ o.root)[k]], !.pending = <<>>]

rootedState(st) ==
    LET f    == Finalised(st)
        live == {a \in f.pending : ~f.objs[a].deleted}
        put  == {a \in live : changedSlots(finalise(f.objs[a])) # {}}
        slots(a) == LET o == finalise(f.objs[a]) IN [k \in changedSlots(o) |-> o.pending[k]]
        objs == [a \in Addrs |-> IF a \in live THEN updateRoot(finalise(f.objs[a])) ELSE f.objs[a]]
        old(a) == IF a \in DOMAIN f.storage THEN f.storage[a] ELSE <<>>
    IN  [f EXCEPT
          !.objs = objs,
          !.accounts = IF st.snap THEN [a \in live |-> dataOf(objs[a])] @@ @ ELSE @,
          !.storage = IF st.snap THEN [a \in put |-> slots(a) @@ old(a)] @@ @ ELSE @,
          !.pending = {}]

rootedTrie(st) ==
    LET f == Finalised(st)
        r == rootedState(st)
    IN  [a \in Addrs |-> IF a \notin f.pending THEN trie[a]
                         ELSE IF f.objs[a].deleted THEN None ELSE dataOf(r.objs[a])]

-----------------------------------------------------------------------------
(* Steps *)

Account(a) ==
    LET o == getStateObject(s, a)
    IN  IF o = None THEN None
        ELSE [nonce |-> o.nonce, bal |-> o.bal, code |-> o.code, dead |-> o.suicided,
              store |-> [k \in Keys |-> GetState(s, a, o, k).v]]
Visible == [a \in Addrs |-> Account(a)]
Side == [refund |-> s.refund, logs |-> s.logs, warm |-> DOMAIN s.accessList.addresses,
         slots |-> {p \in Addrs \X Keys : /\ listed(p[1])
                                          /\ s.accessList.addresses[p[1]] # -1
                                          /\ p[2] \in s.accessList.slots[s.accessList.addresses[p[1]]]}]

Do(op, st) ==
          /\ op \in Ops
          /\ finalises < MaxFinalises
          /\ Len(st.journal) <= MaxJournal
          /\ \A a \in Addrs : st.dirties[a] <= MaxJournal + 1
          /\ s' = st
          /\ UNCHANGED <<revisions, trie, db, flat, saved, finalises, failed>>

\* a contract that runs: created in this or an earlier transaction
Running(a) == a \in Contracts /\ Exist(s, a) /\ getStateObject(s, a).nonce = 1
BalanceOf(a) == IF Exist(s, a) THEN getStateObject(s, a).bal ELSE 0
NonceOf(a) == IF Exist(s, a) THEN getStateObject(s, a).nonce ELSE 0

Credit(a)  == \E n \in 0 .. 1 : Do("credit", AddBalance(a, n))
Debit(a)   == BalanceOf(a) > 0 /\ Do("debit", SubBalance(a, 1))
Bump(a)    == a \notin Contracts /\ NonceOf(a) = 0 /\ Do("nonce", SetNonce(s, a, 1))
Deploy(a)  == Running(a) /\ ~getStateObject(s, a).code /\ Do("code", SetCode(a))
Store(a)   == Running(a) /\ \E k \in Keys, v \in Values : Do("store", SetState(a, k, v))
Destroy(a) == Running(a) /\ Do("suicide", Suicide(a))
Create(a)  == a \in Contracts /\ NonceOf(a) = 0 /\ Do("create", CreateAccount(a))
Refund     == Do("refund", AddRefund)
Log        == Do("log", AddLog)
ListAddr(a) == Do("list", AddAddressToAccessList(a))
ListSlot(a) == \E k \in Keys : Do("list", AddSlotToAccessList(a, k))

\* a read loads the object and caches the slot
Read(a) == /\ Exist(s, a)
           /\ \E k \in Keys : Do("read", setStateObject(s, a, GetState(s, a, getStateObject(s, a), k).o))

\* the storage trie cannot be read: the caller gets the zero value and the
\* object remembers the error
ReadFails(a) ==
    /\ "read" \in Faults
    /\ ~s.snap
    /\ Exist(s, a)
    /\ \E k \in Keys : LET o == getStateObject(s, a)
                       IN  k \notin DOMAIN o.dirty \union DOMAIN o.pending \union DOMAIN o.origin
    /\ finalises < MaxFinalises
    /\ s' = setStateObject(s, a, [getStateObject(s, a) EXCEPT !.dbErr = TRUE])
    /\ failed' = TRUE
    /\ UNCHANGED <<revisions, trie, db, flat, saved, finalises>>

Snapshot ==
    /\ finalises < MaxFinalises
    /\ Len(revisions) < MaxRevisions
    /\ revisions' = Append(revisions, Len(s.journal))
    /\ saved' = Append(saved, <<Visible, Side>>)
    /\ UNCHANGED <<s, trie, db, flat, finalises, failed>>

RevertToSnapshot == \E i \in DOMAIN revisions :
    /\ s' = revert(s, revisions[i])
    /\ revisions' = SubSeq(revisions, 1, i - 1)
    /\ saved' = SubSeq(saved, 1, i - 1)
    /\ UNCHANGED <<trie, db, flat, finalises, failed>>

Finalise ==
    /\ finalises < MaxFinalises
    /\ s' = Finalised(s)
    /\ finalises' = finalises + 1
    /\ revisions' = <<>> /\ saved' = <<>>
    /\ UNCHANGED <<trie, db, flat, failed>>

Prepare ==
    /\ s.journal = <<>> /\ revisions = <<>>
    /\ s' = [s EXCEPT !.accessList = NoList]
    /\ UNCHANGED <<revisions, trie, db, flat, saved, finalises, failed>>

IntermediateRoot ==
    /\ s.journal = <<>> /\ revisions = <<>>
    /\ s' = rootedState(s)
    /\ trie' = rootedTrie(s)
    /\ UNCHANGED <<revisions, db, flat, saved, finalises, failed>>

\* deepCopy starts from newObject and does not take dbErr along
deepCopy(o) == [o EXCEPT !.dbErr = FALSE]

\* mutant: a copy takes along only what awaits the trie
CopyPendingOnly ==
    /\ s.journal = <<>> /\ revisions = <<>>
    /\ LET kept == touchedObjs(s) \union s.pending
       IN  s' = [s EXCEPT !.objs = [a \in Addrs |-> IF a \in kept THEN deepCopy(@[a]) ELSE None],
                          !.pending = @ \union touchedObjs(s), !.dirty = @ \union touchedObjs(s),
                          !.dirties = [a \in Addrs |-> 0]]
    /\ UNCHANGED <<revisions, trie, db, flat, saved, finalises, failed>>

\* the copy is used in place of the original
Copy ==
    /\ s.journal = <<>> /\ revisions = <<>>
    /\ LET kept == touchedObjs(s) \union s.pending \union s.dirty
       IN  s' = [s EXCEPT !.objs = [a \in Addrs |-> IF a \in kept THEN deepCopy(@[a]) ELSE None],
                          !.pending = @ \union touchedObjs(s), !.dirty = @ \union touchedObjs(s),
                          !.dirties = [a \in Addrs |-> 0]]
    /\ UNCHANGED <<revisions, trie, db, flat, saved, finalises, failed>>

\* snapshot.Tree.Update: the layer of the new block on top of its parent
layered(r) ==
    [acc |-> [a \in Addrs |-> IF a \in DOMAIN r.accounts THEN r.accounts[a]
                              ELSE IF a \in r.destructs THEN None ELSE flat.acc[a]],
     sto |-> [a \in Addrs |-> [k \in Keys |->
                 IF a \in DOMAIN r.storage /\ (a \in DOMAIN r.storage => k \in DOMAIN r.storage[a])
                 THEN r.storage[a][k]
                 ELSE IF a \in r.destructs THEN 0 ELSE flat.sto[a][k]]]]

\* Commit, and New for the next block; Commit fails on an error of an object it
\* writes, and then the block is dropped
Commit ==
    LET r == rootedState(s)
        t == rootedTrie(s)
        bad == \E a \in r.dirty : ~r.objs[a].deleted /\ r.objs[a].dbErr
    IN  /\ s.journal = <<>> /\ revisions = <<>>
        /\ s' = New
        /\ trie' = IF bad THEN db ELSE t
        /\ db' = IF bad THEN db ELSE t
        /\ flat' = IF bad \/ ~s.snap \/ t = db THEN flat ELSE layered(r)
        /\ failed' = FALSE
        /\ UNCHANGED <<revisions, saved, finalises>>

\* a block that is rejected drops its state
Discard ==
    /\ s' = New /\ trie' = db
    /\ revisions' = <<>> /\ saved' = <<>>
    /\ failed' = FALSE
    /\ UNCHANGED <<db, flat, finalises>>

Next ==
    \/ \E a \in Addrs : \/ Credit(a) \/ Debit(a) \/ Bump(a) \/ Deploy(a) \/ Store(a)
                        \/ Destroy(a) \/ Create(a) \/ ListAddr(a) \/ ListSlot(a)
                        \/ Read(a) \/ ReadFails(a)
    \/ Refund \/ Log \/ Snapshot \/ RevertToSnapshot \/ Finalise \/ Prepare
    \/ IntermediateRoot \/ Copy \/ Commit \/ Discard

Spec == Init /\ [][Next]_vars

-----------------------------------------------------------------------------
(* Properties *)

\* the abstract map: what a reader sees, the checkpoints, the committed trie
W == INSTANCE World WITH world <- Visible, side <- Side, stack <- saved,
         base <- [a \in Addrs |-> IF db[a] = None THEN None
                   ELSE [nonce |-> db[a].nonce, bal |-> db[a].bal, code |-> db[a].code,
                         store |-> db[a].root, dead |-> FALSE]]

\* The StateDB implements World: whatever the caches, the journal, the layers
\* and the flat snapshot do, every reader sees a plain map with checkpoints;
\* RevertToSnapshot (statedb.go:767) restores exactly the state at the
\* snapshot, and Commit writes exactly what was visible.
ImplementsInit == W!Init
ImplementsStep == [W!Next]_(W!wvars)
Implements == ImplementsInit /\ [][ImplementsStep]_vars

\* The flat snapshot that Commit feeds (statedb.go:959) and that later blocks
\* read holds the same accounts and the same storage as the trie, through
\* destruction and re-creation of accounts within a block.
FlatExact ==
    WithSnap => \A a \in Addrs : /\ flat.acc[a] = db[a]
                                 /\ flat.sto[a] = IF db[a] = None THEN NoStorage ELSE db[a].root

\* The dirty count of an address is the number of journal entries that dirtied
\* it (journal.go:56, 71), so Finalise neither forgets a changed account nor
\* handles an untouched one; the one address with the touch exception may count
\* more.
DirtiesExact ==
    \A a \in Addrs :
        LET n == Cardinality({i \in DOMAIN s.journal : dirtied(s.journal[i]) = a})
        IN  IF a = ripemd THEN s.dirties[a] >= n ELSE s.dirties[a] = n

\* "Any error that occurs during a database read is memoized here and will
\* eventually be returned by StateDB.Commit" (state_object.go:71): a block that
\* was executed on a failed read is not committed.
ErrorStopsCommit == [][db' # db => ~failed]_vars
=============================================================================
