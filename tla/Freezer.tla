------------------------------- MODULE Freezer -------------------------------
(***************************************************************************)
(* The chain freezer (core/rawdb/freezer.go, database.go): a background    *)
(* thread moves blocks of the canonical chain that are old enough from the *)
(* key-value store to append-only tables, and deletes what was forked off  *)
(* at those heights.  In Cascadeth the canonical chain is the node's own;  *)
(* the chains of the other validators are side chains to the freezer.      *)
(* FreezerTable has what a table is made of; here it has a length, part of *)
(* which survives a crash.  Block <<c, n>> is the n-th of chain c; the     *)
(* genesis block stays in the key-value store.                             *)
(***************************************************************************)
EXTENDS Integers, FiniteSetsExt

CONSTANTS
    Own, Others,        \* the node's own chain, those of other validators
    Tables,
    threshold, freezerBatchLimit,
    MaxHeight,          \* bound: length of the chains
    MaxFailures         \* bound: failed appends

FreezerAssumption ==
    /\ Own \notin Others /\ Tables # {}
    /\ {threshold, freezerBatchLimit, MaxHeight, MaxFailures} \subseteq Nat

VARIABLES
    height,         \* height[c]: the last block of c that was written
    kv,             \* the blocks in the key-value store
    table,          \* table[t]: [items, synced]
    frozen,
    freeze,         \* the freezer thread: [pc, first, limit, todo]
    node,           \* "up", "down", or why it did not start: "gap", "panic"
    failures

freezerVars == <<height, kv, table, frozen, freeze, node, failures>>

IdleThread == [pc |-> "idle", first |-> 0, limit |-> 0, todo |-> {}]

FreezerInit ==
    /\ height = [c \in Others \cup {Own} |-> 0]
    /\ kv = {}
    /\ table = [t \in Tables |-> [items |-> 0, synced |-> 0]]
    /\ frozen = 0
    /\ freeze = IdleThread
    /\ node = "up"
    /\ failures = 0

Shortest == Min({table[t].items : t \in Tables})
Truncated(n) ==
    [t \in Tables |-> [items |-> Min({table[t].items, n}), synced |-> Min({table[t].synced, n})]]

------------------------------------------------------------------------------
(* A block whose parent is not in the database is not imported.            *)
WriteBlock(c) ==
    LET n == height[c] IN
    /\ node = "up" /\ n < MaxHeight
    /\ n = 0 \/ <<c, n>> \in kv \/ (c = Own /\ n < frozen)
    /\ height' = [height EXCEPT ![c] = n + 1]
    /\ kv' = kv \cup {<<c, n + 1>>}
    /\ UNCHANGED <<table, frozen, freeze, node, failures>>

FreezeStart ==
    /\ node = "up" /\ freeze.pc = "idle"
    /\ height[Own] >= threshold /\ height[Own] - threshold > frozen
    /\ freeze' = [pc |-> "append", first |-> frozen, todo |-> Tables,
                  limit |-> Min({height[Own] - threshold, frozen + freezerBatchLimit})]
    /\ UNCHANGED <<height, kv, table, frozen, node, failures>>

(* One table after the other; with the last the block is frozen.           *)
AppendAncient(t) ==
    /\ freeze.pc = "append" /\ frozen <= freeze.limit
    /\ t \in freeze.todo /\ table[t].items = frozen
    /\ table' = [table EXCEPT ![t].items = @ + 1]
    /\ IF freeze.todo = {t}
       THEN frozen' = frozen + 1 /\ freeze' = [freeze EXCEPT !.todo = Tables]
       ELSE UNCHANGED frozen /\ freeze' = [freeze EXCEPT !.todo = @ \ {t}]
    /\ UNCHANGED <<height, kv, node, failures>>

(* An append that fails ends the batch; repair cuts all tables to the      *)
(* shortest.                                                               *)
AppendFails(t) ==
    /\ freeze.pc = "append" /\ frozen <= freeze.limit
    /\ t \in freeze.todo /\ failures < MaxFailures
    /\ failures' = failures + 1
    /\ table' = Truncated(Shortest)
    /\ frozen' = Shortest
    /\ freeze' = [freeze EXCEPT !.pc = "sync"]
    /\ UNCHANGED <<height, kv, node>>

(* The batch is left to the operating system.                              *)
FreezeSyncLater ==
    /\ freeze.pc = "sync" \/ (freeze.pc = "append" /\ frozen > freeze.limit)
    /\ freeze' = [freeze EXCEPT !.pc = "wipe"]
    /\ UNCHANGED <<height, kv, table, frozen, node, failures>>

FreezeSync ==
    /\ freeze.pc = "sync" \/ (freeze.pc = "append" /\ frozen > freeze.limit)
    /\ table' = [t \in Tables |-> [table[t] EXCEPT !.synced = table[t].items]]
    /\ freeze' = [freeze EXCEPT !.pc = "wipe"]
    /\ UNCHANGED <<height, kv, frozen, node, failures>>

Batch == freeze.first .. frozen - 1

FreezeWipe ==
    /\ freeze.pc = "wipe"
    /\ kv' = kv \ ({Own} \X Batch)
    /\ freeze' = [freeze EXCEPT !.pc = "side"]
    /\ UNCHANGED <<height, table, frozen, node, failures>>

FreezeSide ==
    /\ freeze.pc = "side"
    /\ kv' = kv \ (Others \X Batch)
    /\ freeze' = [freeze EXCEPT !.pc = "dangling",
                     !.todo = {c \in Others : <<c, frozen - 1>> \in kv /\ Batch # {}}]
    /\ UNCHANGED <<height, table, frozen, node, failures>>

(* Whatever descends from the last side blocks is followed and deleted.    *)
FreezeDangling ==
    /\ freeze.pc = "dangling"
    /\ kv' = kv \ (freeze.todo \X (frozen .. MaxHeight))
    /\ freeze' = IdleThread
    /\ UNCHANGED <<height, table, frozen, node, failures>>

------------------------------------------------------------------------------
Crash ==
    /\ node = "up"
    /\ node' = "down"
    /\ \E left \in [Tables -> 0 .. MaxHeight + 1] :
        /\ \A t \in Tables : left[t] \in table[t].synced .. table[t].items
        /\ table' = [t \in Tables |-> [items |-> left[t], synced |-> left[t]]]
    /\ freeze' = IdleThread
    /\ UNCHANGED <<height, kv, frozen, failures>>

(* NewDatabaseWithFreezer compares where the two stores meet; then the     *)
(* chain refuses to start on ancient data.                                 *)
Open ==
    /\ node = "down"
    /\ table' = Truncated(Shortest)
    /\ frozen' = Shortest
    /\ node' = IF frozen' > 0 /\ <<Own, frozen'>> \notin kv /\ height[Own] > frozen' - 1
               THEN "gap"
               ELSE IF frozen' > 0 THEN "panic" ELSE "up"
    /\ UNCHANGED <<height, kv, freeze, failures>>

FreezerNext ==
    \/ \E c \in Others \cup {Own} : WriteBlock(c)
    \/ \E t \in Tables : AppendAncient(t) \/ AppendFails(t)
    \/ FreezeStart \/ FreezeSync \/ FreezeWipe \/ FreezeSide \/ FreezeDangling
    \/ Crash \/ Open

FreezerSpec == FreezerInit /\ [][FreezerNext]_freezerVars

------------------------------------------------------------------------------
(* What the thread is doing, and the types of all the state: the batch in   *)
(* progress, the tables and what of them is on disk (freeze, newFreezer).    *)
Threads == [pc: {"idle", "append", "sync", "wipe", "side", "dangling"},
            first: Nat, limit: Nat, todo: SUBSET (Tables \cup Others)]

FreezerTypeOK ==
    /\ height \in [Others \cup {Own} -> 0 .. MaxHeight]
    /\ kv \subseteq (Others \cup {Own}) \X (1 .. MaxHeight)
    /\ table \in [Tables -> [items: Nat, synced: Nat]]
    /\ frozen \in Nat
    /\ freeze \in Threads
    /\ node \in {"up", "down", "gap", "panic"}
    /\ failures \in 0 .. MaxFailures

(* Whenever the machine stops, each block of the node's own chain is in the *)
(* key-value store or in what every table has synced.                       *)
CanonicalKept ==
    \A n \in 1 .. height[Own] :
        <<Own, n>> \in kv \/ \A t \in Tables : table[t].synced > n

(* Between batches all tables have the same length, also after an append    *)
(* that failed in one of them.                                              *)
TablesAligned ==
    node = "up" /\ freeze.pc # "append" => \A t \in Tables : table[t].items = frozen

(* After a crash at any point the key-value store continues where the       *)
(* freezer ends.                                                            *)
NoGap == node # "gap"

(* What the thread relies on: in a batch the tables still to be written have *)
(* the frozen blocks and the others one more; nothing is deleted before the   *)
(* tables are synced; only side blocks are followed.                          *)
BatchInv ==
    /\ \A t \in Tables : table[t].synced <= table[t].items
    /\ freeze.pc # "idle" => node = "up"
    /\ freeze.pc = "append" =>
        /\ freeze.todo \subseteq Tables /\ freeze.todo # {}
        /\ freeze.todo # Tables => frozen <= freeze.limit
        /\ \A t \in Tables : table[t].items = IF t \in freeze.todo THEN frozen ELSE frozen + 1
    /\ freeze.pc \in {"wipe", "side", "dangling"} =>
        \A t \in Tables : table[t].synced = table[t].items
    /\ freeze.pc = "dangling" => freeze.todo \subseteq Others

(* All of it, at each step of freeze and after a crash at any of them: no    *)
(* block of the own chain is lost, and the two stores meet.                  *)
FreezerSound == FreezerTypeOK /\ BatchInv /\ CanonicalKept /\ TablesAligned /\ NoGap

(* "each validator has own head" (currentBlocks): the last block of every   *)
(* validator whose chain has kept up with the node's own is in the          *)
(* database, so that the next one can be imported.                          *)
HeadsKept ==
    \A c \in Others :
        height[c] > 0 /\ height[c] >= height[Own] => <<c, height[c]>> \in kv

(* "Initialize the chain with ancient data if it isn't empty"               *)
(* (NewBlockChain): a node that has frozen blocks starts again.             *)
StartsAgain == node # "panic"
==============================================================================
