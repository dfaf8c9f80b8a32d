----------------------------- MODULE MCStorage ------------------------------
(*****************************************************************************)
(* What a node keeps of its state on disk and in memory: the chain freezer   *)
(* and one of its tables, the state database, the trie cache and the         *)
(* snapshot, each on a small instance. They share no state here, so          *)
(* interleaving their steps shows nothing more about any of them: in a       *)
(* behaviour one of them moves, and the others stay as they are.             *)
(*****************************************************************************)
EXTENDS Freezer, FreezerTable, TLC

CONSTANTS None, con, usr, r1, r2, x, y, z, stor

VARIABLES
  focus,   \* the component that moves
  \* StateDB
  accS, accRevisions, accTrie, accDb, accFlat, accSaved, accFinalises, accFailed,
  \* StateDB
  logS, logRevisions, logTrie, logDb, logFlat, logSaved, logFinalises, logFailed,
  \* TrieDB
  refDb, refDisk, task, refStateRoot, env, refHeight, refHeaders, triegc, crashes,
  \* Snapshot
  order, obj, tree, snapDisk, gen, cap, reader, snapStateRoot, past, head, mined, restarts

MCBlobs == {[value |-> "x", size |-> 1], [value |-> "y", size |-> 1],
            [value |-> "z", size |-> 2]}

\* Two states with the account y in common; x has the storage stor.
MCNodes == {r1, r2, x, y, z, stor}
MCKids == [n \in MCNodes |-> CASE n = r1 -> {x, y} [] n = r2 -> {z, y} [] OTHER -> {}]
MCExt == [n \in MCNodes |-> IF n = x THEN {stor} ELSE {}]

\* Imported blocks create a contract, remove or recreate it and write around it.
Create   == [des |-> {}, data |-> 1 :> 1 @@ 2 :> 1]
Clear    == [des |-> {}, data |-> 1 :> 2 @@ 2 :> 0]
Destruct == [des |-> {1}, data |-> 3 :> 1]
Recreate == [des |-> {1}, data |-> 1 :> 3]
Pay      == [des |-> {}, data |-> 3 :> 2]
MCOrders == {<<Create, Destruct, Pay, Create>>, <<Pay, Create, Recreate, Clear>>}
RestartOrders == {<<Create, Destruct, Recreate, Pay>>}
MCAlt == [des |-> {1}, data |-> 1 :> 4 @@ 2 :> 4]

-----------------------------------------------------------------------------
(* The components. *)

\* FreezerTable and Freezer take their constants from the cfg: three items of one or two
\* bytes in files of two, and two crashes; the own chain and one other, two tables, one
\* failure.

\* A contract that is created, written and destroyed under nested snapshots of the journal,
\* with the flat snapshot.
State == INSTANCE StateDB WITH Addrs <- {con}, Keys <- {1}, Contracts <- {con},
  ripemd <- usr, WithSnap <- TRUE, Faults <- {},
  Ops <- {"credit", "create", "code", "store", "suicide", "read"}, MaxJournal <- 3,
  MaxRevisions <- 2, MaxFinalises <- 2, s <- accS, revisions <- accRevisions,
  trie <- accTrie, db <- accDb, flat <- accFlat, saved <- accSaved,
  finalises <- accFinalises, failed <- accFailed
accVars == <<accS, accRevisions, accTrie, accDb, accFlat, accSaved, accFinalises, accFailed>>

\* Two accounts and the rest of what is journaled, without the flat snapshot.
Side == INSTANCE StateDB WITH Addrs <- {con, usr}, Keys <- {1}, Contracts <- {con},
  ripemd <- usr, WithSnap <- FALSE, Faults <- {"read"},
  Ops <- {"credit", "debit", "nonce", "refund", "log", "list"}, MaxJournal <- 3, MaxRevisions <- 1,
  MaxFinalises <- 1, s <- logS, revisions <- logRevisions, trie <- logTrie, db <- logDb,
  flat <- logFlat, saved <- logSaved, finalises <- logFinalises, failed <- logFailed
logVars == <<logS, logRevisions, logTrie, logDb, logFlat, logSaved, logFinalises, logFailed>>

\* Two states of six nodes, two generations in memory, one crash.
Tries == INSTANCE TrieDB WITH Nodes <- MCNodes, Kids <- MCKids, Ext <- MCExt,
  Roots <- {r1, r2}, Genesis <- r1, TriesInMemory <- 2, MaxHeight <- 3,
  MaxCrashes <- 1, db <- refDb, disk <- refDisk, stateRoot <- refStateRoot,
  height <- refHeight, headers <- refHeaders
refVars == <<refDb, refDisk, task, refStateRoot, env, refHeight, refHeaders, triegc, crashes>>

\* An account with a slot and a plain account: four blocks, and four around a restart.
Snapshot == INSTANCE Snapshot WITH NKeys <- 3, Owner <- <<1, 1, 3>>, Orders <- MCOrders,
  Alt <- MCAlt, Layers <- 3, GenLayers <- 2, AggLimit <- 2, MaxMined <- 1, MaxRestarts <- 0,
  disk <- snapDisk, stateRoot <- snapStateRoot
Restarts == INSTANCE Snapshot WITH NKeys <- 3, Owner <- <<1, 1, 3>>,
  Orders <- RestartOrders, Alt <- MCAlt, Layers <- 2, GenLayers <- 2, AggLimit <- 2,
  MaxMined <- 1, MaxRestarts <- 1, disk <- snapDisk, stateRoot <- snapStateRoot
snapVars == <<order, obj, tree, snapDisk, gen, cap, reader, snapStateRoot, past, head, mined, restarts>>

vars == <<focus, tableVars, freezerVars, accVars, logVars, refVars, snapVars>>

-----------------------------------------------------------------------------
Init ==
  /\ focus \in {"table", "freezer", "state", "side", "tries", "snapshot", "restarts"}
  /\ TableInit
  /\ FreezerInit
  /\ State!Init
  /\ Side!Init
  /\ Tries!Init
  /\ IF focus = "restarts" THEN Restarts!Init ELSE Snapshot!Init
  \* choices that concern the component in focus only
  /\ focus \notin {"snapshot", "restarts"} => order = <<Create, Destruct, Pay, Create>>
  /\ focus \notin {"snapshot", "restarts"} => snapDisk.marker = 0
  /\ focus # "state" => accDb[con] = None
  /\ focus # "side" => logDb[con] = None

Next ==
  \/ /\ focus = "table" /\ TableNext
     /\ UNCHANGED <<focus, freezerVars, accVars, logVars, refVars, snapVars>>
  \/ /\ focus = "freezer" /\ FreezerNext
     /\ UNCHANGED <<focus, tableVars, accVars, logVars, refVars, snapVars>>
  \/ /\ focus = "state" /\ State!Next
     /\ UNCHANGED <<focus, tableVars, freezerVars, logVars, refVars, snapVars>>
  \/ /\ focus = "side" /\ Side!Next
     /\ UNCHANGED <<focus, tableVars, freezerVars, accVars, refVars, snapVars>>
  \/ /\ focus = "tries" /\ Tries!Next
     /\ UNCHANGED <<focus, tableVars, freezerVars, accVars, logVars, snapVars>>
  \/ /\ focus = "snapshot" /\ Snapshot!Next
     /\ UNCHANGED <<focus, tableVars, freezerVars, accVars, logVars, refVars>>
  \/ /\ focus = "restarts" /\ Restarts!Next
     /\ UNCHANGED <<focus, tableVars, freezerVars, accVars, logVars, refVars>>

Spec == Init /\ [][Next]_vars

-----------------------------------------------------------------------------
ASSUME FreezerTableAssumption /\ FreezerAssumption
ASSUME Tries!GraphAssumption

(* What they promise; each part is stated and explained in its module, which for *)
(* FreezerTable and Freezer also states the whole.                              *)

\* Through caches, journal, copies and reverts a StateDB shows what a plain map with
\* checkpoints shows (RevertToSnapshot, Finalise, Commit); the journal's dirty counts are
\* exact, and the flat snapshot fed by Commit has what the trie has.
Implements ==
  /\ State!ImplementsInit /\ Side!ImplementsInit
  /\ []/\ focus = "state" => State!FlatExact /\ State!DirtiesExact
       /\ focus = "side" => Side!DirtiesExact
  /\ [][(focus = "state" => State!ImplementsStep) /\ (focus = "side" => Side!ImplementsStep)]_vars

\* As long as a root is referenced, all of its trie can be read, whatever is collected,
\* flushed or committed; a node on disk has its children there, at whatever batch a crash
\* cuts off; nothing unreferenced stays in the cache; the flush-list links exactly the
\* cached nodes; and the collection keeps the node's own state while the chain of another
\* validator is not TriesInMemory below its own (Database.Cap, Commit, Dereference,
\* writeBlockWithState).
TriesSound ==
  focus = "tries" => /\ Tries!LiveReadable /\ Tries!DiskClosed /\ Tries!NothingDangles
                     /\ Tries!FlushListExact /\ Tries!StateKept

\* A read of any layer, stale ones included, gives the state of its root or an error; up to
\* its marker the disk layer is the state of the root it names, whenever the process dies;
\* and the layers below the node's state never go stale, although mined blocks branch off
\* from older states and are capped too (Tree.Cap, flatten, diffToDisk, generate).
SnapshotSound ==
  /\ focus = "snapshot" => Snapshot!ReadsExact /\ Snapshot!DiskExact /\ Snapshot!StateLive
  /\ focus = "restarts" => Restarts!ReadsExact /\ Restarts!DiskExact
=============================================================================
