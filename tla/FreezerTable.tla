---------------------------- MODULE FreezerTable ----------------------------
(***************************************************************************)
(* One table of the chain freezer (core/rawdb/freezer_table.go): items are *)
(* appended to a sequence of data files of bounded size, an index file     *)
(* holds the end of every item.  A crash of the machine takes what was not *)
(* synced off the end of any file, also of one that was full and is closed *)
(* since; opening the table cuts index and head file back until they       *)
(* agree.  File contents are sequences of units, every unit of an item     *)
(* carries its value.  Tail deletion is used by tests only and left out:   *)
(* itemOffset and tailId are 0.                                            *)
(***************************************************************************)
EXTENDS Integers, Sequences, FiniteSetsExt

CONSTANTS
    Blobs,          \* what is appended: [value, size]
    maxFileSize,
    DiskFills,      \* a write that fails leaves a part, or is not noticed
    MaxItems,       \* bound: items in the table
    MaxFaults       \* bound: crashes and failed writes

Least(a, b) == IF a < b THEN a ELSE b
FileIds == 0 .. MaxItems

FreezerTableAssumption ==
    /\ maxFileSize \in Nat /\ MaxItems \in Nat /\ MaxFaults \in Nat
    /\ \A b \in Blobs : b.size \in 1 .. maxFileSize
    /\ DiskFills \in BOOLEAN

VARIABLES
    index, data,            \* the files; data[f] is <<>> if it does not exist
    indexSynced, dataSynced,    \* how much of them survives a crash
    torn,                   \* a part of an entry follows the last one
    open,
    items, headId, headBytes, files,    \* the fields of freezerTable
    op,                     \* the call in progress: [pc, blob, items]
    content,                \* history: the blobs of the items in the table
    kept,                   \* history: items that were on disk at the last Sync
    holed,                  \* history: files with less than the index says since
                            \* a crash, or filled up with zeros
    faults

disk == <<index, data, indexSynced, dataSynced, torn>>
memory == <<open, items, headId, headBytes, files>>
tableVars == <<disk, memory, op, content, kept, holed, faults>>

NoBlob == [value |-> "none", size |-> 0]
NoCall == [pc |-> "idle", blob |-> NoBlob, items |-> 0]
Zero == "zero"      \* a unit that nobody wrote

TableInit ==
    /\ index = << >> /\ data = [f \in FileIds |-> <<>>]
    /\ indexSynced = 0 /\ dataSynced = [f \in FileIds |-> 0]
    /\ torn = FALSE
    /\ open = FALSE /\ items = 0 /\ headId = 0 /\ headBytes = 0 /\ files = {}
    /\ op = NoCall
    /\ content = <<>> /\ kept = {} /\ holed = {}
    /\ faults = 0

First(s, n) == SubSeq(s, 1, n)
Units(b, n) == [i \in 1 .. n |-> b.value]

(* os.File.Truncate: a file that is shorter is filled up with zeros.        *)
Resized(s, n) == [i \in 1 .. n |-> IF i <= Len(s) THEN s[i] ELSE Zero]

(* With f cut to what the index says, the files after it are gone and f has *)
(* no hole, unless it was filled up with zeros.                              *)
HoledUpTo(f) == {g \in holed : g < f \/ (g = f /\ Zero \in Range(data'[f]))}

------------------------------------------------------------------------------
(* getBounds: an item whose predecessor ends in another file starts at 0.  *)
Start(i) ==
    IF i = 0 \/ index[i + 1].file # index[i + 2].file THEN 0 ELSE index[i + 1].off

(* The index has no entry, or the file is not open or too short.           *)
Missing(i) ==
    \/ i + 2 > Len(index)
    \/ index[i + 2].file \notin files
    \/ Len(data[index[i + 2].file]) < index[i + 2].off

Retrieve(i) == SubSeq(data[index[i + 2].file], Start(i) + 1, index[i + 2].off)

(* Item i is read back as it was appended.                                 *)
Intact(i) == ~Missing(i) /\ Retrieve(i) = Units(content[i + 1], content[i + 1].size)

------------------------------------------------------------------------------
(* Only the last entry is compared, and only the data is cut.              *)
repairHead ==
    LET idx == IF index = <<>> THEN <<[file |-> 0, off |-> 0]>> ELSE index
        last == idx[Len(idx)]
    IN  /\ ~open
        /\ open' = TRUE
        /\ index' = idx /\ torn' = FALSE
        /\ indexSynced' = Len(idx)
        /\ data' = [data EXCEPT ![last.file] = First(@, Least(Len(@), last.off))]
        /\ dataSynced' = [dataSynced EXCEPT ![last.file] = Len(data'[last.file])]
        /\ items' = Len(idx) - 1
        /\ headId' = last.file /\ headBytes' = Len(data'[last.file])
        /\ files' = 0 .. last.file
        /\ content' = First(content, Least(Len(idx) - 1, Len(content)))
        /\ holed' = HoledUpTo(last.file)
        /\ UNCHANGED <<op, kept, faults>>

(* Entries are dropped from the index until the last one lies within its   *)
(* file, which is then cut to it.                                          *)
repair ==
    LET idx == IF index = <<>> THEN <<[file |-> 0, off |-> 0]>> ELSE index
        k == Max({j \in 1 .. Len(idx) : idx[j].off <= Len(data[idx[j].file])})
        last == idx[k]
    IN  /\ ~open
        /\ open' = TRUE
        /\ index' = First(idx, k) /\ torn' = FALSE
        /\ data' = [data EXCEPT ![last.file] = First(@, last.off)]
        /\ indexSynced' = k
        /\ dataSynced' = [dataSynced EXCEPT ![last.file] = last.off]
        /\ items' = k - 1
        /\ headId' = last.file /\ headBytes' = last.off
        /\ files' = 0 .. last.file
        /\ content' = First(content, Least(k - 1, Len(content)))
        /\ holed' = HoledUpTo(last.file)
        /\ UNCHANGED <<op, kept, faults>>

(* The next file is started if the blob does not fit; the full one is      *)
(* closed as it is.                                                        *)
Append_(b) ==
    /\ open /\ op.pc = "idle" /\ items < MaxItems
    /\ op' = [pc |-> "write", blob |-> b, items |-> 0]
    /\ IF headBytes + b.size > maxFileSize
       THEN /\ headId' = headId + 1 /\ headBytes' = 0
            /\ data' = [data EXCEPT ![headId + 1] = <<>>]
            /\ dataSynced' = [dataSynced EXCEPT ![headId + 1] = 0]
            /\ files' = files \cup {headId + 1}
       ELSE UNCHANGED <<headId, headBytes, data, dataSynced, files>>
    /\ UNCHANGED <<index, indexSynced, torn, open, items, content, kept, holed, faults>>

WriteData ==
    /\ op.pc = "write"
    /\ data' = [data EXCEPT ![headId] = @ \o Units(op.blob, op.blob.size)]
    /\ headBytes' = headBytes + op.blob.size
    /\ op' = [pc |-> "index", blob |-> op.blob, items |-> 0]
    /\ UNCHANGED <<index, indexSynced, dataSynced, torn, open, items, headId, files,
                   content, kept, holed, faults>>

(* A failed write may have written a part of the blob; headBytes does not   *)
(* move.  AppendAncient then truncates all tables to the shortest, which    *)
(* leaves this one as it is.                                                *)
WriteFails ==
    /\ faults < MaxFaults /\ op.pc = "write"
    /\ \E n \in 0 .. IF DiskFills THEN op.blob.size - 1 ELSE 0 :
        data' = [data EXCEPT ![headId] = @ \o Units(op.blob, n)]
    /\ op' = NoCall
    /\ faults' = faults + 1
    /\ UNCHANGED <<index, indexSynced, dataSynced, torn, memory, content, kept, holed>>

(* An error of the write is not looked at.                                 *)
WriteIndex ==
    /\ op.pc = "index"
    /\ index' \in {Append(index, [file |-> headId, off |-> headBytes])}
                    \cup {i \in {index} : DiskFills}
    /\ items' = items + 1
    /\ content' = Append(content, op.blob)
    /\ op' = NoCall
    /\ UNCHANGED <<data, indexSynced, dataSynced, torn, open, headId, headBytes, files,
                   kept, holed, faults>>

(* truncate cuts the index first, and then the data.                       *)
truncate(n) ==
    /\ open /\ op.pc = "idle" /\ n < items
    /\ index' = First(index, n + 1)
    /\ indexSynced' = Least(indexSynced, n + 1)
    /\ kept' = {i \in kept : i < n}
    /\ op' = [pc |-> "cut", blob |-> NoBlob, items |-> n]
    /\ UNCHANGED <<data, dataSynced, torn, memory, content, holed, faults>>

TruncateData ==
    LET expected == index[Len(index)] IN
    /\ op.pc = "cut"
    /\ data' = [f \in FileIds |->
                   IF f > expected.file /\ f \in files THEN <<>>
                   ELSE IF f = expected.file THEN Resized(data[f], expected.off)
                   ELSE data[f]]
    /\ dataSynced' = [f \in FileIds |-> Least(dataSynced[f], Len(data'[f]))]
    /\ files' = {f \in files : f <= expected.file}
    /\ headId' = expected.file /\ headBytes' = expected.off
    /\ items' = op.items
    /\ content' = First(content, op.items)
    /\ holed' = HoledUpTo(expected.file)
    /\ op' = NoCall
    /\ UNCHANGED <<index, indexSynced, torn, open, kept, faults>>

(* The index and the head file; the files before it were only closed.      *)
Sync ==
    /\ open /\ op.pc = "idle"
    /\ indexSynced' = Len(index)
    /\ dataSynced' = [dataSynced EXCEPT ![headId] = Len(data[headId])]
    /\ kept' = {i \in 0 .. items - 1 :
                    Intact(i) /\ index[i + 2].off <= dataSynced'[index[i + 2].file]}
    /\ UNCHANGED <<index, data, torn, memory, op, content, holed, faults>>

(* The process ends, the machine goes on.                                  *)
Close ==
    /\ open
    /\ open' = FALSE /\ files' = {}
    /\ op' = NoCall
    /\ UNCHANGED <<disk, items, headId, headBytes, content, kept, holed, faults>>

TableCrash ==
    /\ open /\ faults < MaxFaults
    /\ faults' = faults + 1
    /\ \E k \in indexSynced .. Len(index) :
        /\ index' = First(index, k)
        /\ torn' \in {FALSE, k < Len(index)}
    /\ \E len \in [FileIds -> 0 .. 2 * maxFileSize] :
        /\ \A f \in FileIds : len[f] \in dataSynced[f] .. Len(data[f])
        /\ data' = [f \in FileIds |-> First(data[f], len[f])]
        /\ holed' = holed \cup {f \in 0 .. headId - 1 : len[f] # Len(data[f])}
    /\ indexSynced' = Len(index')
    /\ dataSynced' = [f \in FileIds |-> Len(data'[f])]
    /\ open' = FALSE /\ files' = {}
    /\ op' = NoCall
    /\ UNCHANGED <<items, headId, headBytes, content, kept>>

TableNext ==
    \/ repair \/ Sync \/ Close \/ TableCrash
    \/ \E b \in Blobs : Append_(b)
    \/ WriteData \/ WriteFails \/ WriteIndex
    \/ \E n \in 0 .. MaxItems : truncate(n)
    \/ TruncateData

TableSpec == TableInit /\ [][TableNext]_tableVars

------------------------------------------------------------------------------
(* What is in the files and in memory, and how far along the call is.      *)
Values == {b.value : b \in Blobs} \cup {Zero}
Entries == [file: FileIds, off: Nat]
TableCalls == [pc: {"idle", "write", "index", "cut"}, blob: Blobs \cup {NoBlob}, items: Nat]

TableTypeOK ==
    /\ index \in Seq(Entries) /\ data \in [FileIds -> Seq(Values)]
    /\ indexSynced \in Nat /\ dataSynced \in [FileIds -> Nat]
    /\ torn \in BOOLEAN /\ open \in BOOLEAN
    /\ items \in 0 .. MaxItems /\ headId \in FileIds /\ headBytes \in Nat
    /\ files \subseteq FileIds
    /\ op \in TableCalls
    /\ content \in Seq(Blobs) /\ kept \subseteq Nat /\ holed \subseteq FileIds
    /\ faults \in Nat

(* An item follows the one before it in its file, or starts the next file. *)
Follows(e, g, b) ==
    \/ g.file = e.file /\ g.off = e.off + b.size
    \/ g.file = e.file + 1 /\ g.off = b.size

(* What there is of an item's bytes in its file is the item's, or zeros     *)
(* where a crash left a hole.                                               *)
Stored(g, b) ==
    \A u \in 1 .. Len(data[g.file]) :
        g.off - b.size < u /\ u <= g.off =>
            data[g.file][u] = b.value \/ (g.file \in holed /\ data[g.file][u] = Zero)

(* The index describes the items one after the other, also between crash    *)
(* and repair (the invariant of Append, truncate and repair): each entry    *)
(* lies behind the ones before it.                                          *)
IndexInv ==
    /\ index # <<>> => index[1] = [file |-> 0, off |-> 0]
    /\ Len(index) <= Len(content) + 1
    /\ \A j \in 1 .. Len(index) - 1 :
        /\ index[j + 1].file < j
        /\ Follows(index[j], index[j + 1], content[j])
        /\ Stored(index[j + 1], content[j])
    /\ \A i, j \in 1 .. Len(index) :
        i < j => \/ index[i].file < index[j].file
                 \/ index[i].file = index[j].file /\ index[i].off < index[j].off

(* All files before the head file have what the index says, except those a  *)
(* crash left with a hole, and the head file has while the table is open;   *)
(* the counters in memory are those of the head file, which the call in     *)
(* progress may just have started or grown.                                 *)
HeadInv ==
    /\ \A j \in 1 .. Len(index) :
        /\ index[j].file <= headId
        /\ (IF index[j].file = headId THEN open ELSE index[j].file \notin holed) =>
            index[j].off <= Len(data[index[j].file])
    /\ Len(content) = items
    /\ ~open => op = NoCall
    /\ open => /\ index # <<>> /\ files = 0 .. headId
               /\ headId <= items
    /\ open /\ op.pc = "cut" => Len(index) = op.items + 1 /\ op.items < items
    /\ open /\ op.pc # "cut" =>
        /\ Len(index) = items + 1
        /\ headBytes = Len(data[headId])
    /\ op.pc \in {"write", "index"} => op.blob \in Blobs /\ items < MaxItems
    /\ open /\ op.pc \in {"idle", "write"} =>
        \/ headId = index[Len(index)].file /\ headBytes = index[Len(index)].off
        \/ headId = index[Len(index)].file + 1 /\ headBytes = 0
    /\ op.pc = "index" =>
        /\ Follows(index[Len(index)], [file |-> headId, off |-> headBytes], op.blob)
        /\ Stored([file |-> headId, off |-> headBytes], op.blob)
        /\ headId < items + 1

(* The entry and the bytes of item i are synced.                            *)
OnDisk(i) ==
    LET g == index[i + 2]
        b == content[i + 1]
    IN  /\ i + 2 <= indexSynced
        /\ g.off <= dataSynced[g.file]
        /\ \A u \in 1 .. g.off : g.off - b.size < u => data[g.file][u] = b.value

(* No more is synced than there is, and of what was on disk at the last     *)
(* Sync everything is, index entry and bytes.                               *)
SyncInv ==
    /\ indexSynced <= Len(index)
    /\ \A f \in FileIds : dataSynced[f] <= Len(data[f])
    /\ \A i \in kept : OnDisk(i)

------------------------------------------------------------------------------
(* The file of item i lost bytes.                                           *)
Holed(i) == i + 2 <= Len(index) /\ index[i + 2].file \in holed

(* Every item of an open table is read back as it was appended, while       *)
(* others are appended (a truncation keeps readers out), and after a crash  *)
(* at any point, also in the middle of an append or a truncation, unless    *)
(* its file had been full and closed without a sync and lost bytes in the   *)
(* crash (Append, repair, truncate).                                        *)
Readable ==
    open /\ op.pc # "cut" =>
        /\ items = Len(content)
        /\ \A i \in 0 .. items - 1 : Holed(i) \/ Intact(i)

(* What was on disk when Sync returned, index entry and bytes, is read back *)
(* after any crashes, also from a file that lost other items (repair keeps  *)
(* every index entry up to the last one that fits).                         *)
SyncedKept ==
    open /\ op.pc # "cut" => \A i \in kept : i < items /\ Intact(i)

(* "Note, this method will *not* flush any data to disk so be sure to       *)
(* explicitly fsync before irreversibly deleting data from the database"    *)
(* (Append): after Sync every item is on disk.                              *)
SyncReachesDisk ==
    [][Sync => \A j \in 1 .. Len(index) : index[j].off <= dataSynced'[index[j].file]]_tableVars

(* "Rollback all inserted data if any insertion below failed to ensure the  *)
(* tables won't out of sync" (AppendAncient): after an append that failed   *)
(* half way, items are read back as they were appended.                     *)
ReadableAfterFailure == Readable

(* An open table returns what was appended and keeps what reached the disk, *)
(* through crashes in the middle of Append and truncate that may take the   *)
(* end of every file that was not synced (repair): only items of a file     *)
(* that was closed before it was synced may be gone. What this rests on:    *)
(* the index is a list of items that lie one behind the other, the counters *)
(* are those of the head file, and what is synced is there.                 *)
TableSound ==
    TableTypeOK /\ IndexInv /\ HeadInv /\ SyncInv /\ Readable /\ SyncedKept
==============================================================================
