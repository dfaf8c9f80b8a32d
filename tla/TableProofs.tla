----------------------------- MODULE TableProofs -----------------------------
(***************************************************************************)
(* A table of the freezer gives back what was appended to it, for any items, *)
(* file size, truncations and crashes, as long as no write fails half-way or *)
(* unnoticed (DiskFills is false).                                           *)
(***************************************************************************)
EXTENDS FreezerTable, SequenceTheorems, WellFoundedInduction, TLAPS

(* The order of the naturals as a set of pairs.                             *)
LessThan == {p \in Nat \X Nat : p[1] < p[2]}

(* A set of naturals below a bound has a greatest element, which Max       *)
(* finds.                                                                  *)
LEMMA GreatestNat ==
    ASSUME NEW n \in Nat, NEW S \in SUBSET (1 .. n), S # {}
    PROVE  Max(S) \in S /\ \A y \in S : y <= Max(S)
<1>1. LessThan = OpToRel(<, Nat)
  BY Zenon DEF OpToRel, LessThan
<1>2. IsWellFoundedOn(LessThan, Nat)
  BY <1>1, NatLessThanWellFounded, Zenon
<1> DEFINE T == {n - x : x \in S}
<1>3. T \in SUBSET Nat /\ T # {}
  <2>1. \A x \in S : n - x \in Nat
    OBVIOUS
  <2>2. PICK x \in S : TRUE
    BY Zenon
  <2>3. n - x \in T
    BY <2>2, Zenon
  <2> QED
    BY <2>1, <2>3, Zenon
<1>4. PICK m \in T : \A y \in T : ~(<<y, m>> \in LessThan)
  BY <1>2, <1>3, WFMin, Zenon
<1>5. \A y \in T : m <= y
  <2>1. \A x, y \in Nat : <<x, y>> \in LessThan <=> x < y
    BY DEF LessThan
  <2>2. \A y \in T : y \in Nat /\ ~(y < m)
    BY <2>1, <1>3, <1>4, Zenon
  <2>3. m \in Nat
    BY <1>3, <1>4, Zenon
  <2> HIDE DEF T
  <2> QED
    BY <2>2, <2>3
<1>6. PICK x \in S : m = n - x
  BY <1>4
<1>7. \A y \in S : n - y \in T
  OBVIOUS
<1>8. \A y \in S : y <= x
  <2> TAKE y \in S
  <2>1. m <= n - y
    BY <1>5, <1>7
  <2> QED
    BY <2>1, <1>6
<1> QED
  BY <1>8, Zenon DEF Max

(* What is in the beginning of a list.                                     *)
LEMMA FirstSeq ==
    ASSUME NEW S, NEW s \in Seq(S), NEW n \in 0 .. Len(s)
    PROVE  /\ First(s, n) \in Seq(S) /\ Len(First(s, n)) = n
           /\ \A i \in 1 .. n : First(s, n)[i] = s[i]
BY SubSeqProperties DEF First

(* The bytes of a blob: all are of its value.                              *)
LEMMA UnitsSeq ==
    ASSUME NEW b, NEW n \in Nat, NEW S, b.value \in S
    PROVE  Units(b, n) \in Seq(S) /\ Len(Units(b, n)) = n /\ \A i \in 1 .. n : Units(b, n)[i] = b.value
<1>1. Units(b, n) \in [1 .. n -> S]
  BY DEF Units
<1>2. Units(b, n) \in Seq(S)
  BY <1>1, SeqDef
<1>3. Len(Units(b, n)) = n
  BY <1>1, <1>2, LenProperties
<1> QED
  BY <1>2, <1>3 DEF Units

(* Where the bytes of a blob are, a read finds the blob.                   *)
LEMMA UnitsRead ==
    ASSUME NEW S, NEW s \in Seq(S), NEW b, NEW m \in Nat, b.size \in Nat,
           m + b.size <= Len(s), \A u \in m + 1 .. m + b.size : s[u] = b.value
    PROVE  SubSeq(s, m + 1, m + b.size) = Units(b, b.size)
<1>1. SubSeq(s, m + 1, m + b.size) = [i \in 1 .. b.size |-> s[i + m]]
  OBVIOUS
<1> QED
  BY <1>1 DEF Units

(* The inductive invariant: what an index entry says, what the head file   *)
(* is, and what is safe on disk.                                           *)
TableInv == TableTypeOK /\ IndexInv /\ HeadInv /\ SyncInv

(* Items are not empty and fit into a file.                                *)
LEMMA TableConstants ==
    ASSUME FreezerTableAssumption
    PROVE  /\ maxFileSize \in Nat /\ MaxItems \in Nat /\ MaxFaults \in Nat
           /\ \A b \in Blobs : b.size \in Nat /\ b.size > 0 /\ b.size <= maxFileSize /\ b.value \in Values
BY DEF FreezerTableAssumption, Values

(* What an entry is made of.                                               *)
LEMMA EntryTypes ==
    ASSUME TableTypeOK, NEW j \in 1 .. Len(index)
    PROVE  index[j] \in Entries /\ index[j].file \in FileIds /\ index[j].off \in Nat
<1>1. index[j] \in Entries
  BY DEF TableTypeOK
<1> QED
  BY <1>1 DEF Entries

(* Where an item is in its file: between two offsets, or at the beginning  *)
(* (getBounds).                                                            *)
LEMMA ItemBounds ==
    ASSUME FreezerTableAssumption, TableInv, open, op.pc # "cut", NEW i \in 0 .. items - 1
    PROVE  /\ i + 2 \in 1 .. Len(index) /\ i + 1 \in 1 .. Len(content) /\ items = Len(content)
           /\ content[i + 1] \in Blobs /\ content[i + 1].size \in Nat
           /\ index[i + 2].file \in FileIds /\ index[i + 2].off \in Nat
           /\ data[index[i + 2].file] \in Seq(Values)
           /\ index[i + 2].file \in files
           /\ Start(i) \in Nat /\ Start(i) + content[i + 1].size = index[i + 2].off
           /\ Stored(index[i + 2], content[i + 1])
<1> USE TableConstants DEF TableInv
<1> DEFINE g == index[i + 2]
           b == content[i + 1]
<1>1. items = Len(content) /\ Len(index) = items + 1
  BY DEF HeadInv
<1>2. /\ items \in Nat /\ i \in Nat /\ i + 1 \in 1 .. Len(index) - 1 /\ i + 2 \in 1 .. Len(index)
      /\ i + 1 \in 1 .. Len(index) /\ i + 1 \in 1 .. Len(content)
  BY <1>1 DEF TableTypeOK
<1>3. b \in Blobs
  BY <1>1, <1>2 DEF TableTypeOK
<1>4. /\ g.off \in Nat /\ g.file \in FileIds /\ data[g.file] \in Seq(Values) /\ b.size \in Nat
      /\ index[i + 1].off \in Nat /\ index[i + 1].file \in FileIds
  <2>1. g.off \in Nat /\ g.file \in FileIds /\ index[i + 1].off \in Nat /\ index[i + 1].file \in FileIds
    BY <1>2, EntryTypes, Zenon
  <2>2. data[g.file] \in Seq(Values)
    BY <2>1, Zenon DEF TableTypeOK
  <2> QED
    BY <2>1, <2>2, <1>3, Zenon
<1>5. g.file \in files
  BY <1>2, <1>4, SMTT(30) DEF HeadInv, FileIds, TableTypeOK
<1>6. Follows(index[i + 1], g, b) /\ Stored(g, b)
  <2>1. Follows(index[i + 1], index[(i + 1) + 1], b) /\ Stored(index[(i + 1) + 1], b)
    BY <1>2 DEF IndexInv
  <2> QED
    BY <2>1, <1>2
<1>7. i = 0 => index[i + 1].off = 0
  BY <1>2 DEF IndexInv
<1>8. Start(i) + b.size = g.off /\ Start(i) \in Nat
  BY <1>4, <1>6, <1>7, SMTT(30) DEF Start, Follows, FileIds
<1> QED
  BY <1>1, <1>2, <1>3, <1>4, <1>5, <1>6, <1>8, Zenon

(* What the index says is what a read needs (Retrieve).                    *)
LEMMA ItemReads ==
    ASSUME FreezerTableAssumption, TableInv, open, op.pc # "cut", NEW i \in 0 .. items - 1,
           index[i + 2].off <= Len(data[index[i + 2].file]),
           \A u \in 1 .. index[i + 2].off : index[i + 2].off - content[i + 1].size < u
               => data[index[i + 2].file][u] = content[i + 1].value
    PROVE  Intact(i)
<1> DEFINE g == index[i + 2]
           b == content[i + 1]
           s == data[g.file]
           m == Start(i)
<1>1. /\ i + 2 \in 1 .. Len(index) /\ b.size \in Nat /\ g.off \in Nat /\ s \in Seq(Values) /\ g.file \in files
      /\ m \in Nat /\ m + b.size = g.off
  BY ItemBounds, Zenon
<1>2. g.off <= Len(s) /\ \A u \in 1 .. g.off : g.off - b.size < u => s[u] = b.value
  OBVIOUS
<1>3. ~Missing(i)
  <2>1. i + 2 \in 1 .. Len(index) /\ Len(index) \in Nat
    BY <1>1 DEF TableInv, TableTypeOK
  <2>2. ~(i + 2 > Len(index))
    BY <2>1
  <2>3. ~(Len(s) < g.off)
    <3> HIDE DEF s, g
    <3> QED
      BY <1>1, <1>2
  <2> QED
    BY <2>2, <2>3, <1>1, Zenon DEF Missing
<1>4. Retrieve(i) = SubSeq(s, m + 1, m + b.size)
  BY <1>1, Zenon DEF Retrieve
<1> HIDE DEF m, s, b, g
<1>5. \A u \in m + 1 .. m + b.size : s[u] = b.value
  <2> TAKE u \in m + 1 .. m + b.size
  <2>1. u \in 1 .. g.off /\ g.off - b.size < u
    BY <1>1
  <2> QED
    BY <2>1, <1>2, Zenon
<1>6. SubSeq(s, m + 1, m + b.size) = Units(b, b.size)
  BY <1>1, <1>2, <1>5, UnitsRead, Zenon
<1> QED
  BY <1>3, <1>4, <1>6, Zenon DEF Intact, b

(* What Readable and SyncedKept say of an open table.                      *)
LEMMA TableReads ==
    ASSUME FreezerTableAssumption, TableInv
    PROVE  Readable /\ SyncedKept
<1> SUFFICES ASSUME open, op.pc # "cut"
             PROVE  /\ items = Len(content)
                    /\ \A i \in 0 .. items - 1 : Holed(i) \/ Intact(i)
                    /\ \A i \in kept : i < items /\ Intact(i)
  BY Zenon DEF Readable, SyncedKept
<1>1. items = Len(content) /\ Len(index) = items + 1 /\ items \in Nat
  BY DEF HeadInv, TableInv, TableTypeOK
<1>2. ASSUME NEW i \in 0 .. items - 1, ~Holed(i)
      PROVE  Intact(i)
  <2> DEFINE g == index[i + 2]
             b == content[i + 1]
             s == data[g.file]
  <2>1. /\ i + 2 \in 1 .. Len(index) /\ g.off \in Nat /\ s \in Seq(Values) /\ Stored(g, b) /\ b.size \in Nat
    BY ItemBounds, Zenon
  <2>2. g.file \notin holed
    <3>1. i + 2 <= Len(index)
      BY <2>1, <1>1
    <3> QED
      BY <3>1, <1>2, Zenon DEF Holed
  <2>3. g.off <= Len(s)
    BY <2>1, <2>2, Zenon DEF HeadInv, TableInv
  <2>4. \A u \in 1 .. g.off : g.off - b.size < u => s[u] = b.value
    <3> TAKE u \in 1 .. g.off
    <3> HAVE g.off - b.size < u
    <3>1. u \in 1 .. Len(s) /\ u <= g.off
      <4> HIDE DEF g, s
      <4> QED
        BY <2>1, <2>3
    <3> QED
      BY <3>1, <2>1, <2>2, Zenon DEF Stored
  <2> QED
    BY <2>3, <2>4, ItemReads, Zenon
<1>3. ASSUME NEW i \in kept
      PROVE  i < items /\ Intact(i)
  <2> DEFINE g == index[i + 2]
             s == data[g.file]
  <2>1. OnDisk(i) /\ i \in Nat /\ indexSynced \in Nat /\ indexSynced <= Len(index)
    BY DEF SyncInv, TableInv, TableTypeOK
  <2>2. i \in 0 .. items - 1 /\ i < items
    <3>1. i + 2 <= indexSynced
      BY <2>1, Zenon DEF OnDisk
    <3> QED
      BY <2>1, <3>1, <1>1
  <2>3. g.file \in FileIds /\ g.off \in Nat /\ s \in Seq(Values)
    BY <2>2, ItemBounds, Zenon
  <2>4. g.off <= Len(s)
    <3>1. g.off <= dataSynced[g.file] /\ dataSynced[g.file] <= Len(s)
      BY <2>1, <2>3, Zenon DEF OnDisk, SyncInv, TableInv
    <3>2. dataSynced[g.file] \in Nat /\ Len(s) \in Nat
      BY <2>3 DEF TableInv, TableTypeOK
    <3> HIDE DEF g, s
    <3> QED
      BY <3>1, <3>2, <2>3
  <2> QED
    BY <2>1, <2>2, <2>4, ItemReads, Zenon DEF OnDisk
<1> QED
  BY <1>1, <1>2, <1>3, Zenon

(* An index that was cut, over data that was cut or extended behind what   *)
(* it describes, or filled up with zeros in a file with a hole, describes  *)
(* what is left.                                                           *)
LEMMA StillDescribed ==
    ASSUME FreezerTableAssumption, TableInv,
           index' \in Seq(Entries), content' \in Seq(Blobs), data' \in [FileIds -> Seq(Values)],
           Len(index') <= Len(index), \A j \in 1 .. Len(index') : index'[j] = index[j],
           Len(index') <= Len(content') + 1, \A j \in 1 .. Len(index') - 1 : content'[j] = content[j],
           \A j \in 2 .. Len(index') : \A u \in 1 .. Len(data'[index[j].file]) :
              u <= index[j].off =>
                 \/ /\ u <= Len(data[index[j].file])
                    /\ data'[index[j].file][u] = data[index[j].file][u]
                    /\ index[j].file \in holed =>
                          index[j].file \in holed' \/ data[index[j].file][u] # Zero
                 \/ index[j].file \in holed' /\ data'[index[j].file][u] = Zero
    PROVE  IndexInv'
<1> USE TableConstants DEF TableInv
<1>1. index' # <<>> => index'[1] = [file |-> 0, off |-> 0]
  <2> HAVE index' # <<>>
  <2>1. 1 \in 1 .. Len(index') /\ index # <<>>
    BY DEF TableTypeOK
  <2> QED
    BY <2>1 DEF IndexInv
<1>2. ASSUME NEW j \in 1 .. Len(index') - 1
      PROVE  /\ index'[j + 1].file < j
             /\ Follows(index'[j], index'[j + 1], content'[j])
             /\ Stored(index[j + 1], content[j])'
  <2> DEFINE g == index[j + 1]
             b == content[j]
  <2>1. /\ j \in 1 .. Len(index) - 1 /\ j \in 1 .. Len(index') /\ j + 1 \in 1 .. Len(index') /\ j + 1 \in 2 .. Len(index')
        /\ j + 1 \in 1 .. Len(index)
    BY SMTT(30) DEF TableTypeOK
  <2>2. index'[j + 1] = g /\ index'[j] = index[j] /\ content'[j] = b
    BY <2>1, Zenon
  <2>3. g.file < j /\ Follows(index[j], g, b) /\ Stored(g, b)
    BY <2>1, Zenon DEF IndexInv
  <2>4. \A u \in 1 .. Len(data'[g.file]) : g.off - b.size < u /\ u <= g.off =>
           data'[g.file][u] = b.value \/ (g.file \in holed' /\ data'[g.file][u] = Zero)
    <3> TAKE u \in 1 .. Len(data'[g.file])
    <3> HAVE g.off - b.size < u /\ u <= g.off
    <3>1. CASE g.file \in holed' /\ data'[g.file][u] = Zero
      BY <3>1
    <3>2. CASE /\ u <= Len(data[g.file])
               /\ data'[g.file][u] = data[g.file][u]
               /\ g.file \in holed => g.file \in holed' \/ data[g.file][u] # Zero
      <4>1. g.file \in FileIds
        BY <2>1, EntryTypes, Zenon
      <4>2. u \in 1 .. Len(data[g.file])
        BY <3>2, <4>1 DEF TableTypeOK
      <4>3. data[g.file][u] = b.value \/ (g.file \in holed /\ data[g.file][u] = Zero)
        BY <4>2, <2>3, Zenon DEF Stored
      <4> QED
        BY <3>2, <4>3, Zenon
    <3> QED
      BY <2>1, <3>1, <3>2, Zenon
  <2> QED
    BY <2>2, <2>3, <2>4, Zenon DEF Stored
<1>3. ASSUME NEW i \in 1 .. Len(index'), NEW j \in 1 .. Len(index'), i < j
      PROVE  \/ index'[i].file < index'[j].file
             \/ index'[i].file = index'[j].file /\ index'[i].off < index'[j].off
  <2>1. i \in 1 .. Len(index) /\ j \in 1 .. Len(index)
    BY SMTT(30) DEF TableTypeOK
  <2>2. index'[i] = index[i] /\ index'[j] = index[j]
    BY Zenon
  <2> QED
    BY <1>3, <2>1, <2>2, SMTT(30) DEF IndexInv
<1> QED
  BY <1>1, <1>2, <1>3, Zenon DEF IndexInv

(* An item on disk stays there as long as its entry and bytes are.         *)
LEMMA StillKept ==
    ASSUME TableInv, kept' \subseteq kept,
           \A i \in kept' : /\ i + 2 <= indexSynced'
                            /\ index'[i + 2] = index[i + 2] /\ content'[i + 1] = content[i + 1]
                            /\ index[i + 2].off <= dataSynced'[index[i + 2].file]
                            /\ \A u \in 1 .. index[i + 2].off :
                                  data'[index[i + 2].file][u] = data[index[i + 2].file][u]
    PROVE  \A i \in kept' : OnDisk(i)'
<1> TAKE i \in kept'
<1>1. OnDisk(i)
  BY Zenon DEF SyncInv, TableInv
<1> QED
  BY <1>1, Zenon DEF OnDisk

(* What is known of an item on disk.                                       *)
LEMMA KeptItem ==
    ASSUME TableInv, NEW i \in kept
    PROVE  /\ i \in Nat /\ i + 2 <= indexSynced /\ i + 2 \in 1 .. Len(index) /\ i + 1 \in 1 .. Len(index) - 1
           /\ index[i + 2].file \in FileIds /\ index[i + 2].off \in Nat
           /\ index[i + 2].off <= dataSynced[index[i + 2].file]
           /\ index[i + 2].off <= Len(data[index[i + 2].file])
           /\ Len(data[index[i + 2].file]) \in Nat /\ dataSynced[index[i + 2].file] \in Nat
<1>1. OnDisk(i) /\ indexSynced <= Len(index)
  BY Zenon DEF SyncInv, TableInv
<1>2. i \in Nat /\ indexSynced \in Nat /\ Len(index) \in Nat
  BY DEF TableInv, TableTypeOK
<1>3. i + 2 <= indexSynced /\ index[i + 2].off <= dataSynced[index[i + 2].file]
  BY <1>1, Zenon DEF OnDisk
<1>4. i + 2 \in 1 .. Len(index) /\ i + 1 \in 1 .. Len(index) - 1
  BY <1>1, <1>2, <1>3
<1>5. index[i + 2].file \in FileIds /\ index[i + 2].off \in Nat
  BY <1>4, EntryTypes, Zenon DEF TableInv
<1>6. dataSynced[index[i + 2].file] <= Len(data[index[i + 2].file])
  BY <1>5, Zenon DEF SyncInv, TableInv
<1>7. Len(data[index[i + 2].file]) \in Nat /\ dataSynced[index[i + 2].file] \in Nat
  BY <1>5 DEF TableInv, TableTypeOK
<1>8. index[i + 2].off <= Len(data[index[i + 2].file])
  BY <1>3, <1>5, <1>6, <1>7
<1> QED
  BY <1>2, <1>3, <1>4, <1>5, <1>7, <1>8, Zenon

(* Sync makes safe what the index and the head file hold.                  *)
LEMMA SyncStep ==
    ASSUME FreezerTableAssumption, TableInv, Sync
    PROVE  TableInv'
<1>t. /\ headId \in FileIds /\ data \in [FileIds -> Seq(Values)] /\ index \in Seq(Entries) /\ items \in Nat
      /\ dataSynced \in [FileIds -> Nat]
  BY TableConstants DEF TableTypeOK, TableInv
<1>u. /\ open /\ op.pc = "idle" /\ indexSynced' = Len(index)
      /\ dataSynced' = [dataSynced EXCEPT ![headId] = Len(data[headId])]
      /\ kept' = {i \in 0 .. items - 1 :
                    Intact(i) /\ index[i + 2].off <= dataSynced'[index[i + 2].file]}
      /\ UNCHANGED <<index, data, torn, open, items, headId, headBytes, files, op, content, holed, faults>>
  BY Zenon DEF Sync, memory
<1>1. dataSynced' \in [FileIds -> Nat] /\ \A f \in FileIds : dataSynced'[f] <= Len(data[f])
  BY <1>t, <1>u DEF SyncInv, TableInv
<1>2. TableTypeOK'
  <2>1. kept' \subseteq Nat /\ indexSynced' \in Nat
    BY <1>t, <1>u
  <2> QED
    BY <2>1, <1>1, <1>u, Zenon DEF TableTypeOK, TableInv
<1>3. IndexInv'
  BY <1>u, SMTT(30) DEF IndexInv, Stored, TableInv
<1>4. HeadInv'
  BY <1>u, SMTT(30) DEF HeadInv, Stored, TableInv
<1>5. SyncInv'
  <2>1. Len(index) = items + 1 /\ Len(index) \in Nat
    BY <1>t, <1>u DEF HeadInv, TableInv
  <2>2. ASSUME NEW i \in kept'
        PROVE  OnDisk(i)'
    <3> DEFINE g == index[i + 2]
               b == content[i + 1]
               q == data[g.file]
               m == Start(i)
    <3>0. i \in 0 .. items - 1 /\ Intact(i) /\ g.off <= dataSynced'[g.file]
      BY <1>u, Zenon
    <3>1. /\ g.off \in Nat /\ q \in Seq(Values) /\ m \in Nat /\ m + b.size = g.off /\ b.size \in Nat
          /\ g.file \in FileIds
      BY <3>0, <1>u, ItemBounds, SMTT(30)
    <3>2. SubSeq(q, m + 1, g.off) = Units(b, b.size) /\ ~(Len(q) < g.off)
      BY <3>0, Zenon DEF Intact, Retrieve, Missing
    <3>3. i + 2 <= Len(index)
      BY <3>0, <2>1, <1>t
    <3> HIDE DEF g, b, q, m
    <3>4. \A u \in 1 .. g.off : g.off - b.size < u => q[u] = b.value
      <4> TAKE u \in 1 .. g.off
      <4> HAVE g.off - b.size < u
      <4>1. u - m \in 1 .. b.size /\ (u - m) + m = u
        BY <3>1
      <4>2. SubSeq(q, m + 1, m + b.size) = [x \in 1 .. b.size |-> q[x + m]]
        BY <3>1, <3>2, SMTT(30)
      <4>3. Units(b, b.size)[u - m] = b.value
        BY <4>1, Zenon DEF Units
      <4>4. SubSeq(q, m + 1, m + b.size)[u - m] = q[(u - m) + m]
        BY <4>1, <4>2, Zenon
      <4> QED
        BY <4>1, <4>3, <4>4, <3>1, <3>2, Zenon
    <3>5. /\ index'[i + 2] = g /\ content'[i + 1] = b /\ data'[g.file] = q /\ i + 2 <= indexSynced'
      BY <1>u, <3>3, Zenon DEF g, b, q
    <3> QED
      BY <3>0, <3>4, <3>5, Zenon DEF OnDisk
  <2>3. indexSynced' <= Len(index') /\ \A f \in FileIds : dataSynced'[f] <= Len(data'[f])
    BY <2>1, <1>1, <1>u
  <2> QED
    BY <2>2, <2>3, Zenon DEF SyncInv
<1> QED
  BY <1>2, <1>3, <1>4, <1>5, Zenon DEF TableInv

(* Closing the table changes nothing on disk.                              *)
LEMMA CloseStep ==
    ASSUME FreezerTableAssumption, TableInv, Close
    PROVE  TableInv'
<1>u. /\ open /\ open' = FALSE /\ files' = {} /\ op' = NoCall
      /\ UNCHANGED <<index, data, indexSynced, dataSynced, torn, items, headId, headBytes, content, kept, holed, faults>>
  BY Zenon DEF Close, disk
<1>o. NoCall \in TableCalls /\ NoCall.pc = "idle"
  BY DEF NoCall, TableCalls
<1>1. TableTypeOK'
  BY <1>u, <1>o, Zenon DEF TableTypeOK, TableInv
<1>2. IndexInv'
  BY <1>u, SMTT(30) DEF IndexInv, Stored, TableInv
<1>3. HeadInv'
  BY <1>u, <1>o, Zenon DEF HeadInv, TableInv
<1>4. SyncInv'
  BY <1>u, Zenon DEF SyncInv, OnDisk, TableInv
<1> QED
  BY <1>1, <1>2, <1>3, <1>4, Zenon DEF TableInv

(* The last entry of an open table: file numbers do not run ahead of the   *)
(* items.                                                                  *)
LEMMA LastEntry ==
    ASSUME FreezerTableAssumption, TableInv, open
    PROVE  /\ Len(index) \in 1 .. Len(index) /\ Len(index) \in Nat
           /\ index[Len(index)].off > 0 => index[Len(index)].file < Len(index) - 1
<1> USE DEF TableInv
<1>1. Len(index) \in Nat /\ Len(index) > 0
  BY DEF HeadInv, TableTypeOK
<1>2. CASE Len(index) = 1
  BY <1>1, <1>2 DEF IndexInv, HeadInv
<1>3. CASE Len(index) > 1
  <2>1. Len(index) - 1 \in 1 .. Len(index) - 1
    BY <1>1, <1>3
  <2>2. index[(Len(index) - 1) + 1].file < Len(index) - 1
    BY <2>1, Zenon DEF IndexInv
  <2> QED
    BY <1>1, <2>2
<1> QED
  BY <1>1, <1>2, <1>3, SMTT(30)

(* Append up to its first write: the next file is opened when the item     *)
(* does not fit (advanceHead).                                             *)
LEMMA AppendStep ==
    ASSUME FreezerTableAssumption, ~DiskFills, TableInv, NEW b \in Blobs, Append_(b)
    PROVE  TableInv'
<1> USE TableConstants DEF TableInv, Append_
<1>t. /\ headId \in FileIds /\ data \in [FileIds -> Seq(Values)] /\ index \in Seq(Entries) /\ headId \in Nat
      /\ dataSynced \in [FileIds -> Nat] /\ headBytes \in Nat /\ items \in Nat /\ items < MaxItems /\ content \in Seq(Blobs)
      /\ open /\ op.pc = "idle" /\ b.size \in Nat /\ b.size > 0 /\ b.size <= maxFileSize
  BY DEF TableTypeOK, FileIds
<1>o. op' = [pc |-> "write", blob |-> b, items |-> 0] /\ op' \in TableCalls
  BY DEF TableCalls
<1>h. /\ Len(index) = items + 1 /\ headBytes = Len(data[headId]) /\ headId <= items /\ files = 0 .. headId
      /\ index # <<>> /\ Len(content) = items
      /\ \/ headId = index[Len(index)].file /\ headBytes = index[Len(index)].off
         \/ headId = index[Len(index)].file + 1 /\ headBytes = 0
  BY <1>t DEF HeadInv
<1>1. CASE headBytes + b.size <= maxFileSize
  <2>1. UNCHANGED <<headId, headBytes, data, dataSynced, files, index, indexSynced, torn, open, items, content, kept, holed, faults>>
    BY <1>1, <1>t, SMTT(30)
  <2>2. TableTypeOK'
    BY <1>o, <2>1 DEF TableTypeOK
  <2>3. IndexInv' /\ SyncInv'
    <3>1. IndexInv'
      BY <2>1, SMTT(30) DEF IndexInv, Stored
    <3>2. SyncInv'
      BY <2>1, Zenon DEF SyncInv, OnDisk
    <3> QED
      BY <3>1, <3>2
  <2>4. HeadInv'
    BY <1>o, <1>h, <1>t, <2>1 DEF HeadInv, NoCall
  <2> QED
    BY <2>2, <2>3, <2>4
<1>2. CASE headBytes + b.size > maxFileSize
  <2> DEFINE h == headId + 1
  <2>1. /\ headId' = h /\ headBytes' = 0 /\ data' = [data EXCEPT ![h] = <<>>]
        /\ dataSynced' = [dataSynced EXCEPT ![h] = 0]
        /\ files' = files \cup {h}
        /\ UNCHANGED <<index, indexSynced, torn, open, items, content, kept, holed, faults>>
    BY <1>2, <1>t, Zenon
  <2>2. headBytes > 0
    BY <1>2, <1>t
  <2>3. headId < items /\ h \in FileIds /\ headId = index[Len(index)].file
    BY <2>2, <1>h, <1>t, LastEntry, SMTT(30) DEF FileIds
  <2>4. \A f \in FileIds : f # h => data'[f] = data[f]
    BY <2>1, <1>t
  <2>5. data'[h] = <<>> /\ data' \in [FileIds -> Seq(Values)]
    BY <2>1, <2>3, <1>t
  <2>6. \A j \in 1 .. Len(index) : index[j].file <= headId /\ index[j].file # h /\ data'[index[j].file] = data[index[j].file]
    <3> TAKE j \in 1 .. Len(index)
    <3>1. index[j].file \in FileIds
      BY EntryTypes
    <3>2. index[j].file <= headId
      BY DEF HeadInv
    <3>3. index[j].file # h
      BY <3>1, <3>2, <1>t, SMTT(30) DEF FileIds
    <3> QED
      BY <2>4, <3>1, <3>2, <3>3
  <2>7. \A f \in FileIds : dataSynced'[f] = IF f = h THEN 0 ELSE dataSynced[f]
    BY <2>1, <2>3, <1>t, SMTT(30)
  <2>8. dataSynced' \in [FileIds -> Nat]
    BY <2>1, <2>3, <1>t
  <2>9. TableTypeOK'
    BY <1>o, <2>1, <2>3, <2>5, <2>8, Zenon DEF TableTypeOK
  <2>10. IndexInv'
    <3>1. \A j \in 2 .. Len(index) : data'[index[j].file] = data[index[j].file]
      BY <2>6, <1>t, SMTT(30)
    <3>2. \A j \in 2 .. Len(index) : \A u \in 1 .. Len(data'[index[j].file]) :
              u <= index[j].off => /\ u <= Len(data[index[j].file])
                                   /\ data'[index[j].file][u] = data[index[j].file][u]
                                   /\ index[j].file \in holed => index[j].file \in holed'
      BY <3>1, <2>1, <1>t, EntryTypes, SMTT(30)
    <3>3. Len(index') <= Len(index) /\ Len(index') <= Len(content') + 1
      BY <2>1, <1>h, <1>t
    <3> QED
      BY <2>1, <2>5, <3>2, <3>3, <1>t, StillDescribed, SMTT(30)
  <2>11. HeadInv'
    <3>1. files' = 0 .. h
      BY <2>1, <1>h, <1>t, SMTT(30)
    <3>2. \A j \in 1 .. Len(index) :
            /\ index[j].file <= h
            /\ (IF index[j].file = h THEN open ELSE index[j].file \notin holed) =>
                 index[j].off <= Len(data'[index[j].file])
      <4> TAKE j \in 1 .. Len(index)
      <4>1. index[j].file <= headId /\ index[j].file # h /\ data'[index[j].file] = data[index[j].file]
        BY <2>6, Zenon
      <4>2. index[j].file \notin holed => index[j].off <= Len(data[index[j].file])
        BY <1>t, Zenon DEF HeadInv
      <4>3. index[j].file \in Nat
        BY EntryTypes DEF FileIds
      <4> QED
        BY <4>1, <4>2, <4>3, <1>t, SMTT(30)
    <3>3. h <= items /\ 0 = Len(data'[h])
      BY <2>3, <2>5, <1>t, SMTT(30)
    <3>4. /\ headId' = h /\ headBytes' = 0 /\ index' = index /\ open' = open /\ open /\ items' = items
          /\ content' = content /\ holed' = holed /\ op'.pc = "write" /\ op'.blob = b /\ b \in Blobs
          /\ Len(content) = items /\ Len(index) = items + 1 /\ index # <<>> /\ items < MaxItems
          /\ h = index[Len(index)].file + 1
      BY <2>1, <2>3, <1>o, <1>h, <1>t
    <3> QED
      BY ONLY <3>1, <3>2, <3>3, <3>4, SMTT(30) DEF HeadInv
  <2>12. SyncInv'
    <3>1. \A f \in FileIds : dataSynced'[f] <= Len(data'[f])
      <4> TAKE f \in FileIds
      <4>1. CASE f = h
        BY <4>1, <2>5, <2>7
      <4>2. CASE f # h
        BY <4>2, <2>4, <2>7, Zenon DEF SyncInv
      <4> QED
        BY <4>1, <4>2
    <3>2. \A i \in kept' : OnDisk(i)'
      <4>1. ASSUME NEW i \in kept'
            PROVE  /\ i + 2 <= indexSynced'
                   /\ index'[i + 2] = index[i + 2] /\ content'[i + 1] = content[i + 1]
                   /\ index[i + 2].off <= dataSynced'[index[i + 2].file]
                   /\ \A u \in 1 .. index[i + 2].off :
                         data'[index[i + 2].file][u] = data[index[i + 2].file][u]
        <5>1. i \in kept
          BY <2>1, Zenon
        <5>2. /\ i + 2 <= indexSynced /\ i + 2 \in 1 .. Len(index) /\ index[i + 2].file \in FileIds
              /\ index[i + 2].off <= dataSynced[index[i + 2].file]
          BY <5>1, KeptItem
        <5>3. index[i + 2].file # h /\ data'[index[i + 2].file] = data[index[i + 2].file]
          BY <5>2, <2>6, Zenon
        <5>4. dataSynced'[index[i + 2].file] = dataSynced[index[i + 2].file]
          BY <5>2, <5>3, <2>7, Zenon
        <5> HIDE DEF h
        <5> QED
          BY <5>2, <5>3, <5>4, <2>1, Zenon
      <4>2. kept' \subseteq kept
        BY <2>1, Zenon
      <4> HIDE DEF h, TableInv, Append_
      <4> QED
        BY <4>1, <4>2, StillKept, Zenon DEF TableInv
    <3> QED
      BY <3>1, <3>2, <2>1, Zenon DEF SyncInv
  <2> QED
    BY <2>9, <2>10, <2>11, <2>12
<1> QED
  BY <1>1, <1>2, <1>t, SMTT(30)

(* Writing nothing.                                                        *)
LEMMA NoUnits ==
    ASSUME NEW S, NEW s \in Seq(S), NEW b
    PROVE  s \o Units(b, 0) = s
<1>1. Units(b, 0) = << >>
  BY DEF Units
<1> QED
  BY <1>1

(* What is where after a write at the end of a file.                       *)
LEMMA JoinedSeq ==
    ASSUME NEW S, NEW s \in Seq(S), NEW w \in Seq(S), NEW v, \A i \in 1 .. Len(w) : w[i] = v
    PROVE  /\ s \o w \in Seq(S) /\ Len(s \o w) = Len(s) + Len(w)
           /\ \A u \in 1 .. Len(s) : (s \o w)[u] = s[u]
           /\ \A u \in Len(s) + 1 .. Len(s) + Len(w) : (s \o w)[u] = v
OBVIOUS

(* The data of an item is written behind what the index describes.         *)
LEMMA WriteDataStep ==
    ASSUME FreezerTableAssumption, TableInv, WriteData
    PROVE  TableInv'
<1> DEFINE b == op.blob
           h == headId
<1>t. /\ h \in FileIds /\ data \in [FileIds -> Seq(Values)] /\ index \in Seq(Entries) /\ h \in Nat
      /\ dataSynced \in [FileIds -> Nat] /\ headBytes \in Nat /\ items \in Nat /\ content \in Seq(Blobs)
      /\ data[h] \in Seq(Values)
  <2>1. TableTypeOK
    BY DEF TableInv
  <2>2. /\ h \in FileIds /\ data \in [FileIds -> Seq(Values)] /\ index \in Seq(Entries)
        /\ dataSynced \in [FileIds -> Nat] /\ headBytes \in Nat /\ items \in 0 .. MaxItems /\ content \in Seq(Blobs)
    BY <2>1 DEF TableTypeOK
  <2>3. data[h] \in Seq(Values)
    BY <2>2
  <2> QED
    BY <2>2, <2>3, TableConstants DEF FileIds
<1>u. /\ data' = [data EXCEPT ![headId] = @ \o Units(op.blob, op.blob.size)]
      /\ headBytes' = headBytes + op.blob.size
      /\ UNCHANGED <<index, indexSynced, dataSynced, torn, open, items, headId, files, content, kept, holed, faults>>
  BY DEF WriteData
<1>b. /\ op.pc = "write" /\ b \in Blobs /\ items < MaxItems /\ b.size \in Nat /\ b.size > 0 /\ b.value \in Values
      /\ op' = [pc |-> "index", blob |-> b, items |-> 0]
  BY TableConstants DEF HeadInv, TableInv, WriteData
<1>o. op' \in TableCalls
  BY <1>b DEF TableCalls
<1>h. /\ open /\ Len(index) = items + 1 /\ headBytes = Len(data[h]) /\ h <= items /\ files = 0 .. h
      /\ index # <<>> /\ Len(content) = items
      /\ \/ h = index[Len(index)].file /\ headBytes = index[Len(index)].off
         \/ h = index[Len(index)].file + 1 /\ headBytes = 0
  BY <1>b DEF HeadInv, TableInv, TableTypeOK, NoCall
<1> DEFINE w == Units(b, b.size)
<1>1. w \in Seq(Values) /\ Len(w) = b.size /\ \A i \in 1 .. b.size : w[i] = b.value
  BY <1>b, UnitsSeq
<1>2. data' = [data EXCEPT ![h] = data[h] \o w] /\ headBytes' = headBytes + b.size
  BY <1>u, Zenon
<1> HIDE DEF w, b, h
<1>3. data[h] \o w \in Seq(Values) /\ Len(data[h] \o w) = Len(data[h]) + b.size
  <2>1. \A i \in 1 .. Len(w) : w[i] = b.value
    BY <1>1, Zenon
  <2>2. data[h] \in Seq(Values)
    BY <1>t, Zenon
  <2>3. data[h] \o w \in Seq(Values) /\ Len(data[h] \o w) = Len(data[h]) + Len(w)
    BY ONLY <2>1, <2>2, <1>1, JoinedSeq, SMTT(30)
  <2> QED
    BY <2>3, <1>1, Zenon
<1>4. /\ \A u \in 1 .. Len(data[h]) : (data[h] \o w)[u] = data[h][u]
      /\ \A u \in Len(data[h]) + 1 .. Len(data[h]) + b.size : (data[h] \o w)[u] = b.value
  <2>1. \A i \in 1 .. Len(w) : w[i] = b.value
    BY <1>1, Zenon
  <2>2. data[h] \in Seq(Values) /\ w \in Seq(Values)
    BY <1>t, <1>1, Zenon
  <2>3. /\ \A u \in 1 .. Len(data[h]) : (data[h] \o w)[u] = data[h][u]
        /\ \A u \in Len(data[h]) + 1 .. Len(data[h]) + Len(w) : (data[h] \o w)[u] = b.value
    BY ONLY <2>1, <2>2, JoinedSeq, SMTT(30)
  <2> QED
    BY <2>3, <1>1, Zenon
<1> DEFINE d == data[h] \o w
<1> HIDE DEF d
<1>5. data' = [data EXCEPT ![h] = d]
  BY <1>2 DEF d
<1>6. /\ d \in Seq(Values) /\ Len(d) = Len(data[h]) + b.size /\ Len(data[h]) \in Nat /\ Len(d) \in Nat
      /\ \A u \in 1 .. Len(data[h]) : d[u] = data[h][u]
      /\ \A u \in Len(data[h]) + 1 .. Len(data[h]) + b.size : d[u] = b.value
  BY <1>3, <1>4, <1>t, SMTT(30) DEF d
<1>7. data' \in [FileIds -> Seq(Values)] /\ data'[h] = d /\ \A f \in FileIds : f # h => data'[f] = data[f]
  BY <1>5, <1>6, <1>t
<1>8. \A f \in FileIds : /\ Len(data[f]) <= Len(data'[f]) /\ Len(data[f]) \in Nat /\ Len(data'[f]) \in Nat
                         /\ \A u \in 1 .. Len(data[f]) : data'[f][u] = data[f][u]
  <2> TAKE f \in FileIds
  <2>1. CASE f = h
    BY <2>1, <1>6, <1>7, <1>b
  <2>2. CASE f # h
    BY <2>2, <1>7, <1>t
  <2> QED
    BY <2>1, <2>2
<1>9. \A j \in 1 .. Len(index) : index[j].file = h => index[j].off <= Len(data[h])
  BY <1>h, Zenon DEF HeadInv, TableInv, h
<1>10. TableTypeOK'
  <2>1. headBytes' \in Nat
    BY <1>2, <1>b, <1>t
  <2> QED
    BY <2>1, <1>u, <1>o, <1>7, Zenon DEF TableTypeOK, TableInv
<1>11. IndexInv'
  <2>1. \A j \in 2 .. Len(index) : \A u \in 1 .. Len(data'[index[j].file]) :
              u <= index[j].off => /\ u <= Len(data[index[j].file])
                                   /\ data'[index[j].file][u] = data[index[j].file][u]
                                   /\ index[j].file \in holed => index[j].file \in holed'
    <3> TAKE j \in 2 .. Len(index)
    <3>1. j \in 1 .. Len(index)
      BY <1>t
    <3>2. index[j].file \in FileIds /\ index[j].off \in Nat
      BY <3>1, EntryTypes, Zenon DEF TableInv
    <3> DEFINE f == index[j].file
    <3>3. f \in FileIds /\ Len(data[f]) \in Nat /\ \A u \in 1 .. Len(data[f]) : data'[f][u] = data[f][u]
      BY <3>2, <1>8, Zenon
    <3>4. index[j].off \in Nat /\ Len(data'[f]) \in Nat
      BY <3>2, <1>7
    <3>5. f = h => index[j].off <= Len(data[f])
      BY <3>1, <1>9, Zenon
    <3>6. f # h => data'[f] = data[f]
      BY <3>3, <1>7, Zenon
    <3> HIDE DEF f
    <3>7. \A u \in 1 .. Len(data'[f]) : u <= index[j].off => u <= Len(data[f]) /\ data'[f][u] = data[f][u]
      <4>1. CASE f = h
        BY <4>1, <3>3, <3>4, <3>5
      <4>2. CASE f # h
        BY <4>2, <3>3, <3>4, <3>6
      <4> QED
        BY <4>1, <4>2
    <3> QED
      BY <3>7, <1>u, Zenon DEF f
  <2>2. Len(index') <= Len(index) /\ Len(index') <= Len(content') + 1
    BY <1>u, <1>h, <1>t, SMTT(30)
  <2> QED
    BY <1>u, <1>7, <2>1, <2>2, <1>t, StillDescribed, Zenon
<1>12. HeadInv'
  <2>1. ASSUME NEW j \in 1 .. Len(index)
        PROVE  /\ index[j].file <= h
               /\ (IF index[j].file = h THEN open ELSE index[j].file \notin holed) =>
                    index[j].off <= Len(data'[index[j].file])
    <3>1. index[j].file \in FileIds /\ index[j].off \in Nat
      BY EntryTypes, Zenon DEF TableInv
    <3>2. /\ index[j].file <= h
          /\ (IF index[j].file = h THEN open ELSE index[j].file \notin holed) =>
               index[j].off <= Len(data[index[j].file])
      BY Zenon DEF HeadInv, TableInv, h
    <3>3. Len(data[index[j].file]) <= Len(data'[index[j].file]) /\ Len(data[index[j].file]) \in Nat /\ Len(data'[index[j].file]) \in Nat
      BY <3>1, <1>8, Zenon
    <3> QED
      BY <3>1, <3>2, <3>3
  <2>2. headBytes' = Len(data'[h])
    BY <1>2, <1>6, <1>7, <1>h, Zenon
  <2>3. Follows(index[Len(index)], [file |-> h, off |-> headBytes'], b)
    BY <1>2, <1>h, <1>b, <1>t, SMTT(30) DEF Follows
  <2>4. Stored([file |-> headId, off |-> headBytes], op.blob)'
    <3>1. \A u \in 1 .. Len(data'[h]) : headBytes' - b.size < u /\ u <= headBytes' => data'[h][u] = b.value
      <4>1. headBytes' = Len(d) /\ headBytes' - b.size = Len(data[h])
        BY <1>2, <1>6, <1>h, <1>b, <1>t, SMTT(30)
      <4>2. \A u \in 1 .. Len(d) : Len(data[h]) < u /\ u <= Len(d) => d[u] = b.value
        BY <1>6, <1>b, SMTT(30)
      <4> QED
        BY <4>1, <4>2, <1>7
    <3> QED
      BY <3>1, <1>b, <1>u, Zenon DEF Stored, h, b
  <2> QED
    BY <2>1, <2>2, <2>3, <2>4, <1>h, <1>b, <1>t, <1>u, SMTT(30) DEF HeadInv, h
<1>13. SyncInv'
  <2>1. \A f \in FileIds : dataSynced[f] <= Len(data'[f])
    <3> TAKE f \in FileIds
    <3>1. dataSynced[f] <= Len(data[f]) /\ dataSynced[f] \in Nat
      BY <1>t DEF SyncInv, TableInv
    <3>2. Len(data[f]) <= Len(data'[f]) /\ Len(data[f]) \in Nat /\ Len(data'[f]) \in Nat
      BY <1>7, <1>8, <1>t
    <3> QED
      BY <3>1, <3>2
  <2>2. \A i \in kept' : OnDisk(i)'
    <3>1. ASSUME NEW i \in kept'
          PROVE  /\ i + 2 <= indexSynced'
                 /\ index'[i + 2] = index[i + 2] /\ content'[i + 1] = content[i + 1]
                 /\ index[i + 2].off <= dataSynced'[index[i + 2].file]
                 /\ \A u \in 1 .. index[i + 2].off :
                       data'[index[i + 2].file][u] = data[index[i + 2].file][u]
      <4>1. i \in kept
        BY <1>u, Zenon
      <4>2. /\ i + 2 <= indexSynced /\ index[i + 2].file \in FileIds /\ index[i + 2].off \in Nat
            /\ index[i + 2].off <= dataSynced[index[i + 2].file]
            /\ index[i + 2].off <= Len(data[index[i + 2].file]) /\ Len(data[index[i + 2].file]) \in Nat
        BY <4>1, KeptItem
      <4>3. \A u \in 1 .. Len(data[index[i + 2].file]) : data'[index[i + 2].file][u] = data[index[i + 2].file][u]
        BY <4>2, <1>8, Zenon
      <4>4. \A u \in 1 .. index[i + 2].off : data'[index[i + 2].file][u] = data[index[i + 2].file][u]
        BY <4>2, <4>3
      <4> QED
        BY <4>2, <4>4, <1>u, Zenon
    <3>2. kept' \subseteq kept
      BY <1>u, Zenon
    <3> QED
      BY <3>1, <3>2, StillKept, Zenon
  <2> QED
    BY <2>1, <2>2, <1>u, Zenon DEF SyncInv, TableInv
<1> QED
  BY <1>10, <1>11, <1>12, <1>13 DEF TableInv

(* A write that fails leaves at most bytes that no entry describes.        *)
LEMMA WriteFailsStep ==
    ASSUME FreezerTableAssumption, ~DiskFills, TableInv, WriteFails
    PROVE  TableInv'
<1>t. headId \in FileIds /\ data \in [FileIds -> Seq(Values)] /\ data[headId] \in Seq(Values)
  BY DEF TableTypeOK, TableInv
<1>1. PICK n \in 0 .. 0 : data' = [data EXCEPT ![headId] = @ \o Units(op.blob, n)]
  BY Zenon DEF WriteFails
<1>2. data' = data
  BY <1>1, <1>t, NoUnits
<1>3. op' = NoCall /\ NoCall \in TableCalls /\ NoCall.pc = "idle"
  BY Zenon DEF NoCall, TableCalls, WriteFails
<1>u. /\ UNCHANGED <<index, indexSynced, dataSynced, torn, open, items, headId, headBytes, files, content, kept, holed>>
      /\ faults' = faults + 1 /\ op.pc = "write"
  BY Zenon DEF WriteFails, memory
<1>4. TableTypeOK'
  BY <1>2, <1>3, <1>u DEF TableTypeOK, TableInv
<1>5. IndexInv' /\ SyncInv'
  <2>1. IndexInv'
    BY <1>2, <1>u, SMTT(30) DEF IndexInv, Stored, TableInv
  <2>2. SyncInv'
    BY <1>2, <1>u, Zenon DEF SyncInv, OnDisk, TableInv
  <2> QED
    BY <2>1, <2>2
<1>6. HeadInv'
  BY <1>2, <1>3, <1>u, Zenon DEF HeadInv, TableInv
<1> QED
  BY <1>4, <1>5, <1>6 DEF TableInv

(* What is where after an append.                                          *)
LEMMA AppendSeq ==
    ASSUME NEW S, NEW s \in Seq(S), NEW e \in S
    PROVE  /\ Append(s, e) \in Seq(S) /\ Len(Append(s, e)) = Len(s) + 1
           /\ \A i \in 1 .. Len(s) : Append(s, e)[i] = s[i]
           /\ Append(s, e)[Len(s) + 1] = e
OBVIOUS

(* The entry is written when its data is there.                            *)
LEMMA WriteIndexStep ==
    ASSUME FreezerTableAssumption, ~DiskFills, TableInv, WriteIndex
    PROVE  TableInv'
<1> DEFINE e == [file |-> headId, off |-> headBytes]
           b == op.blob
           n == Len(index)
<1>t. /\ headId \in FileIds /\ data \in [FileIds -> Seq(Values)] /\ index \in Seq(Entries) /\ headId \in Nat
      /\ dataSynced \in [FileIds -> Nat] /\ headBytes \in Nat /\ items \in Nat /\ content \in Seq(Blobs) /\ n \in Nat
  BY TableConstants DEF TableTypeOK, TableInv, FileIds
<1>b. /\ op.pc = "index" /\ b \in Blobs /\ items < MaxItems /\ b.size \in Nat /\ b.size > 0
  BY TableConstants, Zenon DEF HeadInv, TableInv, WriteIndex
<1>u. /\ index' = Append(index, e) /\ items' = items + 1 /\ content' = Append(content, b) /\ op' = NoCall
      /\ UNCHANGED <<data, indexSynced, dataSynced, torn, open, headId, headBytes, files, kept, holed, faults>>
  <2>1. index' \in {Append(index, e)} \cup {i \in {index} : DiskFills}
    BY Zenon DEF WriteIndex
  <2>2. index' = Append(index, e)
    BY <2>1, Zenon
  <2> QED
    BY <2>2, Zenon DEF WriteIndex
<1>h. /\ open /\ n = items + 1 /\ headBytes = Len(data[headId]) /\ headId <= items /\ files = 0 .. headId
      /\ Len(content) = items
      /\ Follows(index[n], e, b) /\ Stored(e, b) /\ e.file < n /\ e.off = headBytes
  BY <1>b, SMTT(30) DEF HeadInv, TableTypeOK, NoCall, TableInv
<1>o. NoCall \in TableCalls /\ NoCall.pc = "idle"
  BY DEF NoCall, TableCalls
<1>e. e \in Entries /\ e.file = headId /\ e.off = headBytes
  BY <1>t DEF Entries
<1>a. n \in 1 .. n
  BY <1>h, <1>t
<1> HIDE DEF e, b, n
<1>1. /\ index' \in Seq(Entries) /\ Len(index') = n + 1 /\ \A j \in 1 .. n : index'[j] = index[j]
      /\ index'[n + 1] = e
  BY <1>e, <1>t, <1>u, AppendSeq DEF n
<1>2. /\ content' \in Seq(Blobs) /\ Len(content') = n /\ \A j \in 1 .. n - 1 : content'[j] = content[j]
      /\ content'[n] = b
  <2>1. /\ content' \in Seq(Blobs) /\ Len(content') = items + 1 /\ \A j \in 1 .. items : content'[j] = content[j]
        /\ content'[items + 1] = b
    <3>1. content \in Seq(Blobs) /\ b \in Blobs /\ content' = Append(content, b)
      BY <1>b, <1>u, <1>t DEF b
    <3>2. Len(content) = items
      BY <1>h
    <3>3. /\ content' \in Seq(Blobs) /\ Len(content') = Len(content) + 1
          /\ \A j \in 1 .. Len(content) : content'[j] = content[j]
          /\ content'[Len(content) + 1] = b
      BY ONLY <3>1, AppendSeq
    <3> QED
      BY <3>2, <3>3
  <2> QED
    BY <2>1, <1>h, <1>t
<1>3. TableTypeOK'
  <2>1. items' \in 0 .. MaxItems
    BY <1>u, <1>t, <1>b, TableConstants, SMTT(30)
  <2> QED
    BY <2>1, <1>1, <1>2, <1>o, <1>u, Zenon DEF TableTypeOK, TableInv
<1>4. \A j \in 1 .. n : /\ index[j].file \in Nat /\ index[j].off \in Nat /\ index[j].file <= headId
                        /\ index[j].file \notin holed \/ index[j].file = headId =>
                             index[j].off <= Len(data[index[j].file])
  BY <1>h, EntryTypes, SMTT(30) DEF n, HeadInv, TableInv, FileIds
<1>5. ASSUME NEW j \in 1 .. n
      PROVE  \/ index[j].file < e.file
             \/ index[j].file = e.file /\ index[j].off < e.off
  <2>1. CASE j = n
    BY <2>1, <1>4, <1>h, <1>b, SMTT(30) DEF Follows
  <2>2. CASE j < n
    <3>1. \/ index[j].file < index[n].file
          \/ index[j].file = index[n].file /\ index[j].off < index[n].off
      BY <2>2, <1>a DEF IndexInv, TableInv, n
    <3> QED
      <4>1. /\ index[j].file \in Nat /\ index[j].off \in Nat /\ index[n].file \in Nat /\ index[n].off \in Nat
            /\ e.file \in Nat /\ e.off \in Nat
        BY <1>4, <1>a, <1>e, <1>t
      <4>2. \/ e.file = index[n].file /\ e.off = index[n].off + b.size
            \/ e.file = index[n].file + 1 /\ e.off = b.size
        BY <1>h DEF Follows
      <4> QED
        BY <3>1, <4>1, <4>2, <1>b
  <2> QED
    BY <2>1, <2>2, <1>t
<1>6. IndexInv'
  <2>1. index'[1] = [file |-> 0, off |-> 0]
    BY <1>1, <1>a, <1>h DEF IndexInv, HeadInv, TableInv, n
  <2>2. ASSUME NEW j \in 1 .. Len(index') - 1
        PROVE  /\ index'[j + 1].file < j
               /\ Follows(index'[j], index'[j + 1], content'[j])
               /\ Stored(index[j + 1], content[j])'
    <3>1. CASE j = n
      BY <3>1, <1>a, <1>1, <1>2, <1>h, <1>u, Zenon DEF Stored
    <3>2. CASE j < n
      <4>1. j \in 1 .. n - 1 /\ j + 1 \in 1 .. n /\ j \in 1 .. n
        BY <3>2, <1>1, <1>t
      <4>2. index[j + 1].file < j /\ Follows(index[j], index[j + 1], content[j]) /\ Stored(index[j + 1], content[j])
        BY <4>1, Zenon DEF IndexInv, TableInv, n
      <4>3. index'[j] = index[j] /\ index'[j + 1] = index[j + 1] /\ content'[j] = content[j]
        BY <4>1, <1>1, <1>2, Zenon
      <4> QED
        BY <4>2, <4>3, <1>u, Zenon DEF Stored
    <3> QED
      BY <3>1, <3>2, <1>1, <1>t
  <2>3. ASSUME NEW i \in 1 .. Len(index'), NEW j \in 1 .. Len(index'), i < j
        PROVE  \/ index'[i].file < index'[j].file
               \/ index'[i].file = index'[j].file /\ index'[i].off < index'[j].off
    <3>1. i \in 1 .. n /\ (j = n + 1 \/ j \in 1 .. n)
      BY <2>3, <1>1, <1>t
    <3>2. CASE j = n + 1
      BY <3>1, <3>2, <1>1, <1>5
    <3>3. CASE j \in 1 .. n
      <4>1. \/ index[i].file < index[j].file
            \/ index[i].file = index[j].file /\ index[i].off < index[j].off
        BY <3>1, <3>3, <2>3 DEF IndexInv, TableInv, n
      <4> QED
        BY <4>1, <3>1, <3>3, <1>1, Zenon
    <3> QED
      BY <3>1, <3>2, <3>3
  <2>4. Len(index') <= Len(content') + 1
    BY <1>1, <1>2, <1>t
  <2> QED
    BY <2>1, <2>2, <2>3, <2>4, Zenon DEF IndexInv
<1>7. HeadInv'
  <2>1. ASSUME NEW j \in 1 .. Len(index')
        PROVE  /\ index'[j].file <= headId
               /\ index'[j].file \notin holed \/ index'[j].file = headId =>
                    index'[j].off <= Len(data[index'[j].file])
    <3>1. CASE j = n + 1
      BY <3>1, <1>1, <1>e, <1>h, <1>t
    <3>2. CASE j \in 1 .. n
      BY <3>2, <1>1, <1>4, Zenon
    <3> QED
      BY <3>1, <3>2, <1>1, <1>t
  <2>2. Len(index') = items' + 1 /\ index' # <<>> /\ headId <= items' /\ Len(content') = items' /\ items' \in Nat
    BY <1>1, <1>2, <1>h, <1>u, <1>t, SMTT(30)
  <2>3. headId = index'[Len(index')].file /\ headBytes = index'[Len(index')].off
    BY <1>1, <1>e
  <2> QED
    BY <2>1, <2>2, <2>3, <1>u, <1>h, <1>o, Zenon DEF HeadInv
<1>8. SyncInv'
  <2>1. \A i \in kept' : OnDisk(i)'
    <3>1. ASSUME NEW i \in kept'
          PROVE  /\ i + 2 <= indexSynced'
                 /\ index'[i + 2] = index[i + 2] /\ content'[i + 1] = content[i + 1]
                 /\ index[i + 2].off <= dataSynced'[index[i + 2].file]
                 /\ \A u \in 1 .. index[i + 2].off :
                       data'[index[i + 2].file][u] = data[index[i + 2].file][u]
      <4>1. i \in kept
        BY <1>u, Zenon
      <4>2. /\ i + 2 <= indexSynced /\ i + 2 \in 1 .. n /\ i + 1 \in 1 .. n - 1
            /\ index[i + 2].off <= dataSynced[index[i + 2].file]
        BY <4>1, KeptItem DEF n
      <4>3. index'[i + 2] = index[i + 2] /\ content'[i + 1] = content[i + 1]
        BY <4>2, <1>1, <1>2, Zenon
      <4> QED
        BY <4>2, <4>3, <1>u, Zenon
    <3>2. kept' \subseteq kept
      BY <1>u, Zenon
    <3> QED
      BY <3>1, <3>2, StillKept, Zenon
  <2>2. indexSynced <= Len(index')
    BY <1>1, <1>t DEF SyncInv, TableInv, TableTypeOK, n
  <2> QED
    BY <2>1, <2>2, <1>u, Zenon DEF SyncInv, TableInv
<1> QED
  BY <1>3, <1>6, <1>7, <1>8 DEF TableInv

(* truncate cuts the index first.                                          *)
LEMMA TruncateStep ==
    ASSUME FreezerTableAssumption, TableInv, NEW n \in 0 .. MaxItems, truncate(n)
    PROVE  TableInv'
<1>t. /\ index \in Seq(Entries) /\ items \in Nat /\ content \in Seq(Blobs) /\ Len(index) \in Nat /\ Len(content) \in Nat
      /\ kept \subseteq Nat /\ indexSynced \in Nat /\ n \in Nat
  BY TableConstants DEF TableTypeOK, TableInv
<1>u. /\ index' = First(index, n + 1) /\ op' = [pc |-> "cut", blob |-> NoBlob, items |-> n]
      /\ kept' = {i \in kept : i < n} /\ indexSynced' = Least(indexSynced, n + 1)
      /\ open /\ op.pc = "idle" /\ n < items
      /\ UNCHANGED <<data, dataSynced, torn, open, items, headId, headBytes, files, content, holed, faults>>
  BY Zenon DEF truncate, memory
<1>h. /\ Len(index) = items + 1 /\ headId <= items /\ files = 0 .. headId /\ Len(content) = items
  BY <1>u, Zenon DEF HeadInv, TableInv
<1>o. op' \in TableCalls /\ op'.pc = "cut" /\ op'.items = n
  BY <1>u, <1>t, Zenon DEF TableCalls
<1>1. index' \in Seq(Entries) /\ Len(index') = n + 1 /\ \A j \in 1 .. n + 1 : index'[j] = index[j]
  <2>1. n + 1 \in 0 .. Len(index)
    BY <1>h, <1>t, <1>u
  <2> QED
    BY ONLY <2>1, <1>t, <1>u, FirstSeq, Zenon
<1>2. indexSynced' \in Nat /\ indexSynced' <= n + 1 /\ kept' \subseteq Nat
  <2>1. indexSynced' \in Nat /\ indexSynced' <= n + 1
    BY <1>u, <1>t, SMTT(30) DEF Least
  <2>2. kept' \subseteq Nat
    BY <1>u, <1>t, Zenon
  <2> QED
    BY <2>1, <2>2
<1>3. TableTypeOK'
  BY <1>1, <1>2, <1>o, <1>u, Zenon DEF TableTypeOK, TableInv
<1>4. IndexInv'
  <2>1. data' \in [FileIds -> Seq(Values)] /\ content' \in Seq(Blobs)
    BY <1>3 DEF TableTypeOK
  <2>2. /\ Len(index') <= Len(index) /\ Len(index') <= Len(content') + 1
        /\ \A j \in 1 .. Len(index') : index'[j] = index[j]
        /\ \A j \in 1 .. Len(index') - 1 : content'[j] = content[j]
    BY <1>1, <1>h, <1>t, <1>u, SMTT(30)
  <2>3. \A j \in 2 .. Len(index') : \A u \in 1 .. Len(data'[index[j].file]) :
              u <= index[j].off => /\ u <= Len(data[index[j].file])
                                   /\ data'[index[j].file][u] = data[index[j].file][u]
                                   /\ index[j].file \in holed => index[j].file \in holed'
    <3>1. \A j \in 2 .. Len(index') : Len(data[index[j].file]) \in Nat
      <4> TAKE j \in 2 .. Len(index')
      <4>1. j \in 1 .. Len(index)
        BY <1>1, <1>h, <1>t, <1>u, SMTT(30)
      <4> QED
        BY <4>1, EntryTypes, SMTT(30) DEF TableTypeOK, TableInv
    <3> QED
      BY <3>1, <1>u, SMTT(30)
  <2> QED
    BY <1>1, <2>1, <2>2, <2>3, StillDescribed
<1>5. \A j \in 1 .. Len(index') : j \in 1 .. Len(index) /\ index'[j] = index[j]
  BY <1>1, <1>h, <1>t, <1>u
<1>6. HeadInv'
  <2>1. \A j \in 1 .. Len(index') :
            /\ index'[j].file <= headId
            /\ (IF index'[j].file = headId THEN open ELSE index'[j].file \notin holed) =>
                 index'[j].off <= Len(data[index'[j].file])
    BY <1>5, <1>u, Zenon DEF HeadInv, TableInv
  <2>2. index' # <<>>
    BY <1>1, <1>t
  <2> QED
    BY <2>1, <2>2, <1>h, <1>1, <1>o, <1>u, Zenon DEF HeadInv
<1>7. SyncInv'
  <2>1. \A i \in kept' : OnDisk(i)'
    <3>1. ASSUME NEW i \in kept'
          PROVE  /\ i + 2 <= indexSynced'
                 /\ index'[i + 2] = index[i + 2] /\ content'[i + 1] = content[i + 1]
                 /\ index[i + 2].off <= dataSynced'[index[i + 2].file]
                 /\ \A u \in 1 .. index[i + 2].off :
                       data'[index[i + 2].file][u] = data[index[i + 2].file][u]
      <4>1. i \in kept /\ i < n
        BY <1>u, Zenon
      <4>2. /\ i \in Nat /\ i + 2 <= indexSynced /\ index[i + 2].off <= dataSynced[index[i + 2].file]
        BY <4>1, KeptItem
      <4>3. i + 2 \in 1 .. n + 1 /\ i + 2 <= indexSynced'
        BY <4>1, <4>2, <1>t, <1>u, SMTT(30) DEF Least
      <4> QED
        BY <4>2, <4>3, <1>1, <1>u, Zenon
    <3>2. kept' \subseteq kept
      BY <1>u, Zenon
    <3> QED
      BY <3>1, <3>2, StillKept, Zenon
  <2> QED
    BY <2>1, <1>2, <1>1, <1>u, Zenon DEF SyncInv, TableInv
<1> QED
  BY <1>3, <1>4, <1>6, <1>7 DEF TableInv

(* A file cut or filled up to a length (os.File.Truncate).                 *)
LEMMA ResizedSeq ==
    ASSUME NEW S, NEW s \in Seq(S), Zero \in S, NEW n \in Nat
    PROVE  /\ Resized(s, n) \in Seq(S) /\ Len(Resized(s, n)) = n
           /\ \A u \in 1 .. n : Resized(s, n)[u] = IF u <= Len(s) THEN s[u] ELSE Zero
<1>1. \A u \in 1 .. n : Resized(s, n)[u] = IF u <= Len(s) THEN s[u] ELSE Zero
  BY Zenon DEF Resized
<1>2. \A u \in 1 .. n : Resized(s, n)[u] \in S
  <2> TAKE u \in 1 .. n
  <2>1. u <= Len(s) => s[u] \in S
    OBVIOUS
  <2> QED
    BY <1>1, <2>1, Zenon
<1>3. Resized(s, n) \in [1 .. n -> S]
  BY <1>2, Zenon DEF Resized
<1>4. Resized(s, n) \in Seq(S)
  BY <1>3, SeqDef
<1>5. Len(Resized(s, n)) = n
  BY <1>3, <1>4, LenProperties
<1> QED
  BY <1>1, <1>4, <1>5

(* A file that is left with a zero keeps its hole.                         *)
LEMMA HoleStays ==
    ASSUME NEW f \in Nat, NEW S, NEW h, data'[f] \in Seq(S), h = HoledUpTo(f)
    PROVE  /\ h \subseteq holed
           /\ \A g \in holed : g < f => g \in h
           /\ f \in holed => \A u \in 1 .. Len(data'[f]) : data'[f][u] = Zero => f \in h
<1>1. h \subseteq holed /\ \A g \in holed : g < f => g \in h
  BY Zenon DEF HoledUpTo
<1>2. ASSUME f \in holed, NEW u \in 1 .. Len(data'[f]), data'[f][u] = Zero
      PROVE  f \in h
  <2>1. u \in DOMAIN data'[f]
    OBVIOUS
  <2>2. Zero \in Range(data'[f])
    BY <2>1, <1>2, Zenon DEF Range
  <2> QED
    BY <2>2, <1>2, Zenon DEF HoledUpTo
<1> QED
  BY <1>1, <1>2, Zenon

(* truncate then cuts the head file to what the last entry describes.      *)
LEMMA TruncateDataStep ==
    ASSUME FreezerTableAssumption, TableInv, TruncateData
    PROVE  TableInv'
<1> DEFINE n == Len(index)
           e == index[n]
<1>t. /\ index \in Seq(Entries) /\ items \in Nat /\ content \in Seq(Blobs) /\ n \in Nat /\ Len(content) \in Nat
      /\ data \in [FileIds -> Seq(Values)] /\ dataSynced \in [FileIds -> Nat] /\ headId \in FileIds
      /\ \A f \in FileIds : f \in Nat /\ Len(data[f]) \in Nat /\ dataSynced[f] \in Nat
      /\ items \in 0 .. MaxItems /\ MaxItems \in Nat /\ op.items \in Nat
  <2>1. /\ index \in Seq(Entries) /\ content \in Seq(Blobs) /\ data \in [FileIds -> Seq(Values)]
        /\ dataSynced \in [FileIds -> Nat] /\ headId \in FileIds /\ items \in 0 .. MaxItems /\ op \in TableCalls
    BY Zenon DEF TableTypeOK, TableInv
  <2>2. \A f \in FileIds : f \in Nat
    BY TableConstants DEF FileIds
  <2>3. \A f \in FileIds : Len(data[f]) \in Nat /\ dataSynced[f] \in Nat
    BY <2>1
  <2>4. op.items \in Nat
    BY <2>1, Zenon DEF TableCalls
  <2> QED
    BY <2>1, <2>2, <2>3, <2>4, TableConstants
<1>u. /\ op.pc = "cut"
      /\ data' = [f \in FileIds |->
                   IF f > e.file /\ f \in files THEN <<>>
                   ELSE IF f = e.file THEN Resized(data[f], e.off)
                   ELSE data[f]]
      /\ dataSynced' = [f \in FileIds |-> Least(dataSynced[f], Len(data'[f]))]
      /\ files' = {f \in files : f <= e.file}
      /\ headId' = e.file /\ headBytes' = e.off
      /\ items' = op.items
      /\ content' = First(content, op.items)
      /\ holed' = HoledUpTo(e.file)
      /\ op' = NoCall
      /\ UNCHANGED <<index, indexSynced, torn, open, kept, faults>>
  BY Zenon DEF TruncateData
<1>o. NoCall \in TableCalls /\ NoCall.pc = "idle"
  BY DEF NoCall, TableCalls
<1>h. /\ open /\ n = op.items + 1 /\ op.items < items /\ index # <<>> /\ headId <= items
      /\ files = 0 .. headId /\ Len(content) = items
  BY <1>u, <1>o, Zenon DEF HeadInv, TableInv, TableTypeOK
<1>a. n \in 1 .. n /\ e \in Entries /\ e.file \in FileIds /\ e.off \in Nat
  BY <1>h, <1>t, EntryTypes, SMTT(30) DEF TableInv
<1>b. e.file <= headId /\ (e.file \notin holed => e.off <= Len(data[e.file]))
  BY <1>a, <1>h, Zenon DEF HeadInv, TableInv
<1>c. ASSUME NEW j \in 1 .. n
      PROVE  /\ index[j].file \in FileIds /\ index[j].file \in Nat /\ index[j].off \in Nat
             /\ index[j].file \notin holed => index[j].off <= Len(data[index[j].file])
             /\ index[j].file < e.file \/ (index[j].file = e.file /\ index[j].off <= e.off)
  <2>1. /\ index[j].file \in FileIds /\ index[j].off \in Nat
        /\ index[j].file \notin holed => index[j].off <= Len(data[index[j].file])
    BY <1>h, EntryTypes, Zenon DEF HeadInv, TableInv
  <2>2. CASE j = n
    BY <2>1, <2>2, <1>t, SMTT(30)
  <2>3. CASE j < n
    <3>1. \/ index[j].file < e.file
          \/ index[j].file = e.file /\ index[j].off < e.off
      BY <2>3, <1>a DEF IndexInv, TableInv
    <3> QED
      BY <2>1, <3>1, <1>a, <1>t, SMTT(30)
  <2> QED
    BY <2>2, <2>3, <1>t, SMTT(30)
<1> HIDE DEF e, n
<1> DEFINE d == Resized(data[e.file], e.off)
<1>1. /\ d \in Seq(Values) /\ Len(d) = e.off
      /\ \A u \in 1 .. e.off : d[u] = IF u <= Len(data[e.file]) THEN data[e.file][u] ELSE Zero
  <2>1. data[e.file] \in Seq(Values) /\ e.off \in Nat
    BY <1>a, <1>t, Zenon
  <2>2. Zero \in Values
    BY Zenon DEF Values
  <2> QED
    BY ONLY <2>1, <2>2, ResizedSeq, Zenon
<1>2. ASSUME NEW f \in FileIds
      PROVE  /\ data'[f] \in Seq(Values) /\ Len(data'[f]) \in Nat
             /\ f < e.file => data'[f] = data[f]
             /\ f = e.file => data'[f] = d /\ Len(data'[f]) = e.off
             /\ dataSynced'[f] = Least(dataSynced[f], Len(data'[f])) /\ dataSynced'[f] \in Nat
             /\ dataSynced'[f] <= Len(data'[f])
  <2>1. data'[f] = IF f > e.file /\ f \in files THEN <<>>
                   ELSE IF f = e.file THEN Resized(data[f], e.off)
                   ELSE data[f]
    BY <1>u, Zenon
  <2>2. data'[f] \in Seq(Values)
    BY <2>1, <1>1, <1>t, SMTT(30)
  <2>3. Len(data'[f]) \in Nat
    BY <2>2
  <2>4. dataSynced'[f] = Least(dataSynced[f], Len(data'[f]))
    BY <1>u
  <2>5. dataSynced'[f] \in Nat /\ dataSynced'[f] <= Len(data'[f])
    BY <2>3, <2>4, <1>t DEF Least
  <2>6. f < e.file => data'[f] = data[f]
    BY <2>1, <1>t, <1>a, SMTT(30)
  <2>7. f = e.file => data'[f] = d
    BY <2>1, <1>t
  <2> QED
    BY <2>2, <2>3, <2>4, <2>5, <2>6, <2>7, <1>1, Zenon
<1>3. data' \in [FileIds -> Seq(Values)] /\ dataSynced' \in [FileIds -> Nat]
  <2>1. data' = [f \in FileIds |-> data'[f]] /\ dataSynced' = [f \in FileIds |-> dataSynced'[f]]
    BY <1>u, Zenon
  <2> QED
    BY <2>1, <1>2, Zenon
<1>4. content' \in Seq(Blobs) /\ Len(content') = op.items /\ \A j \in 1 .. op.items : content'[j] = content[j]
  <2>1. op.items \in 0 .. Len(content)
    BY <1>h, <1>t
  <2> QED
    BY ONLY <2>1, <1>t, <1>u, FirstSeq, Zenon
<1>5. files' = 0 .. e.file /\ e.file < n /\ files' \subseteq FileIds
  <2>1. files' = 0 .. e.file
    <3>1. headId \in Nat /\ e.file \in Nat /\ e.file <= headId
      BY <1>a, <1>b, <1>t
    <3> QED
      BY <3>1, <1>u, <1>h
  <2>2. e.file < n
    <3>1. CASE n = 1
      BY <3>1, <1>h DEF IndexInv, TableInv, e, n
    <3>2. CASE n > 1
      <4>1. n - 1 \in 1 .. n - 1 /\ (n - 1) + 1 = n
        BY <3>2, <1>t
      <4>2. index[(n - 1) + 1].file < n - 1
        BY <4>1 DEF IndexInv, TableInv, n
      <4> QED
        BY <4>1, <4>2, <1>a, <1>t, SMTT(30) DEF e
    <3> QED
      BY <3>1, <3>2, <1>a, <1>t
  <2> QED
    BY <2>1, <2>2, <1>a, <1>t, SMTT(30) DEF FileIds
<1> HIDE DEF d
<1>x. /\ holed' \subseteq holed
      /\ \A g \in holed : g < e.file => g \in holed'
      /\ e.file \in holed => \A u \in 1 .. e.off : d[u] = Zero => e.file \in holed'
  <2>1. data'[e.file] = d /\ d \in Seq(Values) /\ Len(d) = e.off /\ e.file \in Nat
    BY <1>1, <1>2, <1>a, <1>t, Zenon
  <2>2. holed' = HoledUpTo(e.file)
    BY <1>u, Zenon
  <2>3. /\ holed' \subseteq holed
        /\ \A g \in holed : g < e.file => g \in holed'
        /\ e.file \in holed => \A u \in 1 .. Len(data'[e.file]) : data'[e.file][u] = Zero => e.file \in holed'
    BY <2>1, <2>2, HoleStays, Zenon
  <2> QED
    BY <2>1, <2>3, Zenon
<1>6. TableTypeOK'
  <2>1. items' \in 0 .. MaxItems /\ headId' \in FileIds /\ headBytes' \in Nat /\ op' \in TableCalls
    BY <1>h, <1>u, <1>t, <1>a, <1>o, SMTT(30)
  <2> QED
    BY <2>1, <1>x, <1>3, <1>4, <1>5, <1>u, Zenon DEF TableTypeOK, TableInv
<1>7. ASSUME NEW j \in 1 .. n
      PROVE  /\ index[j].file = e.file \/ index[j].file \notin holed' =>
                   index[j].off <= Len(data'[index[j].file])
             /\ \A u \in 1 .. Len(data'[index[j].file]) :
                   \/ /\ u <= Len(data[index[j].file])
                      /\ data'[index[j].file][u] = data[index[j].file][u]
                      /\ index[j].file \in holed =>
                            index[j].file \in holed' \/ data[index[j].file][u] # Zero
                   \/ index[j].file \in holed' /\ data'[index[j].file][u] = Zero
             /\ \A u \in 1 .. Len(data[index[j].file]) :
                   u <= index[j].off => data'[index[j].file][u] = data[index[j].file][u]
  <2> DEFINE f == index[j].file
  <2>0. f \in FileIds /\ Len(data[f]) \in Nat
    BY <1>c, <1>t, Zenon
  <2>1. CASE f < e.file
    <3>1. data'[f] = data[f] /\ f # e.file
      <4>1. f \in Nat /\ e.file \in Nat
        BY <1>c, <1>a, <1>t, Zenon
      <4> QED
        BY <2>0, <2>1, <4>1, <1>2
    <3>2. f \in holed => f \in holed'
      BY <2>1, <1>x, Zenon
    <3>3. f \notin holed => index[j].off <= Len(data[f])
      BY <1>c, Zenon
    <3>4. \A u \in 1 .. Len(data[f]) : u <= Len(data[f])
      BY <2>0
    <3> QED
      BY <3>1, <3>2, <3>3, <3>4, Zenon
  <2>2. CASE f = e.file
    <3>1. data'[f] = d /\ Len(d) = e.off
      BY <2>0, <2>2, <1>1, <1>2, Zenon
    <3>2. index[j].off <= e.off /\ e.off \in Nat /\ index[j].off \in Nat
      <4>1. e.off \in Nat /\ e.file \in Nat
        BY <1>a, <1>t, Zenon
      <4> QED
        BY <4>1, <2>2, <1>c
    <3>3. ASSUME NEW u \in 1 .. e.off
          PROVE  \/ /\ u <= Len(data[f]) /\ d[u] = data[f][u]
                    /\ f \in holed => f \in holed' \/ data[f][u] # Zero
                 \/ f \in holed' /\ d[u] = Zero
      <4>1. d[u] = IF u <= Len(data[f]) THEN data[f][u] ELSE Zero
        BY <2>2, <1>1, Zenon
      <4>2. CASE u <= Len(data[f])
        BY <4>1, <4>2, <2>2, <1>x, Zenon
      <4>3. CASE ~(u <= Len(data[f]))
        <5>1. d[u] = Zero
          BY <4>1, <4>3, Zenon
        <5>2. ~(e.off <= Len(data[f]))
          BY <4>3, <2>0, <3>2
        <5>3. f \in holed
          BY <5>2, <2>2, <1>b, Zenon
        <5> QED
          BY <5>1, <5>3, <2>2, <1>x, Zenon
      <4> QED
        BY <4>2, <4>3, Zenon
    <3>4. \A u \in 1 .. Len(data[f]) : u <= index[j].off => d[u] = data[f][u]
      <4> TAKE u \in 1 .. Len(data[f])
      <4> HAVE u <= index[j].off
      <4>1. u \in 1 .. e.off /\ u <= Len(data[f])
        BY <2>0, <3>2
      <4> QED
        BY <4>1, <2>2, <1>1, Zenon
    <3> QED
      BY <3>1, <3>2, <3>3, <3>4, Zenon
  <2> QED
    BY <2>1, <2>2, <1>c, Zenon
<1>8. IndexInv'
  <2>1. /\ Len(index') <= Len(index) /\ Len(index') <= Len(content') + 1
        /\ \A j \in 1 .. Len(index') - 1 : content'[j] = content[j]
    BY <1>4, <1>h, <1>t, <1>u, SMTT(30) DEF n
  <2>2. \A j \in 2 .. Len(index') : j \in 1 .. n
    BY <1>t, <1>u DEF n
  <2>3. index' \in Seq(Entries) /\ \A j \in 1 .. Len(index') : index'[j] = index[j]
    BY <1>u, <1>t, Zenon
  <2> QED
    BY <1>3, <1>4, <1>7, <2>1, <2>2, <2>3, StillDescribed, Zenon
<1>9. HeadInv'
  <2>1. ASSUME NEW j \in 1 .. Len(index')
        PROVE  /\ index'[j].file <= e.file
               /\ index'[j].file = e.file \/ index'[j].file \notin holed' =>
                    index'[j].off <= Len(data'[index'[j].file])
    <3>1. j \in 1 .. n /\ index'[j] = index[j]
      BY <1>u DEF n
    <3>2. e.file \in Nat
      BY <1>a, <1>t, Zenon
    <3> QED
      BY <3>1, <3>2, <1>7, <1>c
  <2>2. e.off = Len(data'[e.file])
    BY <1>2, <1>a
  <2>3. e.file <= op.items
    <3>1. e.file \in Nat
      BY <1>a, <1>t
    <3>2. n = op.items + 1 /\ op.items \in Nat
      BY <1>h, <1>t, Zenon
    <3> QED
      BY <3>1, <3>2, <1>5
  <2> QED
    BY <2>1, <2>2, <2>3, <1>u, <1>h, <1>o, <1>5, <1>4, Zenon DEF HeadInv, n, e
<1>10. SyncInv'
  <2>1. \A i \in kept' : OnDisk(i)'
    <3>1. ASSUME NEW i \in kept'
          PROVE  /\ i + 2 <= indexSynced'
                 /\ index'[i + 2] = index[i + 2] /\ content'[i + 1] = content[i + 1]
                 /\ index[i + 2].off <= dataSynced'[index[i + 2].file]
                 /\ \A u \in 1 .. index[i + 2].off :
                       data'[index[i + 2].file][u] = data[index[i + 2].file][u]
      <4> DEFINE f == index[i + 2].file
                 o == index[i + 2].off
      <4>1. i \in kept
        BY <1>u, Zenon
      <4>2. /\ i + 2 <= indexSynced /\ i + 2 \in 1 .. n /\ i + 1 \in 1 .. n - 1 /\ f \in FileIds /\ o \in Nat
            /\ o <= dataSynced[f] /\ o <= Len(data[f]) /\ Len(data[f]) \in Nat /\ dataSynced[f] \in Nat
        BY <4>1, KeptItem, SMTT(30) DEF n
      <4>3. content'[i + 1] = content[i + 1]
        BY <4>2, <1>4, <1>h, <1>t, SMTT(30)
      <4>4. \A u \in 1 .. Len(data[f]) : u <= o => data'[f][u] = data[f][u]
        BY <4>2, <1>7, Zenon
      <4>5. o <= Len(data'[f])
        <5>1. CASE f < e.file
          BY <5>1, <4>2, <1>2, Zenon
        <5>2. CASE f = e.file
          BY <5>2, <4>2, <1>7, Zenon
        <5> QED
          BY <5>1, <5>2, <4>2, <1>c, Zenon
      <4>6. dataSynced'[f] = Least(dataSynced[f], Len(data'[f]))
        BY <4>2, <1>2, Zenon
      <4> HIDE DEF f, o
      <4>7. o <= dataSynced'[f]
        BY <4>2, <4>5, <4>6, Zenon DEF Least
      <4>8. \A u \in 1 .. o : data'[f][u] = data[f][u]
        BY <4>2, <4>4
      <4> QED
        BY <4>2, <4>3, <4>7, <4>8, <1>u, Zenon DEF f, o
    <3>2. kept' \subseteq kept
      BY <1>u, Zenon
    <3> QED
      BY <3>1, <3>2, StillKept, Zenon
  <2>2. \A f \in FileIds : dataSynced'[f] <= Len(data'[f])
    BY <1>2
  <2> QED
    BY <2>1, <2>2, <1>u, Zenon DEF SyncInv, TableInv, n
<1> QED
  BY <1>6, <1>8, <1>9, <1>10 DEF TableInv

(* A crash loses what was written since the last sync, of the index and of *)
(* the data independently.                                                 *)
LEMMA CrashStep ==
    ASSUME FreezerTableAssumption, TableInv, TableCrash
    PROVE  TableInv'
<1>t. /\ index \in Seq(Entries) /\ content \in Seq(Blobs) /\ Len(index) \in Nat /\ Len(content) \in Nat
      /\ indexSynced \in Nat /\ data \in [FileIds -> Seq(Values)] /\ dataSynced \in [FileIds -> Nat]
      /\ \A f \in FileIds : data[f] \in Seq(Values) /\ Len(data[f]) \in Nat /\ dataSynced[f] \in Nat
  BY DEF TableTypeOK, TableInv
<1>u. /\ open' = FALSE /\ files' = {} /\ op' = NoCall /\ faults' = faults + 1
      /\ indexSynced' = Len(index') /\ dataSynced' = [f \in FileIds |-> Len(data'[f])]
      /\ UNCHANGED <<items, headId, headBytes, content, kept>> /\ open
  BY DEF TableCrash
<1>o. NoCall \in TableCalls /\ NoCall.pc = "idle"
  BY DEF NoCall, TableCalls
<1>1. PICK k \in indexSynced .. Len(index) : index' = First(index, k) /\ torn' \in {FALSE, k < Len(index)}
  BY Zenon DEF TableCrash
<1>2. PICK len \in [FileIds -> 0 .. 2 * maxFileSize] :
        /\ \A f \in FileIds : len[f] \in dataSynced[f] .. Len(data[f])
        /\ data' = [f \in FileIds |-> First(data[f], len[f])]
        /\ holed' = holed \cup {f \in 0 .. headId - 1 : len[f] # Len(data[f])}
  BY Zenon DEF TableCrash
<1>3. /\ index' \in Seq(Entries) /\ Len(index') = k /\ \A j \in 1 .. k : index'[j] = index[j]
      /\ k \in Nat /\ k <= Len(index) /\ indexSynced <= k
  <2>1. k \in 0 .. Len(index) /\ k \in Nat /\ k <= Len(index) /\ indexSynced <= k
    BY <1>t
  <2>2. index' \in Seq(Entries) /\ Len(index') = k /\ \A j \in 1 .. k : index'[j] = index[j]
    BY ONLY <2>1, <1>t, <1>1, FirstSeq, Zenon
  <2> QED
    BY <2>1, <2>2
<1>4. ASSUME NEW f \in FileIds
      PROVE  /\ data'[f] \in Seq(Values) /\ Len(data'[f]) = len[f]
             /\ \A u \in 1 .. len[f] : data'[f][u] = data[f][u]
             /\ len[f] \in Nat /\ len[f] <= Len(data[f]) /\ dataSynced[f] <= len[f]
             /\ dataSynced'[f] = len[f]
  <2>1. len[f] \in 0 .. Len(data[f]) /\ data[f] \in Seq(Values)
    BY <1>2, <1>t
  <2>2. data'[f] = First(data[f], len[f])
    BY <1>2
  <2>3. First(data[f], len[f]) \in Seq(Values) /\ Len(First(data[f], len[f])) = len[f]
        /\ \A u \in 1 .. len[f] : First(data[f], len[f])[u] = data[f][u]
    BY ONLY <2>1, FirstSeq, Zenon
  <2>4. len[f] \in Nat /\ len[f] <= Len(data[f]) /\ dataSynced[f] <= len[f]
    BY <2>1, <1>2, <1>t
  <2>6. dataSynced'[f] = Len(data'[f])
    BY <1>u
  <2> QED
    BY <2>2, <2>3, <2>4, <2>6
<1>x. holed \subseteq holed' /\ holed' \subseteq FileIds
  <2>1. headId \in FileIds /\ holed \subseteq FileIds
    BY DEF TableTypeOK, TableInv
  <2>2. 0 .. headId - 1 \subseteq FileIds
    BY <2>1, TableConstants DEF FileIds
  <2> QED
    BY <2>1, <2>2, <1>2, Zenon
<1>5. data' \in [FileIds -> Seq(Values)] /\ dataSynced' \in [FileIds -> Nat]
  <2>1. data' = [f \in FileIds |-> data'[f]] /\ dataSynced' = [f \in FileIds |-> dataSynced'[f]]
    BY <1>u, <1>2, Zenon
  <2>2. \A f \in FileIds : data'[f] \in Seq(Values) /\ dataSynced'[f] \in Nat
    BY <1>4
  <2> QED
    BY <2>1, <2>2, Zenon
<1>6. TableTypeOK'
  <2>1. torn' \in BOOLEAN /\ open' \in BOOLEAN /\ files' \subseteq FileIds
    <3>1. torn' \in BOOLEAN
      <4>1. (k < Len(index)) \in BOOLEAN
        OBVIOUS
      <4> QED
        BY <4>1, <1>1, Zenon
    <3> QED
      BY <3>1, <1>u, Zenon
  <2>2. indexSynced' \in Nat /\ faults' \in Nat
    BY <1>3, <1>u DEF TableTypeOK, TableInv
  <2> QED
    BY <2>1, <2>2, <1>3, <1>5, <1>x, <1>o, <1>u, Zenon DEF TableTypeOK, TableInv
<1>7. ASSUME NEW j \in 1 .. k
      PROVE  /\ j \in 1 .. Len(index) /\ index'[j] = index[j] /\ index[j].file \in FileIds
             /\ index[j].off \in Nat
  BY <1>3, <1>t, EntryTypes DEF TableInv
<1>8. IndexInv'
  <2>1. /\ Len(index') <= Len(index) /\ Len(index') <= Len(content') + 1
        /\ \A j \in 1 .. Len(index') : index'[j] = index[j]
        /\ \A j \in 1 .. Len(index') - 1 : content'[j] = content[j]
    BY <1>3, <1>u, <1>t, SMTT(30) DEF IndexInv, TableInv
  <2>2. \A j \in 2 .. Len(index') : \A u \in 1 .. Len(data'[index[j].file]) :
              u <= index[j].off => /\ u <= Len(data[index[j].file])
                                   /\ data'[index[j].file][u] = data[index[j].file][u]
                                   /\ index[j].file \in holed => index[j].file \in holed'
    <3> TAKE j \in 2 .. Len(index')
    <3>1. j \in 1 .. k
      BY <1>3, SMTT(30)
    <3>2. index[j].file \in FileIds
      BY <3>1, <1>7, Zenon
    <3>3. \A f \in FileIds : \A u \in 1 .. Len(data'[f]) : u <= Len(data[f]) /\ data'[f][u] = data[f][u]
      BY <1>4, <1>t, SMTT(30)
    <3> QED
      BY <3>2, <3>3, <1>x, Zenon
  <2>3. content' \in Seq(Blobs)
    BY <1>u, <1>t, Zenon
  <2> QED
    BY <1>3, <1>5, <2>1, <2>2, <2>3, StillDescribed, Zenon
<1>9. HeadInv'
  <2>1. ASSUME NEW j \in 1 .. Len(index')
        PROVE  /\ index'[j].file <= headId
               /\ index'[j].file # headId /\ index'[j].file \notin holed' =>
                    index'[j].off <= Len(data'[index'[j].file])
    <3> DEFINE f == index[j].file
    <3>1. j \in 1 .. k
      BY <1>3
    <3>2. j \in 1 .. Len(index) /\ index'[j] = index[j] /\ f \in FileIds
      BY <3>1, <1>7, Zenon
    <3>3. f <= headId
      BY <3>2, Zenon DEF HeadInv, TableInv
    <3>4. ASSUME f # headId, f \notin holed'
          PROVE  index[j].off <= Len(data'[f])
      <4>1. f \in 0 .. headId - 1
        <5>1. f \in Nat /\ headId \in Nat
          BY <3>2, TableConstants DEF FileIds, TableInv, TableTypeOK
        <5> QED
          BY <5>1, <3>3, <3>4
      <4>2. len[f] = Len(data[f]) /\ f \notin holed
        BY <4>1, <3>4, <1>2, Zenon
      <4>3. index[j].off <= Len(data[f])
        BY <4>2, <3>2, <3>4, Zenon DEF HeadInv, TableInv
      <4> QED
        BY <4>2, <4>3, <3>2, <1>4, Zenon
    <3> QED
      BY <3>2, <3>3, <3>4, Zenon
  <2> QED
    BY <2>1, <1>u, <1>o, Zenon DEF HeadInv, TableInv
<1>10. SyncInv'
  <2>1. \A i \in kept' : OnDisk(i)'
    <3>1. ASSUME NEW i \in kept'
          PROVE  /\ i + 2 <= indexSynced'
                 /\ index'[i + 2] = index[i + 2] /\ content'[i + 1] = content[i + 1]
                 /\ index[i + 2].off <= dataSynced'[index[i + 2].file]
                 /\ \A u \in 1 .. index[i + 2].off :
                       data'[index[i + 2].file][u] = data[index[i + 2].file][u]
      <4> DEFINE f == index[i + 2].file
                 o == index[i + 2].off
      <4>1. i \in kept
        BY <1>u, Zenon
      <4>2. /\ i \in Nat /\ i + 2 <= indexSynced /\ f \in FileIds /\ o \in Nat /\ o <= dataSynced[f] /\ dataSynced[f] \in Nat
        BY <4>1, KeptItem
      <4>3. i + 2 \in 1 .. k /\ i + 2 <= indexSynced'
        BY <4>2, <1>3, <1>u, <1>t
      <4>4. dataSynced'[f] = len[f] /\ dataSynced[f] <= len[f] /\ len[f] \in Nat
            /\ \A u \in 1 .. len[f] : data'[f][u] = data[f][u]
        BY <4>2, <1>4, Zenon
      <4> HIDE DEF f, o
      <4>5. o <= dataSynced'[f] /\ \A u \in 1 .. o : data'[f][u] = data[f][u]
        BY <4>2, <4>4
      <4> QED
        BY <4>3, <4>5, <1>3, <1>u, Zenon DEF f, o
    <3>2. kept' \subseteq kept
      BY <1>u, Zenon
    <3> QED
      BY <3>1, <3>2, StillKept, Zenon
  <2>2. \A f \in FileIds : dataSynced'[f] <= Len(data'[f])
    BY <1>4
  <2>3. indexSynced' <= Len(index')
    BY <1>3, <1>u, SMTT(30)
  <2> QED
    BY <2>1, <2>2, <2>3, Zenon DEF SyncInv
<1> QED
  BY <1>6, <1>8, <1>9, <1>10, Zenon DEF TableInv

(* repair cuts the index and the head file until they agree: what was      *)
(* synced is below both cuts.                                              *)
LEMMA RepairStep ==
    ASSUME FreezerTableAssumption, TableInv, repair
    PROVE  TableInv'
<1> DEFINE zero == [file |-> 0, off |-> 0]
           idx == IF index = <<>> THEN <<zero>> ELSE index
           K == {j \in 1 .. Len(idx) : idx[j].off <= Len(data[idx[j].file])}
           k == Max(K)
           e == idx[k]
<1>t. /\ index \in Seq(Entries) /\ content \in Seq(Blobs) /\ Len(index) \in Nat /\ Len(content) \in Nat
      /\ data \in [FileIds -> Seq(Values)] /\ dataSynced \in [FileIds -> Nat]
      /\ \A f \in FileIds : f \in Nat /\ data[f] \in Seq(Values) /\ Len(data[f]) \in Nat /\ dataSynced[f] \in Nat
      /\ MaxItems \in Nat /\ 0 \in FileIds /\ headId \in FileIds /\ items \in 0 .. MaxItems /\ Len(content) = items
  <2>1. /\ index \in Seq(Entries) /\ content \in Seq(Blobs) /\ headId \in FileIds /\ items \in 0 .. MaxItems
        /\ data \in [FileIds -> Seq(Values)] /\ dataSynced \in [FileIds -> Nat]
    BY DEF TableTypeOK, TableInv
  <2>2. \A f \in FileIds : data[f] \in Seq(Values) /\ Len(data[f]) \in Nat /\ dataSynced[f] \in Nat
    BY <2>1
  <2>3. MaxItems \in Nat /\ 0 \in FileIds /\ \A f \in FileIds : f \in Nat
    BY TableConstants DEF FileIds
  <2> QED
    BY <2>1, <2>2, <2>3, SMTT(30) DEF HeadInv, TableInv
<1>u. /\ ~open /\ open' = TRUE /\ index' = First(idx, k) /\ torn' = FALSE
      /\ data' = [data EXCEPT ![e.file] = First(data[e.file], e.off)]
      /\ indexSynced' = k
      /\ dataSynced' = [dataSynced EXCEPT ![e.file] = e.off]
      /\ items' = k - 1
      /\ headId' = e.file /\ headBytes' = e.off
      /\ files' = 0 .. e.file
      /\ content' = First(content, Least(k - 1, Len(content)))
      /\ holed' = HoledUpTo(e.file)
      /\ UNCHANGED <<op, kept, faults>>
  BY Zenon DEF repair
<1>i. /\ idx \in Seq(Entries) /\ Len(idx) \in Nat /\ Len(idx) > 0 /\ Len(idx) <= Len(content) + 1 /\ idx[1] = zero
      /\ index # <<>> => idx = index
      /\ index = <<>> => Len(idx) = 1
  <2>1. zero \in Entries
    BY <1>t DEF Entries
  <2>2. CASE index = <<>>
    BY <2>1, <2>2, <1>t
  <2>3. CASE index # <<>>
    BY <2>3, <1>t DEF IndexInv, TableInv
  <2> QED
    BY <2>2, <2>3
<1>o. op = NoCall /\ NoCall.pc = "idle" /\ NoCall \in TableCalls
  BY <1>u, Zenon DEF HeadInv, TableInv, NoCall, TableCalls
<1> HIDE DEF zero, idx
<1>j. ASSUME NEW j \in 1 .. Len(idx)
      PROVE  /\ idx[j].file \in FileIds /\ idx[j].file \in Nat /\ idx[j].off \in Nat
             /\ idx[j].file <= headId
             /\ idx[j].file # headId /\ idx[j].file \notin holed => idx[j].off <= Len(data[idx[j].file])
  <2>1. idx[j] \in Entries
    BY <1>i
  <2>2. idx[j].file \in FileIds /\ idx[j].off \in Nat
    BY <2>1, Zenon DEF Entries
  <2>3. CASE index = <<>>
    <3>1. idx[j].file = 0 /\ idx[j].off = 0
      <4>0. Len(idx) = 1 /\ idx[1] = zero
        BY <2>3, <1>i, Zenon
      <4>1. j = 1 /\ idx[1] = zero
        BY <4>0
      <4> QED
        BY <4>1 DEF zero
    <3> QED
      BY <3>1, <1>t, SMTT(30)
  <2>4. CASE index # <<>>
    BY <2>2, <2>4, <1>i, <1>t, Zenon DEF HeadInv, TableInv
  <2> QED
    BY <2>3, <2>4, Zenon
<1>1. /\ k \in K /\ \A j \in K : j <= k
      /\ k \in Nat /\ k >= 1 /\ k <= Len(idx) /\ e.off <= Len(data[e.file])
  <2>1. K \in SUBSET (1 .. Len(idx))
    OBVIOUS
  <2>2. 1 \in K
    BY <1>i, <1>t, SMTT(30) DEF zero
  <2>3. k \in K /\ \A j \in K : j <= k
    BY <2>1, <2>2, <1>i, GreatestNat, Zenon
  <2>4. k \in 1 .. Len(idx) /\ e.off <= Len(data[e.file])
    BY <2>3, Zenon
  <2> HIDE DEF k, K
  <2> QED
    BY <2>3, <2>4, <1>i
<1>2. k \in 1 .. Len(idx) /\ \A j \in 1 .. Len(idx) : idx[j].off <= Len(data[idx[j].file]) => j <= k
  BY <1>1, Zenon
<1> HIDE DEF K, k
<1>3. index' \in Seq(Entries) /\ Len(index') = k /\ \A j \in 1 .. k : index'[j] = idx[j]
  <2>1. k \in 0 .. Len(idx)
    BY <1>1, <1>i
  <2> QED
    BY ONLY <2>1, <1>i, <1>u, FirstSeq, ZenonT(30)
<1>4. content' \in Seq(Blobs) /\ Len(content') = k - 1 /\ \A j \in 1 .. k - 1 : content'[j] = content[j]
  <2>1. Least(k - 1, Len(content)) = k - 1 /\ k - 1 \in 0 .. Len(content)
    BY <1>1, <1>i, <1>t, SMTT(30) DEF Least
  <2>2. First(content, k - 1) \in Seq(Blobs) /\ Len(First(content, k - 1)) = k - 1
        /\ \A j \in 1 .. k - 1 : First(content, k - 1)[j] = content[j]
    BY ONLY <2>1, <1>t, FirstSeq, Zenon
  <2> QED
    BY <2>1, <2>2, <1>u, Zenon
<1>5. /\ e.file \in FileIds /\ e.file \in Nat /\ e.off \in Nat /\ e.file <= headId /\ index'[k] = e
      /\ e.off \in 0 .. Len(data[e.file]) /\ k \in 1 .. k
  BY <1>1, <1>2, <1>3, <1>j, <1>t, SMTT(30)
<1>6. /\ First(data[e.file], e.off) \in Seq(Values) /\ Len(First(data[e.file], e.off)) = e.off
      /\ \A u \in 1 .. e.off : First(data[e.file], e.off)[u] = data[e.file][u]
  <2>1. data[e.file] \in Seq(Values)
    BY <1>5, <1>t, Zenon
  <2> QED
    BY ONLY <2>1, <1>5, FirstSeq, Zenon
<1>c. ASSUME NEW j \in 1 .. k
      PROVE  /\ j \in 1 .. Len(idx) /\ index'[j] = idx[j]
             /\ idx[j].file < e.file \/ (idx[j].file = e.file /\ idx[j].off <= e.off)
  <2>1. j \in 1 .. Len(idx) /\ index'[j] = idx[j]
    BY <1>1, <1>3, <1>i
  <2>2. CASE j = k
    BY <2>1, <2>2, <1>5, SMTT(30)
  <2>3. CASE j < k
    <3>1. index # <<>>
      BY <2>1, <2>3, <1>i, <1>1, SMTT(30)
    <3>2. \/ idx[j].file < idx[k].file
          \/ idx[j].file = idx[k].file /\ idx[j].off < idx[k].off
      BY <2>1, <2>3, <3>1, <1>2, <1>i, SMTT(30) DEF IndexInv, TableInv
    <3> QED
      BY <2>1, <3>2, <1>5, <1>j, SMTT(30)
  <2> QED
    BY <2>2, <2>3, <1>1, SMTT(30)
<1> HIDE DEF e
<1>7. /\ data' \in [FileIds -> Seq(Values)] /\ dataSynced' \in [FileIds -> Nat]
      /\ data'[e.file] = First(data[e.file], e.off) /\ dataSynced'[e.file] = e.off
      /\ \A f \in FileIds : f # e.file => data'[f] = data[f] /\ dataSynced'[f] = dataSynced[f]
  BY <1>5, <1>6, <1>t, <1>u, Zenon
<1>x. /\ holed' \subseteq holed
      /\ \A g \in holed : g < e.file => g \in holed'
      /\ e.file \in holed => \A u \in 1 .. e.off : data'[e.file][u] = Zero => e.file \in holed'
  <2>1. data'[e.file] \in Seq(Values) /\ Len(data'[e.file]) = e.off /\ e.file \in Nat
    BY <1>5, <1>6, <1>7, Zenon
  <2>2. holed' = HoledUpTo(e.file)
    BY <1>u, Zenon
  <2>3. /\ holed' \subseteq holed
        /\ \A g \in holed : g < e.file => g \in holed'
        /\ e.file \in holed => \A u \in 1 .. Len(data'[e.file]) : data'[e.file][u] = Zero => e.file \in holed'
    BY <2>1, <2>2, HoleStays, Zenon
  <2> QED
    BY <2>1, <2>3, Zenon
<1>8. TableTypeOK'
  <2>1. items' \in 0 .. MaxItems
    <3>1. k - 1 <= Len(content)
      BY <1>1, <1>i, <1>t, SMTT(30)
    <3> QED
      <4>1. k - 1 \in 0 .. MaxItems
        BY <3>1, <1>1, <1>t
      <4> QED
        BY <4>1, <1>u
  <2>2. files' \subseteq FileIds
    BY <1>5, <1>u, <1>t, SMTT(30) DEF FileIds
  <2> QED
    BY <2>1, <2>2, <1>1, <1>3, <1>4, <1>5, <1>7, <1>x, <1>u, Zenon DEF TableTypeOK, TableInv
<1>9. ASSUME NEW j \in 1 .. k
      PROVE  /\ idx[j].file = e.file \/ idx[j].file \notin holed' => idx[j].off <= Len(data'[idx[j].file])
             /\ \A u \in 1 .. Len(data'[idx[j].file]) :
                   /\ u <= Len(data[idx[j].file])
                   /\ data'[idx[j].file][u] = data[idx[j].file][u]
                   /\ idx[j].file \in holed => idx[j].file \in holed' \/ data[idx[j].file][u] # Zero
  <2> DEFINE f == idx[j].file
  <2>0. j \in 1 .. Len(idx) /\ f \in FileIds /\ f \in Nat /\ idx[j].off \in Nat
    BY <1>c, <1>j, Zenon
  <2>a. /\ Len(data[f]) \in Nat /\ headId \in Nat /\ e.file \in Nat /\ e.off \in Nat /\ e.file <= headId
        /\ Len(data[e.file]) \in Nat /\ e.off <= Len(data[e.file])
    BY <2>0, <1>5, <1>t, SMTT(30)
  <2>b. f < e.file \/ (f = e.file /\ idx[j].off <= e.off)
    BY <1>c
  <2>1. CASE f < e.file
    <3>1. f # e.file /\ f # headId
      BY ONLY <2>0, <2>a, <2>1, SMTT(30)
    <3>2. data'[f] = data[f] /\ (f \notin holed => idx[j].off <= Len(data[f]))
      BY <2>0, <3>1, <1>7, <1>j, Zenon
    <3>3. f \in holed => f \in holed'
      BY <2>1, <1>x, Zenon
    <3>4. \A u \in 1 .. Len(data[f]) : u <= Len(data[f])
      BY <2>a
    <3> QED
      BY <3>1, <3>2, <3>3, <3>4, Zenon
  <2>2. CASE f = e.file
    <3>1. data'[f] = First(data[e.file], e.off)
      BY <2>2, <1>7
    <3>2. Len(data'[f]) = e.off /\ \A u \in 1 .. e.off : data'[f][u] = data[f][u]
      BY <2>2, <3>1, <1>6, Zenon
    <3>3. idx[j].off <= e.off /\ e.off <= Len(data[f])
      BY <2>2, <2>a, <2>b, <2>0, SMTT(30)
    <3>4. \A u \in 1 .. Len(data'[f]) : u <= Len(data[f]) /\ data'[f][u] = data[f][u]
      BY <3>2, <3>3, <2>0, <2>a
    <3>5. \A u \in 1 .. Len(data'[f]) : f \in holed => f \in holed' \/ data[f][u] # Zero
      BY <2>2, <3>2, <1>x, Zenon
    <3>6. idx[j].off <= Len(data'[f])
      BY <3>2, <3>3, Zenon
    <3> QED
      BY <3>4, <3>5, <3>6, Zenon
  <2> QED
    BY <2>1, <2>2, <2>b, Zenon
<1>10. IndexInv'
  <2>1. CASE index = <<>>
    <3>1. k = 1 /\ index'[1] = [file |-> 0, off |-> 0]
      <4>1. Len(idx) = 1 /\ idx[1] = zero
        BY <2>1, <1>i, Zenon
      <4>2. k = 1
        BY <4>1, <1>1
      <4>3. index'[1] = zero
        BY <4>1, <4>2, <1>3
      <4> QED
        BY <4>2, <4>3 DEF zero
    <3>2. \A j \in 1 .. Len(index') - 1 : FALSE
      BY <3>1, <1>3
    <3>3. \A i, j \in 1 .. Len(index') : ~(i < j)
      BY <3>1, <1>3
    <3>4. Len(index') <= Len(content') + 1
      BY <1>3, <1>4, <1>1, SMTT(30)
    <3> QED
      BY <3>1, <3>2, <3>3, <3>4, Zenon DEF IndexInv
  <2>2. CASE index # <<>>
    <3>0. idx = index
      BY <2>2, <1>i, Zenon
    <3>1. /\ Len(index') <= Len(index) /\ Len(index') <= Len(content') + 1
          /\ \A j \in 1 .. Len(index') : index'[j] = index[j]
          /\ \A j \in 1 .. Len(index') - 1 : content'[j] = content[j]
      BY <3>0, <1>1, <1>3, <1>4, <1>t, SMTT(30)
    <3>2. \A j \in 2 .. Len(index') : j \in 1 .. k
      BY <1>3, <1>1
    <3> QED
      BY <3>0, <3>1, <3>2, <1>3, <1>4, <1>7, <1>9, StillDescribed, ZenonT(30)
  <2> QED
    BY <2>1, <2>2
<1>11. e.file <= k - 1
  <2>1. CASE k = 1
    BY <2>1, <1>i DEF e, zero
  <2>2. CASE k > 1
    <3>0. idx = index /\ k - 1 \in 1 .. Len(index) - 1 /\ (k - 1) + 1 = k
      <4>1. Len(idx) # 1
        <5>1. k \in Nat /\ k <= Len(idx)
          BY <1>1
        <5> QED
          BY ONLY <5>1, <2>2
      <4>2. idx = index
        BY <4>1, <1>i, Zenon
      <4> QED
        BY <2>2, <4>2, <1>1, <1>t
    <3>1. index[(k - 1) + 1].file < k - 1
      BY <3>0, Zenon DEF IndexInv, TableInv
    <3> QED
      BY <3>0, <3>1, <1>5, <1>1 DEF e
  <2> QED
    BY <2>1, <2>2, <1>1
<1>12. HeadInv'
  <2>1. \A j \in 1 .. Len(index') :
            /\ index'[j].file <= e.file
            /\ index'[j].file = e.file \/ index'[j].file \notin holed' => index'[j].off <= Len(data'[index'[j].file])
    <3> TAKE j \in 1 .. Len(index')
    <3>1. j \in 1 .. k
      BY <1>3
    <3>2. idx[j].file <= e.file
      BY <3>1, <1>c, <1>j, <1>5, SMTT(30)
    <3> QED
      BY <3>1, <3>2, <1>c, <1>9
  <2>2. index' # <<>> /\ Len(index') = (k - 1) + 1
    BY <1>1, <1>3
  <2>3. e.off = Len(data'[e.file])
    BY <1>6, <1>7, Zenon
  <2>4. index'[Len(index')] = e
    BY <1>3, <1>5
  <2> QED
    BY <2>1, <2>2, <2>3, <2>4, <1>4, <1>11, <1>o, <1>u, Zenon DEF HeadInv
<1>13. ASSUME NEW i \in kept
       PROVE  /\ i + 2 \in 1 .. k /\ i + 2 <= k /\ i + 1 \in 1 .. k - 1 /\ idx[i + 2] = index[i + 2]
              /\ index[i + 2].file \in FileIds /\ index[i + 2].off \in Nat
              /\ index[i + 2].off <= dataSynced[index[i + 2].file]
  <2>1. /\ i \in Nat /\ i + 2 \in 1 .. Len(index) /\ index[i + 2].off <= Len(data[index[i + 2].file])
        /\ index[i + 2].file \in FileIds /\ index[i + 2].off \in Nat
        /\ index[i + 2].off <= dataSynced[index[i + 2].file]
    BY KeptItem
  <2>2. index # <<>>
    BY <2>1, <1>t
  <2>3. idx = index
    BY <2>2, <1>i, Zenon
  <2>4. i + 2 <= k
    BY <2>1, <2>3, <1>2, Zenon
  <2>5. i + 2 \in 1 .. k /\ i + 1 \in 1 .. k - 1
    BY <2>1, <2>4, <1>1
  <2> QED
    BY <2>1, <2>3, <2>4, <2>5, Zenon
<1>14. SyncInv'
  <2>1. \A f \in FileIds : dataSynced'[f] <= Len(data'[f])
    <3> TAKE f \in FileIds
    <3>1. CASE f = e.file
      BY <3>1, <1>6, <1>7, <1>5, SMTT(30)
    <3>2. CASE f # e.file
      BY <3>2, <1>7, Zenon DEF SyncInv, TableInv
    <3> QED
      BY <3>1, <3>2
  <2>2. \A i \in kept' : OnDisk(i)'
    <3>1. ASSUME NEW i \in kept'
          PROVE  /\ i + 2 <= indexSynced'
                 /\ index'[i + 2] = index[i + 2] /\ content'[i + 1] = content[i + 1]
                 /\ index[i + 2].off <= dataSynced'[index[i + 2].file]
                 /\ \A u \in 1 .. index[i + 2].off :
                       data'[index[i + 2].file][u] = data[index[i + 2].file][u]
      <4> DEFINE f == index[i + 2].file
                 o == index[i + 2].off
      <4>1. i \in kept
        BY <1>u, Zenon
      <4>2. /\ i + 2 \in 1 .. k /\ i + 2 <= k /\ i + 1 \in 1 .. k - 1 /\ idx[i + 2] = index[i + 2]
            /\ f \in FileIds /\ o \in Nat /\ o <= dataSynced[f]
        BY <4>1, <1>13, Zenon
      <4>3. index'[i + 2] = index[i + 2] /\ content'[i + 1] = content[i + 1] /\ i + 2 <= indexSynced'
        BY <4>2, <1>3, <1>4, <1>u, Zenon
      <4>4. CASE f = e.file
        <5>1. o <= e.off /\ e.off \in Nat
          <6>0. idx[i + 2].file < e.file \/ (idx[i + 2].file = e.file /\ idx[i + 2].off <= e.off)
            BY <4>2, <1>c
          <6>1. index[i + 2].file < e.file \/ (index[i + 2].file = e.file /\ index[i + 2].off <= e.off)
            BY <6>0, <4>2, Zenon
          <6>2. e.file \in Nat /\ e.off \in Nat
            BY <1>5, Zenon
          <6> QED
            BY <6>1, <6>2, <4>4
        <5>2. dataSynced'[f] = e.off /\ \A u \in 1 .. e.off : data'[f][u] = data[f][u]
          BY <4>4, <1>6, <1>7, ZenonT(30)
        <5> HIDE DEF f, o
        <5>3. o <= dataSynced'[f] /\ \A u \in 1 .. o : data'[f][u] = data[f][u]
          BY <5>1, <5>2, <4>2
        <5> QED
          BY <4>3, <5>3, Zenon DEF f, o
      <4>5. CASE f # e.file
        <5>1. data'[f] = data[f] /\ dataSynced'[f] = dataSynced[f]
          BY <4>2, <4>5, <1>7, Zenon
        <5> QED
          BY <4>2, <4>3, <5>1, Zenon
      <4> QED
        BY <4>4, <4>5, Zenon
    <3>2. kept' \subseteq kept
      BY <1>u, Zenon
    <3> QED
      BY <3>1, <3>2, StillKept, Zenon
  <2>3. indexSynced' <= Len(index')
    BY <1>1, <1>3, <1>u
  <2> QED
    BY <2>1, <2>2, <2>3, Zenon DEF SyncInv
<1> QED
  BY <1>8, <1>10, <1>12, <1>14 DEF TableInv

(* A new table has only the first entry.                                   *)
LEMMA TableStarts ==
    ASSUME FreezerTableAssumption, TableInit
    PROVE  TableInv
<1> USE TableConstants DEF TableInit
<1>1. 0 \in FileIds /\ NoCall \in TableCalls /\ NoCall.pc = "idle" /\ <<>> \in Seq(Entries) /\ <<>> \in Seq(Blobs)
      /\ \A f \in FileIds : data[f] = <<>>
  BY DEF FileIds, NoCall, TableCalls
<1>2. TableTypeOK
  <2>1. /\ data \in [FileIds -> Seq(Values)] /\ dataSynced \in [FileIds -> Nat] /\ items \in 0 .. MaxItems
        /\ torn \in BOOLEAN /\ open \in BOOLEAN
    <3>1. data \in [FileIds -> Seq(Values)]
      OBVIOUS
    <3>2. dataSynced \in [FileIds -> Nat]
      OBVIOUS
    <3>3. torn \in BOOLEAN /\ open \in BOOLEAN
      BY Zenon
    <3> QED
      BY <3>1, <3>2, <3>3
  <2> QED
    BY <2>1, <1>1 DEF TableTypeOK
<1>3. IndexInv
  BY SMTT(30) DEF IndexInv
<1>4. HeadInv
  BY <1>1, SMTT(30) DEF HeadInv
<1>5. SyncInv
  BY <1>1 DEF SyncInv
<1> QED
  BY <1>2, <1>3, <1>4, <1>5 DEF TableInv

(* Each item of an open freezer table is read back as it was appended, and *)
(* the items whose entry and bytes Sync left on disk are read back after a  *)
(* crash at any point of an append or a truncation and the repair that      *)
(* follows (freezerTable.repair), whatever the crash takes off the ends of  *)
(* the files that were not synced. What may be gone, and stay gone behind   *)
(* an index that still counts it, are items of a file that was full and     *)
(* closed before a Sync came. Of the disk only this is asked: a write that  *)
(* fails leaves nothing behind and is reported (ReadableAfterFailure says   *)
(* what the code expects otherwise, and does not keep).                     *)
THEOREM TableIsSound ==
    ASSUME FreezerTableAssumption, ~DiskFills
    PROVE  TableSpec => []TableSound
<1>1. TableInit => TableInv
  BY TableStarts
<1>2. TableInv /\ [TableNext]_tableVars => TableInv'
  <2> SUFFICES ASSUME TableInv, [TableNext]_tableVars PROVE TableInv'
    OBVIOUS
  <2>1. CASE UNCHANGED tableVars
    <3>1. UNCHANGED <<index, data, indexSynced, dataSynced, torn, open, items, headId, headBytes, files, op,
                      content, kept, holed, faults>>
      BY <2>1 DEF tableVars, disk, memory
    <3>2. TableTypeOK'
      BY <3>1, Zenon DEF TableInv, TableTypeOK
    <3>3. IndexInv'
      BY <3>1, SMTT(30) DEF TableInv, IndexInv, Stored
    <3>4. HeadInv'
      BY <3>1, Zenon DEF TableInv, HeadInv, Stored
    <3>5. SyncInv'
      BY <3>1, Zenon DEF TableInv, SyncInv, OnDisk
    <3> QED
      BY <3>2, <3>3, <3>4, <3>5 DEF TableInv
  <2>2. CASE TableNext
    BY <2>2, SyncStep, AppendStep, WriteDataStep, WriteFailsStep, WriteIndexStep, TruncateStep, TruncateDataStep,
       CloseStep, CrashStep, RepairStep, Zenon DEF TableNext
  <2> QED
    BY <2>1, <2>2
<1>3. TableInv => TableSound
  BY TableReads DEF TableInv, TableSound
<1> QED
  BY <1>1, <1>2, <1>3, PTL DEF TableSpec

====
