---------------------------- MODULE CascadeProofs ----------------------------
(***************************************************************************)
(* Proofs about Cascade, for every set of nodes, stakes and transactions:   *)
(* its invariants, and that the network implements Settlement, the          *)
(* refinement that the runs check on small instances.                       *)
(***************************************************************************)
EXTENDS Cascade, SequenceTheorems, TLAPS

(* A transfer takes states to states: an applicable transaction leaves no    *)
(* negative balance (TransitionDb).                                           *)
LEMMA ApplyType ==
    ASSUME NEW s \in States, NEW t \in Txs, Applicable(s, t)
    PROVE  Apply(s, t) \in States
<1>1. t \in TxType
  BY TransfersAssumption
<1>2. t.from \in Accounts /\ t.to \in Accounts /\ t.nonce \in Nat /\ t.value \in Nat /\ t.price \in Nat
  BY <1>1 DEF TxType
<1>3. s.nonce \in [Accounts -> Nat] /\ s.balance \in [Accounts -> Nat]
  BY DEF States
<1> DEFINE paid == [s.balance EXCEPT ![t.from] = @ - Cost(t)]
<1>4. paid \in [Accounts -> Nat]
  BY <1>2, <1>3 DEF Applicable, Affordable, Cost
<1>5. [paid EXCEPT ![t.to] = @ + t.value] \in [Accounts -> Nat]
  BY <1>2, <1>4
<1>6. [s.nonce EXCEPT ![t.from] = t.nonce + 1] \in [Accounts -> Nat]
  BY <1>2, <1>3
<1>7. Apply(s, t).balance = [paid EXCEPT ![t.to] = @ + t.value]
  BY DEF Apply
<1> QED
  BY <1>5, <1>6, <1>7 DEF Apply, States

(* What the assumption on transactions says of each one.                    *)
LEMMA TxFields ==
    ASSUME NEW t \in Txs
    PROVE  /\ t.from \in Accounts /\ t.to \in Accounts
           /\ t.nonce \in Nat /\ t.value \in Nat /\ t.price \in Nat
           /\ Slot(t) \in Slots
BY TransfersAssumption DEF TxType, Slots

(* A stake is a natural number: it is a genesis balance.                    *)
LEMMA StakeType ==
    ASSUME NEW v \in Nodes
    PROVE  Stake(v) \in Nat
BY CascadeAssumption, TransfersAssumption DEF Stake

-----------------------------------------------------------------------------
(* A freshly started network is well typed (NewBlockChain, NewTxPool).      *)
LEMMA InitType == Init => TypeOK
<1> SUFFICES ASSUME Init PROVE TypeOK
  OBVIOUS
<1>1. Genesis \in States
  BY TransfersAssumption DEF Genesis, States
<1>2. <<>> \in Seq(Txs) /\ <<>> \in Path
  BY DEF Path
<1> QED
  BY <1>1, <1>2 DEF Init, TypeOK

(* addAck keeps the tallies well typed.                                      *)
LEMMA AddAckType ==
    ASSUME TypeOK, NEW n \in Nodes, NEW t \in Txs, NEW v \in Nodes, NEW isLocal \in BOOLEAN,
           addAck(n, t, v, isLocal)
    PROVE  /\ expectedAckNonce' \in [Nodes -> [Accounts -> Nat]]
           /\ ackWeight' \in [Nodes -> [Txs -> Nat]]
           /\ voted' \in [Nodes -> [Slots -> SUBSET Nodes]]
           /\ stakeReceived' \in [Nodes -> [Slots -> Nat]]
           /\ counted' \in [Nodes -> [Txs -> SUBSET Nodes]]
<1>1. expectedAckNonce' \in [Nodes -> [Accounts -> Nat]]
  <2>1. [expectedAckNonce EXCEPT ![n][t.from] = t.nonce + 1] \in [Nodes -> [Accounts -> Nat]]
    BY TxFields, SMTT(30) DEF TypeOK
  <2> QED
    BY <2>1 DEF TypeOK, addAck
<1>2. CASE v \in voted[n][Slot(t)]
  BY <1>1, <1>2, Zenon DEF TypeOK, addAck
<1>3. CASE v \notin voted[n][Slot(t)]
  <2>1. /\ ackWeight' = [ackWeight EXCEPT ![n][t] = @ + Stake(v)]
        /\ stakeReceived' = [stakeReceived EXCEPT ![n][Slot(t)] = @ + Stake(v)]
        /\ voted' = [voted EXCEPT ![n][Slot(t)] = @ \cup {v}]
        /\ counted' = [counted EXCEPT ![n][t] = @ \cup {v}]
    BY <1>3 DEF addAck
  <2>2. Stake(v) \in Nat /\ Slot(t) \in Slots
    BY StakeType, TxFields
  <2>3. ackWeight' \in [Nodes -> [Txs -> Nat]]
    BY <2>1, <2>2 DEF TypeOK
  <2>4. stakeReceived' \in [Nodes -> [Slots -> Nat]]
    BY <2>1, <2>2 DEF TypeOK
  <2>5. voted' \in [Nodes -> [Slots -> SUBSET Nodes]]
    BY <2>1, <2>2 DEF TypeOK
  <2>6. counted' \in [Nodes -> [Txs -> SUBSET Nodes]]
    BY <2>1 DEF TypeOK
  <2> QED
    BY <1>1, <2>3, <2>4, <2>5, <2>6
<1> QED
  BY <1>2, <1>3

(* applyTransaction leaves either no call in progress or a well-typed one,  *)
(* one entry further.                                                       *)
LEMMA ApplyTransactionType ==
    ASSUME TypeOK, NEW n \in Nodes, NEW t \in Txs, proc[n] \in Runs, applyTransaction(n, t)
    PROVE  proc' \in [Nodes -> {Idle} \cup Runs]
<1> DEFINE p == proc[n]
<1>1. CASE p.gas > 0 /\ Applicable(p.statedb, t)
  <2>1. Apply(p.statedb, t) \in States
    BY <1>1, ApplyType DEF Runs
  <2>2. /\ p.i + 1 \in Nat \ {0} /\ p.gas - 1 \in Nat
        /\ p = [stage |-> p.stage, block |-> p.block, i |-> p.i, kept |-> p.kept,
                statedb |-> p.statedb, gas |-> p.gas]
    BY <1>1 DEF Runs
  <2>3. [p EXCEPT !.i = @ + 1, !.gas = @ - 1, !.statedb = Apply(@, t)] \in Runs
    BY <2>1, <2>2, Zenon DEF Runs
  <2> QED
    BY <1>1, <2>3 DEF applyTransaction, TypeOK
<1>2. CASE ~(p.gas > 0 /\ Applicable(p.statedb, t))
  BY <1>2 DEF applyTransaction, TypeOK
<1> QED
  BY <1>1, <1>2

(* The fields of a Process call in progress.                                *)
LEMMA RunTypes ==
    ASSUME TypeOK, NEW n \in Nodes, proc[n] # Idle \/ proc[n].stage \in {"acks", "confirmed"}
    PROVE  /\ proc[n] \in Runs /\ proc[n] # Idle
           /\ proc[n].block \in Blocks /\ proc[n].block.author \in Nodes
           /\ proc[n].block.txs \in Seq(Txs)
           /\ proc[n].i \in Nat \ {0} /\ proc[n].kept \in Nat /\ proc[n].gas \in Nat
           /\ proc[n].statedb \in States
           /\ proc[n].stage \in {"acks", "confirmed"}
<1>1. proc[n] \in Runs
  BY DEF TypeOK, Idle, Runs
<1>2. proc[n] # Idle
  BY <1>1 DEF Idle, Runs
<1> QED
  BY <1>1, <1>2 DEF Runs, Blocks

(* What a step of Process does to the record of the call in progress.        *)
LEMMA RunAdvances ==
    ASSUME NEW p \in Runs
    PROVE  /\ [p EXCEPT !.i = @ + 1] \in Runs
           /\ [p EXCEPT !.i = @ + 1, !.kept = @ + 1] \in Runs
           /\ [p EXCEPT !.stage = "confirmed", !.i = 1] \in Runs
<1>0. /\ p.i + 1 \in Nat \ {0} /\ p.kept + 1 \in Nat
      /\ p = [stage |-> p.stage, block |-> p.block, i |-> p.i, kept |-> p.kept,
              statedb |-> p.statedb, gas |-> p.gas]
  BY DEF Runs
<1>1. [p EXCEPT !.i = @ + 1] \in Runs
  BY <1>0 DEF Runs
<1>2. [p EXCEPT !.i = @ + 1, !.kept = @ + 1] \in Runs
  BY <1>0, Zenon DEF Runs
<1>3. [p EXCEPT !.stage = "confirmed"] \in Runs
  BY DEF Runs
<1>4. \A q \in Runs : [q EXCEPT !.i = 1] \in Runs
  BY DEF Runs
<1>5. [p EXCEPT !.stage = "confirmed", !.i = 1] = [[p EXCEPT !.stage = "confirmed"] EXCEPT !.i = 1]
  OBVIOUS
<1> QED
  BY <1>1, <1>2, <1>3, <1>4, <1>5, Zenon

(* Blocks that reach a node are blocks.                                      *)
LEMMA ArrivingType ==
    ASSUME TypeOK, NEW n \in Nodes, NEW b \in Arriving(n)
    PROVE  b \in Blocks
<1>1. CASE b \in sent
  BY <1>1 DEF TypeOK
<1>2. CASE b \in FaultyBlocks(n)
  <2>1. PICK v \in Faulty, parent \in {<<>>} \cup {PathOf(q) : q \in known[n]}, txs \in FaultyBodies :
           b = [author |-> v, parent |-> parent, txs |-> txs]
    BY <1>2 DEF FaultyBlocks
  <2>2. v \in Nodes /\ txs \in Seq(Txs)
    BY CascadeAssumption
  <2>3. \A q \in known[n] : PathOf(q) \in Path
    <3>1. \A q \in Blocks : Append(q.parent, q.txs) \in Seq(Seq(Txs))
      BY DEF Blocks, Path
    <3> QED
      BY <3>1 DEF TypeOK, PathOf, Path
  <2>4. parent \in Path
    <3>1. <<>> \in Path
      BY DEF Path
    <3> QED
      BY <2>3, <3>1
  <2> QED
    BY <2>1, <2>2, <2>4 DEF Blocks
<1> QED
  BY <1>1, <1>2 DEF Arriving

(* The chains a node may build on are paths.                                *)
LEMMA OwnPathsType ==
    ASSUME TypeOK, NEW n \in Nodes, NEW parent \in OwnPaths(n)
    PROVE  parent \in Path
<1>1. \A q \in known[n] : PathOf(q) \in Path
  <2>1. \A q \in Blocks : Append(q.parent, q.txs) \in Seq(Seq(Txs))
    BY DEF Blocks, Path
  <2> QED
    BY <2>1 DEF TypeOK, PathOf, Path
<1>2. <<>> \in Path
  BY DEF Path
<1>3. parent = <<>> \/ \E q \in known[n] : parent = PathOf(q)
  BY DEF OwnPaths, OwnBlocks
<1> QED
  BY <1>1, <1>2, <1>3

(* A step of the first loop of Process keeps the types.                     *)
LEMMA ProcessAckType ==
    ASSUME TypeOK, CompactionBehind, NEW n \in Nodes, ProcessAck(n)
    PROVE  TypeOK' /\ CompactionBehind'
<1> DEFINE p == proc[n]
           t == p.block.txs[p.i]
           v == p.block.author
<1>1. p.stage = "acks" /\ p.i <= Len(p.block.txs)
  BY DEF ProcessAck
<1>2. p \in Runs /\ v \in Nodes /\ p.block.txs \in Seq(Txs) /\ p.i \in Nat \ {0} /\ p.kept = 0
  BY <1>1, RunTypes DEF CompactionBehind
<1>3. t \in Txs
  BY <1>1, <1>2, SMTT(30)
<1>4. UNCHANGED <<state, known, head, currentState, resetDue, work, sent>>
  BY DEF ProcessAck, chainVars
<1>5. UNCHANGED ackVars \/ addAck(n, t, v, FALSE)
  BY Zenon DEF ProcessAck
<1>6. /\ expectedAckNonce' \in [Nodes -> [Accounts -> Nat]]
      /\ ackWeight' \in [Nodes -> [Txs -> Nat]]
      /\ voted' \in [Nodes -> [Slots -> SUBSET Nodes]]
      /\ stakeReceived' \in [Nodes -> [Slots -> Nat]]
      /\ counted' \in [Nodes -> [Txs -> SUBSET Nodes]]
  <2>1. CASE UNCHANGED ackVars
    BY <2>1 DEF TypeOK, ackVars
  <2>2. CASE addAck(n, t, v, FALSE)
    <3> HIDE DEF t, v
    <3> QED BY <2>2, <1>2, <1>3, AddAckType, Zenon
  <2> QED
    BY <1>5, <2>1, <2>2, Zenon
<1>7. UNCHANGED confirmed \/ confirmed' = [confirmed EXCEPT ![n] = Append(@, t)]
  BY Zenon DEF ProcessAck
<1>8. confirmed' \in [Nodes -> Seq(Txs)]
  <2> HIDE DEF t
  <2>1. Append(confirmed[n], t) \in Seq(Txs)
    BY <1>3 DEF TypeOK
  <2> QED
    BY <1>7, <2>1, Zenon DEF TypeOK
<1>9. proc' = [proc EXCEPT ![n].i = @ + 1] \/ applyTransaction(n, t)
  BY Zenon DEF ProcessAck
<1>10. proc' \in [Nodes -> {Idle} \cup Runs]
  <2>1. CASE proc' = [proc EXCEPT ![n].i = @ + 1]
    BY <2>1, <1>2, RunAdvances, Zenon DEF TypeOK
  <2>2. CASE applyTransaction(n, t)
    <3> HIDE DEF t
    <3> QED BY <2>2, <1>2, <1>3, ApplyTransactionType
  <2> QED
    BY <1>9, <2>1, <2>2
<1>11. \A m \in Nodes \ {n} : proc'[m] = proc[m] /\ confirmed'[m] = confirmed[m]
  BY <1>7, <1>9 DEF applyTransaction, TypeOK
<1>12. proc'[n] = Idle \/ (proc'[n].stage = "acks" /\ proc'[n].kept = 0)
  <2>1. CASE proc' = [proc EXCEPT ![n].i = @ + 1]
    BY <2>1, <1>1, <1>2 DEF TypeOK, Runs
  <2>2. CASE applyTransaction(n, t)
    BY <2>2, <1>1, <1>2 DEF TypeOK, Runs, applyTransaction
  <2> QED
    BY <1>9, <2>1, <2>2
<1>13. CompactionBehind'
  BY <1>11, <1>12 DEF CompactionBehind, Idle
<1> QED
  BY <1>4, <1>6, <1>8, <1>10, <1>13, Zenon DEF TypeOK

(* A step of the second loop keeps the types: its write into the confirmed  *)
(* list lands inside the list, because the write index is behind.           *)
LEMMA ProcessConfirmedType ==
    ASSUME TypeOK, CompactionBehind, NEW n \in Nodes, ProcessConfirmed(n)
    PROVE  TypeOK' /\ CompactionBehind'
<1> DEFINE p == proc[n]
           t == confirmed[n][p.i]
<1>1. p.stage = "confirmed" /\ p.i <= Len(confirmed[n])
  BY DEF ProcessConfirmed
<1>2. /\ p \in Runs /\ p.i \in Nat \ {0} /\ p.kept \in Nat /\ p.kept < p.i
      /\ confirmed[n] \in Seq(Txs)
  BY <1>1, RunTypes DEF CompactionBehind, TypeOK
<1>3. t \in Txs
  BY <1>1, <1>2
<1>4. UNCHANGED <<state, known, head, currentState, resetDue, work, sent>> /\ UNCHANGED ackVars
  BY DEF ProcessConfirmed, chainVars
<1>5. \/ /\ confirmed' = [confirmed EXCEPT ![n][p.kept + 1] = t]
         /\ proc' = [proc EXCEPT ![n].i = @ + 1, ![n].kept = @ + 1]
      \/ UNCHANGED confirmed /\ proc' = [proc EXCEPT ![n].i = @ + 1]
      \/ UNCHANGED confirmed /\ applyTransaction(n, t)
  BY DEF ProcessConfirmed
<1>6. [confirmed[n] EXCEPT ![p.kept + 1] = t] \in Seq(Txs)
  <2> HIDE DEF t
  <2>1. p.kept + 1 \in 1 .. Len(confirmed[n])
    BY <1>1, <1>2
  <2> QED
    BY <2>1, <1>2, <1>3, ExceptSeq
<1>7. confirmed' \in [Nodes -> Seq(Txs)] /\ Len(confirmed'[n]) = Len(confirmed[n])
  <2> HIDE DEF t
  <2>1. Len([confirmed[n] EXCEPT ![p.kept + 1] = t]) = Len(confirmed[n])
    <3>1. p.kept + 1 \in 1 .. Len(confirmed[n])
      BY <1>1, <1>2
    <3> QED
      BY <3>1, <1>2, <1>3, ExceptSeq
  <2> QED
    BY <1>5, <1>6, <2>1, ZenonT(30) DEF TypeOK
<1>8. proc' \in [Nodes -> {Idle} \cup Runs]
  <2>1. CASE proc' = [proc EXCEPT ![n].i = @ + 1]
    BY <2>1, <1>2, RunAdvances, Zenon DEF TypeOK
  <2>2. CASE applyTransaction(n, t)
    <3> HIDE DEF t
    <3> QED BY <2>2, <1>2, <1>3, ApplyTransactionType, Zenon
  <2>3. CASE proc' = [proc EXCEPT ![n].i = @ + 1, ![n].kept = @ + 1]
    <3>1. proc' = [proc EXCEPT ![n] = [p EXCEPT !.i = @ + 1, !.kept = @ + 1]]
      BY <2>3, Zenon DEF TypeOK
    <3> QED
      BY <3>1, <1>2, RunAdvances, Zenon DEF TypeOK
  <2> QED
    BY <1>5, <2>1, <2>2, <2>3
<1>9. \A m \in Nodes \ {n} : proc'[m] = proc[m] /\ confirmed'[m] = confirmed[m]
  BY <1>5 DEF applyTransaction, TypeOK
<1>10. \/ proc'[n] = Idle
       \/ proc'[n].stage = "confirmed" /\ proc'[n].i = p.i + 1 /\ proc'[n].kept \in {p.kept, p.kept + 1}
  <2>1. CASE proc' = [proc EXCEPT ![n].i = @ + 1]
    BY <2>1, <1>1, <1>2 DEF TypeOK, Runs
  <2>2. CASE applyTransaction(n, t)
    BY <2>2, <1>1, <1>2 DEF TypeOK, Runs, applyTransaction
  <2>3. CASE proc' = [proc EXCEPT ![n].i = @ + 1, ![n].kept = @ + 1]
    BY <2>3, <1>1, <1>2 DEF TypeOK, Runs
  <2> QED
    BY <1>5, <2>1, <2>2, <2>3
<1>11. CompactionBehind'
  <2>1. \A m \in Nodes \ {n} :
           /\ proc'[m].stage = "acks" => proc'[m].kept = 0
           /\ proc'[m].stage = "confirmed" =>
                 proc'[m].kept < proc'[m].i /\ proc'[m].i <= Len(confirmed'[m]) + 1
    BY <1>9 DEF CompactionBehind
  <2>2. proc'[n].stage = "confirmed" =>
           proc'[n].kept < proc'[n].i /\ proc'[n].i <= Len(confirmed'[n]) + 1
    <3>1. Len(confirmed[n]) \in Nat
      BY <1>2
    <3> QED
      BY <1>1, <1>2, <1>7, <1>10, <3>1 DEF Idle
  <2>3. proc'[n].stage # "acks"
    BY <1>10 DEF Idle
  <2> QED
    BY <2>1, <2>2, <2>3 DEF CompactionBehind
<1> QED
  BY <1>4, <1>7, <1>8, <1>11 DEF TypeOK, ackVars

(* Prefixes and suffixes of a list of transactions are such lists.           *)
LEMMA Slices ==
    ASSUME NEW S, NEW s \in Seq(S), NEW k \in 0 .. Len(s)
    PROVE  /\ SubSeq(s, 1, k) \in Seq(S) /\ SubSeq(s, k + 1, Len(s)) \in Seq(S)
           /\ Len(SubSeq(s, 1, k)) = k /\ Len(SubSeq(s, k + 1, Len(s))) = Len(s) - k
           /\ \A i \in 1 .. k : SubSeq(s, 1, k)[i] = s[i]
           /\ \A i \in 1 .. Len(s) - k : SubSeq(s, k + 1, Len(s))[i] = s[k + i]
OBVIOUS

(* The type invariant, with the bound on the compaction that it rests on, is *)
(* kept by every step.                                                        *)
LEMMA NextType ==
    ASSUME TypeOK, CompactionBehind, [Next]_vars
    PROVE  TypeOK' /\ CompactionBehind'
<1>1. CASE UNCHANGED vars
  BY <1>1 DEF vars, chainVars, ackVars, TypeOK, CompactionBehind
<1>2. CASE Next
  <2>1. PICK n \in Correct : NodeStep(n)
    BY <1>2 DEF Next
  <2>2. n \in Nodes
    BY DEF Correct
  <2>3. ASSUME NEW b \in Arriving(n), ProcessStart(n, b) PROVE TypeOK' /\ CompactionBehind'
    <3> DEFINE r == [stage |-> "acks", block |-> b, i |-> 1, kept |-> 0,
                     statedb |-> state[n], gas |-> BlockGas]
    <3>1. r \in Runs
      BY <2>2, ArrivingType, CascadeAssumption DEF Runs, TypeOK
    <3>2. proc' = [proc EXCEPT ![n] = r] /\ r.stage = "acks" /\ r.kept = 0
      BY <2>3 DEF ProcessStart
    <3> HIDE DEF r
    <3>3. proc' \in [Nodes -> {Idle} \cup Runs]
      BY <3>1, <3>2, Zenon DEF TypeOK
    <3>4. currentState' \in [Nodes -> States]
      BY <2>2, <2>3, Zenon DEF TypeOK, ProcessStart
    <3>5. UNCHANGED confirmed
      BY <2>3 DEF ProcessStart
    <3>6. CompactionBehind'
      BY <2>2, <3>2, <3>5 DEF TypeOK, CompactionBehind
    <3> QED
      BY <2>3, <3>3, <3>4, <3>6, Zenon DEF TypeOK, ProcessStart, chainVars, ackVars
  <2>4. CASE ProcessAcksDone(n)
    <3>1. proc[n] \in Runs /\ proc[n].kept = 0
      BY <2>2, <2>4, RunTypes DEF ProcessAcksDone, CompactionBehind
    <3> DEFINE r == [proc[n] EXCEPT !.stage = "confirmed", !.i = 1]
    <3>2. r \in Runs
      BY <3>1, RunAdvances, Zenon
    <3>3. r.stage = "confirmed" /\ r.i = 1 /\ r.kept = 0
      BY <3>1 DEF Runs
    <3>4. proc' = [proc EXCEPT ![n] = r]
      BY <2>4, Zenon DEF ProcessAcksDone, TypeOK
    <3> HIDE DEF r
    <3>5. proc' \in [Nodes -> {Idle} \cup Runs]
      BY <3>2, <3>4, Zenon DEF TypeOK
    <3>6. UNCHANGED confirmed /\ Len(confirmed[n]) \in Nat
      BY <2>2, <2>4 DEF ProcessAcksDone, TypeOK
    <3>7. CompactionBehind'
      BY <2>2, <3>3, <3>4, <3>6 DEF TypeOK, CompactionBehind
    <3> QED
      BY <2>4, <3>5, <3>7, Zenon DEF TypeOK, ProcessAcksDone, chainVars, ackVars
  <2>5. CASE ProcessDone(n)
    <3>1. /\ proc[n] \in Runs /\ proc[n].block \in Blocks /\ proc[n].statedb \in States
          /\ proc[n].kept \in 0 .. Len(confirmed[n]) /\ confirmed[n] \in Seq(Txs)
      <4>1. proc[n].stage = "confirmed" /\ confirmed[n] \in Seq(Txs)
        BY <2>2, <2>5 DEF ProcessDone, TypeOK
      <4>2. /\ proc[n] \in Runs /\ proc[n].block \in Blocks /\ proc[n].statedb \in States
            /\ proc[n].kept \in Nat /\ proc[n].i \in Nat
        BY <2>2, <4>1, RunTypes
      <4>3. proc[n].kept < proc[n].i /\ proc[n].i <= Len(confirmed[n]) + 1 /\ Len(confirmed[n]) \in Nat
        BY <2>2, <4>1 DEF CompactionBehind
      <4> QED
        BY <4>1, <4>2, <4>3
    <3>2. confirmed' \in [Nodes -> Seq(Txs)]
      <4>1. SubSeq(confirmed[n], 1, proc[n].kept) \in Seq(Txs)
        BY <3>1, Slices
      <4> QED
        BY <2>5, <4>1, Zenon DEF TypeOK, ProcessDone
    <3>3. state' \in [Nodes -> States] /\ known' \in [Nodes -> SUBSET Blocks]
      BY <2>5, <3>1, Zenon DEF TypeOK, ProcessDone
    <3>4. proc' \in [Nodes -> {Idle} \cup Runs]
      BY <2>5, Zenon DEF TypeOK, ProcessDone
    <3>5. proc'[n] = Idle /\ \A m \in Nodes \ {n} : proc'[m] = proc[m] /\ confirmed'[m] = confirmed[m]
      BY <2>2, <2>5 DEF TypeOK, ProcessDone
    <3>6. CompactionBehind'
      BY <3>5 DEF CompactionBehind, Idle
    <3> QED
      BY <2>5, <3>2, <3>3, <3>4, <3>6, Zenon DEF TypeOK, ProcessDone, ackVars
  <2>6. ASSUME NEW t \in Txs, NEW included \in BOOLEAN, ApplyTransaction(n, t, included)
        PROVE  TypeOK' /\ CompactionBehind'
    <3>1. addAck(n, t, n, TRUE)
      BY <2>6, Zenon DEF ApplyTransaction
    <3>2. /\ expectedAckNonce' \in [Nodes -> [Accounts -> Nat]]
          /\ ackWeight' \in [Nodes -> [Txs -> Nat]]
          /\ voted' \in [Nodes -> [Slots -> SUBSET Nodes]]
          /\ stakeReceived' \in [Nodes -> [Slots -> Nat]]
          /\ counted' \in [Nodes -> [Txs -> SUBSET Nodes]]
      BY <2>2, <3>1, AddAckType, Zenon
    <3>3. Append(confirmed[n], t) \in Seq(Txs) /\ Append(work[n], t) \in Seq(Txs)
      BY <2>2 DEF TypeOK
    <3>4. UNCHANGED confirmed \/ confirmed' = [confirmed EXCEPT ![n] = Append(@, t)]
      BY <2>6 DEF ApplyTransaction
    <3>5. UNCHANGED work \/ work' = [work EXCEPT ![n] = Append(@, t)]
      BY <2>6, Zenon DEF ApplyTransaction
    <3>6. confirmed' \in [Nodes -> Seq(Txs)] /\ work' \in [Nodes -> Seq(Txs)]
      BY <3>3, <3>4, <3>5, ZenonT(30) DEF TypeOK
    <3>7. /\ proc[n] = Idle /\ UNCHANGED proc
          /\ \A m \in Nodes \ {n} : confirmed'[m] = confirmed[m]
      BY <2>6, <3>4 DEF ApplyTransaction, TypeOK
    <3>8. CompactionBehind'
      BY <3>7 DEF CompactionBehind, Idle
    <3> QED
      BY <2>6, <3>2, <3>6, <3>7, <3>8, Zenon DEF TypeOK, ApplyTransaction, chainVars
  <2>7. ASSUME NEW k \in 0 .. Len(work[n]), NEW parent \in OwnPaths(n), NEW toss \in BOOLEAN,
               resultLoop(n, k, parent, toss)
        PROVE  TypeOK' /\ CompactionBehind'
    <3>1. work[n] \in Seq(Txs) /\ head \in [Nodes -> Path] /\ parent \in Path
      BY <2>2, OwnPathsType, Zenon DEF TypeOK
    <3> DEFINE txs == SubSeq(work[n], 1, k)
               rest == SubSeq(work[n], k + 1, Len(work[n]))
               b == [author |-> n, parent |-> parent, txs |-> txs]
    <3>2. txs \in Seq(Txs) /\ rest \in Seq(Txs)
      BY <3>1, Slices
    <3>3. b \in Blocks /\ PathOf(b) \in Path
      <4> HIDE DEF txs
      <4>1. Append(parent, txs) \in Seq(Seq(Txs))
        BY <3>1, <3>2 DEF Path
      <4> QED
        BY <2>2, <3>1, <3>2, <4>1 DEF Blocks, PathOf, Path
    <3>4. /\ known' = [known EXCEPT ![n] = @ \cup {b}]
          /\ head' = [head EXCEPT ![n] = PathOf(b)] \/ UNCHANGED head
          /\ resetDue' = [resetDue EXCEPT ![n] = TRUE] \/ UNCHANGED resetDue
          /\ sent' = sent \cup {b}
          /\ work' = [work EXCEPT ![n] = rest]
          /\ UNCHANGED <<state, currentState, ackVars, confirmed, proc>>
      BY <2>7, Zenon DEF resultLoop
    <3> HIDE DEF b, rest
    <3>5. head' \in [Nodes -> Path] /\ resetDue' \in [Nodes -> BOOLEAN]
      BY <3>1, <3>3, <3>4, Zenon DEF TypeOK
    <3>6. /\ known' \in [Nodes -> SUBSET Blocks] /\ sent' \subseteq Blocks
          /\ work' \in [Nodes -> Seq(Txs)]
      BY <3>2, <3>3, <3>4, Zenon DEF TypeOK
    <3> QED
      BY <3>4, <3>5, <3>6 DEF TypeOK, CompactionBehind, ackVars
  <2>8. ASSUME NEW k \in 1 .. Len(work[n]), interrupt(n, k) PROVE TypeOK' /\ CompactionBehind'
    <3>a. work[n] \in Seq(Txs)
      BY <2>2 DEF TypeOK
    <3>b. k \in 0 .. Len(work[n])
      BY <3>a
    <3>1. SubSeq(work[n], k + 1, Len(work[n])) \in Seq(Txs)
      BY <3>a, <3>b, Slices, Zenon
    <3> QED
      BY <2>8, <3>1, Zenon DEF interrupt, TypeOK, CompactionBehind, chainVars, ackVars
  <2>9. CASE reset(n)
    BY <2>2, <2>9, SMTT(30) DEF reset, TypeOK, CompactionBehind, chainVars, ackVars
  <2> QED
    BY <2>1, <2>2, <2>3, <2>4, <2>5, <2>6, <2>7, <2>8, <2>9, ProcessAckType, ProcessConfirmedType
       DEF NodeStep
<1> QED
  BY <1>1, <1>2

(* No compaction is under way at the start.                                 *)
LEMMA InitCompaction == Init => CompactionBehind
BY SMTT(40) DEF Init, CompactionBehind, Idle

(* Every variable of a node keeps its type in every reachable state: balances *)
(* and nonces stay natural numbers through both loops of Process, the pool's   *)
(* resets and rejected blocks.                                                *)
THEOREM TypeCorrect == Spec => []TypeOK
<1>1. Init => TypeOK /\ CompactionBehind
  BY InitType, InitCompaction
<1>2. TypeOK /\ CompactionBehind /\ [Next]_vars => (TypeOK /\ CompactionBehind)'
  BY NextType
<1> QED
  BY <1>1, <1>2, PTL DEF Spec

(* Process, which compacts the confirmed list while it reads it, never writes  *)
(* past the entry it is reading nor past the end of the list, however many     *)
(* entries the acks of the block before it have appended.                     *)
THEOREM CompactionStaysBehind == Spec => []CompactionBehind
<1>1. Init => TypeOK /\ CompactionBehind
  BY InitType, InitCompaction
<1>2. TypeOK /\ CompactionBehind /\ [Next]_vars => (TypeOK /\ CompactionBehind)'
  BY NextType
<1> QED
  BY <1>1, <1>2, PTL DEF Spec

-----------------------------------------------------------------------------
(* Stake adds up: a validator that was not counted adds its stake, and a     *)
(* smaller set has no more stake.                                             *)
LEMMA WeightAdd ==
    ASSUME NEW S \in SUBSET Nodes, NEW v \in Nodes, v \notin S
    PROVE  Weight[S \cup {v}] = Weight[S] + Stake(v)
<1>1. S \cap {v} = {} /\ {v} \in SUBSET Nodes
  OBVIOUS
<1>2. Weight[S \cup {v}] + Weight[{}] = Weight[S] + Weight[{v}]
  BY <1>1, WeightAssumption, Zenon
<1>3. Weight[S \cup {v}] \in Nat /\ Weight[S] \in Nat /\ Weight[{v}] \in Nat
  BY <1>1, WeightAssumption
<1>4. Weight[{}] = 0 /\ Weight[{v}] = Stake(v)
  BY WeightAssumption, Zenon DEF Stake
<1> QED
  BY <1>2, <1>3, <1>4

(* A set of validators has no less stake than any part of it.               *)
LEMMA WeightMonotone ==
    ASSUME NEW S \in SUBSET Nodes, NEW T \in SUBSET S
    PROVE  Weight[T] <= Weight[S]
<1>1. T \cup (S \ T) = S /\ T \cap (S \ T) = {} /\ T \in SUBSET Nodes /\ S \ T \in SUBSET Nodes
  OBVIOUS
<1>2. Weight[T \cup (S \ T)] + Weight[T \cap (S \ T)] = Weight[T] + Weight[S \ T]
  BY <1>1, WeightAssumption, Zenon
<1>3. Weight[S] \in Nat /\ Weight[T] \in Nat /\ Weight[S \ T] \in Nat
  BY <1>1, WeightAssumption
<1>4. Weight[{}] = 0
  BY WeightAssumption
<1>5. Weight[S] + Weight[{}] = Weight[T] + Weight[S \ T]
  BY <1>1, <1>2
<1> QED
  BY <1>3, <1>4, <1>5

(* addAck keeps the tallies of conflicting transactions disjoint.            *)
LEMMA AddAckTallies ==
    ASSUME TypeOK, TalliesExclusive, NEW n \in Nodes, NEW t \in Txs, NEW v \in Nodes,
           NEW isLocal \in BOOLEAN, addAck(n, t, v, isLocal)
    PROVE  TalliesExclusive'
<1>1. CASE v \in voted[n][Slot(t)]
  <2>1. UNCHANGED <<ackWeight, stakeReceived, voted, counted>>
    BY <1>1, Zenon DEF addAck
  <2> QED
    BY <2>1 DEF TalliesExclusive
<1>2. CASE v \notin voted[n][Slot(t)]
  <2>1. /\ ackWeight' = [ackWeight EXCEPT ![n][t] = @ + Stake(v)]
        /\ voted' = [voted EXCEPT ![n][Slot(t)] = @ \cup {v}]
        /\ counted' = [counted EXCEPT ![n][t] = @ \cup {v}]
    BY <1>2 DEF addAck
  <2>2. /\ \A m \in Nodes, u \in Txs : m # n \/ u # t =>
              ackWeight'[m][u] = ackWeight[m][u] /\ counted'[m][u] = counted[m][u]
        /\ ackWeight'[n][t] = ackWeight[n][t] + Stake(v)
        /\ counted'[n][t] = counted[n][t] \cup {v}
    BY <2>1, Zenon DEF TypeOK
  <2>3. /\ \A m \in Nodes, s \in Slots : voted[m][s] \subseteq voted'[m][s]
        /\ v \in voted'[n][Slot(t)]
    BY <2>1, TxFields, Zenon DEF TypeOK
  <2>4. \A u \in Txs : Slot(u) = Slot(t) => v \notin counted[n][u]
    BY <1>2, Zenon DEF TalliesExclusive
  <2>5. ackWeight'[n][t] = Weight[counted'[n][t]]
    <3>1. counted[n][t] \in SUBSET Nodes /\ v \notin counted[n][t]
      BY <2>4 DEF TypeOK
    <3>2. Weight[counted[n][t] \cup {v}] = Weight[counted[n][t]] + Stake(v)
      BY <3>1, WeightAdd
    <3>3. ackWeight[n][t] = Weight[counted[n][t]]
      BY Zenon DEF TalliesExclusive
    <3> QED
      BY <2>2, <3>2, <3>3
  <2>6. ASSUME NEW m \in Nodes, NEW u \in Txs
        PROVE  /\ ackWeight'[m][u] = Weight[counted'[m][u]]
               /\ counted'[m][u] \subseteq voted'[m][Slot(u)]
    <3>1. /\ ackWeight[m][u] = Weight[counted[m][u]]
          /\ counted[m][u] \subseteq voted[m][Slot(u)] /\ Slot(u) \in Slots
      BY TxFields, Zenon DEF TalliesExclusive
    <3>2. CASE m = n /\ u = t
      BY <2>2, <2>3, <2>5, <3>1, <3>2, Zenon
    <3>3. CASE m # n \/ u # t
      <4>1. ackWeight'[m][u] = ackWeight[m][u] /\ counted'[m][u] = counted[m][u]
        BY <2>2, <3>3, Zenon
      <4> QED
        BY <2>3, <3>1, <4>1
    <3> QED
      BY <3>2, <3>3
  <2>7. ASSUME NEW m \in Nodes, NEW u \in Txs, NEW w \in Txs, Conflict(u, w)
        PROVE  counted'[m][u] \cap counted'[m][w] = {}
    <3>1. counted[m][u] \cap counted[m][w] = {} /\ Slot(u) = Slot(w) /\ u # w
      BY <2>7 DEF TalliesExclusive, Conflict
    <3> QED
      BY <2>2, <2>4, <3>1
  <2> QED
    BY <2>6, <2>7, SMTT(30) DEF TalliesExclusive
<1> QED
  BY <1>1, <1>2, Zenon

(* How the tallies differ after an ack of v for t at n.                      *)
AckRecorded(n, t, v) ==
    /\ \A m \in Nodes, u \in Txs :
          /\ counted[m][u] \subseteq counted'[m][u]
          /\ m # n \/ u # t => counted'[m][u] = counted[m][u]
    /\ counted'[n][t] \subseteq counted[n][t] \cup {v}
    /\ v \notin voted[n][Slot(t)] => v \in counted'[n][t]
    /\ \A m \in Nodes, s \in Slots :
          /\ voted'[m][s] \subseteq voted[m][s] \cup {v}
          /\ m # n \/ s # Slot(t) => voted'[m][s] = voted[m][s]

(* addAck only ever adds to the tallies, and touches those of one node.      *)
LEMMA AddAckGrows ==
    ASSUME TypeOK, NEW n \in Nodes, NEW t \in Txs, NEW v \in Nodes,
           NEW isLocal \in BOOLEAN, addAck(n, t, v, isLocal)
    PROVE  AckRecorded(n, t, v)
<1>1. CASE v \in voted[n][Slot(t)]
  <2>1. UNCHANGED <<ackWeight, stakeReceived, voted, counted>>
    BY <1>1 DEF addAck
  <2> QED
    BY <1>1, <2>1 DEF AckRecorded
<1>2. CASE v \notin voted[n][Slot(t)]
  <2>1. /\ voted' = [voted EXCEPT ![n][Slot(t)] = @ \cup {v}]
        /\ counted' = [counted EXCEPT ![n][t] = @ \cup {v}]
    BY <1>2 DEF addAck
  <2>2. \A m \in Nodes, u \in Txs :
           counted'[m][u] = IF m = n /\ u = t THEN counted[m][u] \cup {v} ELSE counted[m][u]
    BY <2>1, Zenon DEF TypeOK
  <2>3. \A m \in Nodes, s \in Slots :
           voted'[m][s] = IF m = n /\ s = Slot(t) THEN voted[m][s] \cup {v} ELSE voted[m][s]
    BY <2>1, Zenon DEF TypeOK
  <2> QED
    BY <2>2, <2>3, Zenon DEF AckRecorded
<1> QED
  BY <1>1, <1>2, Zenon

(* A vote that shows up in a slot is the one just recorded.                  *)
LEMMA VoteRecorded ==
    ASSUME NEW n, NEW t, NEW v, AckRecorded(n, t, v), NEW m \in Nodes, NEW s \in Slots,
           m \in voted'[m][s]
    PROVE  /\ m \in voted[m][s] \cup {v}
           /\ m # n \/ s # Slot(t) => m \in voted[m][s]
BY DEF AckRecorded

(* A list that was backed stays so: acks are never taken back.               *)
LEMMA BackedStays ==
    ASSUME NEW v \in Nodes, NEW txs \in Seq(Txs), Backed(v, txs),
           \A m \in Nodes, u \in Txs : counted[m][u] \subseteq counted'[m][u]
    PROVE  v \in Correct => \A i \in DOMAIN txs : v \in counted'[v][txs[i]]
<1> SUFFICES ASSUME v \in Correct, NEW i \in DOMAIN txs PROVE v \in counted'[v][txs[i]]
  OBVIOUS
<1>1. txs[i] \in Txs
  OBVIOUS
<1> QED
  BY <1>1 DEF Backed

(* What recording one ack does to the invariant.  The ack is either of a      *)
(* validator that has counted itself, or the node's own, and then its first   *)
(* for the slot (validateAck).                                                *)
LEMMA AddAckBacked ==
    ASSUME TypeOK, AckInv, NEW n \in Correct, NEW t \in Txs, NEW v \in Nodes,
           NEW isLocal \in BOOLEAN, addAck(n, t, v, isLocal),
           v \in Correct /\ v # n => v \in counted[v][t],
           v = n => isLocal = TRUE /\ expectedAckNonce[n][t.from] = t.nonce,
           isLocal = TRUE => v = n
    PROVE  /\ TalliesExclusive' /\ OwnVotesPast'
           /\ \A m \in Nodes, u \in Txs : counted[m][u] \subseteq counted'[m][u]
           /\ \A m \in Nodes : \A u \in Txs : \A w \in counted'[m][u] \cap Correct : w \in counted'[w][u]
           /\ v = n => n \in counted'[n][t]
<1>0. n \in Nodes /\ Correct \subseteq Nodes
  BY DEF Correct
<1>1. TalliesExclusive'
  BY <1>0, AddAckTallies DEF AckInv
<1>2. AckRecorded(n, t, v)
  BY <1>0, AddAckGrows
<1>3. v = n => n \notin voted[n][Slot(t)]
  <2> SUFFICES ASSUME v = n, n \in voted[n][Slot(t)] PROVE FALSE
    OBVIOUS
  <2>1. t.nonce < expectedAckNonce[n][t.from] /\ t.nonce \in Nat
    BY TxFields DEF AckInv, OwnVotesPast
  <2> QED
    BY <2>1
<1>4. v \in Correct => v \in counted'[v][t]
  <2>1. CASE v = n
    BY <1>2, <1>3, <2>1, Zenon DEF AckRecorded
  <2>2. CASE v # n
    BY <1>2, <2>2, Zenon DEF AckRecorded
  <2> QED
    BY <2>1, <2>2, Zenon
<1>5. ASSUME NEW m \in Nodes, NEW u \in Txs, NEW w \in counted'[m][u] \cap Correct
      PROVE  w \in counted'[w][u]
  <2>1. CASE w \in counted[m][u]
    BY <1>0, <1>2, <2>1, Zenon DEF AckInv, AcksBacked, AckRecorded
  <2>2. CASE w \notin counted[m][u]
    BY <1>2, <1>4, <2>2 DEF AckRecorded
  <2> QED
    BY <2>1, <2>2, Zenon
<1>6. ASSUME NEW m \in Correct, NEW u \in Txs, m \in voted'[m][Slot(u)]
      PROVE  u.nonce < expectedAckNonce'[m][u.from]
  <2>1. u.nonce \in Nat /\ u.from \in Accounts /\ t.nonce \in Nat /\ t.from \in Accounts
        /\ Slot(u) \in Slots
    BY TxFields
  <2>a. /\ m \in voted[m][Slot(u)] \cup {v}
        /\ m # n \/ Slot(u) # Slot(t) => m \in voted[m][Slot(u)]
    <3>1. m \in Nodes
      BY <1>0
    <3> QED
      BY <1>2, <1>6, <2>1, <3>1, VoteRecorded, SMTT(30)
  <2>2. CASE isLocal = FALSE
    <3>1. UNCHANGED expectedAckNonce
      BY <2>2 DEF addAck
    <3>2. m \in voted[m][Slot(u)]
      <4>1. v # n
        BY <2>2
      <4> QED
        BY <2>a, <4>1
    <3> QED
      BY <3>1, <3>2 DEF AckInv, OwnVotesPast
  <2>3. CASE isLocal = TRUE
    <3>1. expectedAckNonce' = [expectedAckNonce EXCEPT ![n][t.from] = t.nonce + 1] /\ v = n
      BY <2>3, Zenon DEF addAck
    <3>2. expectedAckNonce[m][u.from] \in Nat /\ expectedAckNonce[n][t.from] = t.nonce
      BY <1>0, <2>1, <3>1, Zenon DEF TypeOK
    <3>3. CASE m \in voted[m][Slot(u)]
      <4>1. u.nonce < expectedAckNonce[m][u.from]
        BY <3>3 DEF AckInv, OwnVotesPast
      <4>2. expectedAckNonce'[m][u.from] =
               IF m = n /\ u.from = t.from THEN t.nonce + 1 ELSE expectedAckNonce[m][u.from]
        BY <1>0, <2>1, <3>1, Zenon DEF TypeOK
      <4> QED
        BY <2>1, <3>2, <4>1, <4>2
    <3>4. CASE m \notin voted[m][Slot(u)]
      <4>1. m = n /\ Slot(u) = Slot(t)
        BY <2>a, <3>4
      <4>2. u.from = t.from /\ u.nonce = t.nonce
        BY <4>1 DEF Slot
      <4> QED
        BY <1>0, <2>1, <3>1, <4>1, <4>2 DEF TypeOK
    <3> QED
      BY <3>3, <3>4
  <2> QED
    BY <2>2, <2>3, Zenon
<1> QED
  BY <1>1, <1>2, <1>3, <1>5, <1>6 DEF OwnVotesPast, AckRecorded

(* A step that records no ack keeps the invariant if what it puts into open   *)
(* blocks, broadcasts and Process was backed.                                 *)
LEMMA QuietStep ==
    ASSUME AckInv, UNCHANGED ackVars,
           \A n \in Nodes : Backed(n, work'[n]),
           \A b \in sent' : b \in known'[b.author] /\ Backed(b.author, b.txs),
           \A n \in Correct : proc'[n] # Idle =>
              proc'[n].block.author # n /\ Backed(proc'[n].block.author, proc'[n].block.txs)
    PROVE  AckInv'
<1>1. UNCHANGED <<expectedAckNonce, ackWeight, voted, counted>>
  BY DEF ackVars
<1>2. TalliesExclusive' /\ OwnVotesPast'
  BY <1>1, Zenon DEF AckInv, TalliesExclusive, OwnVotesPast
<1>3. AcksBacked'
  BY <1>1, Zenon DEF AckInv, AcksBacked, Backed
<1> QED
  BY <1>2, <1>3 DEF AckInv

(* Steps of Process never change the block in progress, they only end it.     *)
LEMMA ProcessAckInv ==
    ASSUME TypeOK, CompactionBehind, AckInv, NEW n \in Correct, ProcessAck(n)
    PROVE  AckInv'
<1> DEFINE p == proc[n]
           t == p.block.txs[p.i]
           v == p.block.author
<1>0. n \in Nodes /\ Correct \subseteq Nodes
  BY Zenon DEF Correct
<1>1. p.stage = "acks" /\ p.i <= Len(p.block.txs)
  BY Zenon DEF ProcessAck
<1>2. p \in Runs /\ p # Idle /\ v \in Nodes /\ p.block.txs \in Seq(Txs) /\ p.i \in Nat \ {0}
  BY <1>0, <1>1, RunTypes, Zenon
<1>3. t \in Txs /\ p.i \in DOMAIN p.block.txs
  BY <1>1, <1>2
<1>4. v # n /\ Backed(v, p.block.txs)
  BY <1>2 DEF AckInv, AcksBacked
<1>5. proc' = [proc EXCEPT ![n].i = @ + 1] \/ applyTransaction(n, t)
  BY Zenon DEF ProcessAck
<1>6. \A m \in Nodes : proc'[m] # Idle => proc[m] # Idle /\ proc'[m].block = proc[m].block
  <2>1. CASE proc' = [proc EXCEPT ![n].i = @ + 1]
    BY <2>1, <1>0, <1>2, Zenon DEF TypeOK, Runs
  <2>2. CASE applyTransaction(n, t)
    BY <2>2, <1>0, <1>2, Zenon DEF TypeOK, Runs, applyTransaction
  <2> QED
    BY <1>5, <2>1, <2>2
<1>7. UNCHANGED <<known, work, sent>>
  BY Zenon DEF ProcessAck, chainVars
<1>8. CASE UNCHANGED ackVars
  <2>1. \A m \in Correct : proc'[m] # Idle =>
           proc'[m].block.author # m /\ Backed(proc'[m].block.author, proc'[m].block.txs)
    BY <1>0, <1>6 DEF AckInv, AcksBacked
  <2>2. /\ \A m \in Nodes : Backed(m, work'[m])
        /\ \A b \in sent' : b \in known'[b.author] /\ Backed(b.author, b.txs)
    BY <1>7, Zenon DEF AckInv, AcksBacked
  <2> QED
    BY <1>8, <2>1, <2>2, QuietStep, Zenon
<1>9. CASE addAck(n, t, v, FALSE)
  <2>1. v \in Correct => v \in counted[v][t]
    BY <1>3, <1>4, Zenon DEF Backed
  <2>2. /\ TalliesExclusive' /\ OwnVotesPast'
        /\ \A m \in Nodes, u \in Txs : counted[m][u] \subseteq counted'[m][u]
        /\ \A m \in Nodes : \A u \in Txs : \A w \in counted'[m][u] \cap Correct : w \in counted'[w][u]
    <3> HIDE DEF t, v
    <3> QED
      BY <1>2, <1>3, <1>4, <1>9, <2>1, AddAckBacked, Zenon
  <2>3. \A m \in Nodes : Backed(m, work[m])'
    <3> SUFFICES ASSUME NEW m \in Nodes PROVE Backed(m, work[m])'
      BY SMTT(30)
    <3>1. Backed(m, work[m]) /\ work[m] \in Seq(Txs)
      BY Zenon DEF AckInv, AcksBacked, TypeOK
    <3> QED
      BY <1>7, <2>2, <3>1, BackedStays DEF Backed
  <2>4. \A b \in sent' : b \in known'[b.author] /\ Backed(b.author, b.txs)'
    <3> SUFFICES ASSUME NEW b \in sent PROVE b \in known[b.author] /\ Backed(b.author, b.txs)'
      BY <1>7, Zenon
    <3>1. b \in known[b.author] /\ Backed(b.author, b.txs) /\ b.author \in Nodes /\ b.txs \in Seq(Txs)
      BY Zenon DEF AckInv, AcksBacked, TypeOK, Blocks
    <3> QED
      BY <2>2, <3>1, BackedStays, Zenon DEF Backed
  <2>5. ASSUME NEW m \in Correct, proc'[m] # Idle
        PROVE  proc'[m].block.author # m /\ Backed(proc[m].block.author, proc[m].block.txs)'
    <3>1. /\ proc[m] # Idle /\ proc'[m].block = proc[m].block
          /\ proc[m].block.author \in Nodes /\ proc[m].block.txs \in Seq(Txs)
      BY <1>0, <1>6, <2>5, RunTypes
    <3>2. proc[m].block.author # m /\ Backed(proc[m].block.author, proc[m].block.txs)
      BY <3>1, ZenonT(40) DEF AckInv, AcksBacked
    <3> QED
      BY <2>2, <3>1, <3>2, BackedStays, Zenon DEF Backed
  <2> QED
    BY <2>2, <2>3, <2>4, <2>5, Zenon DEF AckInv, AcksBacked
<1> QED
  BY <1>8, <1>9, Zenon DEF ProcessAck

(* The node's own ack: validateAck admits it once per slot, so the            *)
(* transaction that goes into its open block is one it has counted.           *)
LEMMA OwnAckInv ==
    ASSUME TypeOK, AckInv, NEW n \in Correct, NEW t \in Txs, NEW included \in BOOLEAN,
           ApplyTransaction(n, t, included)
    PROVE  AckInv'
<1>0. n \in Nodes /\ Correct \subseteq Nodes
  BY DEF Correct
<1>1. addAck(n, t, n, TRUE) /\ UNCHANGED <<known, proc, sent>>
  BY Zenon DEF ApplyTransaction, chainVars
<1>2. expectedAckNonce[n][t.from] = t.nonce
  BY DEF ApplyTransaction, validateAck
<1>3. /\ TalliesExclusive' /\ OwnVotesPast'
      /\ \A m \in Nodes, u \in Txs : counted[m][u] \subseteq counted'[m][u]
      /\ \A m \in Nodes : \A u \in Txs : \A w \in counted'[m][u] \cap Correct : w \in counted'[w][u]
      /\ n \in counted'[n][t]
  BY <1>0, <1>1, <1>2, AddAckBacked, Zenon
<1>4. work' = work \/ work' = [work EXCEPT ![n] = Append(@, t)]
  BY Zenon DEF ApplyTransaction
<1>5. ASSUME NEW m \in Nodes PROVE Backed(m, work[m])'
  <2>1. Backed(m, work[m]) /\ work[m] \in Seq(Txs)
    BY Zenon DEF AckInv, AcksBacked, TypeOK
  <2>2. m \in Correct => \A i \in DOMAIN work[m] : m \in counted'[m][work[m][i]]
    BY <1>3, <2>1, BackedStays, Zenon
  <2>3. work'[m] = work[m] \/ (m = n /\ work'[m] = Append(work[m], t))
    BY <1>4, Zenon DEF TypeOK
  <2>4. m \in Correct => \A i \in DOMAIN work'[m] : m \in counted'[m][work'[m][i]]
    <3>1. CASE work'[m] = work[m]
      BY <2>2, <3>1, Zenon
    <3>2. CASE m = n /\ work'[m] = Append(work[m], t)
      <4> SUFFICES ASSUME m \in Correct, NEW i \in DOMAIN work'[m] PROVE m \in counted'[m][work'[m][i]]
        OBVIOUS
      <4>1. (i \in DOMAIN work[m] /\ work'[m][i] = work[m][i]) \/ work'[m][i] = t
        BY <2>1, <3>2, SMTT(30)
      <4> QED
        BY <1>3, <2>2, <3>2, <4>1, Zenon
    <3> QED
      BY <2>3, <3>1, <3>2, Zenon
  <2> QED
    BY <2>4, SMTT(30) DEF Backed
<1>6. \A b \in sent' : b \in known'[b.author] /\ Backed(b.author, b.txs)'
  <2> SUFFICES ASSUME NEW b \in sent PROVE b \in known[b.author] /\ Backed(b.author, b.txs)'
    BY <1>1, Zenon
  <2>1. b \in known[b.author] /\ Backed(b.author, b.txs) /\ b.author \in Nodes /\ b.txs \in Seq(Txs)
    BY ZenonT(40) DEF AckInv, AcksBacked, TypeOK, Blocks
  <2> QED
    BY <1>3, <2>1, BackedStays DEF Backed
<1>7. ASSUME NEW m \in Correct, proc[m] # Idle
      PROVE  proc[m].block.author # m /\ Backed(proc[m].block.author, proc[m].block.txs)'
  <2>1. proc[m].block.author \in Nodes /\ proc[m].block.txs \in Seq(Txs)
    BY <1>0, <1>7, RunTypes, Zenon
  <2>2. proc[m].block.author # m /\ Backed(proc[m].block.author, proc[m].block.txs)
    BY <1>7 DEF AckInv, AcksBacked
  <2> QED
    BY <1>1, <1>3, <2>1, <2>2, BackedStays, Zenon DEF Backed
<1> QED
  BY <1>1, <1>3, <1>5, <1>6, <1>7, Zenon DEF AckInv, AcksBacked

(* Sealing a prefix of the open acks, or dropping it, leaves a backed suffix. *)
LEMMA BackedSlices ==
    ASSUME NEW v \in Nodes, NEW txs \in Seq(Txs), Backed(v, txs), NEW k \in 0 .. Len(txs)
    PROVE  Backed(v, SubSeq(txs, 1, k)) /\ Backed(v, SubSeq(txs, k + 1, Len(txs)))
<1>1. DOMAIN SubSeq(txs, 1, k) = 1 .. k /\ DOMAIN SubSeq(txs, k + 1, Len(txs)) = 1 .. Len(txs) - k
  BY Slices
<1>2. \A i \in 1 .. k : SubSeq(txs, 1, k)[i] = txs[i] /\ i \in DOMAIN txs
  BY Slices
<1>3. \A i \in 1 .. Len(txs) - k : SubSeq(txs, k + 1, Len(txs))[i] = txs[k + i] /\ k + i \in DOMAIN txs
  BY Slices
<1> QED
  BY <1>1, <1>2, <1>3, Zenon DEF Backed

(* A block that arrives is another's, and backed.                             *)
LEMMA ArrivingBacked ==
    ASSUME TypeOK, AckInv, NEW n \in Correct, NEW b \in Arriving(n), b \notin known[n]
    PROVE  b.author # n /\ Backed(b.author, b.txs)
<1>1. CASE b \in sent
  BY <1>1 DEF AckInv, AcksBacked
<1>2. CASE b \in FaultyBlocks(n)
  <2>1. b.author \in Faulty
    <3>1. PICK v \in Faulty, parent \in {<<>>} \cup {PathOf(q) : q \in known[n]}, txs \in FaultyBodies :
             b = [author |-> v, parent |-> parent, txs |-> txs]
      BY <1>2 DEF FaultyBlocks
    <3> QED
      BY <3>1, Zenon
  <2> QED
    BY <2>1, Zenon DEF Correct, Backed
<1> QED
  BY <1>1, <1>2, Zenon DEF Arriving

(* The invariant behind agreement is kept by every step of every correct    *)
(* node.                                                                    *)
LEMMA NextAckInv ==
    ASSUME TypeOK, CompactionBehind, AckInv, [Next]_vars
    PROVE  AckInv'
<1> USE DEF chainVars
<1>0. /\ \A m \in Nodes : Backed(m, work[m])
      /\ \A b \in sent : b \in known[b.author] /\ Backed(b.author, b.txs)
      /\ \A m \in Correct : proc[m] # Idle =>
            proc[m].block.author # m /\ Backed(proc[m].block.author, proc[m].block.txs)
  BY Zenon DEF AckInv, AcksBacked
<1>1. CASE UNCHANGED vars
  BY <1>0, <1>1, QuietStep, Zenon DEF vars
<1>2. CASE Next
  <2>1. PICK n \in Correct : NodeStep(n)
    BY <1>2 DEF Next
  <2>2. n \in Nodes /\ Correct \subseteq Nodes
    BY Zenon DEF Correct
  <2>3. ASSUME NEW b \in Arriving(n), ProcessStart(n, b) PROVE AckInv'
    <3>1. b.author # n /\ Backed(b.author, b.txs)
      BY <2>3, ArrivingBacked DEF ProcessStart
    <3>2. /\ \A m \in Nodes \ {n} : proc'[m] = proc[m]
          /\ proc'[n].block = b
      BY <2>2, <2>3, Zenon DEF ProcessStart, TypeOK
    <3>3. \A m \in Correct : proc'[m] # Idle =>
             proc'[m].block.author # m /\ Backed(proc'[m].block.author, proc'[m].block.txs)
      BY <1>0, <2>2, <3>1, <3>2, Zenon
    <3>4. UNCHANGED <<ackVars, known, work, sent>>
      BY <2>3, Zenon DEF ProcessStart
    <3> QED
      BY <1>0, <3>3, <3>4, QuietStep, Zenon
  <2>4. CASE ProcessAcksDone(n)
    <3>1. proc[n] \in Runs /\ proc[n] # Idle
      BY <2>2, <2>4, RunTypes DEF ProcessAcksDone
    <3>2. \A m \in Nodes : proc'[m].block = proc[m].block /\ (m # n => proc'[m] = proc[m])
      BY <2>2, <2>4, <3>1, Zenon DEF ProcessAcksDone, TypeOK, Runs
    <3>3. \A m \in Correct : proc'[m] # Idle =>
             proc'[m].block.author # m /\ Backed(proc'[m].block.author, proc'[m].block.txs)
      BY <1>0, <2>2, <3>1, <3>2
    <3>4. UNCHANGED <<ackVars, known, work, sent>>
      BY <2>4, Zenon DEF ProcessAcksDone
    <3> QED
      BY <1>0, <3>3, <3>4, QuietStep
  <2>5. CASE ProcessConfirmed(n)
    <3> DEFINE t == confirmed[n][proc[n].i]
    <3>1. proc[n] \in Runs /\ proc[n] # Idle
      BY <2>2, <2>5, RunTypes, Zenon DEF ProcessConfirmed
    <3>2. \/ proc' = [proc EXCEPT ![n].i = @ + 1, ![n].kept = @ + 1]
          \/ proc' = [proc EXCEPT ![n].i = @ + 1]
          \/ applyTransaction(n, t)
      BY <2>5 DEF ProcessConfirmed
    <3>3. \A m \in Nodes : proc'[m] # Idle => proc[m] # Idle /\ proc'[m].block = proc[m].block
      <4>1. CASE applyTransaction(n, t)
        BY <2>2, <3>1, <4>1 DEF applyTransaction, TypeOK, Runs
      <4>2. CASE proc' = [proc EXCEPT ![n].i = @ + 1]
        BY <2>2, <3>1, <4>2 DEF TypeOK, Runs
      <4>3. CASE proc' = [proc EXCEPT ![n].i = @ + 1, ![n].kept = @ + 1]
        BY <2>2, <3>1, <4>3, Zenon DEF TypeOK, Runs
      <4> QED
        BY <3>2, <4>1, <4>2, <4>3
    <3>4. \A m \in Correct : proc'[m] # Idle =>
             proc'[m].block.author # m /\ Backed(proc'[m].block.author, proc'[m].block.txs)
      BY <1>0, <2>2, <3>3, Zenon
    <3>5. UNCHANGED <<ackVars, known, work, sent>>
      BY <2>5, Zenon DEF ProcessConfirmed
    <3> QED
      BY <1>0, <3>4, <3>5, QuietStep
  <2>6. CASE ProcessDone(n)
    <3>1. proc'[n] = Idle /\ \A m \in Nodes \ {n} : proc'[m] = proc[m]
      BY <2>2, <2>6, Zenon DEF ProcessDone, TypeOK
    <3>2. \A m \in Correct : proc'[m] # Idle =>
             proc'[m].block.author # m /\ Backed(proc'[m].block.author, proc'[m].block.txs)
      BY <1>0, <2>2, <3>1, Zenon
    <3>3. UNCHANGED <<ackVars, work, sent>> /\ \A m \in Nodes : known[m] \subseteq known'[m]
      BY <2>6, Zenon DEF ProcessDone, TypeOK
    <3>4. \A b \in sent : b.author \in Nodes
      BY DEF TypeOK, Blocks
    <3>5. \A b \in sent' : b \in known'[b.author] /\ Backed(b.author, b.txs)
      BY <1>0, <3>3, <3>4, ZenonT(40)
    <3> QED
      BY <1>0, <3>2, <3>3, <3>5, QuietStep, Zenon
  <2>7. ASSUME NEW k \in 0 .. Len(work[n]), NEW parent \in OwnPaths(n), NEW toss \in BOOLEAN,
               resultLoop(n, k, parent, toss)
        PROVE  AckInv'
    <3> DEFINE b == [author |-> n, parent |-> parent, txs |-> SubSeq(work[n], 1, k)]
    <3>1. /\ known' = [known EXCEPT ![n] = @ \cup {b}] /\ sent' = sent \cup {b}
          /\ work' = [work EXCEPT ![n] = SubSeq(@, k + 1, Len(@))]
          /\ UNCHANGED <<ackVars, proc>>
      BY <2>7, Zenon DEF resultLoop
    <3>2. Backed(n, SubSeq(work[n], 1, k)) /\ Backed(n, SubSeq(work[n], k + 1, Len(work[n])))
      BY <1>0, <2>2, BackedSlices, Zenon DEF TypeOK
    <3>3. \A m \in Nodes : Backed(m, work'[m])
      BY <1>0, <3>1, <3>2, Zenon DEF TypeOK
    <3>4. \A m \in Nodes : known[m] \subseteq known'[m]
      BY <3>1, ZenonT(40) DEF TypeOK
    <3>5. b \in known'[n] /\ b.author = n /\ b.txs = SubSeq(work[n], 1, k)
      BY <2>2, <3>1, Zenon DEF TypeOK
    <3>6. \A d \in sent : d.author \in Nodes
      BY DEF TypeOK, Blocks
    <3>7. \A d \in sent' : d \in known'[d.author] /\ Backed(d.author, d.txs)
      <4> HIDE DEF b
      <4> QED
        BY <1>0, <3>1, <3>2, <3>4, <3>5, <3>6, Zenon
    <3> QED
      BY <1>0, <3>1, <3>3, <3>7, QuietStep, Zenon
  <2>8. ASSUME NEW k \in 1 .. Len(work[n]), interrupt(n, k) PROVE AckInv'
    <3>a. work[n] \in Seq(Txs) /\ Backed(n, work[n])
      BY <1>0, <2>2, Zenon DEF TypeOK, AckInv, AcksBacked
    <3>b. k \in 0 .. Len(work[n])
      BY <3>a
    <3>1. Backed(n, SubSeq(work[n], k + 1, Len(work[n])))
      BY <2>2, <3>a, <3>b, BackedSlices, ZenonT(40)
    <3>2. \A m \in Nodes : Backed(m, work'[m])
      BY <1>0, <2>8, <3>1, Zenon DEF interrupt, TypeOK
    <3>3. UNCHANGED <<ackVars, known, proc, sent>>
      BY <2>8, Zenon DEF interrupt
    <3> QED
      BY <1>0, <3>2, <3>3, QuietStep, SMTT(30)
  <2>9. CASE reset(n)
    <3>1. UNCHANGED <<ackVars, known, proc, work, sent>>
      BY <2>9, Zenon DEF reset
    <3> QED
      BY <1>0, <3>1, QuietStep, Zenon
  <2> QED
    BY <2>1, <2>3, <2>4, <2>5, <2>6, <2>7, <2>8, <2>9, ProcessAckInv, OwnAckInv, Zenon DEF NodeStep
<1> QED
  BY <1>1, <1>2, Zenon

(* Before any ack is counted the invariant behind agreement holds.          *)
LEMMA InitAckInv == Init => AckInv
<1> SUFFICES ASSUME Init PROVE AckInv
  OBVIOUS
<1>1. TalliesExclusive
  BY TxFields, WeightAssumption, Zenon DEF Init, TalliesExclusive
<1>2. AcksBacked
  <2>1. \A n \in Nodes : \A t \in Txs : counted[n][t] = {}
    BY DEF Init
  <2>2. sent = {} /\ \A n \in Correct : proc[n] = Idle
    BY DEF Init, Correct
  <2>3. \A n \in Nodes : work[n] = <<>> /\ DOMAIN work[n] = {}
    BY DEF Init
  <2>4. \A n \in Nodes : Backed(n, work[n])
    BY <2>3, Zenon DEF Backed
  <2> QED
    BY <2>1, <2>2, <2>4, Zenon DEF AcksBacked
<1>3. OwnVotesPast
  BY TxFields, Zenon DEF Init, OwnVotesPast, Correct
<1> QED
  BY <1>1, <1>2, <1>3, Zenon DEF AckInv

(* Two quorums for conflicting transactions would share only faulty signers,  *)
(* and those have too little stake.                                           *)
LEMMA QuorumsMeet ==
    ASSUME TypeOK, AckInv, FaultBound
    PROVE  Agreement
<1> SUFFICES ASSUME NEW m \in Correct, NEW n \in Correct, NEW t \in Txs, NEW u \in Txs,
                    Conflict(t, u), Confirmed(m, t), Confirmed(n, u)
             PROVE  FALSE
  BY Zenon DEF Agreement
<1> DEFINE A == counted[m][t]
           B == counted[n][u]
<1>1. m \in Nodes /\ n \in Nodes /\ Faulty \in SUBSET Nodes /\ A \in SUBSET Nodes /\ B \in SUBSET Nodes
  BY CascadeAssumption, SMTT(30) DEF Correct, TypeOK
<1>2. A \cap B \subseteq Faulty
  <2> SUFFICES ASSUME NEW v \in A \cap B, v \in Correct PROVE FALSE
    BY <1>1, Zenon DEF Correct
  <2>1. v \in counted[v][t] /\ v \in counted[v][u] /\ v \in Nodes
    BY <1>1, Zenon DEF AckInv, AcksBacked, Correct
  <2> QED
    BY <2>1, Zenon DEF AckInv, TalliesExclusive
<1>3. Weight[A] > QuorumStake /\ Weight[B] > QuorumStake
  BY <1>1, Zenon DEF Confirmed, AckInv, TalliesExclusive
<1> HIDE DEF A, B
<1>4. Weight[A \cup B] + Weight[A \cap B] = Weight[A] + Weight[B]
  BY <1>1, WeightAssumption, Zenon
<1>5. A \cup B \in SUBSET Nodes /\ A \cap B \in SUBSET Nodes /\ A \cap B \in SUBSET Faulty /\ Nodes \in SUBSET Nodes
  BY <1>1, <1>2, Zenon
<1>6. Weight[A \cup B] <= Weight[Nodes] /\ Weight[A \cap B] <= Weight[Faulty]
  BY <1>1, <1>5, WeightMonotone, Zenon
<1>7. /\ Weight[A] \in Nat /\ Weight[B] \in Nat /\ Weight[A \cup B] \in Nat /\ Weight[A \cap B] \in Nat
      /\ Weight[Faulty] \in Nat /\ Weight[Nodes] \in Nat /\ TotalStake \in Nat /\ QuorumStake \in Int
      /\ Weight[Nodes] <= TotalStake
  BY <1>1, <1>5, WeightAssumption, CascadeAssumption DEF QuorumStake
<1> QED
  BY <1>3, <1>4, <1>6, <1>7 DEF FaultBound

(* No double spend: as long as the faulty signers hold less stake than two    *)
(* quorums share, no two correct nodes ever confirm conflicting transactions, *)
(* for any set of validators, any stakes, any interleaving of imports, mining, *)
(* resets and lost blocks.  addAck counts a validator once per slot, and       *)
(* validateAck lets a node ack a slot once.                                    *)
THEOREM NoDoubleSpend ==
    ASSUME FaultBound
    PROVE  Spec => []Agreement
<1>1. Init => TypeOK /\ CompactionBehind /\ AckInv
  BY InitType, InitCompaction, InitAckInv
<1>2. TypeOK /\ CompactionBehind /\ AckInv /\ [Next]_vars => (TypeOK /\ CompactionBehind /\ AckInv)'
  BY NextType, NextAckInv
<1>3. TypeOK /\ AckInv => Agreement
  BY QuorumsMeet, Zenon
<1> QED
  BY <1>1, <1>2, <1>3, PTL DEF Spec

-----------------------------------------------------------------------------
(* A quorum, once there, stays; and the ack that confirms makes one.         *)
LEMMA QuorumStays ==
    ASSUME TypeOK, NEW n \in Nodes, NEW t \in Txs, NEW v \in Nodes, NEW isLocal \in BOOLEAN,
           addAck(n, t, v, isLocal)
    PROVE  /\ \A m \in Nodes, u \in Txs : Confirmed(m, u) => Confirmed(m, u)'
           /\ addAckConfirms(n, t, v) => Confirmed(n, t)'
<1>1. QuorumStake \in Int /\ Stake(v) \in Nat /\ ackWeight \in [Nodes -> [Txs -> Nat]]
  BY StakeType, CascadeAssumption DEF QuorumStake, TypeOK
<1>2. CASE v \in voted[n][Slot(t)]
  <2>1. UNCHANGED <<ackWeight, stakeReceived, voted, counted>>
    BY <1>2 DEF addAck
  <2> QED
    BY <1>2, <2>1, Zenon DEF Confirmed, addAckConfirms
<1>3. CASE v \notin voted[n][Slot(t)]
  <2>1. ackWeight' = [ackWeight EXCEPT ![n][t] = @ + Stake(v)]
    BY <1>3 DEF addAck
  <2>2. \A m \in Nodes, u \in Txs :
           ackWeight'[m][u] = IF m = n /\ u = t THEN ackWeight[m][u] + Stake(v) ELSE ackWeight[m][u]
    BY <1>1, <2>1
  <2>3. \A m \in Nodes, u \in Txs : ackWeight[m][u] \in Nat
    BY <1>1
  <2> HIDE DEF QuorumStake, Stake
  <2> QED
    BY <1>1, <2>2, <2>3, SMTT(30) DEF Confirmed, addAckConfirms
<1> QED
  BY <1>2, <1>3, Zenon

(* A state stays backed while quorums stay, and after applying a confirmed    *)
(* transaction: only the slot it names is consumed.                           *)
LEMMA StateStays ==
    ASSUME NEW n, NEW s, StateBacked(n, s), \A u \in Txs : Confirmed(n, u) => Confirmed(n, u)'
    PROVE  StateBacked(n, s)'
BY Zenon DEF StateBacked

(* Applying a confirmed transaction consumes only the slot it names.        *)
LEMMA AppliedBacked ==
    ASSUME NEW n, NEW s \in States, NEW t \in Txs, Applicable(s, t), StateBacked(n, s)', Confirmed(n, t)'
    PROVE  StateBacked(n, Apply(s, t))'
<1>1. t.from \in Accounts /\ t.nonce \in Nat
  BY TxFields
<1>2. s.nonce \in [Accounts -> Nat] /\ s.nonce[t.from] = t.nonce
  BY DEF States, Applicable
<1>3. Apply(s, t).nonce = [s.nonce EXCEPT ![t.from] = t.nonce + 1]
  BY Zenon DEF Apply
<1>4. ASSUME NEW x \in Accounts, NEW k \in 0 .. Apply(s, t).nonce[x] - 1
      PROVE  \E u \in Txs : Slot(u) = <<x, k>> /\ Confirmed(n, u)'
  <2>1. CASE k \in 0 .. s.nonce[x] - 1
    BY <2>1, Zenon DEF StateBacked
  <2>2. CASE k \notin 0 .. s.nonce[x] - 1
    <3>1. x = t.from /\ k = t.nonce
      <4>1. Apply(s, t).nonce[x] = IF x = t.from THEN t.nonce + 1 ELSE s.nonce[x]
        BY <1>2, <1>3, Zenon
      <4> HIDE DEF Apply
      <4> QED
        BY <1>1, <1>2, <1>4, <2>2, <4>1, SMTT(30)
    <3> QED
      BY <3>1, Zenon DEF Slot
  <2> QED
    BY <2>1, <2>2, Zenon
<1> QED
  BY <1>4, Zenon DEF StateBacked

(* What a step may do to the confirmed lists and the states: keep, drop and   *)
(* move entries, add one with a quorum, apply one with a quorum.               *)
LEMMA ExecutionStep ==
    ASSUME TypeOK, ExecutionBacked,
           \A m \in Nodes, u \in Txs : Confirmed(m, u) => Confirmed(m, u)',
           \A m \in Nodes : \A i \in DOMAIN confirmed'[m] :
              \/ \E j \in DOMAIN confirmed[m] : confirmed'[m][i] = confirmed[m][j]
              \/ Confirmed(m, confirmed[m][i])',
           \A m \in Nodes :
              state'[m] = state[m] \/ (proc[m] # Idle /\ state'[m] = proc[m].statedb),
           \A m \in Nodes : proc'[m] # Idle =>
              \/ proc'[m].statedb = state[m]
              \/ proc[m] # Idle /\ proc'[m].statedb = proc[m].statedb
              \/ /\ proc[m] # Idle
                 /\ \E t \in Txs : /\ Applicable(proc[m].statedb, t) /\ Confirmed(m, t)'
                                   /\ proc'[m].statedb = Apply(proc[m].statedb, t)
    PROVE  ExecutionBacked'
<1> SUFFICES ASSUME NEW m \in Nodes
             PROVE  /\ \A i \in DOMAIN confirmed'[m] : Confirmed(m, confirmed[m][i])'
                    /\ StateBacked(m, state[m])'
                    /\ proc'[m] # Idle => StateBacked(m, proc[m].statedb)'
  BY ZenonT(40) DEF ExecutionBacked
<1>a. \A i \in DOMAIN confirmed[m] : confirmed[m][i] \in Txs
  <2>1. confirmed[m] \in Seq(Txs)
    BY Zenon DEF TypeOK
  <2> QED
    BY <2>1, SMTT(30)
<1>b. /\ \A i \in DOMAIN confirmed[m] : Confirmed(m, confirmed[m][i])
      /\ StateBacked(m, state[m])
      /\ proc[m] # Idle => StateBacked(m, proc[m].statedb)
  BY Zenon DEF ExecutionBacked
<1>1. /\ \A i \in DOMAIN confirmed[m] : Confirmed(m, confirmed[m][i]) /\ confirmed[m][i] \in Txs
      /\ StateBacked(m, state[m])
      /\ proc[m] # Idle => StateBacked(m, proc[m].statedb)
  BY <1>a, <1>b, Zenon
<1>2. \A i \in DOMAIN confirmed'[m] : Confirmed(m, confirmed[m][i])'
  BY <1>1, Zenon DEF Confirmed
<1>3. \A s : StateBacked(m, s) => \A x \in Accounts : \A k \in 0 .. s.nonce[x] - 1 :
                \E t \in Txs : Slot(t) = <<x, k>> /\ Confirmed(m, t)'
  BY StateStays, Zenon DEF StateBacked
<1>4. StateBacked(m, state[m])'
  BY <1>1, <1>3, Zenon DEF StateBacked
<1>5. ASSUME proc'[m] # Idle PROVE StateBacked(m, proc[m].statedb)'
  <2>1. CASE proc'[m].statedb = state[m]
    BY <1>1, <1>3, <2>1, Zenon DEF StateBacked
  <2>2. CASE proc[m] # Idle /\ proc'[m].statedb = proc[m].statedb
    BY <1>1, <1>3, <2>2, Zenon DEF StateBacked
  <2>3. ASSUME proc[m] # Idle, NEW t \in Txs, Applicable(proc[m].statedb, t), Confirmed(m, t)',
               proc'[m].statedb = Apply(proc[m].statedb, t)
        PROVE  StateBacked(m, proc[m].statedb)'
    <3>1. PICK s \in States : s = proc[m].statedb
      BY <2>3, RunTypes, Zenon
    <3>2. StateBacked(m, s)'
      BY <1>1, <1>3, <2>3, <3>1, Zenon DEF StateBacked
    <3>3. StateBacked(m, Apply(s, t))'
      BY <2>3, <3>1, <3>2, AppliedBacked, ZenonT(40)
    <3> QED
      BY <2>3, <3>1, <3>3, Zenon DEF StateBacked
  <2> QED
    BY <1>5, <2>1, <2>2, <2>3, Zenon
<1> QED
  BY <1>2, <1>4, <1>5, Zenon

(* applyTransaction in Process either drops the state or adds to it.          *)
LEMMA AppliedInProcess ==
    ASSUME TypeOK, NEW n \in Nodes, NEW t \in Txs, proc[n] \in Runs, applyTransaction(n, t),
           Confirmed(n, t)'
    PROVE  \A m \in Nodes : proc'[m] # Idle =>
              \/ proc[m] # Idle /\ proc'[m].statedb = proc[m].statedb
              \/ /\ proc[m] # Idle
                 /\ \E u \in Txs : /\ Applicable(proc[m].statedb, u) /\ Confirmed(m, u)'
                                   /\ proc'[m].statedb = Apply(proc[m].statedb, u)
<1>1. proc[n] # Idle
  BY DEF Runs, Idle
<1>2. \A m \in Nodes \ {n} : proc'[m] = proc[m]
  BY DEF applyTransaction, TypeOK
<1>3. \/ proc'[n] = Idle
      \/ Applicable(proc[n].statedb, t) /\ proc'[n].statedb = Apply(proc[n].statedb, t)
  BY Zenon DEF applyTransaction, TypeOK, Runs
<1> QED
  BY <1>1, <1>2, <1>3, Zenon

(* The first loop of Process: an ack may confirm its transaction, which is    *)
(* then applied or queued.                                                    *)
LEMMA ProcessAckBacked ==
    ASSUME TypeOK, ExecutionBacked, NEW n \in Nodes, ProcessAck(n)
    PROVE  ExecutionBacked'
<1> DEFINE p == proc[n]
<1>1. p.stage = "acks" /\ p.i <= Len(p.block.txs)
  BY DEF ProcessAck
<1>2. p \in Runs /\ p # Idle /\ p.block.author \in Nodes /\ p.block.txs \in Seq(Txs) /\ p.i \in Nat \ {0}
  BY <1>1, RunTypes, Zenon
<1>3. PICK t \in Txs, v \in Nodes : t = p.block.txs[p.i] /\ v = p.block.author
  BY <1>1, <1>2
<1>4. UNCHANGED state
  BY Zenon DEF ProcessAck, chainVars
<1>5. \/ /\ UNCHANGED <<ackVars, confirmed>>
         /\ proc' = [proc EXCEPT ![n].i = @ + 1]
      \/ /\ addAck(n, t, v, FALSE)
         /\ proc' = [proc EXCEPT ![n].i = @ + 1]
         /\ UNCHANGED confirmed
      \/ /\ addAck(n, t, v, FALSE) /\ addAckConfirms(n, t, v)
         /\ confirmed' = [confirmed EXCEPT ![n] = Append(@, t)]
         /\ proc' = [proc EXCEPT ![n].i = @ + 1]
      \/ /\ addAck(n, t, v, FALSE) /\ addAckConfirms(n, t, v)
         /\ applyTransaction(n, t)
         /\ UNCHANGED confirmed
  BY <1>3, Zenon DEF ProcessAck
<1>6. /\ \A m \in Nodes, u \in Txs : Confirmed(m, u) => Confirmed(m, u)'
      /\ addAck(n, t, v, FALSE) /\ addAckConfirms(n, t, v) => Confirmed(n, t)'
  <2>1. CASE UNCHANGED ackVars /\ ~addAck(n, t, v, FALSE)
    BY <2>1, Zenon DEF ackVars, Confirmed
  <2>2. CASE addAck(n, t, v, FALSE)
    BY <1>2, <1>3, <2>2, QuorumStays, Zenon
  <2> QED
    BY <1>5, <2>1, <2>2, Zenon
<1>7. ASSUME NEW m \in Nodes, NEW i \in DOMAIN confirmed'[m]
      PROVE  \/ \E j \in DOMAIN confirmed[m] : confirmed'[m][i] = confirmed[m][j]
             \/ Confirmed(m, confirmed[m][i])'
  <2>1. CASE confirmed'[m] = confirmed[m]
    BY <2>1, Zenon
  <2>2. CASE m = n /\ confirmed'[m] = Append(confirmed[m], t) /\ Confirmed(n, t)'
    <3>1. confirmed[m] \in Seq(Txs)
      BY Zenon DEF TypeOK
    <3>2. (i \in DOMAIN confirmed[m] /\ confirmed'[m][i] = confirmed[m][i]) \/ confirmed'[m][i] = t
      BY <1>3, <2>2, <3>1, SMTT(30)
    <3> QED
      BY <2>2, <3>2 DEF Confirmed
  <2> QED
    BY <1>5, <1>6, <2>1, <2>2, Zenon DEF TypeOK
<1>8. \A m \in Nodes : proc'[m] # Idle =>
         \/ proc'[m].statedb = state[m]
         \/ proc[m] # Idle /\ proc'[m].statedb = proc[m].statedb
         \/ /\ proc[m] # Idle
            /\ \E u \in Txs : /\ Applicable(proc[m].statedb, u) /\ Confirmed(m, u)'
                              /\ proc'[m].statedb = Apply(proc[m].statedb, u)
  <2>1. CASE proc' = [proc EXCEPT ![n].i = @ + 1]
    BY <1>2, <2>1, Zenon DEF TypeOK, Runs
  <2>2. CASE applyTransaction(n, t) /\ Confirmed(n, t)'
    BY <1>2, <1>3, <2>2, AppliedInProcess, Zenon
  <2> QED
    BY <1>5, <1>6, <2>1, <2>2, Zenon
<1> QED
  BY <1>4, <1>6, <1>7, <1>8, ExecutionStep, Zenon

(* The second loop: entries move towards the front, or are applied.           *)
LEMMA ProcessConfirmedBacked ==
    ASSUME TypeOK, CompactionBehind, ExecutionBacked, NEW n \in Nodes, ProcessConfirmed(n)
    PROVE  ExecutionBacked'
<1> DEFINE p == proc[n]
           t == confirmed[n][p.i]
<1>1. p.stage = "confirmed" /\ p.i <= Len(confirmed[n])
  BY Zenon DEF ProcessConfirmed
<1>2. /\ p \in Runs /\ p # Idle /\ p.i \in Nat \ {0} /\ p.kept \in Nat /\ p.kept < p.i
      /\ confirmed[n] \in Seq(Txs)
  BY <1>1, RunTypes, ZenonT(40) DEF CompactionBehind, TypeOK
<1>3. t \in Txs /\ p.i \in DOMAIN confirmed[n] /\ Confirmed(n, t)
  <2>1. p.i \in 1 .. Len(confirmed[n])
    BY <1>1, <1>2
  <2>2. p.i \in DOMAIN confirmed[n] /\ t \in Txs
    BY <1>2, <2>1
  <2> QED
    BY <2>2, Zenon DEF ExecutionBacked
<1>4. UNCHANGED <<state, ackWeight>>
  BY DEF ProcessConfirmed, chainVars, ackVars
<1>5. \/ /\ confirmed' = [confirmed EXCEPT ![n][p.kept + 1] = t]
         /\ proc' = [proc EXCEPT ![n].i = @ + 1, ![n].kept = @ + 1]
      \/ UNCHANGED confirmed /\ proc' = [proc EXCEPT ![n].i = @ + 1]
      \/ UNCHANGED confirmed /\ applyTransaction(n, t)
  BY Zenon DEF ProcessConfirmed
<1>6. /\ \A m \in Nodes, u \in Txs : Confirmed(m, u) => Confirmed(m, u)'
      /\ \A u \in Txs : Confirmed(n, u) => Confirmed(n, u)'
  BY <1>4 DEF Confirmed
<1>7. ASSUME NEW m \in Nodes, NEW i \in DOMAIN confirmed'[m]
      PROVE  \E j \in DOMAIN confirmed[m] : confirmed'[m][i] = confirmed[m][j]
  <2>1. CASE confirmed'[m] = confirmed[m]
    BY <2>1, Zenon
  <2>2. CASE m = n /\ confirmed'[m] = [confirmed[m] EXCEPT ![p.kept + 1] = t]
    <3>1. i \in DOMAIN confirmed[m] /\ (confirmed'[m][i] = confirmed[m][i] \/ confirmed'[m][i] = t)
      BY <1>2, <2>2
    <3> QED
      BY <1>3, <2>2, <3>1, Zenon
  <2> QED
    BY <1>5, <2>1, <2>2, Zenon DEF TypeOK
<1> HIDE DEF t
<1>8. \A m \in Nodes : proc'[m] # Idle =>
         \/ proc'[m].statedb = state[m]
         \/ proc[m] # Idle /\ proc'[m].statedb = proc[m].statedb
         \/ /\ proc[m] # Idle
            /\ \E u \in Txs : /\ Applicable(proc[m].statedb, u) /\ Confirmed(m, u)'
                              /\ proc'[m].statedb = Apply(proc[m].statedb, u)
  <2>1. CASE proc' = [proc EXCEPT ![n].i = @ + 1]
    BY <1>2, <2>1 DEF TypeOK, Runs
  <2>2. CASE proc' = [proc EXCEPT ![n].i = @ + 1, ![n].kept = @ + 1]
    BY <1>2, <2>2, Zenon DEF TypeOK, Runs
  <2>3. CASE applyTransaction(n, t)
    BY <1>2, <1>3, <1>6, <2>3, AppliedInProcess, ZenonT(40)
  <2> QED
    BY <1>5, <2>1, <2>2, <2>3, Zenon
<1> QED
  BY <1>4, <1>6, <1>7, <1>8, ExecutionStep, Zenon

(* Steps that change neither the tallies nor the state a block runs on.       *)
LEMMA ExecutionQuiet ==
    ASSUME TypeOK, ExecutionBacked, UNCHANGED <<ackWeight, state>>,
           \A m \in Nodes : \A i \in DOMAIN confirmed'[m] :
              \E j \in DOMAIN confirmed[m] : confirmed'[m][i] = confirmed[m][j],
           \A m \in Nodes : proc'[m] # Idle =>
              \/ proc'[m].statedb = state[m]
              \/ proc[m] # Idle /\ proc'[m].statedb = proc[m].statedb
    PROVE  ExecutionBacked'
<1>1. \A m \in Nodes, u \in Txs : Confirmed(m, u) => Confirmed(m, u)'
  BY SMTT(30) DEF Confirmed
<1> QED
  BY <1>1, ExecutionStep, Zenon

(* Every step keeps the confirmed lists and the executed states backed by   *)
(* quorums.                                                                 *)
LEMMA NextExecution ==
    ASSUME TypeOK, CompactionBehind, ExecutionBacked, [Next]_vars
    PROVE  ExecutionBacked'
<1> USE DEF chainVars, ackVars
<1>1. CASE UNCHANGED vars
  BY <1>1, ExecutionQuiet, Zenon DEF vars
<1>2. CASE Next
  <2>1. PICK n \in Correct : NodeStep(n)
    BY <1>2 DEF Next
  <2>2. n \in Nodes
    BY Zenon DEF Correct
  <2>3. ASSUME NEW b \in Arriving(n), ProcessStart(n, b) PROVE ExecutionBacked'
    <3>1. proc'[n].statedb = state[n] /\ \A m \in Nodes \ {n} : proc'[m] = proc[m]
      BY <2>2, <2>3, Zenon DEF ProcessStart, TypeOK
    <3>2. UNCHANGED <<ackWeight, state, confirmed>>
      BY <2>3, Zenon DEF ProcessStart
    <3> QED
      BY <3>1, <3>2, ExecutionQuiet, Zenon
  <2>4. CASE ProcessAcksDone(n)
    <3>1. proc[n] \in Runs /\ proc[n] # Idle
      BY <2>2, <2>4, RunTypes DEF ProcessAcksDone
    <3>2. proc'[n].statedb = proc[n].statedb /\ \A m \in Nodes \ {n} : proc'[m] = proc[m]
      BY <2>2, <2>4, <3>1 DEF ProcessAcksDone, TypeOK, Runs
    <3>3. UNCHANGED <<ackWeight, state, confirmed>>
      BY <2>4, Zenon DEF ProcessAcksDone
    <3> QED
      BY <3>1, <3>2, <3>3, ExecutionQuiet, Zenon
  <2>5. CASE ProcessDone(n)
    <3>1. /\ proc[n].stage = "confirmed" /\ confirmed[n] \in Seq(Txs) /\ Len(confirmed[n]) \in Nat
          /\ confirmed' = [confirmed EXCEPT ![n] = SubSeq(@, 1, proc[n].kept)]
          /\ state' = [state EXCEPT ![n] = proc[n].statedb]
          /\ proc' = [proc EXCEPT ![n] = Idle]
          /\ UNCHANGED ackWeight
      BY <2>2, <2>5 DEF ProcessDone, TypeOK
    <3>2. proc[n] # Idle /\ proc[n].kept \in Nat /\ proc[n].i \in Nat
      BY <2>2, <3>1, RunTypes, Zenon
    <3>3. proc[n].kept < proc[n].i /\ proc[n].i <= Len(confirmed[n]) + 1
      BY <2>2, <3>1, Zenon DEF CompactionBehind
    <3>4. proc[n].kept \in 0 .. Len(confirmed[n])
      BY <3>1, <3>2, <3>3
    <3>5. \A m \in Nodes : \A i \in DOMAIN confirmed'[m] :
             \E j \in DOMAIN confirmed[m] : confirmed'[m][i] = confirmed[m][j]
      <4> SUFFICES ASSUME NEW m \in Nodes, NEW i \in DOMAIN confirmed'[m]
                   PROVE  i \in DOMAIN confirmed[m] /\ confirmed'[m][i] = confirmed[m][i]
        OBVIOUS
      <4>1. CASE m # n
        BY <3>1, <4>1, Zenon DEF TypeOK
      <4>2. CASE m = n
        <5>1. confirmed'[n] = SubSeq(confirmed[n], 1, proc[n].kept)
          BY <2>2, <3>1, Zenon DEF TypeOK
        <5>2. /\ DOMAIN SubSeq(confirmed[n], 1, proc[n].kept) = 1 .. proc[n].kept
              /\ \A q \in 1 .. proc[n].kept : SubSeq(confirmed[n], 1, proc[n].kept)[q] = confirmed[n][q]
          BY <3>1, <3>4, Slices, SMTT(40)
        <5>3. 1 .. proc[n].kept \subseteq DOMAIN confirmed[n]
          BY <3>1, <3>4
        <5> QED
          BY <4>2, <5>1, <5>2, <5>3, Zenon
      <4> QED
        BY <4>1, <4>2, Zenon
    <3>6. \A m \in Nodes : state'[m] = state[m] \/ (proc[m] # Idle /\ state'[m] = proc[m].statedb)
      BY <3>1, <3>2 DEF TypeOK
    <3>7. \A m \in Nodes : proc'[m] # Idle => proc[m] # Idle /\ proc'[m].statedb = proc[m].statedb
      BY <2>2, <3>1, Zenon DEF TypeOK
    <3>8. \A m \in Nodes, u \in Txs : Confirmed(m, u) => Confirmed(m, u)'
      BY <3>1, Zenon DEF Confirmed
    <3> QED
      BY <3>5, <3>6, <3>7, <3>8, ExecutionStep, Zenon
  <2>6. ASSUME NEW t \in Txs, NEW included \in BOOLEAN, ApplyTransaction(n, t, included)
        PROVE  ExecutionBacked'
    <3>1. addAck(n, t, n, TRUE) /\ UNCHANGED <<state, proc>>
      BY <2>6, Zenon DEF ApplyTransaction
    <3>2. \/ UNCHANGED confirmed
          \/ addAckConfirms(n, t, n) /\ confirmed' = [confirmed EXCEPT ![n] = Append(@, t)]
      BY <2>6 DEF ApplyTransaction
    <3>3. /\ \A m \in Nodes, u \in Txs : Confirmed(m, u) => Confirmed(m, u)'
          /\ addAckConfirms(n, t, n) => Confirmed(n, t)'
      BY <2>2, <3>1, QuorumStays, Zenon
    <3>4. ASSUME NEW m \in Nodes, NEW i \in DOMAIN confirmed'[m]
          PROVE  \/ \E j \in DOMAIN confirmed[m] : confirmed'[m][i] = confirmed[m][j]
                 \/ Confirmed(m, confirmed[m][i])'
      <4>1. CASE confirmed'[m] = confirmed[m]
        BY <4>1, Zenon
      <4>2. CASE m = n /\ confirmed'[m] = Append(confirmed[m], t) /\ Confirmed(n, t)'
        <5>1. confirmed[m] \in Seq(Txs)
          BY Zenon DEF TypeOK
        <5>2. (i \in DOMAIN confirmed[m] /\ confirmed'[m][i] = confirmed[m][i]) \/ confirmed'[m][i] = t
          BY <4>2, <5>1, SMTT(30)
        <5> QED
          BY <4>2, <5>2, Zenon DEF Confirmed
      <4> QED
        BY <3>2, <3>3, <4>1, <4>2, Zenon DEF TypeOK
    <3> QED
      BY <3>1, <3>3, <3>4, ExecutionStep, Zenon
  <2>7. ASSUME NEW k, NEW parent, NEW toss, resultLoop(n, k, parent, toss) \/ interrupt(n, k)
        PROVE  ExecutionBacked'
    <3>1. UNCHANGED <<ackWeight, state, confirmed, proc>>
      BY <2>7, Zenon DEF resultLoop, interrupt
    <3> QED
      BY <3>1, ExecutionQuiet
  <2>8. CASE reset(n)
    <3>1. UNCHANGED <<ackWeight, state, confirmed, proc>>
      BY <2>8, Zenon DEF reset
    <3> QED
      BY <3>1, ExecutionQuiet
  <2> QED
    BY <2>1, <2>2, <2>3, <2>4, <2>5, <2>6, <2>7, <2>8, ProcessAckBacked, ProcessConfirmedBacked, Zenon
       DEF NodeStep
<1> QED
  BY <1>1, <1>2, Zenon

(* At genesis no nonce is used and nothing is confirmed.                    *)
LEMMA InitExecution == Init => ExecutionBacked
<1> SUFFICES ASSUME Init, NEW n \in Nodes
             PROVE  /\ \A i \in DOMAIN confirmed[n] : Confirmed(n, confirmed[n][i])
                    /\ StateBacked(n, state[n])
                    /\ proc[n] = Idle
  BY Zenon DEF ExecutionBacked
<1>1. confirmed[n] = <<>> /\ DOMAIN confirmed[n] = {} /\ proc[n] = Idle
  BY DEF Init
<1>2. state[n] = Genesis /\ \A x \in Accounts : Genesis.nonce[x] = 0
  BY Zenon DEF Init, Genesis
<1>3. StateBacked(n, state[n])
  BY <1>2 DEF StateBacked
<1> QED
  BY <1>1, <1>3, Zenon

-----------------------------------------------------------------------------
(* The state a block is executed on never falls behind the node's own: while *)
(* Process runs nothing else moves the state (insertChain holds the mutex).   *)
RunAhead ==
    \A n \in Nodes : proc[n] # Idle =>
        \A x \in Accounts : state[n].nonce[x] <= proc[n].statedb.nonce[x]

(* The inductive invariant behind the refinement.                            *)
SettleInv == TypeOK /\ CompactionBehind /\ AckInv /\ ExecutionBacked /\ RunAhead

-----------------------------------------------------------------------------
(* What a step may do to the state a block runs on: keep it, start from the   *)
(* node's own, apply a transaction to it.                                     *)
LEMMA RunAheadStep ==
    ASSUME TypeOK, RunAhead,
           \A m \in Nodes : proc'[m] # Idle =>
              /\ state'[m] = state[m]
              /\ \/ proc'[m].statedb = state[m]
                 \/ proc[m] # Idle /\ proc'[m].statedb = proc[m].statedb
                 \/ /\ proc[m] # Idle
                    /\ \E t \in Txs : /\ Applicable(proc[m].statedb, t)
                                      /\ proc'[m].statedb = Apply(proc[m].statedb, t)
    PROVE  RunAhead'
<1> SUFFICES ASSUME NEW m \in Nodes, proc'[m] # Idle, NEW x \in Accounts
             PROVE  state'[m].nonce[x] <= proc'[m].statedb.nonce[x]
  BY Zenon DEF RunAhead
<1>1. state'[m] = state[m] /\ state[m] \in States
  BY Zenon DEF TypeOK
<1>2. state[m].nonce[x] \in Nat
  BY <1>1, Zenon DEF States
<1>3. CASE proc'[m].statedb = state[m]
  BY <1>1, <1>2, <1>3
<1>4. CASE proc[m] # Idle /\ proc'[m].statedb = proc[m].statedb
  BY <1>1, <1>4, Zenon DEF RunAhead
<1>5. ASSUME proc[m] # Idle, NEW t \in Txs, Applicable(proc[m].statedb, t),
             proc'[m].statedb = Apply(proc[m].statedb, t)
      PROVE  state'[m].nonce[x] <= proc'[m].statedb.nonce[x]
  <2>1. PICK s \in States : s = proc[m].statedb
    BY <1>5, RunTypes, Zenon
  <2>2. s.nonce \in [Accounts -> Nat] /\ s.nonce[t.from] = t.nonce /\ t.nonce \in Nat /\ t.from \in Accounts
    BY <1>5, <2>1, TxFields, Zenon DEF States, Applicable
  <2>3. proc'[m].statedb.nonce = [s.nonce EXCEPT ![t.from] = t.nonce + 1]
    BY <1>5, <2>1, SMTT(30) DEF Apply
  <2>4. s.nonce[x] <= proc'[m].statedb.nonce[x] /\ proc'[m].statedb.nonce[x] \in Nat
    BY <2>2, <2>3, SMTT(30)
  <2>5. state[m].nonce[x] <= s.nonce[x] /\ s.nonce[x] \in Nat
    BY <1>5, <2>1, <2>2, Zenon DEF RunAhead
  <2> QED
    BY <1>1, <1>2, <2>4, <2>5, SMTT(30)
<1> QED
  BY <1>3, <1>4, <1>5, Zenon

(* applyTransaction in Process either drops the state or adds to it.          *)
LEMMA AppliedAhead ==
    ASSUME TypeOK, NEW n \in Nodes, NEW t \in Txs, proc[n] \in Runs, proc[n] # Idle,
           applyTransaction(n, t), NEW m \in Nodes, proc'[m] # Idle
    PROVE  /\ proc[m] # Idle
           /\ \/ proc'[m].statedb = proc[m].statedb
              \/ \E u \in Txs : /\ Applicable(proc[m].statedb, u)
                                /\ proc'[m].statedb = Apply(proc[m].statedb, u)
<1>1. m # n => proc'[m] = proc[m]
  BY DEF applyTransaction, TypeOK
<1>2. \/ proc'[n] = Idle
      \/ Applicable(proc[n].statedb, t) /\ proc'[n].statedb = Apply(proc[n].statedb, t)
  BY Zenon DEF applyTransaction, TypeOK, Runs
<1> QED
  BY <1>1, <1>2

(* Every step of a node keeps the state of a running block ahead.             *)
LEMMA NextRunAhead ==
    ASSUME TypeOK, RunAhead, [Next]_vars
    PROVE  RunAhead'
<1> USE DEF chainVars
<1>0. ASSUME UNCHANGED <<state, proc>> PROVE RunAhead'
  BY <1>0 DEF RunAhead
<1>1. CASE UNCHANGED vars
  BY <1>0, <1>1, Zenon DEF vars
<1>2. CASE Next
  <2>1. PICK n \in Correct : NodeStep(n)
    BY <1>2 DEF Next
  <2>2. n \in Nodes
    BY Zenon DEF Correct
  <2>3. ASSUME NEW b \in Arriving(n), ProcessStart(n, b) PROVE RunAhead'
    <3>1. proc'[n].statedb = state[n] /\ \A m \in Nodes \ {n} : proc'[m] = proc[m]
      BY <2>2, <2>3, Zenon DEF ProcessStart, TypeOK
    <3>2. UNCHANGED state
      BY <2>3, Zenon DEF ProcessStart
    <3> QED
      BY <3>1, <3>2, RunAheadStep, Zenon
  <2>4. CASE ProcessAck(n)
    <3>1. proc[n] \in Runs /\ proc[n] # Idle /\ proc[n].stage = "acks" /\ proc[n].i <= Len(proc[n].block.txs)
          /\ proc[n].block.txs \in Seq(Txs) /\ proc[n].i \in Nat \ {0}
      BY <2>2, <2>4, RunTypes, Zenon DEF ProcessAck
    <3>2. PICK t \in Txs : t = proc[n].block.txs[proc[n].i]
      BY <3>1
    <3>3. UNCHANGED state /\ (proc' = [proc EXCEPT ![n].i = @ + 1] \/ applyTransaction(n, t))
      BY <2>4, <3>2, Zenon DEF ProcessAck
    <3>4. CASE proc' = [proc EXCEPT ![n].i = @ + 1]
      <4>1. \A m \in Nodes : proc'[m] # Idle => proc[m] # Idle /\ proc'[m].statedb = proc[m].statedb
        BY <2>2, <3>1, <3>4, Zenon DEF TypeOK, Runs
      <4> QED
        BY <3>3, <4>1, RunAheadStep, Zenon
    <3>5. CASE applyTransaction(n, t)
      BY <2>2, <3>1, <3>3, <3>5, AppliedAhead, RunAheadStep, Zenon
    <3> QED
      BY <3>3, <3>4, <3>5, Zenon
  <2>5. CASE ProcessConfirmed(n)
    <3>1. proc[n] \in Runs /\ proc[n] # Idle /\ proc[n].stage = "confirmed" /\ proc[n].i <= Len(confirmed[n])
          /\ confirmed[n] \in Seq(Txs) /\ proc[n].i \in Nat \ {0}
      BY <2>2, <2>5, RunTypes, Zenon DEF ProcessConfirmed, TypeOK
    <3>2. PICK t \in Txs : t = confirmed[n][proc[n].i]
      BY <3>1
    <3>3. /\ UNCHANGED state
          /\ \/ proc' = [proc EXCEPT ![n].i = @ + 1, ![n].kept = @ + 1]
             \/ proc' = [proc EXCEPT ![n].i = @ + 1]
             \/ applyTransaction(n, t)
      BY <2>5, <3>2, Zenon DEF ProcessConfirmed
    <3>4. CASE proc' = [proc EXCEPT ![n].i = @ + 1]
      <4>1. \A m \in Nodes : proc'[m] # Idle => proc[m] # Idle /\ proc'[m].statedb = proc[m].statedb
        BY <2>2, <3>1, <3>4, Zenon DEF TypeOK, Runs
      <4> QED
        BY <3>3, <4>1, RunAheadStep, Zenon
    <3>5. CASE proc' = [proc EXCEPT ![n].i = @ + 1, ![n].kept = @ + 1]
      <4>1. \A m \in Nodes : proc'[m] # Idle => proc[m] # Idle /\ proc'[m].statedb = proc[m].statedb
        BY <2>2, <3>1, <3>5, Zenon DEF TypeOK, Runs
      <4> QED
        BY <3>3, <4>1, RunAheadStep, Zenon
    <3>6. CASE applyTransaction(n, t)
      BY <2>2, <3>1, <3>3, <3>6, AppliedAhead, RunAheadStep, Zenon
    <3> QED
      BY <3>3, <3>4, <3>5, <3>6, Zenon
  <2>6. CASE ProcessAcksDone(n)
    <3>1. proc[n] \in Runs /\ proc[n] # Idle
      BY <2>2, <2>6, RunTypes, Zenon DEF ProcessAcksDone
    <3>2. proc'[n].statedb = proc[n].statedb /\ \A m \in Nodes \ {n} : proc'[m] = proc[m]
      BY <2>2, <2>6, <3>1, Zenon DEF ProcessAcksDone, TypeOK, Runs
    <3>3. UNCHANGED state
      BY <2>6, Zenon DEF ProcessAcksDone
    <3> QED
      BY <3>1, <3>2, <3>3, RunAheadStep, Zenon
  <2>7. CASE ProcessDone(n)
    <3>1. \A m \in Nodes : proc'[m] # Idle => proc'[m] = proc[m] /\ state'[m] = state[m]
      BY <2>2, <2>7 DEF ProcessDone, TypeOK
    <3> QED
      BY <3>1, Zenon DEF RunAhead
  <2>8. ASSUME NEW t \in Txs, NEW included \in BOOLEAN, ApplyTransaction(n, t, included)
        PROVE  RunAhead'
    BY <1>0, <2>8, Zenon DEF ApplyTransaction
  <2>9. ASSUME NEW k, NEW parent, NEW toss, resultLoop(n, k, parent, toss) \/ interrupt(n, k)
        PROVE  RunAhead'
    BY <1>0, <2>9, Zenon DEF resultLoop, interrupt
  <2>10. CASE reset(n)
    BY <1>0, <2>10, Zenon DEF reset
  <2> QED
    BY <2>1, <2>3, <2>4, <2>5, <2>6, <2>7, <2>8, <2>9, <2>10, Zenon DEF NodeStep
<1> QED
  BY <1>1, <1>2, Zenon

-----------------------------------------------------------------------------
(* addAck moves one tally of one node: the quorums there were stay, and only  *)
(* the transaction just acked can gain one.                                   *)
LEMMA QuorumGained ==
    ASSUME TypeOK, NEW n \in Nodes, NEW t \in Txs, NEW v \in Nodes, NEW isLocal \in BOOLEAN,
           addAck(n, t, v, isLocal), NEW m \in Nodes, NEW u \in Txs
    PROVE  /\ Confirmed(m, u) => Confirmed(m, u)'
           /\ Confirmed(m, u)' /\ ~Confirmed(m, u) => m = n /\ u = t
<1>1. Confirmed(m, u) => Confirmed(m, u)'
  BY QuorumStays, Zenon
<1>2. ackWeight \in [Nodes -> [Txs -> Nat]]
  BY DEF TypeOK
<1>3. ackWeight' = ackWeight \/ ackWeight' = [ackWeight EXCEPT ![n][t] = @ + Stake(v)]
  BY Zenon DEF addAck
<1>4. m # n \/ u # t => ackWeight'[m][u] = ackWeight[m][u]
  BY <1>2, <1>3, SMTT(30)
<1> QED
  BY <1>1, <1>4, Zenon DEF Confirmed

(* An ack at most settles its own transaction: had the node consumed the      *)
(* nonce already, it had a quorum for a transaction of that slot, and there   *)
(* is no second one.                                                          *)
LEMMA AckSettles ==
    ASSUME TypeOK, ExecutionBacked, Agreement', NEW n \in Correct, NEW t \in Txs, NEW v \in Nodes,
           NEW isLocal \in BOOLEAN, addAck(n, t, v, isLocal), UNCHANGED state
    PROVE  Settled!Choose(t) \/ UNCHANGED <<chosen, done>>
<1>1. n \in Nodes /\ Correct \subseteq Nodes
  BY Zenon DEF Correct
<1>2. \A m \in Correct : \A u \in Txs :
          /\ Confirmed(m, u) => Confirmed(m, u)'
          /\ Confirmed(m, u)' /\ ~Confirmed(m, u) => m = n /\ u = t
  BY <1>1, QuorumGained
<1>3. ASSUME Confirmed(n, t)', ~Confirmed(n, t)
      PROVE  ~(t.nonce < state[n].nonce[t.from])
  <2> SUFFICES ASSUME t.nonce < state[n].nonce[t.from] PROVE FALSE
    OBVIOUS
  <2>1. t.from \in Accounts /\ t.nonce \in Nat /\ state[n].nonce[t.from] \in Nat
    BY <1>1, TxFields, Zenon DEF TypeOK, States
  <2>2. t.nonce \in 0 .. state[n].nonce[t.from] - 1
    BY <2>1
  <2>3. PICK u \in Txs : Slot(u) = <<t.from, t.nonce>> /\ Confirmed(n, u)
    BY <1>1, <2>1, <2>2, Zenon DEF ExecutionBacked, StateBacked
  <2>4. u # t /\ Conflict(t, u) /\ Confirmed(n, u)'
    BY <1>2, <1>3, <2>3, Zenon DEF Conflict, Slot
  <2> QED
    BY <1>3, <2>4, Zenon DEF Agreement
<1>4. done' = done
  <2>1. \A m \in Correct : {u \in Txs : Confirmed(m, u)' /\ u.nonce < state[m].nonce[u.from]}
                         = {u \in Txs : Confirmed(m, u) /\ u.nonce < state[m].nonce[u.from]}
    BY <1>2, <1>3, Zenon
  <2> QED
    BY <2>1, Zenon DEF done
<1>5. CASE t \in chosen \/ ~Confirmed(n, t)'
  <2>1. chosen' = chosen
    BY <1>2, <1>5, Zenon DEF chosen
  <2> QED
    BY <1>4, <2>1, Zenon
<1>6. CASE t \notin chosen /\ Confirmed(n, t)'
  <2>1. chosen' = chosen \cup {t}
    BY <1>2, <1>6 DEF chosen
  <2>2. ASSUME NEW u \in chosen PROVE ~Conflict(t, u)
    <3>1. PICK m \in Correct : Confirmed(m, u)
      BY DEF chosen
    <3>2. u \in Txs /\ Confirmed(m, u)'
      BY <1>2, <3>1, Zenon DEF chosen
    <3> QED
      BY <1>6, <3>2, Zenon DEF Agreement
  <2> QED
    BY <1>4, <2>1, <2>2, Zenon DEF Settled!Choose, Settled!Conflict, Settled!Slot, Conflict, Slot
<1> QED
  BY <1>5, <1>6

(* The end of a block executes a gapless set of settled transactions and      *)
(* takes none back.                                                           *)
LEMMA BlockExecutes ==
    ASSUME TypeOK, RunAhead, ExecutionBacked', NEW n \in Correct, ProcessDone(n)
    PROVE  \E S \in SUBSET chosen : Settled!Execute(n, S)
<1>1. n \in Nodes /\ Correct \subseteq Nodes
  BY Zenon DEF Correct
<1>2. proc[n] # Idle /\ ackWeight' = ackWeight /\ state' = [state EXCEPT ![n] = proc[n].statedb]
  BY <1>1, RunTypes, Zenon DEF ProcessDone, ackVars
<1>3. \A m \in Nodes, u \in Txs : Confirmed(m, u)' <=> Confirmed(m, u)
  BY <1>2 DEF Confirmed
<1>4. chosen' = chosen
  BY <1>1, <1>3, Zenon DEF chosen
<1>5. PICK s \in States : s = proc[n].statedb /\ state'[n] = s
  BY <1>1, <1>2, RunTypes, Zenon DEF TypeOK
<1>6. \A x \in Accounts : state[n].nonce[x] \in Nat /\ s.nonce[x] \in Nat /\ state[n].nonce[x] <= s.nonce[x]
  <2>1. \A x \in Accounts : state[n].nonce[x] <= s.nonce[x]
    BY <1>1, <1>2, <1>5, Zenon DEF RunAhead
  <2>2. state[n] \in States
    BY <1>1, Zenon DEF TypeOK
  <2>3. \A r \in States : \A x \in Accounts : r.nonce[x] \in Nat
    BY Zenon DEF States
  <2> QED
    BY <1>5, <2>1, <2>2, <2>3, Zenon
<1> DEFINE D == {u \in Txs : Confirmed(n, u) /\ u.nonce < s.nonce[u.from]}
<1>7. done[n] \subseteq D
  BY <1>6, TxFields, SMTT(30) DEF done
<1>8. D \subseteq chosen
  BY DEF chosen
<1>9. done' = [done EXCEPT ![n] = D]
  <2>1. done' = [m \in Correct |-> {u \in Txs : Confirmed(m, u)' /\ u.nonce < state'[m].nonce[u.from]}]
    BY Zenon DEF done
  <2>2. done'[n] = D
    BY <1>1, <1>3, <1>5, <2>1, Zenon
  <2>3. \A m \in Correct \ {n} : done'[m] = done[m]
    <3> TAKE m \in Correct \ {n}
    <3>1. state'[m] = state[m] /\ m \in Nodes
      BY <1>1, <1>2 DEF TypeOK
    <3> QED
      BY <1>3, <2>1, <3>1, Zenon DEF done
  <2>4. done' = [m \in Correct |-> done'[m]] /\ [done EXCEPT ![n] = D] = [m \in Correct |-> IF m = n THEN D ELSE done[m]]
    BY <2>1, Zenon DEF done
  <2> HIDE DEF D
  <2> QED
    BY <2>2, <2>3, <2>4, Zenon
<1>10. ASSUME NEW u \in D, NEW k \in 0 .. u.nonce - 1
       PROVE  \E w \in D : Slot(w) = <<u.from, k>>
  <2>1. u.from \in Accounts /\ u.nonce \in Nat /\ u.nonce < s.nonce[u.from] /\ s.nonce[u.from] \in Nat
    BY <1>6, TxFields, Zenon
  <2>2. k \in 0 .. s.nonce[u.from] - 1
    BY <2>1
  <2>3. StateBacked(n, state[n])'
    BY <1>1, Zenon DEF ExecutionBacked
  <2>4. PICK w \in Txs : Slot(w) = <<u.from, k>> /\ Confirmed(n, w)'
    BY <1>5, <2>1, <2>2, <2>3, Zenon DEF StateBacked
  <2>5. w.from = u.from /\ w.nonce = k /\ k < s.nonce[u.from]
    BY <2>1, <2>4, SMTT(30) DEF Slot
  <2> QED
    BY <1>1, <1>3, <2>4, <2>5, Zenon
<1>11. D = done[n] \cup (D \ done[n])
  BY <1>7, Zenon
<1> HIDE DEF D
<1>12. D \ done[n] \subseteq chosen \ done[n]
  BY <1>8
<1>13. Settled!Gapless(D)
  BY <1>10 DEF Settled!Gapless, Settled!Slot, Slot
<1>14. Settled!Execute(n, D \ done[n])
  BY <1>4, <1>9, <1>11, <1>12, <1>13, Zenon DEF Settled!Execute
<1> QED
  BY <1>12, <1>14

(* Every step of a node is a step of Settlement or changes nothing in it.     *)
LEMMA StepSettles ==
    ASSUME TypeOK, RunAhead, ExecutionBacked, ExecutionBacked', Agreement', [Next]_vars
    PROVE  [Settled!Next]_<<chosen, done>>
<1> USE DEF chainVars, ackVars
<1>1. ASSUME UNCHANGED <<ackWeight, state>> PROVE UNCHANGED <<chosen, done>>
  BY <1>1, Zenon DEF chosen, done, Confirmed
<1>2. CASE UNCHANGED vars
  BY <1>1, <1>2, Zenon DEF vars
<1>3. CASE Next
  <2>1. PICK n \in Correct : NodeStep(n)
    BY <1>3 DEF Next
  <2>2. n \in Nodes
    BY Zenon DEF Correct
  <2>3. ASSUME NEW t \in Txs, NEW v \in Nodes, NEW isLocal \in BOOLEAN,
               addAck(n, t, v, isLocal), UNCHANGED state
        PROVE  [Settled!Next]_<<chosen, done>>
    BY <2>3, AckSettles DEF Settled!Next
  <2>4. ASSUME NEW b \in Arriving(n), ProcessStart(n, b) PROVE UNCHANGED <<chosen, done>>
    BY <1>1, <2>4, Zenon DEF ProcessStart
  <2>5. CASE ProcessAck(n)
    <3>1. proc[n] \in Runs /\ proc[n] # Idle /\ proc[n].i <= Len(proc[n].block.txs)
          /\ proc[n].block.txs \in Seq(Txs) /\ proc[n].i \in Nat \ {0} /\ proc[n].block.author \in Nodes
      BY <2>2, <2>5, RunTypes, Zenon DEF ProcessAck, Blocks
    <3>2. PICK t \in Txs : t = proc[n].block.txs[proc[n].i]
      BY <3>1
    <3>3. UNCHANGED state /\ (UNCHANGED ackWeight \/ addAck(n, t, proc[n].block.author, FALSE))
      BY <2>5, <3>2, Zenon DEF ProcessAck
    <3> QED
      BY <1>1, <2>3, <3>1, <3>3, Zenon
  <2>6. CASE ProcessAcksDone(n) \/ ProcessConfirmed(n)
    <3>1. UNCHANGED <<ackWeight, state>>
      BY <2>6, Zenon DEF ProcessAcksDone, ProcessConfirmed, applyTransaction
    <3> QED
      BY <1>1, <3>1
  <2>7. CASE ProcessDone(n)
    BY <2>7, BlockExecutes DEF Settled!Next
  <2>8. ASSUME NEW t \in Txs, NEW included \in BOOLEAN, ApplyTransaction(n, t, included)
        PROVE  [Settled!Next]_<<chosen, done>>
    <3>1. addAck(n, t, n, TRUE) /\ UNCHANGED state
      BY <2>8, Zenon DEF ApplyTransaction
    <3> QED
      BY <2>2, <2>3, <3>1, Zenon
  <2>9. ASSUME NEW k, NEW parent, NEW toss, resultLoop(n, k, parent, toss) \/ interrupt(n, k) \/ reset(n)
        PROVE  UNCHANGED <<chosen, done>>
    <3>1. UNCHANGED <<ackWeight, state>>
      BY <2>9, Zenon DEF resultLoop, interrupt, reset
    <3> QED
      BY <1>1, <3>1
  <2> QED
    BY <2>1, <2>4, <2>5, <2>6, <2>7, <2>8, <2>9, Zenon DEF NodeStep
<1> QED
  BY <1>2, <1>3, Zenon

-----------------------------------------------------------------------------
(* At genesis nothing has a quorum and nothing has run.                       *)
LEMMA InitSettles == Init => SettleInv /\ Settled!Init
<1> SUFFICES ASSUME Init PROVE SettleInv /\ Settled!Init
  OBVIOUS
<1>1. RunAhead
  BY Zenon DEF Init, RunAhead
<1>2. QuorumStake >= 0
  BY StakeType, CascadeAssumption DEF QuorumStake
<1>3. \A n \in Correct, t \in Txs : ackWeight[n][t] = 0
  BY Zenon DEF Init, Correct
<1>4. \A n \in Correct, t \in Txs : ~Confirmed(n, t)
  BY <1>2, <1>3, CascadeAssumption DEF Confirmed, QuorumStake
<1>5. Settled!Init
  BY <1>4 DEF Settled!Init, chosen, done
<1> QED
  BY <1>1, <1>5, InitType, InitCompaction, InitAckInv, InitExecution, Zenon DEF SettleInv

(* The inductive invariant of the refinement.                                 *)
LEMMA SettleInvariant == Spec => []SettleInv
<1>1. Init => SettleInv
  BY InitSettles
<1>2. SettleInv /\ [Next]_vars => SettleInv'
  BY NextType, NextAckInv, NextExecution, NextRunAhead, Zenon DEF SettleInv
<1> QED
  BY <1>1, <1>2, PTL DEF Spec

(* A node's tally is exactly the stake it counted, no validator counts for    *)
(* two transactions of a slot, and what a correct validator is counted for it  *)
(* acked itself: the bookkeeping of addAck and validateAck, with any number of *)
(* faulty signers.                                                             *)
THEOREM AcksAccounted == Spec => []AckInv
BY SettleInvariant, PTL DEF SettleInv

(* Whatever waits in the confirmed list, and every nonce consumed on a node's  *)
(* state or on the copy that Process runs a block on, has a quorum there:      *)
(* across both loops, the compaction of the list, rejected blocks and resets   *)
(* of the pool, with any number of faulty signers.                             *)
THEOREM ExecutionHasQuorum == Spec => []ExecutionBacked
BY SettleInvariant, PTL DEF SettleInv

(* With faulty signers within the bound the network implements Settlement:     *)
(* addAck settles at most one transaction of a slot, and every node executes   *)
(* settled transactions only, without a gap in a sender's nonces, and never    *)
(* takes one back.                                                             *)
THEOREM NetworkSettles ==
    ASSUME FaultBound
    PROVE  Spec => Settles
<1>1. Init => Settled!Init
  BY InitSettles
<1>2. SettleInv /\ SettleInv' /\ Agreement' /\ [Next]_vars => [Settled!Next]_<<chosen, done>>
  BY StepSettles DEF SettleInv
<1>3. Spec => []Agreement
  BY NoDoubleSpend
<1> QED
  BY <1>1, <1>2, <1>3, SettleInvariant, PTL DEF Spec, Settles, Settled!Spec
==============================================================================
