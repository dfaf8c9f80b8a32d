---------------------------- MODULE WorkerProofs ----------------------------
(***************************************************************************)
(* Proofs about Worker, for every pool of transactions, gas limit and        *)
(* capacity of resultCh, and any number of blocks.                           *)
(***************************************************************************)
EXTENDS Worker, TLAPS

(* Acks come in the order of nonces along a path: what AcksInOrder says of    *)
(* each written block.                                                        *)
Ordered(path) ==
    \A i, j \in DOMAIN path : \A k \in DOMAIN path[i], l \in DOMAIN path[j] :
        (i < j \/ (i = j /\ k < l)) /\ path[i][k].from = path[j][l].from
            => path[i][k].nonce < path[j][l].nonce

(* The acks on a path are behind the expected nonces.                         *)
Past(path, expected) ==
    \A i \in DOMAIN path : \A k \in DOMAIN path[i] :
        path[i][k].nonce < expected[path[i][k].from]

(* Two lists acknowledge no rivals.                                           *)
Apart(list1, list2) ==
    \A k \in DOMAIN list1, l \in DOMAIN list2 : ~Conflict(list1[k], list2[l])

(* Everything that is or may become a block: the environment being filled,    *)
(* the task seen last, the block being sealed, sealed and written blocks.      *)
InPipeline ==
    (({current, prev, sealing} \ {None}) \cup {resultCh[i] : i \in DOMAIN resultCh}) \cup written

(* While mainLoop fills a block there is one.                                  *)
TypeInv == TypeOK /\ (filling => current \in Environments)

(* The inductive invariant: whatever is in the pipeline is ordered, behind    *)
(* the expected nonces, and free of rivals of anything else in it.             *)
PipelineInv ==
    /\ Ordered(head) /\ Past(head, expectedAckNonce)
    /\ \A b \in InPipeline : Ordered(PathOf(b)) /\ Past(PathOf(b), expectedAckNonce)
    /\ \A b, c \in InPipeline : Apart(b.txs, c.txs)

-----------------------------------------------------------------------------
(* What the assumption on transactions says of each one.                      *)
LEMMA TxFields ==
    ASSUME NEW t \in Txs
    PROVE  t.from \in Accounts /\ t.nonce \in Nat
BY TransfersAssumption DEF TxType

(* The pipeline is empty and well typed when the worker is created            *)
(* (newWorker).                                                               *)
LEMMA InitType == Init => TypeOK
<1> SUFFICES ASSUME Init PROVE TypeOK
  OBVIOUS
<1>1. resultCh \in Seq(Blocks) /\ Len(resultCh) <= resultQueueSize /\ head \in Path
  BY WorkerAssumption DEF Init, Path
<1>2. expectedAckNonce \in [Accounts -> Nat]
  BY DEF Init
<1> QED
  BY <1>1, <1>2, Zenon DEF Init, TypeOK

(* commit keeps the task and the block being sealed well typed.               *)
LEMMA CommitType ==
    ASSUME TypeOK, NEW env \in Environments, commit(env)
    PROVE  prev' \in {None} \cup Blocks /\ sealing' \in {None} \cup Blocks
BY DEF TypeOK, commit, Environments, Blocks

(* An environment made on the head is well typed (makeCurrent).               *)
LEMMA MakeCurrentType == TypeOK => makeCurrent \in Environments
BY WorkerAssumption DEF TypeOK, makeCurrent, Environments, Path

(* commitTransaction keeps the environment and the nonces well typed.         *)
LEMMA CommitTransactionType ==
    ASSUME TypeOK, NEW t \in Txs, NEW outcome, current \in Environments,
           commitTransaction(t, outcome)
    PROVE  current' \in Environments /\ expectedAckNonce' \in [Accounts -> Nat]
<1>1. expectedAckNonce' \in [Accounts -> Nat]
  BY TxFields DEF TypeOK, commitTransaction
<1>2. Append(current.txs, t) \in Seq(Txs) /\ current.gas \in Nat /\ current.gas > 0
  BY DEF Environments, commitTransaction
<1>3. current' = current \/ (\E g \in Nat : current' = [current EXCEPT !.txs = Append(@, t), !.gas = g])
  <2>1. CASE outcome = "acked"
    <3>1. current' = [current EXCEPT !.txs = Append(@, t)]
      BY <2>1 DEF commitTransaction
    <3>2. current' = [current EXCEPT !.txs = Append(@, t), !.gas = current.gas]
      BY <3>1, Zenon DEF Environments
    <3> QED
      BY <1>2, <3>2
  <2>2. CASE outcome = "executed"
    <3>1. current' = [current EXCEPT !.txs = Append(@, t), !.gas = @ - 1]
      BY <2>2 DEF commitTransaction
    <3>2. current.gas - 1 \in Nat
      BY <1>2
    <3>3. current' = [current EXCEPT !.txs = Append(@, t), !.gas = current.gas - 1]
      BY <3>1 DEF Environments
    <3> QED
      BY <3>2, <3>3
  <2> QED
    BY <2>1, <2>2 DEF commitTransaction
<1>4. current' \in Environments
  BY <1>2, <1>3, Zenon DEF Environments
<1> QED
  BY <1>1, <1>4

(* Every step of the four goroutines keeps the types.                         *)
LEMMA NextType ==
    ASSUME TypeInv, [Next]_vars
    PROVE  TypeInv'
<1> USE DEF TypeInv
<1>1. ASSUME NEW t \in Txs, promoteTx(t) PROVE TypeInv'
  BY <1>1 DEF promoteTx, TypeOK, poolVars, eventVars, workVars, sealVars
<1>2. CASE demoteUnexecutables
  BY <1>2 DEF demoteUnexecutables, TypeOK, poolVars, eventVars, workVars, sealVars
<1>3. CASE start
  BY <1>3 DEF start, TypeOK, poolVars, eventVars, workVars, sealVars
<1>4. CASE stop
  BY <1>4, Zenon DEF stop, TypeOK, poolVars, eventVars, workVars, sealVars
<1>5. CASE newWorkStart
  BY <1>5 DEF newWorkStart, commitRequest, TypeOK, poolVars, eventVars, workVars, sealVars
<1>6. CASE newWorkHead
  BY <1>6 DEF newWorkHead, commitRequest, TypeOK, poolVars, eventVars, workVars, sealVars
<1>7. CASE newWorkTimer
  BY <1>7 DEF newWorkTimer, commitRequest, TypeOK, poolVars, eventVars, workVars, sealVars
<1>8. CASE newWorkTaken
  BY <1>8, Zenon DEF newWorkTaken, TypeOK, poolVars, eventVars, workVars, sealVars
<1>9. CASE commitNewWork
  <2>1. makeCurrent \in Environments
    BY MakeCurrentType
  <2>2. prev' \in {None} \cup Blocks /\ sealing' \in {None} \cup Blocks
    BY <1>9, <2>1, CommitType DEF commitNewWork, TypeOK
  <2> QED
    BY <1>9, <2>1, <2>2 DEF commitNewWork, TypeOK, poolVars, eventVars, workVars, sealVars
<1>10. ASSUME NEW t \in Txs, NEW outcome, commitTransactions(t, outcome) PROVE TypeInv'
  <2>1. current' \in Environments /\ expectedAckNonce' \in [Accounts -> Nat]
    BY <1>10, CommitTransactionType DEF commitTransactions
  <2>2. offered' \subseteq Txs
    BY <1>10 DEF commitTransactions, Shift, Pop, TypeOK
  <2> QED
    BY <1>10, <2>1, <2>2 DEF commitTransactions, TypeOK, eventVars, sealVars
<1>11. ASSUME NEW t \in Txs, NEW outcome, txsNotRunning(t, outcome) PROVE TypeInv'
  <2>1. current \in Environments
    BY <1>11 DEF txsNotRunning, TypeOK
  <2>2. current' \in Environments /\ expectedAckNonce' \in [Accounts -> Nat]
    BY <1>11, <2>1, CommitTransactionType DEF txsNotRunning
  <2> QED
    BY <1>11, <2>2 DEF txsNotRunning, TypeOK, sealVars
<1>12. CASE commitFull
  <2>1. prev' \in {None} \cup Blocks /\ sealing' \in {None} \cup Blocks
    BY <1>12, CommitType DEF commitFull
  <2> QED
    BY <1>12, <2>1, Zenon DEF commitFull, TypeOK, poolVars, eventVars, workVars, sealVars
<1>13. CASE commitInterruptNewHead
  BY <1>13, Zenon DEF commitInterruptNewHead, TypeOK, poolVars, eventVars, workVars, sealVars
<1>14. ASSUME NEW t \in Txs, txsOther(t) PROVE TypeInv'
  BY <1>14 DEF txsOther, TypeOK, poolVars, eventVars, workVars, sealVars
<1>15. CASE chainSide
  <2>1. current \in Environments
    BY <1>15 DEF chainSide, TypeOK
  <2>2. prev' \in {None} \cup Blocks /\ sealing' \in {None} \cup Blocks
    BY <1>15, <2>1, CommitType DEF chainSide
  <2>3. current' \in Environments
    BY <1>15, <2>1 DEF chainSide, Environments
  <2> QED
    BY <1>15, <2>2, <2>3 DEF chainSide, TypeOK, poolVars, eventVars, workVars, sealVars
<1>16. CASE Seal
  <2>1. sealing \in Blocks
    BY <1>16 DEF Seal, TypeOK
  <2>2. resultCh' \in Seq(Blocks) /\ Len(resultCh') <= resultQueueSize
    BY <1>16, <2>1, WorkerAssumption DEF Seal, TypeOK
  <2> QED
    BY <1>16, <2>2 DEF Seal, TypeOK, poolVars, eventVars, workVars, sealVars
<1>17. ASSUME NEW toss \in BOOLEAN, resultLoop(toss) PROVE TypeInv'
  <2>1. Head(resultCh) \in Blocks /\ Tail(resultCh) \in Seq(Blocks)
         /\ Len(Tail(resultCh)) <= resultQueueSize
    BY <1>17, WorkerAssumption DEF resultLoop, TypeOK
  <2>2. PathOf(Head(resultCh)) \in Path
    BY <2>1 DEF PathOf, Path, Blocks
  <2>3. head' \in Path /\ chainHeadCh' \in Nat /\ written' \subseteq Blocks
    BY <1>17, <2>1, <2>2 DEF resultLoop, TypeOK
  <2> QED
    BY <1>17, <2>1, <2>3 DEF resultLoop, TypeOK, poolVars, eventVars, workVars, sealVars
<1>18. CASE UNCHANGED vars
  BY <1>18 DEF vars, TypeOK, poolVars, eventVars, workVars, sealVars
<1> QED
  BY <1>1, <1>2, <1>3, <1>4, <1>5, <1>6, <1>7, <1>8, <1>9, <1>10, <1>11, <1>12, <1>13, <1>14, <1>15, <1>16, <1>17, <1>18 DEF Next

-----------------------------------------------------------------------------
(* An empty block on a path adds nothing to it.                               *)
LEMMA EmptyList ==
    ASSUME NEW p \in Path, NEW e \in [Accounts -> Nat], Ordered(p), Past(p, e)
    PROVE  Ordered(Append(p, <<>>)) /\ Past(Append(p, <<>>), e)
<1> DEFINE q == Append(p, <<>>)
<1>1. /\ DOMAIN q = 1 .. Len(p) + 1 /\ DOMAIN p = 1 .. Len(p) /\ Len(p) \in Nat
      /\ \A i \in DOMAIN p : q[i] = p[i]
      /\ q[Len(p) + 1] = <<>>
  BY DEF Path
<1>2. DOMAIN <<>> = {}
  OBVIOUS
<1>3. \A i \in DOMAIN q : \A k \in DOMAIN q[i] : i \in DOMAIN p
  BY <1>1, <1>2
<1> QED
  BY <1>1, <1>3, Zenon DEF Ordered, Past

(* Acks stay behind when the expected nonces advance.                         *)
LEMMA PastMonotone ==
    ASSUME NEW p \in Path, NEW e \in [Accounts -> Nat], NEW f \in [Accounts -> Nat],
           \A a \in Accounts : e[a] <= f[a], Past(p, e)
    PROVE  Past(p, f)
<1> SUFFICES ASSUME NEW i \in DOMAIN p, NEW k \in DOMAIN p[i]
             PROVE  p[i][k].nonce < f[p[i][k].from]
  BY DEF Past
<1>1. p[i][k] \in Txs
  BY DEF Path
<1> QED
  BY <1>1, TxFields DEF Past

(* An ack for the expected nonce of its sender extends a path in order: all   *)
(* acks on it are behind that nonce (validateAck).                             *)
LEMMA Extended ==
    ASSUME NEW p \in Path, NEW s \in Seq(Txs), NEW e \in [Accounts -> Nat], NEW t \in Txs,
           t.nonce = e[t.from],
           Ordered(Append(p, s)), Past(Append(p, s), e)
    PROVE  /\ Ordered(Append(p, Append(s, t)))
           /\ Past(Append(p, Append(s, t)), [e EXCEPT ![t.from] = t.nonce + 1])
<1> DEFINE o == Append(p, s)
           q == Append(p, Append(s, t))
           n == Len(p) + 1
           m == Len(s) + 1
           f == [e EXCEPT ![t.from] = t.nonce + 1]
<1>1. /\ DOMAIN o = 1 .. n /\ DOMAIN q = 1 .. n /\ n \in Nat /\ m \in Nat
      /\ o[n] = s /\ q[n] = Append(s, t)
      /\ \A i \in 1 .. n - 1 : o[i] = p[i] /\ q[i] = p[i]
  BY DEF Path
<1>2. /\ DOMAIN s = 1 .. m - 1 /\ DOMAIN Append(s, t) = 1 .. m
      /\ Append(s, t)[m] = t
      /\ \A k \in 1 .. m - 1 : Append(s, t)[k] = s[k]
  OBVIOUS
<1>3. t.from \in Accounts /\ t.nonce \in Nat
  BY TxFields
<1>4. f \in [Accounts -> Nat] /\ f[t.from] = t.nonce + 1 /\ \A a \in Accounts : e[a] <= f[a]
  BY <1>3
<1>5. \A i \in DOMAIN q : \A k \in DOMAIN q[i] :
         \/ i = n /\ k = m /\ q[i][k] = t
         \/ /\ i \in DOMAIN o /\ k \in DOMAIN o[i] /\ q[i][k] = o[i][k]
            /\ i = n => k < m
            /\ q[i][k] \in Txs
  <2> SUFFICES ASSUME NEW i \in DOMAIN q, NEW k \in DOMAIN q[i]
               PROVE \/ i = n /\ k = m /\ q[i][k] = t
                     \/ /\ i \in DOMAIN o /\ k \in DOMAIN o[i] /\ q[i][k] = o[i][k]
                        /\ i = n => k < m
                        /\ q[i][k] \in Txs
    OBVIOUS
  <2>1. CASE i = n
    BY <1>1, <1>2, <2>1
  <2>2. CASE i # n
    <3>1. q[i] = p[i] /\ o[i] = p[i] /\ i \in DOMAIN p
      BY <1>1, <2>2 DEF Path
    <3>2. p[i] \in Seq(Txs)
      BY <3>1 DEF Path
    <3> QED
      BY <1>1, <2>2, <3>1, <3>2
  <2> QED
    BY <2>1, <2>2
<1>6. Past(q, f)
  <2> SUFFICES ASSUME NEW i \in DOMAIN q, NEW k \in DOMAIN q[i]
               PROVE  q[i][k].nonce < f[q[i][k].from]
    BY DEF Past
  <2>1. CASE q[i][k] = t
    BY <2>1, <1>3, <1>4
  <2>2. CASE i \in DOMAIN o /\ k \in DOMAIN o[i] /\ q[i][k] = o[i][k] /\ q[i][k] \in Txs
    <3>1. q[i][k].nonce < e[q[i][k].from]
      BY <2>2 DEF Past
    <3>2. q[i][k].from \in Accounts /\ q[i][k].nonce \in Nat
      BY <2>2, TxFields
    <3> DEFINE x == q[i][k]
    <3>3. x.nonce < e[x.from] /\ x.from \in Accounts /\ x.nonce \in Nat
      BY <3>1, <3>2
    <3> HIDE DEF x, f
    <3>4. e[x.from] \in Nat /\ f[x.from] \in Nat /\ e[x.from] <= f[x.from]
      BY <1>4, <3>3
    <3>5. x.nonce < f[x.from]
      BY <3>3, <3>4
    <3> QED
      BY <3>5 DEF x
  <2> QED
    BY <1>5, <2>1, <2>2
<1>7. Ordered(q)
  <2> SUFFICES ASSUME NEW i \in DOMAIN q, NEW j \in DOMAIN q,
                      NEW k \in DOMAIN q[i], NEW l \in DOMAIN q[j],
                      i < j \/ (i = j /\ k < l), q[i][k].from = q[j][l].from
               PROVE  q[i][k].nonce < q[j][l].nonce
    BY Zenon DEF Ordered
  <2>1. k \in Nat /\ l \in Nat /\ i \in Nat /\ j \in Nat /\ i <= n /\ j <= n
    <3>1. i \in 1 .. n /\ j \in 1 .. n
      BY <1>1
    <3>2. q[i] \in Seq(Txs) /\ q[j] \in Seq(Txs)
      BY <1>1, <3>1 DEF Path
    <3> QED
      BY <3>1, <3>2, SMTT(30)
  <2>2. ~(i = n /\ k = m)
    <3>1. i = n => q[i] = Append(s, t)
      BY <1>1
    <3>2. j = n => l <= m
      BY <1>1, <1>2
    <3> QED
      BY <2>1, <1>1, <3>2
  <2>3. /\ i \in DOMAIN o /\ k \in DOMAIN o[i] /\ q[i][k] = o[i][k] /\ q[i][k] \in Txs
    BY <1>5, <2>2
  <2>4. CASE j = n /\ l = m /\ q[j][l] = t
    BY <2>3, <2>4 DEF Past
  <2>5. CASE j \in DOMAIN o /\ l \in DOMAIN o[j] /\ q[j][l] = o[j][l]
    BY <2>3, <2>5, Zenon DEF Ordered
  <2> QED
    BY <1>5, <2>4, <2>5
<1> QED
  BY <1>6, <1>7

-----------------------------------------------------------------------------
(* Having no environment is told from every environment.                      *)
LEMMA NoneIsNone == None \notin Environments
<1> SUFFICES ASSUME None \in Environments PROVE FALSE
  OBVIOUS
<1>1. DOMAIN None = {"none"}
  BY DEF None
<1>2. "parent" \in DOMAIN None
  BY DEF Environments
<1> QED
  BY <1>1, <1>2

(* What is in the pipeline has an ancestry and a list.                        *)
LEMMA PipelineType ==
    ASSUME TypeInv, NEW b \in InPipeline
    PROVE  b.parent \in Path /\ b.txs \in Seq(Txs) /\ PathOf(b) \in Path
<1>1. b \in Environments \/ b \in Blocks
  BY DEF InPipeline, TypeInv, TypeOK
<1>2. b.parent \in Path /\ b.txs \in Seq(Txs)
  BY <1>1 DEF Environments, Blocks
<1> QED
  BY <1>2 DEF PathOf, Path

(* A list that was in the pipeline before, or an empty one on the head.       *)
Carried(b) ==
    \/ \E c \in InPipeline : b.parent = c.parent /\ b.txs = c.txs
    \/ b.parent = head /\ b.txs = <<>>

(* Steps that acknowledge nothing move lists through the pipeline, start      *)
(* empty ones and move the head to one of them.                               *)
LEMMA CarryOver ==
    ASSUME TypeInv, PipelineInv,
           expectedAckNonce' = expectedAckNonce,
           head' = head \/ \E c \in InPipeline : head' = PathOf(c),
           \A b \in InPipeline' : Carried(b)
    PROVE  PipelineInv'
<1>0. expectedAckNonce \in [Accounts -> Nat] /\ head \in Path
  BY DEF TypeInv, TypeOK
<1>1. Ordered(head') /\ Past(head', expectedAckNonce')
  BY DEF PipelineInv
<1>2. ASSUME NEW b \in InPipeline'
      PROVE  Ordered(PathOf(b)) /\ Past(PathOf(b), expectedAckNonce')
  <2>1. CASE \E c \in InPipeline : b.parent = c.parent /\ b.txs = c.txs
    BY <2>1 DEF PathOf, PipelineInv
  <2>2. CASE b.parent = head /\ b.txs = <<>>
    BY <1>0, <2>2, EmptyList DEF PathOf, PipelineInv
  <2> QED
    BY <1>2, <2>1, <2>2 DEF Carried
<1>3. ASSUME NEW b \in InPipeline', NEW c \in InPipeline'
      PROVE  Apart(b.txs, c.txs)
  <2>1. b.txs = <<>> \/ \E d \in InPipeline : b.txs = d.txs
    BY <1>3 DEF Carried
  <2>2. c.txs = <<>> \/ \E d \in InPipeline : c.txs = d.txs
    BY <1>3 DEF Carried
  <2>3. CASE b.txs = <<>> \/ c.txs = <<>>
    BY <2>3 DEF Apart
  <2>4. CASE \E d, e \in InPipeline : b.txs = d.txs /\ c.txs = e.txs
    BY <2>4 DEF PipelineInv
  <2> QED
    BY <2>1, <2>2, <2>3, <2>4
<1> QED
  BY <1>1, <1>2, <1>3 DEF PipelineInv

(* An ack for the expected nonce has no rival in the pipeline.                *)
LEMMA AckIsFresh ==
    ASSUME TypeInv, PipelineInv, NEW t \in Txs, t.nonce = expectedAckNonce[t.from],
           NEW b \in InPipeline, NEW k \in DOMAIN b.txs
    PROVE  ~Conflict(t, b.txs[k]) /\ ~Conflict(b.txs[k], t)
<1>1. b.parent \in Path /\ b.txs \in Seq(Txs)
  BY PipelineType
<1> DEFINE q == PathOf(b)
           n == Len(b.parent) + 1
<1>2. n \in DOMAIN q /\ q[n] = b.txs
  BY <1>1 DEF PathOf, Path
<1>3. q[n][k].nonce < expectedAckNonce[q[n][k].from]
  BY <1>2 DEF PipelineInv, Past
<1>4. b.txs[k] \in Txs
  BY <1>1
<1>5. Slot(b.txs[k]) # Slot(t)
  BY <1>2, <1>3, <1>4, TxFields DEF TypeInv, TypeOK, Slot
<1> QED
  BY <1>5 DEF Conflict

(* The one step that acknowledges: whatever the outcome, the lists stay in    *)
(* order, behind the expected nonces and free of rivals.                      *)
LEMMA CommitTransactionInv ==
    ASSUME TypeInv, PipelineInv, NEW t \in Txs, NEW outcome, current \in Environments,
           commitTransaction(t, outcome),
           UNCHANGED <<prev, sealing, resultCh, written, head>>
    PROVE  PipelineInv'
<1> DEFINE longer == Append(current.txs, t)
           e == expectedAckNonce
           f == [e EXCEPT ![t.from] = t.nonce + 1]
           old == (({prev, sealing} \ {None}) \cup {resultCh[i] : i \in DOMAIN resultCh}) \cup written
<1>1. t.from \in Accounts /\ t.nonce \in Nat
  BY TxFields
<1>2. e \in [Accounts -> Nat] /\ head \in Path
  BY DEF TypeInv, TypeOK
<1>3. InPipeline = old \cup {current} /\ InPipeline' \subseteq old \cup {current'}
  BY NoneIsNone DEF InPipeline
<1>4. CASE outcome \notin {"acked", "executed", "failed"}
  <2>1. current' = current /\ expectedAckNonce' = e
    BY <1>4 DEF commitTransaction
  <2> QED
    BY <2>1, <1>3, CarryOver DEF Carried
<1>5. CASE outcome \in {"acked", "executed", "failed"}
  <2>1. t.nonce = e[t.from]
    BY <1>5 DEF commitTransaction, Outcomes
  <2>2. expectedAckNonce' = f
    BY <1>5 DEF commitTransaction
  <2>3. f \in [Accounts -> Nat] /\ \A a \in Accounts : e[a] <= f[a]
    BY <1>1, <1>2, <2>1
  <2>4. \/ current' = current
        \/ current'.parent = current.parent /\ current'.txs = longer
    <3>1. outcome = "failed" => current' = current
      BY DEF commitTransaction
    <3>2. outcome = "acked" => current'.parent = current.parent /\ current'.txs = longer
      BY DEF commitTransaction, Environments
    <3>3. outcome = "executed" => current'.parent = current.parent /\ current'.txs = longer
      BY Zenon DEF commitTransaction, Environments
    <3> QED
      BY <1>5, <3>1, <3>2, <3>3
  <2>5. \A b \in InPipeline : Ordered(PathOf(b)) /\ Past(PathOf(b), f)
    <3> SUFFICES ASSUME NEW b \in InPipeline PROVE Ordered(PathOf(b)) /\ Past(PathOf(b), f)
      BY Zenon
    <3>1. PathOf(b) \in Path
      BY PipelineType
    <3>2. Ordered(PathOf(b)) /\ Past(PathOf(b), e)
      BY DEF PipelineInv
    <3> HIDE DEF f
    <3> QED
      BY <1>2, <2>3, <3>1, <3>2, PastMonotone
  <2>6. Ordered(head') /\ Past(head', f)
    BY <1>2, <2>3, PastMonotone, Zenon DEF PipelineInv
  <2>7. current.parent \in Path /\ current.txs \in Seq(Txs)
    BY DEF Environments
  <2>8. /\ Ordered(Append(current.parent, longer)) /\ Past(Append(current.parent, longer), f)
    BY <1>2, <1>3, <2>1, <2>7, Extended, Zenon DEF PipelineInv, PathOf
  <2>9. \A b \in InPipeline' : Ordered(PathOf(b)) /\ Past(PathOf(b), f)
    BY <1>3, <2>4, <2>5, <2>8, Zenon DEF PathOf
  <2>10. \A b \in InPipeline : Apart(b.txs, longer) /\ Apart(longer, b.txs)
    <3>1. /\ DOMAIN longer = 1 .. Len(current.txs) + 1
          /\ longer[Len(current.txs) + 1] = t
          /\ \A k \in DOMAIN current.txs : longer[k] = current.txs[k]
          /\ DOMAIN current.txs = 1 .. Len(current.txs)
      BY <2>7
    <3>2. \A k \in DOMAIN longer : longer[k] = t \/ (k \in DOMAIN current.txs /\ longer[k] = current.txs[k])
      BY <3>1, <2>7
    <3>3. \A b \in InPipeline : Apart(b.txs, current.txs) /\ Apart(current.txs, b.txs)
      BY <1>3 DEF PipelineInv
    <3>4. \A b \in InPipeline : \A k \in DOMAIN b.txs : ~Conflict(t, b.txs[k]) /\ ~Conflict(b.txs[k], t)
      BY <2>1, AckIsFresh
    <3> QED
      BY <3>2, <3>3, <3>4 DEF Apart
  <2>11. Apart(longer, longer)
    <3>1. \A k \in DOMAIN longer : longer[k] = t \/ (k \in DOMAIN current.txs /\ longer[k] = current.txs[k])
      BY <2>7
    <3>2. \A k \in DOMAIN current.txs : ~Conflict(t, current.txs[k]) /\ ~Conflict(current.txs[k], t)
      BY <1>3, <2>1, AckIsFresh, SMTT(30)
    <3>3. Apart(current.txs, current.txs) /\ ~Conflict(t, t)
      BY <1>3 DEF PipelineInv, Conflict
    <3> QED
      BY <3>1, <3>2, <3>3 DEF Apart
  <2>12. \A b, c \in InPipeline' : Apart(b.txs, c.txs)
    <3>1. \A b \in InPipeline' : b \in InPipeline \/ b.txs = longer
      BY <1>3, <2>4
    <3> QED
      BY <3>1, <2>10, <2>11, Zenon DEF PipelineInv
  <2> QED
    BY <2>2, <2>6, <2>9, <2>12, Zenon DEF PipelineInv
<1> QED
  BY <1>4, <1>5

(* What commit hands over has the list of the environment it was given.       *)
LEMMA CommitCarries ==
    ASSUME NEW env, commit(env),
           NEW b \in {prev', sealing'}
    PROVE  b \in {prev, sealing} \/ (b.parent = env.parent /\ b.txs = env.txs)
BY DEF commit

(* Every step of the four goroutines keeps the pipeline in order and free of  *)
(* rivals.                                                                    *)
LEMMA NextInv ==
    ASSUME TypeInv, PipelineInv, [Next]_vars
    PROVE  PipelineInv'
<1>0. ASSUME UNCHANGED <<expectedAckNonce, head, current, prev, sealing, resultCh, written>>
      PROVE  PipelineInv'
  BY <1>0, CarryOver DEF InPipeline, Carried
<1>1. ASSUME NEW t \in Txs, promoteTx(t) PROVE PipelineInv'
  BY <1>0, <1>1 DEF promoteTx, poolVars, eventVars, workVars, sealVars
<1>2. CASE demoteUnexecutables
  BY <1>0, <1>2 DEF demoteUnexecutables, poolVars, eventVars, workVars, sealVars
<1>3. CASE start
  BY <1>0, <1>3 DEF start, poolVars, eventVars, workVars, sealVars
<1>4. CASE stop
  BY <1>0, <1>4 DEF stop, poolVars, eventVars, workVars, sealVars
<1>5. CASE newWorkStart
  BY <1>0, <1>5 DEF newWorkStart, commitRequest, poolVars, eventVars, workVars, sealVars
<1>6. CASE newWorkHead
  BY <1>0, <1>6 DEF newWorkHead, commitRequest, poolVars, eventVars, workVars, sealVars
<1>7. CASE newWorkTimer
  BY <1>0, <1>7 DEF newWorkTimer, commitRequest, poolVars, eventVars, workVars, sealVars
<1>8. CASE newWorkTaken
  BY <1>0, <1>8 DEF newWorkTaken, poolVars, eventVars, workVars, sealVars
<1>9. CASE commitNewWork
  <2>1. current'.parent = head /\ current'.txs = <<>> /\ makeCurrent.parent = head /\ makeCurrent.txs = <<>>
    BY <1>9 DEF commitNewWork, makeCurrent
  <2>2. \A b \in {prev', sealing'} : b \in {prev, sealing} \/ (b.parent = head /\ b.txs = <<>>)
    BY <1>9, <2>1, CommitCarries DEF commitNewWork
  <2>3. UNCHANGED <<expectedAckNonce, head, resultCh, written>>
    BY <1>9 DEF commitNewWork, poolVars
  <2>4. \A b \in InPipeline' : Carried(b)
    BY <2>1, <2>2, <2>3 DEF InPipeline, Carried
  <2> QED
    BY <2>3, <2>4, CarryOver
<1>10. ASSUME NEW t \in Txs, NEW outcome, commitTransactions(t, outcome) PROVE PipelineInv'
  <2>1. current \in Environments
    BY <1>10 DEF commitTransactions, TypeInv
  <2> QED
    BY <1>10, <2>1, CommitTransactionInv DEF commitTransactions, sealVars
<1>11. ASSUME NEW t \in Txs, NEW outcome, txsNotRunning(t, outcome) PROVE PipelineInv'
  <2>1. current \in Environments
    BY <1>11 DEF txsNotRunning, TypeInv, TypeOK
  <2> QED
    BY <1>11, <2>1, CommitTransactionInv DEF txsNotRunning, sealVars
<1>12. CASE commitFull
  <2>1. current'.parent = current.parent /\ current'.txs = current.txs /\ current \in InPipeline
    BY <1>12, NoneIsNone DEF commitFull, InPipeline, TypeInv, TypeOK, Environments
  <2>2. \A b \in {prev', sealing'} : b \in {prev, sealing} \/ (b.parent = current.parent /\ b.txs = current.txs)
    BY <1>12, CommitCarries DEF commitFull
  <2>3. UNCHANGED <<expectedAckNonce, head, resultCh, written>>
    BY <1>12 DEF commitFull, poolVars
  <2>4. \A b \in InPipeline' : Carried(b)
    BY <2>1, <2>2, <2>3 DEF InPipeline, Carried
  <2> QED
    BY <2>3, <2>4, CarryOver
<1>13. CASE commitInterruptNewHead
  BY <1>0, <1>13 DEF commitInterruptNewHead, poolVars, eventVars, workVars, sealVars
<1>14. ASSUME NEW t \in Txs, txsOther(t) PROVE PipelineInv'
  BY <1>0, <1>14 DEF txsOther, poolVars, eventVars, workVars, sealVars
<1>15. CASE chainSide
  <2>1. current'.parent = current.parent /\ current'.txs = current.txs /\ current \in InPipeline
    BY <1>15 DEF chainSide, InPipeline, TypeInv, TypeOK, Environments
  <2>2. \A b \in {prev', sealing'} : b \in {prev, sealing} \/ (b.parent = current.parent /\ b.txs = current.txs)
    BY <1>15, CommitCarries DEF chainSide
  <2>3. UNCHANGED <<expectedAckNonce, head, resultCh, written>>
    BY <1>15 DEF chainSide, poolVars
  <2>4. \A b \in InPipeline' : Carried(b)
    BY <2>1, <2>2, <2>3 DEF InPipeline, Carried
  <2> QED
    BY <2>3, <2>4, CarryOver
<1>16. CASE Seal
  <2>1. UNCHANGED <<expectedAckNonce, head, current, prev, written>> /\ sealing' = None /\ sealing # None
    BY <1>16 DEF Seal, poolVars, eventVars, workVars, sealVars
  <2>2. \A i \in DOMAIN resultCh' : resultCh'[i] = sealing \/ \E j \in DOMAIN resultCh : resultCh'[i] = resultCh[j]
    BY <1>16 DEF Seal, TypeInv, TypeOK
  <2>3. InPipeline' \subseteq InPipeline
    BY <2>1, <2>2 DEF InPipeline
  <2> QED
    BY <2>1, <2>3, CarryOver DEF Carried
<1>17. ASSUME NEW toss \in BOOLEAN, resultLoop(toss) PROVE PipelineInv'
  <2>1. UNCHANGED <<expectedAckNonce, current, prev, sealing>>
    BY <1>17 DEF resultLoop, poolVars, eventVars, workVars, sealVars
  <2>2. Head(resultCh) \in {resultCh[i] : i \in DOMAIN resultCh}
    BY <1>17 DEF resultLoop, TypeInv, TypeOK
  <2>3. \A i \in DOMAIN resultCh' : \E j \in DOMAIN resultCh : resultCh'[i] = resultCh[j]
    BY <1>17 DEF resultLoop, TypeInv, TypeOK
  <2>4. written' \subseteq written \cup {Head(resultCh)} /\ (head' = head \/ head' = PathOf(Head(resultCh)))
    BY <1>17 DEF resultLoop
  <2>5. InPipeline' \subseteq InPipeline /\ Head(resultCh) \in InPipeline
    BY <2>1, <2>2, <2>3, <2>4 DEF InPipeline
  <2> QED
    BY <2>1, <2>4, <2>5, CarryOver DEF Carried
<1>18. CASE UNCHANGED vars
  BY <1>0, <1>18 DEF vars, poolVars, eventVars, workVars, sealVars
<1> QED
  BY <1>1, <1>2, <1>3, <1>4, <1>5, <1>6, <1>7, <1>8, <1>9, <1>10, <1>11, <1>12, <1>13, <1>14, <1>15, <1>16, <1>17, <1>18 DEF Next

-----------------------------------------------------------------------------
(* Every channel and every goroutine of the miner keeps its type, and         *)
(* resultCh stays within its capacity.                                        *)
THEOREM TypeCorrect == Spec => []TypeOK
<1>1. Init => TypeInv
  BY InitType DEF Init, TypeInv
<1>2. TypeInv /\ [Next]_vars => TypeInv'
  BY NextType
<1> QED
  BY <1>1, <1>2, PTL DEF Spec, TypeInv

(* PipelineInv is an invariant of the miner.                                  *)
LEMMA PipelineInvariant == Spec => [](TypeInv /\ PipelineInv)
<1>1. Init => TypeInv /\ PipelineInv
  <2> SUFFICES ASSUME Init PROVE TypeInv /\ PipelineInv
    OBVIOUS
  <2>1. InPipeline = {}
    BY DEF Init, InPipeline
  <2>2. Ordered(head) /\ Past(head, expectedAckNonce)
    BY DEF Init, Ordered, Past
  <2> QED
    BY <2>1, <2>2, InitType DEF Init, TypeInv, PipelineInv
<1>2. TypeInv /\ PipelineInv /\ [Next]_vars => TypeInv' /\ PipelineInv'
  BY NextType, NextInv
<1> QED
  BY <1>1, <1>2, PTL DEF Spec

(* A node never publishes acks for two rivals, whatever blocks were           *)
(* interrupted, superseded, dropped or written as siblings (worker.go).       *)
THEOREM NodeNeverEquivocates == Spec => []NoEquivocation
<1>1. PipelineInv => NoEquivocation
  <2> SUFFICES ASSUME PipelineInv, NEW t \in Published, NEW u \in Published
               PROVE  ~Conflict(t, u)
    BY DEF NoEquivocation
  <2>1. PICK b \in written : t \in Range(b.txs)
    BY DEF Published
  <2>2. PICK c \in written : u \in Range(c.txs)
    BY DEF Published
  <2>3. Apart(b.txs, c.txs)
    BY DEF PipelineInv, InPipeline
  <2> QED
    BY <2>1, <2>2, <2>3 DEF Range, Apart
<1> QED
  BY <1>1, PipelineInvariant, PTL

(* Along every chain a node writes, the acks for a sender come in the order   *)
(* of nonces and none is repeated.                                            *)
THEOREM NodeAcksInOrder == Spec => []AcksInOrder
<1>1. PipelineInv => AcksInOrder
  BY Zenon DEF PipelineInv, InPipeline, AcksInOrder, Ordered
<1> QED
  BY <1>1, PipelineInvariant, PTL
=============================================================================
