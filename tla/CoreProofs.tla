------------------------------ MODULE CoreProofs -----------------------------
(***************************************************************************)
(* Three parts of a node around the payments.  The tally of rivals for one   *)
(* slot, for every set of validators and stakes: what the unlocked addition  *)
(* of the decision handler can and cannot spoil.  The control loops of the   *)
(* miner, for any calls, synchronisations, heads and intervals.  And the     *)
(* freezer, which loses no block of the node's own chain, for any number of  *)
(* tables, any chains, batch sizes, failed appends and crashes.              *)
(***************************************************************************)
EXTENDS Multishot, MinerControl, Freezer, WellFoundedInduction, TLAPS

(* An ack adds the stake of a validator that was not counted yet.          *)
LEMMA WeightAdd ==
    ASSUME RivalsAssumption, NEW S \in SUBSET Validators, NEW v \in Validators, v \notin S
    PROVE  Weight[S \cup {v}] = Weight[S] + Stake(v)
<1>1. S \cap {v} = {} /\ {v} \in SUBSET Validators /\ S \cup {v} \in SUBSET Validators
  OBVIOUS
<1>2. Weight[S \cup {v}] + Weight[S \cap {v}] = Weight[S] + Weight[{v}]
  BY <1>1, Zenon DEF RivalsAssumption
<1>3. Weight[S \cup {v}] \in Nat /\ Weight[S] \in Nat /\ Weight[{v}] \in Nat /\ Weight[{}] = 0
  BY <1>1 DEF RivalsAssumption
<1> QED
  BY <1>1, <1>2, <1>3 DEF Stake

(* A set of validators has no less stake than any part of it.               *)
LEMMA WeightMonotone ==
    ASSUME RivalsAssumption, NEW S \in SUBSET Validators, NEW T \in SUBSET S
    PROVE  Weight[T] <= Weight[S]
<1>1. T \cup (S \ T) = S /\ T \cap (S \ T) = {} /\ T \in SUBSET Validators /\ S \ T \in SUBSET Validators
  OBVIOUS
<1>2. Weight[T \cup (S \ T)] + Weight[T \cap (S \ T)] = Weight[T] + Weight[S \ T]
  BY <1>1, Zenon DEF RivalsAssumption
<1>3. Weight[S] \in Nat /\ Weight[T] \in Nat /\ Weight[S \ T] \in Nat /\ Weight[{}] = 0
  BY <1>1 DEF RivalsAssumption
<1> QED
  BY <1>1, <1>2, <1>3

(* The quorum is a number of wei.                                           *)
LEMMA QuorumType ==
    ASSUME RivalsAssumption
    PROVE  QuorumStake \in Nat /\ APosterioriStake \in Nat /\ \A v \in Validators : Stake(v) \in Nat
<1>1. Weight[Validators] \in Nat /\ \A v \in Validators : Weight[{v}] \in Nat
  BY DEF RivalsAssumption
<1> QED
  BY <1>1 DEF QuorumStake, APosterioriStake, Stake

(* A call in progress is told from none by its transaction.                 *)
LEMMA CallFields ==
    ASSUME RivalsAssumption, MultishotTypeOK, NEW n \in Correct
    PROVE  /\ call[n] # NoAck => /\ call[n].from \in Validators
                                /\ call[n].tx \in Txs
                                /\ call[n].read \in Nat
           /\ call[n] = NoAck => call[n].tx \notin Txs
BY DEF MultishotTypeOK, NoAck, RivalsAssumption

-----------------------------------------------------------------------------
(* At the start nothing is counted.                                         *)
LEMMA MultishotStarts == ASSUME RivalsAssumption, MultishotInit PROVE TallySound
<1>1. MultishotTypeOK
  BY DEF MultishotInit, MultishotTypeOK, Missing, Waiting, RivalsAssumption
<1>2. ConfirmedBacked
  BY DEF MultishotInit, ConfirmedBacked
<1>3. Weight[{}] = 0 /\ NoTx \notin Txs
  BY DEF RivalsAssumption
<1>4. TallyInv
  BY <1>3 DEF MultishotInit, TallyInv, VotersCounted, TallyExact, NoAck, Waiting, Entry, Missing
<1> QED
  BY <1>1, <1>2, <1>4 DEF TallySound

(* A step of the handler keeps the sums: it touches no weight but that of    *)
(* the decided transaction.                                                 *)
LEMMA TallyKept ==
    ASSUME RivalsAssumption, TallyInv,
           UNCHANGED <<voted, stakeReceived, call, acked, counted>>,
           decided' = decided \/ decided = NoTx,
           \A m \in Correct : handler'[m].stage = "adding" =>
                                  handler[m].stage = "adding" \/ decided' # NoTx,
           \A m \in Correct, u \in Txs : u # decided' => unconfirmed'[m][u] = unconfirmed[m][u]
    PROVE  TallyInv'
<1> SUFFICES ASSUME NEW m \in Correct
             PROVE  VotersCounted(m)' /\ \A u \in Txs : TallyExact(m, u)'
  BY DEF TallyInv
<1>1. VotersCounted(m) /\ \A u \in Txs : TallyExact(m, u)
  BY DEF TallyInv
<1>2. VotersCounted(m)'
  BY <1>1 DEF VotersCounted
<1>3. ASSUME NEW u \in Txs PROVE TallyExact(m, u)'
  <2>1. u # decided' => u # decided /\ unconfirmed'[m][u] = unconfirmed[m][u]
    BY DEF RivalsAssumption
  <2> QED
    BY <1>1, <2>1, Zenon DEF TallyExact
<1> QED
  BY <1>2, <1>3

(* addAck up to the read of the weight keeps the sums: the weight it reads   *)
(* is that of the validators counted.                                       *)
LEMMA AckStartInv ==
    ASSUME RivalsAssumption, TallySound, NEW n \in Correct, NEW v \in Validators, NEW t \in Txs,
           AckStart(n, v, t), v \in Correct => acked'[v] = t,
           acked' \in [Correct -> Txs \cup {NoTx}],
           \A c \in Correct : acked[c] # NoTx => acked'[c] = acked[c]
    PROVE  TallySound'
<1> USE DEF TallySound
<1> DEFINE c == [from |-> v, tx |-> t, read |-> Entry(unconfirmed[n][t])]
<1>1. /\ UNCHANGED <<voted, stakeReceived, confirmed, handler, proposals, decided, panicked, counted>>
      /\ unconfirmed' = [unconfirmed EXCEPT ![n][t] = Entry(@)]
      /\ call[n] = NoAck
      /\ \/ call' = call
         \/ v \notin voted[n] /\ call' = [call EXCEPT ![n] = c]
  BY DEF AckStart
<1>2. \A w \in Nat \cup {Missing} : Entry(w) \in Nat /\ Entry(Entry(w)) = Entry(w)
  BY DEF Entry, Missing
<1>3. unconfirmed[n][t] \in Nat \cup {Missing}
  BY DEF MultishotTypeOK
<1>4. c \in [from: Validators, tx: Txs, read: Nat]
  BY <1>2, <1>3, Zenon
<1>5. MultishotTypeOK'
  <2>1. unconfirmed' \in [Correct -> [Txs -> Nat \cup {Missing}]]
    BY <1>1, <1>2, <1>3, Zenon DEF MultishotTypeOK
  <2>2. call' \in [Correct -> {NoAck} \cup [from: Validators, tx: Txs, read: Nat]]
    BY <1>1, <1>4, ZenonT(30) DEF MultishotTypeOK
  <2> QED
    BY <1>1, <2>1, <2>2 DEF MultishotTypeOK
<1>6. \A m \in Correct, u \in Txs : Entry(unconfirmed'[m][u]) = Entry(unconfirmed[m][u])
  BY <1>1, <1>2, <1>3, Zenon DEF MultishotTypeOK
<1>7. \A m \in Correct : call'[m] = call[m] \/ (m = n /\ call'[m] = c /\ v \notin voted[n])
  BY <1>1 DEF MultishotTypeOK
<1>8. TallyInv'
  <2> SUFFICES ASSUME NEW m \in Correct
               PROVE  VotersCounted(m)' /\ \A u \in Txs : TallyExact(m, u)'
    BY DEF TallyInv
  <2>1. /\ stakeReceived[m] = Weight[voted[m]]
        /\ handler[m].stage = "adding" => decided # NoTx
        /\ \A u \in Txs : counted[m][u] \subseteq voted[m]
    BY Zenon DEF TallyInv, VotersCounted, TallyExact
  <2>2. call'[m] # NoAck => call'[m].from \notin voted[m]
    BY <1>7 DEF TallyInv, VotersCounted, TallyExact
  <2>3. ASSUME NEW u \in Txs, u # decided
        PROVE  /\ Entry(unconfirmed'[m][u]) = Weight[counted[m][u]]
               /\ call'[m].tx = u => call'[m].read = Weight[counted[m][u]]
    <3>1. Entry(unconfirmed[m][u]) = Weight[counted[m][u]]
      BY <2>3 DEF TallyInv, VotersCounted, TallyExact
    <3>2. call[m].tx = u => call[m].read = Weight[counted[m][u]]
      BY <2>3 DEF TallyInv, VotersCounted, TallyExact
    <3> QED
      BY <1>6, <1>7, <3>1, <3>2
  <2>4. ASSUME NEW u \in Txs, NEW w \in Correct,
               w \in counted[m][u] \/ (call'[m].from = w /\ call'[m].tx = u)
        PROVE  acked'[w] = u
    <3>1. CASE w \in counted[m][u] \/ (call[m].from = w /\ call[m].tx = u)
      <4>1. acked[w] = u /\ u # NoTx
        BY <3>1 DEF TallyInv, VotersCounted, TallyExact, RivalsAssumption
      <4> QED
        BY <4>1, Zenon
    <3>2. CASE m = n /\ call'[m] = c /\ call'[m].from = w /\ call'[m].tx = u
      BY <3>2
    <3> QED
      BY <1>7, <2>4, <3>1, <3>2
  <2>5. VotersCounted(m)'
    BY <1>1, <2>1, <2>2, Zenon DEF VotersCounted
  <2>6. ASSUME NEW u \in Txs PROVE TallyExact(m, u)'
    BY <1>1, <2>1, <2>3, <2>4, Zenon DEF TallyExact
  <2> QED
    BY <2>5, <2>6
<1>9. ConfirmedBacked'
  BY <1>1 DEF ConfirmedBacked
<1> QED
  BY <1>5, <1>8, <1>9

(* addAck from the write on: the sum is that of the validators counted, the  *)
(* new one among them, unless the transaction was decided meanwhile.        *)
LEMMA AckEndInv ==
    ASSUME RivalsAssumption, TallySound, NEW n \in Correct, AckEnd(n)
    PROVE  TallySound'
<1> USE DEF TallySound
<1>0. PICK v \in Validators, t \in Txs, r \in Nat : v = call[n].from /\ t = call[n].tx /\ r = call[n].read
  BY CallFields, Zenon DEF AckEnd
<1> DEFINE w == r + Stake(v)
           received == stakeReceived[n] + Stake(v)
<1>1. /\ call[n] # NoAck
      /\ UNCHANGED <<handler, acked, decided, panicked>>
      /\ unconfirmed' = [unconfirmed EXCEPT ![n][t] = w]
      /\ stakeReceived' = [stakeReceived EXCEPT ![n] = received]
      /\ voted' = [voted EXCEPT ![n] = @ \cup {v}]
      /\ counted' = [counted EXCEPT ![n][t] = @ \cup {v}]
      /\ confirmed' = IF Confirms(w) THEN [confirmed EXCEPT ![n] = @ \cup {t}] ELSE confirmed
      /\ call' = [call EXCEPT ![n] = NoAck]
  BY <1>0, Zenon DEF AckEnd
<1>2. proposals' \subseteq Txs
  BY <1>0 DEF AckEnd, MultishotTypeOK
<1>3. Stake(v) \in Nat /\ w \in Nat /\ received \in Nat
  BY QuorumType DEF MultishotTypeOK
<1> HIDE DEF w, received
<1>4. MultishotTypeOK'
  <2>1. unconfirmed' \in [Correct -> [Txs -> Nat \cup {Missing}]]
    BY <1>1, <1>3, Zenon DEF MultishotTypeOK
  <2>2. counted' \in [Correct -> [Txs -> SUBSET Validators]]
    BY <1>1 DEF MultishotTypeOK
  <2>3. confirmed' \in [Correct -> SUBSET Txs]
    BY <1>1 DEF MultishotTypeOK
  <2>4. voted' \in [Correct -> SUBSET Validators] /\ stakeReceived' \in [Correct -> Nat]
    BY <1>1, <1>3 DEF MultishotTypeOK
  <2>5. call' \in [Correct -> {NoAck} \cup [from: Validators, tx: Txs, read: Nat]]
    BY <1>1, Zenon DEF MultishotTypeOK
  <2> QED
    BY <1>1, <1>2, <2>1, <2>2, <2>3, <2>4, <2>5, Zenon DEF MultishotTypeOK
<1>5. v \notin voted[n] /\ counted[n][t] \subseteq voted[n] /\ voted[n] \in SUBSET Validators
      /\ counted[n][t] \in SUBSET Validators
  BY <1>0, <1>1 DEF TallyInv, VotersCounted, TallyExact, MultishotTypeOK
<1>6. received = Weight[voted[n] \cup {v}]
  <2>1. stakeReceived[n] = Weight[voted[n]]
    BY Zenon DEF TallyInv, VotersCounted, TallyExact
  <2> QED
    BY <1>5, <2>1, WeightAdd, Zenon DEF received
<1>7. t # decided => w = Weight[counted[n][t] \cup {v}]
  <2>1. t # decided => r = Weight[counted[n][t]]
    BY <1>0 DEF TallyInv, VotersCounted, TallyExact
  <2>2. v \notin counted[n][t]
    BY <1>5
  <2> QED
    BY <1>5, <2>1, <2>2, WeightAdd, Zenon DEF w
<1>8. /\ \A m \in Correct \ {n} : /\ unconfirmed'[m] = unconfirmed[m] /\ stakeReceived'[m] = stakeReceived[m]
                                  /\ voted'[m] = voted[m] /\ counted'[m] = counted[m] /\ call'[m] = call[m]
                                  /\ confirmed'[m] = confirmed[m]
      /\ stakeReceived'[n] = received /\ voted'[n] = voted[n] \cup {v} /\ call'[n] = NoAck
      /\ unconfirmed'[n][t] = w /\ counted'[n][t] = counted[n][t] \cup {v}
      /\ \A u \in Txs \ {t} : unconfirmed'[n][u] = unconfirmed[n][u] /\ counted'[n][u] = counted[n][u]
      /\ confirmed'[n] = confirmed[n] \/ (Confirms(w) /\ confirmed'[n] = confirmed[n] \cup {t})
  BY <1>1 DEF MultishotTypeOK
<1>9. TallyInv'
  <2> SUFFICES ASSUME NEW m \in Correct
               PROVE  VotersCounted(m)' /\ \A u \in Txs : TallyExact(m, u)'
    BY DEF TallyInv
  <2>1. CASE m # n
    <3>1. VotersCounted(m) /\ \A u \in Txs : TallyExact(m, u)
      BY DEF TallyInv
    <3>2. /\ voted'[m] = voted[m] /\ counted'[m] = counted[m] /\ call'[m] = call[m]
          /\ unconfirmed'[m] = unconfirmed[m] /\ stakeReceived'[m] = stakeReceived[m]
          /\ decided' = decided /\ acked' = acked /\ handler' = handler
      BY <1>1, <1>8, <2>1, ZenonT(30)
    <3>3. VotersCounted(m)'
      BY <3>1, <3>2, ZenonT(30) DEF VotersCounted
    <3>4. ASSUME NEW u \in Txs PROVE TallyExact(m, u)'
      <4>1. /\ counted[m][u] \subseteq voted[m]
            /\ u # decided => Entry(unconfirmed[m][u]) = Weight[counted[m][u]]
            /\ u # decided /\ call[m].tx = u => call[m].read = Weight[counted[m][u]]
            /\ \A c \in Correct : c \in counted[m][u] \/ (call[m].from = c /\ call[m].tx = u) => acked[c] = u
        BY <3>1, Zenon DEF TallyExact
      <4>2. /\ counted'[m][u] \subseteq voted'[m]
            /\ u # decided' => Entry(unconfirmed'[m][u]) = Weight[counted'[m][u]]
        BY <3>2, <4>1
      <4>3. u # decided' /\ call'[m].tx = u => call'[m].read = Weight[counted'[m][u]]
        BY <3>2, <4>1
      <4>4. \A c \in Correct : c \in counted'[m][u] \/ (call'[m].from = c /\ call'[m].tx = u) => acked'[c] = u
        BY <3>2, <4>1
      <4> QED
        BY <4>2, <4>3, <4>4, Zenon DEF TallyExact
    <3> QED
      BY <3>3, <3>4, Zenon
  <2>2. CASE m = n
    <3>1. /\ stakeReceived'[n] = Weight[voted'[n]]
          /\ handler[n].stage = "adding" => decided # NoTx
      BY <1>6, <1>8 DEF TallyInv, VotersCounted, TallyExact
    <3>2. call'[n] = NoAck /\ \A u \in Txs : call'[n].tx # u
      BY <1>8 DEF NoAck, RivalsAssumption
    <3>3. ASSUME NEW u \in Txs, u # t
          PROVE  /\ counted'[n][u] \subseteq voted'[n]
                 /\ u # decided => Entry(unconfirmed'[n][u]) = Weight[counted'[n][u]]
                 /\ \A c \in Correct : c \in counted'[n][u] => acked[c] = u
      <4>1. /\ counted[n][u] \subseteq voted[n]
            /\ u # decided => Entry(unconfirmed[n][u]) = Weight[counted[n][u]]
            /\ \A c \in Correct : c \in counted[n][u] => acked[c] = u
        BY SMTT(30) DEF TallyInv, VotersCounted, TallyExact
      <4> QED
        BY <1>8, <3>3, <4>1, Zenon
    <3>4. /\ counted'[n][t] \subseteq voted'[n]
          /\ t # decided => Entry(unconfirmed'[n][t]) = Weight[counted'[n][t]]
      BY <1>3, <1>5, <1>7, <1>8, SMTT(30) DEF Entry, Missing
    <3>5. \A c \in Correct : c \in counted'[n][t] => acked[c] = t
      BY <1>0, <1>8, SMTT(30) DEF TallyInv, VotersCounted, TallyExact
    <3> QED
      BY <1>1, <2>2, <3>1, <3>2, <3>3, <3>4, <3>5, ZenonT(30) DEF VotersCounted, TallyExact
  <2> QED
    BY <2>1, <2>2
<1>10. ConfirmedBacked'
  <2> SUFFICES ASSUME NEW m \in Correct, NEW u \in confirmed'[m], u # decided
               PROVE  Weight[counted'[m][u]] > QuorumStake
    BY <1>1, Zenon DEF ConfirmedBacked
  <2>0. u \in Txs
    BY <1>4, Zenon DEF MultishotTypeOK
  <2>1. CASE m # n
    BY <1>8, <2>1, Zenon DEF ConfirmedBacked
  <2>2. CASE m = n /\ u # t
    BY <1>8, <2>0, <2>2 DEF ConfirmedBacked
  <2>3. CASE m = n /\ u = t /\ Confirms(w)
    BY <1>7, <1>8, <2>3, Zenon DEF Confirms
  <2>4. CASE m = n /\ u = t /\ u \in confirmed[n]
    <3>1. Weight[counted[n][t]] > QuorumStake
      BY <2>4, Zenon DEF ConfirmedBacked
    <3>2. Weight[counted[n][t]] <= Weight[counted[n][t] \cup {v}]
      BY <1>5, WeightMonotone
    <3>3. Weight[counted[n][t]] \in Nat /\ Weight[counted[n][t] \cup {v}] \in Nat /\ QuorumStake \in Nat
      BY <1>5, QuorumType, Zenon DEF RivalsAssumption
    <3> QED
      <4>1. counted'[m][u] = counted[n][t] \cup {v}
        BY <1>8, <2>4, Zenon
      <4> QED
        BY <3>1, <3>2, <3>3, <4>1
  <2> QED
    BY <1>8, <2>1, <2>2, <2>3, <2>4
<1> QED
  BY <1>4, <1>9, <1>10, Zenon

(* The decision, and the handler's addition, touch the decided transaction   *)
(* only.                                                                    *)
LEMMA DecisionInv ==
    ASSUME RivalsAssumption, TallySound,
           (\E t \in Txs : Decide(t)) \/ (\E n \in Correct : DecisionRead(n) \/ DecisionWrite(n))
    PROVE  TallySound'
<1> USE DEF TallySound
<1>1. ASSUME NEW t \in Txs, Decide(t) PROVE TallySound'
  <2>1. decided = NoTx /\ decided' = t /\ t # NoTx
        /\ UNCHANGED <<pool, call, handler, acked, proposals, panicked, counted>>
    BY <1>1, Zenon DEF Decide, RivalsAssumption
  <2>2. MultishotTypeOK'
    BY <2>1, Zenon DEF MultishotTypeOK, pool
  <2>3. ConfirmedBacked'
    <3>1. \A n \in Correct : confirmed[n] \subseteq Txs
      BY DEF MultishotTypeOK
    <3> QED
      BY <2>1, <3>1 DEF ConfirmedBacked, pool, RivalsAssumption
  <2>4. TallyInv'
    BY <2>1, TallyKept, Zenon DEF pool
  <2> QED
    BY <2>2, <2>3, <2>4
<1>2. ASSUME NEW n \in Correct, DecisionRead(n) PROVE TallySound'
  <2>1. /\ UNCHANGED <<pool, call, acked, proposals, decided, counted>>
        /\ decided # NoTx
        /\ \/ panicked' = panicked \cup {n} /\ handler' = handler
           \/ /\ unconfirmed[n][decided] # Missing
              /\ handler' = [handler EXCEPT ![n] = [stage |-> "adding", read |-> unconfirmed[n][decided]]]
              /\ panicked' = panicked
    BY <1>2, Zenon DEF DecisionRead
  <2>2. decided \in Txs /\ unconfirmed[n][decided] \in Nat \cup {Missing}
    BY <2>1 DEF MultishotTypeOK
  <2>3. MultishotTypeOK'
    <3>1. handler' \in [Correct -> [stage: {"waiting", "adding", "handled"}, read: Nat]]
      <4>1. unconfirmed[n][decided] # Missing => unconfirmed[n][decided] \in Nat
        BY <2>2, Zenon
      <4>2. handler' = handler \/ \E k \in Nat : handler' = [handler EXCEPT ![n] = [stage |-> "adding", read |-> k]]
        BY <2>1, <4>1, Zenon
      <4> DEFINE H == [stage: {"waiting", "adding", "handled"}, read: Nat]
      <4>3. handler \in [Correct -> H]
        BY DEF MultishotTypeOK
      <4>4. \A k \in Nat : [stage |-> "adding", read |-> k] \in H
        OBVIOUS
      <4> HIDE DEF H
      <4>5. handler' \in [Correct -> H]
        BY <4>2, <4>3, <4>4, Zenon
      <4> QED
        BY <4>5, Zenon DEF H
    <3>2. panicked' \subseteq Correct
      BY <2>1, Zenon DEF MultishotTypeOK
    <3> QED
      BY <2>1, <3>1, <3>2 DEF MultishotTypeOK, pool
  <2>4. ConfirmedBacked'
    BY <2>1, Zenon DEF ConfirmedBacked, pool
  <2>5. TallyInv'
    BY <2>1, TallyKept, Zenon DEF pool
  <2> QED
    BY <2>3, <2>4, <2>5, Zenon
<1>3. ASSUME NEW n \in Correct, DecisionWrite(n) PROVE TallySound'
  <2>1. /\ UNCHANGED <<voted, stakeReceived, confirmed, call, acked, proposals, decided, panicked, counted>>
        /\ handler[n].stage = "adding" /\ handler' = [handler EXCEPT ![n] = Handled]
        /\ unconfirmed' = [unconfirmed EXCEPT ![n][decided] = handler[n].read + QuorumStake + 1]
    BY <1>3, Zenon DEF DecisionWrite
  <2>2. decided \in Txs /\ handler[n].read \in Nat
    BY <2>1, Zenon DEF MultishotTypeOK, TallyInv, VotersCounted, TallyExact
  <2>3. handler[n].read + QuorumStake + 1 \in Nat
    BY <2>2, QuorumType
  <2>4. \A m \in Correct, u \in Txs : u # decided => unconfirmed'[m][u] = unconfirmed[m][u]
    BY <2>1, Zenon DEF MultishotTypeOK
  <2>5. \A m \in Correct : handler'[m].stage = "adding" => handler[m].stage = "adding"
    BY <2>1, Zenon DEF MultishotTypeOK, Handled
  <2>6. MultishotTypeOK'
    <3>1. unconfirmed' \in [Correct -> [Txs -> Nat \cup {Missing}]]
      BY <2>1, <2>2, <2>3, Zenon DEF MultishotTypeOK
    <3>2. handler' \in [Correct -> [stage: {"waiting", "adding", "handled"}, read: Nat]]
      BY <2>1 DEF MultishotTypeOK, Handled
    <3> QED
      BY <2>1, <3>1, <3>2, Zenon DEF MultishotTypeOK
  <2>7. ConfirmedBacked'
    BY <2>1, Zenon DEF ConfirmedBacked
  <2>8. TallyInv'
    BY <2>1, <2>4, <2>5, TallyKept
  <2> QED
    BY <2>6, <2>7, <2>8
<1> QED
  BY <1>1, <1>2, <1>3

(* Every step keeps the invariant.                                          *)
LEMMA MultishotSteps ==
    ASSUME RivalsAssumption, TallySound, [MultishotNext]_multishotVars
    PROVE  TallySound'
<1>1. ASSUME NEW n \in Correct, NEW t \in Txs, OwnAck(n, t) PROVE TallySound'
  <2>1. acked[n] = NoTx /\ AckStart(n, n, t) /\ acked' = [acked EXCEPT ![n] = t]
    BY <1>1, Zenon DEF OwnAck
  <2>2. acked \in [Correct -> Txs \cup {NoTx}] /\ n \in Validators
    BY DEF TallySound, MultishotTypeOK, Correct
  <2>3. acked' \in [Correct -> Txs \cup {NoTx}] /\ acked'[n] = t
        /\ \A c \in Correct : acked[c] # NoTx => acked'[c] = acked[c]
    BY <2>1, <2>2
  <2> QED
    BY <2>1, <2>2, <2>3, AckStartInv
<1>2. ASSUME NEW n \in Correct, NEW v \in Validators, NEW t \in Txs, BlockAck(n, v, t) PROVE TallySound'
  <2>1. acked' = acked /\ AckStart(n, v, t) /\ (v \in Correct => acked[v] = t)
    BY <1>2 DEF BlockAck
  <2>2. acked \in [Correct -> Txs \cup {NoTx}]
    BY DEF TallySound, MultishotTypeOK
  <2> QED
    BY <2>1, <2>2, AckStartInv
<1>3. CASE UNCHANGED multishotVars
  <2>1. MultishotTypeOK' /\ ConfirmedBacked'
    BY <1>3, Zenon DEF multishotVars, pool, TallySound, MultishotTypeOK, ConfirmedBacked
  <2>2. TallyInv'
    BY <1>3, TallyKept, Zenon DEF multishotVars, pool, TallySound
  <2> QED
    BY <2>1, <2>2, Zenon DEF TallySound
<1> QED
  BY <1>1, <1>2, <1>3, AckEndInv, DecisionInv, Zenon DEF MultishotNext

(* For any validators and stakes, what addAck reports confirmed was decided  *)
(* by the contract or has more than 4/5 of the stake among the validators    *)
(* counted for it: the handler's unlocked addition cannot confirm another.   *)
THEOREM ConfirmedHasStake ==
    ASSUME RivalsAssumption
    PROVE  MultishotSpec => []TallySound
<1>1. MultishotInit => TallySound
  BY MultishotStarts
<1>2. TallySound /\ [MultishotNext]_multishotVars => TallySound'
  BY MultishotSteps
<1> QED
  BY <1>1, <1>2, PTL DEF MultishotSpec

(* With faulty validators within the bound, two rivals are confirmed only if *)
(* one of them was decided by the contract.                                 *)
THEOREM RivalsNeedDecision ==
    ASSUME RivalsAssumption, FaultBound
    PROVE  MultishotSpec => []RivalsOnlyByDecision
<1>1. TallySound => RivalsOnlyByDecision
  <2> SUFFICES ASSUME TallySound, NEW m \in Correct, NEW n \in Correct,
                      NEW t \in confirmed[m], NEW u \in confirmed[n], t # u, t # decided, u # decided
               PROVE  FALSE
    BY Zenon DEF RivalsOnlyByDecision
  <2> DEFINE A == counted[m][t]
             B == counted[n][u]
  <2>1. t \in Txs /\ u \in Txs /\ A \in SUBSET Validators /\ B \in SUBSET Validators
        /\ Faulty \in SUBSET Validators
    BY DEF TallySound, MultishotTypeOK, RivalsAssumption
  <2>2. Weight[A] > QuorumStake /\ Weight[B] > QuorumStake
    BY Zenon DEF TallySound, ConfirmedBacked
  <2>3. A \cap B \subseteq Faulty
    <3> SUFFICES ASSUME NEW v \in A \cap B, v \in Correct PROVE FALSE
      BY <2>1, Zenon DEF Correct
    <3>1. acked[v] = t /\ acked[v] = u
      BY <2>1 DEF TallySound, TallyInv, VotersCounted, TallyExact
    <3> QED
      BY <3>1, Zenon
  <2> HIDE DEF A, B
  <2>4. Weight[A \cup B] + Weight[A \cap B] = Weight[A] + Weight[B]
    BY <2>1, Zenon DEF RivalsAssumption
  <2>5. A \cup B \in SUBSET Validators /\ A \cap B \in SUBSET Validators /\ A \cap B \in SUBSET Faulty
        /\ Validators \in SUBSET Validators
    BY <2>1, <2>3, Zenon
  <2>6. Weight[A \cup B] <= Weight[Validators] /\ Weight[A \cap B] <= Weight[Faulty]
    BY <2>1, <2>5, WeightMonotone, Zenon
  <2>7. /\ Weight[A] \in Nat /\ Weight[B] \in Nat /\ Weight[A \cup B] \in Nat /\ Weight[A \cap B] \in Nat
        /\ Weight[Faulty] \in Nat /\ Weight[Validators] \in Nat /\ QuorumStake \in Nat
    BY <2>1, <2>5, QuorumType, Zenon DEF RivalsAssumption
  <2> QED
    BY <2>2, <2>4, <2>6, <2>7 DEF FaultBound
<1> QED
  BY <1>1, ConfirmedHasStake, PTL

-----------------------------------------------------------------------------
(* The inductive invariant of the control loops.                            *)
ControlIInv == ControlTypeOK /\ ControlInv

(* The constants are naturals.                                              *)
LEMMA ControlConstants ==
    ASSUME ControlAssumption
    PROVE  resubmitAdjustChanSize \in Nat /\ Intervals \subseteq Nat /\ Ratios \subseteq 0 .. 10
BY DEF ControlAssumption

(* The tail of a list.                                                      *)
LEMMA TailIn ==
    ASSUME NEW S, NEW q \in Seq(S), q # <<>>
    PROVE  Head(q) \in S /\ Tail(q) \in Seq(S) /\ Len(Tail(q)) = Len(q) - 1
OBVIOUS

(* A new miner does not run, and its interval is the configured one.        *)
LEMMA ControlStarts == ASSUME ControlAssumption, ControlInit PROVE ControlIInv
<1>1. recommit \in Nat /\ minRecommit = recommit
  BY ControlConstants DEF ControlInit, minRecommitInterval
<1>2. <<>> \in Seq({"start", "done", "failed"}) /\ <<>> \in Seq(0 .. 10) /\ <<>> \in Seq({0})
      /\ <<>> \in Seq({"local", "remote"}) /\ Len(<<>>) = 0
  OBVIOUS
<1>3. ControlTypeOK
  <2>1. Len(adjusts) <= resubmitAdjustChanSize
    BY <1>2, ControlConstants DEF ControlInit
  <2> QED
    BY <1>1, <1>2, <2>1, Zenon DEF ControlInit, ControlTypeOK
<1>4. ControlInv
  BY <1>1, <1>2, Zenon DEF ControlInit, ControlInv
<1> QED
  BY <1>3, <1>4 DEF ControlIInv

(* Miner.update and the calls of the user.                                  *)
LEMMA UpdateInv ==
    ASSUME ControlAssumption, ControlIInv, Sync \/ SyncStarted \/ SyncEnded \/ Start \/ Stop
    PROVE  ControlIInv'
<1> USE DEF ControlIInv
<1>0. UNCHANGED <<workVars, rateVars>>
  BY DEF Sync, Post, SyncStarted, SyncEnded, Start, Stop
<1>1. syncing' \in Seq({"start", "done", "failed"})
  <2>1. CASE Sync
    BY <2>1 DEF Sync, Post, ControlTypeOK
  <2>2. CASE SyncStarted \/ SyncEnded
    <3>1. syncing \in Seq({"start", "done", "failed"}) /\ syncing # <<>>
      BY <2>2 DEF SyncStarted, SyncEnded, ControlTypeOK
    <3>2. Tail(syncing) \in Seq({"start", "done", "failed"}) /\ <<>> \in Seq({"start", "done", "failed"})
      BY <3>1
    <3>3. syncing' \in {<<>>, Tail(syncing)}
      BY <2>2, Zenon DEF SyncStarted, SyncEnded
    <3> QED
      BY <3>2, <3>3, Zenon
  <2>3. CASE Start \/ Stop
    BY <2>3, Zenon DEF Start, Stop, ControlTypeOK
  <2> QED
    BY <2>1, <2>2, <2>3, Zenon
<1>2. /\ running' \in BOOLEAN /\ shouldStart' \in BOOLEAN /\ canStart' \in BOOLEAN /\ wanted' \in BOOLEAN
      /\ canStart' => running' = wanted'
      /\ ~canStart' => ~running' /\ shouldStart' = wanted'
      /\ shouldStart' => wanted'
  <2>0. /\ running \in BOOLEAN /\ shouldStart \in BOOLEAN /\ canStart \in BOOLEAN /\ wanted \in BOOLEAN
        /\ canStart => running = wanted
        /\ ~canStart => ~running /\ shouldStart = wanted
        /\ shouldStart => wanted
    BY DEF ControlTypeOK, ControlInv
  <2>1. CASE Sync
    <3>1. UNCHANGED <<running, shouldStart, canStart, wanted>>
      BY <2>1 DEF Sync, Post
    <3> QED
      BY <2>0, <3>1, Zenon
  <2>2. CASE SyncStarted
    BY <2>0, <2>2, Zenon DEF SyncStarted
  <2>3. CASE SyncEnded
    BY <2>0, <2>3, Zenon DEF SyncEnded, workerStart
  <2>4. CASE Start
    BY <2>0, <2>4, Zenon DEF Start, workerStart
  <2>5. CASE Stop
    BY <2>0, <2>5, Zenon DEF Stop
  <2> QED
    BY <2>1, <2>2, <2>3, <2>4, <2>5, Zenon
<1>3. ControlTypeOK'
  BY <1>0, <1>1, <1>2 DEF ControlTypeOK, workVars, rateVars
<1>4. ControlInv'
  BY <1>0, <1>2, Zenon DEF ControlInv, workVars, rateVars
<1> QED
  BY <1>3, <1>4, Zenon

(* A step of the loops leaves what the user asked for alone.                *)
LEMMA LoopInv ==
    ASSUME ControlIInv, UNCHANGED <<running, userVars>>,
           newTxs' \in BOOLEAN, newWork' \in {"select", "send", "taken"},
           main' \in {"select", "local", "remote", "dec"},
           rest' \in Seq({"local", "remote"}),
           signal' \in {"none", "newHead", "resubmit"},
           adjusts' \in Seq({0}), Len(adjusts') <= resubmitAdjustChanSize,
           minRecommit' \in Nat, recommit' = minRecommit',
           main' # "select" => /\ signal' # "none" <=> newWork' = "send"
                               /\ newWork' # "taken" => ~newTxs'
                               /\ signal' # "resubmit"
    PROVE  ControlIInv'
<1>1. adjusts' \in Seq(0 .. 10)
  OBVIOUS
<1>2. ControlTypeOK'
  BY <1>1 DEF ControlIInv, ControlTypeOK, userVars
<1>3. ControlInv'
  BY Zenon DEF ControlIInv, ControlInv, userVars
<1> QED
  BY <1>2, <1>3 DEF ControlIInv

(* newWorkLoop and its timer.                                               *)
LEMMA NewWorkInv ==
    ASSUME ControlAssumption, ControlIInv,
           NewStart \/ NewHead \/ Fire \/ Tick \/ ResetTimer \/ TxsCh
    PROVE  ControlIInv'
<1>0. /\ newTxs \in BOOLEAN /\ newWork \in {"select", "send", "taken"}
      /\ main \in {"select", "local", "remote", "dec"} /\ rest \in Seq({"local", "remote"})
      /\ signal \in {"none", "newHead", "resubmit"}
      /\ adjusts \in Seq({0}) /\ Len(adjusts) <= resubmitAdjustChanSize
      /\ minRecommit \in Nat /\ recommit = minRecommit
      /\ main # "select" => /\ signal # "none" <=> newWork = "send"
                            /\ newWork # "taken" => ~newTxs
                            /\ signal # "resubmit"
  BY Zenon DEF ControlIInv, ControlTypeOK, ControlInv
<1>1. UNCHANGED <<running, userVars, main, rest, rateVars>>
  BY DEF NewStart, NewHead, Fire, Tick, ResetTimer, TxsCh
<1>2. /\ newTxs' \in BOOLEAN /\ newWork' \in {"select", "send", "taken"}
      /\ signal' \in {"none", "newHead", "resubmit"}
      /\ main' # "select" => /\ signal' # "none" <=> newWork' = "send"
                             /\ newWork' # "taken" => ~newTxs'
                             /\ signal' # "resubmit"
  <2>1. CASE NewStart \/ NewHead
    BY <1>0, <1>1, <2>1 DEF NewStart, NewHead, commit
  <2>2. CASE Fire
    BY <1>0, <1>1, <2>2, Zenon DEF Fire
  <2>3. CASE Tick
    BY <1>0, <1>1, <2>3, Zenon DEF Tick, commit
  <2>4. CASE TxsCh
    BY <1>0, <1>1, <2>4 DEF TxsCh
  <2>5. CASE ResetTimer
    BY <1>0, <1>1, <2>5 DEF ResetTimer
  <2> QED
    BY <2>1, <2>2, <2>3, <2>4, <2>5, Zenon
<1> QED
  BY <1>0, <1>1, <1>2, LoopInv, Zenon DEF rateVars

(* A change of the interval, by the user or by feedback, which shortens an    *)
(* interval that is as short as the user allows.                             *)
LEMMA RateInv ==
    ASSUME ControlAssumption, ControlIInv,
           Adjust \/ \E i \in Intervals : SetRecommitInterval(i)
    PROVE  ControlIInv'
<1>0. /\ newTxs \in BOOLEAN /\ newWork \in {"select", "send", "taken"}
      /\ main \in {"select", "local", "remote", "dec"} /\ rest \in Seq({"local", "remote"})
      /\ signal \in {"none", "newHead", "resubmit"}
      /\ adjusts \in Seq({0}) /\ Len(adjusts) <= resubmitAdjustChanSize
      /\ minRecommit \in Nat /\ recommit = minRecommit
      /\ main # "select" => /\ signal # "none" <=> newWork = "send"
                            /\ newWork # "taken" => ~newTxs
                            /\ signal # "resubmit"
  BY Zenon DEF ControlIInv, ControlTypeOK, ControlInv
<1>1. CASE Adjust
  <2>1. /\ adjusts # <<>> /\ adjusts' = Tail(adjusts) /\ recommit' = recalcRecommit(recommit, Head(adjusts))
        /\ UNCHANGED <<running, userVars, workVars, minRecommit>>
    BY <1>1 DEF Adjust
  <2>2. Head(adjusts) = 0 /\ Tail(adjusts) \in Seq({0}) /\ Len(Tail(adjusts)) = Len(adjusts) - 1
    BY <1>0, <2>1, TailIn
  <2>3. Len(Tail(adjusts)) <= resubmitAdjustChanSize
    BY <1>0, <2>2, ControlConstants
  <2>4. recalcRecommit(recommit, 0) = minRecommit
    BY <1>0 DEF recalcRecommit, Greatest, intervalAdjustBias
  <2> QED
    BY <1>0, <2>1, <2>2, <2>3, <2>4, LoopInv, Zenon DEF workVars
<1>2. ASSUME NEW i \in Intervals, SetRecommitInterval(i) PROVE ControlIInv'
  <2>1. /\ minRecommit' = (IF i < minRecommitInterval THEN minRecommitInterval ELSE i)
        /\ recommit' = minRecommit' /\ UNCHANGED <<running, userVars, workVars, adjusts>>
    BY <1>2 DEF SetRecommitInterval
  <2>2. minRecommit' \in Nat
    BY <2>1, ControlConstants DEF minRecommitInterval
  <2> QED
    BY <1>0, <2>1, <2>2, LoopInv, Zenon DEF workVars
<1> QED
  BY <1>1, <1>2, Zenon

(* mainLoop: a batch is begun without a signal, and never asks for a longer   *)
(* interval.                                                                 *)
LEMMA MainInv ==
    ASSUME ControlAssumption, ControlIInv,
           \/ \E b \in Batches : TakeWork(b)
           \/ CommitBatch
           \/ \E r \in Ratios : Feedback(r)
    PROVE  ControlIInv'
<1>0. /\ newTxs \in BOOLEAN /\ newWork \in {"select", "send", "taken"}
      /\ main \in {"select", "local", "remote", "dec"} /\ rest \in Seq({"local", "remote"})
      /\ signal \in {"none", "newHead", "resubmit"}
      /\ adjusts \in Seq({0}) /\ Len(adjusts) <= resubmitAdjustChanSize
      /\ minRecommit \in Nat /\ recommit = minRecommit
      /\ main # "select" => /\ signal # "none" <=> newWork = "send"
                            /\ newWork # "taken" => ~newTxs
                            /\ signal # "resubmit"
  BY DEF ControlIInv, ControlTypeOK, ControlInv
<1>1. ASSUME NEW b \in Seq({"local", "remote"}), NextBatch(b)
      PROVE  main' \in {"select", "local", "remote", "dec"} /\ rest' \in Seq({"local", "remote"})
  BY <1>1, TailIn DEF NextBatch
<1>2. ASSUME NEW b \in Batches, TakeWork(b) PROVE ControlIInv'
  <2>1. /\ newWork' = "taken" /\ signal' = "none" /\ NextBatch(b)
        /\ UNCHANGED <<running, userVars, newTxs, rateVars>>
    BY <1>2 DEF TakeWork
  <2>2. b \in Seq({"local", "remote"})
    <3>1. <<>> \in Seq({"local", "remote"}) /\ <<"local">> \in Seq({"local", "remote"})
          /\ <<"remote">> \in Seq({"local", "remote"}) /\ <<"local", "remote">> \in Seq({"local", "remote"})
      OBVIOUS
    <3> QED
      BY <3>1, Zenon DEF Batches
  <2> QED
    BY <1>0, <1>1, <2>1, <2>2, LoopInv, Zenon DEF rateVars
<1>3. CASE CommitBatch
  <2>1. main \in {"local", "remote"} /\ UNCHANGED <<running, userVars, newWork, signal, newTxs, rateVars>>
    BY <1>3, Zenon DEF CommitBatch
  <2>2. main' \in {"select", "dec"} /\ rest' \in {<<>>, rest}
    BY <1>0, <1>3, <2>1 DEF CommitBatch
  <2>3. rest' \in Seq({"local", "remote"})
    <3>1. <<>> \in Seq({"local", "remote"})
      OBVIOUS
    <3> QED
      BY <1>0, <2>2, <3>1, Zenon
  <2> QED
    BY <1>0, <2>1, <2>2, <2>3, LoopInv, Zenon DEF rateVars
<1>4. ASSUME NEW r \in Ratios, Feedback(r) PROVE ControlIInv'
  <2>1. /\ main = "dec" /\ Len(adjusts) < resubmitAdjustChanSize /\ adjusts' = Append(adjusts, 0)
        /\ NextBatch(rest)
        /\ UNCHANGED <<running, userVars, newWork, signal, newTxs, minRecommit, recommit>>
    BY <1>0, <1>4 DEF Feedback
  <2>2. adjusts' \in Seq({0}) /\ Len(adjusts') = Len(adjusts) + 1
    BY <1>0, <2>1
  <2>3. Len(adjusts') <= resubmitAdjustChanSize
    BY <1>0, <2>1, <2>2, ControlConstants
  <2> QED
    BY <1>0, <1>1, <2>1, <2>2, <2>3, LoopInv, Zenon
<1> QED
  BY <1>2, <1>3, <1>4, Zenon

(* Every step keeps the invariant.                                          *)
LEMMA ControlSteps ==
    ASSUME ControlAssumption, ControlIInv, [ControlNext]_controlVars
    PROVE  ControlIInv'
<1>1. CASE UNCHANGED controlVars
  <2>1. ControlTypeOK'
    BY <1>1 DEF controlVars, userVars, workVars, rateVars, ControlIInv, ControlTypeOK
  <2>2. ControlInv'
    BY <1>1, Zenon DEF controlVars, userVars, workVars, rateVars, ControlIInv, ControlInv
  <2> QED
    BY <2>1, <2>2, Zenon DEF ControlIInv
<1> QED
  BY <1>1, UpdateInv, NewWorkInv, RateInv, MainInv DEF ControlNext

(* Miner.update pauses the worker during a synchronisation and keeps the       *)
(* user's last wish; a block is cut short only for a newer request that        *)
(* newWorkLoop is offering, and never to be resubmitted; and, as a             *)
(* consequence, recalcRecommit never moves the interval away from the user's. *)
THEOREM MinerIsControlled ==
    ASSUME ControlAssumption
    PROVE  ControlSpec => []MinerControlled
<1>1. ControlInit => ControlIInv
  BY ControlStarts
<1>2. ControlIInv /\ [ControlNext]_controlVars => ControlIInv'
  BY ControlSteps
<1>3. ControlIInv => MinerControlled
  BY DEF ControlIInv, ControlTypeOK, ControlInv, MinerControlled, PausedWhileSyncing, WishKept, InterruptedForNewer,
         ResubmitNeverInterrupts, IntervalIsUsers
<1> QED
  BY <1>1, <1>2, <1>3, PTL DEF ControlSpec

-----------------------------------------------------------------------------
(* The three facts about the chain that the steps keep together.            *)
ChainKept == CanonicalKept /\ TablesAligned /\ NoGap

(* The inductive invariant of the freezer.                                  *)
FreezerIInv == FreezerTypeOK /\ BatchInv /\ ChainKept

(* The order of the naturals as a set of pairs.                             *)
LessThan == {p \in Nat \X Nat : p[1] < p[2]}

(* A set of naturals has a least element, which Min finds.                  *)
LEMMA LeastNat ==
    ASSUME NEW S \in SUBSET Nat, S # {}
    PROVE  Min(S) \in S /\ \A y \in S : Min(S) <= y
<1>1. LessThan = OpToRel(<, Nat)
  BY Zenon DEF OpToRel, LessThan
<1>2. IsWellFoundedOn(LessThan, Nat)
  BY <1>1, NatLessThanWellFounded, Zenon
<1>3. \A x, y \in Nat : <<x, y>> \in LessThan <=> x < y
  BY DEF LessThan
<1>4. PICK x \in S : \A y \in S : ~(<<y, x>> \in LessThan)
  BY <1>2, WFMin, Zenon
<1>5. \A y \in S : ~(y < x)
  BY <1>3, <1>4, Zenon
<1>6. \A y \in S : x <= y
  BY <1>5
<1> QED
  BY <1>6, Zenon DEF Min

(* The bounds are natural numbers, and there is a table.                    *)
LEMMA FreezerConstants ==
    ASSUME FreezerAssumption
    PROVE  /\ threshold \in Nat /\ freezerBatchLimit \in Nat /\ MaxHeight \in Nat /\ MaxFailures \in Nat
           /\ Own \notin Others /\ Tables # {}
BY Zenon DEF FreezerAssumption

(* repair: all tables are cut to the shortest, and what every table had      *)
(* synced stays synced.                                                     *)
LEMMA Repaired ==
    ASSUME FreezerAssumption, table \in [Tables -> [items: Nat, synced: Nat]],
           \A t \in Tables : table[t].synced <= table[t].items
    PROVE  /\ Shortest \in Nat /\ \E t \in Tables : table[t].items = Shortest
           /\ \A t \in Tables : Shortest <= table[t].items
           /\ Truncated(Shortest) \in [Tables -> [items: Nat, synced: Nat]]
           /\ \A t \in Tables : /\ Truncated(Shortest)[t].items = Shortest
                                /\ Truncated(Shortest)[t].synced <= Shortest
           /\ \A n \in Nat : (\A t \in Tables : table[t].synced > n)
                                => \A t \in Tables : Truncated(Shortest)[t].synced > n
<1> DEFINE S == {table[t].items : t \in Tables}
<1>1. S \in SUBSET Nat /\ S # {}
  BY FreezerConstants
<1>2. Min(S) \in S /\ \A y \in S : Min(S) <= y
  BY <1>1, LeastNat, Zenon
<1>3. /\ Shortest \in Nat /\ \E t \in Tables : table[t].items = Shortest
      /\ \A t \in Tables : Shortest <= table[t].items
  BY <1>1, <1>2, Zenon DEF Shortest
<1>4. ASSUME NEW t \in Tables
      PROVE  /\ Truncated(Shortest)[t] \in [items: Nat, synced: Nat]
             /\ Truncated(Shortest)[t].items = Shortest
             /\ Truncated(Shortest)[t].synced \in Nat
             /\ Truncated(Shortest)[t].synced \in {table[t].synced, Shortest}
             /\ Truncated(Shortest)[t].synced <= Shortest
  <2> DEFINE I == {table[t].items, Shortest}
             Y == {table[t].synced, Shortest}
  <2>1. I \in SUBSET Nat /\ I # {} /\ Y \in SUBSET Nat /\ Y # {}
    BY <1>3, Zenon
  <2>2. Min(I) \in I /\ \A y \in I : Min(I) <= y
    BY <2>1, LeastNat, Zenon
  <2>3. Min(Y) \in Y /\ \A y \in Y : Min(Y) <= y
    BY <2>1, LeastNat, Zenon
  <2>4. Truncated(Shortest)[t] = [items |-> Min(I), synced |-> Min(Y)]
    BY DEF Truncated
  <2>5. table[t].items \in Nat /\ table[t].synced \in Nat
    OBVIOUS
  <2>6. Min(I) = Shortest
    BY <1>3, <2>2, <2>5
  <2>7. Min(Y) \in Nat /\ Min(Y) <= Shortest /\ Min(Y) \in {table[t].synced, Shortest}
    BY <1>3, <2>3, <2>5
  <2> HIDE DEF I, Y
  <2> QED
    BY <1>3, <2>4, <2>6, <2>7, SMTT(30)
<1>5. Truncated(Shortest) \in [Tables -> [items: Nat, synced: Nat]]
  BY <1>4, Zenon DEF Truncated
<1>6. ASSUME NEW n \in Nat, \A t \in Tables : table[t].synced > n, NEW t \in Tables
      PROVE  Truncated(Shortest)[t].synced > n
  <2>1. PICK u \in Tables : table[u].items = Shortest
    BY <1>3
  <2>2. Shortest > n
    BY <1>6, <2>1
  <2> QED
    BY <1>4, <1>6, <2>2, Zenon
<1> QED
  BY <1>3, <1>4, <1>5, <1>6, Zenon

-----------------------------------------------------------------------------
(* A new database is empty.                                                 *)
LEMMA FreezerStarts == ASSUME FreezerAssumption, FreezerInit PROVE FreezerIInv
<1>1. FreezerTypeOK
  BY FreezerConstants, SMTT(30) DEF FreezerInit, FreezerTypeOK, Threads, IdleThread
<1>2. BatchInv
  BY SMTT(30) DEF FreezerInit, BatchInv, IdleThread
<1>3. ChainKept
  <2>1. height[Own] = 0 /\ 1 .. height[Own] = {}
    BY DEF FreezerInit
  <2> QED
    BY <2>1, Zenon DEF FreezerInit, ChainKept, CanonicalKept, TablesAligned, NoGap, IdleThread
<1> QED
  BY <1>1, <1>2, <1>3, Zenon DEF FreezerIInv

(* A block is written on its parent.                                        *)
LEMMA WriteBlockInv ==
    ASSUME FreezerAssumption, FreezerIInv, NEW c \in Others \cup {Own}, WriteBlock(c)
    PROVE  FreezerIInv'
<1> USE DEF FreezerIInv
<1>1. /\ height[c] < MaxHeight
      /\ height' = [height EXCEPT ![c] = height[c] + 1]
      /\ kv' = kv \cup {<<c, height[c] + 1>>}
      /\ UNCHANGED <<table, frozen, freeze, node, failures>>
  BY Zenon DEF WriteBlock
<1>2. height[c] \in 0 .. MaxHeight /\ MaxHeight \in Nat
  BY FreezerConstants, Zenon DEF FreezerTypeOK
<1>3. height[c] + 1 \in 1 .. MaxHeight
  BY <1>1, <1>2
<1>4. FreezerTypeOK'
  BY <1>1, <1>3 DEF FreezerTypeOK
<1>5. BatchInv'
  BY <1>1, Zenon DEF BatchInv
<1>6. CanonicalKept'
  <2>1. CASE c = Own
    <3>1. height'[Own] = height[Own] + 1 /\ height[Own] \in Nat
      BY <1>1, <1>2, <2>1 DEF FreezerTypeOK
    <3>2. \A n \in 1 .. height'[Own] : n \in 1 .. height[Own] \/ n = height[Own] + 1
      BY <3>1
    <3> QED
      BY <1>1, <2>1, <3>2, Zenon DEF ChainKept, CanonicalKept
  <2>2. CASE c # Own
    <3>1. height'[Own] = height[Own]
      BY <1>1, <2>2, Zenon DEF FreezerTypeOK
    <3> QED
      BY <1>1, <3>1, Zenon DEF ChainKept, CanonicalKept
  <2> QED
    BY <2>1, <2>2, Zenon
<1> QED
  BY <1>1, <1>4, <1>5, <1>6, Zenon DEF ChainKept, TablesAligned, NoGap

(* The thread takes up a batch.                                             *)
LEMMA FreezeStartInv ==
    ASSUME FreezerAssumption, FreezerIInv, FreezeStart
    PROVE  FreezerIInv'
<1> USE DEF FreezerIInv
<1> DEFINE L == {height[Own] - threshold, frozen + freezerBatchLimit}
<1>1. /\ node = "up" /\ freeze.pc = "idle" /\ height[Own] - threshold > frozen
      /\ freeze' = [pc |-> "append", first |-> frozen, todo |-> Tables, limit |-> Min(L)]
      /\ UNCHANGED <<height, kv, table, frozen, node, failures>>
  BY Zenon DEF FreezeStart
<1>2. L \in SUBSET Nat /\ L # {}
  BY <1>1, FreezerConstants, SMTT(30) DEF FreezerTypeOK
<1>3. Min(L) \in Nat
  BY <1>2, LeastNat, Zenon
<1> HIDE DEF L
<1>4. FreezerTypeOK'
  BY <1>1, <1>3, Zenon DEF FreezerTypeOK, Threads
<1>5. BatchInv'
  BY <1>1, FreezerConstants, Zenon DEF BatchInv, ChainKept, TablesAligned
<1> QED
  BY <1>1, <1>4, <1>5, Zenon DEF ChainKept, CanonicalKept, TablesAligned, NoGap

(* A block goes to one table; with the last table it is frozen.             *)
LEMMA AppendInv ==
    ASSUME FreezerAssumption, FreezerIInv, NEW t \in Tables, AppendAncient(t)
    PROVE  FreezerIInv'
<1> USE DEF FreezerIInv
<1>1. /\ freeze.pc = "append" /\ frozen <= freeze.limit /\ t \in freeze.todo
      /\ table' = [table EXCEPT ![t].items = @ + 1]
      /\ UNCHANGED <<height, kv, node, failures>>
  BY DEF AppendAncient
<1>2. /\ table' \in [Tables -> [items: Nat, synced: Nat]]
      /\ \A u \in Tables : /\ table'[u].synced = table[u].synced
                           /\ table'[u].items = IF u = t THEN table[u].items + 1 ELSE table[u].items
  BY <1>1 DEF FreezerTypeOK
<1>3. /\ freeze.todo \subseteq Tables
      /\ \A u \in Tables : /\ table[u].items = IF u \in freeze.todo THEN frozen ELSE frozen + 1
                           /\ table[u].synced <= table[u].items
                           /\ table[u].synced \in Nat /\ table[u].items \in Nat
      /\ frozen \in Nat
  BY <1>1 DEF BatchInv, FreezerTypeOK
<1>4. /\ freeze'.pc = "append" /\ freeze'.limit = freeze.limit
      /\ freeze' \in Threads
      /\ \/ freeze.todo = {t} /\ frozen' = frozen + 1 /\ freeze'.todo = Tables
         \/ freeze.todo # {t} /\ frozen' = frozen /\ freeze'.todo = freeze.todo \ {t}
  BY <1>1 DEF AppendAncient, FreezerTypeOK, Threads
<1>5. FreezerTypeOK'
  BY <1>1, <1>2, <1>3, <1>4 DEF FreezerTypeOK
<1>6. \A u \in Tables : table'[u].synced <= table'[u].items
  BY <1>2, <1>3
<1>7. \A u \in Tables : table'[u].items = IF u \in freeze'.todo THEN frozen' ELSE frozen' + 1
  BY <1>1, <1>2, <1>3, <1>4
<1>8. freeze'.todo \subseteq Tables /\ freeze'.todo # {} /\ (freeze'.todo # Tables => frozen' <= freeze'.limit)
  BY <1>1, <1>3, <1>4
<1>9. BatchInv'
  BY <1>1, <1>4, <1>6, <1>7, <1>8, Zenon DEF BatchInv
<1> QED
  BY <1>1, <1>2, <1>4, <1>5, <1>9 DEF ChainKept, CanonicalKept, TablesAligned, NoGap

(* Cutting the tables keeps every block of the own chain where it is.        *)
LEMMA TruncateKeeps ==
    ASSUME FreezerAssumption, FreezerIInv, table' = Truncated(Shortest), UNCHANGED <<height, kv>>
    PROVE  CanonicalKept'
<1>1. /\ table \in [Tables -> [items: Nat, synced: Nat]]
      /\ \A t \in Tables : table[t].synced <= table[t].items
      /\ CanonicalKept
  BY Zenon DEF FreezerIInv, FreezerTypeOK, BatchInv, ChainKept
<1>2. \A n \in 1 .. height[Own] : n \in Nat
  OBVIOUS
<1> QED
  BY <1>1, <1>2, Repaired, Zenon DEF CanonicalKept

(* An append that fails: the tables are cut to the shortest.                *)
LEMMA AppendFailsInv ==
    ASSUME FreezerAssumption, FreezerIInv, NEW t \in Tables, AppendFails(t)
    PROVE  FreezerIInv'
<1> USE DEF FreezerIInv
<1>1. /\ freeze.pc = "append" /\ failures < MaxFailures /\ failures' = failures + 1
      /\ table' = Truncated(Shortest) /\ frozen' = Shortest
      /\ freeze' = [freeze EXCEPT !.pc = "sync"]
      /\ UNCHANGED <<height, kv, node>>
  BY DEF AppendFails
<1>2. /\ freeze'.pc = "sync"
      /\ freeze' \in Threads
  BY <1>1 DEF FreezerTypeOK, Threads
<1>3. /\ Shortest \in Nat
      /\ table' \in [Tables -> [items: Nat, synced: Nat]]
      /\ \A u \in Tables : table'[u].items = Shortest /\ table'[u].synced <= Shortest
  BY <1>1, Repaired DEF FreezerTypeOK, BatchInv
<1>4. failures' \in 0 .. MaxFailures
  BY <1>1, FreezerConstants DEF FreezerTypeOK
<1>5. FreezerTypeOK'
  BY <1>1, <1>2, <1>3, <1>4 DEF FreezerTypeOK
<1>6. BatchInv'
  BY <1>1, <1>2, <1>3 DEF BatchInv
<1>7. CanonicalKept'
  BY <1>1, TruncateKeeps
<1>8. TablesAligned' /\ NoGap'
  BY <1>1, <1>3 DEF TablesAligned, NoGap, ChainKept
<1> QED
  BY <1>5, <1>6, <1>7, <1>8 DEF ChainKept

(* The tables are synced before anything is deleted.                        *)
LEMMA FreezeSyncInv ==
    ASSUME FreezerAssumption, FreezerIInv, FreezeSync
    PROVE  FreezerIInv'
<1> USE DEF FreezerIInv
<1>1. /\ freeze.pc = "sync" \/ (freeze.pc = "append" /\ frozen > freeze.limit)
      /\ table' = [t \in Tables |-> [table[t] EXCEPT !.synced = table[t].items]]
      /\ freeze' = [freeze EXCEPT !.pc = "wipe"]
      /\ UNCHANGED <<height, kv, frozen, node, failures>>
  BY DEF FreezeSync
<1>2. /\ table' \in [Tables -> [items: Nat, synced: Nat]]
      /\ \A t \in Tables : table'[t].items = table[t].items /\ table'[t].synced = table[t].items
  BY <1>1 DEF FreezerTypeOK
<1>3. node = "up" /\ \A t \in Tables : table[t].items = frozen
  <2>1. CASE freeze.pc = "sync"
    BY <2>1, Zenon DEF BatchInv, ChainKept, TablesAligned
  <2>2. CASE freeze.pc = "append" /\ frozen > freeze.limit
    <3>1. ~(frozen <= freeze.limit)
      BY <2>2 DEF FreezerTypeOK, Threads
    <3>2. freeze.todo = Tables
      BY <2>2, <3>1 DEF BatchInv
    <3> QED
      BY <2>2, <3>2, Zenon DEF BatchInv
  <2> QED
    BY <1>1, <2>1, <2>2, Zenon
<1>4. /\ freeze'.pc = "wipe"
      /\ freeze' \in Threads
  BY <1>1 DEF FreezerTypeOK, Threads
<1>5. FreezerTypeOK'
  BY <1>1, <1>2, <1>4 DEF FreezerTypeOK
<1>6. BatchInv'
  BY <1>1, <1>2, <1>3, <1>4 DEF BatchInv, FreezerTypeOK
<1>7. CanonicalKept'
  <2>1. \A t \in Tables : table[t].synced <= table[t].items /\ table[t].synced \in Nat /\ table[t].items \in Nat
    BY Zenon DEF BatchInv, FreezerTypeOK
  <2> SUFFICES ASSUME NEW n \in 1 .. height[Own], <<Own, n>> \notin kv, NEW t \in Tables
               PROVE  table'[t].synced > n
    BY <1>1, Zenon DEF CanonicalKept
  <2>2. table[t].synced > n
    BY Zenon DEF ChainKept, CanonicalKept
  <2> QED
    BY <1>2, <2>1, <2>2
<1> QED
  BY <1>1, <1>2, <1>3, <1>4, <1>5, <1>6, <1>7 DEF ChainKept, TablesAligned, NoGap

(* The deletions: of the own chain only what every table has synced.         *)
LEMMA FreezeDeletesInv ==
    ASSUME FreezerAssumption, FreezerIInv, FreezeWipe \/ FreezeSide \/ FreezeDangling
    PROVE  FreezerIInv'
<1> USE DEF FreezerIInv
<1>1. /\ UNCHANGED <<height, table, frozen, node, failures>> /\ kv' \subseteq kv
      /\ freeze.pc \in {"wipe", "side", "dangling"}
  BY Zenon DEF FreezeWipe, FreezeSide, FreezeDangling
<1>2. /\ freeze'.pc \in {"side", "dangling", "idle"}
      /\ freeze' \in Threads
      /\ freeze'.pc = "dangling" => freeze'.todo \subseteq Others
  <2>1. CASE FreezeWipe
    BY <2>1 DEF FreezeWipe, FreezerTypeOK, Threads
  <2>2. CASE FreezeSide
    <3> DEFINE D == {c \in Others : <<c, frozen - 1>> \in kv /\ Batch # {}}
    <3>1. D \subseteq Others /\ freeze' = [freeze EXCEPT !.pc = "dangling", !.todo = D]
      BY <2>2, Zenon DEF FreezeSide
    <3> HIDE DEF D
    <3> QED
      BY <3>1, Zenon DEF FreezerTypeOK, Threads
  <2>3. CASE FreezeDangling
    BY <2>3, Zenon DEF FreezeDangling, IdleThread, Threads
  <2> QED
    BY <2>1, <2>2, <2>3
<1>3. node = "up" /\ \A t \in Tables : table[t].synced = frozen /\ table[t].items = frozen
  BY <1>1, Zenon DEF BatchInv, ChainKept, TablesAligned
<1>4. FreezerTypeOK'
  BY <1>1, <1>2, Zenon DEF FreezerTypeOK
<1>5. BatchInv'
  BY <1>1, <1>2, <1>3, Zenon DEF BatchInv, FreezerTypeOK
<1>6. CanonicalKept'
  <2> SUFFICES ASSUME NEW n \in 1 .. height[Own], <<Own, n>> \in kv, <<Own, n>> \notin kv', NEW t \in Tables
               PROVE  table[t].synced > n
    BY <1>1 DEF ChainKept, CanonicalKept
  <2>1. Own \notin Others
    BY FreezerConstants, Zenon
  <2>2. CASE FreezeWipe
    <3>1. n \in Batch
      BY <2>2 DEF FreezeWipe
    <3> QED
      BY <1>3, <3>1 DEF Batch, FreezerTypeOK
  <2>3. CASE FreezeSide
    BY <2>1, <2>3, Zenon DEF FreezeSide
  <2>4. CASE FreezeDangling
    BY <2>1, <2>4, Zenon DEF FreezeDangling, BatchInv
  <2> QED
    BY <2>2, <2>3, <2>4, Zenon
<1> QED
  BY <1>1, <1>2, <1>3, <1>4, <1>5, <1>6, Zenon DEF ChainKept, TablesAligned, NoGap

(* A crash leaves of each table what was synced, or more.                   *)
LEMMA CrashInv ==
    ASSUME FreezerAssumption, FreezerIInv, Crash
    PROVE  FreezerIInv'
<1> USE DEF FreezerIInv
<1>1. PICK left \in [Tables -> 0 .. MaxHeight + 1] :
          /\ \A t \in Tables : left[t] \in table[t].synced .. table[t].items
          /\ table' = [t \in Tables |-> [items |-> left[t], synced |-> left[t]]]
  BY Zenon DEF Crash
<1>2. node' = "down" /\ freeze' = IdleThread /\ UNCHANGED <<height, kv, frozen, failures>>
  BY Zenon DEF Crash
<1>3. \A t \in Tables : table[t].synced \in Nat /\ left[t] \in Nat /\ left[t] >= table[t].synced
  BY <1>1, FreezerConstants, SMTT(30) DEF FreezerTypeOK
<1>4. /\ table' \in [Tables -> [items: Nat, synced: Nat]]
      /\ \A t \in Tables : table'[t].items = left[t] /\ table'[t].synced = left[t]
  BY <1>1, <1>3, Zenon
<1>5. FreezerTypeOK'
  BY <1>2, <1>4, Zenon DEF FreezerTypeOK, Threads, IdleThread
<1>6. BatchInv'
  BY <1>2, <1>3, <1>4, SMTT(30) DEF BatchInv, IdleThread
<1>7. CanonicalKept'
  <2> SUFFICES ASSUME NEW n \in 1 .. height[Own], <<Own, n>> \notin kv, NEW t \in Tables
               PROVE  table'[t].synced > n
    BY <1>2, Zenon DEF CanonicalKept
  <2>1. table[t].synced > n
    BY DEF ChainKept, CanonicalKept
  <2> QED
    BY <1>3, <1>4, <2>1, SMTT(30)
<1> QED
  BY <1>2, <1>5, <1>6, <1>7, Zenon DEF ChainKept, TablesAligned, NoGap

(* Opening: the first block after the shortest table is in the key-value      *)
(* store, for else every table would have synced it.                         *)
LEMMA OpenInv ==
    ASSUME FreezerAssumption, FreezerIInv, Open
    PROVE  FreezerIInv'
<1> USE DEF FreezerIInv
<1>1. /\ node = "down" /\ table' = Truncated(Shortest) /\ frozen' = Shortest
      /\ UNCHANGED <<height, kv, freeze, failures>>
  BY Zenon DEF Open
<1>2. /\ table \in [Tables -> [items: Nat, synced: Nat]]
      /\ \A t \in Tables : table[t].synced <= table[t].items
  BY Zenon DEF FreezerTypeOK, BatchInv
<1>3. /\ Shortest \in Nat
      /\ table' \in [Tables -> [items: Nat, synced: Nat]]
      /\ \A u \in Tables : table'[u].items = Shortest /\ table'[u].synced <= Shortest
  BY <1>1, <1>2, Repaired, Zenon
<1>4. PICK t \in Tables : table[t].items = Shortest
  BY <1>2, Repaired, Zenon
<1>5. freeze.pc = "idle"
  BY <1>1, Zenon DEF BatchInv
<1>6. ~(Shortest > 0 /\ <<Own, Shortest>> \notin kv /\ height[Own] > Shortest - 1)
  <2> SUFFICES ASSUME Shortest > 0, <<Own, Shortest>> \notin kv, height[Own] > Shortest - 1 PROVE FALSE
    OBVIOUS
  <2>1. Shortest \in 1 .. height[Own]
    BY <1>3 DEF FreezerTypeOK
  <2>2. table[t].synced > Shortest
    BY <2>1, Zenon DEF ChainKept, CanonicalKept
  <2>3. table[t].synced \in Nat /\ table[t].synced <= table[t].items
    BY <1>2, Zenon
  <2> QED
    BY <1>3, <1>4, <2>2, <2>3
<1>7. node' \in {"up", "panic"}
  BY <1>1, <1>6, Zenon DEF Open
<1>8. FreezerTypeOK'
  BY <1>1, <1>3, <1>7, Zenon DEF FreezerTypeOK
<1>9. BatchInv'
  BY <1>1, <1>3, <1>5, Zenon DEF BatchInv
<1>10. CanonicalKept'
  BY <1>1, TruncateKeeps, Zenon
<1>11. TablesAligned' /\ NoGap'
  BY <1>1, <1>3, <1>7, Zenon DEF TablesAligned, NoGap
<1> QED
  BY <1>8, <1>9, <1>10, <1>11, Zenon DEF ChainKept

(* Every step keeps the invariant.                                          *)
LEMMA FreezerSteps ==
    ASSUME FreezerAssumption, FreezerIInv, [FreezerNext]_freezerVars
    PROVE  FreezerIInv'
<1>1. CASE UNCHANGED freezerVars
  BY <1>1, Zenon DEF freezerVars, FreezerIInv, FreezerTypeOK, BatchInv, ChainKept, CanonicalKept, TablesAligned, NoGap
<1> QED
  BY <1>1, WriteBlockInv, AppendInv, AppendFailsInv, FreezeStartInv, FreezeSyncInv, FreezeDeletesInv,
     CrashInv, OpenInv, Zenon DEF FreezerNext

(* Whenever the machine stops, each block of the node's own chain is in the   *)
(* key-value store or in what every table has synced; between batches the     *)
(* tables have one length; and after a crash at any point, also during the     *)
(* repair of a failed append, the two stores meet when the database is opened. *)
THEOREM FreezerKeepsChain ==
    ASSUME FreezerAssumption
    PROVE  FreezerSpec => []FreezerSound
<1>1. FreezerInit => FreezerIInv
  BY FreezerStarts
<1>2. FreezerIInv /\ [FreezerNext]_freezerVars => FreezerIInv'
  BY FreezerSteps
<1>3. FreezerIInv => FreezerSound
  BY DEF FreezerIInv, ChainKept, FreezerSound
<1> QED
  BY <1>1, <1>2, <1>3, PTL DEF FreezerSpec
==============================================================================
