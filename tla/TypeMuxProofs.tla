---------------------------- MODULE TypeMuxProofs ----------------------------
(***************************************************************************)
(* event.TypeMux for any number of subscriptions and goroutines that post:  *)
(* no send on a closed channel, and silence after Stop.                     *)
(***************************************************************************)
EXTENDS TypeMux, SequenceTheorems, TLAPS

(* The inductive invariant.                                                 *)
MuxIInv == MuxTypeOK /\ DeliverInv /\ CloseInv

(* The types of a subscription, of its postMu and of a call of Post.        *)
SubType == [made: BOOLEAN, closed: BOOLEAN, closing: BOOLEAN,
            postC: {"open", "nil"}, readC: {"open", "closed"}]
MuType == [readers: SUBSET Posters, writer: BOOLEAN]
PostType == [pc: {"idle", "next", "select", "done"}, list: Seq(Subs), chan: {"open", "nil", None}]

(* What the lists of subscriptions hold.                                    *)
LEMMA ListType == ASSUME NEW S, NEW q \in Seq(S) PROVE Range(q) \subseteq S
BY DEF Range

(* The first subscription of the list Post goes through is one of them.     *)
LEMMA ListHead ==
    ASSUME NEW S, NEW q \in Seq(S), q # <<>>
    PROVE  Head(q) \in S /\ Head(q) \in Range(q)
<1>1. 1 \in DOMAIN q /\ Head(q) = q[1]
  OBVIOUS
<1> QED
  BY <1>1 DEF Range

(* Post goes on with the rest of its list.                                  *)
LEMMA ListTail ==
    ASSUME NEW S, NEW q \in Seq(S), q # <<>>
    PROVE  Tail(q) \in Seq(S) /\ Range(Tail(q)) \subseteq Range(q)
<1>1. Tail(q) \in Seq(S) /\ \A i \in DOMAIN Tail(q) : i + 1 \in DOMAIN q /\ Tail(q)[i] = q[i + 1]
  OBVIOUS
<1> QED
  BY <1>1 DEF Range

(* Subscribe adds the new subscription at the end.                          *)
LEMMA ListAppend ==
    ASSUME NEW S, NEW q \in Seq(S), NEW x \in S
    PROVE  Append(q, x) \in Seq(S) /\ Range(Append(q, x)) = Range(q) \cup {x}
<1>1. /\ Append(q, x) \in Seq(S) /\ DOMAIN Append(q, x) = 1 .. Len(q) + 1 /\ Append(q, x)[Len(q) + 1] = x
      /\ DOMAIN q = 1 .. Len(q) /\ Len(q) \in Nat /\ \A i \in 1 .. Len(q) : Append(q, x)[i] = q[i]
  OBVIOUS
<1>2. \A y \in Range(Append(q, x)) : y \in Range(q) \cup {x}
  BY <1>1 DEF Range
<1>3. \A y \in Range(q) \cup {x} : y \in Range(Append(q, x))
  BY <1>1 DEF Range
<1> QED
  BY <1>1, <1>2, <1>3

(* posdelete keeps everyone else.                                           *)
LEMMA ListRemove ==
    ASSUME NEW S, NEW q \in Seq(S), NEW pos \in DOMAIN q
    PROVE  /\ posdelete(q, pos) \in Seq(S) /\ Range(posdelete(q, pos)) \subseteq Range(q)
           /\ \A x \in Range(q) : x # q[pos] => x \in Range(posdelete(q, pos))
<1> DEFINE a == SubSeq(q, 1, pos - 1)
           b == SubSeq(q, pos + 1, Len(q))
<1>0. DOMAIN q = 1 .. Len(q) /\ Len(q) \in Nat /\ pos \in 1 .. Len(q)
  OBVIOUS
<1>1. a \in Seq(S) /\ Len(a) = pos - 1 /\ \A i \in 1 .. pos - 1 : a[i] = q[i]
  BY <1>0
<1>2. b \in Seq(S) /\ Len(b) = Len(q) - pos /\ \A i \in 1 .. Len(q) - pos : b[i] = q[pos + i]
  BY <1>0, SMTT(30)
<1> HIDE DEF a, b
<1>3. /\ a \o b \in Seq(S) /\ Len(a \o b) = Len(a) + Len(b) /\ DOMAIN (a \o b) = 1 .. Len(a) + Len(b)
      /\ \A i \in 1 .. Len(a) : (a \o b)[i] = a[i]
      /\ \A i \in 1 .. Len(b) : (a \o b)[Len(a) + i] = b[i]
  <2>1. Len(a) \in Nat /\ Len(b) \in Nat
    BY <1>1, <1>2
  <2>2. /\ a \o b \in Seq(S) /\ Len(a \o b) = Len(a) + Len(b)
        /\ \A i \in 1 .. Len(a) + Len(b) : (a \o b)[i] = IF i <= Len(a) THEN a[i] ELSE b[i - Len(a)]
    BY <1>1, <1>2, ConcatProperties, Zenon
  <2>3. DOMAIN (a \o b) = 1 .. Len(a) + Len(b)
    BY <2>2
  <2>4. ASSUME NEW i \in 1 .. Len(a) PROVE (a \o b)[i] = a[i]
    BY <2>1, <2>2
  <2>5. ASSUME NEW i \in 1 .. Len(b) PROVE (a \o b)[Len(a) + i] = b[i]
    <3>1. Len(a) + i \in 1 .. Len(a) + Len(b) /\ ~(Len(a) + i <= Len(a)) /\ (Len(a) + i) - Len(a) = i
      BY <2>1
    <3> QED
      BY <2>2, <3>1
  <2> QED
    BY <2>2, <2>3, <2>4, <2>5
<1>4. posdelete(q, pos) = a \o b
  BY DEF posdelete, a, b
<1>5. ASSUME NEW i \in DOMAIN (a \o b) PROVE (a \o b)[i] \in Range(q)
  <2>1. CASE i <= pos - 1
    <3>1. i \in 1 .. pos - 1 /\ i \in DOMAIN q
      BY <1>0, <1>1, <1>2, <1>3, <1>5, <2>1, SMTT(30)
    <3>2. (a \o b)[i] = q[i]
      BY <1>1, <1>3, <3>1
    <3> QED
      BY <3>1, <3>2, Zenon DEF Range
  <2>2. CASE i > pos - 1
    <3> DEFINE j == i - (pos - 1)
    <3>1. j \in 1 .. Len(q) - pos /\ i = (pos - 1) + j /\ pos + j \in DOMAIN q
      BY <1>0, <1>1, <1>2, <1>3, <1>5, <2>2, SMTT(30)
    <3> HIDE DEF j
    <3>2. (a \o b)[i] = q[pos + j]
      BY <1>1, <1>2, <1>3, <3>1, Zenon
    <3> QED
      BY <3>1, <3>2, Zenon DEF Range
  <2> QED
    BY <1>0, <1>1, <1>3, <2>1, <2>2, SMTT(30)
<1>6. ASSUME NEW i \in DOMAIN q, i # pos PROVE q[i] \in Range(a \o b)
  <2>1. CASE i < pos
    <3>1. i \in 1 .. pos - 1 /\ i \in DOMAIN (a \o b)
      BY <1>0, <1>1, <1>2, <1>3, <1>6, <2>1, SMTT(30)
    <3>2. (a \o b)[i] = q[i]
      BY <1>1, <1>3, <3>1
    <3> QED
      BY <3>1, <3>2, Zenon DEF Range
  <2>2. CASE i > pos
    <3> DEFINE j == i - pos
    <3>1. j \in 1 .. Len(q) - pos /\ i = pos + j /\ (pos - 1) + j \in DOMAIN (a \o b)
      BY <1>0, <1>1, <1>2, <1>3, <1>6, <2>2, SMTT(30)
    <3> HIDE DEF j
    <3>2. (a \o b)[(pos - 1) + j] = q[i]
      BY <1>1, <1>2, <1>3, <3>1, Zenon
    <3> QED
      BY <3>1, <3>2, Zenon DEF Range
  <2> QED
    BY <1>0, <1>6, <2>1, <2>2
<1>7. Range(a \o b) \subseteq Range(q)
  BY <1>5, Zenon DEF Range
<1>8. \A x \in Range(q) : x # q[pos] => x \in Range(a \o b)
  <2> SUFFICES ASSUME NEW x \in Range(q), x # q[pos] PROVE x \in Range(a \o b)
    OBVIOUS
  <2>1. PICK i \in DOMAIN q : x = q[i]
    BY Zenon DEF Range
  <2> QED
    BY <1>6, <2>1, Zenon
<1> QED
  BY <1>3, <1>4, <1>7, <1>8

-----------------------------------------------------------------------------
(* A new mux: nobody has subscribed.                                        *)
LEMMA MuxStarts == ASSUME MuxAssumption, MuxInit PROVE MuxIInv
<1>0. <<>> \in Seq(Subs) /\ Range(<<>>) = {}
  BY DEF Range
<1>1. MuxTypeOK
  BY <1>0, Zenon DEF MuxInit, MuxTypeOK
<1>2. DeliverInv
  BY <1>0 DEF MuxInit, DeliverInv
<1>3. CloseInv
  BY <1>0 DEF MuxInit, CloseInv, MuxAssumption
<1> QED
  BY <1>1, <1>2, <1>3 DEF MuxIInv

(* Subscribe, before Stop or after it.                                      *)
LEMMA SubscribeInv ==
    ASSUME MuxAssumption, MuxIInv, NEW s \in Subs, MuxSubscribe(s)
    PROVE  MuxIInv'
<1>0. /\ subm \in Seq(Subs) /\ sub \in [Subs -> SubType] /\ post \in [Posters -> PostType]
      /\ ~sub[s].made /\ mutex = "free" /\ UNCHANGED <<mutex, stopped, postMu, post, call, muxCloser, muxGot>>
  BY DEF MuxIInv, MuxTypeOK, SubType, PostType, MuxSubscribe
<1>1. ~sub[s].closed /\ sub[s].readC = "open" /\ call[s] = "no" /\ muxCloser[s] = None
  BY <1>0 DEF MuxIInv, CloseInv
<1>2. PICK r \in SubType : /\ sub' = [sub EXCEPT ![s] = r] /\ r.made
                           /\ IF stopped THEN r.closed /\ r.readC = "closed" /\ subm' = subm
                              ELSE ~r.closed /\ r.readC = "open" /\ subm' = Append(subm, s)
  <2> DEFINE old == sub[s]
             new == [old EXCEPT !.made = TRUE]
             shut == [old EXCEPT !.made = TRUE, !.closed = TRUE, !.readC = "closed"]
  <2>1. old \in SubType
    BY <1>0
  <2>2. /\ new \in SubType /\ new.made /\ new.closed = old.closed /\ new.readC = old.readC
        /\ shut \in SubType /\ shut.made /\ shut.closed /\ shut.readC = "closed"
    <3> HIDE DEF old
    <3> QED
      BY <2>1, Zenon DEF SubType
  <2>3. IF stopped THEN sub' = [sub EXCEPT ![s] = shut] /\ subm' = subm
        ELSE sub' = [sub EXCEPT ![s] = new] /\ subm' = Append(subm, s)
    BY <1>0, Zenon DEF MuxSubscribe
  <2> QED
    BY <1>1, <2>2, <2>3, Zenon
<1>3. sub' \in [Subs -> SubType] /\ sub'[s] = r /\ \A x \in Subs : x # s => sub'[x] = sub[x]
  BY <1>0, <1>2
<1>4. /\ subm' \in Seq(Subs) /\ Range(subm) \subseteq Range(subm') /\ Range(subm') \subseteq Range(subm) \cup {s}
      /\ ~stopped => s \in Range(subm')
  <2>1. CASE stopped
    BY <1>0, <1>2, <2>1
  <2>2. CASE ~stopped
    <3>1. subm' = Append(subm, s)
      BY <1>2, <2>2
    <3>2. Append(subm, s) \in Seq(Subs) /\ Range(Append(subm, s)) = Range(subm) \cup {s}
      BY <1>0, ListAppend
    <3> QED
      BY <3>1, <3>2
  <2> QED
    BY <2>1, <2>2
<1>5. MuxTypeOK'
  BY <1>0, <1>3, <1>4 DEF MuxIInv, MuxTypeOK, SubType
<1>6. \A x \in Subs : Listed(x) => x # s
  BY <1>0 DEF Listed
<1>7. DeliverInv'
  <2>1. \A x \in Range(subm') : Listed(x)'
    <3> SUFFICES ASSUME NEW x \in Range(subm') PROVE Listed(x)'
      OBVIOUS
    <3>1. CASE x \in Range(subm)
      BY <1>0, <1>3, <1>6, <3>1, ListType DEF MuxIInv, DeliverInv, Listed
    <3>2. CASE x \notin Range(subm)
      <4>1. x = s /\ ~stopped
        BY <1>2, <1>4, <3>2
      <4> QED
        BY <1>2, <1>3, <4>1 DEF Listed
    <3> QED
      BY <3>1, <3>2
  <2>2. ASSUME NEW p \in Posters
        PROVE  /\ \A x \in Range(post[p].list) : Listed(x)'
               /\ post[p].pc = "select" =>
                     /\ post[p].list # <<>> /\ p \in postMu[Head(post[p].list)].readers
                     /\ post[p].chan = "open" => sub'[Head(post[p].list)].readC = "open"
    <3>1. post[p].list \in Seq(Subs)
      BY <1>0 DEF PostType
    <3>2. \A x \in Range(post[p].list) : x \in Subs /\ Listed(x) /\ x # s
      BY <1>6, <3>1, ListType DEF MuxIInv, DeliverInv
    <3>3. post[p].list # <<>> => Head(post[p].list) \in Range(post[p].list)
      BY <3>1, ListHead
    <3>4. \A x \in Range(post[p].list) : sub'[x] = sub[x]
      BY <1>3, <3>2
    <3>5. \A x \in Range(post[p].list) : Listed(x)'
      BY <3>2, <3>4 DEF Listed
    <3> QED
      BY <3>3, <3>4, <3>5 DEF MuxIInv, DeliverInv
  <2> QED
    BY <1>0, <2>1, <2>2 DEF DeliverInv
<1>8. CloseInv'
  BY <1>0, <1>1, <1>2, <1>3, <1>4, MuxAssumption, SMTT(30) DEF MuxIInv, CloseInv, MuxAssumption
<1> QED
  BY <1>5, <1>7, <1>8 DEF MuxIInv

-----------------------------------------------------------------------------
(* A step of the goroutine p that posts.                                    *)
LEMMA PostStep ==
    ASSUME MuxIInv, NEW p \in Posters, NEW r \in PostType,
           post' = [post EXCEPT ![p] = r],
           UNCHANGED <<subm, mutex, stopped, sub, call, muxCloser>>,
           postMu' \in [Subs -> MuType], muxGot' \in [Subs -> SUBSET Posters],
           \A x \in Subs, q \in Posters \ {p} : q \in postMu[x].readers => q \in postMu'[x].readers,
           \A x \in Range(r.list) : Listed(x),
           r.pc = "select" =>
              /\ r.list # <<>> /\ p \in postMu'[Head(r.list)].readers
              /\ r.chan = "open" => sub[Head(r.list)].readC = "open"
    PROVE  MuxIInv'
<1>0. post \in [Posters -> PostType] /\ subm \in Seq(Subs)
  BY DEF MuxIInv, MuxTypeOK, PostType
<1>1. post' \in [Posters -> PostType] /\ post'[p] = r /\ \A q \in Posters \ {p} : post'[q] = post[q]
  BY <1>0
<1>2. MuxTypeOK'
  BY <1>1 DEF MuxIInv, MuxTypeOK, PostType, MuType
<1>3. \A x : Listed(x)' <=> Listed(x)
  BY DEF Listed
<1>4. DeliverInv'
  <2>1. \A x \in Range(subm') : Listed(x)'
    BY <1>3 DEF MuxIInv, DeliverInv
  <2>2. ASSUME NEW q \in Posters
        PROVE  /\ \A x \in Range(post'[q].list) : Listed(x)'
               /\ post'[q].pc = "select" =>
                     /\ post'[q].list # <<>> /\ q \in postMu'[Head(post'[q].list)].readers
                     /\ post'[q].chan = "open" => sub'[Head(post'[q].list)].readC = "open"
    <3>1. CASE q = p
      BY <1>1, <1>3, <3>1, Zenon
    <3>2. CASE q # p
      <4>1. post'[q] = post[q] /\ post[q].list \in Seq(Subs)
        BY <1>0, <1>1, <3>2 DEF PostType
      <4>2. post[q].list # <<>> => Head(post[q].list) \in Subs
        BY <4>1, ListHead
      <4>3. /\ \A x \in Range(post[q].list) : Listed(x)
            /\ post[q].pc = "select" =>
                  /\ post[q].list # <<>> /\ q \in postMu[Head(post[q].list)].readers
                  /\ post[q].chan = "open" => sub[Head(post[q].list)].readC = "open"
        BY Zenon DEF MuxIInv, DeliverInv
      <4>4. \A x \in Range(post'[q].list) : Listed(x)'
        BY <1>3, <4>1, <4>3, Zenon
      <4> QED
        BY <3>2, <4>1, <4>2, <4>3, <4>4
    <3> QED
      BY <3>1, <3>2, Zenon
  <2> QED
    BY <2>1, <2>2, Zenon DEF DeliverInv
<1>5. CloseInv'
  BY DEF MuxIInv, CloseInv
<1> QED
  BY <1>2, <1>4, <1>5 DEF MuxIInv

(* Post reads the list; deliver takes the read lock of the first one.       *)
LEMMA PostInv ==
    ASSUME MuxAssumption, MuxIInv, NEW p \in Posters, Post(p) \/ deliver(p) \/ PostDone(p)
    PROVE  MuxIInv'
<1> DEFINE old == post[p]
           s == Head(old.list)
<1>0. /\ old \in PostType /\ old.list \in Seq(Subs) /\ subm \in Seq(Subs) /\ sub \in [Subs -> SubType]
      /\ postMu \in [Subs -> MuType] /\ muxGot \in [Subs -> SUBSET Posters]
      /\ old = [pc |-> old.pc, list |-> old.list, chan |-> old.chan]
  BY DEF MuxIInv, MuxTypeOK, PostType, SubType, MuType
<1>1. /\ \A x \in Range(subm) : Listed(x)
      /\ \A x \in Range(old.list) : Listed(x)
  BY Zenon DEF MuxIInv, DeliverInv
<1>2. CASE Post(p) \/ PostDone(p)
  <2>1. PICK r : /\ post' = [post EXCEPT ![p] = r]
                 /\ r \in {[old EXCEPT !.pc = "done"], [old EXCEPT !.pc = "next", !.list = subm]}
    BY <1>2, Zenon DEF Post, PostDone
  <2>2. r \in PostType /\ r.pc # "select" /\ r.list \in {old.list, subm}
    <3> HIDE DEF old
    <3> QED
      BY <1>0, <2>1, Zenon DEF PostType
  <2>3. UNCHANGED <<subm, mutex, stopped, sub, call, muxCloser, postMu, muxGot>>
    BY <1>2 DEF Post, PostDone
  <2>4. \A x \in Range(r.list) : Listed(x)
    BY <1>1, <2>2
  <2>5. postMu' \in [Subs -> MuType] /\ muxGot' \in [Subs -> SUBSET Posters]
    BY <1>0, <2>3
  <2> QED
    BY <2>1, <2>2, <2>3, <2>4, <2>5, PostStep, Zenon
<1>3. CASE deliver(p)
  <2>1. old.list # <<>> /\ s \in Subs /\ s \in Range(old.list)
    BY <1>0, <1>3, ListHead DEF deliver
  <2>2. PICK c \in {"open", "nil"} : c = sub[s].postC
    BY <1>0, <2>1 DEF SubType
  <2> DEFINE r == [old EXCEPT !.pc = "select", !.chan = c]
  <2>8. r \in PostType /\ r.list = old.list /\ r.pc = "select" /\ r.chan = c
    <3> HIDE DEF old
    <3> QED
      BY <1>0, Zenon DEF PostType
  <2>3. post' = [post EXCEPT ![p] = r]
    <3>1. post \in [Posters -> PostType]
      BY DEF MuxIInv, MuxTypeOK, PostType
    <3>2. post' = [post EXCEPT ![p].pc = "select", ![p].chan = c]
      BY <1>3, <2>2, Zenon DEF deliver
    <3> QED
      BY <3>1, <3>2, Zenon
  <2>4. /\ postMu' = [postMu EXCEPT ![s].readers = @ \cup {p}]
        /\ UNCHANGED <<subm, mutex, stopped, sub, call, muxCloser, muxGot>>
    BY <1>3 DEF deliver
  <2>5. postMu' \in [Subs -> MuType] /\ p \in postMu'[s].readers
        /\ \A x \in Subs : postMu[x].readers \subseteq postMu'[x].readers
    BY <1>0, <2>1, <2>4, Zenon DEF MuType
  <2>6. sub[s].postC = "open" => sub[s].readC = "open"
    BY <1>1, <2>1 DEF Listed
  <2>7. muxGot' \in [Subs -> SUBSET Posters]
    BY <1>0, <2>4
  <2> HIDE DEF r, old, s
  <2>9. Head(r.list) = s
    BY <2>8 DEF s, old
  <2> QED
    BY <1>1, <2>1, <2>2, <2>3, <2>4, <2>5, <2>6, <2>7, <2>8, <2>9, PostStep, Zenon
<1> QED
  BY <1>2, <1>3

(* A delivery ends: received, or given up because of closing.               *)
LEMMA DeliveredInv ==
    ASSUME MuxAssumption, MuxIInv, NEW p \in Posters, MuxReceive(p) \/ Abandon(p)
    PROVE  MuxIInv'
<1> DEFINE old == post[p]
           s == Head(old.list)
           r == [pc |-> "next", list |-> Tail(old.list), chan |-> None]
<1>0. /\ old \in PostType /\ old.list \in Seq(Subs)
      /\ postMu \in [Subs -> MuType] /\ muxGot \in [Subs -> SUBSET Posters]
  BY DEF MuxIInv, MuxTypeOK, PostType, MuType
<1>1. /\ \A x \in Range(old.list) : Listed(x)
      /\ old.list # <<>>
  BY Zenon DEF MuxIInv, DeliverInv, MuxReceive, Abandon
<1>2. s \in Subs /\ Tail(old.list) \in Seq(Subs) /\ Range(Tail(old.list)) \subseteq Range(old.list)
  BY <1>0, <1>1, ListHead, ListTail, Zenon
<1>3. r \in PostType /\ r.pc = "next" /\ r.list = Tail(old.list)
  BY <1>2 DEF PostType
<1>4. post' = [post EXCEPT ![p] = r] /\ postMu' = [postMu EXCEPT ![s].readers = @ \ {p}]
      /\ UNCHANGED <<subm, mutex, stopped, sub, call, muxCloser>>
  BY Zenon DEF MuxReceive, Abandon, Delivered
<1>5. postMu' \in [Subs -> MuType]
      /\ \A x \in Subs : postMu[x].readers \ {p} \subseteq postMu'[x].readers
  BY <1>0, <1>2, <1>4, Zenon DEF MuType
<1>6. muxGot' \in [Subs -> SUBSET Posters]
  BY <1>0, <1>2 DEF MuxReceive, Abandon
<1>7. \A x \in Range(r.list) : Listed(x)
  BY <1>1, <1>2, <1>3
<1> HIDE DEF r, old, s
<1> QED
  BY <1>3, <1>4, <1>5, <1>6, <1>7, PostStep, Zenon

-----------------------------------------------------------------------------
(* A step that leaves the goroutines that post, and the read locks, alone.  *)
LEMMA QuietDeliver ==
    ASSUME MuxIInv, UNCHANGED post,
           Range(subm') \subseteq Range(subm),
           \A x \in Subs : postMu'[x].readers = postMu[x].readers,
           \A x \in Subs : Listed(x) => Listed(x)',
           \A x \in Subs : postMu[x].readers # {} => sub'[x].readC = sub[x].readC
    PROVE  DeliverInv'
<1>0. post \in [Posters -> PostType] /\ Range(subm) \subseteq Subs
  BY ListType DEF MuxIInv, MuxTypeOK, PostType
<1>1. \A x \in Range(subm') : Listed(x)'
  BY <1>0 DEF MuxIInv, DeliverInv
<1>2. ASSUME NEW p \in Posters
      PROVE  /\ \A x \in Range(post[p].list) : Listed(x)'
             /\ post[p].pc = "select" =>
                   /\ post[p].list # <<>> /\ p \in postMu'[Head(post[p].list)].readers
                   /\ post[p].chan = "open" => sub'[Head(post[p].list)].readC = "open"
  <2>1. post[p].list \in Seq(Subs)
    BY <1>0 DEF PostType
  <2>2. Range(post[p].list) \subseteq Subs /\ (post[p].list # <<>> => Head(post[p].list) \in Subs)
    BY <2>1, ListType, ListHead
  <2>3. \A x \in Range(post[p].list) : Listed(x)
    BY Zenon DEF MuxIInv, DeliverInv
  <2>4. \A x \in Range(post[p].list) : Listed(x)'
    BY <2>2, <2>3
  <2>5. post[p].pc = "select" =>
           /\ post[p].list # <<>> /\ p \in postMu[Head(post[p].list)].readers
           /\ post[p].chan = "open" => sub[Head(post[p].list)].readC = "open"
    BY Zenon DEF MuxIInv, DeliverInv
  <2> QED
    BY <2>2, <2>4, <2>5
<1> QED
  BY <1>1, <1>2 DEF DeliverInv

(* Unsubscribe, and del, which takes the subscription off the list.         *)
LEMMA UnsubscribeInv ==
    ASSUME MuxAssumption, MuxIInv, NEW s \in Subs, MuxUnsubscribe(s) \/ del(s) \/ AlreadyClosed(s)
    PROVE  MuxIInv'
<1>0. /\ subm \in Seq(Subs) /\ call \in [Subs -> {"no", "del", "close", "done"}]
      /\ UNCHANGED <<mutex, stopped, sub, postMu, post, muxCloser, muxGot>>
  BY DEF MuxIInv, MuxTypeOK, MuxUnsubscribe, del, AlreadyClosed
<1>1. /\ subm' \in Seq(Subs) /\ Range(subm') \subseteq Range(subm)
      /\ \A x \in Range(subm) : x # s => x \in Range(subm')
      /\ s \in Range(subm) /\ s \notin Range(subm') => del(s)
      /\ subm' # subm => mutex = "free" /\ subm # <<>>
  <2>1. CASE UNCHANGED subm
    BY <1>0, <2>1
  <2>2. CASE ~UNCHANGED subm
    <3>1. del(s) /\ mutex = "free"
      BY <2>2 DEF MuxUnsubscribe, del, AlreadyClosed
    <3>2. PICK pos \in DOMAIN subm : subm[pos] = s /\ subm' = posdelete(subm, pos)
      BY <2>2, <3>1, Zenon DEF del
    <3>3. subm # <<>>
      BY <1>0, <3>2
    <3>4. /\ posdelete(subm, pos) \in Seq(Subs) /\ Range(posdelete(subm, pos)) \subseteq Range(subm)
          /\ \A x \in Range(subm) : x # subm[pos] => x \in Range(posdelete(subm, pos))
      BY <1>0, ListRemove, Zenon
    <3> QED
      BY <3>1, <3>2, <3>3, <3>4
  <2> QED
    BY <2>1, <2>2
<1>2. \E to \in {"del", "close", "done"} :
         /\ call' = [call EXCEPT ![s] = to]
         /\ to = "del" => MuxUnsubscribe(s) /\ sub[s].made /\ call[s] = "no"
         /\ to = "close" => del(s) /\ call[s] = "del"
         /\ to = "done" => AlreadyClosed(s) /\ muxCloser[s] = None /\ sub[s].closed
  BY DEF MuxUnsubscribe, del, AlreadyClosed
<1>3. /\ call' \in [Subs -> {"no", "del", "close", "done"}] /\ \A x \in Subs : x # s => call'[x] = call[x]
      /\ \/ call'[s] = "del" /\ sub[s].made /\ call[s] = "no" /\ UNCHANGED subm
         \/ call'[s] = "close" /\ call[s] = "del" /\ mutex = "free"
         \/ call'[s] = "done" /\ muxCloser[s] = None /\ sub[s].closed /\ UNCHANGED subm
  BY <1>0, <1>2 DEF MuxUnsubscribe, del, AlreadyClosed
<1>4. MuxTypeOK'
  BY <1>0, <1>1, <1>3 DEF MuxIInv, MuxTypeOK
<1>5. \A x \in Subs : Listed(x) => Listed(x)'
  BY <1>0 DEF Listed
<1>6. DeliverInv'
  BY <1>0, <1>1, <1>5, QuietDeliver
<1>7. CloseInv'
  <2>1. /\ mutex' = "held" => ~stopped'
        /\ stopped' => subm' = <<>>
    BY <1>0, <1>1 DEF MuxIInv, CloseInv
  <2>2. ASSUME NEW x \in Subs
        PROVE  /\ ~sub[x].made => ~sub[x].closed /\ sub[x].readC = "open" /\ call'[x] = "no"
               /\ sub[x].made /\ ~sub[x].closed => x \in Range(subm') \/ call'[x] = "close"
               /\ muxCloser[x] = Stopper => mutex = "held" /\ x \in Range(subm')
               /\ muxCloser[x] = x => call'[x] = "close"
    <3>0. /\ ~sub[x].made => ~sub[x].closed /\ sub[x].readC = "open" /\ call[x] = "no"
          /\ sub[x].made /\ ~sub[x].closed => x \in Range(subm) \/ call[x] = "close"
          /\ muxCloser[x] = Stopper => mutex = "held" /\ x \in Range(subm)
          /\ muxCloser[x] = x => call[x] = "close"
      BY Zenon DEF MuxIInv, CloseInv
    <3>1. CASE x # s
      BY <1>1, <1>3, <3>0, <3>1, SMTT(30)
    <3>2. CASE x = s
      BY <1>1, <1>3, <3>0, <3>2, MuxAssumption DEF MuxAssumption
    <3> QED
      BY <3>1, <3>2
  <2> QED
    BY <1>0, <2>1, <2>2 DEF MuxIInv, CloseInv
<1> QED
  BY <1>4, <1>6, <1>7 DEF MuxIInv

(* closewait begins, for Unsubscribe or for Stop.                           *)
LEMMA ClosewaitInv ==
    ASSUME MuxAssumption, MuxIInv, NEW s \in Subs, NEW c \in {s, Stopper}, closewait(s, c)
    PROVE  MuxIInv'
<1>0. /\ sub \in [Subs -> SubType] /\ postMu \in [Subs -> MuType] /\ subm \in Seq(Subs)
      /\ muxCloser \in [Subs -> Subs \cup {Stopper, None}]
      /\ UNCHANGED <<subm, mutex, stopped, post, call, muxGot>>
      /\ muxCloser[s] = None /\ ~sub[s].closed /\ Wants(s, c)
  BY DEF MuxIInv, MuxTypeOK, SubType, MuType, closewait
<1>1. /\ sub' = [sub EXCEPT ![s].closed = TRUE, ![s].closing = TRUE]
      /\ postMu' = [postMu EXCEPT ![s].writer = TRUE]
      /\ muxCloser' = [muxCloser EXCEPT ![s] = c]
  BY DEF closewait
<1>2. /\ sub' \in [Subs -> SubType] /\ \A x \in Subs : x # s => sub'[x] = sub[x]
      /\ sub'[s].closed /\ \A x \in Subs : /\ sub'[x].made = sub[x].made /\ sub'[x].postC = sub[x].postC
                                           /\ sub'[x].readC = sub[x].readC
  BY <1>0, <1>1, ZenonT(30) DEF SubType
<1>3. postMu' \in [Subs -> MuType] /\ \A x \in Subs : postMu'[x].readers = postMu[x].readers
  BY <1>0, <1>1, Zenon DEF MuType
<1>4. muxCloser' \in [Subs -> Subs \cup {Stopper, None}] /\ muxCloser'[s] = c /\ \A x \in Subs : x # s => muxCloser'[x] = muxCloser[x]
  BY <1>0, <1>1
<1>5. MuxTypeOK'
  BY <1>0, <1>2, <1>3, <1>4 DEF MuxIInv, MuxTypeOK, SubType, MuType
<1>6. \A x \in Subs : Listed(x) => Listed(x)'
  BY <1>2 DEF Listed
<1>7. DeliverInv'
  BY <1>0, <1>2, <1>3, <1>6, QuietDeliver
<1>8. c \in {s, Stopper} /\ c # None /\ (c = s => call[s] = "close") /\ (c = Stopper => mutex = "held" /\ s \in Range(subm))
  <2>1. s \in Range(subm) => s \in Range(subm)
    BY <1>0 DEF Range
  <2> QED
    BY <1>0, <2>1 DEF Wants, MuxAssumption
<1>9. sub[s].made
  <2>1. s \in Range(subm) => sub[s].made
    BY DEF MuxIInv, DeliverInv, Listed
  <2> QED
    BY <1>8, <2>1 DEF MuxIInv, CloseInv
<1>10. CloseInv'
  BY <1>0, <1>2, <1>4, <1>8, <1>9 DEF MuxIInv, CloseInv, MuxAssumption
<1> QED
  BY <1>5, <1>7, <1>10 DEF MuxIInv

(* closewait ends: no delivery is under way when the channel is closed.     *)
LEMMA CloseChannelInv ==
    ASSUME MuxAssumption, MuxIInv, NEW s \in Subs, closeChannel(s)
    PROVE  MuxIInv'
<1>0. /\ sub \in [Subs -> SubType] /\ postMu \in [Subs -> MuType] /\ subm \in Seq(Subs)
      /\ muxCloser \in [Subs -> Subs \cup {Stopper, None}] /\ call \in [Subs -> {"no", "del", "close", "done"}]
      /\ UNCHANGED <<subm, mutex, stopped, post, muxGot>>
      /\ muxCloser[s] # None /\ postMu[s].readers = {}
  BY DEF MuxIInv, MuxTypeOK, SubType, MuType, closeChannel
<1>1. /\ sub' = [sub EXCEPT ![s].postC = "nil", ![s].readC = "closed"]
      /\ postMu' = [postMu EXCEPT ![s].writer = FALSE]
      /\ muxCloser' = [muxCloser EXCEPT ![s] = None]
      /\ call' = IF muxCloser[s] = s THEN [call EXCEPT ![s] = "done"] ELSE call
  BY DEF closeChannel
<1>2. /\ sub' \in [Subs -> SubType] /\ \A x \in Subs : x # s => sub'[x] = sub[x]
      /\ sub'[s].postC = "nil" /\ sub'[s].readC = "closed"
      /\ sub'[s].made = sub[s].made /\ sub'[s].closed = sub[s].closed
  BY <1>0, <1>1, ZenonT(30) DEF SubType
<1>3. postMu' \in [Subs -> MuType] /\ \A x \in Subs : postMu'[x].readers = postMu[x].readers
  BY <1>0, <1>1, ZenonT(30) DEF MuType
<1>4. /\ muxCloser' \in [Subs -> Subs \cup {Stopper, None}] /\ muxCloser'[s] = None
      /\ call' \in [Subs -> {"no", "del", "close", "done"}]
      /\ \A x \in Subs : x # s => muxCloser'[x] = muxCloser[x] /\ call'[x] = call[x]
  BY <1>0, <1>1
<1>5. MuxTypeOK'
  BY <1>0, <1>2, <1>3, <1>4 DEF MuxIInv, MuxTypeOK, SubType, MuType
<1>6. \A x \in Subs : Listed(x) => Listed(x)'
  BY <1>2 DEF Listed
<1>7. DeliverInv'
  BY <1>0, <1>2, <1>3, <1>6, QuietDeliver
<1>8. sub[s].closed /\ sub[s].made
  BY <1>0 DEF MuxIInv, CloseInv
<1>9. CloseInv'
  <2>1. /\ mutex' = "held" => ~stopped'
        /\ stopped' => subm' = <<>>
    BY <1>0 DEF MuxIInv, CloseInv
  <2>2. ASSUME NEW x \in Subs
        PROVE  /\ ~sub'[x].made => ~sub'[x].closed /\ sub'[x].readC = "open" /\ call'[x] = "no"
               /\ sub'[x].made /\ ~sub'[x].closed => x \in Range(subm) \/ call'[x] = "close"
               /\ sub'[x].closed /\ muxCloser'[x] = None => sub'[x].readC = "closed"
               /\ muxCloser'[x] # None => sub'[x].closed
               /\ muxCloser'[x] = Stopper => mutex = "held" /\ x \in Range(subm)
               /\ muxCloser'[x] = x => call'[x] = "close"
               /\ muxCloser'[x] \in {x, Stopper, None}
    <3>1. CASE x # s
      <4>1. sub'[x] = sub[x] /\ muxCloser'[x] = muxCloser[x] /\ call'[x] = call[x]
        BY <1>2, <1>4, <3>1
      <4> QED
        BY <4>1, SMTT(30) DEF MuxIInv, CloseInv
    <3>2. CASE x = s
      <4>1. None # Stopper /\ None # s
        BY DEF MuxAssumption
      <4> QED
        BY <1>2, <1>4, <1>8, <3>2, <4>1, Zenon
    <3> QED
      BY <3>1, <3>2
  <2> QED
    BY <1>0, <2>1, <2>2, Zenon DEF CloseInv
<1> QED
  BY <1>5, <1>7, <1>9 DEF MuxIInv

(* Stop takes the mutex, and returns when all subscriptions are closed.     *)
LEMMA StopInv ==
    ASSUME MuxAssumption, MuxIInv, StopMux \/ StopDone
    PROVE  MuxIInv'
<1>0. UNCHANGED <<sub, postMu, post, call, muxCloser, muxGot>> /\ <<>> \in Seq(Subs) /\ Range(<<>>) = {}
  BY DEF StopMux, StopDone, Range
<1>1. CASE StopMux
  <2>1. MuxTypeOK'
    BY <1>0, <1>1 DEF MuxIInv, MuxTypeOK, StopMux
  <2>2. DeliverInv'
    BY <1>0, <1>1, QuietDeliver DEF StopMux, Listed
  <2>3. CloseInv'
    BY <1>0, <1>1 DEF MuxIInv, CloseInv, StopMux
  <2> QED
    BY <2>1, <2>2, <2>3 DEF MuxIInv
<1>2. CASE StopDone
  <2>1. MuxTypeOK'
    BY <1>0, <1>2 DEF MuxIInv, MuxTypeOK, StopDone
  <2>2. DeliverInv'
    BY <1>0, <1>2, QuietDeliver DEF StopDone, Listed
  <2>3. \A s \in Range(subm) : sub[s].closed /\ muxCloser[s] = None
    BY <1>2 DEF StopDone
  <2>4. mutex' = "free" /\ stopped' = TRUE /\ subm' = <<>>
    BY <1>2 DEF StopDone
  <2>5. CloseInv'
    BY <1>0, <2>3, <2>4 DEF MuxIInv, CloseInv, MuxAssumption
  <2> QED
    BY <2>1, <2>2, <2>5 DEF MuxIInv
<1> QED
  BY <1>1, <1>2

-----------------------------------------------------------------------------
(* Every step keeps the invariant.                                          *)
LEMMA MuxSteps ==
    ASSUME MuxAssumption, MuxIInv, [MuxNext]_muxVars
    PROVE  MuxIInv'
<1>1. CASE UNCHANGED muxVars
  BY <1>1, SMTT(30) DEF muxVars, MuxIInv, MuxTypeOK, DeliverInv, CloseInv, Listed
<1> QED
  BY <1>1, SubscribeInv, PostInv, DeliveredInv, UnsubscribeInv, ClosewaitInv, CloseChannelInv, StopInv,
     SMTT(30) DEF MuxNext, Closing, Posting

(* After Stop only a subscription that is being cancelled receives.         *)
LEMMA QuietStep ==
    ASSUME MuxAssumption, MuxIInv, MuxNext
    PROVE  QuietAfterStopStep
<1> SUFFICES ASSUME NEW s \in Subs, stopped, call[s] # "close", muxGot'[s] # muxGot[s]
             PROVE  FALSE
  BY SMTT(30) DEF QuietAfterStopStep
<1>1. PICK p \in Posters : MuxReceive(p)
  BY Zenon DEF MuxNext, MuxSubscribe, MuxUnsubscribe, Closing, del, closeChannel, AlreadyClosed, closewait,
         Post, Posting, deliver, Abandon, PostDone, StopMux, StopDone
<1>2. muxGot \in [Subs -> SUBSET Posters] /\ post[p].list \in Seq(Subs)
  BY DEF MuxIInv, MuxTypeOK
<1>3. post[p].pc = "select" /\ post[p].chan = "open" /\ post[p].list # <<>> /\ Head(post[p].list) = s
  BY <1>1, <1>2, Zenon DEF MuxReceive, MuxIInv, DeliverInv
<1>4. sub[s].readC = "open"
  BY <1>3 DEF MuxIInv, DeliverInv
<1>5. sub[s].made
  BY <1>2, <1>3, ListHead DEF MuxIInv, DeliverInv, Listed
<1>6. Range(subm) = {} /\ mutex # "held"
  BY DEF MuxIInv, CloseInv, Range
<1>7. sub[s].closed /\ muxCloser[s] = None
  BY <1>5, <1>6 DEF MuxIInv, CloseInv
<1> QED
  BY <1>4, <1>7 DEF MuxIInv, CloseInv

(* closewait and deliver exclude each other through postMu: no goroutine that *)
(* posts waits on a channel that has been closed.  Once Stop has returned      *)
(* nothing is received, from a Post that is still under way either, except      *)
(* through a subscription in its own Unsubscribe.                              *)
THEOREM MuxIsSound ==
    ASSUME MuxAssumption
    PROVE  MuxSpec => MuxSound
<1>1. MuxInit => MuxIInv
  BY MuxStarts
<1>2. MuxIInv /\ [MuxNext]_muxVars => MuxIInv'
  BY MuxSteps
<1>3. MuxIInv => MuxTypeOK /\ DeliverInv /\ CloseInv /\ NoSendOnClosed
  BY DEF MuxIInv, DeliverInv, NoSendOnClosed
<1>4. MuxIInv /\ [MuxNext]_muxVars => [QuietAfterStopStep]_muxVars
  BY QuietStep
<1> QED
  BY <1>1, <1>2, <1>3, <1>4, PTL DEF MuxSpec, MuxSound
=============================================================================
