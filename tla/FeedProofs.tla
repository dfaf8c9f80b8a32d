----------------------------- MODULE FeedProofs -----------------------------
(***************************************************************************)
(* event.Feed and the scope of its subscriptions, for any subscribers,      *)
(* senders and channel sizes: Send reaches everyone once, although it       *)
(* permutes the list of channels while others are removed from it.          *)
(***************************************************************************)
EXTENDS Feed, NaturalsInduction, WellFoundedInduction, TLAPS

(* The order of the naturals, as a relation.                               *)
Less == {p \in Nat \X Nat : p[1] < p[2]}

(* A set of naturals has a least element, which Min finds.                 *)
LEMMA LeastNat ==
    ASSUME NEW S \in SUBSET Nat, S # {}
    PROVE  Min(S) \in S /\ \A y \in S : Min(S) <= y
<1>1. Less = OpToRel(<, Nat)
  BY Zenon DEF OpToRel, Less
<1>2. IsWellFoundedOn(Less, Nat)
  BY <1>1, NatLessThanWellFounded
<1>3. \A x, y \in Nat : <<x, y>> \in Less <=> x < y
  BY DEF Less
<1>4. PICK x \in S : \A y \in S : ~(<<y, x>> \in Less)
  BY <1>2, WFMin, Zenon
<1>5. \A y \in S : ~(y < x)
  BY <1>3, <1>4, Zenon
<1>6. \A y \in S : x <= y
  BY <1>5
<1> QED
  BY <1>6, Zenon DEF Min

(* What two lists hold together, and when nothing is in them twice.        *)
LEMMA CatOnce ==
    ASSUME NEW S, NEW s \in Seq(S), NEW t \in Seq(S)
    PROVE  /\ Range(s \o t) = Range(s) \cup Range(t)
           /\ IsInjective(s \o t) <=> /\ IsInjective(s) /\ IsInjective(t)
                                      /\ Range(s) \cap Range(t) = {}
<1>0. /\ Len(s) \in Nat /\ Len(t) \in Nat /\ DOMAIN s = 1 .. Len(s) /\ DOMAIN t = 1 .. Len(t)
      /\ s \o t \in Seq(S) /\ Len(s \o t) = Len(s) + Len(t) /\ DOMAIN (s \o t) = 1 .. Len(s) + Len(t)
      /\ \A i \in 1 .. Len(s) : (s \o t)[i] = s[i]
      /\ \A i \in 1 .. Len(t) : (s \o t)[Len(s) + i] = t[i]
  OBVIOUS
<1>1. \A i \in 1 .. Len(s) + Len(t) : i \in 1 .. Len(s) \/ \E j \in 1 .. Len(t) : i = Len(s) + j
  <2> SUFFICES ASSUME NEW i \in 1 .. Len(s) + Len(t), i \notin 1 .. Len(s)
               PROVE  \E j \in 1 .. Len(t) : i = Len(s) + j
    OBVIOUS
  <2>1. i - Len(s) \in 1 .. Len(t) /\ i = Len(s) + (i - Len(s))
    BY <1>0
  <2> QED
    BY <2>1, Zenon
<1>2. \A i \in 1 .. Len(s) : i \in 1 .. Len(s) + Len(t)
  BY <1>0
<1>3. \A j \in 1 .. Len(t) : Len(s) + j \in 1 .. Len(s) + Len(t) /\ Len(s) + j \notin 1 .. Len(s)
  BY <1>0
<1>4. Range(s \o t) = Range(s) \cup Range(t)
  <2>1. ASSUME NEW x \in Range(s \o t) PROVE x \in Range(s) \cup Range(t)
    <3>1. PICK i \in 1 .. Len(s) + Len(t) : x = (s \o t)[i]
      BY <1>0 DEF Range
    <3>2. CASE i \in 1 .. Len(s)
      BY <1>0, <3>1, <3>2, Zenon DEF Range
    <3>3. CASE \E j \in 1 .. Len(t) : i = Len(s) + j
      BY <1>0, <3>1, <3>3, Zenon DEF Range
    <3> QED
      BY <1>1, <3>2, <3>3
  <2>2. ASSUME NEW x \in Range(s) PROVE x \in Range(s \o t)
    BY <1>0, <1>2 DEF Range
  <2>3. ASSUME NEW x \in Range(t) PROVE x \in Range(s \o t)
    BY <1>0, <1>3 DEF Range
  <2> QED
    BY <2>1, <2>2, <2>3
<1>5. ASSUME IsInjective(s \o t)
      PROVE  IsInjective(s) /\ IsInjective(t) /\ Range(s) \cap Range(t) = {}
  <2>1. IsInjective(s)
    BY <1>0, <1>2, <1>5, Zenon DEF IsInjective
  <2>2. IsInjective(t)
    BY <1>0, <1>3, <1>5, SMTT(30) DEF IsInjective
  <2>3. Range(s) \cap Range(t) = {}
    BY <1>0, <1>2, <1>3, <1>5 DEF IsInjective, Range
  <2> QED
    BY <2>1, <2>2, <2>3, Zenon
<1>6. ASSUME IsInjective(s), IsInjective(t), Range(s) \cap Range(t) = {}
      PROVE  IsInjective(s \o t)
  <2> SUFFICES ASSUME NEW i \in 1 .. Len(s) + Len(t), NEW k \in 1 .. Len(s) + Len(t),
                      (s \o t)[i] = (s \o t)[k]
               PROVE  i = k
    BY <1>0 DEF IsInjective
  <2>1. \A p \in 1 .. Len(s), q \in 1 .. Len(t) : s[p] # t[q]
    BY <1>0, <1>6, Zenon DEF Range
  <2>2. CASE i \in 1 .. Len(s) /\ k \in 1 .. Len(s)
    BY <1>0, <1>6, <2>2 DEF IsInjective
  <2>3. CASE i \in 1 .. Len(s) /\ k \notin 1 .. Len(s)
    BY <1>0, <1>1, <2>1, <2>3, SMTT(30)
  <2>4. CASE i \notin 1 .. Len(s) /\ k \in 1 .. Len(s)
    BY <1>0, <1>1, <2>1, <2>4, SMTT(30)
  <2>5. CASE i \notin 1 .. Len(s) /\ k \notin 1 .. Len(s)
    <3>1. PICK p \in 1 .. Len(t) : i = Len(s) + p
      BY <1>1, <2>5
    <3>2. PICK q \in 1 .. Len(t) : k = Len(s) + q
      BY <1>1, <2>5
    <3> QED
      BY <1>0, <1>6, <3>1, <3>2, SMTT(30) DEF IsInjective
  <2> QED
    BY <2>2, <2>3, <2>4, <2>5, Zenon
<1> QED
  BY <1>4, <1>5, <1>6

(* A list of one element.                                                  *)
LEMMA OneOnce == ASSUME NEW x PROVE Range(<<x>>) = {x} /\ IsInjective(<<x>>)
BY DEF Range, IsInjective

(* What a list holds after an append, and when nothing is in it twice.     *)
LEMMA AppendOnce ==
    ASSUME NEW S, NEW s \in Seq(S), NEW x \in S
    PROVE  /\ Range(Append(s, x)) = Range(s) \cup {x}
           /\ IsInjective(Append(s, x)) <=> IsInjective(s) /\ x \notin Range(s)
<1>1. Append(s, x) = s \o <<x>> /\ <<x>> \in Seq(S)
  OBVIOUS
<1>2. /\ Range(s \o <<x>>) = Range(s) \cup Range(<<x>>)
      /\ IsInjective(s \o <<x>>) <=> /\ IsInjective(s) /\ IsInjective(<<x>>)
                                     /\ Range(s) \cap Range(<<x>>) = {}
  BY <1>1, CatOnce, Zenon
<1> QED
  BY <1>1, <1>2, OneOnce, Zenon


(* The first n elements of s.                                              *)
Prefix(s, n) == {s[i] : i \in 1 .. n}

(* find returns a place where the channel is (caseList.find).              *)
LEMMA FoundOnce ==
    ASSUME NEW S, NEW s \in Seq(S), NEW x \in Range(s)
    PROVE  find(s, x) \in 1 .. Len(s) /\ s[find(s, x)] = x
<1> DEFINE I == {i \in DOMAIN s : s[i] = x}
<1>1. I \subseteq Nat /\ I # {}
  BY DEF Range
<1>2. find(s, x) \in I
  BY <1>1, LeastNat, Zenon DEF find
<1> QED
  BY <1>2

(* What is where after the removal of one element.                         *)
LEMMA DeletedAt ==
    ASSUME NEW S, NEW s \in Seq(S), NEW k \in 1 .. Len(s)
    PROVE  /\ delete(s, k) \in Seq(S) /\ Len(delete(s, k)) = Len(s) - 1
           /\ \A j \in 1 .. k - 1 : delete(s, k)[j] = s[j]
           /\ \A j \in k .. Len(s) - 1 : delete(s, k)[j] = s[j + 1]
<1> DEFINE a == SubSeq(s, 1, k - 1)
           b == SubSeq(s, k + 1, Len(s))
<1>1. a \in Seq(S) /\ Len(a) = k - 1 /\ \A j \in 1 .. k - 1 : a[j] = s[j]
  OBVIOUS
<1>2. b \in Seq(S) /\ Len(b) = Len(s) - k /\ \A j \in 1 .. Len(s) - k : b[j] = s[k + j]
  OBVIOUS
<1>3. delete(s, k) = a \o b
  BY DEF delete
<1> HIDE DEF a, b
<1>4. a \o b \in Seq(S) /\ Len(a \o b) = Len(s) - 1
  <2>1. a \o b \in Seq(S)
    BY <1>1, <1>2
  <2>2. Len(a \o b) = Len(a) + Len(b)
    <3>1. a \in Seq(S) /\ b \in Seq(S)
      BY <1>1, <1>2
    <3> QED
      BY <3>1
  <2> QED
    BY <1>1, <1>2, <2>1, <2>2
<1>5. \A j \in 1 .. k - 1 : (a \o b)[j] = s[j]
  BY <1>1, <1>2
<1>6. \A j \in k .. Len(s) - 1 : (a \o b)[j] = s[j + 1]
  <2> SUFFICES ASSUME NEW j \in k .. Len(s) - 1 PROVE (a \o b)[j] = s[j + 1]
    BY Zenon
  <2>1. j - (k - 1) \in 1 .. Len(s) - k /\ k + (j - (k - 1)) = j + 1
    OBVIOUS
  <2>2. (a \o b)[j] = b[j - (k - 1)]
    BY <1>1, <1>2, <2>1
  <2> QED
    BY <1>2, <2>1, <2>2, Zenon
<1> QED
  BY <1>3, <1>4, <1>5, <1>6

(* The removal of a case, and what it does to the cases a Send still has   *)
(* to serve: they stay the first ones when their number is adjusted        *)
(* (caseList.delete, the removal in Send).                                 *)
LEMMA DeletedOnce ==
    ASSUME NEW S, NEW s \in Seq(S), IsInjective(s), NEW x \in Range(s)
    PROVE  LET r == deleteCase(s, x)
               k == find(s, x)
           IN  /\ k \in 1 .. Len(s) /\ r \in Seq(S) /\ Len(r) = Len(s) - 1
               /\ IsInjective(r) /\ Range(r) = Range(s) \ {x}
               /\ \A n \in 0 .. Len(s) :
                    Prefix(r, IF k <= n THEN n - 1 ELSE n) = Prefix(s, n) \ {x}
<1> DEFINE r == deleteCase(s, x)
           k == find(s, x)
<1>1. k \in 1 .. Len(s) /\ s[k] = x
  BY FoundOnce
<1>2. /\ r \in Seq(S) /\ Len(r) = Len(s) - 1
      /\ \A j \in 1 .. k - 1 : r[j] = s[j]
      /\ \A j \in k .. Len(s) - 1 : r[j] = s[j + 1]
  BY <1>1, DeletedAt, Zenon DEF deleteCase
<1> HIDE DEF r, k
<1>3. \A i, j \in 1 .. Len(s) : s[i] = s[j] => i = j
  BY DEF IsInjective
<1>4. \A j \in 1 .. Len(s) - 1 : r[j] = s[IF j < k THEN j ELSE j + 1]
  BY <1>1, <1>2
<1>5. IsInjective(r)
  <2>1. DOMAIN r = 1 .. Len(s) - 1
    BY <1>2
  <2> QED
    BY <1>1, <1>3, <1>4, <2>1, SMTT(30) DEF IsInjective
<1>6. ASSUME NEW n \in 0 .. Len(s)
      PROVE  Prefix(r, IF k <= n THEN n - 1 ELSE n) = Prefix(s, n) \ {x}
  <2> DEFINE m == IF k <= n THEN n - 1 ELSE n
  <2>0. m \in 0 .. Len(s) - 1
    BY <1>1
  <2>1. ASSUME NEW j \in 1 .. m PROVE r[j] \in Prefix(s, n) \ {x}
    <3>1. (IF j < k THEN j ELSE j + 1) \in 1 .. n /\ (IF j < k THEN j ELSE j + 1) # k
      BY <1>1, <2>0
    <3>2. r[j] = s[IF j < k THEN j ELSE j + 1]
      BY <1>4, <2>0
    <3> QED
      BY <1>1, <1>3, <3>1, <3>2 DEF Prefix
  <2>2. ASSUME NEW i \in 1 .. n, s[i] # x PROVE s[i] \in Prefix(r, m)
    <3>1. i # k
      BY <1>1, <2>2
    <3>2. CASE i < k
      BY <1>1, <1>4, <3>2 DEF Prefix
    <3>3. CASE i > k
      <4>1. i - 1 \in 1 .. m /\ r[i - 1] = s[i]
        BY <1>1, <1>4, <3>3
      <4> QED
        BY <4>1 DEF Prefix
    <3> QED
      BY <1>1, <3>1, <3>2, <3>3
  <2> HIDE DEF m
  <2>3. Prefix(r, m) = Prefix(s, n) \ {x}
    BY <2>1, <2>2 DEF Prefix
  <2> QED
    BY <2>3 DEF m
<1>7. Range(r) = Range(s) \ {x}
  <2>1. Range(r) = Prefix(r, Len(s) - 1) /\ Range(s) = Prefix(s, Len(s))
    BY <1>2 DEF Range, Prefix
  <2>2. Len(s) \in 0 .. Len(s) /\ k <= Len(s)
    BY <1>1
  <2>3. Prefix(r, Len(s) - 1) = Prefix(s, Len(s)) \ {x}
    BY <1>6, <2>2, Zenon
  <2> QED
    BY <2>1, <2>3
<1> QED
  BY <1>1, <1>2, <1>5, <1>6, <1>7 DEF r, k

(* deactivate moves a case out of the first n and changes nothing else     *)
(* about the list (caseList.deactivate).                                   *)
LEMMA SwappedOnce ==
    ASSUME NEW S, NEW s \in Seq(S), IsInjective(s), NEW n \in 1 .. Len(s), NEW i \in 1 .. Len(s),
           i <= n
    PROVE  LET r == deactivate(s, i, n)
           IN  /\ r \in Seq(S) /\ Len(r) = Len(s) /\ IsInjective(r) /\ Range(r) = Range(s)
               /\ Prefix(r, n - 1) = Prefix(s, n) \ {s[i]}
<1> DEFINE r == deactivate(s, i, n)
           at(j) == IF j = n THEN i ELSE IF j = i THEN n ELSE j
<1>1. i \in 1 .. Len(s) /\ n \in 1 .. Len(s)
  OBVIOUS
<1>2. r \in Seq(S) /\ Len(r) = Len(s) /\ \A j \in 1 .. Len(s) : r[j] = s[at(j)]
  BY <1>1 DEF deactivate
<1> HIDE DEF r
<1>3. \A a, b \in 1 .. Len(s) : s[a] = s[b] => a = b
  BY DEF IsInjective
<1>4. \A j \in 1 .. Len(s) : at(j) \in 1 .. Len(s) /\ at(at(j)) = j
  BY <1>1
<1>5. IsInjective(r)
  <2>1. DOMAIN r = 1 .. Len(s)
    BY <1>2
  <2> QED
    BY <1>2, <1>3, <1>4, <2>1, Zenon DEF IsInjective
<1>6. Range(r) = Range(s)
  <2>1. DOMAIN r = 1 .. Len(s) /\ DOMAIN s = 1 .. Len(s)
    BY <1>2
  <2> HIDE DEF at
  <2> QED
    BY <1>2, <1>4, <2>1 DEF Range
<1>7. Prefix(r, n - 1) = Prefix(s, n) \ {s[i]}
  <2>1. ASSUME NEW j \in 1 .. n - 1 PROVE r[j] \in Prefix(s, n) \ {s[i]}
    <3>1. j \in 1 .. Len(s) /\ at(j) \in 1 .. n /\ at(j) # i /\ at(j) \in 1 .. Len(s)
      OBVIOUS
    <3> HIDE DEF at
    <3>2. r[j] = s[at(j)] /\ s[at(j)] # s[i]
      BY <1>1, <1>2, <1>3, <3>1
    <3> QED
      BY <3>1, <3>2 DEF Prefix
  <2>2. ASSUME NEW j \in 1 .. n, s[j] # s[i] PROVE s[j] \in Prefix(r, n - 1)
    <3>1. at(j) \in 1 .. n - 1 /\ at(at(j)) = j /\ at(j) \in 1 .. Len(s)
      BY <2>2
    <3> HIDE DEF at
    <3>2. r[at(j)] = s[j]
      BY <1>2, <3>1
    <3> QED
      BY <3>1, <3>2, Zenon DEF Prefix
  <2> QED
    BY <2>1, <2>2, Zenon DEF Prefix
<1> QED
  BY <1>2, <1>5, <1>6, <1>7, Zenon DEF r

(* The inductive invariant.                                                *)
FeedInv == FeedTypeOK /\ ListInv /\ PrefixInv /\ DeliveredOnce

(* A new feed has no subscriptions.                                        *)
LEMMA FeedStarts == ASSUME FeedAssumption, FeedInit PROVE FeedInv
<1>1. FeedTypeOK
  BY DEF FeedInit, FeedTypeOK, SendState
<1>2. Range(<<>>) = {} /\ IsInjective(<<>>)
  BY DEF Range, IsInjective
<1>3. ListInv
  BY <1>2 DEF FeedInit, ListInv
<1>4. PrefixInv
  BY <1>2 DEF FeedInit, PrefixInv, FeedAssumption
<1>5. DeliveredOnce
  BY <1>2 DEF FeedInit, DeliveredOnce
<1> QED
  BY <1>1, <1>3, <1>4, <1>5, Zenon DEF FeedInv

(* What subscriptions and scopes do by themselves touches neither the list *)
(* of cases nor a send.                                                    *)
LEMMA ScopeSteps ==
    ASSUME FeedAssumption, FeedInv, NEW s \in Subscribers,
           \/ FeedReceive(s) \/ Track(s) \/ FeedUnsubscribe(s) \/ UnsubscribeDone(s)
           \/ CloseSub(s) \/ CloseSubDone(s) \/ CloseScope \/ CloseDone
    PROVE  FeedInv' /\ SilentAfterStep
<1>1. UNCHANGED <<inbox, sendCases, sendLock, send, delivered, feedSub>>
  BY DEF FeedReceive, Track, FeedUnsubscribe, UnsubscribeDone, CloseSub, CloseSubDone, CloseScope,
         CloseDone, sendVars
<1>2. /\ owed' \subseteq owed
      /\ \A c \in owed' : unsubCall'[c] = "no" /\ cancelling' # c
      /\ unsubCall' \in [Subscribers -> {"no", "called", "done"}]
      /\ cancelling' \in Subscribers \cup {NoSender}
      /\ channel' \in [Subscribers -> Seq(Senders \X Nat)]
  <2>1. /\ owed \subseteq Subscribers /\ cancelling \in Subscribers \cup {NoSender}
        /\ unsubCall \in [Subscribers -> {"no", "called", "done"}]
        /\ channel \in [Subscribers -> Seq(Senders \X Nat)]
        /\ \A c \in owed : unsubCall[c] = "no" /\ cancelling # c
    BY DEF FeedInv, FeedTypeOK, PrefixInv
  <2>2. CASE FeedReceive(s)
    <3>1. channel[s] \in Seq(Senders \X Nat) /\ channel[s] # <<>>
      BY <2>1, <2>2, Zenon DEF FeedReceive
    <3>2. Tail(channel[s]) \in Seq(Senders \X Nat)
      BY <3>1
    <3> QED
      BY <2>1, <2>2, <3>2, Zenon DEF FeedReceive, scopeVars
  <2>3. CASE Track(s) \/ CloseScope \/ CloseDone
    BY <2>1, <2>3, Zenon DEF Track, CloseScope, CloseDone, sendVars
  <2>4. CASE FeedUnsubscribe(s) \/ UnsubscribeDone(s)
    BY <2>1, <2>4, Zenon DEF FeedUnsubscribe, UnsubscribeDone, sendVars
  <2>5. CASE CloseSub(s) \/ CloseSubDone(s)
    BY <2>1, <2>5, FeedAssumption DEF CloseSub, CloseSubDone, sendVars, FeedAssumption
  <2> QED
    BY <2>2, <2>3, <2>4, <2>5, Zenon
<1>3. FeedTypeOK'
  BY <1>1, <1>2, Zenon DEF FeedInv, FeedTypeOK
<1>4. ListInv'
  BY <1>1 DEF FeedInv, ListInv
<1>5. PrefixInv'
  <2>1. \A p \in Senders : Waiting(p)' = Waiting(p) /\ Value(p)' = Value(p)
    BY <1>1, Zenon DEF Waiting, Value
  <2> QED
    BY <1>1, <1>2, <2>1 DEF FeedInv, PrefixInv
<1>6. DeliveredOnce' /\ SilentAfterStep
  BY <1>1, <1>2, Zenon DEF FeedInv, DeliveredOnce, SilentAfterStep
<1> QED
  BY <1>3, <1>4, <1>5, <1>6, Zenon DEF FeedInv

(* A new subscription goes to the inbox: a Send that is under way owes it  *)
(* nothing.                                                                *)
LEMMA SubscribeStep ==
    ASSUME FeedAssumption, FeedInv, NEW s \in Subscribers, FeedSubscribe(s)
    PROVE  FeedInv' /\ SilentAfterStep
<1>1. /\ feedSub[s] = "none" /\ inbox' = Append(inbox, s)
      /\ feedSub' = [feedSub EXCEPT ![s] = "subscribed"]
      /\ UNCHANGED <<sendCases, sendLock, send, channel, delivered, owed, unsubCall, cancelling>>
  BY DEF FeedSubscribe, scopeVars
<1>2. inbox \in Seq(Subscribers) /\ feedSub \in [Subscribers -> {"none", "subscribed", "removing", "gone"}]
  BY DEF FeedInv, FeedTypeOK
<1>3. /\ inbox' \in Seq(Subscribers) /\ Range(inbox') = Range(inbox) \cup {s}
      /\ IsInjective(inbox') <=> IsInjective(inbox) /\ s \notin Range(inbox)
  BY <1>1, <1>2, AppendOnce
<1>4. FeedTypeOK'
  BY <1>1, <1>2, <1>3, Zenon DEF FeedInv, FeedTypeOK
<1>5. ListInv'
  BY <1>1, <1>2, <1>3, Zenon DEF FeedInv, ListInv
<1>6. PrefixInv'
  <2>1. \A p \in Senders : Waiting(p)' = Waiting(p) /\ Value(p)' = Value(p)
    BY <1>1 DEF Waiting, Value
  <2>2. \A c \in owed : c \in Subscribers /\ feedSub'[c] = "subscribed"
    BY <1>1, <1>2, Zenon DEF FeedInv, PrefixInv, FeedTypeOK
  <2> QED
    BY <1>1, <2>1, <2>2, Zenon DEF FeedInv, PrefixInv
<1>7. DeliveredOnce' /\ SilentAfterStep
  BY <1>1, Zenon DEF FeedInv, DeliveredOnce, SilentAfterStep
<1> QED
  BY <1>4, <1>5, <1>6, <1>7, Zenon DEF FeedInv

(* remove takes a channel out of the inbox, out of the cases when no Send  *)
(* runs, or asks the Send that runs.                                       *)
LEMMA RemoveStep ==
    ASSUME FeedAssumption, FeedInv, NEW s \in Subscribers, remove(s)
    PROVE  FeedInv' /\ SilentAfterStep
<1>1. /\ feedSub[s] = "subscribed" /\ (unsubCall[s] = "called" \/ cancelling = s)
      /\ feedSub' = [feedSub EXCEPT ![s] = IF s \in Range(inbox) THEN "gone" ELSE "removing"]
      /\ inbox' = IF s \in Range(inbox) THEN deleteCase(inbox, s) ELSE inbox
      /\ UNCHANGED <<sendCases, sendLock, send, channel, delivered, owed, unsubCall, cancelling>>
  BY DEF remove, Called, scopeVars
<1>2. inbox \in Seq(Subscribers) /\ feedSub \in [Subscribers -> {"none", "subscribed", "removing", "gone"}]
      /\ IsInjective(inbox)
  BY DEF FeedInv, FeedTypeOK, ListInv
<1>3. s \in Range(inbox) <=> s \in Range(inbox)
  BY <1>2 DEF Range
<1>4. inbox' \in Seq(Subscribers) /\ IsInjective(inbox') /\ Range(inbox') = Range(inbox) \ {s}
  <2>1. CASE s \in Range(inbox)
    BY <1>1, <1>2, <1>3, <2>1, DeletedOnce, SMTT(30)
  <2>2. CASE ~s \in Range(inbox)
    BY <1>1, <1>2, <1>3, <2>2, Zenon
  <2> QED
    BY <2>1, <2>2, Zenon
<1>5. FeedTypeOK'
  BY <1>1, <1>2, <1>4, Zenon DEF FeedInv, FeedTypeOK
<1>6. ListInv'
  BY <1>1, <1>2, <1>3, <1>4, Zenon DEF FeedInv, ListInv
<1>7. PrefixInv'
  <2>1. \A p \in Senders : Waiting(p)' = Waiting(p) /\ Value(p)' = Value(p)
    BY <1>1, Zenon DEF Waiting, Value
  <2>2. \A c \in owed : c \in Subscribers /\ feedSub'[c] = "subscribed"
    BY <1>1, <1>2, Zenon DEF FeedInv, PrefixInv, FeedTypeOK
  <2> QED
    BY <1>1, <2>1, <2>2, Zenon DEF FeedInv, PrefixInv
<1>8. DeliveredOnce' /\ SilentAfterStep
  BY <1>1, Zenon DEF FeedInv, DeliveredOnce, SilentAfterStep
<1> QED
  BY <1>5, <1>6, <1>7, <1>8 DEF FeedInv

(* A case is taken out of the list, by remove itself or by the Send that   *)
(* was asked to: the cases still to be served stay the first ones.         *)
LEMMA RemovedStep ==
    ASSUME FeedAssumption, FeedInv, NEW s \in Subscribers, feedSub[s] = "removing",
           sendCases' = deleteCase(sendCases, s),
           feedSub' = [feedSub EXCEPT ![s] = "gone"],
           send' \in [Senders -> SendState],
           \A p \in Senders : /\ send'[p].pc # "idle" <=> send[p].pc # "idle"
                              /\ send'[p].count = send[p].count
                              /\ sendLock = p => /\ send'[p].i >= 1
                                                /\ send'[p].cases = IF find(sendCases, s) <= send[p].cases
                                                                     THEN send[p].cases - 1 ELSE send[p].cases,
           UNCHANGED <<inbox, sendLock, channel, delivered, owed, unsubCall, cancelling>>
    PROVE  FeedInv' /\ SilentAfterStep
<1>1. /\ sendCases \in Seq(Subscribers) /\ IsInjective(sendCases) /\ s \in Range(sendCases)
      /\ feedSub \in [Subscribers -> {"none", "subscribed", "removing", "gone"}]
      /\ send \in [Senders -> SendState]
  BY DEF FeedInv, FeedTypeOK, ListInv
<1> DEFINE k == find(sendCases, s)
<1>2. /\ k \in 1 .. Len(sendCases)
      /\ sendCases' \in Seq(Subscribers) /\ Len(sendCases') = Len(sendCases) - 1
      /\ IsInjective(sendCases') /\ Range(sendCases') = Range(sendCases) \ {s}
      /\ \A n \in 0 .. Len(sendCases) :
            Prefix(sendCases', IF k <= n THEN n - 1 ELSE n) = Prefix(sendCases, n) \ {s}
  BY <1>1, DeletedOnce
<1> HIDE DEF k
<1>3. FeedTypeOK'
  BY <1>1, <1>2, Zenon DEF FeedInv, FeedTypeOK
<1>4. ListInv'
  BY <1>1, <1>2 DEF FeedInv, ListInv
<1>5. ASSUME NEW p \in Senders, sendLock = p
      PROVE  /\ send'[p].cases <= Len(sendCases') /\ Waiting(p)' = Waiting(p) \ {s}
  <2>1. send[p].cases \in 0 .. Len(sendCases)
    BY <1>1, <1>5 DEF FeedInv, PrefixInv, SendState
  <2>2. send'[p].cases = IF k <= send[p].cases THEN send[p].cases - 1 ELSE send[p].cases
    BY <1>5, SMTT(30) DEF k
  <2>3. send'[p].cases <= Len(sendCases')
    BY <1>2, <2>1, <2>2
  <2>4. Prefix(sendCases', send'[p].cases) = Prefix(sendCases, send[p].cases) \ {s}
    BY <1>2, <2>1, <2>2, Zenon
  <2> QED
    BY <2>3, <2>4, Zenon DEF Waiting, Prefix
<1>6. PrefixInv'
  <2>1. \A p \in Senders : Value(p)' = Value(p)
    BY DEF Value
  <2>2. s \notin owed /\ \A c \in owed : c \in Subscribers /\ feedSub'[c] = "subscribed"
    BY <1>1, Zenon DEF FeedInv, PrefixInv, FeedTypeOK
  <2>3. ASSUME NEW c \in Subscribers, NEW v \in Range(delivered'[c])
        PROVE  v[2] <= send'[v[1]].count
    <3>1. v \in Senders \X Nat
      BY DEF FeedInv, FeedTypeOK, Range
    <3> QED
      BY <2>3, <3>1, Zenon DEF FeedInv, PrefixInv
  <2>4. ASSUME NEW p \in Senders, sendLock' = p
        PROVE  /\ send'[p].cases <= Len(sendCases') /\ send'[p].i >= 1
               /\ owed' \subseteq Waiting(p)'
               /\ \A c \in Waiting(p)' : Value(p)' \notin Range(delivered'[c])
    BY <1>5, <2>1, <2>2, <2>4, Zenon DEF FeedInv, PrefixInv
  <2>5. \A p \in Senders : send'[p].pc # "idle" <=> sendLock' = p
    BY Zenon DEF FeedInv, PrefixInv
  <2>6. \A c \in owed' : feedSub'[c] = "subscribed" /\ unsubCall'[c] = "no" /\ cancelling' # c
    BY <2>2, Zenon DEF FeedInv, PrefixInv
  <2> QED
    BY <2>3, <2>4, <2>5, <2>6, Zenon DEF PrefixInv
<1>7. DeliveredOnce' /\ SilentAfterStep
  BY DEF FeedInv, DeliveredOnce, SilentAfterStep
<1> QED
  BY <1>3, <1>4, <1>6, <1>7, Zenon DEF FeedInv

(* All that becomes of a removal.                                          *)
LEMMA RemovalSteps ==
    ASSUME FeedAssumption, FeedInv, NEW s \in Subscribers, Removal(s)
    PROVE  FeedInv' /\ SilentAfterStep
<1>1. send \in [Senders -> SendState]
  BY DEF FeedInv, FeedTypeOK
<1>2. CASE removeLocked(s)
  <2>1. /\ feedSub[s] = "removing" /\ sendLock = NoSender
        /\ sendCases' = deleteCase(sendCases, s) /\ feedSub' = [feedSub EXCEPT ![s] = "gone"]
        /\ UNCHANGED <<inbox, sendLock, send, channel, delivered, owed, unsubCall, cancelling>>
    BY <1>2 DEF removeLocked, scopeVars
  <2> QED
    BY <1>1, <2>1, RemovedStep, Zenon DEF FeedAssumption
<1>3. ASSUME NEW p \in Senders, SelectRemove(p, s) PROVE FeedInv' /\ SilentAfterStep
  <2> DEFINE c == IF find(sendCases, s) <= send[p].cases THEN send[p].cases - 1 ELSE send[p].cases
  <2>1. /\ feedSub[s] = "removing" /\ send[p].pc = "select"
        /\ sendCases' = deleteCase(sendCases, s) /\ feedSub' = [feedSub EXCEPT ![s] = "gone"]
        /\ send' = [send EXCEPT ![p].pc = "try", ![p].i = 1, ![p].cases = c]
        /\ UNCHANGED <<inbox, sendLock, channel, delivered, owed, unsubCall, cancelling>>
    BY <1>3 DEF SelectRemove, scopeVars
  <2>2. c \in Nat
    <3>1. sendCases \in Seq(Subscribers) /\ s \in Range(sendCases)
      BY <2>1 DEF FeedInv, FeedTypeOK, ListInv
    <3>2. find(sendCases, s) \in 1 .. Len(sendCases)
      BY <3>1, FoundOnce, Zenon
    <3> QED
      BY <1>1, <3>1, <3>2 DEF SendState
  <2> HIDE DEF c
  <2>3. /\ send' \in [Senders -> SendState]
        /\ send'[p].pc = "try" /\ send'[p].count = send[p].count /\ send'[p].i = 1 /\ send'[p].cases = c
        /\ \A q \in Senders \ {p} : send'[q] = send[q]
    BY <1>1, <2>1, <2>2, Zenon DEF SendState
  <2>4. sendLock = p
    BY <2>1 DEF FeedInv, PrefixInv
  <2>5. \A q \in Senders : /\ send'[q].pc # "idle" <=> send[q].pc # "idle"
                           /\ send'[q].count = send[q].count
                           /\ sendLock = q => /\ send'[q].i >= 1
                                             /\ send'[q].cases = IF find(sendCases, s) <= send[q].cases
                                                                  THEN send[q].cases - 1 ELSE send[q].cases
    BY <2>1, <2>3, <2>4 DEF c
  <2> QED
    BY <2>1, <2>3, <2>5, RemovedStep, Zenon
<1> QED
  BY <1>2, <1>3, RemoveStep, Zenon DEF Removal

(* Send begins: the inbox is added to the cases, and all of them are to be *)
(* served.                                                                 *)
LEMMA SendStep ==
    ASSUME FeedAssumption, FeedInv, NEW p \in Senders, Send(p)
    PROVE  FeedInv' /\ SilentAfterStep
<1>1. /\ send[p].pc = "idle" /\ sendLock = NoSender /\ sendLock' = p
      /\ sendCases' = sendCases \o inbox /\ inbox' = <<>>
      /\ send' = [send EXCEPT ![p] = [pc |-> "try", cases |-> Len(sendCases'), i |-> 1,
                                      count |-> send[p].count + 1]]
      /\ owed' = {s \in Subscribers : feedSub[s] = "subscribed" /\ unsubCall[s] = "no" /\ cancelling # s}
      /\ UNCHANGED <<channel, delivered, feedSub, unsubCall, cancelling>>
  BY DEF Send, scopeVars
<1>2. /\ sendCases \in Seq(Subscribers) /\ IsInjective(sendCases)
      /\ inbox \in Seq(Subscribers) /\ IsInjective(inbox)
      /\ Range(sendCases) \cap Range(inbox) = {}
      /\ send \in [Senders -> SendState]
  <2>1. inbox \in Seq(Subscribers)
    BY DEF FeedInv, FeedTypeOK
  <2>2. Range(inbox) \subseteq Subscribers
    BY <2>1 DEF Range
  <2> QED
    BY <2>2 DEF FeedInv, FeedTypeOK, ListInv
<1>3. /\ sendCases' \in Seq(Subscribers) /\ IsInjective(sendCases')
      /\ Range(sendCases') = Range(sendCases) \cup Range(inbox)
  <2>1. sendCases \o inbox \in Seq(Subscribers)
    BY <1>2
  <2>2. /\ Range(sendCases \o inbox) = Range(sendCases) \cup Range(inbox)
        /\ IsInjective(sendCases \o inbox) <=> /\ IsInjective(sendCases) /\ IsInjective(inbox)
                                               /\ Range(sendCases) \cap Range(inbox) = {}
    BY <1>2, CatOnce, Zenon
  <2> QED
    BY <1>1, <1>2, <2>1, <2>2, Zenon
<1>4. Len(sendCases') \in Nat /\ Prefix(sendCases', Len(sendCases')) = Range(sendCases')
  BY <1>3 DEF Prefix, Range
<1>5. /\ send' \in [Senders -> SendState]
      /\ send'[p] = [pc |-> "try", cases |-> Len(sendCases'), i |-> 1, count |-> send[p].count + 1]
      /\ \A q \in Senders \ {p} : send'[q] = send[q]
      /\ send[p].count \in Nat
  BY <1>1, <1>2, <1>4 DEF SendState
<1>6. Range(<<>>) = {} /\ IsInjective(<<>>) /\ <<>> \in Seq(Subscribers)
  BY DEF Range, IsInjective
<1>7. FeedTypeOK'
  BY <1>1, <1>3, <1>5, <1>6, Zenon DEF FeedInv, FeedTypeOK
<1>8. ListInv'
  BY <1>1, <1>3, <1>6, Zenon DEF FeedInv, ListInv
<1>9. Waiting(p)' = Range(sendCases')
  BY <1>4, <1>5 DEF Waiting, Prefix
<1>10. PrefixInv'
  <2>1. ASSUME NEW c \in Subscribers, NEW v \in Range(delivered[c])
        PROVE  v[2] <= send'[v[1]].count /\ v # Value(p)'
    <3>1. v \in Senders \X Nat
      BY DEF FeedInv, FeedTypeOK, Range
    <3>2. v[2] <= send[v[1]].count
      BY DEF FeedInv, PrefixInv
    <3>3. Value(p)' = <<p, send[p].count + 1>>
      BY <1>5 DEF Value
    <3>4. v[1] \in Senders /\ v[2] \in Nat /\ send[v[1]].count \in Nat
      BY <1>2, <3>1, Zenon DEF SendState
    <3>5. CASE v[1] = p
      <4>1. v[2] <= send[p].count /\ send'[p].count = send[p].count + 1
        BY <1>5, <3>2, <3>5
      <4>2. v[2] # send[p].count + 1
        BY <1>5, <3>4, <4>1
      <4> QED
        BY <1>5, <3>3, <3>4, <3>5, <4>1, <4>2, SMTT(30)
    <3>6. CASE v[1] # p
      BY <1>5, <3>2, <3>3, <3>4, <3>6
    <3> QED
      BY <3>5, <3>6, Zenon
  <2>2. Range(sendCases') \subseteq Subscribers
    BY <1>3 DEF Range
  <2>3. owed' \subseteq Waiting(p)'
    BY <1>1, <1>3, <1>9, Zenon DEF FeedInv, ListInv
  <2>4. \A q \in Senders : send'[q].pc # "idle" <=> sendLock' = q
    BY <1>1, <1>5, Zenon DEF FeedInv, PrefixInv, FeedAssumption
  <2>5. \A q \in Senders : sendLock' = q =>
            /\ send'[q].cases <= Len(sendCases') /\ send'[q].i >= 1
            /\ owed' \subseteq Waiting(q)'
            /\ \A s \in Waiting(q)' : Value(q)' \notin Range(delivered'[s])
    <3>1. send'[p].cases <= Len(sendCases') /\ send'[p].i >= 1
      BY <1>4, <1>5
    <3>2. \A s \in Waiting(p)' : Value(p)' \notin Range(delivered'[s])
      BY <1>1, <1>9, <2>1, <2>2, Zenon
    <3> QED
      BY <1>1, <2>3, <3>1, <3>2, Zenon
  <2>6. \A s \in owed' : feedSub'[s] = "subscribed" /\ unsubCall'[s] = "no" /\ cancelling' # s
    BY <1>1
  <2>7. \A s \in Subscribers : \A v \in Range(delivered'[s]) : v[2] <= send'[v[1]].count
    BY <1>1, <2>1, Zenon
  <2> QED
    BY <2>4, <2>5, <2>6, <2>7, Zenon DEF PrefixInv
<1>11. DeliveredOnce' /\ SilentAfterStep
  BY <1>1 DEF FeedInv, DeliveredOnce, SilentAfterStep, FeedAssumption
<1> QED
  BY <1>7, <1>8, <1>10, <1>11 DEF FeedInv

(* A value is delivered to one of the cases that are still to be served,   *)
(* which is then moved out of these: nobody gets it twice.                 *)
LEMMA DeliverStep ==
    ASSUME FeedAssumption, FeedInv, NEW p \in Senders, sendLock = p,
           NEW i \in 1 .. send[p].cases, trySendTo(p, i),
           send' \in [Senders -> SendState],
           send'[p].cases = send[p].cases - 1, send'[p].i >= 1, send'[p].pc # "idle",
           send'[p].count = send[p].count, \A q \in Senders \ {p} : send'[q] = send[q],
           UNCHANGED <<inbox, sendLock, feedSub, unsubCall, cancelling>>
    PROVE  FeedInv' /\ SilentAfterStep
<1>1. /\ sendCases \in Seq(Subscribers) /\ IsInjective(sendCases)
      /\ send \in [Senders -> SendState]
      /\ delivered \in [Subscribers -> Seq(Senders \X Nat)]
      /\ channel \in [Subscribers -> Seq(Senders \X Nat)]
      /\ owed \subseteq Subscribers
  BY Zenon DEF FeedInv, FeedTypeOK, ListInv
<1>2. send[p].cases \in 1 .. Len(sendCases)
  BY <1>1 DEF FeedInv, PrefixInv, SendState
<1>n. PICK n \in 1 .. Len(sendCases) : n = send[p].cases
  BY <1>2, Zenon
<1> DEFINE s == sendCases[i]
<1>3. s \in Subscribers /\ s \in Waiting(p) /\ s \in Range(sendCases)
  BY <1>1, <1>2, SMTT(30) DEF Waiting, Range
<1>4. /\ channel' = [channel EXCEPT ![s] = Append(channel[s], Value(p))]
      /\ delivered' = [delivered EXCEPT ![s] = Append(delivered[s], Value(p))]
      /\ owed' = owed \ {s}
      /\ sendCases' = deactivate(sendCases, i, n)
  BY <1>n, Zenon DEF trySendTo
<1>5. /\ sendCases' \in Seq(Subscribers) /\ Len(sendCases') = Len(sendCases)
      /\ IsInjective(sendCases') /\ Range(sendCases') = Range(sendCases)
      /\ Prefix(sendCases', n - 1) = Prefix(sendCases, n) \ {s}
  <2>1. i \in 1 .. Len(sendCases) /\ i <= n
    BY <1>1, <1>n
  <2>2. sendCases \in Seq(Subscribers) /\ IsInjective(sendCases)
    BY <1>1, Zenon
  <2>3. \A m \in 1 .. Len(sendCases), j \in 1 .. Len(sendCases) : j <= m =>
            LET r == deactivate(sendCases, j, m)
            IN  /\ r \in Seq(Subscribers) /\ Len(r) = Len(sendCases) /\ IsInjective(r)
                /\ Range(r) = Range(sendCases)
                /\ Prefix(r, m - 1) = Prefix(sendCases, m) \ {sendCases[j]}
    BY ONLY <2>2, SwappedOnce, ZenonT(30)
  <2> QED
    BY <1>4, <2>1, <2>3, Zenon
<1>6. Waiting(p)' = Waiting(p) \ {s}
  BY <1>5, <1>n, Zenon DEF Waiting, Prefix
<1>7. Value(p) \in Senders \X Nat /\ Value(p)' = Value(p) /\ Value(p)[1] = p /\ Value(p)[2] = send[p].count
  BY <1>1 DEF Value, SendState
<1>8. Value(p) \notin Range(delivered[s])
  BY <1>3 DEF FeedInv, PrefixInv
<1>9. n - 1 <= Len(sendCases)
  BY <1>1
<1> HIDE DEF s
<1>10. /\ delivered[s] \in Seq(Senders \X Nat) /\ channel[s] \in Seq(Senders \X Nat)
       /\ Append(delivered[s], Value(p)) \in Seq(Senders \X Nat)
       /\ Append(channel[s], Value(p)) \in Seq(Senders \X Nat)
  BY <1>1, <1>3, <1>7, SMTT(30)
<1>11. /\ Range(Append(delivered[s], Value(p))) = Range(delivered[s]) \cup {Value(p)}
       /\ IsInjective(delivered[s]) => IsInjective(Append(delivered[s], Value(p)))
  BY <1>7, <1>8, <1>10, AppendOnce, SMTT(30)
<1>12. /\ delivered' \in [Subscribers -> Seq(Senders \X Nat)]
       /\ channel' \in [Subscribers -> Seq(Senders \X Nat)]
       /\ delivered'[s] = Append(delivered[s], Value(p))
       /\ \A c \in Subscribers \ {s} : delivered'[c] = delivered[c]
  BY <1>1, <1>3, <1>4, <1>10, Zenon
<1>13. FeedTypeOK'
  BY <1>1, <1>4, <1>5, <1>12, Zenon DEF FeedInv, FeedTypeOK
<1>14. ListInv'
  BY <1>5 DEF FeedInv, ListInv
<1>15. PrefixInv'
  <2>1. \A q \in Senders : send'[q].pc # "idle" <=> sendLock' = q
    BY Zenon DEF FeedInv, PrefixInv
  <2>2. send'[p].cases <= Len(sendCases') /\ send'[p].i >= 1
    BY <1>5, <1>9, <1>n, Zenon
  <2>3. owed' \subseteq Waiting(p)'
    BY <1>4, <1>6, Zenon DEF FeedInv, PrefixInv
  <2>4. \A c \in Waiting(p)' : Value(p)' \notin Range(delivered'[c])
    <3>1. Waiting(p) \subseteq Subscribers
      BY <1>1, <1>2, SMTT(30) DEF Waiting
    <3>2. \A c \in Waiting(p) : Value(p) \notin Range(delivered[c])
      BY Zenon DEF FeedInv, PrefixInv
    <3>3. ASSUME NEW c \in Waiting(p)' PROVE Value(p)' \notin Range(delivered'[c])
      <4>1. c \in Waiting(p) /\ c \in Subscribers \ {s}
        BY <1>6, <3>1, Zenon
      <4>2. delivered'[c] = delivered[c]
        BY <1>12, <4>1, Zenon
      <4> QED
        BY <1>7, <3>2, <4>1, <4>2, Zenon
    <3> QED
      BY <3>3, Zenon
  <2>5. \A c \in owed' : feedSub'[c] = "subscribed" /\ unsubCall'[c] = "no" /\ cancelling' # c
    BY <1>4, Zenon DEF FeedInv, PrefixInv
  <2>6. ASSUME NEW c \in Subscribers, NEW v \in Range(delivered'[c])
        PROVE  v[2] <= send'[v[1]].count
    <3>1. send[p].count \in Nat /\ send[p].count <= send[p].count
      BY <1>1, SMTT(30) DEF SendState
    <3>2. CASE v = Value(p)
      BY <1>7, <3>1, <3>2, Zenon
    <3>3. CASE v \in Range(delivered[c])
      <4>1. v \in Senders \X Nat /\ v[1] \in Senders
        BY <1>1, <3>3, SMTT(30) DEF Range
      <4>2. v[2] <= send[v[1]].count
        BY <3>3, Zenon DEF FeedInv, PrefixInv
      <4> QED
        BY <4>1, <4>2, Zenon
    <3>4. CASE c = s
      BY <1>11, <1>12, <3>2, <3>3, <3>4, Zenon
    <3>5. CASE c # s
      BY <1>12, <3>3, <3>5, Zenon
    <3> QED
      BY <3>4, <3>5, Zenon
  <2> QED
    BY <2>1, <2>2, <2>3, <2>4, <2>5, <2>6, Zenon DEF PrefixInv
<1>16. DeliveredOnce'
  BY <1>11, <1>12, Zenon DEF FeedInv, DeliveredOnce, FeedAssumption
<1>17. SilentAfterStep
  BY <1>3, <1>12, Zenon DEF FeedInv, ListInv, SilentAfterStep
<1> QED
  BY <1>13, <1>14, <1>15, <1>16, <1>17, Zenon DEF FeedInv

(* The steps of a Send after its beginning: it tries all cases, then       *)
(* selects, and returns when none is left.                                 *)
LEMMA SendingSteps ==
    ASSUME FeedAssumption, FeedInv, NEW p \in Senders, Sending(p)
    PROVE  FeedInv' /\ SilentAfterStep
<1>1. send \in [Senders -> SendState]
  BY DEF FeedInv, FeedTypeOK
<1>2. sendLock = p
  BY Zenon DEF Sending, TrySend, TryDone, SelectSend, FeedInv, PrefixInv
<1>3. send[p].i >= 1 /\ send[p].i \in Nat /\ send[p].cases \in Nat
  BY <1>1, <1>2, Zenon DEF FeedInv, PrefixInv, SendState
<1>4. ASSUME UNCHANGED <<inbox, sendCases, channel, delivered, owed, feedSub, unsubCall, cancelling>>,
             send' \in [Senders -> SendState],
             send'[p].cases = send[p].cases, send'[p].i >= 1, send'[p].count = send[p].count,
             \A q \in Senders \ {p} : send'[q] = send[q],
             \/ send'[p].pc # "idle" /\ UNCHANGED sendLock
             \/ send'[p].pc = "idle" /\ sendLock' = NoSender /\ send[p].cases = 0
      PROVE  FeedInv' /\ SilentAfterStep
  <2>1. sendLock' \in Senders \cup {NoSender}
    BY <1>2, <1>4, Zenon
  <2>2. FeedTypeOK' /\ ListInv'
    BY <1>4, <2>1, Zenon DEF FeedInv, FeedTypeOK, ListInv
  <2>3. Waiting(p)' = Waiting(p) /\ Value(p)' = Value(p)
    BY <1>4, Zenon DEF Waiting, Value
  <2>4. sendLock' = NoSender => owed = {}
    <3>1. owed \subseteq Waiting(p) /\ (send[p].cases = 0 => Waiting(p) = {})
      BY <1>2 DEF FeedInv, PrefixInv, Waiting
    <3> QED
      BY <1>2, <1>4, <3>1, Zenon DEF FeedAssumption
  <2>5. ASSUME NEW c \in Subscribers, NEW v \in Range(delivered'[c])
        PROVE  v[2] <= send'[v[1]].count
    <3>1. v \in Senders \X Nat /\ v[1] \in Senders
      BY <1>4 DEF FeedInv, FeedTypeOK, Range
    <3>2. v[2] <= send[v[1]].count
      BY <1>4, Zenon DEF FeedInv, PrefixInv
    <3> QED
      BY <1>4, <3>1, <3>2, Zenon
  <2>6. \A q \in Senders : send'[q].pc # "idle" <=> sendLock' = q
    BY <1>2, <1>4, Zenon DEF FeedInv, PrefixInv, FeedAssumption
  <2>7. sendLock' = p =>
            /\ send'[p].cases <= Len(sendCases') /\ send'[p].i >= 1
            /\ owed' \subseteq Waiting(p)'
            /\ \A c \in Waiting(p)' : Value(p)' \notin Range(delivered'[c])
    BY <1>2, <1>4, <2>3, Zenon DEF FeedInv, PrefixInv
  <2>8. \A q \in Senders \ {p} : sendLock' # q
    BY <1>2, <1>4, Zenon DEF FeedAssumption
  <2>9. \A c \in owed' : feedSub'[c] = "subscribed" /\ unsubCall'[c] = "no" /\ cancelling' # c
    BY <1>4, Zenon DEF FeedInv, PrefixInv
  <2>10. PrefixInv'
    BY <2>5, <2>6, <2>7, <2>8, <2>9, Zenon DEF PrefixInv
  <2>11. DeliveredOnce' /\ SilentAfterStep
    BY <1>4, <2>4, Zenon DEF FeedInv, DeliveredOnce, SilentAfterStep
  <2> QED
    BY <2>2, <2>10, <2>11, Zenon DEF FeedInv
<1>5. CASE TryDone(p)
  <2>1. /\ send' = [send EXCEPT ![p].pc = IF send[p].cases = 0 THEN "idle" ELSE "select"]
        /\ sendLock' = IF send[p].cases = 0 THEN NoSender ELSE sendLock
        /\ UNCHANGED <<inbox, sendCases, channel, delivered, owed, feedSub, unsubCall, cancelling>>
    BY <1>5 DEF TryDone, scopeVars
  <2>2. /\ send' \in [Senders -> SendState]
        /\ send'[p].cases = send[p].cases /\ send'[p].i = send[p].i /\ send'[p].count = send[p].count
        /\ send'[p].pc = (IF send[p].cases = 0 THEN "idle" ELSE "select")
        /\ \A q \in Senders \ {p} : send'[q] = send[q]
    BY <1>1, <2>1, Zenon DEF SendState
  <2> QED
    BY <1>3, <1>4, <2>1, <2>2
<1>6. CASE SelectSend(p)
  <2>1. PICK i \in 1 .. send[p].cases : trySendTo(p, i)
    BY <1>6 DEF SelectSend
  <2>2. /\ send' = [send EXCEPT ![p].pc = "try", ![p].cases = send[p].cases - 1, ![p].i = 1]
        /\ UNCHANGED <<inbox, sendLock, feedSub, unsubCall, cancelling>>
    BY <1>6, Zenon DEF SelectSend, scopeVars
  <2>3. send[p].cases - 1 \in Nat
    BY <1>3
  <2>4. /\ send' \in [Senders -> SendState]
        /\ send'[p].cases = send[p].cases - 1 /\ send'[p].i = 1 /\ send'[p].count = send[p].count
        /\ send'[p].pc = "try" /\ \A q \in Senders \ {p} : send'[q] = send[q]
    BY <1>1, <2>2, <2>3, Zenon DEF SendState
  <2> QED
    BY <1>2, <2>1, <2>2, <2>4, DeliverStep
<1>7. CASE TrySend(p)
  <2>1. /\ send[p].pc = "try" /\ send[p].i <= send[p].cases
        /\ UNCHANGED <<inbox, sendLock, feedSub, unsubCall, cancelling>>
    BY <1>7 DEF TrySend, scopeVars
  <2>2. CASE trySendTo(p, send[p].i) /\ send' = [send EXCEPT ![p].cases = send[p].cases - 1]
    <3>1. send[p].cases - 1 \in Nat /\ send[p].i \in 1 .. send[p].cases
      BY <1>3, <2>1
    <3>2. /\ send' \in [Senders -> SendState]
          /\ send'[p].cases = send[p].cases - 1 /\ send'[p].i = send[p].i /\ send'[p].count = send[p].count
          /\ send'[p].pc = "try" /\ \A q \in Senders \ {p} : send'[q] = send[q]
      BY <1>1, <2>1, <2>2, <3>1, Zenon DEF SendState
    <3> QED
      BY <1>2, <1>3, <2>1, <2>2, <3>1, <3>2, DeliverStep, Zenon
  <2>3. CASE /\ send' = [send EXCEPT ![p].i = send[p].i + 1]
             /\ UNCHANGED <<channel, delivered, owed, sendCases>>
    <3>1. send[p].i + 1 \in Nat /\ send[p].i + 1 >= 1
      BY <1>3
    <3>2. /\ send' \in [Senders -> SendState]
          /\ send'[p].cases = send[p].cases /\ send'[p].i = send[p].i + 1 /\ send'[p].count = send[p].count
          /\ send'[p].pc = "try" /\ \A q \in Senders \ {p} : send'[q] = send[q]
      BY <1>1, <2>1, <2>3, <3>1, Zenon DEF SendState
    <3> QED
      BY <1>4, <2>1, <2>3, <3>1, <3>2, Zenon
  <2> QED
    BY <1>7, <2>2, <2>3, Zenon DEF TrySend
<1> QED
  BY <1>5, <1>6, <1>7 DEF Sending

(* Every step keeps the invariant, and sends nothing to who has            *)
(* unsubscribed.                                                           *)
LEMMA FeedSteps ==
    ASSUME FeedAssumption, FeedInv, [FeedNext]_feedVars
    PROVE  FeedInv' /\ [SilentAfterStep]_feedVars
<1>1. CASE UNCHANGED feedVars
  <2>1. UNCHANGED <<inbox, sendCases, sendLock, send, channel, delivered, owed, feedSub, unsubCall, cancelling>>
    BY <1>1 DEF feedVars, sendVars, scopeVars
  <2> QED
    BY <1>1, <2>1 DEF FeedInv, FeedTypeOK, ListInv, PrefixInv, DeliveredOnce, Waiting, Value
<1>2. CASE CloseScope \/ CloseDone
  <2>1. CASE Subscribers # {}
    BY <1>2, <2>1, ScopeSteps, Zenon
  <2>2. CASE Subscribers = {}
    <3>1. UNCHANGED <<inbox, sendCases, sendLock, send, channel, delivered, owed, feedSub, unsubCall, cancelling>>
      BY <1>2 DEF CloseScope, CloseDone, sendVars
    <3> QED
      BY <3>1, SMTT(30) DEF FeedInv, FeedTypeOK, ListInv, PrefixInv, DeliveredOnce, Waiting, Value, SilentAfterStep
  <2> QED
    BY <2>1, <2>2, Zenon
<1> QED
  BY <1>1, <1>2, ScopeSteps, SubscribeStep, RemovalSteps, SendStep, SendingSteps, Zenon DEF FeedNext

(* When Send returns, everyone who was subscribed when it began and stayed *)
(* has the value, and nobody has it twice; and nothing is sent on a        *)
(* channel once its Unsubscribe has returned (Feed.Send, Feed.remove),     *)
(* whoever subscribes, unsubscribes or closes a scope meanwhile.           *)
THEOREM FeedIsSound == ASSUME FeedAssumption PROVE FeedSpec => FeedSound
<1>1. FeedInit => FeedInv
  BY FeedStarts
<1>2. FeedInv /\ [FeedNext]_feedVars => FeedInv' /\ [SilentAfterStep]_feedVars
  BY FeedSteps
<1>3. FeedInv <=> FeedTypeOK /\ ListInv /\ PrefixInv /\ DeliveredOnce
  BY DEF FeedInv
<1> QED
  BY <1>1, <1>2, <1>3, PTL DEF FeedSpec, FeedSound
============================================================================
