---------------------------- MODULE HandlerProofs ----------------------------
(***************************************************************************)
(* The eth handler, for any connections, blocks and transactions: the peer  *)
(* set has no connection whose handler has returned, and a peer is sent a   *)
(* block at most once.                                                      *)
(***************************************************************************)
EXTENDS Peers, Broadcast, FiniteSetTheorems, NaturalsInduction, WellFoundedInduction, TLAPS

(* The inductive invariant for the peers; BroadcastSound is its own.         *)
PeersIInv == PeersTypeOK /\ RegistryInv

(* The id of a connection is an id.                                         *)
LEMMA IdType == ASSUME NEW c \in Conns PROVE IdOf[c] \in Ids
BY DEF Ids

(* A fresh handler has no peers.                                            *)
LEMMA PeersStarts == ASSUME PeersAssumption, PeersInit PROVE PeersIInv
<1>1. PeersTypeOK
  BY Zenon DEF PeersInit, PeersTypeOK, NoCall
<1>2. RegistryInv
  BY DEF PeersInit, RegistryInv, Active, Removing, NoCall, Removals
<1> QED
  BY <1>1, <1>2 DEF PeersIInv

(* A step that only moves the handler of one connection, within the stages   *)
(* in which it is not registered or those in which it may be, keeps the       *)
(* invariant.                                                                *)
LEMMA MoveInv ==
    ASSUME PeersAssumption, PeersIInv, NEW c \in Conns, NEW to,
           stage' = [stage EXCEPT ![c] = to],
           to \in {"handshake", "checked", "registered", "serving", "returning", "gone"},
           stage[c] \notin {"removing", "gone"},
           Active(c) \/ \A d \in Conns \ {c} : IdOf[d] = IdOf[c] => ~Active(d),
           stage[c] \notin {"new", "handshake", "checked"} => to \in {"serving", "returning"},
           UNCHANGED <<peers, removal, disconnected, closed, stopping>>,
           downloader' \subseteq Ids, heard' \subseteq Ids
    PROVE  PeersIInv'
<1> USE DEF PeersIInv
<1>1. PeersTypeOK'
  BY DEF PeersTypeOK
<1>2. \A d \in Conns : stage'[d] = IF d = c THEN to ELSE stage[d]
  BY DEF PeersTypeOK
<1>3. ASSUME NEW i \in Ids, peers'[i] # NoConn
      PROVE  /\ IdOf[peers'[i]] = i
             /\ stage'[peers'[i]] \in {"registered", "serving", "returning", "removing"}
  <2>1. PICK d \in Conns : d = peers[i] /\ peers'[i] = d
    BY <1>3 DEF PeersTypeOK
  <2>2. IdOf[d] = i /\ stage[d] \in {"registered", "serving", "returning", "removing"}
    BY <1>3, <2>1 DEF RegistryInv
  <2> QED
    BY <1>2, <2>1, <2>2
<1>4. ASSUME NEW d \in Conns, NEW e \in Conns, Active(d)', Active(e)', IdOf[d] = IdOf[e] PROVE d = e
  <2>1. (d # c => Active(d)) /\ (e # c => Active(e))
    BY <1>2, <1>4 DEF Active
  <2> QED
    BY <1>4, <2>1 DEF RegistryInv
<1>5. ASSUME NEW d \in Conns PROVE Removing(d)'
  <2>1. Removing(d)
    BY DEF RegistryInv
  <2> QED
    BY <1>2, <2>1 DEF Removing
<1> QED
  BY <1>1, <1>3, <1>4, <1>5 DEF RegistryInv

(* registerPeer, under a free id: nobody is removing a connection of that id. *)
LEMMA RegisterInv ==
    ASSUME PeersAssumption, PeersIInv, NEW c \in Conns, stage[c] = "checked",
           peers[IdOf[c]] = NoConn,
           stage' = [stage EXCEPT ![c] = "registered"],
           peers' = [peers EXCEPT ![IdOf[c]] = c],
           UNCHANGED <<downloader, removal, disconnected, closed, stopping, heard>>
    PROVE  PeersIInv'
<1> USE DEF PeersIInv
<1>0. IdOf[c] \in Ids
  BY IdType
<1>1. PeersTypeOK'
  BY <1>0 DEF PeersTypeOK
<1>2. /\ \A d \in Conns : stage'[d] = IF d = c THEN "registered" ELSE stage[d]
      /\ \A i \in Ids : peers'[i] = IF i = IdOf[c] THEN c ELSE peers[i]
  BY <1>0 DEF PeersTypeOK
<1>3. ASSUME NEW i \in Ids, peers'[i] # NoConn
      PROVE  /\ IdOf[peers'[i]] = i
             /\ stage'[peers'[i]] \in {"registered", "serving", "returning", "removing"}
  <2>1. CASE i = IdOf[c]
    BY <1>2, <2>1
  <2>2. CASE i # IdOf[c]
    <3>1. PICK d \in Conns : d = peers[i] /\ peers'[i] = d
      BY <1>2, <1>3, <2>2 DEF PeersTypeOK
    <3>2. IdOf[d] = i /\ stage[d] \in {"registered", "serving", "returning", "removing"}
      BY <1>2, <1>3, <2>2, <3>1 DEF RegistryInv
    <3> QED
      BY <1>2, <3>1, <3>2
  <2> QED
    BY <2>1, <2>2
<1>4. ASSUME NEW d \in Conns, NEW e \in Conns, Active(d)', Active(e)', IdOf[d] = IdOf[e] PROVE d = e
  <2>1. Active(d) /\ Active(e)
    BY <1>2, <1>4 DEF Active
  <2> QED
    BY <1>4, <2>1 DEF RegistryInv
<1>5. ASSUME NEW d \in Conns PROVE Removing(d)'
  <2>1. Removing(d) /\ IdOf[d] \in Ids
    BY IdType DEF RegistryInv
  <2>2. CASE d = c
    <3>1. removal[c].at = "none"
      BY <2>1, <2>2 DEF Removing
    <3> QED
      BY <1>2, <2>2, <3>1 DEF Removing
  <2>3. CASE d # c /\ stage[d] = "removing"
    <3>1. Active(d) /\ Active(c)
      BY <2>3 DEF Active
    <3>2. IdOf[d] # IdOf[c]
      BY <2>3, <3>1 DEF RegistryInv
    <3> QED
      BY <1>2, <2>1, <2>3, <3>2 DEF Removing
  <2>4. CASE d # c /\ stage[d] # "removing"
    BY <1>2, <2>1, <2>4 DEF Removing
  <2> QED
    BY <2>2, <2>3, <2>4
<1> QED
  BY <1>1, <1>3, <1>4, <1>5 DEF RegistryInv

(* The deferred removePeer of a connection begins.                          *)
LEMMA ReturnInv ==
    ASSUME PeersAssumption, PeersIInv, NEW c \in Conns, Return(c)
    PROVE  PeersIInv'
<1> USE DEF PeersIInv
<1>0. /\ IdOf[c] \in Ids /\ c \in Removals /\ stage[c] = "returning"
      /\ UNCHANGED <<peers, downloader, disconnected, closed, stopping, heard>>
  BY IdType DEF Return, Go, Removals
<1>1. CASE peers[IdOf[c]] = NoConn
  <2>1. stage' = [stage EXCEPT ![c] = "gone"] /\ removal' = removal
    BY <1>1 DEF Return, Go, Lookup
  <2>2. PeersTypeOK'
    BY <1>0, <2>1 DEF PeersTypeOK
  <2>3. \A d \in Conns : stage'[d] = IF d = c THEN "gone" ELSE stage[d]
    BY <2>1 DEF PeersTypeOK
  <2>4. ASSUME NEW i \in Ids, peers'[i] # NoConn
        PROVE  /\ IdOf[peers'[i]] = i
               /\ stage'[peers'[i]] \in {"registered", "serving", "returning", "removing"}
    <3>1. PICK d \in Conns : d = peers[i] /\ peers'[i] = d
      BY <1>0, <2>4 DEF PeersTypeOK
    <3>2. IdOf[d] = i /\ stage[d] \in {"registered", "serving", "returning", "removing"}
      BY <1>0, <2>4, <3>1 DEF RegistryInv
    <3>3. d # c
      BY <1>0, <1>1, <2>4, <3>1, <3>2
    <3> QED
      BY <2>3, <3>1, <3>2, <3>3
  <2>5. ASSUME NEW d \in Conns, NEW e \in Conns, Active(d)', Active(e)', IdOf[d] = IdOf[e] PROVE d = e
    <3>1. Active(d) /\ Active(e)
      BY <2>3, <2>5 DEF Active
    <3> QED
      BY <2>5, <3>1 DEF RegistryInv
  <2>6. ASSUME NEW d \in Conns PROVE Removing(d)'
    <3>1. Removing(d)
      BY DEF RegistryInv
    <3> QED
      BY <1>0, <2>1, <2>3, <3>1 DEF Removing
  <2> QED
    BY <2>1, <2>2, <2>4, <2>5, <2>6 DEF RegistryInv
<1>2. CASE peers[IdOf[c]] # NoConn
  <2> DEFINE call == [id |-> IdOf[c], conn |-> peers[IdOf[c]], at |-> "found"]
  <2>1. stage' = [stage EXCEPT ![c] = "removing"] /\ removal' = [removal EXCEPT ![c] = call]
    BY <1>2 DEF Return, Go, Lookup
  <2>2. PeersTypeOK'
    BY <1>0, <1>2, <2>1 DEF PeersTypeOK
  <2>3. /\ \A d \in Conns : stage'[d] = IF d = c THEN "removing" ELSE stage[d]
        /\ \A k \in Removals : removal'[k] = IF k = c THEN call ELSE removal[k]
    BY <1>0, <2>1 DEF PeersTypeOK
  <2>4. ASSUME NEW i \in Ids, peers'[i] # NoConn
        PROVE  /\ IdOf[peers'[i]] = i
               /\ stage'[peers'[i]] \in {"registered", "serving", "returning", "removing"}
    <3>1. PICK d \in Conns : d = peers[i] /\ peers'[i] = d
      BY <1>0, <2>4 DEF PeersTypeOK
    <3>2. IdOf[d] = i /\ stage[d] \in {"registered", "serving", "returning", "removing"}
      BY <1>0, <2>4, <3>1 DEF RegistryInv
    <3> QED
      BY <2>3, <3>1, <3>2, SMTT(30)
  <2>5. ASSUME NEW d \in Conns, NEW e \in Conns, Active(d)', Active(e)', IdOf[d] = IdOf[e] PROVE d = e
    <3>1. Active(d) /\ Active(e)
      BY <1>0, <2>3, <2>5 DEF Active
    <3> QED
      BY <2>5, <3>1 DEF RegistryInv
  <2>6. ASSUME NEW d \in Conns PROVE Removing(d)'
    <3>1. Removing(d) /\ d \in Removals
      BY DEF RegistryInv, Removals
    <3> QED
      BY <1>0, <2>3, <3>1 DEF Removing
  <2>7. \A k \in Removals : removal'[k].at # "none" => removal'[k].conn # NoConn
    BY <1>2, <2>3, SMTT(30) DEF RegistryInv
  <2> QED
    BY <2>2, <2>4, <2>5, <2>6, <2>7, SMTT(30) DEF RegistryInv
<1> QED
  BY <1>1, <1>2

(* removePeer called by a fetcher or a timer.                               *)
LEMMA DropInv ==
    ASSUME PeersAssumption, PeersIInv, NEW k \in Removals, NEW i \in Ids, Drop(k, i)
    PROVE  PeersIInv'
<1> USE DEF PeersIInv
<1>1. /\ k \in 1 .. MaxDrops /\ peers[i] # NoConn
      /\ removal' = [removal EXCEPT ![k] = [id |-> i, conn |-> peers[i], at |-> "found"]]
      /\ UNCHANGED <<stage, peers, downloader, disconnected, closed, stopping, heard>>
  BY DEF Drop, Lookup
<1>2. \A c \in Conns : removal'[c] = removal[c]
  BY <1>1 DEF PeersTypeOK, Removals, PeersAssumption
<1>3. PeersTypeOK'
  BY <1>1 DEF PeersTypeOK
<1>4. \A j \in Removals : removal'[j].at # "none" => removal'[j].conn # NoConn
  BY <1>1, Zenon DEF RegistryInv, PeersTypeOK
<1> QED
  BY <1>1, <1>2, <1>3, <1>4, SMTT(30) DEF RegistryInv, Removing, Active

(* The steps of removePeer.                                                 *)
LEMMA RemoveInv ==
    ASSUME PeersAssumption, PeersIInv, NEW k \in Removals,
           RemoveDownloader(k) \/ RemovePeer(k) \/ Disconnect(k)
    PROVE  PeersIInv'
<1> USE DEF PeersIInv
<1>0. ASSUME NEW from, NEW to \in {"unregister", "disconnect", "done"}, To(k, from, to)
      PROVE  /\ removal' \in [Removals -> [id: Ids \cup {NoConn}, conn: Conns \cup {NoConn},
                                 at: {"none", "found", "unregister", "disconnect", "done"}]]
             /\ \A j \in Removals : /\ removal'[j].id = removal[j].id
                                 /\ removal'[j].conn = removal[j].conn
                                 /\ removal'[j].at = IF j = k THEN to ELSE removal[j].at
             /\ removal[k].at = from
  BY <1>0 DEF To, PeersTypeOK
<1>a. \A j \in Removals : removal[j].at # "none" => removal[j].conn # NoConn
  BY SMTT(30) DEF RegistryInv
<1>1. CASE RemoveDownloader(k)
  <2>1. /\ To(k, "found", "unregister")
        /\ UNCHANGED <<stage, peers, disconnected, closed, stopping, heard>>
        /\ downloader' \subseteq downloader
    BY <1>1 DEF RemoveDownloader
  <2>2. PeersTypeOK'
    BY <1>0, <2>1 DEF PeersTypeOK
  <2>3. ASSUME NEW d \in Conns PROVE Removing(d)'
    <3>1. Removing(d) /\ d \in Removals
      BY SMTT(30) DEF RegistryInv, Removals
    <3> QED
      BY <1>0, <2>1, <3>1 DEF Removing
  <2> QED
    BY <1>0, <1>a, <2>1, <2>2, <2>3, SMTT(30) DEF RegistryInv, Active
<1>2. CASE RemovePeer(k)
  <2>1. /\ To(k, "unregister", "disconnect")
        /\ peers' = [peers EXCEPT ![removal[k].id] = NoConn]
        /\ UNCHANGED <<stage, downloader, disconnected, closed, stopping, heard>>
    BY <1>2 DEF RemovePeer
  <2>2. PeersTypeOK'
    BY <1>0, <2>1, Zenon DEF PeersTypeOK
  <2>3. \A i \in Ids : peers'[i] = IF i = removal[k].id THEN NoConn ELSE peers[i]
    BY <2>1, SMTT(30) DEF PeersTypeOK
  <2>4. ASSUME NEW d \in Conns PROVE Removing(d)'
    <3>1. Removing(d) /\ d \in Removals /\ IdOf[d] \in Ids
      BY IdType DEF RegistryInv, Removals
    <3> QED
      BY <1>0, <2>1, <2>3, <3>1, SMTT(30) DEF Removing
  <2>5. ASSUME NEW i \in Ids, peers'[i] # NoConn PROVE peers'[i] = peers[i]
    BY <2>3, <2>5, ZenonT(30)
  <2> QED
    BY <1>0, <1>a, <2>1, <2>2, <2>4, <2>5, SMTT(30) DEF RegistryInv, Active
<1>3. CASE Disconnect(k)
  <2>1. /\ To(k, "disconnect", "done")
        /\ stage' = IF k \in Conns THEN [stage EXCEPT ![k] = "gone"] ELSE stage
        /\ disconnected' = disconnected \cup {removal[k].conn}
        /\ UNCHANGED <<peers, downloader, closed, stopping, heard>>
    BY <1>3 DEF Disconnect
  <2>2. removal[k].conn \in Conns
    BY <1>0, <1>a, <2>1 DEF PeersTypeOK
  <2>3. \A d \in Conns : stage'[d] = IF d = k THEN "gone" ELSE stage[d]
    BY <2>1, SMTT(30) DEF PeersTypeOK
  <2>4. ASSUME NEW d \in Conns PROVE Removing(d)'
    <3>1. Removing(d) /\ d \in Removals
      BY DEF RegistryInv, Removals
    <3> QED
      BY <1>0, <2>1, <2>3, <3>1 DEF Removing
  <2>5. ASSUME NEW i \in Ids, peers'[i] # NoConn
        PROVE  /\ IdOf[peers'[i]] = i
               /\ stage'[peers'[i]] \in {"registered", "serving", "returning", "removing"}
    <3>1. PICK d \in Conns : d = peers[i] /\ peers'[i] = d
      BY <2>1, <2>5 DEF PeersTypeOK
    <3>2. IdOf[d] = i /\ stage[d] \in {"registered", "serving", "returning", "removing"}
      BY <2>1, <2>5, <3>1 DEF RegistryInv
    <3>3. d # k
      <4>1. Removing(d)
        BY Zenon DEF RegistryInv
      <4> QED
        BY <1>0, <2>1, <2>5, <3>1, <3>2, <4>1, Zenon DEF Removing
    <3> QED
      BY <2>3, <3>1, <3>2, <3>3
  <2>6. ASSUME NEW d \in Conns, NEW e \in Conns, Active(d)', Active(e)', IdOf[d] = IdOf[e] PROVE d = e
    <3>1. Active(d) /\ Active(e)
      BY <2>3, <2>6 DEF Active
    <3> QED
      BY <2>6, <3>1 DEF RegistryInv
  <2>7. PeersTypeOK'
    BY <1>0, <2>1, <2>2 DEF PeersTypeOK
  <2> QED
    BY <1>0, <1>a, <2>1, <2>4, <2>5, <2>6, <2>7, SMTT(30) DEF RegistryInv
<1> QED
  BY <1>1, <1>2, <1>3

(* Every step keeps the invariant.                                          *)
LEMMA PeersSteps ==
    ASSUME PeersAssumption, PeersIInv, [PeersNext]_peersVars
    PROVE  PeersIInv'
<1> USE DEF PeersIInv
<1>1. ASSUME NEW c \in Conns, Connect(c) PROVE PeersIInv'
  BY <1>1, MoveInv, Zenon DEF Connect, Go, Active, PeersTypeOK
<1>2. ASSUME NEW c \in Conns, Handshake(c) PROVE PeersIInv'
  BY <1>2, MoveInv DEF Handshake, Go, Active, PeersTypeOK
<1>3. ASSUME NEW c \in Conns, Register(c) PROVE PeersIInv'
  <2>1. CASE closed \/ peers[IdOf[c]] # NoConn
    BY <1>3, <2>1, MoveInv DEF Register, registerPeer, Go, Active, PeersTypeOK
  <2>2. CASE ~(closed \/ peers[IdOf[c]] # NoConn)
    BY <1>3, <2>2, RegisterInv DEF Register, registerPeer, Go
  <2> QED
    BY <2>1, <2>2, SMTT(30)
<1>4. ASSUME NEW c \in Conns, RegisterDownloader(c) PROVE PeersIInv'
  <2>1. IdOf[c] \in Ids
    BY IdType
  <2>2. \E to \in {"serving", "returning"} : stage' = [stage EXCEPT ![c] = to]
    BY <1>4 DEF RegisterDownloader, Go
  <2>3. stage[c] = "registered" /\ downloader' \subseteq Ids /\ heard' \subseteq Ids
        /\ UNCHANGED <<peers, removal, disconnected, closed, stopping>>
    BY <1>4, <2>1 DEF RegisterDownloader, Go, PeersTypeOK
  <2> QED
    BY <2>2, <2>3, MoveInv, Zenon DEF Active
<1>5. ASSUME NEW c \in Conns, Serve(c) PROVE PeersIInv'
  BY <1>5, MoveInv, Zenon DEF Serve, Go, Active, PeersTypeOK
<1>6. CASE StopHandler \/ ClosePeers \/ UNCHANGED peersVars
  <2>1. UNCHANGED <<stage, peers, downloader, removal, heard>>
    BY <1>6, Zenon DEF StopHandler, ClosePeers, peersVars
  <2>2. disconnected' \subseteq Conns /\ closed' \in BOOLEAN /\ stopping' \in BOOLEAN
    <3>1. {peers[i] : i \in Registered} \subseteq Conns
      BY DEF PeersTypeOK, Registered
    <3>2. CASE ClosePeers
      BY <3>1, <3>2 DEF ClosePeers, PeersTypeOK
    <3>3. CASE StopHandler
      BY <3>3 DEF StopHandler, PeersTypeOK
    <3>4. CASE UNCHANGED peersVars
      BY <3>4 DEF peersVars, PeersTypeOK
    <3> QED
      BY <1>6, <3>2, <3>3, <3>4
  <2>3. PeersTypeOK'
    BY <2>1, <2>2 DEF PeersTypeOK
  <2> QED
    BY <2>1, <2>3 DEF RegistryInv, Removing, Active
<1> QED
  BY <1>1, <1>2, <1>3, <1>4, <1>5, <1>6, ReturnInv, DropInv, RemoveInv DEF PeersNext

(* The inductive invariant.                                                 *)
LEMMA PeersInvariant == ASSUME PeersAssumption PROVE PeersSpec => []PeersIInv
<1>1. PeersInit => PeersIInv
  BY PeersStarts
<1>2. PeersIInv /\ [PeersNext]_peersVars => PeersIInv'
  BY PeersSteps
<1> QED
  BY <1>1, <1>2, PTL DEF PeersSpec

(* A connection whose handler has returned is never left in the peer set,    *)
(* whatever removals by other goroutines and new connections of the same id   *)
(* are interleaved with runEthPeer.                                          *)
THEOREM SetHasNoGhosts ==
    ASSUME PeersAssumption
    PROVE  PeersSpec => []PeersSound
<1>1. PeersIInv => PeersSound
  BY DEF PeersIInv, RegistryInv, NoGhosts, PeersSound
<1> QED
  BY <1>1, PeersInvariant, PTL

-----------------------------------------------------------------------------
(* The order of the naturals, as a relation.                               *)
Less == {p \in Nat \X Nat : p[1] < p[2]}

(* A set of naturals has a least element, which Min finds.                 *)
LEMMA LeastNat ==
    ASSUME NEW S \in SUBSET Nat, S # {}
    PROVE  Min(S) \in S /\ \A y \in S : Min(S) <= y
<1>1. Less = OpToRel(<, Nat)
  BY Zenon DEF OpToRel, Less
<1>2. IsWellFoundedOn(Less, Nat)
  BY <1>1, NatLessThanWellFounded
<1>3. \A x, y \in Nat : <<x, y>> \in Less <=> x < y
  BY DEF Less
<1>4. PICK x \in S : \A y \in S : ~(<<y, x>> \in Less)
  BY <1>2, WFMin, Zenon
<1>5. \A y \in S : ~(y < x)
  BY <1>3, <1>4, Zenon
<1>6. \A y \in S : x <= y
  BY <1>5
<1> QED
  BY <1>6, Zenon DEF Min


(* What two lists hold together, and when nothing is in them twice.        *)
LEMMA CatOnce ==
    ASSUME NEW S, NEW s \in Seq(S), NEW t \in Seq(S)
    PROVE  /\ Range(s \o t) = Range(s) \cup Range(t)
           /\ IsInjective(s \o t) <=> /\ IsInjective(s) /\ IsInjective(t)
                                      /\ Range(s) \cap Range(t) = {}
<1>0. /\ Len(s) \in Nat /\ Len(t) \in Nat /\ DOMAIN s = 1 .. Len(s) /\ DOMAIN t = 1 .. Len(t)
      /\ s \o t \in Seq(S) /\ Len(s \o t) = Len(s) + Len(t) /\ DOMAIN (s \o t) = 1 .. Len(s) + Len(t)
      /\ \A i \in 1 .. Len(s) : (s \o t)[i] = s[i]
      /\ \A i \in 1 .. Len(t) : (s \o t)[Len(s) + i] = t[i]
  OBVIOUS
<1>1. \A i \in 1 .. Len(s) + Len(t) : i \in 1 .. Len(s) \/ \E j \in 1 .. Len(t) : i = Len(s) + j
  <2> SUFFICES ASSUME NEW i \in 1 .. Len(s) + Len(t), i \notin 1 .. Len(s)
               PROVE  \E j \in 1 .. Len(t) : i = Len(s) + j
    OBVIOUS
  <2>1. i - Len(s) \in 1 .. Len(t) /\ i = Len(s) + (i - Len(s))
    BY <1>0
  <2> QED
    BY <2>1, Zenon
<1>2. \A i \in 1 .. Len(s) : i \in 1 .. Len(s) + Len(t)
  BY <1>0
<1>3. \A j \in 1 .. Len(t) : Len(s) + j \in 1 .. Len(s) + Len(t) /\ Len(s) + j \notin 1 .. Len(s)
  BY <1>0
<1>4. Range(s \o t) = Range(s) \cup Range(t)
  <2>1. ASSUME NEW x \in Range(s \o t) PROVE x \in Range(s) \cup Range(t)
    <3>1. PICK i \in 1 .. Len(s) + Len(t) : x = (s \o t)[i]
      BY <1>0 DEF Range
    <3>2. CASE i \in 1 .. Len(s)
      BY <1>0, <3>1, <3>2 DEF Range
    <3>3. CASE \E j \in 1 .. Len(t) : i = Len(s) + j
      BY <1>0, <3>1, <3>3 DEF Range
    <3> QED
      BY <1>1, <3>2, <3>3
  <2>2. ASSUME NEW x \in Range(s) PROVE x \in Range(s \o t)
    BY <1>0, <1>2 DEF Range
  <2>3. ASSUME NEW x \in Range(t) PROVE x \in Range(s \o t)
    BY <1>0, <1>3 DEF Range
  <2> QED
    BY <2>1, <2>2, <2>3
<1>5. ASSUME IsInjective(s \o t)
      PROVE  IsInjective(s) /\ IsInjective(t) /\ Range(s) \cap Range(t) = {}
  <2>1. IsInjective(s)
    BY <1>0, <1>2, <1>5 DEF IsInjective
  <2>2. IsInjective(t)
    BY <1>0, <1>3, <1>5, SMTT(30) DEF IsInjective
  <2>3. Range(s) \cap Range(t) = {}
    BY <1>0, <1>2, <1>3, <1>5 DEF IsInjective, Range
  <2> QED
    BY <2>1, <2>2, <2>3
<1>6. ASSUME IsInjective(s), IsInjective(t), Range(s) \cap Range(t) = {}
      PROVE  IsInjective(s \o t)
  <2> SUFFICES ASSUME NEW i \in 1 .. Len(s) + Len(t), NEW k \in 1 .. Len(s) + Len(t),
                      (s \o t)[i] = (s \o t)[k]
               PROVE  i = k
    BY <1>0 DEF IsInjective
  <2>1. \A p \in 1 .. Len(s), q \in 1 .. Len(t) : s[p] # t[q]
    BY <1>0, <1>6, Zenon DEF Range
  <2>2. CASE i \in 1 .. Len(s) /\ k \in 1 .. Len(s)
    BY <1>0, <1>6, <2>2 DEF IsInjective
  <2>3. CASE i \in 1 .. Len(s) /\ k \notin 1 .. Len(s)
    BY <1>0, <1>1, <2>1, <2>3, SMTT(30)
  <2>4. CASE i \notin 1 .. Len(s) /\ k \in 1 .. Len(s)
    BY <1>0, <1>1, <2>1, <2>4, SMTT(30)
  <2>5. CASE i \notin 1 .. Len(s) /\ k \notin 1 .. Len(s)
    <3>1. PICK p \in 1 .. Len(t) : i = Len(s) + p
      BY <1>1, <2>5
    <3>2. PICK q \in 1 .. Len(t) : k = Len(s) + q
      BY <1>1, <2>5
    <3> QED
      BY <1>0, <1>6, <3>1, <3>2, SMTT(30) DEF IsInjective
  <2> QED
    BY <2>2, <2>3, <2>4, <2>5
<1> QED
  BY <1>4, <1>5, <1>6

(* A list of one element.                                                  *)
LEMMA OneOnce == ASSUME NEW x PROVE Range(<<x>>) = {x} /\ IsInjective(<<x>>)
BY DEF Range, IsInjective

(* What a list holds after an append, and when nothing is in it twice.     *)
LEMMA AppendOnce ==
    ASSUME NEW S, NEW s \in Seq(S), NEW x \in S
    PROVE  /\ Range(Append(s, x)) = Range(s) \cup {x}
           /\ IsInjective(Append(s, x)) <=> IsInjective(s) /\ x \notin Range(s)
<1>1. Append(s, x) = s \o <<x>> /\ <<x>> \in Seq(S)
  OBVIOUS
<1>2. /\ Range(s \o <<x>>) = Range(s) \cup Range(<<x>>)
      /\ IsInjective(s \o <<x>>) <=> /\ IsInjective(s) /\ IsInjective(<<x>>)
                                     /\ Range(s) \cap Range(<<x>>) = {}
  BY <1>1, CatOnce, Zenon
<1> QED
  BY <1>1, <1>2, OneOnce

(* What a list holds besides its head, and when nothing is in it twice.    *)
LEMMA TailOnce ==
    ASSUME NEW S, NEW s \in Seq(S), s # <<>>
    PROVE  /\ Head(s) \in S /\ Tail(s) \in Seq(S)
           /\ Range(s) = Range(Tail(s)) \cup {Head(s)}
           /\ IsInjective(s) <=> IsInjective(Tail(s)) /\ Head(s) \notin Range(Tail(s))
<1>1. Head(s) \in S /\ Tail(s) \in Seq(S) /\ s = <<Head(s)>> \o Tail(s) /\ <<Head(s)>> \in Seq(S)
  OBVIOUS
<1>2. /\ Range(<<Head(s)>> \o Tail(s)) = Range(<<Head(s)>>) \cup Range(Tail(s))
      /\ IsInjective(<<Head(s)>> \o Tail(s)) <=>
            /\ IsInjective(<<Head(s)>>) /\ IsInjective(Tail(s))
            /\ Range(<<Head(s)>>) \cap Range(Tail(s)) = {}
  BY <1>1, CatOnce, Zenon
<1> QED
  BY <1>1, <1>2, OneOnce, ZenonT(30)

(* What the writer takes from a queue and writes was one list before and   *)
(* is the same list after.                                                 *)
LEMMA Moved ==
    ASSUME NEW S, NEW s \in Seq(S), NEW q \in Seq(S), q # <<>>
    PROVE  Append(s, Head(q)) \o Tail(q) = s \o q
<1>1. /\ Head(q) \in S /\ Tail(q) \in Seq(S) /\ Len(q) \in Nat \ {0} /\ Len(Tail(q)) = Len(q) - 1
      /\ \A i \in 1 .. Len(q) - 1 : Tail(q)[i] = q[i + 1]
      /\ q[1] = Head(q)
  OBVIOUS
<1>2. /\ Append(s, Head(q)) \in Seq(S) /\ Len(Append(s, Head(q))) = Len(s) + 1
      /\ \A i \in 1 .. Len(s) : Append(s, Head(q))[i] = s[i]
      /\ Append(s, Head(q))[Len(s) + 1] = Head(q) /\ Len(s) \in Nat
  BY <1>1
<1> DEFINE l == Append(s, Head(q)) \o Tail(q)
           r == s \o q
<1>3. l \in Seq(S) /\ r \in Seq(S) /\ Len(l) = Len(s) + Len(q) /\ Len(r) = Len(s) + Len(q)
  BY <1>1, <1>2
<1>4. ASSUME NEW i \in 1 .. Len(s) + Len(q) PROVE l[i] = r[i]
  <2>1. CASE i <= Len(s)
    BY <1>1, <1>2, <2>1
  <2>2. CASE i = Len(s) + 1
    BY <1>1, <1>2, <2>2
  <2>3. CASE i > Len(s) + 1
    <3>1. l[i] = Tail(q)[i - (Len(s) + 1)] /\ r[i] = q[i - Len(s)]
      BY <1>1, <1>2, <2>3
    <3>2. i - (Len(s) + 1) \in 1 .. Len(q) - 1 /\ (i - (Len(s) + 1)) + 1 = i - Len(s)
      BY <1>1, <1>2, <2>3
    <3> QED
      BY <1>1, <3>1, <3>2
  <2> QED
    BY <1>1, <1>2, <2>1, <2>2, <2>3
<1> HIDE DEF l, r
<1>5. l = r
  BY <1>3, <1>4
<1> QED
  BY <1>5 DEF l, r

(* markBlock remembers the block; as long as there are fewer blocks than   *)
(* maxKnownBlocks it forgets none (the loop that pops from knownBlocks).   *)
LEMMA Marked ==
    ASSUME BroadcastAssumption, BroadcastTypeOK, NEW b \in Blocks, mark(b)
    PROVE  /\ known' \subseteq Blocks /\ b \in known'
           /\ Cardinality(Blocks) < maxKnownBlocks => known' = known \cup {b}
<1>1. Cardinality(known) \in Nat /\ Cardinality(known) <= Cardinality(Blocks) /\ Cardinality(Blocks) \in Nat
  BY FS_Subset, FS_CardinalityType DEF BroadcastAssumption, BroadcastTypeOK
<1> QED
  BY <1>1 DEF mark, BroadcastAssumption, BroadcastTypeOK

(* The types of what concerns blocks.                                      *)
BlocksTyped ==
    /\ sent \in Seq(Blocks) /\ announced \in Seq(Blocks)
    /\ queuedBlocks \in Seq(Blocks) /\ queuedBlockAnns \in Seq(Blocks)
    /\ known \subseteq Blocks /\ writer \in BOOLEAN
    /\ insert \in [Blocks -> {"none", "inserting", "failed", "in"}]
    /\ propagating \in [Blocks -> Stages] /\ announcing \in [Blocks -> Stages]
    /\ crossed \subseteq Blocks /\ theirs \subseteq Blocks

(* knownBlocks does not overflow.                                          *)
Few == Cardinality(Blocks) < maxKnownBlocks

(* What is true of one block: what was queued is known or about to be      *)
(* marked, and a goroutine that listed the peer finds its block queued by  *)
(* the other one at most.                                                  *)
OnceAt(b) ==
    /\ b \in Range(InFull) => /\ b \in known \/ propagating[b] = "queued"
                              /\ propagating[b] # "listed"
                              /\ announcing[b] = "listed" => b \in crossed
                              /\ b \in Range(ByHash) => b \in crossed
    /\ b \in Range(ByHash) => /\ b \in known \/ announcing[b] = "queued"
                              /\ announcing[b] # "listed"
                              /\ propagating[b] = "listed" => b \in crossed
    /\ propagating[b] \in OnList /\ announcing[b] \in OnList => b \in crossed
    /\ b \in crossed => b \in Imported
    /\ b \in Imported /\ insert[b] = "inserting" => announcing[b] = "idle"
    /\ b \in Mined => propagating[b] = "idle" \/ announcing[b] = "idle"
    /\ b \in theirs => /\ b \in known /\ propagating[b] \notin OnList /\ announcing[b] \notin OnList
                       /\ b \notin Range(InFull) /\ b \notin Range(ByHash)

(* Nothing is twice in full or twice by hash on its way to the peer.       *)
BlocksOnce ==
    Few => IsInjective(InFull) /\ IsInjective(ByHash) /\ \A b \in Blocks : OnceAt(b)

(* The lists of blocks are lists of blocks.                                *)
LEMMA ListsTyped ==
    ASSUME BlocksTyped
    PROVE  /\ InFull \in Seq(Blocks) /\ ByHash \in Seq(Blocks)
           /\ Range(InFull) \subseteq Blocks /\ Range(ByHash) \subseteq Blocks
<1>1. InFull \in Seq(Blocks) /\ ByHash \in Seq(Blocks)
  BY DEF BlocksTyped, InFull, ByHash
<1>2. \A q \in Seq(Blocks) : Range(q) \subseteq Blocks
  BY DEF Range
<1> QED
  BY <1>1, <1>2, Zenon

(* This is what the module promises, said of each block.                   *)
LEMMA OnceMeans == ASSUME BlocksTyped PROVE BlocksOnce <=> KnownInv /\ AtMostOnce
<1>1. Range(InFull) \subseteq Blocks /\ Range(ByHash) \subseteq Blocks /\ crossed \subseteq Blocks
      /\ theirs \subseteq Blocks /\ Mined \subseteq Blocks /\ Imported \subseteq Blocks
  BY ListsTyped DEF BlocksTyped, Blocks
<1>2. ASSUME BlocksOnce, Few PROVE KnownInv /\ AtMostOnce
  <2>1. KnownInv
    BY <1>1, <1>2, ZenonT(30) DEF BlocksOnce, OnceAt, KnownInv
  <2>2. AtMostOnce
    BY <1>1, <1>2, ZenonT(30) DEF BlocksOnce, OnceAt, AtMostOnce
  <2> QED
    BY <2>1, <2>2
<1>3. ASSUME KnownInv, AtMostOnce, Few PROVE BlocksOnce
  <2>1. ASSUME NEW b \in Blocks PROVE OnceAt(b)
    BY <1>3, ZenonT(30) DEF KnownInv, AtMostOnce, OnceAt, Few
  <2>2. IsInjective(InFull) /\ IsInjective(ByHash)
    BY <1>3, Zenon DEF AtMostOnce, Few
  <2> QED
    BY <2>1, <2>2, ZenonT(30) DEF BlocksOnce
<1>4. ~Few => BlocksOnce /\ KnownInv /\ AtMostOnce
  BY Zenon DEF BlocksOnce, KnownInv, AtMostOnce, Few
<1> QED
  BY <1>2, <1>3, <1>4, Zenon

(* A goroutine's stage stays or becomes another one.                       *)
Moves(g, f, b, S) == g = f \/ \E s \in S : g = [f EXCEPT ![b] = s]

(* A step that concerns one block leaves what is true of the others.       *)
LEMMA OthersOnce ==
    ASSUME BlocksOnce, NEW b \in Blocks,
           Few => IsInjective(InFull') /\ IsInjective(ByHash') /\ OnceAt(b)',
           \A c \in Blocks \ {b} :
              /\ c \in Range(InFull') => c \in Range(InFull)
              /\ c \in Range(ByHash') => c \in Range(ByHash)
              /\ Few /\ c \in known => c \in known'
              /\ c \in crossed' <=> c \in crossed
              /\ c \in theirs' <=> c \in theirs
              /\ insert'[c] = insert[c]
              /\ propagating'[c] = propagating[c] /\ announcing'[c] = announcing[c]
    PROVE  BlocksOnce'
<1>1. ASSUME Few, NEW c \in Blocks, c # b PROVE OnceAt(c)'
  <2>1. OnceAt(c)
    BY <1>1, ZenonT(30) DEF BlocksOnce
  <2> QED
    BY <1>1, <2>1, ZenonT(30) DEF OnceAt
<1>2. ASSUME Few, NEW c \in Blocks PROVE OnceAt(c)'
  BY <1>1, <1>2, Zenon
<1> QED
  BY <1>2, Zenon DEF BlocksOnce, Few

(* The steps of the miner's loop, the importer and the two goroutines that *)
(* queue and mark nothing.                                                 *)
LEMMA StageOnce ==
    ASSUME BroadcastAssumption, BlocksTyped, BlocksOnce, NEW b \in Blocks,
           \/ MinedBlock(b) \/ ImportBlock(b) \/ InsertChain(b)
           \/ Propagate(b) \/ Dangling(b) \/ Announce(b)
    PROVE  BlocksTyped' /\ BlocksOnce' /\ UNCHANGED txVars
<1>0. /\ insert \in [Blocks -> {"none", "inserting", "failed", "in"}]
      /\ propagating \in [Blocks -> Stages] /\ announcing \in [Blocks -> Stages]
  BY Zenon DEF BlocksTyped
<1>1. UNCHANGED <<known, queueVars, theirs, txVars>>
  BY Zenon DEF MinedBlock, ImportBlock, InsertChain, Propagate, Dangling, Announce, EndPropagation
<1>2. InFull' = InFull /\ ByHash' = ByHash
  BY <1>1, Zenon DEF InFull, ByHash, queueVars
<1>3. /\ insert' \in [Blocks -> {"none", "inserting", "failed", "in"}]
      /\ propagating' \in [Blocks -> Stages] /\ announcing' \in [Blocks -> Stages]
      /\ \A c \in Blocks \ {b} : insert'[c] = insert[c] /\ propagating'[c] = propagating[c]
                                   /\ announcing'[c] = announcing[c]
  <2>1. /\ Moves(insert', insert, b, {"none", "inserting", "failed", "in"})
        /\ Moves(propagating', propagating, b, Stages)
    BY ZenonT(30) DEF Moves, Stages, MinedBlock, ImportBlock, InsertChain, Propagate, Dangling, Announce,
                      EndPropagation
  <2>2. Moves(announcing', announcing, b, Stages)
    BY ZenonT(30) DEF Moves, Stages, MinedBlock, ImportBlock, InsertChain, Propagate, Dangling, Announce,
                      EndPropagation
  <2> QED
    BY <1>0, <2>1, <2>2, SMTT(30) DEF Moves
<1>4. crossed' \subseteq crossed \cup {b} /\ crossed \subseteq crossed'
  BY Zenon DEF MinedBlock, ImportBlock, InsertChain, Propagate, Dangling, Announce, EndPropagation
<1>5. BlocksTyped'
  BY <1>1, <1>3, <1>4 DEF BlocksTyped, queueVars
<1>6. ASSUME Few PROVE OnceAt(b)'
  <2>0. OnceAt(b) /\ (b \in Mined => b \notin Imported) /\ (b \notin Mined => b \in Imported)
    BY <1>6, ZenonT(30) DEF BlocksOnce, BroadcastAssumption, Blocks
  <2>1. CASE MinedBlock(b)
    <3>1. /\ propagating[b] = "idle" /\ announcing[b] = "idle"
          /\ propagating'[b] = "look" /\ announcing'[b] = "idle" /\ insert'[b] = "in" /\ crossed' = crossed
      BY <1>0, <2>1, SMTT(30) DEF MinedBlock
    <3> QED
      BY <1>1, <1>2, <2>0, <3>1 DEF OnceAt, OnList
  <2>2. CASE ImportBlock(b)
    <3>1. /\ propagating[b] = "idle" /\ announcing[b] = "idle" /\ b \in Imported
          /\ propagating'[b] \in {"look", "idle"} /\ announcing'[b] = "idle" /\ crossed' = crossed
      BY <1>0, <2>2, SMTT(30) DEF ImportBlock
    <3> QED
      BY <1>1, <1>2, <2>0, <3>1 DEF OnceAt, OnList
  <2>3. CASE InsertChain(b)
    <3>1. /\ b \in Imported /\ insert[b] = "inserting" /\ propagating'[b] = propagating[b]
          /\ insert'[b] \in {"in", "failed"} /\ crossed' = crossed
          /\ announcing'[b] = announcing[b] \/ announcing'[b] = "look"
      BY <1>0, <2>3, SMTT(30) DEF InsertChain
    <3> QED
      BY <1>1, <1>2, <2>0, <3>1 DEF OnceAt, OnList
  <2>4. CASE Propagate(b) /\ b \in known
    <3>1. /\ propagating[b] = "look" /\ propagating'[b] = "idle" /\ insert' = insert /\ crossed' = crossed
          /\ announcing'[b] = IF b \in Mined THEN "look" ELSE announcing[b]
      BY <1>0, <2>4, SMTT(30) DEF Propagate, EndPropagation
    <3> QED
      BY <1>1, <1>2, <2>0, <2>4, <3>1 DEF OnceAt, OnList
  <2>5. CASE Propagate(b) /\ b \notin known
    <3>1. /\ propagating[b] = "look" /\ propagating'[b] = "listed" /\ insert' = insert
          /\ announcing' = announcing
          /\ b \in crossed' <=> b \in crossed \/ announcing[b] \in OnList
      BY <1>0, <2>5, SMTT(30) DEF Propagate
    <3> QED
      BY <1>1, <1>2, <2>0, <2>5, <3>1 DEF OnceAt, OnList
  <2>6. CASE Dangling(b)
    <3>1. /\ propagating[b] = "listed" /\ propagating'[b] = "idle" /\ insert' = insert /\ crossed' = crossed
          /\ announcing'[b] = IF b \in Mined THEN "look" ELSE announcing[b]
      BY <1>0, <2>6, SMTT(30) DEF Dangling, EndPropagation
    <3> QED
      BY <1>1, <1>2, <2>0, <3>1 DEF OnceAt, OnList
  <2>7. CASE Announce(b)
    <3>1. /\ announcing[b] = "look" /\ propagating' = propagating /\ insert' = insert
          /\ announcing'[b] = IF b \in known THEN "idle" ELSE "listed"
          /\ b \in crossed' <=> b \in crossed \/ (b \notin known /\ propagating[b] \in OnList)
      BY <1>0, <2>7, SMTT(30) DEF Announce
    <3> QED
      BY <1>1, <1>2, <2>0, <3>1 DEF OnceAt, OnList
  <2> QED
    BY <2>1, <2>2, <2>3, <2>4, <2>5, <2>6, <2>7
<1>7. BlocksOnce'
  <2>1. Few => IsInjective(InFull') /\ IsInjective(ByHash') /\ OnceAt(b)'
    BY <1>2, <1>6, ZenonT(30) DEF BlocksOnce
  <2>2. ASSUME NEW c \in Blocks \ {b}
        PROVE  /\ c \in Range(InFull') => c \in Range(InFull)
               /\ c \in Range(ByHash') => c \in Range(ByHash)
               /\ Few /\ c \in known => c \in known'
               /\ c \in crossed' <=> c \in crossed
               /\ c \in theirs' <=> c \in theirs
               /\ insert'[c] = insert[c]
               /\ propagating'[c] = propagating[c] /\ announcing'[c] = announcing[c]
    BY <1>1, <1>2, <1>3, <1>4, Zenon
  <2> QED
    BY <2>1, <2>2, OthersOnce
<1> QED
  BY <1>1, <1>5, <1>7, Zenon

(* A block that is queued was not queued or written in full before,        *)
(* because the goroutine had found it unknown and not yet queued it        *)
(* (AsyncSendNewBlock).                                                    *)
LEMMA QueueOnce ==
    ASSUME BroadcastAssumption, BlocksTyped, BlocksOnce, NEW b \in Blocks, AsyncSendNewBlock(b)
    PROVE  BlocksTyped' /\ BlocksOnce' /\ UNCHANGED txVars
<1>0. /\ insert \in [Blocks -> {"none", "inserting", "failed", "in"}]
      /\ propagating \in [Blocks -> Stages] /\ announcing \in [Blocks -> Stages]
  BY Zenon DEF BlocksTyped
<1>1. UNCHANGED <<insert, known, queuedBlockAnns, writer, sent, announced, crossed, theirs, txVars>>
  BY Zenon DEF AsyncSendNewBlock
<1>2. /\ propagating' \in [Blocks -> Stages] /\ announcing' \in [Blocks -> Stages]
      /\ \A c \in Blocks \ {b} : propagating'[c] = propagating[c] /\ announcing'[c] = announcing[c]
  <2>1. Moves(propagating', propagating, b, Stages) /\ Moves(announcing', announcing, b, Stages)
    BY ZenonT(30) DEF Moves, Stages, AsyncSendNewBlock, EndPropagation
  <2> QED
    BY <1>0, <2>1, SMTT(30) DEF Moves
<1>3. queuedBlocks' \in Seq(Blocks)
  <2>1. queuedBlocks \in Seq(Blocks) /\ Append(queuedBlocks, b) \in Seq(Blocks)
    BY DEF BlocksTyped
  <2> QED
    BY <2>1, Zenon DEF AsyncSendNewBlock
<1>4. BlocksTyped'
  BY <1>1, <1>2, <1>3, Zenon DEF BlocksTyped
<1>5. ByHash' = ByHash
  BY <1>1, Zenon DEF ByHash
<1>6. CASE UNCHANGED queuedBlocks /\ EndPropagation(b)
  <2>1. InFull' = InFull
    BY <1>1, <1>6, ZenonT(30) DEF InFull
  <2>2. ASSUME Few PROVE OnceAt(b)'
    <3>1. OnceAt(b) /\ (b \in Mined => b \notin Imported)
      BY <2>2, ZenonT(30) DEF BlocksOnce, BroadcastAssumption
    <3>2. /\ propagating[b] = "listed" /\ propagating'[b] = "idle"
          /\ announcing'[b] = IF b \in Mined THEN "look" ELSE announcing[b]
      BY <1>0, <1>6, SMTT(30) DEF AsyncSendNewBlock, EndPropagation
    <3> QED
      BY <1>1, <1>5, <2>1, <3>1, <3>2 DEF OnceAt, OnList
  <2>3. Few => IsInjective(InFull') /\ IsInjective(ByHash') /\ OnceAt(b)'
    BY <1>5, <2>1, <2>2, ZenonT(30) DEF BlocksOnce
  <2>4. BlocksOnce'
    BY <1>1, <1>2, <1>5, <2>1, <2>3, OthersOnce
  <2> QED
    BY <1>1, <1>4, <2>4, Zenon
<1>7. CASE queuedBlocks' = Append(queuedBlocks, b) /\ propagating' = [propagating EXCEPT ![b] = "queued"]
           /\ announcing' = announcing
  <2>1. InFull' = Append(InFull, b)
    <3>1. \A s, q \in Seq(Blocks) : s \o Append(q, b) = Append(s \o q, b)
      OBVIOUS
    <3> QED
      BY <1>1, <1>7, <3>1, Zenon DEF InFull, BlocksTyped
  <2>2. /\ Range(InFull') = Range(InFull) \cup {b}
        /\ IsInjective(InFull') <=> IsInjective(InFull) /\ b \notin Range(InFull)
    BY <2>1, ListsTyped, AppendOnce
  <2>3. propagating[b] = "listed" /\ propagating'[b] = "queued"
    BY <1>0, <1>7, SMTT(30) DEF AsyncSendNewBlock
  <2>4. ASSUME Few PROVE b \notin Range(InFull) /\ OnceAt(b)'
    <3>1. OnceAt(b)
      BY <2>4, ZenonT(30) DEF BlocksOnce
    <3> QED
      BY <1>1, <1>5, <1>7, <2>2, <2>3, <3>1 DEF OnceAt, OnList
  <2>5. Few => IsInjective(InFull') /\ IsInjective(ByHash') /\ OnceAt(b)'
    BY <1>5, <2>2, <2>4, ZenonT(30) DEF BlocksOnce
  <2>6. BlocksOnce'
    BY <1>1, <1>2, <1>5, <2>2, <2>5, OthersOnce
  <2> QED
    BY <1>1, <1>4, <2>6, Zenon
<1> QED
  BY <1>6, <1>7, Zenon DEF AsyncSendNewBlock

(* The same of the hash (AsyncSendNewBlockHash).                           *)
LEMMA HashOnce ==
    ASSUME BroadcastAssumption, BlocksTyped, BlocksOnce, NEW b \in Blocks, AsyncSendNewBlockHash(b)
    PROVE  BlocksTyped' /\ BlocksOnce' /\ UNCHANGED txVars
<1>0. /\ insert \in [Blocks -> {"none", "inserting", "failed", "in"}]
      /\ propagating \in [Blocks -> Stages] /\ announcing \in [Blocks -> Stages]
  BY Zenon DEF BlocksTyped
<1>1. UNCHANGED <<insert, propagating, known, queuedBlocks, writer, sent, announced, crossed, theirs, txVars>>
  BY Zenon DEF AsyncSendNewBlockHash
<1>2. /\ announcing' \in [Blocks -> Stages]
      /\ \A c \in Blocks \ {b} : announcing'[c] = announcing[c]
  <2>1. Moves(announcing', announcing, b, Stages)
    BY ZenonT(30) DEF Moves, Stages, AsyncSendNewBlockHash
  <2> QED
    BY <1>0, <2>1, SMTT(30) DEF Moves
<1>3. queuedBlockAnns' \in Seq(Blocks)
  <2>1. queuedBlockAnns \in Seq(Blocks) /\ Append(queuedBlockAnns, b) \in Seq(Blocks)
    BY DEF BlocksTyped
  <2> QED
    BY <2>1, Zenon DEF AsyncSendNewBlockHash
<1>4. BlocksTyped'
  BY <1>1, <1>2, <1>3, Zenon DEF BlocksTyped
<1>5. InFull' = InFull
  BY <1>1, Zenon DEF InFull
<1>6. CASE UNCHANGED queuedBlockAnns /\ announcing' = [announcing EXCEPT ![b] = "idle"]
  <2>1. ByHash' = ByHash
    BY <1>1, <1>6, ZenonT(30) DEF ByHash
  <2>2. ASSUME Few PROVE OnceAt(b)'
    <3>1. OnceAt(b)
      BY <2>2, ZenonT(30) DEF BlocksOnce
    <3>2. announcing[b] = "listed" /\ announcing'[b] = "idle"
      BY <1>0, <1>6, SMTT(30) DEF AsyncSendNewBlockHash
    <3> QED
      BY <1>1, <1>5, <2>1, <3>1, <3>2 DEF OnceAt, OnList
  <2>3. Few => IsInjective(InFull') /\ IsInjective(ByHash') /\ OnceAt(b)'
    BY <1>5, <2>1, <2>2, ZenonT(30) DEF BlocksOnce
  <2>4. BlocksOnce'
    BY <1>1, <1>2, <1>5, <2>1, <2>3, OthersOnce
  <2> QED
    BY <1>1, <1>4, <2>4, Zenon
<1>7. CASE queuedBlockAnns' = Append(queuedBlockAnns, b) /\ announcing' = [announcing EXCEPT ![b] = "queued"]
  <2>1. ByHash' = Append(ByHash, b)
    <3>1. \A s, q \in Seq(Blocks) : s \o Append(q, b) = Append(s \o q, b)
      OBVIOUS
    <3> QED
      BY <1>1, <1>7, <3>1, Zenon DEF ByHash, BlocksTyped
  <2>2. /\ Range(ByHash') = Range(ByHash) \cup {b}
        /\ IsInjective(ByHash') <=> IsInjective(ByHash) /\ b \notin Range(ByHash)
    BY <2>1, ListsTyped, AppendOnce
  <2>3. announcing[b] = "listed" /\ announcing'[b] = "queued"
    BY <1>0, <1>7, SMTT(30) DEF AsyncSendNewBlockHash
  <2>4. ASSUME Few PROVE b \notin Range(ByHash) /\ OnceAt(b)'
    <3>1. OnceAt(b)
      BY <2>4, ZenonT(30) DEF BlocksOnce
    <3> QED
      BY <1>1, <1>5, <2>2, <2>3, <3>1 DEF OnceAt, OnList
  <2>5. Few => IsInjective(InFull') /\ IsInjective(ByHash') /\ OnceAt(b)'
    BY <1>5, <2>2, <2>4, ZenonT(30) DEF BlocksOnce
  <2>6. BlocksOnce'
    BY <1>1, <1>2, <1>5, <2>2, <2>5, OthersOnce
  <2> QED
    BY <1>1, <1>4, <2>6, Zenon
<1> QED
  BY <1>6, <1>7, Zenon DEF AsyncSendNewBlockHash

(* What was queued is marked, and the goroutine ends; what the peer sends  *)
(* is marked as well (markBlock).                                          *)
LEMMA MarkOnce ==
    ASSUME BroadcastAssumption, BroadcastTypeOK, BlocksTyped, BlocksOnce, NEW b \in Blocks,
           MarkPropagated(b) \/ MarkAnnounced(b) \/ FromPeer(b)
    PROVE  BlocksTyped' /\ BlocksOnce' /\ UNCHANGED txVars
<1>0. /\ insert \in [Blocks -> {"none", "inserting", "failed", "in"}]
      /\ propagating \in [Blocks -> Stages] /\ announcing \in [Blocks -> Stages]
  BY Zenon DEF BlocksTyped
<1>1. mark(b) /\ UNCHANGED <<insert, queueVars, crossed, txVars>>
  BY Zenon DEF MarkPropagated, MarkAnnounced, FromPeer, stageVars
<1>2. /\ propagating' \in [Blocks -> Stages] /\ announcing' \in [Blocks -> Stages]
      /\ \A c \in Blocks \ {b} : propagating'[c] = propagating[c] /\ announcing'[c] = announcing[c]
  <2>1. Moves(propagating', propagating, b, Stages) /\ Moves(announcing', announcing, b, Stages)
    BY ZenonT(30) DEF Moves, Stages, MarkPropagated, MarkAnnounced, FromPeer, EndPropagation, stageVars
  <2> QED
    BY <1>0, <2>1, SMTT(30) DEF Moves
<1>3. theirs' \subseteq theirs \cup {b} /\ theirs \subseteq theirs'
  BY Zenon DEF MarkPropagated, MarkAnnounced, FromPeer
<1>4. /\ known' \subseteq Blocks /\ b \in known'
      /\ Few => known' = known \cup {b}
  BY <1>1, Marked DEF Few
<1>5. BlocksTyped'
  BY <1>1, <1>2, <1>3, <1>4 DEF BlocksTyped, queueVars
<1>6. InFull' = InFull /\ ByHash' = ByHash
  BY <1>1, Zenon DEF InFull, ByHash, queueVars
<1>7. ASSUME Few PROVE OnceAt(b)'
  <2>0. OnceAt(b) /\ (b \in Mined => b \notin Imported)
    BY <1>7, ZenonT(30) DEF BlocksOnce, BroadcastAssumption
  <2>1. CASE MarkPropagated(b)
    <3>1. /\ propagating[b] = "queued" /\ propagating'[b] = "idle" /\ theirs' = theirs
          /\ announcing'[b] = IF b \in Mined THEN "look" ELSE announcing[b]
      BY <1>0, <2>1, SMTT(30) DEF MarkPropagated, EndPropagation
    <3> QED
      BY <1>1, <1>4, <1>6, <1>7, <2>0, <3>1 DEF OnceAt, OnList
  <2>2. CASE MarkAnnounced(b)
    <3>1. /\ announcing[b] = "queued" /\ announcing'[b] = "idle" /\ theirs' = theirs
          /\ propagating' = propagating
      BY <1>0, <2>2, SMTT(30) DEF MarkAnnounced
    <3> QED
      BY <1>1, <1>4, <1>6, <1>7, <2>0, <3>1 DEF OnceAt, OnList
  <2>3. CASE FromPeer(b)
    <3>1. /\ propagating' = propagating /\ announcing' = announcing
          /\ b \in theirs' => \/ b \in theirs
                              \/ /\ propagating[b] \notin OnList /\ announcing[b] \notin OnList
                                 /\ b \notin Range(InFull) /\ b \notin Range(ByHash)
      BY <2>3, ZenonT(30) DEF FromPeer, stageVars
    <3> QED
      BY <1>1, <1>4, <1>6, <1>7, <2>0, <3>1 DEF OnceAt, OnList
  <2> QED
    BY <2>1, <2>2, <2>3
<1>8. BlocksOnce'
  <2>1. Few => IsInjective(InFull') /\ IsInjective(ByHash') /\ OnceAt(b)'
    BY <1>6, <1>7, ZenonT(30) DEF BlocksOnce
  <2>2. \A c \in Blocks \ {b} : c \in theirs' <=> c \in theirs
    BY <1>3, Zenon
  <2> QED
    BY <1>1, <1>2, <1>4, <1>6, <2>1, <2>2, OthersOnce
<1> QED
  BY <1>1, <1>5, <1>8, Zenon

(* The writer takes from a queue what it writes (broadcastBlocks).         *)
LEMMA WriteOnce ==
    ASSUME BroadcastAssumption, BroadcastTypeOK, BlocksTyped, BlocksOnce,
           SendNewBlock \/ SendNewBlockHashes \/ SendFails
    PROVE  BlocksTyped' /\ BlocksOnce' /\ UNCHANGED txVars
<1>1. UNCHANGED <<stageVars, crossed, theirs, txVars>>
  BY Zenon DEF SendNewBlock, SendNewBlockHashes, SendFails
<1>2. SUFFICES ASSUME NEW b \in Blocks, known' = known \/ mark(b),
                      sent' \in Seq(Blocks), announced' \in Seq(Blocks), writer' \in BOOLEAN,
                      queuedBlocks' \in Seq(Blocks), queuedBlockAnns' \in Seq(Blocks),
                      InFull' = InFull, ByHash' = ByHash
               PROVE  BlocksTyped' /\ BlocksOnce'
  <2>1. CASE SendNewBlock
    <3>1. /\ Head(queuedBlocks) \in Blocks /\ queuedBlocks # <<>> /\ mark(Head(queuedBlocks))
          /\ queuedBlocks' \in Seq(Blocks) /\ sent' \in Seq(Blocks)
          /\ sent' = Append(sent, Head(queuedBlocks)) /\ queuedBlocks' = Tail(queuedBlocks)
          /\ UNCHANGED <<queuedBlockAnns, writer, announced>>
      BY <2>1 DEF SendNewBlock, BlocksTyped
    <3>2. InFull' = InFull /\ ByHash' = ByHash
      BY <3>1, Moved, SMTT(30) DEF BlocksTyped, InFull, ByHash
    <3> QED
      BY <1>1, <1>2, <3>1, <3>2, Zenon DEF BlocksTyped
  <2>2. CASE SendNewBlockHashes
    <3>1. /\ Head(queuedBlockAnns) \in Blocks /\ queuedBlockAnns # <<>> /\ mark(Head(queuedBlockAnns))
          /\ queuedBlockAnns' \in Seq(Blocks) /\ announced' \in Seq(Blocks)
          /\ announced' = Append(announced, Head(queuedBlockAnns)) /\ queuedBlockAnns' = Tail(queuedBlockAnns)
          /\ UNCHANGED <<queuedBlocks, writer, sent>>
      BY <2>2 DEF SendNewBlockHashes, BlocksTyped
    <3>2. InFull' = InFull /\ ByHash' = ByHash
      BY <3>1, Moved, SMTT(30) DEF BlocksTyped, InFull, ByHash
    <3> QED
      BY <1>1, <1>2, <3>1, <3>2, Zenon DEF BlocksTyped
  <2>3. CASE SendFails
    <3>1. /\ UNCHANGED <<known, queuedBlocks, queuedBlockAnns, sent, announced>> /\ writer' = FALSE
          /\ queuedBlocks \o queuedBlockAnns # <<>>
      BY <2>3, Zenon DEF SendFails
    <3>2. PICK b \in Blocks : TRUE
      BY <3>1 DEF BlocksTyped
    <3> QED
      BY <1>1, <1>2, <3>1, <3>2, Zenon DEF BlocksTyped, InFull, ByHash
  <2> QED
    BY <2>1, <2>2, <2>3
<1>3. known' \subseteq Blocks /\ (Few => known \subseteq known')
  BY <1>2, Marked DEF Few, BlocksTyped
<1>4. BlocksTyped'
  BY <1>1, <1>2, <1>3, Zenon DEF BlocksTyped, stageVars
<1>5. ASSUME Few, NEW c \in Blocks PROVE OnceAt(c)'
  <2>1. OnceAt(c)
    BY <1>5, ZenonT(30) DEF BlocksOnce
  <2> QED
    BY <1>1, <1>2, <1>3, <1>5, <2>1, ZenonT(30) DEF OnceAt, stageVars
<1>6. BlocksOnce'
  BY <1>2, <1>5, Zenon DEF BlocksOnce, Few
<1> QED
  BY <1>4, <1>6

(* The steps that concern blocks keep the promise; those of the            *)
(* transactions are not concerned.                                         *)
LEMMA BlockSteps ==
    ASSUME BroadcastAssumption, BroadcastSound, BlockStep
    PROVE  BroadcastSound'
<1>1. BlocksTyped /\ BlocksOnce /\ BroadcastTypeOK
  <2>1. BlocksTyped
    BY DEF BroadcastSound, BroadcastTypeOK, BlocksTyped
  <2> QED
    BY <2>1, OnceMeans DEF BroadcastSound
<1>2. BlocksTyped' /\ BlocksOnce' /\ UNCHANGED txVars
  BY <1>1, StageOnce, QueueOnce, HashOnce, MarkOnce, WriteOnce DEF BlockStep
<1>3. KnownInv' /\ AtMostOnce'
  <2>1. (BlocksOnce <=> KnownInv /\ AtMostOnce)'
    BY <1>2, OnceMeans, PTL
  <2> QED
    BY <1>2, <2>1
<1>4. BroadcastTypeOK'
  BY <1>1, <1>2, Zenon DEF BroadcastTypeOK, BlocksTyped, txVars
<1>5. QueueMoves'
  BY <1>2 DEF BroadcastSound, QueueMoves, txVars
<1> QED
  BY <1>3, <1>4, <1>5 DEF BroadcastSound

(* A packet is a beginning of the queue, and one that leaves something     *)
(* behind has a transaction that is still in the pool:                     *)
(* announceTransactions starts a send for it.                              *)
LEMMA Packet ==
    ASSUME BroadcastAssumption, NEW q \in Seq(Txs), pool \subseteq Txs
    PROVE  /\ PacketEnd(q) \in 0 .. Len(q)
           /\ PacketEnd(q) # Len(q) => {q[i] : i \in 1 .. PacketEnd(q)} \cap pool # {}
<1> DEFINE C(n) == Cardinality({i \in 1 .. n : q[i] \in pool})
           S == {n \in 0 .. Len(q) : n = Len(q) \/ C(n) = maxPacket}
<1>1. S \subseteq Nat /\ Len(q) \in S
  OBVIOUS
<1>2. PacketEnd(q) = Min(S)
  BY DEF PacketEnd
<1>3. PacketEnd(q) \in S
  BY <1>1, <1>2, LeastNat, Zenon
<1>4. ASSUME PacketEnd(q) # Len(q)
      PROVE  {q[i] : i \in 1 .. PacketEnd(q)} \cap pool # {}
  <2>1. C(PacketEnd(q)) # 0
    BY <1>3, <1>4 DEF BroadcastAssumption
  <2>2. {i \in 1 .. PacketEnd(q) : q[i] \in pool} # {}
    BY <2>1, FS_EmptySet, Zenon
  <2> QED
    BY <2>2
<1> QED
  BY <1>3, <1>4

(* The local state of announceTransactions.                                *)
Writer == [queue : Seq(Txs), inflight : SUBSET Txs, failed : BOOLEAN]

(* After the check at the top of the loop of announceTransactions hashes   *)
(* wait only while a send is under way.                                    *)
LEMMA Started ==
    ASSUME BroadcastAssumption, NEW r \in Writer, pool \subseteq Txs, Len(r.queue) <= maxQueued
    PROVE  /\ StartSend(r) \in Writer
           /\ Len(StartSend(r).queue) <= maxQueued
           /\ StartSend(r).queue # <<>> => StartSend(r).inflight # {}
<1>1. CASE r.inflight # {}
  BY <1>1 DEF StartSend, Writer
<1>2. CASE r.inflight = {}
  <2> DEFINE n == PacketEnd(r.queue)
             T == {r.queue[i] : i \in 1 .. n} \cap pool
             Q == SubSeq(r.queue, n + 1, Len(r.queue))
  <2>1. StartSend(r) = [r EXCEPT !.inflight = T, !.queue = Q]
    BY <1>2 DEF StartSend
  <2>2. r.queue \in Seq(Txs)
    BY DEF Writer
  <2>3. n \in 0 .. Len(r.queue) /\ (n # Len(r.queue) => T # {})
    BY <2>2, Packet
  <2>4. Q \in Seq(Txs) /\ Len(Q) <= maxQueued /\ (n = Len(r.queue) => Q = <<>>)
    BY <2>2, <2>3 DEF BroadcastAssumption
  <2> HIDE DEF Q, n
  <2>5. T \in SUBSET Txs
    OBVIOUS
  <2> HIDE DEF T
  <2>6. /\ StartSend(r) \in Writer /\ StartSend(r).queue = Q /\ StartSend(r).inflight = T
    BY <2>1, <2>4, <2>5, Zenon DEF Writer
  <2> QED
    BY <2>3, <2>4, <2>6
<1> QED
  BY <1>1, <1>2

(* The queue is cut to its last maxQueued hashes.                          *)
LEMMA CappedFits ==
    ASSUME BroadcastAssumption, NEW q \in Seq(Txs)
    PROVE  Capped(q) \in Seq(Txs) /\ Len(Capped(q)) <= maxQueued
BY DEF Capped, BroadcastAssumption

(* The steps that concern transactions keep the promise.                   *)
LEMMA TxSteps ==
    ASSUME BroadcastAssumption, BroadcastSound, TxStep
    PROVE  BroadcastSound'
<1>1. /\ loop \in [Loops -> Writer] /\ pool \subseteq Txs /\ QueueMoves
      /\ offer \in [loop : Loops \cup {"none"}, txs : Seq(Txs)] /\ txEvents \in Nat
  BY DEF BroadcastSound, BroadcastTypeOK, Writer
<1>2. SUFFICES /\ UNCHANGED blockVars /\ pool' \subseteq Txs
               /\ offer' \in [loop : Loops \cup {"none"}, txs : Seq(Txs)] /\ txEvents' \in Nat
               /\ loop' \in [Loops -> Writer]
               /\ \A l \in Loops : /\ Len(loop'[l].queue) <= maxQueued
                                   /\ loop'[l].queue # <<>> => loop'[l].inflight # {}
  <2>1. KnownInv' /\ AtMostOnce'
    BY <1>2, Zenon DEF BroadcastSound, KnownInv, AtMostOnce, InFull, ByHash, blockVars, stageVars, queueVars
  <2>2. BroadcastTypeOK'
    BY <1>2, Zenon DEF BroadcastSound, BroadcastTypeOK, Writer, blockVars, stageVars, queueVars
  <2>3. QueueMoves'
    BY <1>2 DEF QueueMoves
  <2> QED
    BY <2>1, <2>2, <2>3 DEF BroadcastSound
<1>3. ASSUME NEW l \in Loops, NEW r \in Writer, Len(r.queue) <= maxQueued,
             r.queue # <<>> => r.inflight # {}, loop' = [loop EXCEPT ![l] = r]
      PROVE  /\ loop' \in [Loops -> Writer]
             /\ \A k \in Loops : /\ Len(loop'[k].queue) <= maxQueued
                                 /\ loop'[k].queue # <<>> => loop'[k].inflight # {}
  <2>1. loop' \in [Loops -> Writer] /\ \A k \in Loops : loop'[k] = IF k = l THEN r ELSE loop[k]
    BY <1>1, <1>3
  <2> QED
    BY <1>1, <1>3, <2>1 DEF QueueMoves
<1>4. Nothing \in [loop : Loops \cup {"none"}, txs : Seq(Txs)]
  BY SMTT(30) DEF Nothing
<1>5. ASSUME NEW l \in Loops, NEW ts \in Batches, BroadcastTransactions(l, ts)
      PROVE  <1>2!1
  <2>1. ts \in Seq(Txs)
    <3>1. CASE ts \in {<<t>> : t \in Txs}
      <4>1. PICK a \in Txs : ts = <<a>>
        BY <3>1
      <4> QED
        BY <4>1
    <3>2. CASE ts \in Txs \X Txs
      <4>1. PICK a \in Txs, b \in Txs : ts = <<a, b>>
        BY <3>2
      <4> QED
        BY <4>1
    <3> QED
      BY <3>1, <3>2 DEF Batches
  <2> QED
    BY <1>1, <1>5, <2>1, SMTT(30) DEF BroadcastTransactions, QueueMoves
<1>6. ASSUME NEW l \in Loops, AsyncSendTransactions(l)
      PROVE  <1>2!1
  <2>1. UNCHANGED <<blockVars, pool, txEvents>> /\ offer' = Nothing
    BY <1>6 DEF AsyncSendTransactions
  <2>2. CASE UNCHANGED loop
    BY <1>1, <1>4, <2>1, <2>2, Zenon DEF QueueMoves
  <2>3. CASE ~loop[l].failed
    <3> DEFINE Q == Capped(loop[l].queue \o offer.txs)
               r == [loop[l] EXCEPT !.queue = Q]
    <3>1. loop' = [loop EXCEPT ![l] = StartSend(r)]
      BY <1>6, <2>3 DEF AsyncSendTransactions
    <3>2. Q \in Seq(Txs) /\ Len(Q) <= maxQueued
      <4>1. loop[l].queue \in Seq(Txs) /\ offer.txs \in Seq(Txs)
        BY <1>1 DEF Writer
      <4>2. loop[l].queue \o offer.txs \in Seq(Txs)
        BY <4>1
      <4> QED
        BY <4>2, CappedFits, Zenon
    <3> HIDE DEF Q
    <3>3. r \in Writer /\ r.queue = Q
      BY <1>1, <3>2, Zenon DEF Writer
    <3> HIDE DEF r
    <3>4. /\ StartSend(r) \in Writer /\ Len(StartSend(r).queue) <= maxQueued
          /\ StartSend(r).queue # <<>> => StartSend(r).inflight # {}
      BY <1>1, <3>2, <3>3, Started, Zenon
    <3> QED
      BY <1>1, <1>3, <1>4, <2>1, <3>1, <3>4, Zenon
  <2> QED
    BY <1>6, <2>2, <2>3 DEF AsyncSendTransactions
<1>7. ASSUME NEW l \in Loops, SendDone(l)
      PROVE  <1>2!1
  <2> DEFINE r == [loop[l] EXCEPT !.inflight = {}]
  <2>1. UNCHANGED <<blockVars, pool, offer, txEvents>> /\ loop' = [loop EXCEPT ![l] = StartSend(r)]
    BY <1>7 DEF SendDone
  <2>2. r \in Writer /\ Len(r.queue) <= maxQueued
    BY <1>1 DEF Writer, QueueMoves
  <2> HIDE DEF r
  <2>3. /\ StartSend(r) \in Writer /\ Len(StartSend(r).queue) <= maxQueued
        /\ StartSend(r).queue # <<>> => StartSend(r).inflight # {}
    BY <1>1, <2>2, Started, Zenon
  <2> QED
    BY <1>1, <1>3, <2>1, <2>3, Zenon
<1>8. ASSUME NEW l \in Loops, TxSendFails(l)
      PROVE  <1>2!1
  <2> DEFINE r == [loop[l] EXCEPT !.failed = TRUE]
  <2>1. UNCHANGED <<blockVars, pool, offer, txEvents>> /\ loop' = [loop EXCEPT ![l] = r]
    BY <1>1, <1>8 DEF TxSendFails
  <2>2. r \in Writer /\ Len(r.queue) <= maxQueued /\ (r.queue # <<>> => r.inflight # {})
    BY <1>1, Zenon DEF Writer, QueueMoves
  <2> HIDE DEF r
  <2> QED
    BY <1>1, <1>3, <2>1, <2>2, Zenon
<1>9. ASSUME NEW t \in Txs, LeavePool(t)
      PROVE  <1>2!1
  BY <1>1, <1>9, Zenon DEF LeavePool, QueueMoves
<1> QED
  BY <1>5, <1>6, <1>7, <1>8, <1>9, Zenon DEF TxStep

(* A new peer was sent nothing.                                            *)
LEMMA BroadcastStarts == ASSUME BroadcastAssumption, BroadcastInit PROVE BroadcastSound
<1>1. BroadcastTypeOK
  <2>1. offer \in [loop : Loops \cup {"none"}, txs : Seq(Txs)]
    BY SMTT(30) DEF BroadcastInit, Nothing
  <2> QED
    BY <2>1, SMTT(30) DEF BroadcastInit, BroadcastTypeOK, Stages
<1>2. InFull = <<>> /\ ByHash = <<>> /\ crossed = {} /\ theirs = {}
  BY SMTT(30) DEF BroadcastInit, InFull, ByHash
<1>3. KnownInv /\ AtMostOnce
  BY <1>2 DEF BroadcastInit, KnownInv, AtMostOnce, Range, IsInjective, Blocks, OnList
<1>4. QueueMoves
  BY DEF BroadcastInit, QueueMoves, BroadcastAssumption
<1> QED
  BY <1>1, <1>3, <1>4, SMTT(30) DEF BroadcastSound

(* A block is written to a peer at most once in full and at most once as a *)
(* hash, both only if the two goroutines of an import crossed, and not at  *)
(* all if the peer sent it before, at every interleaving of the miner's    *)
(* loop, the importers, the writer and what the peer sends                 *)
(* (AsyncSendNewBlock, AsyncSendNewBlockHash, broadcastBlocks); and hashes *)
(* of transactions wait in the queue of announceTransactions only while a  *)
(* send is under way that will take them up again.                         *)
THEOREM BroadcastIsSound == ASSUME BroadcastAssumption PROVE BroadcastSpec => []BroadcastSound
<1>1. BroadcastInit => BroadcastSound
  BY BroadcastStarts
<1>2. BroadcastSound /\ [BroadcastNext]_broadcastVars => BroadcastSound'
  <2>1. ASSUME BroadcastSound, UNCHANGED broadcastVars PROVE BroadcastSound'
    BY <2>1, Zenon DEF broadcastVars, blockVars, stageVars, queueVars, txVars, BroadcastSound,
                BroadcastTypeOK, KnownInv, AtMostOnce, InFull, ByHash, QueueMoves
  <2> QED
    BY <2>1, BlockSteps, TxSteps DEF BroadcastNext
<1> QED
  BY <1>1, <1>2, PTL DEF BroadcastSpec
==============================================================================
