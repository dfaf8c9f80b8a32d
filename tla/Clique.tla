------------------------------- MODULE Clique -------------------------------
(***************************************************************************)
(* The engine (consensus/clique) at a node that verifies the chain of one    *)
(* validator, header by header: signer snapshots with their votes, the cache  *)
(* and the disk they are kept in, header verification, and what Prepare puts  *)
(* into a header of the node's own.  Cascadeth wants every block after the    *)
(* first on a block of the same author, so a chain has one author.           *)
(*                                                                         *)
(* A header is what its author chose: signer, vote, time and the list of     *)
(* signers that checkpoints carry; its number is its place in the chain.      *)
(* Recents, inturn and difficulty are left out: nothing reads them any more.  *)
(***************************************************************************)
EXTENDS Integers, Sequences, FiniteSets, SequencesExt

CONSTANTS
    GenesisSigners,      \* the signers in the genesis block's extra data
    Candidates,          \* other addresses
    Nobody,              \* the zero address
    Epoch, checkpointInterval, Period,
    MaxNumber, MaxTime   \* bounds: length of the chain, time

Addresses == GenesisSigners \cup Candidates

CliqueAssumption ==
    /\ GenesisSigners # {} /\ Nobody \notin Addresses
    /\ Epoch \in Nat \ {0} /\ checkpointInterval \in Nat \ {0}
    /\ {Period, MaxNumber, MaxTime} \subseteq Nat

VARIABLES
    chain,       \* the headers accepted so far
    recents,     \* c.recents: snapshots in memory, by number
    disk,        \* snapshots in the database, by number
    now

vars == <<chain, recents, disk, now>>

Headers == [signer: Addresses, coinbase: Addresses \cup {Nobody}, authorize: BOOLEAN,
            time: 0 .. MaxTime, list: SUBSET (Addresses \cup {Nobody})]

newSnapshot(signers) == [number |-> 0, signers |-> signers, votes |-> <<>>, tally |-> <<>>]

Init ==
    /\ chain = <<>>
    /\ recents = <<>>     \* functions with an empty domain
    /\ disk = <<>>
    /\ now = 0

-----------------------------------------------------------------------------
(* snapshot.go: votes.  The tally is a function on the accounts voted on.    *)
validVote(s, a, authorize) == (a \in s.signers) # authorize

Counted(s, a) == IF a \in DOMAIN s.tally THEN s.tally[a].votes ELSE 0

With(f, x, v) == [y \in DOMAIN f \cup {x} |-> IF y = x THEN v ELSE f[y]]
Without(f, x) == [y \in DOMAIN f \ {x} |-> f[y]]

cast(s, v) ==
    LET flag == IF v.address \in DOMAIN s.tally THEN s.tally[v.address].authorize ELSE v.authorize IN
    IF ~validVote(s, v.address, v.authorize) THEN s
    ELSE [s EXCEPT !.tally = With(@, v.address, [authorize |-> flag, votes |-> Counted(s, v.address) + 1]),
                   !.votes = Append(@, v)]

uncast(s, v) ==
    LET t == s.tally IN
    IF v.address \notin DOMAIN t \/ t[v.address].authorize # v.authorize THEN s
    ELSE IF t[v.address].votes > 1 THEN [s EXCEPT !.tally[v.address].votes = @ - 1]
    ELSE [s EXCEPT !.tally = Without(@, v.address)]

(* The votes of a signer, on these addresses, are taken back and leave the   *)
(* list.                                                                     *)
Discard(s, signer, addresses) ==
    LET gone(v) == v.signer = signer /\ v.address \in addresses IN
    [FoldLeft(uncast, s, SelectSeq(s.votes, gone)) EXCEPT !.votes = SelectSeq(@, LAMBDA v : ~gone(v))]

(* A vote that passes changes the signers, and the votes around it go.       *)
passed(s, a) ==
    LET out == IF s.tally[a].authorize THEN [s EXCEPT !.signers = @ \cup {a}]
               ELSE Discard([s EXCEPT !.signers = @ \ {a}], a, Addresses \cup {Nobody})
    IN [out EXCEPT !.votes = SelectSeq(@, LAMBDA v : v.address # a), !.tally = Without(@, a)]

(* Mutant: at an epoch block the list of votes is emptied, the tally is not. *)
applyHeaderStale(s, h) ==
    LET n == s.number + 1
        clean == IF n % Epoch = 0 THEN [s EXCEPT !.votes = <<>>] ELSE s
        once == Discard(clean, h.signer, {h.coinbase})
        voted == cast(once, [signer |-> h.signer, address |-> h.coinbase, authorize |-> h.authorize])
        done == IF Counted(voted, h.coinbase) > Cardinality(voted.signers) \div 2
                THEN passed(voted, h.coinbase) ELSE voted
    IN [done EXCEPT !.number = n]

(* apply, for one header.                                                    *)
applyHeader(s, h) ==
    LET n == s.number + 1
        clean == IF n % Epoch = 0 THEN [s EXCEPT !.votes = <<>>, !.tally = <<>>] ELSE s
        once == Discard(clean, h.signer, {h.coinbase})
        voted == cast(once, [signer |-> h.signer, address |-> h.coinbase, authorize |-> h.authorize])
        done == IF Counted(voted, h.coinbase) > Cardinality(voted.signers) \div 2
                THEN passed(voted, h.coinbase) ELSE voted
    IN [done EXCEPT !.number = n]

apply(s, headers) == FoldLeft(applyHeader, s, headers)

-----------------------------------------------------------------------------
(* snapshot: walk back to one that is in memory, on disk, or the genesis one, *)
(* then apply the headers passed on the way.  A checkpoint is never taken on  *)
(* trust: snapshots are stored every checkpointInterval headers, long before  *)
(* FullImmutabilityThreshold of them pile up, and where the canonical chain   *)
(* has no header before the checkpoint it does not have the checkpoint either. *)
snapshot(number) ==
    LET base == {n \in 0 .. number :
                   \/ n \in DOMAIN recents
                   \/ n % checkpointInterval = 0 /\ n \in DOMAIN disk
                   \/ n = 0}
        n == CHOOSE m \in base : \A k \in base : k <= m
        s == IF n \in DOMAIN recents THEN recents[n]
             ELSE IF n \in DOMAIN disk THEN disk[n] ELSE newSnapshot(GenesisSigners)
    IN apply(s, SubSeq(chain, n + 1, number))

(* What snapshot leaves in memory and on disk.                               *)
Stored(number) ==
    /\ recents' = With(recents, number, snapshot(number))
    /\ disk' = IF number % checkpointInterval = 0 THEN With(disk, number, snapshot(number)) ELSE disk

-----------------------------------------------------------------------------
TimeOf(n) == IF n = 0 THEN 0 ELSE chain[n].time
Checkpoint(n) == n % Epoch = 0

(* verifySeal: a signer of the snapshot, and the author of the parent.       *)
verifySeal(h) ==
    /\ h.signer \in snapshot(Len(chain)).signers
    /\ chain # <<>> => Last(chain).signer = h.signer

verifyCascadingFields(h) ==
    /\ TimeOf(Len(chain)) + Period <= h.time
    /\ Checkpoint(Len(chain) + 1) => h.list = snapshot(Len(chain)).signers
    /\ verifySeal(h)

verifyHeader(h) ==
    /\ h.time <= now
    /\ Checkpoint(Len(chain) + 1) => h.coinbase = Nobody /\ ~h.authorize
    /\ ~Checkpoint(Len(chain) + 1) => h.list = {}
    /\ verifyCascadingFields(h)

(* Prepare of a node that would go on with this chain, for a vote it picks    *)
(* at random from those of its proposals that make sense.                    *)
Votes(proposals) ==
    LET s == snapshot(Len(chain))
        sensible == {v \in proposals : validVote(s, v.address, v.authorize)}
    IN IF Checkpoint(Len(chain) + 1) \/ sensible = {}
       THEN {[address |-> Nobody, authorize |-> FALSE]} ELSE sensible

Prepared(signer, proposals) ==
    {[signer |-> signer, coinbase |-> v.address, authorize |-> v.authorize,
      time |-> IF TimeOf(Len(chain)) + Period < now THEN now ELSE TimeOf(Len(chain)) + Period,
      list |-> IF Checkpoint(Len(chain) + 1) THEN snapshot(Len(chain)).signers ELSE {}] :
     v \in Votes(proposals)}

(* A header arrives and is accepted.                                         *)
Accept(h) ==
    /\ Len(chain) < MaxNumber
    /\ verifyHeader(h)
    /\ chain' = Append(chain, h)
    /\ Stored(Len(chain))
    /\ UNCHANGED now

(* Proposals with more than one vote add nothing: Prepare picks one.         *)
Proposals == {{}} \cup {{[address |-> a, authorize |-> b]} : a \in Addresses, b \in BOOLEAN}

(* The chain may also be the node's own, the only one it mines on: Seal       *)
(* releases a prepared header at its time, and nothing verifies it here.      *)
Seal(signer, h) ==
    /\ Len(chain) < MaxNumber
    /\ signer \in snapshot(Len(chain)).signers
    /\ chain # <<>> => Last(chain).signer = signer
    /\ h.time <= now
    /\ chain' = Append(chain, h)
    /\ Stored(Len(chain))
    /\ UNCHANGED now

(* The memory for snapshots is bounded, and a restart empties it.            *)
Evict(n) ==
    /\ n \in DOMAIN recents
    /\ recents' = Without(recents, n)
    /\ UNCHANGED <<chain, disk, now>>

Tick ==
    /\ now < MaxTime
    /\ now' = now + 1
    /\ UNCHANGED <<chain, recents, disk>>

Next ==
    \/ \E h \in Headers : Accept(h)
    \/ \E signer \in Addresses, proposals \in Proposals :
         \E h \in Prepared(signer, proposals) : Seal(signer, h)
    \/ \E n \in DOMAIN recents : Evict(n)
    \/ Tick

Spec == Init /\ [][Next]_vars

-----------------------------------------------------------------------------
(* The chain and the stores have their types; a tally in a stored snapshot     *)
(* has at least one vote.                                                    *)
TypeOK ==
    LET SnapshotOK(s) ==
            /\ s.number \in 0 .. MaxNumber
            /\ s.signers \subseteq Addresses \cup {Nobody}
            /\ \A a \in DOMAIN s.tally : s.tally[a] \in [authorize: BOOLEAN, votes: 1 .. MaxNumber]
    IN /\ \A i \in 1 .. Len(chain) : chain[i] \in Headers
       /\ \A n \in DOMAIN recents : SnapshotOK(recents[n])
       /\ \A n \in DOMAIN disk : SnapshotOK(disk[n])
       /\ now \in 0 .. MaxTime

(* Every snapshot in memory or on disk is the one the genesis block and the   *)
(* headers of the chain give, whatever was cached or evicted on the way.     *)
SnapshotsExact ==
    LET Exact(n) == apply(newSnapshot(GenesisSigners), SubSeq(chain, 1, n)) IN
    /\ \A n \in DOMAIN recents : recents[n] = Exact(n)
    /\ \A n \in DOMAIN disk : disk[n] = Exact(n)

(* The cached tally is the number of votes in the list, one per signer and    *)
(* account, all by current signers and all for a change.                     *)
TallyExact ==
    LET s == snapshot(Len(chain))
        On(a) == {i \in 1 .. Len(s.votes) : s.votes[i].address = a}
    IN /\ \A a \in Addresses \cup {Nobody} : Counted(s, a) = Cardinality(On(a))
       /\ \A i, j \in 1 .. Len(s.votes) :
            s.votes[i].signer = s.votes[j].signer /\ s.votes[i].address = s.votes[j].address => i = j
       /\ \A i \in 1 .. Len(s.votes) :
            /\ s.votes[i].signer \in s.signers
            /\ validVote(s, s.votes[i].address, s.votes[i].authorize)

(* With more than one signer no chain changes the set of signers: a chain has *)
(* the votes of its author only, and the network agrees who acks.            *)
SignersFixed ==
    Cardinality(GenesisSigners) > 1 => snapshot(Len(chain)).signers = GenesisSigners

(* What Prepare and Seal of the chain's author produce passes verifyHeader,   *)
(* also at checkpoints, once its time has come.                              *)
PreparedVerifies ==
    \A signer \in snapshot(Len(chain)).signers :
    \A proposals \in Proposals :
        (chain # <<>> => signer = Last(chain).signer) =>
            \A h \in Prepared(signer, proposals) : h.time <= now => verifyHeader(h)
=============================================================================
