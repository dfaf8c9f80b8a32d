------------------------------- MODULE World -------------------------------
(* What a StateDB promises to the code that executes transactions: a plain   *)
(* map from addresses to accounts with a stack of checkpoints.  Rolling back *)
(* to a checkpoint restores exactly what was there, the end of a transaction *)
(* removes dead and empty accounts, and a commit makes the map the base of   *)
(* the next block.                                                           *)
EXTENDS Integers, Sequences

CONSTANTS Addrs, Keys, None

VARIABLES world,      \* address -> account or None
          side,       \* refund counter, logs, access list of the transaction
          stack,      \* the checkpoints of the transaction
          base        \* the committed map

wvars == <<world, side, stack, base>>

Blank == [nonce |-> 0, bal |-> 0, code |-> FALSE, store |-> [k \in Keys |-> 0], dead |-> FALSE]
Calm  == [refund |-> 0, logs |-> 0, warm |-> {}, slots |-> {}]

Get(a) == IF world[a] = None THEN Blank ELSE world[a]
Put(a, acct) == /\ world' = [world EXCEPT ![a] = acct]
                /\ UNCHANGED <<side, stack, base>>

Gone(acct) == \/ acct.dead
              \/ acct.nonce = 0 /\ acct.bal = 0 /\ ~acct.code
Swept == [a \in Addrs |-> IF world[a] = None THEN None
                          ELSE IF Gone(world[a]) THEN None ELSE world[a]]

Init == /\ world = base
        /\ side = Calm
        /\ stack = <<>>

Credit(a) == \E n \in 0 .. 1 : Put(a, [Get(a) EXCEPT !.bal = @ + n])
Debit(a)  == Put(a, [Get(a) EXCEPT !.bal = @ - 1])
Bump(a)   == Put(a, [Get(a) EXCEPT !.nonce = @ + 1])
Deploy(a) == Put(a, [Get(a) EXCEPT !.code = TRUE])
Write(a, k) == \E v \in 0 .. 2 : Put(a, [Get(a) EXCEPT !.store[k] = v])
Kill(a)   == Put(a, [Get(a) EXCEPT !.dead = TRUE, !.bal = 0])
Fresh(a)  == Put(a, [Blank EXCEPT !.bal = Get(a).bal, !.nonce = 1])

Aside == /\ \/ side' = [side EXCEPT !.refund = @ + 1]
            \/ side' = [side EXCEPT !.logs = @ + 1]
            \/ \E a \in Addrs : side' = [side EXCEPT !.warm = @ \union {a}]
            \/ \E a \in Addrs, k \in Keys :
                   side' = [side EXCEPT !.warm = @ \union {a}, !.slots = @ \union {<<a, k>>}]
         /\ UNCHANGED <<world, stack, base>>

Checkpoint == /\ stack' = Append(stack, <<world, side>>)
              /\ UNCHANGED <<world, side, base>>

Rollback == \E i \in DOMAIN stack :
    /\ world' = stack[i][1]
    /\ side' = stack[i][2]
    /\ stack' = SubSeq(stack, 1, i - 1)
    /\ UNCHANGED base

\* logs are collected for the whole block, the access list until the next
\* transaction is prepared
EndTx == /\ world' = Swept
         /\ side' = [side EXCEPT !.refund = 0]
         /\ stack' = <<>>
         /\ UNCHANGED base

Prepare == /\ side' = [side EXCEPT !.warm = {}, !.slots = {}]
           /\ UNCHANGED <<world, stack, base>>

Commit == /\ world' = Swept
          /\ base' = Swept
          /\ side' = Calm
          /\ stack' = <<>>

\* the block is dropped
Abandon == /\ world' = base
           /\ side' = Calm
           /\ stack' = <<>>
           /\ UNCHANGED base

Next == \/ \E a \in Addrs : \/ Credit(a) \/ Debit(a) \/ Bump(a) \/ Deploy(a) \/ Kill(a) \/ Fresh(a)
                            \/ \E k \in Keys : Write(a, k)
        \/ Aside \/ Checkpoint \/ Rollback \/ EndTx \/ Prepare \/ Commit \/ Abandon

Spec == Init /\ [][Next]_wvars
=============================================================================
