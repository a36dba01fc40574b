---------------------------- MODULE AtomicLedger ----------------------------
(***************************************************************************)
(* What the economy promises its viewers (the guarantees that open         *)
(* app/economy/ledger.py): an operation moves its amount in one step, only *)
(* if the viewer who pays can, and only if its idempotency key is new.     *)
(***************************************************************************)
EXTENDS Integers

CONSTANTS Viewers, Ops, Debit, Credit, Amount, Key, Opening

VARIABLES
    money,      \* what each viewer owns
    applied     \* the keys of the operations that took place

bookVars == <<money, applied>>

BookInit ==
    /\ money = [v \in Viewers |-> IF v \in DOMAIN Opening THEN Opening[v] ELSE 0]
    /\ applied = {}

Apply(o) ==
    /\ Key[o] \notin applied
    /\ Debit[o] \in Viewers => money[Debit[o]] >= Amount[o]
    /\ money' = [v \in Viewers |->
                    CASE v = Debit[o]  -> money[v] - Amount[o]
                      [] v = Credit[o] -> money[v] + Amount[o]
                      [] OTHER         -> money[v]]
    /\ applied' = applied \cup {Key[o]}

BookNext == \E o \in Ops : Apply(o)

BookSpec == BookInit /\ [][BookNext]_bookVars
=============================================================================
