------------------------------- MODULE Store --------------------------------
(***************************************************************************)
(* StoreService.purchase_item (app/store/service.py) on top of the ledger: *)
(* one transaction reads the item and the buyer's inventory, settles the   *)
(* price as a spend, counts down the stock and grants the item, and is     *)
(* committed by the command dispatcher.  Neither the item nor the          *)
(* inventory is read FOR UPDATE; both are written back as values computed  *)
(* from what was read.                                                     *)
(*                                                                         *)
(* A purchase is an operation of the ledger; the other operations run      *)
(* beside it.  An item that has been disabled or deleted is turned away    *)
(* like one that is sold out.                                              *)
(***************************************************************************)
EXTENDS Ledger

CONSTANTS
    Items,
    Purchases,      \* the operations that are purchases
    Item,           \* what a purchase buys
    OpeningStock,   \* stock of an item at the start, -1 for unlimited
    MaxPerUser      \* -1 for unlimited

(* The buyer is debited; the default key is made of the creator, the       *)
(* buyer, the item and its price, which callers never override.            *)
ASSUME StoreAssumption ==
    /\ Purchases \subseteq Ops
    /\ Item \in [Purchases -> Items]
    /\ OpeningStock \in [Items -> Int] /\ MaxPerUser \in [Items -> Int]
    /\ \A p \in Purchases :
          /\ Debit[p] \in Viewers /\ Credit[p] = Sink
          /\ \A o \in Ops : Key[o] = Key[p] <=>
                /\ o \in Purchases
                /\ Debit[o] = Debit[p] /\ Item[o] = Item[p] /\ Amount[o] = Amount[p]

VARIABLES
    stage,      \* how far a purchase has come
    stock,      \* store_items.stock
    owned,      \* viewer_inventories.quantity, 0 without a row
    stockRead,  \* the item's stock, as a purchase read it
    ownedRead,  \* the quantity a purchase read, -1 before it found a row
    grantLock   \* the purchases whose item and inventory rows are written

storeVars == <<stage, stock, owned, stockRead, ownedRead, grantLock>>
allVars == <<ledgerVars, storeVars>>

Holdings == Viewers \X Items
Holding(p) == <<Debit[p], Item[p]>>

StoreTypeOK ==
    /\ LedgerTypeOK
    /\ stage \in [Purchases -> {"browse", "limit", "pay", "grant", "granted", "over"}]
    /\ stock \in [Items -> Int]
    /\ owned \in [Holdings -> Nat]
    /\ stockRead \in [Purchases -> Int]
    /\ ownedRead \in [Purchases -> Nat \cup {-1}]
    /\ grantLock \subseteq Purchases

StoreInit ==
    /\ LedgerInit
    /\ stage = [p \in Purchases |-> "browse"]
    /\ stock = OpeningStock
    /\ owned = [h \in Holdings |-> 0]
    /\ stockRead = [p \in Purchases |-> 0]
    /\ ownedRead = [p \in Purchases |-> -1]
    /\ grantLock = {}

MoveTo(p, there) == stage' = [stage EXCEPT ![p] = there]

-----------------------------------------------------------------------------
(* get_by_name and the stock check.                                        *)
Browse(p) ==
    /\ stage[p] = "browse"
    /\ stockRead' = [stockRead EXCEPT ![p] = stock[Item[p]]]
    /\ MoveTo(p, IF stock[Item[p]] = 0 THEN "over" ELSE "limit")
    /\ UNCHANGED <<ledgerVars, stock, owned, ownedRead, grantLock>>

(* The purchase limit; a row found here stays in the session as it is.     *)
CheckLimit(p) ==
    LET max == MaxPerUser[Item[p]]
        quantity == owned[Holding(p)]
    IN  /\ stage[p] = "limit"
        /\ MoveTo(p, IF max > 0 /\ quantity >= max THEN "over" ELSE "pay")
        /\ ownedRead' = [ownedRead EXCEPT
                            ![p] = IF max > 0 /\ quantity > 0 THEN quantity ELSE @]
        /\ UNCHANGED <<ledgerVars, stock, owned, stockRead, grantLock>>

(* The spend, up to its return; an exception rolls back all of it.         *)
Pay(p) ==
    /\ stage[p] = "pay"
    /\ \/ /\ \/ Reject(p) \/ LookUp(p) \/ ReadDebit(p) \/ ReadCredit(p)
             \/ OpenAccount(p) \/ InsertTransaction(p) \/ Write(p)
          /\ UNCHANGED stage
       \/ (UniqueViolation(p) \/ DeadlockVictim(p)) /\ MoveTo(p, "over")
    /\ UNCHANGED <<stock, owned, stockRead, ownedRead, grantLock>>

NotPaid(p) ==
    /\ stage[p] = "pay" /\ pc[p] = "refused"
    /\ Close(p)
    /\ MoveTo(p, "over")
    /\ UNCHANGED <<stock, owned, stockRead, ownedRead, grantLock>>

(* Fault: the result of the spend is not looked at.                        *)
ReadInventoryRegardless(p) ==
    /\ stage[p] = "pay" /\ pc[p] \in {"written", "skipped", "refused"}
    /\ MoveTo(p, "grant")
    /\ UNCHANGED <<ledgerVars, stock, owned, stockRead, ownedRead, grantLock>>

(* grant_inventory, SELECT.  A spend that was skipped as a duplicate was   *)
(* a success too.                                                          *)
ReadInventory(p) ==
    /\ stage[p] = "pay" /\ pc[p] \in {"written", "skipped"}
    /\ ownedRead' = [ownedRead EXCEPT
                        ![p] = IF @ = -1 /\ owned[Holding(p)] > 0
                               THEN owned[Holding(p)] ELSE @]
    /\ MoveTo(p, "grant")
    /\ UNCHANGED <<ledgerVars, stock, owned, stockRead, grantLock>>

Counted(p) == stockRead[p] > 0

(* The flush that writes the item and the inventory row: it waits for      *)
(* another purchase that wrote one of them.  Only the purchase that pays   *)
(* inserts an inventory row, so that no two insert the same.               *)
WriteGrant(p) ==
    /\ stage[p] = "grant"
    /\ \A q \in grantLock : /\ Holding(q) # Holding(p)
                            /\ ~(Counted(p) /\ Counted(q) /\ Item[q] = Item[p])
    /\ grantLock' = grantLock \cup {p}
    /\ MoveTo(p, "granted")
    /\ UNCHANGED <<ledgerVars, stock, owned, stockRead, ownedRead>>

CommitPurchase(p) ==
    /\ stage[p] = "granted"
    /\ Commit(p) \/ Close(p)
    /\ stock' = IF Counted(p) THEN [stock EXCEPT ![Item[p]] = stockRead[p] - 1] ELSE stock
    /\ owned' = [owned EXCEPT
                    ![Holding(p)] = (IF ownedRead[p] = -1 THEN 0 ELSE ownedRead[p]) + 1]
    /\ grantLock' = grantLock \ {p}
    /\ MoveTo(p, "over")
    /\ UNCHANGED <<stockRead, ownedRead>>

(* Fault: the connection goes back to its pool without a rollback.         *)
FailPurchaseHalfway(p) ==
    /\ stage[p] # "over"
    /\ Goto(p, "closed")
    /\ MoveTo(p, "over")
    /\ UNCHANGED <<accounts, balance, rowLock, keyLock, debitRead, creditRead>>
    /\ UNCHANGED <<stock, owned, stockRead, ownedRead, grantLock>>

(* As in the ledger, at any await before the commit.                       *)
FailPurchase(p) ==
    /\ stage[p] # "over"
    /\ Rollback(p)
    /\ grantLock' = grantLock \ {p}
    /\ MoveTo(p, "over")
    /\ UNCHANGED <<stock, owned, stockRead, ownedRead>>

PurchaseStep(p) ==
    \/ Browse(p) \/ CheckLimit(p) \/ Pay(p) \/ NotPaid(p) \/ ReadInventory(p)
    \/ WriteGrant(p) \/ CommitPurchase(p)

StoreNext ==
    \/ \E p \in Purchases : PurchaseStep(p) \/ FailPurchase(p)
    \/ \E o \in Ops \ Purchases : (LedgerStep(o) \/ Fail(o)) /\ UNCHANGED storeVars

StoreFairness ==
    /\ \A p \in Purchases : WF_allVars(PurchaseStep(p))
    /\ \A o \in Ops \ Purchases : WF_allVars(LedgerStep(o) /\ UNCHANGED storeVars)

StoreSpec == StoreInit /\ [][StoreNext]_allVars
FairStoreSpec == StoreSpec /\ StoreFairness

-----------------------------------------------------------------------------
Sold(v, i) ==
    {p \in Purchases : pc[p] = "committed" /\ Debit[p] = v /\ Item[p] = i}

(* A viewer has an item exactly if a purchase of it was paid: payment and  *)
(* delivery are one transaction, whichever of the awaits it dies at and    *)
(* whatever other purchases write meanwhile (service.py:91-98).            *)
OwnedIfPaid ==
    \A v \in Viewers, i \in Items : owned[<<v, i>>] > 0 <=> Sold(v, i) # {}

(* Every purchase and every other operation comes to an end, waiting for   *)
(* the rows of others or not, although transfers lock their two viewers in *)
(* the order of the transfer and wait for each other in a ring.            *)
EveryPurchaseEnds ==
    /\ \A p \in Purchases : stage[p] = "browse" ~> stage[p] = "over"
    /\ \A o \in Ops \ Purchases : pc[o] = "start" ~> pc[o] \in Over

(* Each piece in an inventory has been paid for: docs/store/               *)
(* store_and_inventory.md:30-34 puts the settlement before every grant,    *)
(* and tests/unit/test_store_service.py:85 counts the coins of a second    *)
(* purchase as spent.                                                      *)
EachPieceIsPaid ==
    \A v \in Viewers, i \in Items : owned[<<v, i>>] <= Cardinality(Sold(v, i))

(* A finite stock is not sold beyond itself: tests/chaos/                  *)
(* test_engagement_chaos.py:36-38, "exactly ONE winner" when the stock is  *)
(* one, for "sequential or concurrent purchase attempts".                  *)
NotOversold ==
    \A i \in Items : OpeningStock[i] >= 0 =>
        Cardinality(UNION {Sold(v, i) : v \in Viewers}) <= OpeningStock[i]
=============================================================================
