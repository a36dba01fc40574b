------------------------------- MODULE Ledger -------------------------------
(***************************************************************************)
(* EconomyService (app/economy/ledger.py) and its repository: earn, spend  *)
(* and transfer, each inside a database transaction that its caller        *)
(* commits.  All three read the account they debit, then the one they      *)
(* credit, insert the transaction row under its unique key, and write both *)
(* balances as the absolute values computed from what they read.  A        *)
(* viewer's row is read FOR UPDATE, a system account's row is not.         *)
(*                                                                         *)
(* The database is PostgreSQL at READ COMMITTED, its default: a statement  *)
(* sees what is committed when it starts, a written row or an inserted key *)
(* is locked until the transaction ends, and a deadlock costs one of the   *)
(* transactions in it.  Every statement is an await between which the      *)
(* other operations run.  The operations are those of one creator.         *)
(***************************************************************************)
EXTENDS Integers, FiniteSets

CONSTANTS
    Viewers,
    Mint, Sink,         \* the creator's SYSTEM_MINT and SYSTEM_SINK accounts
    Ops,                \* operations, each of which runs once
    Debit, Credit,      \* the account an operation takes from and gives to:
                        \*   <<Mint, viewer>> for earn, <<viewer, Sink>> for
                        \*   spend, <<viewer, viewer>> for transfer
    Amount,
    Key,                \* idempotency key; several operations may share one
    Opening,            \* balances of the accounts that exist at the start
    None                \* no operation

Accounts == Viewers \cup {Mint, Sink}

ASSUME LedgerAssumption ==
    /\ Mint \notin Viewers /\ Sink \notin Viewers /\ Mint # Sink
    /\ Debit \in [Ops -> Viewers \cup {Mint}]
    /\ Credit \in [Ops -> Viewers \cup {Sink}]
    /\ \A o \in Ops : Debit[o] \in Viewers \/ Credit[o] \in Viewers
    /\ Amount \in [Ops -> Int]
    /\ DOMAIN Key = Ops
    /\ DOMAIN Opening \subseteq Accounts
    /\ \A a \in DOMAIN Opening : Opening[a] \in IF a \in Viewers THEN Nat ELSE Int
    /\ None \notin Ops

VARIABLES
    pc,             \* the next statement of an operation
    accounts,       \* economy_accounts: the rows that are committed,
    balance,        \*   and their balances
    rowLock,        \* operation that locked an account's row, or inserted it
    keyLock,        \* operation with an uncommitted transaction row of that key
    debitRead,      \* balances an operation works with, as it read them
    creditRead

ledgerVars == <<pc, accounts, balance, rowLock, keyLock, debitRead, creditRead>>

Keys == {Key[o] : o \in Ops}

(* "refused" and "skipped" are calls that returned without writing, whose  *)
(* transaction is still open; "closed" is one that left no trace.          *)
Open == {"debit", "openDebit", "credit", "openCredit", "insert", "write",
         "written", "refused", "skipped"}
Over == {"committed", "closed"}

LedgerTypeOK ==
    /\ pc \in [Ops -> {"start"} \cup Open \cup Over]
    /\ accounts \subseteq Accounts
    /\ balance \in [Accounts -> Int]
    /\ rowLock \in [Accounts -> Ops \cup {None}]
    /\ keyLock \in [Keys -> Ops \cup {None}]
    /\ debitRead \in [Ops -> Int]
    /\ creditRead \in [Ops -> Int]

(* What an account has on it at the start: nothing before it is opened.    *)
AtFirst(a) == IF a \in DOMAIN Opening THEN Opening[a] ELSE 0

LedgerInit ==
    /\ pc = [o \in Ops |-> "start"]
    /\ accounts = DOMAIN Opening
    /\ balance = [a \in Accounts |-> AtFirst(a)]
    /\ rowLock = [a \in Accounts |-> None]
    /\ keyLock = [k \in Keys |-> None]
    /\ debitRead = [o \in Ops |-> 0]
    /\ creditRead = [o \in Ops |-> 0]

(* economy_transactions: the keys of the committed operations.             *)
Applied == {Key[o] : o \in {p \in Ops : pc[p] = "committed"}}

Goto(o, there) == pc' = [pc EXCEPT ![o] = there]

-----------------------------------------------------------------------------
(* INVALID_AMOUNT, CANNOT_TRANSFER_TO_SELF.                                *)
Valid(o) == Amount[o] > 0 /\ Debit[o] # Credit[o]

Reject(o) ==
    /\ pc[o] = "start" /\ ~Valid(o)
    /\ Goto(o, "refused")
    /\ UNCHANGED <<accounts, balance, rowLock, keyLock, debitRead, creditRead>>

(* get_transaction_by_key; DUPLICATE_TRANSACTION_SKIPPED is a success.     *)
LookUp(o) ==
    /\ pc[o] = "start" /\ Valid(o)
    /\ Goto(o, IF Key[o] \in Applied THEN "skipped" ELSE "debit")
    /\ UNCHANGED <<accounts, balance, rowLock, keyLock, debitRead, creditRead>>

(* Fault: no FOR UPDATE.                                                   *)
SelectUnlocked(o, a) == a \in accounts /\ UNCHANGED rowLock

(* SELECT of a row that exists: of a viewer's, when nobody holds it.       *)
Select(o, a) ==
    /\ a \in accounts
    /\ \/ a \in Viewers /\ rowLock[a] = None /\ rowLock' = [rowLock EXCEPT ![a] = o]
       \/ a \notin Viewers /\ UNCHANGED rowLock

(* A viewer who pays must have an account, and enough on it.               *)
ReadDebit(o) ==
    LET a == Debit[o]
    IN  /\ pc[o] = "debit"
        /\ \/ /\ Select(o, a)
              /\ debitRead' = [debitRead EXCEPT ![o] = balance[a]]
              /\ Goto(o, IF a \in Viewers /\ balance[a] < Amount[o]
                         THEN "refused" ELSE "credit")
           \/ /\ a \notin accounts
              /\ Goto(o, IF a \in Viewers THEN "refused" ELSE "openDebit")
              /\ UNCHANGED <<rowLock, debitRead>>
        /\ UNCHANGED <<accounts, balance, keyLock, creditRead>>

ReadCredit(o) ==
    LET a == Credit[o]
    IN  /\ pc[o] = "credit"
        /\ \/ /\ Select(o, a)
              /\ creditRead' = [creditRead EXCEPT ![o] = balance[a]]
              /\ Goto(o, "insert")
           \/ /\ a \notin accounts
              /\ Goto(o, "openCredit")
              /\ UNCHANGED <<rowLock, creditRead>>
        /\ UNCHANGED <<accounts, balance, keyLock, debitRead>>

(* get_or_create_account, INSERT: waits for another uncommitted row of the *)
(* same account, and fails if there is a committed one by now.             *)
OpenAccount(o) ==
    /\ \/ /\ pc[o] = "openDebit"
          /\ Debit[o] \notin accounts /\ rowLock[Debit[o]] = None
          /\ rowLock' = [rowLock EXCEPT ![Debit[o]] = o]
          /\ debitRead' = [debitRead EXCEPT ![o] = 0]
          /\ Goto(o, "credit")
          /\ UNCHANGED creditRead
       \/ /\ pc[o] = "openCredit"
          /\ Credit[o] \notin accounts /\ rowLock[Credit[o]] = None
          /\ rowLock' = [rowLock EXCEPT ![Credit[o]] = o]
          /\ creditRead' = [creditRead EXCEPT ![o] = 0]
          /\ Goto(o, "insert")
          /\ UNCHANGED debitRead
    /\ UNCHANGED <<accounts, balance, keyLock>>

(* create_transaction: the unique (creator_id, idempotency_key).           *)
InsertTransaction(o) ==
    /\ pc[o] = "insert"
    /\ Key[o] \notin Applied /\ keyLock[Key[o]] = None
    /\ keyLock' = [keyLock EXCEPT ![Key[o]] = o]
    /\ Goto(o, "write")
    /\ UNCHANGED <<accounts, balance, rowLock, debitRead, creditRead>>

(* Fault: the flush shows the balances to everybody at once.               *)
WriteAtOnce(o) ==
    /\ pc[o] = "write"
    /\ {rowLock[Debit[o]], rowLock[Credit[o]]} \subseteq {None, o}
    /\ rowLock' = [rowLock EXCEPT ![Debit[o]] = o, ![Credit[o]] = o]
    /\ balance' = [balance EXCEPT ![Debit[o]] = debitRead[o] - Amount[o],
                                  ![Credit[o]] = creditRead[o] + Amount[o]]
    /\ Goto(o, "written")
    /\ UNCHANGED <<accounts, keyLock, debitRead, creditRead>>

(* The flush that updates both rows and inserts the two ledger entries.    *)
Write(o) ==
    /\ pc[o] = "write"
    /\ {rowLock[Debit[o]], rowLock[Credit[o]]} \subseteq {None, o}
    /\ rowLock' = [rowLock EXCEPT ![Debit[o]] = o, ![Credit[o]] = o]
    /\ Goto(o, "written")
    /\ UNCHANGED <<accounts, balance, keyLock, debitRead, creditRead>>

Unlock(o) ==
    /\ rowLock' = [a \in Accounts |-> IF rowLock[a] = o THEN None ELSE rowLock[a]]
    /\ keyLock' = [k \in Keys |-> IF keyLock[k] = o THEN None ELSE keyLock[k]]

(* The caller commits, once the call has returned.                         *)
Commit(o) ==
    /\ pc[o] = "written"
    /\ accounts' = accounts \cup {Debit[o], Credit[o]}
    /\ balance' = [balance EXCEPT ![Debit[o]] = debitRead[o] - Amount[o],
                                  ![Credit[o]] = creditRead[o] + Amount[o]]
    /\ Goto(o, "committed")
    /\ Unlock(o)
    /\ UNCHANGED <<debitRead, creditRead>>

Close(o) ==
    /\ pc[o] \in {"refused", "skipped"}
    /\ Goto(o, "closed")
    /\ Unlock(o)
    /\ UNCHANGED <<accounts, balance, debitRead, creditRead>>

Rollback(o) ==
    /\ Goto(o, "closed")
    /\ Unlock(o)
    /\ UNCHANGED <<accounts, balance, debitRead, creditRead>>

(* IntegrityError: what get_or_create or the key check did not find when   *)
(* it looked has been committed since.                                     *)
UniqueViolation(o) ==
    /\ \/ pc[o] = "openDebit" /\ Debit[o] \in accounts
       \/ pc[o] = "openCredit" /\ Credit[o] \in accounts
       \/ pc[o] = "insert" /\ Key[o] \in Applied
    /\ Rollback(o)

(* The rows an operation waits for if another holds them.                  *)
RowsAwaited(o) ==
    CASE pc[o] = "debit"      -> {Debit[o]} \cap Viewers \cap accounts
      [] pc[o] = "openDebit"  -> {Debit[o]} \ accounts
      [] pc[o] = "credit"     -> {Credit[o]} \cap Viewers \cap accounts
      [] pc[o] = "openCredit" -> {Credit[o]} \ accounts
      [] pc[o] = "write"      -> {Debit[o], Credit[o]}
      [] OTHER                -> {}

Blockers(o) ==
    {p \in Ops \ {o} :
        \/ \E a \in RowsAwaited(o) : rowLock[a] = p
        \/ pc[o] = "insert" /\ Key[o] \notin Applied /\ keyLock[Key[o]] = p}

(* The database breaks a cycle of waiting transactions.                    *)
DeadlockVictim(o) ==
    /\ Blockers(o) # {}
    /\ \E cycle \in SUBSET {p \in Ops : Blockers(p) # {}} :
          /\ o \in cycle
          /\ \A p \in cycle : Blockers(p) \cap cycle # {}
          /\ \A p \in cycle : \E q \in cycle : p \in Blockers(q)
    /\ Rollback(o)

(* The process dies, the connection breaks, the task is cancelled or its   *)
(* caller raises, before the commit.                                       *)
Fail(o) == pc[o] \in Open /\ Rollback(o)

LedgerStep(o) ==
    \/ Reject(o) \/ LookUp(o) \/ ReadDebit(o) \/ ReadCredit(o) \/ OpenAccount(o)
    \/ InsertTransaction(o) \/ Write(o) \/ Commit(o) \/ Close(o)
    \/ UniqueViolation(o) \/ DeadlockVictim(o)

LedgerNext == \E o \in Ops : LedgerStep(o) \/ Fail(o)

(* The event loop and the database keep working on every operation.        *)
LedgerFairness == \A o \in Ops : WF_ledgerVars(LedgerStep(o))

LedgerSpec == LedgerInit /\ [][LedgerNext]_ledgerVars
FairLedgerSpec == LedgerSpec /\ LedgerFairness

-----------------------------------------------------------------------------
(* No interleaving of earning, spending and transferring makes a viewer's  *)
(* balance negative (ledger.py:18).                                        *)
NoOverdraft == \A v \in Viewers : balance[v] >= 0

(* The coins that committed operations moved out of (side = Debit) or into *)
(* (side = Credit) an account, each with the operation that moved it.      *)
CoinsMoved(side, a) ==
    UNION {{o} \X (1..Amount[o]) : o \in {p \in Ops : pc[p] = "committed" /\ side[p] = a}}

(* The mint and the sink are read without a lock (ledger.py:65, 150), so   *)
(* that a concurrent commit can be overwritten: what the mint has given    *)
(* out and the sink taken in may come out too low.  It never comes out     *)
(* below zero, and never counts a coin no committed operation moved.       *)
NoCoinIsInvented ==
    /\ AtFirst(Mint) - balance[Mint] \in 0..Cardinality(CoinsMoved(Debit, Mint))
    /\ balance[Sink] - AtFirst(Sink) \in 0..Cardinality(CoinsMoved(Credit, Sink))

(* As the viewers see it the operations are atomic: no update of a         *)
(* viewer's balance is lost, none is applied twice, and none without the   *)
(* funds (ledger.py:16-19), though accounts are opened on the fly, keys    *)
(* are shared and operations die half-way.                                 *)
Books == INSTANCE AtomicLedger WITH
             money <- [v \in Viewers |-> balance[v]],
             applied <- Applied

KeepsBooks == Books!BookSpec
=============================================================================
