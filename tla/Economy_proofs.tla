---------------------------- MODULE Economy_proofs ---------------------------
(* Theorems about the ledger and the store on top of it, for any viewers,  *)
(* operations, amounts, keys, items and stocks.  What makes those about    *)
(* the ledger true is the row lock on the viewer: from the moment an       *)
(* operation has read a viewer's balance until it ends, nobody else writes *)
(* it.                                                                     *)
EXTENDS Store, FiniteSetTheorems, TLAPS

(* The operations that have read the account they debit, and those that    *)
(* have read both and hold their key.                                      *)
PastDebit == {"credit", "openCredit", "insert", "write", "written"}
PastCredit == {"insert", "write", "written"}
PastKey == {"write", "written"}

(* A viewer's balance that an operation read is still the balance, and the *)
(* viewer who pays has the amount.                                         *)
ReadsHold ==
    \A o \in Ops :
        /\ pc[o] \notin {"start", "refused"} \cup Over => Valid(o)
        /\ pc[o] \in PastDebit /\ Debit[o] \in Viewers =>
              /\ rowLock[Debit[o]] = o
              /\ debitRead[o] = balance[Debit[o]]
              /\ debitRead[o] >= Amount[o]
        /\ pc[o] \in PastCredit /\ Credit[o] \in Viewers =>
              /\ rowLock[Credit[o]] = o
              /\ creditRead[o] = balance[Credit[o]]

(* Whoever is about to write under a key is alone with it.                 *)
KeysHold ==
    \A o \in Ops : pc[o] \in PastKey =>
        /\ keyLock[Key[o]] = o
        /\ Key[o] \notin Applied

(* An account that does not exist yet has nothing on it.                   *)
UnopenedEmpty == \A a \in Accounts \ accounts : balance[a] = 0

(* Only the mint's account is opened in order to debit it.                 *)
OpensOnlyMint == \A o \in Ops : pc[o] = "openDebit" => Debit[o] \notin Viewers

LedgerInv ==
    /\ LedgerTypeOK /\ NoOverdraft
    /\ ReadsHold /\ KeysHold /\ UnopenedEmpty /\ OpensOnlyMint

-----------------------------------------------------------------------------
(* Opening balances, amounts and accounts have the types they are used at. *)
LEMMA LedgerConstants ==
    /\ \A o \in Ops : /\ Debit[o] \in Accounts /\ Credit[o] \in Accounts
                      /\ Amount[o] \in Int /\ Key[o] \in Keys /\ o # None
    /\ \A a \in DOMAIN Opening : a \in Accounts /\ Opening[a] \in Int
    /\ \A v \in Viewers \cap DOMAIN Opening : Opening[v] \in Nat
    /\ Viewers \subseteq Accounts
BY LedgerAssumption DEF Accounts, Keys

(* No account is open and no operation has begun.                          *)
LEMMA LedgerInvInit == LedgerInit => LedgerInv
<1> SUFFICES ASSUME LedgerInit PROVE LedgerInv
  OBVIOUS
<1> USE DEF LedgerInit, AtFirst
<1>1. LedgerTypeOK
  BY LedgerConstants, LedgerAssumption DEF LedgerTypeOK
<1>2. NoOverdraft
  BY LedgerConstants DEF NoOverdraft
<1>3. ReadsHold
  BY DEF ReadsHold, PastDebit, PastCredit
<1>4. KeysHold
  BY DEF KeysHold, PastKey
<1>5. UnopenedEmpty
  BY DEF UnopenedEmpty
<1>6. OpensOnlyMint
  BY DEF OpensOnlyMint
<1> QED
  BY <1>1, <1>2, <1>3, <1>4, <1>5, <1>6 DEF LedgerInv

(* An operation that ends without a commit writes nothing and frees its    *)
(* own locks only.                                                         *)
LEMMA RollbackKeepsInv ==
    ASSUME LedgerInv, NEW o \in Ops, Rollback(o), pc[o] # "committed"
    PROVE  LedgerInv'
<1> USE LedgerConstants
<1>1. LedgerTypeOK'
  BY DEF LedgerInv, LedgerTypeOK, Rollback, Unlock, Goto, Over, Open
<1>2. \A p \in Ops : p # o => pc'[p] = pc[p]
  BY DEF LedgerInv, LedgerTypeOK, Rollback, Goto
<1>3. pc'[o] = "closed" /\ UNCHANGED <<accounts, balance, debitRead, creditRead>>
  BY DEF LedgerInv, LedgerTypeOK, Rollback, Goto
<1>4. Applied' = Applied
  BY <1>2, <1>3 DEF Applied
<1>5. \A p \in Ops \ {o}, a \in Accounts : rowLock[a] = p => rowLock'[a] = p
  BY DEF Rollback, Unlock
<1>6. \A p \in Ops \ {o}, k \in Keys : keyLock[k] = p => keyLock'[k] = p
  BY DEF Rollback, Unlock
<1>7. NoOverdraft' /\ UnopenedEmpty'
  BY <1>3 DEF LedgerInv, NoOverdraft, UnopenedEmpty
<1>8. ReadsHold'
  BY <1>2, <1>3, <1>5 DEF LedgerInv, ReadsHold, PastDebit, PastCredit, Over, Valid
<1>9. KeysHold'
  BY <1>2, <1>3, <1>4, <1>6 DEF LedgerInv, KeysHold, PastKey
<1>10. OpensOnlyMint'
  BY <1>2, <1>3 DEF LedgerInv, OpensOnlyMint
<1> QED
  BY <1>1, <1>7, <1>8, <1>9, <1>10 DEF LedgerInv

(* A step that only moves an operation on, reads and locks for it keeps    *)
(* every other operation's part of the invariant.                          *)
LEMMA OthersKept ==
    ASSUME LedgerInv, NEW o \in Ops, NEW there,
           Goto(o, there), there # "committed", pc[o] # "committed",
           UNCHANGED <<accounts, balance>>,
           \A p \in Ops \ {o} : /\ debitRead'[p] = debitRead[p]
                               /\ creditRead'[p] = creditRead[p],
           \A p \in Ops \ {o}, a \in Accounts : rowLock[a] = p => rowLock'[a] = p,
           \A p \in Ops \ {o}, k \in Keys : keyLock[k] = p => keyLock'[k] = p
    PROVE  /\ NoOverdraft' /\ UnopenedEmpty' /\ Applied' = Applied
           /\ pc'[o] = there
           /\ \A p \in Ops \ {o} :
                 /\ pc'[p] = pc[p]
                 /\ pc'[p] = "openDebit" => Debit[p] \notin Viewers
                 /\ pc'[p] \notin {"start", "refused"} \cup Over => Valid(p)
                 /\ pc'[p] \in PastDebit /\ Debit[p] \in Viewers =>
                       /\ rowLock'[Debit[p]] = p
                       /\ debitRead'[p] = balance'[Debit[p]]
                       /\ debitRead'[p] >= Amount[p]
                 /\ pc'[p] \in PastCredit /\ Credit[p] \in Viewers =>
                       /\ rowLock'[Credit[p]] = p
                       /\ creditRead'[p] = balance'[Credit[p]]
                 /\ pc'[p] \in PastKey =>
                       keyLock'[Key[p]] = p /\ Key[p] \notin Applied'
<1> USE LedgerConstants
<1>1. pc'[o] = there /\ \A p \in Ops \ {o} : pc'[p] = pc[p]
  BY DEF LedgerInv, LedgerTypeOK, Goto
<1>2. Applied' = Applied
  BY <1>1 DEF Applied
<1>3. NoOverdraft' /\ UnopenedEmpty'
  BY DEF LedgerInv, NoOverdraft, UnopenedEmpty
<1> QED
  BY <1>1, <1>2, <1>3 DEF LedgerInv, ReadsHold, KeysHold, OpensOnlyMint

(* The look-up of the idempotency key.                                     *)
LEMMA LookUpKeepsInv ==
    ASSUME LedgerInv, NEW o \in Ops, Reject(o) \/ LookUp(o) PROVE LedgerInv'
<1> USE LedgerConstants DEF Reject, LookUp
<1>1. LedgerTypeOK'
  BY DEF LedgerInv, LedgerTypeOK, Goto, Open, Over
<1>2. PICK there \in {"refused", "skipped", "debit"} :
         Goto(o, there) /\ (there # "refused" => Valid(o))
  OBVIOUS
<1>3. pc[o] = "start"
  OBVIOUS
<1>4. UNCHANGED <<accounts, balance, rowLock, keyLock, debitRead, creditRead>>
  OBVIOUS
<1> HIDE DEF Reject, LookUp
<1> QED
  BY <1>1, <1>2, <1>3, <1>4, OthersKept
  DEF LedgerInv, ReadsHold, KeysHold, OpensOnlyMint, PastDebit, PastCredit, PastKey, Valid

(* The payer is read and locked.                                           *)
LEMMA ReadDebitKeepsInv ==
    ASSUME LedgerInv, NEW o \in Ops, ReadDebit(o) PROVE LedgerInv'
<1> USE LedgerConstants
<1>1. LedgerTypeOK'
  BY DEF LedgerInv, LedgerTypeOK, ReadDebit, Select, Goto, Open, Over
<1>2. pc[o] = "debit" /\ UNCHANGED <<accounts, balance, keyLock, creditRead>> /\ Valid(o)
  BY DEF ReadDebit, LedgerInv, ReadsHold, Over
<1>3. /\ \A p \in Ops \ {o} : debitRead'[p] = debitRead[p]
      /\ \A p \in Ops \ {o}, a \in Accounts : rowLock[a] = p => rowLock'[a] = p
  BY DEF LedgerInv, LedgerTypeOK, ReadDebit, Select
<1>4. PICK there \in {"refused", "credit", "openDebit"} :
         /\ Goto(o, there)
         /\ there = "openDebit" => Debit[o] \notin Viewers
         /\ there = "credit" /\ Debit[o] \in Viewers =>
               /\ rowLock'[Debit[o]] = o
               /\ debitRead'[o] = balance[Debit[o]]
               /\ debitRead'[o] >= Amount[o]
  BY DEF LedgerInv, LedgerTypeOK, ReadDebit, Select
<1> QED
  BY <1>1, <1>2, <1>3, <1>4, OthersKept
  DEF LedgerInv, ReadsHold, KeysHold, OpensOnlyMint, PastDebit, PastCredit, PastKey, Valid

(* The payee is read and locked.                                           *)
LEMMA ReadCreditKeepsInv ==
    ASSUME LedgerInv, NEW o \in Ops, ReadCredit(o) PROVE LedgerInv'
<1> USE LedgerConstants
<1>1. LedgerTypeOK'
  BY DEF LedgerInv, LedgerTypeOK, ReadCredit, Select, Goto, Open, Over
<1>2. pc[o] = "credit" /\ UNCHANGED <<accounts, balance, keyLock, debitRead>> /\ Valid(o)
  BY DEF ReadCredit, LedgerInv, ReadsHold, Over
<1>3. /\ \A p \in Ops \ {o} : creditRead'[p] = creditRead[p]
      /\ \A p \in Ops, a \in Accounts : rowLock[a] = p => rowLock'[a] = p
  BY DEF LedgerInv, LedgerTypeOK, ReadCredit, Select
<1>4. PICK there \in {"insert", "openCredit"} :
         /\ Goto(o, there)
         /\ there = "insert" /\ Credit[o] \in Viewers =>
               /\ rowLock'[Credit[o]] = o
               /\ creditRead'[o] = balance[Credit[o]]
  BY DEF LedgerInv, LedgerTypeOK, ReadCredit, Select
<1>5. Debit[o] \in Viewers =>
         /\ rowLock'[Debit[o]] = o
         /\ debitRead'[o] = balance'[Debit[o]]
         /\ debitRead'[o] >= Amount[o]
  BY <1>2, <1>3 DEF LedgerInv, ReadsHold, PastDebit
<1> QED
  BY <1>1, <1>2, <1>3, <1>4, <1>5, OthersKept
  DEF LedgerInv, ReadsHold, KeysHold, OpensOnlyMint, PastDebit, PastCredit, PastKey, Valid

(* A row that is being inserted starts at the balance of no account: zero. *)
LEMMA OpenAccountKeepsInv ==
    ASSUME LedgerInv, NEW o \in Ops, OpenAccount(o) PROVE LedgerInv'
<1> USE LedgerConstants
<1>1. LedgerTypeOK'
  BY DEF LedgerInv, LedgerTypeOK, OpenAccount, Goto, Open, Over
<1>2. /\ pc[o] \in {"openDebit", "openCredit"} /\ Valid(o)
      /\ UNCHANGED <<accounts, balance, keyLock>>
  BY DEF OpenAccount, LedgerInv, ReadsHold, Over
<1>3. /\ \A p \in Ops \ {o} : debitRead'[p] = debitRead[p] /\ creditRead'[p] = creditRead[p]
      /\ \A p \in Ops, a \in Accounts : rowLock[a] = p => rowLock'[a] = p
  BY DEF LedgerInv, LedgerTypeOK, OpenAccount
<1>4. CASE pc[o] = "openDebit"
  <2>1. Goto(o, "credit")
    BY <1>4 DEF OpenAccount
  <2>2. Debit[o] \notin Viewers
    BY <1>4 DEF LedgerInv, OpensOnlyMint
  <2> QED
    BY <1>1, <1>2, <1>3, <2>1, <2>2, OthersKept
    DEF LedgerInv, ReadsHold, KeysHold, OpensOnlyMint, PastDebit, PastCredit, PastKey, Valid
<1>5. CASE pc[o] = "openCredit"
  <2>1. /\ Goto(o, "insert")
        /\ Credit[o] \notin accounts /\ creditRead'[o] = 0 /\ rowLock'[Credit[o]] = o
        /\ debitRead' = debitRead
    BY <1>5 DEF OpenAccount, LedgerInv, LedgerTypeOK
  <2>2. balance[Credit[o]] = 0
    BY <2>1 DEF LedgerInv, UnopenedEmpty
  <2>3. Debit[o] \in Viewers =>
           /\ rowLock'[Debit[o]] = o
           /\ debitRead'[o] = balance'[Debit[o]]
           /\ debitRead'[o] >= Amount[o]
    BY <1>2, <1>3, <1>5, <2>1 DEF LedgerInv, ReadsHold, PastDebit
  <2> QED
    BY <1>1, <1>2, <1>3, <2>1, <2>2, <2>3, OthersKept
    DEF LedgerInv, ReadsHold, KeysHold, OpensOnlyMint, PastDebit, PastCredit, PastKey, Valid
<1> QED
  BY <1>2, <1>4, <1>5

(* The transaction row is inserted.                                        *)
LEMMA InsertKeepsInv ==
    ASSUME LedgerInv, NEW o \in Ops, InsertTransaction(o) PROVE LedgerInv'
<1> USE LedgerConstants DEF InsertTransaction
<1>1. LedgerTypeOK'
  BY DEF LedgerInv, LedgerTypeOK, Goto, Open, Over
<1>2. \A p \in Ops, k \in Keys : keyLock[k] = p => keyLock'[k] = p
  BY DEF LedgerInv, LedgerTypeOK
<1>3. keyLock'[Key[o]] = o /\ Key[o] \notin Applied /\ pc[o] = "insert" /\ Goto(o, "write")
  BY DEF LedgerInv, LedgerTypeOK
<1>4. UNCHANGED <<accounts, balance, rowLock, debitRead, creditRead>>
  OBVIOUS
<1> HIDE DEF InsertTransaction
<1> QED
  BY <1>1, <1>2, <1>3, <1>4, OthersKept
  DEF LedgerInv, ReadsHold, KeysHold, OpensOnlyMint, PastDebit, PastCredit, PastKey, Valid, Over

(* The balances are written.                                               *)
LEMMA WriteKeepsInv ==
    ASSUME LedgerInv, NEW o \in Ops, Write(o) PROVE LedgerInv'
<1> USE LedgerConstants DEF Write
<1>1. LedgerTypeOK'
  BY DEF LedgerInv, LedgerTypeOK, Goto, Open, Over
<1>2. \A p \in Ops, a \in Accounts : rowLock[a] = p => rowLock'[a] = p
  BY DEF LedgerInv, LedgerTypeOK
<1>3. pc[o] = "write" /\ Goto(o, "written")
  OBVIOUS
<1>4. UNCHANGED <<accounts, balance, keyLock, debitRead, creditRead>>
  OBVIOUS
<1> HIDE DEF Write
<1> QED
  BY <1>1, <1>2, <1>3, <1>4, OthersKept
  DEF LedgerInv, ReadsHold, KeysHold, OpensOnlyMint, PastDebit, PastCredit, PastKey, Valid, Over

-----------------------------------------------------------------------------
(* What a commit does to the viewers and the keys: it is Apply.            *)
LEMMA CommitApplies ==
    ASSUME LedgerInv, NEW o \in Ops, Commit(o)
    PROVE  /\ Key[o] \notin Applied /\ Applied' = Applied \cup {Key[o]}
           /\ Debit[o] \in Viewers => balance[Debit[o]] >= Amount[o]
           /\ \A v \in Viewers :
                 balance'[v] = CASE v = Debit[o]  -> balance[v] - Amount[o]
                                 [] v = Credit[o] -> balance[v] + Amount[o]
                                 [] OTHER         -> balance[v]
<1> USE LedgerConstants
<1>1. pc[o] = "written" /\ Valid(o) /\ Goto(o, "committed")
  BY DEF Commit, LedgerInv, ReadsHold, Over
<1>2. Key[o] \notin Applied
  BY <1>1 DEF LedgerInv, KeysHold, PastKey
<1>3. Applied' = Applied \cup {Key[o]}
  BY <1>1 DEF Applied, Goto, LedgerInv, LedgerTypeOK
<1>4. /\ Debit[o] \in Viewers =>
            debitRead[o] = balance[Debit[o]] /\ debitRead[o] >= Amount[o]
      /\ Credit[o] \in Viewers => creditRead[o] = balance[Credit[o]]
  BY <1>1 DEF LedgerInv, ReadsHold, PastDebit, PastCredit
<1>5. Debit[o] # Credit[o]
  BY <1>1 DEF Valid
<1>6. \A a \in Accounts :
         balance'[a] = CASE a = Debit[o]  -> debitRead[o] - Amount[o]
                         [] a = Credit[o] -> creditRead[o] + Amount[o]
                         [] OTHER         -> balance[a]
  BY <1>5 DEF Commit, LedgerInv, LedgerTypeOK
<1>7. \A v \in Viewers :
         balance'[v] = CASE v = Debit[o]  -> balance[v] - Amount[o]
                         [] v = Credit[o] -> balance[v] + Amount[o]
                         [] OTHER         -> balance[v]
  BY <1>4, <1>6
<1> QED
  BY <1>2, <1>3, <1>4, <1>7

(* The commit, which makes them visible.                                   *)
LEMMA CommitKeepsInv ==
    ASSUME LedgerInv, NEW o \in Ops, Commit(o) PROVE LedgerInv'
<1> USE LedgerConstants
<1>1. LedgerTypeOK'
  BY DEF LedgerInv, LedgerTypeOK, Commit, Unlock, Goto, Open, Over
<1>2. pc[o] = "written" /\ Amount[o] > 0 /\ Debit[o] # Credit[o]
  BY DEF Commit, LedgerInv, ReadsHold, Over, Valid
<1>3. NoOverdraft'
  BY <1>1, <1>2, CommitApplies DEF LedgerInv, LedgerTypeOK, NoOverdraft
<1>4. /\ pc'[o] = "committed"
      /\ \A p \in Ops \ {o} : pc'[p] = pc[p]
      /\ UNCHANGED <<debitRead, creditRead>>
  BY DEF Commit, Goto, LedgerInv, LedgerTypeOK
<1>5. /\ \A p \in Ops \ {o}, a \in Accounts : rowLock[a] = p => rowLock'[a] = p
      /\ \A p \in Ops \ {o}, k \in Keys : keyLock[k] = p => keyLock'[k] = p
  BY DEF Commit, Unlock
<1>6. \A a \in Accounts \ {Debit[o], Credit[o]} : balance'[a] = balance[a]
  BY DEF Commit, LedgerInv, LedgerTypeOK
<1>7. UnopenedEmpty'
  BY <1>6 DEF UnopenedEmpty, LedgerInv, Commit
<1>8. OpensOnlyMint'
  BY <1>4 DEF LedgerInv, OpensOnlyMint
<1>9. /\ Debit[o] \in Viewers => rowLock[Debit[o]] = o
      /\ Credit[o] \in Viewers => rowLock[Credit[o]] = o
  BY <1>2 DEF LedgerInv, ReadsHold, PastDebit, PastCredit
<1>10. ReadsHold'
  <2> SUFFICES ASSUME NEW p \in Ops \ {o}
      PROVE /\ pc'[p] \notin {"start", "refused"} \cup Over => Valid(p)
            /\ pc'[p] \in PastDebit /\ Debit[p] \in Viewers =>
                  /\ rowLock'[Debit[p]] = p
                  /\ debitRead'[p] = balance'[Debit[p]]
                  /\ debitRead'[p] >= Amount[p]
            /\ pc'[p] \in PastCredit /\ Credit[p] \in Viewers =>
                  /\ rowLock'[Credit[p]] = p
                  /\ creditRead'[p] = balance'[Credit[p]]
    BY <1>4 DEF ReadsHold, PastDebit, PastCredit, Over, Valid
  <2>1. /\ pc[p] \in PastDebit /\ Debit[p] \in Viewers =>
             rowLock[Debit[p]] = p /\ Debit[p] \notin {Debit[o], Credit[o]}
        /\ pc[p] \in PastCredit /\ Credit[p] \in Viewers =>
             rowLock[Credit[p]] = p /\ Credit[p] \notin {Debit[o], Credit[o]}
    BY <1>9 DEF LedgerInv, ReadsHold
  <2> QED
    BY <1>4, <1>5, <1>6, <2>1 DEF LedgerInv, ReadsHold
<1>11. KeysHold'
  <2> SUFFICES ASSUME NEW p \in Ops \ {o}, pc[p] \in PastKey
      PROVE  keyLock'[Key[p]] = p /\ Key[p] \notin Applied'
    BY <1>4 DEF KeysHold, PastKey
  <2>1. keyLock[Key[p]] = p /\ keyLock[Key[o]] = o /\ Key[p] \notin Applied
    BY <1>2 DEF LedgerInv, KeysHold, PastKey
  <2>2. Key[p] # Key[o]
    BY <2>1
  <2> QED
    BY <1>5, <2>1, <2>2, CommitApplies
<1> QED
  BY <1>1, <1>3, <1>7, <1>8, <1>10, <1>11 DEF LedgerInv

-----------------------------------------------------------------------------
(* What may happen to an operation: a step of its own, or the loss of its  *)
(* transaction before the commit, which it need not have begun.            *)
Lost(o) == pc[o] # "committed" /\ Rollback(o)

(* Every such move keeps it.                                               *)
LEMMA MoveKeepsInv ==
    ASSUME LedgerInv, NEW o \in Ops, LedgerStep(o) \/ Lost(o)
    PROVE  LedgerInv'
<1>1. CASE Reject(o) \/ LookUp(o)
  BY <1>1, LookUpKeepsInv
<1>2. CASE ReadDebit(o)
  BY <1>2, ReadDebitKeepsInv
<1>3. CASE ReadCredit(o)
  BY <1>3, ReadCreditKeepsInv
<1>4. CASE OpenAccount(o)
  BY <1>4, OpenAccountKeepsInv
<1>5. CASE InsertTransaction(o)
  BY <1>5, InsertKeepsInv
<1>6. CASE Write(o)
  BY <1>6, WriteKeepsInv
<1>7. CASE Commit(o)
  BY <1>7, CommitKeepsInv
<1>8. CASE Close(o) \/ UniqueViolation(o) \/ DeadlockVictim(o) \/ Lost(o)
  <2>1. Rollback(o)
    BY <1>8 DEF Close, Rollback, UniqueViolation, DeadlockVictim, Lost
  <2>2. pc[o] # "committed"
    BY <1>8 DEF Close, UniqueViolation, DeadlockVictim, Lost, Blockers, RowsAwaited
  <2> QED
    BY <2>1, <2>2, RollbackKeepsInv
<1> QED
  BY <1>1, <1>2, <1>3, <1>4, <1>5, <1>6, <1>7, <1>8 DEF LedgerStep

(* So does no move.                                                        *)
LEMMA IdleKeepsInv == LedgerInv /\ UNCHANGED ledgerVars => LedgerInv'
BY DEF ledgerVars, LedgerInv, LedgerTypeOK, NoOverdraft, ReadsHold, KeysHold,
       UnopenedEmpty, OpensOnlyMint, Applied, Valid

(* Every step of the ledger keeps it.                                      *)
LEMMA LedgerInvStep == LedgerInv /\ [LedgerNext]_ledgerVars => LedgerInv'
BY MoveKeepsInv, IdleKeepsInv DEF LedgerNext, Fail, Open, Lost

(* The inductive invariant of the ledger.                                  *)
THEOREM LedgerInvariant == LedgerSpec => []LedgerInv
BY LedgerInvInit, LedgerInvStep, PTL DEF LedgerSpec

(* The state of the ledger is always well-formed.                          *)
THEOREM LedgerTyping == LedgerSpec => []LedgerTypeOK
<1>1. LedgerInv => LedgerTypeOK
  BY DEF LedgerInv
<1> QED
  BY <1>1, LedgerInvariant, PTL

(* No viewer's balance becomes negative (ledger.py:18).                    *)
THEOREM NeverOverdrawn == LedgerSpec => []NoOverdraft
<1>1. LedgerInv => NoOverdraft
  BY DEF LedgerInv
<1> QED
  BY <1>1, LedgerInvariant, PTL

(* A step other than a commit changes neither a balance nor the keys.      *)
LEMMA OnlyCommitsShow ==
    ASSUME LedgerInv, NEW o \in Ops, LedgerStep(o) \/ Lost(o), ~Commit(o)
    PROVE  /\ UNCHANGED <<balance, Applied>>
           /\ \A p \in Ops : pc'[p] = "committed" <=> pc[p] = "committed"
<1>1. balance' = balance
  BY DEF LedgerStep, Lost, Reject, LookUp, ReadDebit, ReadCredit, OpenAccount,
         InsertTransaction, Write, Close, UniqueViolation, DeadlockVictim, Rollback
<1>2. PICK there \in {"start"} \cup Open \cup Over : Goto(o, there) /\ there # "committed"
  BY DEF LedgerStep, Lost, Reject, LookUp, ReadDebit, ReadCredit, OpenAccount, Open, Over,
         InsertTransaction, Write, Close, UniqueViolation, DeadlockVictim, Rollback
<1>3. pc[o] # "committed"
  BY DEF LedgerStep, Lost, Reject, LookUp, ReadDebit, ReadCredit, OpenAccount, Open,
         InsertTransaction, Write, Close, UniqueViolation, DeadlockVictim, Blockers, RowsAwaited
<1>4. \A p \in Ops : pc'[p] = "committed" <=> pc[p] = "committed"
  BY <1>2, <1>3 DEF Goto, LedgerInv, LedgerTypeOK
<1>5. Applied' = Applied
  BY <1>4 DEF Applied
<1> QED
  BY <1>1, <1>4, <1>5

(* A move of an operation is one of the atomic ledger, or none.            *)
LEMMA MoveShown ==
    ASSUME LedgerInv, NEW o \in Ops, LedgerStep(o) \/ Lost(o)
    PROVE  [Books!BookNext]_(Books!bookVars)
<1>1. CASE Commit(o)
  <2>1. Books!Apply(o)
    BY <1>1, CommitApplies, LedgerConstants DEF Books!Apply
  <2> QED
    BY <2>1 DEF Books!BookNext
<1>2. CASE ~Commit(o)
  BY <1>2, OnlyCommitsShow DEF Books!bookVars
<1> QED
  BY <1>1, <1>2

(* A step of the ledger is one of the atomic ledger, or none.              *)
LEMMA BooksStep == LedgerInv /\ [LedgerNext]_ledgerVars => [Books!BookNext]_(Books!bookVars)
<1> SUFFICES ASSUME LedgerInv, [LedgerNext]_ledgerVars
    PROVE  [Books!BookNext]_(Books!bookVars)
  OBVIOUS
<1>1. CASE UNCHANGED ledgerVars
  BY <1>1 DEF ledgerVars, Applied, Books!bookVars
<1> QED
  BY <1>1, MoveShown DEF LedgerNext, Fail, Open, Lost

(* The ledger implements AtomicLedger (ledger.py:16-19).                   *)
THEOREM BooksAreKept == LedgerSpec => KeepsBooks
<1>1. LedgerInit => Books!BookInit
  BY LedgerConstants DEF LedgerInit, AtFirst, Books!BookInit, Applied
<1> QED
  BY <1>1, BooksStep, LedgerInvariant, PTL DEF LedgerSpec, KeepsBooks, Books!BookSpec

-----------------------------------------------------------------------------
(* A number that the mint or the sink may show: it lags behind the coins   *)
(* that were moved, at most.                                               *)
MintMayShow(n) == AtFirst(Mint) - n \in 0..Cardinality(CoinsMoved(Debit, Mint))
SinkMayShow(n) == n - AtFirst(Sink) \in 0..Cardinality(CoinsMoved(Credit, Sink))

(* What an operation read there is such a number, however old it is by now *)
(* and whatever has been committed since.                                  *)
CoinInv ==
    /\ DOMAIN Opening \subseteq accounts
    /\ IsFiniteSet(CoinsMoved(Debit, Mint)) /\ IsFiniteSet(CoinsMoved(Credit, Sink))
    /\ MintMayShow(balance[Mint]) /\ SinkMayShow(balance[Sink])
    /\ \A o \in Ops :
          /\ pc[o] \in PastDebit /\ Debit[o] = Mint => MintMayShow(debitRead[o])
          /\ pc[o] \in PastCredit /\ Credit[o] = Sink => SinkMayShow(creditRead[o])

(* The mint and the sink are accounts and no viewers.                      *)
LEMMA SystemAccounts ==
    /\ Mint \in Accounts \ Viewers /\ Sink \in Accounts \ Viewers /\ Mint # Sink
    /\ AtFirst(Mint) \in Int /\ AtFirst(Sink) \in Int
    /\ \A o \in Ops : Debit[o] # Sink /\ Credit[o] # Mint
BY LedgerAssumption DEF Accounts, AtFirst

(* An operation that commits moves its amount, and no other coin.          *)
LEMMA CoinsJoin ==
    ASSUME LedgerTypeOK, NEW o \in Ops, pc[o] # "committed", Goto(o, "committed"),
           Amount[o] > 0, NEW side, NEW a, IsFiniteSet(CoinsMoved(side, a))
    PROVE  /\ IsFiniteSet(CoinsMoved(side, a)')
           /\ Cardinality(CoinsMoved(side, a)') =
                 Cardinality(CoinsMoved(side, a)) + IF side[o] = a THEN Amount[o] ELSE 0
<1> DEFINE Here == CoinsMoved(side, a)
           New == {o} \X (1..Amount[o])
<1>1. pc'[o] = "committed" /\ \A p \in Ops \ {o} : pc'[p] = pc[p]
  BY DEF LedgerTypeOK, Goto
<1>2. Amount[o] \in Nat
  BY LedgerConstants
<1>3. Cardinality(Here) \in Nat
  BY FS_CardinalityType
<1>4. CASE side[o] = a
  <2>1. CoinsMoved(side, a)' = Here \cup New
    BY <1>1, <1>4 DEF CoinsMoved
  <2>2. Here \cap New = {}
    BY DEF CoinsMoved
  <2>3. IsFiniteSet(New) /\ Cardinality(New) = Amount[o]
    <3>1. IsFiniteSet({o}) /\ Cardinality({o}) = 1
      BY FS_Singleton
    <3>2. IsFiniteSet(1..Amount[o]) /\ Cardinality(1..Amount[o]) = Amount[o]
      <4>1. 1 \in Int /\ Amount[o] \in Int /\ ~(1 > Amount[o]) /\ Amount[o] - 1 + 1 = Amount[o]
        BY <1>2
      <4>2. /\ IsFiniteSet(1..Amount[o])
            /\ Cardinality(1..Amount[o]) =
                  IF 1 > Amount[o] THEN 0 ELSE Amount[o] - 1 + 1
        BY <4>1, FS_Interval
      <4> QED
        BY <4>1, <4>2
    <3>3. IsFiniteSet(New) /\ Cardinality(New) = Cardinality({o}) * Cardinality(1..Amount[o])
      BY <3>1, <3>2, FS_Product
    <3> QED
      BY <1>2, <3>1, <3>2, <3>3
  <2>4. /\ IsFiniteSet(Here \cup New)
        /\ Cardinality(Here \cup New) =
              Cardinality(Here) + Cardinality(New) - Cardinality(Here \cap New)
    BY <2>3, FS_Union
  <2>5. Cardinality(Here \cap New) = 0
    BY <2>2, FS_EmptySet
  <2> QED
    BY <1>2, <1>3, <1>4, <2>1, <2>3, <2>4, <2>5
<1>5. CASE side[o] # a
  <2>1. CoinsMoved(side, a)' = Here
    BY <1>1, <1>5 DEF CoinsMoved
  <2> QED
    BY <1>3, <1>5, <2>1
<1> QED
  BY <1>4, <1>5

(* Before anything is committed the mint and the sink show what they had.  *)
LEMMA CoinInvInit == LedgerInit => CoinInv
<1> SUFFICES ASSUME LedgerInit PROVE CoinInv
  OBVIOUS
<1>1. CoinsMoved(Debit, Mint) = {} /\ CoinsMoved(Credit, Sink) = {}
  BY DEF LedgerInit, CoinsMoved
<1>2. IsFiniteSet({}) /\ Cardinality({}) = 0
  BY FS_EmptySet
<1>3. balance[Mint] = AtFirst(Mint) /\ balance[Sink] = AtFirst(Sink)
  BY SystemAccounts DEF LedgerInit
<1>4. MintMayShow(balance[Mint]) /\ SinkMayShow(balance[Sink])
  BY <1>1, <1>2, <1>3, SystemAccounts DEF MintMayShow, SinkMayShow
<1>5. \A o \in Ops : pc[o] \notin PastDebit \cup PastCredit
  BY DEF LedgerInit, PastDebit, PastCredit
<1> QED
  BY <1>1, <1>2, <1>4, <1>5 DEF CoinInv, LedgerInit

(* Every move of an operation keeps it.                                    *)
LEMMA MoveKeepsCoins ==
    ASSUME LedgerInv, CoinInv, NEW o \in Ops, LedgerStep(o) \/ Lost(o)
    PROVE  CoinInv'
<1> USE LedgerConstants, SystemAccounts
<1>0. LedgerTypeOK
  BY DEF LedgerInv
<1>c. Cardinality(CoinsMoved(Debit, Mint)) \in Nat /\ Cardinality(CoinsMoved(Credit, Sink)) \in Nat
  BY FS_CardinalityType DEF CoinInv
<1>1. CASE Commit(o)
  <2>1. /\ pc[o] = "written" /\ Goto(o, "committed") /\ Amount[o] > 0
        /\ UNCHANGED <<debitRead, creditRead>> /\ accounts \subseteq accounts'
    BY <1>1 DEF Commit, LedgerInv, ReadsHold, Over, Valid
  <2>2. /\ IsFiniteSet(CoinsMoved(Debit, Mint)')
        /\ Cardinality(CoinsMoved(Debit, Mint)') =
              Cardinality(CoinsMoved(Debit, Mint)) + IF Debit[o] = Mint THEN Amount[o] ELSE 0
    BY <1>0, <2>1, CoinsJoin DEF CoinInv
  <2>3. /\ IsFiniteSet(CoinsMoved(Credit, Sink)')
        /\ Cardinality(CoinsMoved(Credit, Sink)') =
              Cardinality(CoinsMoved(Credit, Sink)) + IF Credit[o] = Sink THEN Amount[o] ELSE 0
    BY <1>0, <2>1, CoinsJoin DEF CoinInv
  <2>4. /\ \A n \in Int : MintMayShow(n) => MintMayShow(n)'
        /\ \A n \in Int : SinkMayShow(n) => SinkMayShow(n)'
    BY <1>c, <2>1, <2>2, <2>3 DEF MintMayShow, SinkMayShow
  <2>5. /\ balance \in [Accounts -> Int] /\ debitRead \in [Ops -> Int]
        /\ creditRead \in [Ops -> Int]
    BY <1>0 DEF LedgerTypeOK
  <2>6. balance' = [balance EXCEPT ![Debit[o]] = debitRead[o] - Amount[o],
                                  ![Credit[o]] = creditRead[o] + Amount[o]]
    BY <1>1 DEF Commit
  <2>7. MintMayShow(balance[Mint])'
    <3>1. CASE Debit[o] = Mint
      <4>1. MintMayShow(debitRead[o])
        BY <2>1, <3>1 DEF CoinInv, PastDebit
      <4>2. balance'[Mint] = debitRead[o] - Amount[o]
        BY <2>5, <2>6, <3>1
      <4> QED
        BY <1>c, <2>1, <2>2, <2>5, <3>1, <4>1, <4>2 DEF MintMayShow
    <3>2. CASE Debit[o] # Mint
      <4>1. balance'[Mint] = balance[Mint]
        BY <2>5, <2>6, <3>2
      <4> QED
        BY <2>4, <2>5, <4>1 DEF CoinInv, MintMayShow
    <3> QED
      BY <3>1, <3>2
  <2>8. SinkMayShow(balance[Sink])'
    <3>1. CASE Credit[o] = Sink
      <4>1. SinkMayShow(creditRead[o])
        BY <2>1, <3>1 DEF CoinInv, PastCredit
      <4>2. balance'[Sink] = creditRead[o] + Amount[o]
        BY <2>5, <2>6, <3>1
      <4> QED
        BY <1>c, <2>1, <2>3, <2>5, <3>1, <4>1, <4>2 DEF SinkMayShow
    <3>2. CASE Credit[o] # Sink
      <4>1. balance'[Sink] = balance[Sink]
        BY <2>5, <2>6, <3>2
      <4> QED
        BY <2>4, <2>5, <4>1 DEF CoinInv, SinkMayShow
    <3> QED
      BY <3>1, <3>2
  <2>9. \A p \in Ops : pc'[p] \in PastDebit \cup PastCredit => pc'[p] = pc[p]
    BY <1>0, <2>1 DEF Goto, LedgerTypeOK, PastDebit, PastCredit
  <2>10. ASSUME NEW p \in Ops
         PROVE  /\ pc'[p] \in PastDebit /\ Debit[p] = Mint => MintMayShow(debitRead[p])'
                /\ pc'[p] \in PastCredit /\ Credit[p] = Sink => SinkMayShow(creditRead[p])'
    <3>1. /\ pc[p] \in PastDebit /\ Debit[p] = Mint => MintMayShow(debitRead[p])
          /\ pc[p] \in PastCredit /\ Credit[p] = Sink => SinkMayShow(creditRead[p])
      BY DEF CoinInv
    <3> QED
      BY <2>1, <2>4, <2>5, <2>9, <3>1 DEF MintMayShow, SinkMayShow
  <2> QED
    BY <2>1, <2>2, <2>3, <2>7, <2>8, <2>10 DEF CoinInv
<1>2. CASE ~Commit(o)
  <2>1. /\ balance' = balance
        /\ \A p \in Ops : pc'[p] = "committed" <=> pc[p] = "committed"
    BY <1>2, OnlyCommitsShow
  <2>2. /\ CoinsMoved(Debit, Mint)' = CoinsMoved(Debit, Mint)
        /\ CoinsMoved(Credit, Sink)' = CoinsMoved(Credit, Sink)
    BY <2>1 DEF CoinsMoved
  <2>3. accounts' = accounts
    BY <1>2 DEF LedgerStep, Lost, Reject, LookUp, ReadDebit, ReadCredit, OpenAccount,
           InsertTransaction, Write, Close, UniqueViolation, DeadlockVictim, Rollback
  <2>4. \A p \in Ops \ {o} : /\ pc'[p] = pc[p] /\ debitRead'[p] = debitRead[p]
                            /\ creditRead'[p] = creditRead[p]
    <3>1. /\ \E there : Goto(o, there)
          /\ \A p \in Ops \ {o} : debitRead'[p] = debitRead[p] /\ creditRead'[p] = creditRead[p]
      BY <1>0, <1>2 DEF LedgerTypeOK, LedgerStep, Lost, Reject, LookUp, ReadDebit, ReadCredit,
             OpenAccount, InsertTransaction, Write, Close, UniqueViolation, DeadlockVictim,
             Rollback
    <3> QED
      BY <1>0, <3>1 DEF Goto, LedgerTypeOK
  <2>5. /\ pc'[o] \in PastDebit /\ Debit[o] = Mint =>
              debitRead'[o] \in {balance[Mint], AtFirst(Mint)}
                 \cup (IF pc[o] \in PastDebit THEN {debitRead[o]} ELSE {})
        /\ pc'[o] \in PastCredit /\ Credit[o] = Sink =>
              creditRead'[o] \in {balance[Sink], AtFirst(Sink)}
                 \cup (IF pc[o] \in PastCredit THEN {creditRead[o]} ELSE {})
    <3>1. ASSUME NEW a \in Accounts \ accounts PROVE AtFirst(a) = 0
      BY <3>1 DEF AtFirst, CoinInv
    <3>2. CASE ReadDebit(o)
      BY <1>0, <3>2 DEF ReadDebit, Goto, LedgerTypeOK, PastDebit, PastCredit
    <3>3. CASE ReadCredit(o)
      BY <1>0, <3>3 DEF ReadCredit, Goto, LedgerTypeOK, PastDebit, PastCredit
    <3>4. CASE OpenAccount(o)
      BY <1>0, <3>1, <3>4 DEF OpenAccount, Goto, LedgerTypeOK, PastDebit, PastCredit
    <3>5. CASE InsertTransaction(o) \/ Write(o)
      BY <1>0, <3>5 DEF InsertTransaction, Write, Goto, LedgerTypeOK, PastDebit, PastCredit
    <3>6. CASE Reject(o) \/ LookUp(o) \/ Rollback(o)
      BY <1>0, <3>6 DEF Reject, LookUp, Rollback, Goto, LedgerTypeOK, PastDebit, PastCredit
    <3> QED
      BY <1>2, <3>2, <3>3, <3>4, <3>5, <3>6
      DEF LedgerStep, Lost, Close, UniqueViolation, DeadlockVictim, Rollback
  <2>6. MintMayShow(AtFirst(Mint)) /\ SinkMayShow(AtFirst(Sink))
    BY <1>c DEF MintMayShow, SinkMayShow
  <2>7. ASSUME NEW p \in Ops
        PROVE  /\ pc'[p] \in PastDebit /\ Debit[p] = Mint => MintMayShow(debitRead[p])'
               /\ pc'[p] \in PastCredit /\ Credit[p] = Sink => SinkMayShow(creditRead[p])'
    <3>1. /\ pc[p] \in PastDebit /\ Debit[p] = Mint => MintMayShow(debitRead[p])
          /\ pc[p] \in PastCredit /\ Credit[p] = Sink => SinkMayShow(creditRead[p])
          /\ MintMayShow(balance[Mint]) /\ SinkMayShow(balance[Sink])
      BY DEF CoinInv
    <3> QED
      BY <2>2, <2>4, <2>5, <2>6, <3>1 DEF MintMayShow, SinkMayShow
  <2> QED
    BY <2>1, <2>2, <2>3, <2>7 DEF CoinInv, MintMayShow, SinkMayShow
<1> QED
  BY <1>1, <1>2

(* So does no move.                                                        *)
LEMMA IdleKeepsCoins == CoinInv /\ UNCHANGED ledgerVars => CoinInv'
<1> SUFFICES ASSUME CoinInv, UNCHANGED ledgerVars PROVE CoinInv'
  OBVIOUS
<1>1. UNCHANGED <<pc, accounts, balance, debitRead, creditRead>>
  BY DEF ledgerVars
<1>2. /\ CoinsMoved(Debit, Mint)' = CoinsMoved(Debit, Mint)
      /\ CoinsMoved(Credit, Sink)' = CoinsMoved(Credit, Sink)
  BY <1>1 DEF CoinsMoved
<1> QED
  BY <1>1, <1>2 DEF CoinInv, MintMayShow, SinkMayShow

(* Lost updates at the mint and the sink hide coins and invent none        *)
(* (ledger.py:65, 150).                                                    *)
THEOREM CoinsAreReal == LedgerSpec => []NoCoinIsInvented
<1>1. LedgerInv /\ CoinInv /\ [LedgerNext]_ledgerVars => CoinInv'
  BY MoveKeepsCoins, IdleKeepsCoins DEF LedgerNext, Fail, Open, Lost
<1>2. CoinInv => NoCoinIsInvented
  BY DEF CoinInv, MintMayShow, SinkMayShow, NoCoinIsInvented
<1> QED
  BY <1>1, <1>2, CoinInvInit, LedgerInvariant, PTL DEF LedgerSpec

-----------------------------------------------------------------------------
(* The store.  How far a purchase is, and how far its payment.             *)
PaymentInStep ==
    \A p \in Purchases :
        /\ stage[p] \in {"browse", "limit"} => pc[p] = "start"
        /\ stage[p] \in {"grant", "granted"} => pc[p] \in {"written", "skipped"}
        /\ stage[p] # "over" => pc[p] \notin Over

(* A payment is skipped only because one under the same key was made.      *)
SkippedIsPaid == \A p \in Purchases : pc[p] = "skipped" => Key[p] \in Applied

StoreInv == StoreTypeOK /\ LedgerInv /\ PaymentInStep /\ SkippedIsPaid /\ OwnedIfPaid

(* Nothing is sold at the start.                                           *)
LEMMA StoreInvInit == StoreInit => StoreInv
<1> SUFFICES ASSUME StoreInit PROVE StoreInv
  OBVIOUS
<1>1. LedgerInv
  BY LedgerInvInit DEF StoreInit
<1>2. StoreTypeOK
  BY <1>1, StoreAssumption DEF StoreInit, StoreTypeOK, LedgerInv
<1>3. PaymentInStep /\ SkippedIsPaid
  BY StoreAssumption DEF StoreInit, LedgerInit, PaymentInStep, SkippedIsPaid, Over
<1>4. OwnedIfPaid
  BY StoreAssumption DEF StoreInit, LedgerInit, OwnedIfPaid, Sold, Holdings
<1> QED
  BY <1>1, <1>2, <1>3, <1>4 DEF StoreInv

(* What a step of a purchase is to the ledger: only the last is a commit.  *)
LEMMA PurchaseMoves ==
    ASSUME StoreInv, NEW p \in Purchases, PurchaseStep(p) \/ FailPurchase(p)
    PROVE  \/ UNCHANGED ledgerVars
           \/ LedgerStep(p) \/ Lost(p)
<1>1. CASE Browse(p) \/ CheckLimit(p) \/ ReadInventory(p) \/ WriteGrant(p)
  BY <1>1 DEF Browse, CheckLimit, ReadInventory, WriteGrant
<1>2. CASE Pay(p) \/ NotPaid(p) \/ CommitPurchase(p)
  BY <1>2 DEF Pay, NotPaid, CommitPurchase, LedgerStep
<1>3. CASE FailPurchase(p)
  BY <1>3 DEF FailPurchase, Lost, StoreInv, PaymentInStep, Over
<1> QED
  BY <1>1, <1>2, <1>3 DEF PurchaseStep

(* The ledger under the store keeps its invariant.                         *)
LEMMA StoreKeepsLedger ==
    ASSUME StoreInv, [StoreNext]_allVars
    PROVE  LedgerInv'
<1>1. Purchases \subseteq Ops
  BY StoreAssumption
<1>2. ASSUME NEW p \in Purchases, PurchaseStep(p) \/ FailPurchase(p) PROVE LedgerInv'
  BY <1>1, <1>2, PurchaseMoves, MoveKeepsInv, IdleKeepsInv DEF StoreInv
<1>3. ASSUME NEW o \in Ops, LedgerStep(o) \/ Fail(o) PROVE LedgerInv'
  BY <1>3, MoveKeepsInv DEF StoreInv, Fail, Lost, Open
<1>4. CASE UNCHANGED allVars
  BY <1>4, IdleKeepsInv DEF allVars, StoreInv
<1> QED
  BY <1>2, <1>3, <1>4 DEF StoreNext

(* A move concerns one operation, which is skipped only when its key is in *)
(* use; keys that are in use remain so.                                    *)
LEMMA MoveFrame ==
    ASSUME LedgerInv, NEW o \in Ops, LedgerStep(o) \/ Lost(o)
    PROVE  /\ \A q \in Ops \ {o} : pc'[q] = pc[q]
           /\ Applied \subseteq Applied'
           /\ pc'[o] = "skipped" => Key[o] \in Applied
<1>1. PICK there : Goto(o, there) /\ (there = "skipped" => LookUp(o))
  BY DEF LedgerStep, Lost, Reject, LookUp, ReadDebit, ReadCredit, OpenAccount,
         InsertTransaction, Write, Commit, Close, UniqueViolation, DeadlockVictim, Rollback
<1>2. /\ \A q \in Ops \ {o} : pc'[q] = pc[q]
      /\ pc'[o] = there
  BY <1>1 DEF Goto, LedgerInv, LedgerTypeOK
<1>3. Applied \subseteq Applied'
  BY CommitApplies, OnlyCommitsShow
<1>4. LookUp(o) /\ pc'[o] = "skipped" => Key[o] \in Applied
  BY DEF LookUp, Goto, LedgerInv, LedgerTypeOK
<1> QED
  BY <1>1, <1>2, <1>3, <1>4

(* The store's variables keep their types, and a purchase its place.       *)
LEMMA StoreTypeStep ==
    ASSUME StoreInv, [StoreNext]_allVars
    PROVE  StoreTypeOK' /\ PaymentInStep'
<1> USE DEF StoreInv, StoreTypeOK, PaymentInStep, MoveTo
<1>0. LedgerTypeOK' /\ Purchases \subseteq Ops /\ LedgerTypeOK
  BY StoreKeepsLedger, StoreAssumption DEF LedgerInv
<1>c. /\ Item \in [Purchases -> Items]
      /\ \A p \in Purchases : Holding(p) \in Holdings
  BY StoreAssumption DEF Holding, Holdings
<1>1. ASSUME NEW p \in Purchases, Browse(p) PROVE StoreTypeOK' /\ PaymentInStep'
  BY <1>0, <1>c, <1>1 DEF Browse, ledgerVars
<1>2. ASSUME NEW p \in Purchases, CheckLimit(p) PROVE StoreTypeOK' /\ PaymentInStep'
  BY <1>0, <1>c, <1>2 DEF CheckLimit, ledgerVars, Over
<1>3. ASSUME NEW p \in Purchases, Pay(p) PROVE StoreTypeOK' /\ PaymentInStep'
  <2>1. LedgerStep(p)
    BY <1>3 DEF Pay, LedgerStep
  <2>2. \A q \in Purchases \ {p} : pc'[q] = pc[q]
    BY <1>0, <2>1, MoveFrame
  <2>3. CASE (UniqueViolation(p) \/ DeadlockVictim(p)) /\ MoveTo(p, "over")
    BY <1>0, <1>3, <2>2, <2>3 DEF Pay, UniqueViolation, DeadlockVictim, Rollback
  <2>4. CASE /\ \/ Reject(p) \/ LookUp(p) \/ ReadDebit(p) \/ ReadCredit(p)
                \/ OpenAccount(p) \/ InsertTransaction(p) \/ Write(p)
             /\ UNCHANGED stage
    <3>1. PICK there \in Open : Goto(p, there)
      BY <2>4 DEF Reject, LookUp, ReadDebit, ReadCredit, OpenAccount,
                  InsertTransaction, Write, Open
    <3>2. pc'[p] \notin Over /\ stage[p] = "pay"
      BY <1>0, <1>3, <3>1 DEF Goto, LedgerTypeOK, Over, Open, Pay
    <3> QED
      BY <1>0, <1>3, <2>2, <2>4, <3>2 DEF Pay
  <2> QED
    BY <1>3, <2>3, <2>4 DEF Pay
<1>4. ASSUME NEW p \in Purchases, NotPaid(p) \/ CommitPurchase(p) \/ FailPurchase(p)
      PROVE  StoreTypeOK' /\ PaymentInStep'
  <2>1. \A q \in Purchases \ {p} : pc'[q] = pc[q]
    BY <1>0, <1>4, PurchaseMoves, MoveFrame DEF PurchaseStep, ledgerVars
  <2>2. stage' = [stage EXCEPT ![p] = "over"]
    BY <1>4 DEF NotPaid, CommitPurchase, FailPurchase
  <2>3. PaymentInStep'
    BY <2>1, <2>2
  <2>4. /\ stock' \in [Items -> Int] /\ owned' \in [Holdings -> Nat]
        /\ stockRead' = stockRead /\ ownedRead' = ownedRead
        /\ grantLock' \subseteq Purchases
    <3>1. CASE NotPaid(p) \/ FailPurchase(p)
      BY <3>1 DEF NotPaid, FailPurchase
    <3>2. CASE CommitPurchase(p)
      <4>1. stockRead[p] - 1 \in Int /\ stock \in [Items -> Int]
        OBVIOUS
      <4>2. stock' \in [Items -> Int]
        BY <3>2, <4>1 DEF CommitPurchase
      <4>3. (IF ownedRead[p] = -1 THEN 0 ELSE ownedRead[p]) + 1 \in Nat
        OBVIOUS
      <4>4. owned' \in [Holdings -> Nat]
        BY <3>2, <4>3 DEF CommitPurchase
      <4> QED
        BY <3>2, <4>2, <4>4 DEF CommitPurchase
    <3> QED
      BY <1>4, <3>1, <3>2
  <2> QED
    BY <1>0, <2>2, <2>3, <2>4
<1>5. ASSUME NEW p \in Purchases, ReadInventory(p) PROVE StoreTypeOK' /\ PaymentInStep'
  BY <1>0, <1>c, <1>5 DEF ReadInventory, ledgerVars, Over
<1>6. ASSUME NEW p \in Purchases, WriteGrant(p) PROVE StoreTypeOK' /\ PaymentInStep'
  BY <1>0, <1>6 DEF WriteGrant, ledgerVars
<1>7. ASSUME NEW o \in Ops \ Purchases, LedgerStep(o) \/ Fail(o), UNCHANGED storeVars
      PROVE  StoreTypeOK' /\ PaymentInStep'
  <2>1. \A q \in Purchases : pc'[q] = pc[q]
    BY <1>0, <1>7, MoveFrame DEF Fail, Open, Lost
  <2> QED
    BY <1>0, <1>7, <2>1 DEF storeVars
<1>8. CASE UNCHANGED allVars
  BY <1>0, <1>8 DEF allVars, storeVars, ledgerVars
<1> QED
  BY <1>1, <1>2, <1>3, <1>4, <1>5, <1>6, <1>7, <1>8 DEF StoreNext, PurchaseStep

(* A step that commits no purchase leaves what is sold as it is.           *)
LEMMA SoldUnchanged ==
    ASSUME \A p \in Purchases : pc'[p] = "committed" <=> pc[p] = "committed"
    PROVE  \A v \in Viewers, i \in Items : Sold(v, i)' = Sold(v, i)
BY DEF Sold

(* What is in an inventory was sold, and what was sold is there.           *)
LEMMA OwnedStep ==
    ASSUME StoreInv, [StoreNext]_allVars
    PROVE  OwnedIfPaid' /\ SkippedIsPaid'
<1> USE DEF StoreInv
<1>0. Purchases \subseteq Ops
  BY StoreAssumption
<1>1. ASSUME NEW p \in Purchases, CommitPurchase(p) PROVE OwnedIfPaid'
  <2>1. /\ Holding(p) \in Holdings
        /\ owned' = [owned EXCEPT
                       ![Holding(p)] = (IF ownedRead[p] = -1 THEN 0 ELSE ownedRead[p]) + 1]
    BY <1>1, StoreAssumption DEF CommitPurchase, Holding, Holdings
  <2>2. /\ owned'[Holding(p)] > 0
        /\ \A h \in Holdings \ {Holding(p)} : owned'[h] = owned[h]
    BY <2>1 DEF StoreTypeOK
  <2>3. \A q \in Purchases \ {p} : pc'[q] = pc[q]
    BY <1>0, <1>1, MoveFrame DEF CommitPurchase, LedgerStep
  <2>4. \A v \in Viewers, i \in Items : <<v, i>> # Holding(p) => Sold(v, i)' = Sold(v, i)
    BY <2>3 DEF Sold, Holding
  <2>5. Sold(Debit[p], Item[p])' # {}
    <3>1. CASE Commit(p)
      BY <1>0, <3>1 DEF Commit, Goto, LedgerInv, LedgerTypeOK, Sold
    <3>2. CASE Close(p)
      <4>1. Key[p] \in Applied
        BY <1>1, <3>2 DEF CommitPurchase, Close, PaymentInStep, SkippedIsPaid
      <4>2. PICK o \in Ops : pc[o] = "committed" /\ Key[o] = Key[p]
        BY <4>1 DEF Applied
      <4>3. o \in Purchases /\ Debit[o] = Debit[p] /\ Item[o] = Item[p]
        BY <4>2, StoreAssumption
      <4>4. pc'[o] = "committed"
        BY <2>3, <3>2, <4>2, <4>3 DEF Close
      <4> QED
        BY <4>3, <4>4 DEF Sold
    <3> QED
      BY <1>1, <3>1, <3>2 DEF CommitPurchase
  <2> QED
    BY <2>2, <2>4, <2>5 DEF OwnedIfPaid, Holding, Holdings
<1>2. ASSUME NEW p \in Purchases, PurchaseStep(p) \/ FailPurchase(p), ~CommitPurchase(p)
      PROVE  OwnedIfPaid'
  <2>1. owned' = owned
    BY <1>2 DEF PurchaseStep, Browse, CheckLimit, Pay, NotPaid, ReadInventory, WriteGrant,
                FailPurchase
  <2>2. \A q \in Purchases : pc'[q] = "committed" <=> pc[q] = "committed"
    <3>1. CASE UNCHANGED ledgerVars
      BY <3>1 DEF ledgerVars
    <3>2. CASE ~UNCHANGED ledgerVars
      <4>1. LedgerStep(p) \/ Lost(p)
        BY <1>2, <3>2, PurchaseMoves
      <4>2. ~Commit(p)
        <5>1. CASE Commit(p)
          <6>1. pc[p] = "written" /\ pc'[p] = "committed"
            BY <1>0, <5>1 DEF Commit, Goto, LedgerInv, LedgerTypeOK
          <6>2. \A there : Goto(p, there) => there = "committed"
            BY <1>0, <6>1 DEF Goto, LedgerInv, LedgerTypeOK
          <6> QED
            BY <1>2, <3>2, <6>1, <6>2
            DEF PurchaseStep, Browse, CheckLimit, Pay, NotPaid, ReadInventory, WriteGrant,
                FailPurchase, Reject, LookUp, ReadDebit, ReadCredit, OpenAccount,
                InsertTransaction, Write, Close, UniqueViolation, DeadlockVictim, Rollback
        <5> QED
          BY <5>1
      <4> QED
        BY <1>0, <4>1, <4>2, OnlyCommitsShow
    <3> QED
      BY <3>1, <3>2
  <2> QED
    BY <2>1, <2>2, SoldUnchanged DEF OwnedIfPaid
<1>3. ASSUME NEW o \in Ops \ Purchases, LedgerStep(o) \/ Fail(o), UNCHANGED storeVars
      PROVE  OwnedIfPaid'
  <2>1. \A q \in Purchases : pc'[q] = pc[q]
    BY <1>0, <1>3, MoveFrame DEF Fail, Open, Lost
  <2> QED
    BY <1>3, <2>1, SoldUnchanged DEF OwnedIfPaid, storeVars
<1>4. ASSUME NEW o \in Ops, LedgerStep(o) \/ Lost(o) PROVE SkippedIsPaid'
  BY <1>0, <1>4, MoveFrame DEF SkippedIsPaid
<1>5. ASSUME UNCHANGED ledgerVars PROVE SkippedIsPaid'
  BY <1>5 DEF ledgerVars, SkippedIsPaid, Applied
<1>6. SkippedIsPaid'
  <2>1. ASSUME UNCHANGED allVars PROVE SkippedIsPaid'
    BY <1>5, <2>1 DEF allVars
  <2>2. ASSUME NEW o \in Ops, Fail(o) PROVE SkippedIsPaid'
    BY <1>4, <2>2 DEF Fail, Open, Lost
  <2> QED
    BY <1>0, <1>4, <1>5, <2>1, <2>2, PurchaseMoves DEF StoreNext
<1>7. ASSUME UNCHANGED allVars PROVE OwnedIfPaid'
  <2>1. pc' = pc /\ owned' = owned
    BY <1>7 DEF allVars, storeVars, ledgerVars
  <2> QED
    BY <2>1, SoldUnchanged DEF OwnedIfPaid
<1> QED
  BY <1>1, <1>2, <1>3, <1>6, <1>7 DEF StoreNext

(* The invariant holds of every state of the store and its ledger.         *)
LEMMA StoreInvariant == StoreSpec => []StoreInv
<1>1. StoreInv /\ [StoreNext]_allVars => StoreInv'
  BY StoreKeepsLedger, StoreTypeStep, OwnedStep DEF StoreInv
<1> QED
  BY <1>1, StoreInvInit, PTL DEF StoreSpec

(* Payment and delivery are one: whoever has an item paid for it, and      *)
(* whoever paid has it.                                                    *)
THEOREM PaidIsDelivered == StoreSpec => []OwnedIfPaid
<1>1. StoreInv => OwnedIfPaid
  BY DEF StoreInv
<1> QED
  BY <1>1, StoreInvariant, PTL

(* The store's variables keep their types.                                 *)
THEOREM StoreTyping == StoreSpec => []StoreTypeOK
<1>1. StoreInv => StoreTypeOK
  BY DEF StoreInv
<1> QED
  BY <1>1, StoreInvariant, PTL

(* Purchases keep the promise of AtomicLedger, and overdraw nobody.        *)
THEOREM StoreKeepsBooks == StoreSpec => KeepsBooks /\ []NoOverdraft
<1>1. StoreInit => Books!BookInit
  BY LedgerConstants DEF StoreInit, LedgerInit, AtFirst, Books!BookInit, Applied
<1>2. StoreInv /\ [StoreNext]_allVars => [Books!BookNext]_(Books!bookVars)
  <2> SUFFICES ASSUME StoreInv, [StoreNext]_allVars
      PROVE  [Books!BookNext]_(Books!bookVars)
    OBVIOUS
  <2>0. Purchases \subseteq Ops
    BY StoreAssumption
  <2>1. CASE UNCHANGED ledgerVars
    BY <2>1 DEF ledgerVars, Applied, Books!bookVars
  <2>2. ASSUME NEW o \in Ops, LedgerStep(o) \/ Lost(o)
        PROVE  [Books!BookNext]_(Books!bookVars)
    BY <2>2, MoveShown DEF StoreInv
  <2> QED
    BY <2>0, <2>1, <2>2, PurchaseMoves DEF StoreNext, allVars, Fail, Open, Lost
<1>3. StoreInv => NoOverdraft
  BY DEF StoreInv, LedgerInv
<1> QED
  BY <1>1, <1>2, <1>3, StoreInvariant, PTL DEF StoreSpec, KeepsBooks, Books!BookSpec

(* Nor do purchases and what runs beside them invent any.                  *)
THEOREM StoreCoinsAreReal == StoreSpec => []NoCoinIsInvented
<1>1. StoreInit => CoinInv
  BY CoinInvInit DEF StoreInit
<1>2. StoreInv /\ CoinInv /\ [StoreNext]_allVars => CoinInv'
  <2> SUFFICES ASSUME StoreInv, CoinInv, [StoreNext]_allVars PROVE CoinInv'
    OBVIOUS
  <2>1. CASE UNCHANGED ledgerVars
    BY <2>1, IdleKeepsCoins
  <2>2. ASSUME NEW o \in Ops, LedgerStep(o) \/ Lost(o) PROVE CoinInv'
    BY <2>2, MoveKeepsCoins DEF StoreInv
  <2> QED
    BY StoreAssumption, <2>1, <2>2, PurchaseMoves DEF StoreNext, allVars, Fail, Open, Lost
<1>3. CoinInv => NoCoinIsInvented
  BY DEF CoinInv, MintMayShow, SinkMayShow, NoCoinIsInvented
<1> QED
  BY <1>1, <1>2, <1>3, StoreInvariant, PTL DEF StoreSpec
=============================================================================
