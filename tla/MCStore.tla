------------------------------ MODULE MCStore -------------------------------
(* One part of the operations at a time, the others being over:            *)
(*   purchases  Alice, with two coins, asks for the badge twice; Bob has   *)
(*              one coin, for the badge or for something else             *)
(*   transfers  Carol has two coins and Dave has no account: a reward, a   *)
(*              spend, transfers in both directions, and one that is not   *)
(*              valid                                                      *)
EXTENDS Store

CONSTANTS alice, bob, carol, dave, mint, sink, badge,
          fee, first, second, other,
          earn, spend, there, back, nothing

MCViewers == {alice, bob, carol, dave}
MCPurchases == {first, second, other}
MCTransfers == {earn, spend, there, back, nothing}
MCOps == MCPurchases \cup {fee} \cup MCTransfers
MCItems == {badge}
MCItem == [p \in MCPurchases |-> badge]
MCDebit ==  [o \in MCOps |-> CASE o = earn -> mint
                               [] o \in {other, fee} -> bob
                               [] o \in {spend, there, nothing} -> carol
                               [] o = back -> dave
                               [] OTHER -> alice]
MCCredit == [o \in MCOps |-> CASE o \in {earn, there} -> dave
                               [] o \in {back, nothing} -> carol
                               [] OTHER -> sink]
MCAmount == [o \in MCOps |-> CASE o = nothing -> 0
                               [] o = spend -> 2
                               [] OTHER -> 1]
MCKey ==    [o \in MCOps |-> <<MCDebit[o], IF o \in MCPurchases THEN badge ELSE o>>]
MCStock == [i \in MCItems |-> 2]
MCLastOne == [i \in MCItems |-> 1]
MCMaxPerUser == [i \in MCItems |-> 2]
MCOpening == [a \in {alice, bob, carol, sink} |-> IF a \in {bob, sink} THEN 1 ELSE 2]

(* StoreInit, but for what is over from the start.                         *)
MCInit ==
    /\ \E rest \in {MCTransfers, MCOps \ MCTransfers} :
          /\ pc = [o \in Ops |-> IF o \in rest THEN "closed" ELSE "start"]
          /\ stage = [p \in Purchases |-> IF p \in rest THEN "over" ELSE "browse"]
    /\ accounts = DOMAIN Opening
    /\ balance = [a \in Accounts |-> AtFirst(a)]
    /\ rowLock = [a \in Accounts |-> None]
    /\ keyLock = [k \in Keys |-> None]
    /\ debitRead = [o \in Ops |-> 0] /\ creditRead = debitRead
    /\ stock = OpeningStock
    /\ owned = [h \in Holdings |-> 0]
    /\ stockRead = [p \in Purchases |-> 0]
    /\ ownedRead = [p \in Purchases |-> -1]
    /\ grantLock = {}

MCSpec == MCInit /\ [][StoreNext]_allVars /\ StoreFairness
=============================================================================
