-------------------------- MODULE Background_proofs --------------------------
(***************************************************************************)
(* What holds of the notifications of the hub, of the checks of channels   *)
(* and of the schema, for any deliveries, checkers, channels and bounds.   *)
(***************************************************************************)
EXTENDS WebSub, Discovery, Migrations, FiniteSetTheorems, SequenceTheorems, TLAPS

(* AckedIsStored is not inductive: an acknowledgement is given on the word *)
(* of the mark in Redis.  The mark is worth as much.                       *)
Accounted(h) ==
    events[h] > 0 \/ h \in cutOff \/ \E d \in Deliveries : Tells[d] = h /\ step[d] \notin {"new", "over"}

WebSubInv ==
    /\ WebSubTypeOK
    /\ \A h \in acked \cup marked : Accounted(h)

(* A mark and an acknowledgement are backed by a row, by a delivery that   *)
(* is under way, or by one that was cut off.                               *)
LEMMA WebSubInvStep ==
    ASSUME WebSubInv, [WebSubNext]_webSubVars
    PROVE  WebSubInv'
<1> USE WebSubAssumption DEF WebSubInv, WebSubTypeOK, Accounted, Hashes, Move
<1>1. ASSUME NEW d \in Deliveries, IsDuplicateOrRecord(d) PROVE WebSubInv'
  BY <1>1 DEF IsDuplicateOrRecord
<1>2. ASSUME NEW d \in Deliveries, Store(d) PROVE WebSubInv'
  BY <1>2 DEF Store
<1>3. ASSUME NEW d \in Deliveries, PublishEvent(d) PROVE WebSubInv'
  BY <1>3 DEF PublishEvent
<1>4. ASSUME NEW d \in Deliveries, CommitEvent(d) PROVE WebSubInv'
  BY <1>4 DEF CommitEvent
<1>5. ASSUME NEW d \in Deliveries, DeliveryFails(d) PROVE WebSubInv'
  BY <1>5 DEF DeliveryFails
<1>6. ASSUME NEW h \in Hashes, KeyLapses(h) PROVE WebSubInv'
  BY <1>6 DEF KeyLapses
<1>7. CASE UNCHANGED webSubVars
  BY <1>7 DEF webSubVars
<1> QED
  BY <1>1, <1>2, <1>3, <1>4, <1>5, <1>6, <1>7 DEF WebSubNext

(* What the hub was told is received is stored, unless the delivery that   *)
(* marked it in Redis was cut off afterwards.                              *)
THEOREM AcknowledgedIsStored == WebSubSpec => []AckedIsStored
<1>1. WebSubInit => WebSubInv
  BY WebSubAssumption DEF WebSubInit, WebSubInv, WebSubTypeOK, Accounted, Hashes
<1>2. WebSubInv /\ [WebSubNext]_webSubVars => WebSubInv'
  BY WebSubInvStep
<1>3. WebSubInv => AckedIsStored
  BY DEF WebSubInv, AckedIsStored, Accounted
<1> QED
  BY <1>1, <1>2, <1>3, PTL DEF WebSubSpec

-----------------------------------------------------------------------------
DiscoveryPlaces ==
    {"rest", "look", "lease", "active", "probe", "offline", "seen", "join", "unlock", "over"}

(* Of the type, what the arguments need; the lists of channels stay open.  *)
DiscoveryTyped ==
    /\ row \in [Channels -> [enabled : BOOLEAN, auto : BOOLEAN]]
    /\ at \in [Checkers -> DiscoveryPlaces]
    /\ todo = [p \in Checkers |-> todo[p]]
    /\ barred \in SUBSET Checkers
    /\ expired \in [Channels -> Nat]

(* A step of one of the actions leaves the types alone.                    *)
LEMMA DiscoveryTypeStep ==
    ASSUME DiscoveryTyped, [DiscoveryNext]_discoveryVars
    PROVE  DiscoveryTyped'
<1> USE DiscoveryAssumption DEF DiscoveryTyped, DiscoveryPlaces, Goto, Proceed, Idle
<1>1. ASSUME NEW p \in Checkers, Begin(p) PROVE DiscoveryTyped'
  BY <1>1 DEF Begin
<1>2. ASSUME NEW p \in Checkers, NEW c \in Channels, Ask(p, c) PROVE DiscoveryTyped'
  BY <1>2 DEF Ask
<1>3. ASSUME NEW p \in Checkers, Look(p) PROVE DiscoveryTyped'
  BY <1>3 DEF Look
<1>4. ASSUME NEW p \in Checkers, TakeLease(p) PROVE DiscoveryTyped'
  BY <1>4 DEF TakeLease
<1>5. ASSUME NEW p \in Checkers, LookForActive(p) \/ Probe(p) \/ RecordProbe(p) \/ Join(p)
      PROVE  DiscoveryTyped'
  BY <1>5 DEF LookForActive, Probe, RecordProbe, Join
<1>6. ASSUME NEW p \in Checkers, Unlock(p) PROVE DiscoveryTyped'
  BY <1>6 DEF Unlock
<1>7. ASSUME NEW p \in Checkers, FailInside(p) \/ FailOutside(p) PROVE DiscoveryTyped'
  BY <1>7 DEF FailInside, FailOutside, Fails
<1>8. ASSUME NEW c \in Channels, Expire(c) \/ WorkerEnds(c) PROVE DiscoveryTyped'
  BY <1>8 DEF Expire, WorkerEnds
<1>9. ASSUME NEW c \in Channels, Edit(c) PROVE DiscoveryTyped'
  BY <1>9 DEF Edit
<1>10. CASE UNCHANGED discoveryVars
  BY <1>10 DEF discoveryVars
<1> QED
  BY <1>1, <1>2, <1>3, <1>4, <1>5, <1>6, <1>7, <1>8, <1>9, <1>10 DEF DiscoveryNext, Check

(* Looking at a channel begins with its row, inside of the lease or not    *)
(* yet.                                                                    *)
LooksAt(p, c) == (at[p] = "lease" /\ Subject(p) = c) \/ Inside(p, c)

(* A checker that goes on has seen its channel enabled, or the channel has *)
(* been disabled since.                                                    *)
BarredIsKnown ==
    \A p \in Checkers, c \in Channels : LooksAt(p, c) /\ ~row[c].enabled => p \in barred

(* A check that begins with a disabled channel is known to be barred,      *)
(* whatever is edited under it.                                            *)
LEMMA BarredStep ==
    ASSUME DiscoveryTyped, BarredIsKnown, [DiscoveryNext]_discoveryVars
    PROVE  BarredIsKnown'
<1> USE DiscoveryAssumption
    DEF DiscoveryTyped, DiscoveryPlaces, BarredIsKnown, LooksAt, Inside, Subject, Goto, Proceed, Idle
<1>1. ASSUME NEW p \in Checkers, Begin(p) PROVE BarredIsKnown'
  BY <1>1 DEF Begin
<1>2. ASSUME NEW p \in Checkers, NEW c \in Channels, Ask(p, c) PROVE BarredIsKnown'
  BY <1>2 DEF Ask
<1>3. ASSUME NEW p \in Checkers, Look(p) PROVE BarredIsKnown'
  BY <1>3 DEF Look
<1>4. ASSUME NEW p \in Checkers, TakeLease(p) PROVE BarredIsKnown'
  <2>1. CASE Subject(p) \in lease
    BY <1>4, <2>1 DEF TakeLease
  <2>2. CASE Subject(p) \notin lease
    BY ZenonT(60), <1>4, <2>2 DEF TakeLease
  <2> QED
    BY <2>1, <2>2
<1>5. ASSUME NEW p \in Checkers, LookForActive(p) \/ Probe(p) \/ RecordProbe(p) \/ Join(p)
      PROVE  BarredIsKnown'
  BY <1>5 DEF LookForActive, Probe, RecordProbe, Join
<1>6. ASSUME NEW p \in Checkers, Unlock(p) PROVE BarredIsKnown'
  BY <1>6 DEF Unlock
<1>7. ASSUME NEW p \in Checkers, FailInside(p) \/ FailOutside(p) PROVE BarredIsKnown'
  BY <1>7 DEF FailInside, FailOutside, Fails
<1>8. ASSUME NEW c \in Channels, Expire(c) \/ WorkerEnds(c) PROVE BarredIsKnown'
  BY <1>8 DEF Expire, WorkerEnds
<1>9. ASSUME NEW c \in Channels, Edit(c) PROVE BarredIsKnown'
  BY <1>9 DEF Edit
<1>10. CASE UNCHANGED discoveryVars
  BY <1>10 DEF discoveryVars
<1> QED
  BY <1>1, <1>2, <1>3, <1>4, <1>5, <1>6, <1>7, <1>8, <1>9, <1>10 DEF DiscoveryNext, Check

-----------------------------------------------------------------------------
(* Who is inside of the check of a channel.                                *)
Insiders(c) == {p \in Checkers : Inside(p, c)}

(* One enters with the lease, and one leaves.                              *)
LEMMA Count ==
    ASSUME NEW c, NEW p \in Checkers
    PROVE  /\ IsFiniteSet(Insiders(c)) /\ Cardinality(Insiders(c)) \in Nat
           /\ Cardinality(Insiders(c) \cup {p}) <= Cardinality(Insiders(c)) + 1
           /\ p \in Insiders(c) => Cardinality(Insiders(c) \ {p}) = Cardinality(Insiders(c)) - 1
<1>1. IsFiniteSet(Insiders(c))
  BY DiscoveryAssumption, FS_Union, FS_Subset DEF Insiders, Checkers
<1>2. Cardinality(Insiders(c)) \in Nat
  BY <1>1, FS_CardinalityType
<1> QED
  BY <1>1, <1>2, FS_AddElement, FS_RemoveElement

(* A check enters a channel with the lease that was not there; one that    *)
(* leaves takes the lease, its own or that of another, with it; an expiry  *)
(* is counted.                                                             *)
LEMMA OverlapStep ==
    ASSUME DiscoveryTyped, OverlapIsBounded, [DiscoveryNext]_discoveryVars
    PROVE  OverlapIsBounded'
<1> SUFFICES ASSUME NEW c \in Channels
             PROVE  Cardinality(Insiders(c)') <= expired'[c] + (IF c \in lease' THEN 1 ELSE 0)
  BY DEF OverlapIsBounded, Insiders
<1>0. /\ Cardinality(Insiders(c)) <= expired[c] + (IF c \in lease THEN 1 ELSE 0)
      /\ expired[c] \in Nat
  BY DEF OverlapIsBounded, Insiders, DiscoveryTyped
<1>c. IsFiniteSet(Insiders(c)) /\ Cardinality(Insiders(c)) \in Nat
  BY DiscoveryAssumption, FS_Union, FS_Subset, FS_CardinalityType DEF Insiders, Checkers
<1>e. IsFiniteSet({}) /\ Cardinality({}) = 0
  BY FS_EmptySet
<1> DEFINE Held == IF c \in lease THEN 1 ELSE 0
           Stays == Insiders(c)' = Insiders(c)
<1>s. ASSUME Stays, expired' = expired, lease' = lease
      PROVE  Cardinality(Insiders(c)') <= expired'[c] + (IF c \in lease' THEN 1 ELSE 0)
  BY <1>s, <1>0
<1>1. ASSUME NEW p \in Checkers, Begin(p) \/ (\E d \in Channels : Ask(p, d)) \/ Look(p)
      PROVE  Stays /\ expired' = expired /\ lease' = lease
  BY <1>1 DEF Begin, Ask, Look, Goto, Proceed, Idle, Insiders, Inside, Subject, DiscoveryTyped
<1>2. ASSUME NEW p \in Checkers, TakeLease(p)
      PROVE  Cardinality(Insiders(c)') <= expired'[c] + (IF c \in lease' THEN 1 ELSE 0)
  <2>1. CASE Subject(p) \in lease \/ Subject(p) # c
    <3>1. Stays /\ expired' = expired /\ (c \in lease' <=> c \in lease)
      BY <1>2, <2>1
      DEF TakeLease, Goto, Proceed, Idle, Insiders, Inside, Subject, DiscoveryTyped
    <3> QED
      BY <3>1, <1>0
  <2>2. CASE Subject(p) = c /\ c \notin lease
    <3>1. Insiders(c)' = Insiders(c) \cup {p} /\ expired' = expired /\ c \in lease'
      BY <1>2, <2>2 DEF TakeLease, Goto, Insiders, Inside, Subject, DiscoveryTyped
    <3>2. Cardinality(Insiders(c) \cup {p}) <= Cardinality(Insiders(c)) + 1
      BY Count
    <3>3. Cardinality(Insiders(c) \cup {p}) \in Nat
      BY <1>c, FS_AddElement, FS_CardinalityType
    <3> QED
      BY <3>1, <3>2, <3>3, <2>2, <1>0, <1>c
  <2> QED
    BY <2>1, <2>2
<1>3. ASSUME NEW p \in Checkers, LookForActive(p) \/ Probe(p) \/ RecordProbe(p) \/ Join(p) \/ FailInside(p)
      PROVE  Stays /\ expired' = expired /\ lease' = lease
  BY <1>3 DEF LookForActive, Probe, RecordProbe, Join, FailInside, Fails, Goto, Insiders, Inside,
              Subject, DiscoveryTyped
<1>4. ASSUME NEW p \in Checkers, Unlock(p)
      PROVE  Cardinality(Insiders(c)') <= expired'[c] + (IF c \in lease' THEN 1 ELSE 0)
  <2>1. CASE Subject(p) = c
    <3>1. /\ p \in Insiders(c) /\ Insiders(c)' = Insiders(c) \ {p}
          /\ expired' = expired /\ c \notin lease'
      BY <1>4, <2>1 DEF Unlock, Goto, Proceed, Idle, Insiders, Inside, Subject, DiscoveryTyped
    <3>2. Cardinality(Insiders(c) \ {p}) = Cardinality(Insiders(c)) - 1
      BY <3>1, Count
    <3> QED
      BY <3>1, <3>2, <1>0, <1>c
  <2>2. CASE Subject(p) # c
    <3>1. Stays /\ expired' = expired /\ (c \in lease' <=> c \in lease)
      BY <1>4, <2>2 DEF Unlock, Goto, Proceed, Idle, Insiders, Inside, Subject, DiscoveryTyped
    <3> QED
      BY <3>1, <1>0
  <2> QED
    BY <2>1, <2>2
<1>5. ASSUME NEW p \in Checkers, FailOutside(p)
      PROVE  Cardinality(Insiders(c)') <= expired'[c] + (IF c \in lease' THEN 1 ELSE 0)
  <2>1. Insiders(c)' = Insiders(c) \ {p} /\ expired' = expired /\ lease' = lease
    BY <1>5 DEF FailOutside, Fails, Goto, Idle, Insiders, Inside, Subject, DiscoveryTyped
  <2>2. p \notin Insiders(c) => Stays
    BY <2>1
  <2>3. p \in Insiders(c) => Cardinality(Insiders(c) \ {p}) = Cardinality(Insiders(c)) - 1
    BY Count
  <2> QED
    BY <2>1, <2>2, <2>3, <1>0, <1>c
<1>6. ASSUME NEW d \in Channels, Expire(d)
      PROVE  Cardinality(Insiders(c)') <= expired'[c] + (IF c \in lease' THEN 1 ELSE 0)
  <2>1. Stays
    BY <1>6 DEF Expire, Insiders, Inside, Subject
  <2>2. CASE d = c /\ Insiders(c) = {}
    <3>1. expired'[c] \in Nat
      BY <1>6 DEF Expire, DiscoveryTyped
    <3>2. Cardinality(Insiders(c)') = 0
      BY <2>1, <2>2, <1>e
    <3> QED
      BY <3>1, <3>2
  <2>3. CASE d = c /\ Insiders(c) # {}
    <3>1. expired'[c] = expired[c] + 1 /\ c \notin lease'
      BY <1>6, <2>3 DEF Expire, DiscoveryTyped, Insiders
    <3> QED
      BY <3>1, <2>1, <1>0, <1>c
  <2>4. CASE d # c
    <3>1. expired'[c] = expired[c] /\ (c \in lease' <=> c \in lease)
      BY <1>6, <2>4 DEF Expire, DiscoveryTyped
    <3> QED
      BY <3>1, <2>1, <1>0
  <2> QED
    BY <2>2, <2>3, <2>4
<1>7. ASSUME NEW d \in Channels, Edit(d) \/ WorkerEnds(d)
      PROVE  Stays /\ expired' = expired /\ lease' = lease
  BY <1>7 DEF Edit, WorkerEnds, Insiders, Inside, Subject
<1>8. CASE UNCHANGED discoveryVars
  BY <1>8, <1>s DEF discoveryVars, Insiders, Inside, Subject
<1> QED
  BY <1>s, <1>1, <1>2, <1>3, <1>4, <1>5, <1>6, <1>7, <1>8 DEF DiscoveryNext, Check

-----------------------------------------------------------------------------
DiscoveryInv == DiscoveryTyped /\ BarredIsKnown /\ OverlapIsBounded

(* The invariant holds of every state.                                     *)
LEMMA DiscoveryInvariant == DiscoverySpec => []DiscoveryInv
<1>1. ASSUME DiscoveryInit PROVE DiscoveryInv
  <2>1. DiscoveryTyped
    BY <1>1 DEF DiscoveryInit, DiscoveryTyped, DiscoveryPlaces
  <2>2. \A c \in Channels : Insiders(c) = {}
    BY <1>1 DEF DiscoveryInit, Insiders, Inside
  <2>3. \A c \in Channels : Cardinality(Insiders(c)) = 0 /\ expired[c] = 0 /\ c \notin lease
    BY <1>1, <2>2, FS_EmptySet DEF DiscoveryInit
  <2>4. OverlapIsBounded
    BY <2>3 DEF OverlapIsBounded, Insiders
  <2>5. BarredIsKnown
    BY <1>1 DEF DiscoveryInit, BarredIsKnown, LooksAt, Inside
  <2> QED
    BY <2>1, <2>4, <2>5 DEF DiscoveryInv
<1>2. DiscoveryInv /\ [DiscoveryNext]_discoveryVars => DiscoveryInv'
  BY DiscoveryTypeStep, BarredStep, OverlapStep DEF DiscoveryInv
<1> QED
  BY <1>1, <1>2, PTL DEF DiscoverySpec

(* A channel is checked by one checker, and by one more for every lease    *)
(* that expired under a check, as whoever ends deletes the lease there is. *)
THEOREM ChecksSeldomOverlap == DiscoverySpec => []OverlapIsBounded
BY DiscoveryInvariant, PTL DEF DiscoveryInv

(* A channel that is disabled is left alone by every check that has not    *)
(* read its row by then, though the list of the cycle may be older.        *)
THEOREM DisabledStaysAlone == DiscoverySpec => []DisabledIsLeftAlone
<1>1. DiscoveryInv => DisabledIsLeftAlone
  BY DEF DiscoveryInv, BarredIsKnown, LooksAt, DisabledIsLeftAlone
<1> QED
  BY <1>1, DiscoveryInvariant, PTL

-----------------------------------------------------------------------------
(* The lists of statements, as far as the proofs need them.                *)
WithUnique == {"creators", "youtube_checkpoints", "creator_ai_settings", "incidents"}
Flag == <<"feature_flags", "stream_session_id">>

(* Tables are made in the branch for new tables, and a unique index after  *)
(* the table that has it.                                                  *)
Ordered(s) ==
    /\ \E S : s \in Seq(S)
    /\ \A i \in DOMAIN s : \A t : s[i].part = <<t, "table">> => s[i].branch
    /\ \A t \in WithUnique, i \in DOMAIN s : s[i].part = <<t, "table">> =>
           s[i].branch /\ \E j \in DOMAIN s : j > i /\ s[j].part = <<t, "unique">>

Makes(s, t) == \E i \in DOMAIN s : s[i].part = <<t, "table">>

Mentions(s, t) == \E i \in DOMAIN s : s[i].part[1] = t

Whole(s) == \A t : Mentions(s, t) => Makes(s, t)

Regular(s) == Ordered(s) /\ Whole(s)

-----------------------------------------------------------------------------
(* One list after the other.                                               *)
LEMMA OrderedConcat ==
    ASSUME NEW s, NEW t, Ordered(s), Ordered(t)
    PROVE  /\ Ordered(s \o t)
           /\ \A name : Makes(s, name) \/ Makes(t, name) => Makes(s \o t, name)
           /\ \A name : Mentions(s \o t, name) => Mentions(s, name) \/ Mentions(t, name)
<1> DEFINE u == s \o t
<1>1. PICK S : s \in Seq(S) /\ t \in Seq(S)
  <2>1. PICK A : s \in Seq(A)
    BY DEF Ordered
  <2>2. PICK B : t \in Seq(B)
    BY DEF Ordered
  <2>3. s \in Seq(A \cup B) /\ t \in Seq(A \cup B)
    BY <2>1, <2>2, SeqMonotonic
  <2> QED
    BY <2>3
<1>2. /\ u \in Seq(S)
      /\ Len(s) \in Nat /\ Len(t) \in Nat /\ Len(u) = Len(s) + Len(t)
      /\ DOMAIN s = 1..Len(s) /\ DOMAIN t = 1..Len(t) /\ DOMAIN u = 1..Len(u)
      /\ \A i \in 1..Len(s) + Len(t) : u[i] = IF i <= Len(s) THEN s[i] ELSE t[i - Len(s)]
  BY <1>1, ConcatProperties, LenProperties
<1> HIDE DEF u
<1>3. \A a, b \in Nat : /\ \A i \in 1..a : i \in 1..(a + b) /\ i <= a
                        /\ \A i \in 1..b : i + a \in 1..(a + b) /\ ~(i + a <= a) /\ (i + a) - a = i
                        /\ \A i \in 1..(a + b) : i \in 1..a \/ (i - a \in 1..b /\ (i - a) + a = i)
  OBVIOUS
<1>4. \A i \in DOMAIN s : i \in DOMAIN u /\ u[i] = s[i]
  BY <1>2, <1>3
<1>5. \A i \in DOMAIN t : i + Len(s) \in DOMAIN u /\ u[i + Len(s)] = t[i]
  BY <1>2, <1>3
<1>6. \A i \in DOMAIN u : i \in DOMAIN s \/ \E k \in DOMAIN t : i = k + Len(s)
  <2> SUFFICES ASSUME NEW i \in 1..(Len(s) + Len(t)) PROVE i \in DOMAIN s \/ \E k \in DOMAIN t : i = k + Len(s)
    BY <1>2
  <2>1. i \in 1..Len(s) \/ (i - Len(s) \in 1..Len(t) /\ (i - Len(s)) + Len(s) = i)
    BY <1>2, <1>3
  <2> QED
    BY <1>2, <2>1
<1>7. \A i \in DOMAIN t, j \in DOMAIN t : j > i => j + Len(s) > i + Len(s)
  BY <1>2
<1>8. ASSUME NEW name \in WithUnique, NEW i \in DOMAIN u, u[i].part = <<name, "table">>
      PROVE  u[i].branch /\ \E j \in DOMAIN u : j > i /\ u[j].part = <<name, "unique">>
  <2>1. CASE i \in DOMAIN s
    <3>1. u[i] = s[i]
      BY <1>4, <2>1
    <3>2. PICK j \in DOMAIN s : j > i /\ s[j].part = <<name, "unique">>
      BY <1>8, <2>1, <3>1 DEF Ordered
    <3>3. u[j] = s[j] /\ j \in DOMAIN u
      BY <1>4
    <3>4. u[i].branch
      BY <1>8, <2>1, <3>1 DEF Ordered
    <3> QED
      BY <3>2, <3>3, <3>4
  <2>2. ASSUME NEW k \in DOMAIN t, i = k + Len(s)
        PROVE  u[i].branch /\ \E j \in DOMAIN u : j > i /\ u[j].part = <<name, "unique">>
    <3>1. u[i] = t[k]
      BY <1>5, <2>2
    <3>2. PICK j \in DOMAIN t : j > k /\ t[j].part = <<name, "unique">>
      BY <1>8, <3>1 DEF Ordered
    <3>3. u[j + Len(s)] = t[j] /\ j + Len(s) \in DOMAIN u /\ j + Len(s) > i
      BY <1>5, <1>7, <2>2, <3>2
    <3>4. u[i].branch
      BY <1>8, <3>1 DEF Ordered
    <3> QED
      BY <3>2, <3>3, <3>4
  <2> QED
    BY <1>6, <2>1, <2>2
<1>9. ASSUME NEW name, Makes(s, name) \/ Makes(t, name) PROVE Makes(u, name)
  <2>1. CASE Makes(s, name)
    <3>1. PICK i \in DOMAIN s : s[i].part = <<name, "table">>
      BY <2>1 DEF Makes
    <3>2. i \in DOMAIN u /\ u[i] = s[i]
      BY <1>4
    <3> QED
      BY <3>1, <3>2 DEF Makes
  <2>2. CASE Makes(t, name)
    <3>1. PICK i \in DOMAIN t : t[i].part = <<name, "table">>
      BY <2>2 DEF Makes
    <3>2. i + Len(s) \in DOMAIN u /\ u[i + Len(s)] = t[i]
      BY <1>5
    <3> QED
      BY <3>1, <3>2 DEF Makes
  <2> QED
    BY <1>9, <2>1, <2>2
<1>10. ASSUME NEW name, NEW i \in DOMAIN u, u[i].part = <<name, "table">> PROVE u[i].branch
  <2>1. CASE i \in DOMAIN s
    BY <1>4, <1>10, <2>1 DEF Ordered
  <2>2. ASSUME NEW k \in DOMAIN t, i = k + Len(s) PROVE u[i].branch
    BY <1>5, <1>10, <2>2 DEF Ordered
  <2> QED
    BY <1>6, <2>1, <2>2
<1>11. Ordered(u)
  BY <1>2, <1>8, <1>10 DEF Ordered
<1>12. ASSUME NEW name, Mentions(u, name) PROVE Mentions(s, name) \/ Mentions(t, name)
  <2>1. PICK i \in DOMAIN u : u[i].part[1] = name
    BY <1>12 DEF Mentions
  <2>2. CASE i \in DOMAIN s
    BY <1>4, <2>1, <2>2 DEF Mentions
  <2>3. ASSUME NEW k \in DOMAIN t, i = k + Len(s) PROVE Mentions(t, name)
    BY <1>5, <2>1, <2>3 DEF Mentions
  <2> QED
    BY <1>6, <2>2, <2>3
<1> QED
  BY <1>9, <1>11, <1>12 DEF u

(* Lists that make the tables they mention; the second may leave that to   *)
(* the first.                                                              *)
LEMMA RegularConcat ==
    ASSUME NEW s, NEW t, Regular(s), Ordered(t), \A n : Mentions(t, n) => Makes(s, n) \/ Makes(t, n)
    PROVE  Regular(s \o t)
BY OrderedConcat DEF Whole, Regular

(* Tables without a unique index.                                          *)
LEMMA OrderedTables ==
    ASSUME NEW S, NEW names \in Seq(S)
    PROVE  /\ \E T : Create(names) \in Seq(T)
           /\ DOMAIN Create(names) = DOMAIN names
           /\ \A i \in DOMAIN names : Create(names)[i].part = <<names[i], "table">> /\ Create(names)[i].branch
           /\ (\A i \in DOMAIN names : names[i] \notin WithUnique) => Ordered(Create(names))
           /\ Whole(Create(names)) /\ \A i \in DOMAIN names : Makes(Create(names), names[i])
<1>1. Len(names) \in Nat /\ DOMAIN names = 1..Len(names)
  BY LenProperties
<1> DEFINE T == {[part |-> <<names[i], "table">>, branch |-> TRUE] : i \in DOMAIN names}
<1>2. \A i \in DOMAIN names : [part |-> <<names[i], "table">>, branch |-> TRUE] \in T
  OBVIOUS
<1>3. Create(names) \in [1..Len(names) -> T]
  BY <1>1, <1>2 DEF Create
<1> HIDE DEF T
<1>4. Create(names) \in Seq(T)
  BY <1>1, <1>3, SeqDef
<1>5. /\ DOMAIN Create(names) = DOMAIN names
      /\ \A i \in DOMAIN names : Create(names)[i] = [part |-> <<names[i], "table">>, branch |-> TRUE]
  BY DEF Create
<1>6. \A i \in DOMAIN names : Create(names)[i].part = <<names[i], "table">> /\ Create(names)[i].branch
  <2> TAKE i \in DOMAIN names
  <2>1. Create(names)[i] = [part |-> <<names[i], "table">>, branch |-> TRUE]
    BY <1>5
  <2>2. Create(names)[i].part = <<names[i], "table">>
    BY <2>1
  <2>3. ASSUME NEW st, st = [part |-> <<names[i], "table">>, branch |-> TRUE] PROVE st.branch
    BY <2>3, Zenon
  <2>4. Create(names)[i].branch
    BY <2>1, <2>3
  <2> QED
    BY <2>2, <2>4
<1>7. ASSUME \A i \in DOMAIN names : names[i] \notin WithUnique PROVE Ordered(Create(names))
  <2>1. \A t \in WithUnique, i \in DOMAIN names : Create(names)[i].part # <<t, "table">>
    BY <1>6, <1>7
  <2> QED
    BY <1>4, <1>5, <1>6, <2>1 DEF Ordered
<1>8. \A i \in DOMAIN names : Makes(Create(names), names[i]) /\ Create(names)[i].part[1] = names[i]
  BY <1>5, <1>6 DEF Makes
<1>9. Whole(Create(names))
  BY <1>5, <1>8 DEF Whole, Mentions
<1> QED
  BY <1>4, <1>5, <1>6, <1>7, <1>8, <1>9

(* A table and its unique index, which are always listed together.         *)
LEMMA OrderedUnique ==
    ASSUME NEW name, NEW b
    PROVE  LET s == Create(<<name>>) \o <<[part |-> <<name, "unique">>, branch |-> b]>> IN
           Ordered(s) /\ Makes(s, name) /\ Whole(s)
<1> DEFINE a == Create(<<name>>)
           c == [part |-> <<name, "unique">>, branch |-> b]
           s == a \o <<c>>
<1>1. c.part = <<name, "unique">> /\ \A x : c.part # <<x, "table">>
  OBVIOUS
<1>3. <<name>> \in Seq({name}) /\ DOMAIN <<name>> = {1} /\ <<name>>[1] = name
  <2>1. DOMAIN <<name>> = 1..1 /\ 1..1 = {1}
    OBVIOUS
  <2> QED
    BY <2>1
<1>4. DOMAIN a = {1} /\ a[1].part = <<name, "table">> /\ a[1].branch
  <2>1. DOMAIN a = {1}
    BY <1>3, OrderedTables
  <2>2. 1 \in DOMAIN <<name>>
    BY <1>3
  <2>3. a[1].part = <<<<name>>[1], "table">> /\ a[1].branch
    BY <1>3, <2>2, OrderedTables
  <2> QED
    BY <1>3, <2>1, <2>3
<1> HIDE DEF c
<1>2. PICK T : a \in Seq(T) /\ <<c>> \in Seq(T)
  <2>1. PICK T : a \in Seq(T)
    BY <1>3, OrderedTables
  <2>2. <<c>> \in Seq({c})
    OBVIOUS
  <2> HIDE DEF a
  <2>3. a \in Seq(T \cup {c}) /\ <<c>> \in Seq(T \cup {c})
    BY <2>1, <2>2, SeqMonotonic
  <2> QED
    BY <2>3
<1> HIDE DEF a
<1>5. s \in Seq(T) /\ DOMAIN s = {1, 2} /\ s[1] = a[1] /\ s[2] = c
  <2>1. Len(<<c>>) = 1 /\ <<c>>[1] = c
    OBVIOUS
  <2>2. Len(a) = 1
    <3>1. Len(a) \in Nat /\ 1..Len(a) = {1}
      BY <1>2, <1>4, LenProperties
    <3>2. 1 \in 1..Len(a)
      BY <3>1
    <3>3. Len(a) >= 1 /\ Len(a) \in 1..Len(a)
      BY <3>1, <3>2
    <3> QED
      BY <3>1, <3>3
  <2>3. s \in Seq(T) /\ Len(s) = 2 /\ \A i \in 1..2 : s[i] = IF i <= 1 THEN a[i] ELSE <<c>>[i - 1]
    BY SMTT(60), <1>2, <2>1, <2>2, ConcatProperties
  <2>4. DOMAIN s = 1..2
    BY <2>3, LenProperties
  <2> QED
    BY <2>1, <2>3, <2>4
<1> HIDE DEF s
<1>6. Ordered(s)
  <2>2. ASSUME NEW t, NEW i \in DOMAIN s, s[i].part = <<t, "table">> PROVE s[i].branch
    BY <1>1, <1>4, <1>5, <2>2
  <2>1. ASSUME NEW t \in WithUnique, NEW i \in DOMAIN s, s[i].part = <<t, "table">>
        PROVE  s[i].branch /\ \E j \in DOMAIN s : j > i /\ s[j].part = <<t, "unique">>
    <3>1. i = 1 /\ t = name
      BY <1>1, <1>4, <1>5, <2>1
    <3>2. 2 \in DOMAIN s /\ 2 > 1 /\ s[2].part = <<t, "unique">>
      BY <1>1, <1>5, <3>1
    <3>3. s[1].branch
      BY <1>4, <1>5
    <3> QED
      BY <3>1, <3>2, <3>3
  <2> QED
    BY <1>5, <2>1, <2>2 DEF Ordered
<1>7. Makes(s, name)
  BY <1>4, <1>5 DEF Makes
<1>8. Whole(s)
  <2>1. s[1].part[1] = name /\ s[2].part[1] = name
    BY <1>1, <1>4, <1>5
  <2> QED
    BY <1>5, <1>7, <2>1 DEF Whole, Mentions
<1> QED
  BY <1>6, <1>7, <1>8 DEF s, a, c

(* A column.                                                               *)
LEMMA OrderedEnsure ==
    ASSUME NEW name, NEW what, what # "table"
    PROVE  /\ Ordered(Ensure(name, what))
           /\ \A t : ~Makes(Ensure(name, what), t)
           /\ \A t : Mentions(Ensure(name, what), t) => t = name
<1> DEFINE c == [part |-> <<name, what>>, branch |-> FALSE]
<1>1. c.part[1] = name /\ \A x : c.part # <<x, "table">>
  OBVIOUS
<1> HIDE DEF c
<1>2. <<c>> \in Seq({c}) /\ DOMAIN <<c>> = 1..1 /\ 1..1 = {1} /\ <<c>>[1] = c
  OBVIOUS
<1>3. Ordered(<<c>>)
  BY <1>1, <1>2 DEF Ordered
<1>4. \A t : ~Makes(<<c>>, t) /\ (Mentions(<<c>>, t) => t = name)
  BY <1>1, <1>2 DEF Makes, Mentions
<1> QED
  BY <1>3, <1>4 DEF Ensure, c

(* What the revisions do is in this order, and of every table that one of  *)
(* them mentions there is one that makes it.                               *)
LEMMA ScriptsAreOrdered ==
    /\ \A r \in Revisions : Ordered(Script[r])
    /\ \A t \in WithUnique : \E r \in Revisions : Makes(Script[r], t)
    /\ \A r \in Revisions : \A t : Mentions(Script[r], t) => \E q \in Revisions : Makes(Script[q], t)
    /\ Script[Latest] = FlagsOfStreams /\ \A t : ~Makes(Script[Legacy], t)
<1>1. \A name : Ordered(CreateUnique(name)) /\ Makes(CreateUnique(name), name) /\ Regular(CreateUnique(name))
  BY OrderedUnique DEF CreateUnique, Regular
<1>2. Regular(Create(<<"stream_sessions", "audit_events", "system_events">>))
  <2> DEFINE names == <<"stream_sessions", "audit_events", "system_events">>
  <2>1. names \in Seq({names[1], names[2], names[3]}) /\ \A i \in DOMAIN names : names[i] \notin WithUnique
    BY DEF WithUnique
  <2> QED
    BY <2>1, OrderedTables DEF Regular
<1>3. Regular(Create(<<"youtube_websub_subscriptions", "youtube_discovery_events">>))
  <2> DEFINE names == <<"youtube_websub_subscriptions", "youtube_discovery_events">>
  <2>1. names \in Seq({names[1], names[2]}) /\ \A i \in DOMAIN names : names[i] \notin WithUnique
    BY DEF WithUnique
  <2> QED
    BY <2>1, OrderedTables DEF Regular
<1>4. Regular(Create(<<"moderation_reviews", "moderation_feedback">>))
  <2> DEFINE names == <<"moderation_reviews", "moderation_feedback">>
  <2>1. names \in Seq({names[1], names[2]}) /\ \A i \in DOMAIN names : names[i] \notin WithUnique
    BY DEF WithUnique
  <2> QED
    BY <2>1, OrderedTables DEF Regular
<1>5. Regular(Create(<<"viewer_trust_profiles", "ai_usage_records">>))
  <2> DEFINE names == <<"viewer_trust_profiles", "ai_usage_records">>
  <2>1. names \in Seq({names[1], names[2]}) /\ \A i \in DOMAIN names : names[i] \notin WithUnique
    BY DEF WithUnique
  <2> QED
    BY <2>1, OrderedTables DEF Regular
<1>6. Regular(Create(<<"custom_commands", "command_aliases", "viewer_engagements">>))
  <2> DEFINE names == <<"custom_commands", "command_aliases", "viewer_engagements">>
  <2>1. names \in Seq({names[1], names[2], names[3]}) /\ \A i \in DOMAIN names : names[i] \notin WithUnique
    BY DEF WithUnique
  <2> QED
    BY <2>1, OrderedTables DEF Regular
<1>7. Regular(Create(<<"economy_accounts", "economy_transactions", "economy_ledger_entries", "store_items", "viewer_inventories", "mini_game_sessions">>))
  <2> DEFINE names == <<"economy_accounts", "economy_transactions", "economy_ledger_entries", "store_items", "viewer_inventories", "mini_game_sessions">>
  <2>1. names \in Seq({names[1], names[2], names[3], names[4], names[5], names[6]}) /\ \A i \in DOMAIN names : names[i] \notin WithUnique
    BY DEF WithUnique
  <2> QED
    BY <2>1, OrderedTables DEF Regular
<1>8. Regular(Create(<<"creator_discord_configs", "feature_flags", "system_metric_snapshots">>))
  <2> DEFINE names == <<"creator_discord_configs", "feature_flags", "system_metric_snapshots">>
  <2>1. names \in Seq({names[1], names[2], names[3]}) /\ \A i \in DOMAIN names : names[i] \notin WithUnique
    BY DEF WithUnique
  <2> QED
    BY <2>1, OrderedTables DEF Regular
<1>9. Regular(Create(<<"monitored_channels">>))
  <2> DEFINE names == <<"monitored_channels">>
  <2>1. names \in Seq({names[1]}) /\ \A i \in DOMAIN names : names[i] \notin WithUnique
    BY DEF WithUnique
  <2> QED
    BY <2>1, OrderedTables DEF Regular
<1>0. \A s, t : Regular(s) /\ Regular(t) => Regular(s \o t) /\ \A n : Makes(s, n) \/ Makes(t, n) => Makes(s \o t, n)
  BY RegularConcat, OrderedConcat DEF Regular, Whole
<1>10. Regular(InitialSchema) /\ Makes(InitialSchema, "creators") /\ Makes(InitialSchema, "stream_sessions")
  <2> DEFINE names == <<"stream_sessions", "audit_events", "system_events">>
  <2>1. names \in Seq({names[1], names[2], names[3]}) /\ 1 \in DOMAIN names /\ names[1] = "stream_sessions"
    OBVIOUS
  <2>2. Makes(Create(names), names[1])
    BY <2>1, OrderedTables
  <2> QED
    BY <1>1, <1>2, <1>0, <2>1, <2>2 DEF InitialSchema
<1>11. Regular(WebSubTables) /\ Makes(WebSubTables, "youtube_checkpoints")
  BY <1>1, <1>3, <1>0 DEF WebSubTables
<1>12. Regular(ReviewTables)
  BY <1>4 DEF ReviewTables
<1>13. Regular(ProfileTables) /\ Makes(ProfileTables, "creator_ai_settings")
  BY <1>1, <1>5, <1>0 DEF ProfileTables
<1>14. Regular(EngagementTables) /\ Regular(EconomyTables)
  BY <1>6, <1>7 DEF EngagementTables, EconomyTables
<1>15. Regular(OperationsTables) /\ Makes(OperationsTables, "incidents") /\ Makes(OperationsTables, "feature_flags")
  <2> DEFINE names == <<"creator_discord_configs", "feature_flags", "system_metric_snapshots">>
  <2>1. names \in Seq({names[1], names[2], names[3]}) /\ 2 \in DOMAIN names /\ names[2] = "feature_flags"
    OBVIOUS
  <2>2. Makes(Create(names), names[2])
    BY <2>1, OrderedTables
  <2> QED
    BY <1>1, <1>8, <1>0, <2>1, <2>2 DEF OperationsTables
<1>16. Regular(ReconciledOperations)
  <2>1. Regular(Create(<<"incidents">>) \o Ensure("incidents", "unique"))
    BY OrderedUnique DEF Ensure, Regular
  <2> QED
    BY <1>8, <1>0, <2>1 DEF ReconciledOperations
<1>17. Regular(MonitoredChannels)
  <2>1. Makes(Create(<<"monitored_channels">>), "monitored_channels")
    <3> DEFINE names == <<"monitored_channels">>
    <3>1. names \in Seq({"monitored_channels"}) /\ 1 \in DOMAIN names /\ names[1] = "monitored_channels"
      OBVIOUS
    <3>2. Makes(Create(names), names[1])
      BY <3>1, OrderedTables
    <3> QED
      BY <3>1, <3>2
  <2>2. /\ Ordered(Ensure("monitored_channels", "last_connected_session_id"))
        /\ \A n : Mentions(Ensure("monitored_channels", "last_connected_session_id"), n) => n = "monitored_channels"
    BY OrderedEnsure
  <2> QED
    BY <1>9, <2>1, <2>2, RegularConcat DEF MonitoredChannels
<1>18. /\ Ordered(FlagsOfStreams) /\ \A n : Mentions(FlagsOfStreams, n) => n = "feature_flags"
       /\ Ordered(JoinMessage) /\ \A n : ~Makes(JoinMessage, n) /\ (Mentions(JoinMessage, n) => n = "stream_sessions")
  BY OrderedEnsure DEF FlagsOfStreams, JoinMessage
<1>19. Regular(ReviewTables \o ProfileTables) /\ Makes(ReviewTables \o ProfileTables, "creator_ai_settings")
  BY <1>12, <1>13, <1>0
<1>20. Regular(EngagementTables \o EconomyTables) /\ Regular(ReconciledReviews \o ReconciledOperations)
  BY <1>12, <1>14, <1>16, <1>0 DEF ReconciledReviews
<1>21. Regular(MissingCore \o MissingYouTube \o MissingProfiles \o MissingEngagement \o MissingEconomy)
  <2>1. Regular(MissingCore \o MissingYouTube)
    BY <1>10, <1>11, <1>0 DEF MissingCore, MissingYouTube
  <2>2. Regular(MissingCore \o MissingYouTube \o MissingProfiles)
    BY <1>13, <1>0, <2>1 DEF MissingProfiles
  <2>3. Regular(MissingCore \o MissingYouTube \o MissingProfiles \o MissingEngagement)
    BY <1>14, <1>0, <2>2 DEF MissingEngagement
  <2> QED
    BY <1>14, <1>0, <2>3 DEF MissingEconomy
<1>22. /\ Script["0001_initial_schema"] = InitialSchema
       /\ Script["0002_phase2_youtube_websub"] = WebSubTables
       /\ Script["0003_phase3_ai_moderation_persona"] = ReviewTables \o ProfileTables
       /\ Script["0005_phase5_operations_incidents"] = OperationsTables
       /\ Script[Latest] = FlagsOfStreams /\ Script[Legacy] = JoinMessage
  BY DEF Script, Latest, Legacy
<1>23. \A r \in Revisions : Regular(Script[r]) \/ r = Latest \/ r = Legacy
  BY <1>10, <1>11, <1>15, <1>17, <1>19, <1>20, <1>21 DEF Revisions, Script, Latest, Legacy
<1>24. \A t \in WithUnique : \E r \in Revisions : Makes(Script[r], t)
  BY ZenonT(60), <1>10, <1>11, <1>15, <1>19, <1>22 DEF Revisions, Script, WithUnique
<1>25. ASSUME NEW r \in Revisions, NEW t, Mentions(Script[r], t) PROVE \E q \in Revisions : Makes(Script[q], t)
  <2>1. CASE Regular(Script[r])
    BY <1>25, <2>1 DEF Regular, Whole
  <2>2. CASE r = Latest
    <3>1. t = "feature_flags"
      BY <1>18, <1>22, <1>25, <2>2
    <3>2. "0005_phase5_operations_incidents" \in Revisions
      BY DEF Revisions, Script
    <3> QED
      BY <1>15, <1>22, <3>1, <3>2
  <2>3. CASE r = Legacy
    <3>1. t = "stream_sessions"
      BY <1>18, <1>22, <1>25, <2>3
    <3>2. "0001_initial_schema" \in Revisions
      BY DEF Revisions, Script
    <3> QED
      BY <1>10, <1>22, <3>1, <3>2
  <2> QED
    BY <1>23, <2>1, <2>2, <2>3
<1>26. \A r \in Revisions : Ordered(Script[r])
  BY <1>18, <1>22, <1>23 DEF Regular
<1> QED
  BY <1>18, <1>22, <1>24, <1>25, <1>26

(* Each table of the models is made by a revision.                         *)
LEMMA TablesOfTheModels == \A t \in ModelTables : \E r \in Revisions : Makes(Script[r], t)
<1> SUFFICES ASSUME NEW t \in ModelTables PROVE \E r \in Revisions : Makes(Script[r], t)
  OBVIOUS
<1>1. PICK r \in Revisions : \E i \in DOMAIN Script[r] : t = Script[r][i].part[1]
  BY DEF ModelTables
<1> QED
  BY <1>1, ScriptsAreOrdered DEF Mentions

-----------------------------------------------------------------------------
(* What the version table holds is the head of the chain, if there is one, *)
(* and the legacy revision as long as it is not taken up.                  *)
HeadsAt(heads, k) ==
    /\ k \in 0..9
    /\ heads \subseteq Revisions
    /\ \A i \in 1..9 : Chain[i] \in heads <=> i = k
    /\ k = 9 => Legacy \notin heads

(* The nine revisions of the chain, and the one beside it, are different.  *)
LEMMA ChainOfRevisions ==
    /\ Len(Chain) = 9 /\ Chain[9] = Latest
    /\ \A i, j \in 1..9 : Chain[i] = Chain[j] => i = j
    /\ \A i \in 1..9 : Chain[i] # Legacy
    /\ Revisions = {Chain[i] : i \in 1..9} \cup {Legacy}
<1>1. Len(Chain) = 9 /\ Chain[9] = Latest
  BY DEF Chain
<1>2. \A i \in 1..9 : i = 1 \/ i = 2 \/ i = 3 \/ i = 4 \/ i = 5 \/ i = 6 \/ i = 7 \/ i = 8 \/ i = 9
  OBVIOUS
<1>3. /\ Chain[1] = "0001_initial_schema" /\ Chain[2] = "0002_phase2_youtube_websub"
      /\ Chain[3] = "0003_phase3_ai_moderation_persona" /\ Chain[4] = "0004_phase4_engagement_economy"
      /\ Chain[5] = "0005_phase5_operations_incidents" /\ Chain[6] = "0006_reconcile_production_schema"
      /\ Chain[7] = "0007_create_monitored_channels" /\ Chain[8] = "0008_reconcile_missing_core_tables"
      /\ Chain[9] = "0009_reconcile_legacy_history"
  BY DEF Chain, Latest
<1>4. \A i, j \in 1..9 : Chain[i] = Chain[j] => i = j
  BY <1>2, <1>3
<1>5. \A i \in 1..9 : Chain[i] # Legacy
  BY <1>2, <1>3 DEF Legacy
<1>6. Revisions = {Chain[1], Chain[2], Chain[3], Chain[4], Chain[5], Chain[6], Chain[7], Chain[8], Chain[9], Legacy}
  BY <1>3 DEF Revisions, Script, Legacy
<1>7. {Chain[i] : i \in 1..9} = {Chain[1], Chain[2], Chain[3], Chain[4], Chain[5], Chain[6], Chain[7], Chain[8], Chain[9]}
  BY <1>2
<1> QED
  BY <1>1, <1>4, <1>5, <1>6, <1>7

(* With the head at k, the revisions up to k are those that were applied.  *)
LEMMA AppliedUpToTheHead ==
    ASSUME NEW heads, NEW k, HeadsAt(heads, k)
    PROVE  /\ \A i \in 1..9 : Chain[i] \in Applied(heads) <=> i <= k
           /\ Legacy \in Applied(heads) <=> Legacy \in heads \/ k = 9
           /\ Applied(heads) \subseteq Revisions
<1>1. \A i \in 1..9 : (\E j \in i..9 : Chain[j] \in heads) <=> i <= k
  BY DEF HeadsAt
<1>2. ASSUME NEW i \in 1..9 PROVE Chain[i] \in Applied(heads) <=> i <= k
  <2>1. Chain[i] \in Applied(heads) <=> \E m \in 1..9 : Chain[i] = Chain[m] /\ \E j \in m..9 : Chain[j] \in heads
    BY ChainOfRevisions DEF Applied
  <2> QED
    BY <1>1, <2>1, ChainOfRevisions
<1>3. Legacy \in Applied(heads) <=> heads \cap {Legacy, Latest} # {}
  BY ChainOfRevisions DEF Applied
<1>4. Latest \in heads <=> k = 9
  BY ChainOfRevisions DEF HeadsAt
<1>5. Applied(heads) \subseteq Revisions
  BY ChainOfRevisions DEF Applied
<1> QED
  BY <1>2, <1>3, <1>4, <1>5

(* A revision is written over those that it revises.                       *)
LEMMA NextRevision ==
    ASSUME NEW heads, NEW k, HeadsAt(heads, k),
           NEW r \in Revisions, r \notin Applied(heads), Revises[r] \subseteq Applied(heads)
    PROVE  /\ Latest \notin heads
           /\ HeadsAt((heads \ Revises[r]) \cup {r}, IF r = Legacy THEN k ELSE k + 1)
           /\ Applied((heads \ Revises[r]) \cup {r}) \subseteq Applied(heads) \cup {r}
<1> DEFINE new == (heads \ Revises[r]) \cup {r}
           n == IF r = Legacy THEN k ELSE k + 1
<1>1. Revises[r] = {Chain[i] : i \in {i \in 1..8 : Chain[i + 1] = r}} \cup IF r = Latest THEN {Legacy} ELSE {}
  BY ChainOfRevisions DEF Revises
<1>2. k \in 0..9
  BY DEF HeadsAt
<1>3. HeadsAt(new, n) /\ k # 9
  <2>1. CASE r = Legacy
    <3>1. Revises[r] = {}
      BY <1>1, <2>1, ChainOfRevisions
    <3>2. k # 9
      BY <2>1, AppliedUpToTheHead
    <3> QED
      BY <1>2, <2>1, <3>1, <3>2, ChainOfRevisions DEF HeadsAt
  <2>2. ASSUME NEW m \in 1..9, r = Chain[m] PROVE HeadsAt(new, n) /\ k # 9
    <3>1. ~(m <= k)
      BY <2>2, AppliedUpToTheHead
    <3>2. m # 1 => m - 1 <= k
      <4>1. m # 1 => m - 1 \in 1..8 /\ Chain[(m - 1) + 1] = r
        BY <2>2
      <4>2. m # 1 => Chain[m - 1] \in Revises[r]
        BY <1>1, <4>1
      <4> QED
        BY <4>1, <4>2, AppliedUpToTheHead
    <3>3. m = k + 1 /\ n = m /\ k \in 0..8
      BY <1>2, <2>2, <3>1, <3>2, ChainOfRevisions
    <3>4. \A i \in 1..9 : Chain[i] \in Revises[r] <=> i = k
      <4>1. \A i \in 1..8 : Chain[i + 1] = r <=> i = k
        BY <2>2, <3>3, ChainOfRevisions
      <4>2. \A i \in 1..9 : Chain[i] \in Revises[r] <=> \E j \in 1..8 : Chain[j + 1] = r /\ Chain[i] = Chain[j]
        BY <1>1, ChainOfRevisions
      <4> QED
        BY <3>3, <4>1, <4>2, ChainOfRevisions
    <3>5. \A i \in 1..9 : Chain[i] \in new <=> i = n
      BY <2>2, <3>3, <3>4, ChainOfRevisions DEF HeadsAt
    <3>6. n = 9 => Legacy \notin new
      BY <1>1, <2>2, <3>3, ChainOfRevisions
    <3> QED
      BY <3>3, <3>5, <3>6 DEF HeadsAt
  <2> QED
    BY <2>1, <2>2, ChainOfRevisions
<1>4. Latest \notin heads
  BY <1>3, ChainOfRevisions DEF HeadsAt
<1>5. ASSUME NEW i \in 1..9, Chain[i] \in Applied(new) PROVE Chain[i] \in Applied(heads) \cup {r}
  <2>1. i <= n
    BY <1>3, <1>5, AppliedUpToTheHead
  <2>2. r # Legacy => r = Chain[n]
    BY <1>3, ChainOfRevisions DEF HeadsAt
  <2>3. i <= k \/ (r # Legacy /\ i = n)
    BY <1>2, <2>1
  <2> QED
    BY <2>2, <2>3, AppliedUpToTheHead
<1>6. ASSUME Legacy \in Applied(new) PROVE Legacy \in Applied(heads) \cup {r}
  <2>1. Legacy \in new \/ n = 9
    BY <1>3, <1>6, AppliedUpToTheHead
  <2>2. n = 9 /\ r # Legacy => Legacy \in Revises[r]
    <3>1. n = 9 /\ r # Legacy => r = Latest
      BY <1>3, ChainOfRevisions DEF HeadsAt
    <3> QED
      BY <1>1, <3>1
  <2>3. Legacy \in heads => Legacy \in Applied(heads)
    BY AppliedUpToTheHead
  <2> QED
    BY <2>1, <2>2, <2>3
<1>7. Applied(new) \subseteq Revisions
  BY <1>3, AppliedUpToTheHead
<1> QED
  BY <1>3, <1>4, <1>5, <1>6, <1>7, ChainOfRevisions

(* A statement is taken off the list.                                      *)
LEMMA OneStatement ==
    ASSUME NEW s, Ordered(s), s # <<>>
    PROVE  /\ Ordered(Tail(s))
           /\ \A q : (\E i \in DOMAIN s : s[i].part = q) =>
                 Head(s).part = q \/ \E i \in DOMAIN Tail(s) : Tail(s)[i].part = q
           /\ \A t : Head(s).part = <<t, "table">> => Head(s).branch
           /\ \A t \in WithUnique : Head(s).part = <<t, "table">> =>
                 Head(s).branch /\ \E i \in DOMAIN Tail(s) : Tail(s)[i].part = <<t, "unique">>
<1> DEFINE u == Tail(s)
<1>1. PICK S : s \in Seq(S)
  BY DEF Ordered
<1>2. /\ u \in Seq(S) /\ DOMAIN s = 1..Len(s) /\ Len(s) \in Nat \ {0} /\ Len(u) = Len(s) - 1 /\ DOMAIN u = 1..Len(u)
      /\ \A i \in DOMAIN u : u[i] = s[i + 1]
  BY <1>1, HeadTailProperties, LenProperties, EmptySeq
<1>3. Head(s) = s[1] /\ 1 \in DOMAIN s
  BY <1>1, <1>2
<1> HIDE DEF u
<1>4. \A i \in DOMAIN s : i # 1 => i - 1 \in DOMAIN u /\ u[i - 1] = s[i]
  BY <1>2
<1>5. \A i \in DOMAIN u : i + 1 \in DOMAIN s /\ u[i] = s[i + 1]
  BY <1>2
<1>6. ASSUME NEW q, NEW i \in DOMAIN s, s[i].part = q
      PROVE  Head(s).part = q \/ \E j \in DOMAIN u : u[j].part = q
  <2>1. CASE i = 1
    BY <1>3, <1>6, <2>1
  <2>2. CASE i # 1
    <3>1. i - 1 \in DOMAIN u /\ u[i - 1] = s[i]
      BY <1>4, <2>2
    <3> QED
      BY <1>6, <3>1
  <2> QED
    BY <2>1, <2>2
<1>7. ASSUME NEW t \in WithUnique, NEW i \in DOMAIN s, s[i].part = <<t, "table">>
      PROVE  s[i].branch /\ \E j \in DOMAIN s : j > i /\ s[j].part = <<t, "unique">>
  BY <1>7 DEF Ordered
<1>8. ASSUME NEW t \in WithUnique, Head(s).part = <<t, "table">>
      PROVE  Head(s).branch /\ \E i \in DOMAIN u : u[i].part = <<t, "unique">>
  <2>1. s[1].part = <<t, "table">>
    BY <1>3, <1>8
  <2>2. PICK j \in DOMAIN s : j > 1 /\ s[j].part = <<t, "unique">>
    BY <1>3, <1>7, <2>1
  <2>3. j - 1 \in DOMAIN u /\ u[j - 1] = s[j]
    BY <1>4, <2>2
  <2>4. Head(s).branch
    BY <1>3, <1>7, <2>1
  <2> QED
    BY <2>2, <2>3, <2>4
<1>9. ASSUME NEW t \in WithUnique, NEW i \in DOMAIN u, u[i].part = <<t, "table">>
      PROVE  u[i].branch /\ \E j \in DOMAIN u : j > i /\ u[j].part = <<t, "unique">>
  <2>1. i + 1 \in DOMAIN s /\ u[i] = s[i + 1]
    BY <1>5
  <2>2. PICK j \in DOMAIN s : j > i + 1 /\ s[j].part = <<t, "unique">>
    BY <1>7, <1>9, <2>1
  <2>3. j - 1 \in DOMAIN u /\ u[j - 1] = s[j] /\ j - 1 > i
    BY <1>2, <1>4, <2>2
  <2>4. u[i].branch
    BY <1>7, <1>9, <2>1
  <2> QED
    BY <2>2, <2>3, <2>4
<1>10. ASSUME NEW t, NEW i \in DOMAIN u, u[i].part = <<t, "table">> PROVE u[i].branch
  BY <1>5, <1>10 DEF Ordered
<1>11. Ordered(u)
  BY <1>2, <1>9, <1>10 DEF Ordered
<1>12. ASSUME NEW t, Head(s).part = <<t, "table">> PROVE Head(s).branch
  BY <1>3, <1>12 DEF Ordered
<1> QED
  BY <1>6, <1>8, <1>11, <1>12 DEF u

-----------------------------------------------------------------------------
(* UpIsCurrent is not inductive.  A revision that was applied has made its *)
(* tables, and the one that runs has made those it does not still list;    *)
(* the latest leaves no flags without their column; and there is no other  *)
(* revision than the latest because there is one head of the chain.  Where *)
(* nothing failed, a table without its unique index still has the          *)
(* statement for it before it, and a container's application finds the     *)
(* latest revision applied.                                                *)
Flagged(parts) == <<"feature_flags", "table">> \in parts => Flag \in parts

Indexed(parts) == \A t \in WithUnique : <<t, "table">> \in parts => <<t, "unique">> \in parts

(* The unique index of t is about to be made.                              *)
Coming(t) ==
    /\ revision # Nowhere /\ <<t, "table">> \notin found
    /\ \E i \in DOMAIN pending : pending[i].part = <<t, "unique">>

Sound(x) ==
    /\ x = [parts |-> x.parts, heads |-> x.heads]
    /\ \E k : HeadsAt(x.heads, k)
    /\ \A r \in Applied(x.heads) : \A t : Makes(Script[r], t) => <<t, "table">> \in x.parts
    /\ Latest \in x.heads => Flagged(x.parts)

MigrationsInv ==
    /\ stage \in {"down", "cli", "app", "create", "up", "exited"}
    /\ restarts \in Nat /\ upgraded \in BOOLEAN
    /\ revision \in Revisions \cup {Nowhere}
    /\ Sound(draft) /\ Sound(stored)
    /\ ~Transactional => stored = draft
    /\ Ordered(pending)
    /\ revision # Nowhere =>
           /\ stage \in {"cli", "app"}
           /\ revision \notin Applied(draft.heads) /\ Revises[revision] \subseteq Applied(draft.heads)
           /\ found \subseteq draft.parts
           /\ \A t : Makes(Script[revision], t) => <<t, "table">> \in draft.parts \/ Makes(pending, t)
    /\ revision = Latest => pending = FlagsOfStreams \/ (pending = <<>> /\ Flagged(draft.parts))
    /\ stage \in {"cli", "app"} => ~upgraded
    /\ upgraded => Latest \in stored.heads
    /\ deployment = "container" /\ stage = "app" => Latest \in draft.heads
    /\ restarts = 0 =>
           /\ \A t \in WithUnique : <<t, "table">> \in draft.parts => <<t, "unique">> \in draft.parts \/ Coming(t)
           /\ Transactional \/ revision = Nowhere => Indexed(stored.parts)
           /\ Transactional \/ stage = "create" => Flagged(stored.parts)
    /\ UpIsCurrent

(* No revision has the name of none.                                       *)
LEMMA NowhereIsNoRevision == Nowhere \notin Revisions /\ Latest # Nowhere /\ Latest \in Revisions /\ Legacy \in Revisions
BY DEF Nowhere, Revisions, Script, Latest, Legacy

(* While a revision runs, the latest is not reached.                       *)
LEMMA RunningIsNotLatest ==
    ASSUME MigrationsInv, revision # Nowhere
    PROVE  Latest \notin draft.heads
BY NextRevision DEF MigrationsInv, Sound

(* It holds of a clean database, and of the legacy one.                    *)
LEMMA MigrationsInvInit == MigrationsInit => MigrationsInv
<1> SUFFICES ASSUME MigrationsInit PROVE MigrationsInv
  OBVIOUS
<1> USE DEF MigrationsInit
<1>1. HeadsAt({}, 0) /\ HeadsAt({Legacy}, 0)
  BY ChainOfRevisions, NowhereIsNoRevision DEF HeadsAt
<1>2. Applied({}) \subseteq {Legacy} /\ Applied({Legacy}) \subseteq {Legacy}
  <2>1. \A i \in 1..9 : Chain[i] \notin Applied({}) /\ Chain[i] \notin Applied({Legacy})
    BY <1>1, AppliedUpToTheHead
  <2> QED
    BY <1>1, <2>1, AppliedUpToTheHead, ChainOfRevisions
<1>3. Latest # Legacy
  BY DEF Latest, Legacy
<1>4. Sound(stored) /\ Sound(draft)
  <2>1. stored = [parts |-> stored.parts, heads |-> stored.heads]
    OBVIOUS
  <2>2. stored.heads = {} \/ stored.heads = {Legacy}
    OBVIOUS
  <2>3. (\E k : HeadsAt(stored.heads, k)) /\ Latest \notin stored.heads /\ Applied(stored.heads) \subseteq {Legacy}
    BY <1>1, <1>2, <1>3, <2>2
  <2>4. Sound(stored)
    BY <2>1, <2>3, ScriptsAreOrdered DEF Sound
  <2> QED
    BY <2>4
<1>5. Ordered(<<>>)
  <2>1. DOMAIN <<>> = {} /\ <<>> \in Seq({})
    OBVIOUS
  <2> QED
    BY <2>1 DEF Ordered
<1>6. Indexed(stored.parts)
  BY DEF Indexed, WithUnique
<1>7. \A t \in WithUnique : <<t, "table">> \in draft.parts => <<t, "unique">> \in draft.parts
  BY <1>6 DEF Indexed
<1>8. Flagged(stored.parts)
  BY DEF Flagged
<1> QED
  BY <1>4, <1>5, <1>6, <1>7, <1>8, NowhereIsNoRevision DEF MigrationsInv, UpIsCurrent

(* The empty list is in order.                                             *)
LEMMA NothingIsOrdered == Ordered(<<>>)
<1>1. DOMAIN <<>> = {} /\ <<>> \in Seq({})
  OBVIOUS
<1> QED
  BY <1>1 DEF Ordered

(* A statement that is run, or has nothing to do.                          *)
LEMMA StatementKeepsInv ==
    ASSUME MigrationsInv, NextStatement
    PROVE  MigrationsInv'
<1> USE NowhereIsNoRevision
<1> DEFINE st == Head(pending)
           made == IF Due(st) THEN {st.part} ELSE {}
<1>1. /\ revision # Nowhere /\ pending # <<>> /\ pending' = Tail(pending)
      /\ UNCHANGED <<deployment, stage, revision, found, upgraded, restarts>>
  BY DEF NextStatement
<1>2. /\ Latest \notin draft.heads /\ stage \in {"cli", "app"} /\ ~upgraded
      /\ draft = [parts |-> draft.parts, heads |-> draft.heads]
  BY <1>1, RunningIsNotLatest DEF MigrationsInv, Sound
<1>3. draft' = [parts |-> draft.parts \cup made, heads |-> draft.heads]
  <2>1. CASE Due(st)
    BY <1>2, <2>1 DEF NextStatement, Change
  <2>2. CASE ~Due(st)
    BY <1>2, <2>2 DEF NextStatement
  <2> QED
    BY <2>1, <2>2
<1>4. (Transactional => stored' = stored) /\ (~Transactional => stored' = draft')
  <2>1. CASE Due(st)
    BY <2>1 DEF NextStatement, Change
  <2>2. CASE ~Due(st)
    BY <2>2 DEF NextStatement, MigrationsInv
  <2> QED
    BY <2>1, <2>2
<1>5. draft'.parts = draft.parts \cup made /\ draft'.heads = draft.heads
  BY <1>3
<1> HIDE DEF made
<1>6. Sound(draft)' /\ Sound(stored)'
  BY <1>1, <1>2, <1>3, <1>4, <1>5 DEF MigrationsInv, Sound, Transactional
<1>11. ASSUME NEW t, Makes(Script[revision], t) PROVE <<t, "table">> \in draft'.parts \/ Makes(pending', t)
  <2>1. CASE <<t, "table">> \in draft.parts
    BY <1>5, <2>1
  <2>2. CASE Makes(pending, t)
    <3>1. st.part = <<t, "table">> \/ Makes(Tail(pending), t)
      <4>1. Ordered(pending) /\ \E i \in DOMAIN pending : pending[i].part = <<t, "table">>
        BY <2>2 DEF Makes, MigrationsInv
      <4>2. \A q : (\E i \in DOMAIN pending : pending[i].part = q) =>
               st.part = q \/ \E i \in DOMAIN Tail(pending) : Tail(pending)[i].part = q
        BY <1>1, <4>1, OneStatement
      <4> HIDE DEF st
      <4> QED
        BY <4>1, <4>2 DEF Makes
    <3>2. ASSUME st.part = <<t, "table">> PROVE <<t, "table">> \in draft'.parts
      <4>1. st.branch
        BY <1>1, <3>2, OneStatement DEF MigrationsInv
      <4>2. st.part[1] = t
        BY <3>2
      <4>3. <<t, "table">> \in found \/ Due(st)
        BY <4>1, <4>2 DEF Due
      <4>4. found \subseteq draft.parts
        BY <1>1 DEF MigrationsInv
      <4> QED
        BY <1>5, <3>2, <4>3, <4>4 DEF made
    <3> QED
      BY <1>1, <3>1, <3>2
  <2> QED
    BY <1>1, <1>11, <2>1, <2>2 DEF MigrationsInv
<1>12. found \subseteq draft'.parts
  BY <1>1, <1>5 DEF MigrationsInv
<1>7. Ordered(pending')
  BY <1>1, OneStatement DEF MigrationsInv
<1>8. ASSUME NEW t \in WithUnique, restarts = 0, <<t, "table">> \in draft'.parts
      PROVE  <<t, "unique">> \in draft'.parts \/ Coming(t)'
  <2>1. ASSUME <<t, "table">> \notin found, \E i \in DOMAIN Tail(pending) : Tail(pending)[i].part = <<t, "unique">>
        PROVE  Coming(t)'
    BY <1>1, <2>1 DEF Coming
  <2>2. CASE <<t, "unique">> \in draft.parts
    BY <1>5, <2>2
  <2>3. CASE <<t, "table">> \in draft.parts /\ <<t, "unique">> \notin draft.parts
    <3>1. Coming(t)
      BY <1>8, <2>3 DEF MigrationsInv
    <3>2. st.part = <<t, "unique">> \/ \E i \in DOMAIN Tail(pending) : Tail(pending)[i].part = <<t, "unique">>
      <4>1. Ordered(pending) /\ \E i \in DOMAIN pending : pending[i].part = <<t, "unique">>
        BY <3>1 DEF Coming, MigrationsInv
      <4>2. \A q : (\E i \in DOMAIN pending : pending[i].part = q) =>
               st.part = q \/ \E i \in DOMAIN Tail(pending) : Tail(pending)[i].part = q
        BY <1>1, <4>1, OneStatement
      <4> HIDE DEF st
      <4> QED
        BY <4>1, <4>2
    <3>3. CASE st.part = <<t, "unique">>
      <4>1. st.part[1] = t
        BY <3>3
      <4>2. Due(st)
        BY <2>3, <3>1, <3>3, <4>1 DEF Due, Coming
      <4> QED
        BY <1>5, <3>3, <4>2 DEF made
    <3> QED
      BY <2>1, <3>1, <3>2, <3>3 DEF Coming
  <2>4. CASE <<t, "table">> \notin draft.parts
    <3>1. st.part = <<t, "table">> /\ Due(st)
      BY <1>5, <1>8, <2>4 DEF made
    <3>2. st.branch /\ \E i \in DOMAIN Tail(pending) : Tail(pending)[i].part = <<t, "unique">>
      BY <1>1, <3>1, OneStatement DEF MigrationsInv
    <3>3. st.part[1] = t
      BY <3>1
    <3>4. <<t, "table">> \notin found
      BY <3>1, <3>2, <3>3 DEF Due
    <3> QED
      BY <2>1, <3>2, <3>4
  <2> QED
    BY <2>2, <2>3, <2>4
<1>9. restarts = 0 /\ Transactional => Indexed(stored'.parts)
  BY <1>4 DEF MigrationsInv
<1>10. ASSUME revision = Latest PROVE pending' = <<>> /\ Flagged(draft'.parts)
  <2>1. pending = FlagsOfStreams
    BY <1>1, <1>10 DEF MigrationsInv
  <2> DEFINE flag == [part |-> Flag, branch |-> FALSE]
  <2>2. pending = <<flag>>
    BY <2>1 DEF FlagsOfStreams, Ensure, Flag
  <2>3. flag.part = Flag /\ flag.part[1] = "feature_flags"
    BY DEF Flag
  <2>4. ~flag.branch
    BY Zenon
  <2> HIDE DEF flag
  <2>5. st = flag /\ Tail(pending) = <<>>
    BY <2>2
  <2>6. Due(flag) <=> <<"feature_flags", "table">> \in draft.parts /\ Flag \notin draft.parts
    BY <2>3, <2>4 DEF Due
  <2>7. Flag # <<"feature_flags", "table">>
    BY DEF Flag
  <2> QED
    BY <1>1, <1>5, <2>3, <2>5, <2>6, <2>7 DEF Flagged, made
<1> QED
  BY <1>1, <1>2, <1>4, <1>5, <1>6, <1>7, <1>8, <1>9, <1>10, <1>11, <1>12 DEF MigrationsInv, Transactional, UpIsCurrent

(* A revision is written down, over those before it.                       *)
LEMMA VersionKeepsInv ==
    ASSUME MigrationsInv, WriteVersion
    PROVE  MigrationsInv'
<1> USE NowhereIsNoRevision
<1> DEFINE heads == (draft.heads \ Revises[revision]) \cup {revision}
<1>1. /\ revision \in Revisions /\ revision # Nowhere /\ pending = <<>> /\ revision' = Nowhere
      /\ UNCHANGED <<deployment, stage, pending, found, upgraded, restarts>>
  BY DEF WriteVersion, MigrationsInv
<1>2. /\ stage \in {"cli", "app"} /\ ~upgraded
      /\ draft = [parts |-> draft.parts, heads |-> draft.heads]
  BY <1>1 DEF MigrationsInv, Sound
<1>3. draft' = [parts |-> draft.parts, heads |-> heads]
  BY <1>2 DEF WriteVersion, Change
<1>4. (Transactional => stored' = stored) /\ (~Transactional => stored' = draft')
  BY DEF WriteVersion, Change
<1>5. draft'.parts = draft.parts /\ draft'.heads = heads
  BY <1>3
<1>6. PICK k : HeadsAt(draft.heads, k)
  BY DEF MigrationsInv, Sound
<1>7. /\ Latest \notin draft.heads
      /\ HeadsAt(heads, IF revision = Legacy THEN k ELSE k + 1)
      /\ Applied(heads) \subseteq Applied(draft.heads) \cup {revision}
  BY <1>1, <1>6, NextRevision DEF MigrationsInv
<1> HIDE DEF heads
<1>8. \A r \in Applied(heads) : \A t : Makes(Script[r], t) => <<t, "table">> \in draft.parts
  <2>1. DOMAIN pending = {}
    BY <1>1
  <2>2. \A t : ~Makes(pending, t)
    BY <2>1 DEF Makes
  <2>3. \A t : Makes(Script[revision], t) => <<t, "table">> \in draft.parts
    BY <1>1, <2>2 DEF MigrationsInv
  <2>4. \A r \in Applied(draft.heads) : \A t : Makes(Script[r], t) => <<t, "table">> \in draft.parts
    BY DEF MigrationsInv, Sound
  <2> QED
    BY <1>7, <2>3, <2>4
<1>9. Latest \in heads => Flagged(draft.parts)
  <2>1. Latest \in heads => revision = Latest
    BY <1>7 DEF heads
  <2>2. FlagsOfStreams # <<>>
    <3>1. FlagsOfStreams = <<[part |-> Flag, branch |-> FALSE]>>
      BY DEF FlagsOfStreams, Ensure, Flag
    <3>2. Len(FlagsOfStreams) = 1 /\ Len(<<>>) = 0
      BY <3>1
    <3> QED
      BY <3>2
  <2> QED
    BY <1>1, <2>1, <2>2 DEF MigrationsInv
<1>10. Sound(draft)' /\ Sound(stored)'
  BY <1>1, <1>3, <1>4, <1>5, <1>7, <1>8, <1>9 DEF MigrationsInv, Sound, Transactional
<1>11. restarts = 0 => Indexed(draft.parts)
  <2>1. DOMAIN pending = {}
    BY <1>1
  <2> QED
    BY <2>1 DEF MigrationsInv, Coming, Indexed
<1>12. restarts = 0 => Indexed(stored'.parts)
  BY <1>4, <1>5, <1>11 DEF MigrationsInv
<1>13. \A t \in WithUnique : restarts = 0 /\ <<t, "table">> \in draft'.parts => <<t, "unique">> \in draft'.parts
  BY <1>5, <1>11 DEF Indexed
<1>14. ~(deployment = "container" /\ stage = "app")
  BY <1>7 DEF MigrationsInv
<1> QED
  BY <1>1, <1>2, <1>4, <1>10, <1>12, <1>13, <1>14 DEF MigrationsInv, Transactional, UpIsCurrent

(* Whatever tables are made or not, an upgrade that went through has made  *)
(* its own; and where nothing failed, they are all there with what the     *)
(* models give them.                                                       *)
LEMMA ComeUpKeepsInv ==
    ASSUME MigrationsInv, NEW made, ComeUp(made), restarts' \in Nat,
           restarts' = 0 => restarts = 0 /\ made = Missing \cup {<<"creators", "row">>}
    PROVE  MigrationsInv'
<1> USE NowhereIsNoRevision
<1> DEFINE parts == stored.parts \cup made
<1>1. /\ stage = "create" /\ stage' = "up" /\ draft' = stored'
      /\ UNCHANGED <<deployment, revision, pending, found, upgraded>>
      /\ revision = Nowhere
      /\ stored = [parts |-> stored.parts, heads |-> stored.heads]
  BY DEF ComeUp, MigrationsInv, Sound
<1>2. stored' = [parts |-> parts, heads |-> stored.heads]
  BY <1>1 DEF ComeUp
<1>3. stored'.parts = parts /\ stored'.heads = stored.heads
  BY <1>2
<1>4. stored.parts \subseteq parts
  OBVIOUS
<1>5. restarts' = 0 => \A p \in ModelParts : <<p[1], "table">> \notin stored.parts => p \in parts
  BY DEF Missing
<1>6. restarts' = 0 => <<"creators", "row">> \in parts
  OBVIOUS
<1> HIDE DEF parts
<1>7. ASSUME Latest \in stored.heads
      PROVE  stored.heads = {Latest} /\ \A t \in ModelTables : <<t, "table">> \in stored.parts
  <2>1. PICK k : HeadsAt(stored.heads, k)
    BY DEF MigrationsInv, Sound
  <2>2. k = 9
    BY <1>7, <2>1, ChainOfRevisions DEF HeadsAt
  <2>3. stored.heads = {Latest}
    BY <1>7, <2>1, <2>2, ChainOfRevisions DEF HeadsAt
  <2>4. Revisions \subseteq Applied(stored.heads)
    BY <2>1, <2>2, AppliedUpToTheHead, ChainOfRevisions
  <2> QED
    BY <2>3, <2>4, TablesOfTheModels DEF MigrationsInv, Sound
<1>8. Flag \in ModelParts /\ Flag[1] = "feature_flags"
  BY DEF ModelParts, Flag
<1>9. Latest \in stored.heads \/ restarts' = 0 => Flagged(parts)
  <2>1. ASSUME Latest \in stored.heads PROVE Flag \in parts
    <3>1. "feature_flags" \in ModelTables
      <4>1. 1 \in DOMAIN FlagsOfStreams /\ FlagsOfStreams[1].part[1] = "feature_flags"
        BY DEF FlagsOfStreams, Ensure
      <4> QED
        BY <4>1, ScriptsAreOrdered DEF ModelTables
    <3> QED
      BY <1>4, <1>7, <2>1, <3>1 DEF MigrationsInv, Sound, Flagged
  <2>2. ASSUME restarts' = 0 PROVE Flag \in parts
    BY <1>1, <1>4, <1>5, <1>8, <2>2 DEF MigrationsInv, Flagged
  <2> QED
    BY <2>1, <2>2 DEF Flagged
<1>10. ASSUME NEW p \in ModelParts
       PROVE  \/ \E t \in ModelTables : p = <<t, "table">>
              \/ \E t \in WithUnique : p = <<t, "unique">>
              \/ p = Flag
  BY DEF ModelParts, WithUnique, Flag
<1>11. ASSUME restarts' = 0 PROVE ModelParts \subseteq parts
  <2>1. ASSUME NEW t \in ModelTables PROVE <<t, "table">> \in parts
    <3>1. <<t, "table">> \in ModelParts /\ <<t, "table">>[1] = t
      BY DEF ModelParts
    <3> QED
      BY <1>4, <1>5, <1>11, <3>1
  <2>2. ASSUME NEW t \in WithUnique PROVE <<t, "unique">> \in parts
    <3>1. <<t, "unique">> \in ModelParts /\ <<t, "unique">>[1] = t
      BY DEF ModelParts, WithUnique
    <3>2. CASE <<t, "table">> \in stored.parts
      BY <1>1, <1>4, <1>11, <3>2 DEF MigrationsInv, Indexed
    <3>3. CASE <<t, "table">> \notin stored.parts
      BY <1>5, <1>11, <3>1, <3>3
    <3> QED
      BY <3>2, <3>3
  <2>3. Flag \in parts
    BY <1>1, <1>4, <1>5, <1>8, <1>11 DEF MigrationsInv, Flagged
  <2> QED
    BY <1>10, <2>1, <2>2, <2>3
<1>12. ASSUME upgraded PROVE stored.heads = {Latest} /\ \A p \in ModelParts : p[2] # "unique" => p \in parts
  <2>1. Latest \in stored.heads
    BY <1>12 DEF MigrationsInv
  <2>2. ASSUME NEW p \in ModelParts, p[2] # "unique" PROVE p \in parts
    <3>1. CASE \E t \in ModelTables : p = <<t, "table">>
      BY <1>4, <1>7, <2>1, <3>1
    <3>2. ~\E t \in WithUnique : p = <<t, "unique">>
      BY <2>2
    <3>3. CASE p = Flag
      <4>1. <<"feature_flags", "table">> \in stored.parts
        <5>1. 1 \in DOMAIN FlagsOfStreams /\ FlagsOfStreams[1].part[1] = "feature_flags"
          BY DEF FlagsOfStreams, Ensure
        <5>2. "feature_flags" \in ModelTables
          BY <5>1, ScriptsAreOrdered DEF ModelTables
        <5> QED
          BY <1>7, <2>1, <5>2
      <4> QED
        BY <1>4, <1>9, <2>1, <3>3, <4>1 DEF Flagged
    <3> QED
      BY <1>10, <3>1, <3>2, <3>3
  <2> QED
    BY <1>7, <2>1, <2>2
<1>13. UpIsCurrent'
  BY <1>1, <1>3, <1>6, <1>11, <1>12 DEF UpIsCurrent
<1>14. Sound(draft)' /\ Sound(stored)'
  BY <1>1, <1>2, <1>3, <1>4, <1>9 DEF MigrationsInv, Sound
<1>15. restarts' = 0 => Indexed(parts)
  BY <1>11 DEF Indexed, ModelParts, WithUnique
<1> QED
  BY <1>1, <1>3, <1>9, <1>13, <1>14, <1>15 DEF MigrationsInv, Indexed, Transactional

(* Below the application the container ends; a developer's goes on.        *)
LEMMA GiveUpUpgradeEnds ==
    ASSUME MigrationsInv, GiveUpUpgrade, stage \in {"cli", "app"}
    PROVE  /\ stage' \in {"exited", "create", "up"}
           /\ stage' = "up" => deployment = "container" /\ stage = "app"
BY DEF GiveUpUpgrade, MigrationsInv

(* Every step of a start keeps it, and every crash.                        *)
LEMMA MigrationsInvStep ==
    ASSUME MigrationsInv, [MigrationsNext]_migrationVars
    PROVE  MigrationsInv'
<1> USE MigrationsAssumption, NowhereIsNoRevision
<1>1. CASE StartProcess
  <2> USE <1>1 DEF StartProcess, MigrationsInv
  <2>1. revision = Nowhere
    OBVIOUS
  <2>2. Sound(stored)' /\ Sound(draft)'
    BY DEF Sound
  <2>3. UpIsCurrent'
    BY DEF UpIsCurrent
  <2>4. restarts' = 0 =>
           /\ \A t \in WithUnique : <<t, "table">> \in draft'.parts => <<t, "unique">> \in draft'.parts
           /\ Indexed(stored.parts)
    BY <2>1 DEF Indexed
  <2> QED
    BY <2>1, <2>2, <2>3, <2>4 DEF Transactional
<1>2. CASE NextStatement
  BY <1>2, StatementKeepsInv
<1>3. CASE WriteVersion
  BY <1>3, VersionKeepsInv
<1>4. CASE FinishUpgrade
  <2> USE <1>4 DEF FinishUpgrade
  <2>1. revision = Nowhere /\ Latest \in draft.heads
    OBVIOUS
  <2>2. Sound(draft)' /\ Sound(stored)' /\ Flagged(draft.parts)
    BY DEF MigrationsInv, Sound
  <2>3. restarts = 0 => Indexed(draft.parts)
    BY DEF MigrationsInv, Coming, Indexed
  <2>4. restarts = 0 => \A t \in WithUnique : <<t, "table">> \in draft.parts => <<t, "unique">> \in draft.parts
    BY <2>3 DEF Indexed
  <2> QED
    BY <2>1, <2>2, <2>3, <2>4 DEF MigrationsInv, UpIsCurrent
<1>5. CASE VersionRefused
  <2> USE <1>5 DEF VersionRefused, GiveUpUpgrade
  <2>1. Transactional /\ revision # Nowhere /\ stage \in {"cli", "app"}
    BY DEF VersionFits, MigrationsInv
  <2>2. Sound(draft)' /\ Sound(stored)'
    BY DEF MigrationsInv, Sound
  <2>3. restarts = 0 => Indexed(stored.parts) /\ Flagged(stored.parts)
    BY <2>1 DEF MigrationsInv
  <2>4. restarts = 0 => \A t \in WithUnique : <<t, "table">> \in stored.parts => <<t, "unique">> \in stored.parts
    BY <2>3 DEF Indexed
  <2>5. ~(deployment = "container" /\ stage = "app")
    BY <2>1, RunningIsNotLatest DEF MigrationsInv
  <2>6. stage' \in {"exited", "create"}
    BY <1>5, <2>1, <2>5, GiveUpUpgradeEnds
  <2> QED
    BY <2>1, <2>2, <2>3, <2>4, <2>6, NothingIsOrdered DEF MigrationsInv, UpIsCurrent
<1>6. CASE UpgradeFails
  <2> USE <1>6 DEF UpgradeFails, GiveUpUpgrade
  <2>1. Sound(draft)' /\ Sound(stored)'
    BY DEF MigrationsInv, Sound
  <2>2. stage' \in {"exited", "create", "up"}
    BY <1>6, GiveUpUpgradeEnds
  <2>3. restarts' # 0 /\ restarts' \in Nat /\ ~upgraded
    BY DEF MigrationsInv
  <2> QED
    BY <2>1, <2>2, <2>3, NothingIsOrdered DEF MigrationsInv, UpIsCurrent
<1>7. CASE CreateMissing
  BY <1>7, ComeUpKeepsInv DEF CreateMissing, MigrationsInv
<1>8. CASE CreateFails
  <2>1. PICK made : ComeUp(made)
    BY <1>8 DEF CreateFails
  <2>2. restarts' \in Nat /\ restarts' # 0
    BY <1>8 DEF CreateFails, MigrationsInv
  <2> QED
    BY <2>1, <2>2, ComeUpKeepsInv
<1>9. CASE Reboot
  <2> USE <1>9 DEF Reboot
  <2>1. Sound(draft)' /\ Sound(stored)'
    BY DEF MigrationsInv, Sound
  <2> QED
    BY <2>1, NothingIsOrdered DEF MigrationsInv, UpIsCurrent
<1>10. ASSUME NEW r \in Revisions, BeginRevision(r) PROVE MigrationsInv'
  <2> USE <1>10 DEF BeginRevision
  <2>1. Sound(draft)' /\ Sound(stored)'
    BY DEF MigrationsInv, Sound
  <2>2. Ordered(pending') /\ (r = Latest => pending' = FlagsOfStreams)
    BY ScriptsAreOrdered
  <2>3. restarts = 0 => \A t \in WithUnique : <<t, "table">> \in draft.parts => <<t, "unique">> \in draft.parts
    BY DEF MigrationsInv, Coming
  <2>4. found' \subseteq draft'.parts /\ \A t : Makes(Script[r], t) => Makes(pending', t)
    OBVIOUS
  <2> QED
    BY <2>1, <2>2, <2>3, <2>4 DEF MigrationsInv, UpIsCurrent, Transactional
<1>11. CASE UNCHANGED migrationVars
  <2> USE <1>11 DEF migrationVars
  <2>1. Sound(draft)' /\ Sound(stored)'
    BY DEF MigrationsInv, Sound
  <2>2. UpIsCurrent'
    BY DEF MigrationsInv, UpIsCurrent
  <2>3. \A t : Coming(t)' <=> Coming(t)
    BY DEF Coming
  <2> QED
    BY ZenonT(60), <2>1, <2>2, <2>3 DEF MigrationsInv, Transactional
<1> QED
  BY <1>1, <1>2, <1>3, <1>4, <1>5, <1>6, <1>7, <1>8, <1>9, <1>10, <1>11 DEF MigrationsNext

(* An application that is up after its own upgrade finds the schema of its *)
(* models at the latest revision, whatever crashed or failed before, the   *)
(* creation of missing tables included; where nothing failed it finds all  *)
(* of it, and a creator.  For any width of the version column.             *)
THEOREM ComesUpWithItsSchema == MigrationsSpec => []UpIsCurrent
<1>1. MigrationsInit => MigrationsInv
  BY MigrationsInvInit
<1>2. MigrationsInv /\ [MigrationsNext]_migrationVars => MigrationsInv'
  BY MigrationsInvStep
<1>3. MigrationsInv => UpIsCurrent
  BY DEF MigrationsInv
<1> QED
  BY <1>1, <1>2, <1>3, PTL DEF MigrationsSpec
=============================================================================
