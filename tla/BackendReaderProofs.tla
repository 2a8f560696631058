------------------------ MODULE BackendReaderProofs ------------------------
(***************************************************************************)
(* Proofs about the backend metrics reader (BackendReader.tla), for any    *)
(* members, backends, zones and bounds that ReaderAssumption allows: the   *)
(* latest pair of a series never regresses, and every reachable state is  *)
(* well typed.                                                             *)
(***************************************************************************)
EXTENDS BackendReader, FiniteSetTheorems, TLAPS

USE ReaderAssumption

(***************************************************************************)
(* Last(s) is a CHOOSE: it is the largest timestamp only if one exists.   *)
(* It does for a non-empty set of times, since the naturals are well      *)
(* ordered: the least distance to MaxTime belongs to the largest time.    *)
(***************************************************************************)
LEMMA LastIsMax ==
    ASSUME NEW S \in SUBSET Times, S # {}
    PROVE  Last(S) \in S /\ \A u \in S : u <= Last(S)
<1>1. \E t \in S : \A u \in S : u <= t
    <2> DEFINE T == {MaxTime - t : t \in S}
    <2>1. T \subseteq Nat /\ T # {}
        <3>1. \A t \in S : MaxTime - t \in Nat
            BY DEF Times
        <3>2. QED
            BY <3>1
    <2>2. PICK x \in T : \A y \in T : ~(<<y, x>> \in OpToRel(<, Nat))
        BY <2>1, WFMin, NatLessThanWellFounded
    <2>3. PICK t \in S : x = MaxTime - t
        BY <2>2
    <2>4. ASSUME NEW u \in S PROVE u <= t
        <3>1. MaxTime - u \in T /\ MaxTime - u \in Nat /\ x \in Nat
            BY <2>1 DEF Times
        <3>2. ~(MaxTime - u < x)
            BY <2>2, <3>1 DEF OpToRel
        <3>3. QED
            BY <2>3, <3>2 DEF Times
    <2>5. QED
        BY <2>4
<1>2. QED
    BY <1>1 DEF Last

\* A member of a series is a natural number.
LEMMA TimesNat ==
    ASSUME NEW S \in SUBSET Times, NEW t \in S
    PROVE  t \in Nat /\ t <= MaxTime
BY DEF Times

\* A larger series has a latest pair no earlier.
LEMMA LastMono ==
    ASSUME NEW S \in SUBSET Times, NEW U \in SUBSET Times, S # {}, S \subseteq U
    PROVE  Last(U) >= Last(S)
BY LastIsMax DEF Times

\* Purging drops the oldest pairs: what is left keeps the latest one.
LEMMA LastPurge ==
    ASSUME NEW S \in SUBSET Times, now \in Times, PurgeSeries(S) # {}
    PROVE  Last(PurgeSeries(S)) = Last(S)
<1>1. PurgeSeries(S) \in SUBSET Times /\ S # {}
    BY DEF PurgeSeries
<1>2. Last(PurgeSeries(S)) \in S /\ Last(PurgeSeries(S)) + Retention > now
    BY <1>1, LastIsMax DEF PurgeSeries
<1>3. Last(S) \in PurgeSeries(S)
    <2>1. Last(S) \in S /\ Last(PurgeSeries(S)) <= Last(S)
        BY <1>1, <1>2, LastIsMax
    <2>2. Last(S) + Retention > now
        <3>1. Last(S) \in Nat /\ Last(PurgeSeries(S)) \in Nat
            BY <1>2, <2>1, TimesNat
        <3>2. QED
            BY <1>2, <2>1, <3>1 DEF Times
    <2>3. QED
        BY <2>1, <2>2 DEF PurgeSeries
<1>4. Last(S) <= Last(PurgeSeries(S)) /\ Last(PurgeSeries(S)) <= Last(S)
    <2>1. \A u \in PurgeSeries(S) : u <= Last(PurgeSeries(S))
        BY <1>1, LastIsMax
    <2>2. \A u \in S : u <= Last(S)
        BY <1>1, LastIsMax
    <2>3. QED
        BY <1>2, <1>3, <2>1, <2>2
<1>5. Last(S) \in Nat /\ Last(PurgeSeries(S)) \in Nat
    BY <1>1, <1>2, LastIsMax, TimesNat
<1>6. QED
    BY <1>4, <1>5


-----------------------------------------------------------------------------
(* The part of TypeOK the histories rest on: the clock, the series a      *)
(* member keeps and serves, and the time of its last valid sample.         *)

HistTyped ==
    /\ now \in Times
    /\ h1 \in [Members -> [Backends -> Series]]
    /\ h2 \in [Members -> [Backends -> Series]]
    /\ marshalled \in [Members -> [s1 : [Backends -> Series],
                                   s2 : [Backends -> Series]]]
    /\ lastV1 \in [Members -> [Backends -> Times \cup {None}]]

LEMMA InitHistTyped == Init => HistTyped
BY DEF Init, HistTyped, EmptyHistory, Series, Times

\* What EndRound leaves in the histories of m is typed.
LEMMA EndRoundTyped ==
    ASSUME HistTyped, NEW m \in Members, EndRound(m)
    PROVE  /\ h1' \in [Members -> [Backends -> Series]]
           /\ h2' \in [Members -> [Backends -> Series]]
           /\ lastV1' \in [Members -> [Backends -> Times \cup {None}]]
BY DEF EndRound, PurgedHistory, PurgeSeries, PurgedV1, HistTyped, Series

LEMMA HistTypedStep ==
    ASSUME HistTyped, [Next]_vars
    PROVE  HistTyped'
<1>1. CASE Tick
    BY <1>1 DEF Tick, HistTyped, Times
<1>2. ASSUME NEW m \in Members, NEW o \in Members, PullFrom(m, o)
      PROVE  HistTyped'
    <2> DEFINE new == marshalled[o]
               s1 == [b \in Backends |-> MergeSeries(h1[m][b], new.s1[b])]
               s2 == [b \in Backends |-> MergeSeries(h2[m][b], new.s2[b])]
    <2>1. s1 \in [Backends -> Series] /\ s2 \in [Backends -> Series]
        BY DEF MergeSeries, HistTyped
    <2>2. \/ UNCHANGED <<h1, h2>>
          \/ h1' = [h1 EXCEPT ![m] = s1] /\ h2' = [h2 EXCEPT ![m] = s2]
        BY <1>2 DEF PullFrom
    <2>3. h1' \in [Members -> [Backends -> Series]]
          /\ h2' \in [Members -> [Backends -> Series]]
        <3>1. CASE UNCHANGED <<h1, h2>>
            BY <3>1 DEF HistTyped
        <3>2. CASE h1' = [h1 EXCEPT ![m] = s1] /\ h2' = [h2 EXCEPT ![m] = s2]
            BY <2>1, <3>2 DEF HistTyped
        <3>3. QED
            BY <2>2, <3>1, <3>2
    <2>4. QED
        BY <1>2, <2>3 DEF PullFrom, HistTyped
<1>3. ASSUME NEW m \in Members, OwnerCheck(m) PROVE HistTyped'
    BY <1>3, EndRoundTyped DEF OwnerCheck, HistTyped
<1>4. ASSUME NEW m \in Members, NEW b \in Backends, Scrape(m, b)
      PROVE  HistTyped'
    <2>1. CASE Metric2History(m, b) /\ lastV1' = [lastV1 EXCEPT ![m][b] = now]
        <3>1. h1[m][b] \cup {now} \in Series /\ h2[m][b] \cup {now} \in Series
            BY DEF HistTyped, Series
        <3>2. h1' \in [Members -> [Backends -> Series]]
              /\ h2' \in [Members -> [Backends -> Series]]
            <4>1. CASE Range2Defined(h1[m][b] \cup {now})
                <5>1. h1' = [h1 EXCEPT ![m][b] = h1[m][b] \cup {now}]
                      /\ h2' = [h2 EXCEPT ![m][b] = h2[m][b] \cup {now}]
                    BY <2>1, <4>1 DEF Metric2History
                <5>2. QED
                    BY <3>1, <5>1 DEF HistTyped
            <4>2. CASE ~Range2Defined(h1[m][b] \cup {now})
                BY <2>1, <4>2 DEF Metric2History, HistTyped
            <4>3. QED
                BY <4>1, <4>2
        <3>3. lastV1' \in [Members -> [Backends -> Times \cup {None}]]
            BY <2>1 DEF HistTyped
        <3>4. QED
            BY <1>4, <3>2, <3>3 DEF Scrape, HistTyped
    <2>2. CASE UNCHANGED <<h1, h2, lastV1>>
        BY <1>4, <2>2 DEF Scrape, HistTyped
    <2>3. QED
        BY <1>4, <2>1, <2>2 DEF Scrape
<1>5. ASSUME NEW m \in Members, ScrapeDone(m) PROVE HistTyped'
    <2>1. marshalled' \in [Members -> [s1 : [Backends -> Series],
                                      s2 : [Backends -> Series]]]
        BY <1>5 DEF ScrapeDone, HistTyped, Series
    <2>2. QED
        BY <1>5, <2>1, EndRoundTyped DEF ScrapeDone, HistTyped
<1>6. ASSUME NEW m \in Members,
             \/ SetLocation(m) \/ AddQueryRule(m) \/ RemoveQueryRule(m)
             \/ Campaign(m) \/ LeaseLoss(m) \/ Callback(m) \/ RoundBegin(m)
      PROVE  HistTyped'
    BY <1>6 DEF SetLocation, AddQueryRule, RemoveQueryRule, Campaign,
                LeaseLoss, Callback, RoundBegin, HistTyped
<1>7. CASE UNCHANGED vars
    BY <1>7 DEF vars, HistTyped
<1>8. QED
    BY <1>1, <1>2, <1>3, <1>4, <1>5, <1>6, <1>7 DEF Next, ReadMetrics


-----------------------------------------------------------------------------
(* LatestNeverRegresses.  A step leaves a series alone, adds the current  *)
(* time to it (metric2History), empties it (a removed rule), purges it or *)
(* merges an owner's series into it (mergeHistory); none of these moves   *)
(* its latest pair back.                                                    *)

SeriesForms(s, s2) ==
    \/ s2 = s
    \/ s2 = s \cup {now}
    \/ s2 = {}
    \/ s2 = PurgeSeries(s)
    \/ \E n \in Series : s2 = MergeSeries(s, n)

NotEarlier(s, s2) == s # {} /\ s2 # {} => Last(s2) >= Last(s)

LEMMA FormsNotEarlier ==
    ASSUME now \in Times, NEW s \in Series, NEW s2 \in Series, SeriesForms(s, s2)
    PROVE  NotEarlier(s, s2)
<1> SUFFICES ASSUME s # {}, s2 # {} PROVE Last(s2) >= Last(s)
    BY DEF NotEarlier
<1>1. Last(s) \in Nat /\ Last(s2) \in Nat
    BY LastIsMax, TimesNat DEF Series
<1>2. CASE s2 = s
    BY <1>1, <1>2
<1>3. CASE s2 = s \cup {now}
    BY <1>3, LastMono DEF Series
<1>4. CASE s2 = PurgeSeries(s)
    BY <1>1, <1>4, LastPurge DEF Series
<1>5. ASSUME NEW n \in Series, s2 = MergeSeries(s, n) PROVE Last(s2) >= Last(s)
    <2>1. CASE n # {} /\ Last(n) > Last(s)
        <3>1. Last(n) \in Nat
            BY <2>1, LastIsMax, TimesNat DEF Series
        <3>2. QED
            BY <1>1, <1>5, <2>1, <3>1 DEF MergeSeries
    <2>2. CASE ~(n # {} /\ Last(n) > Last(s))
        BY <1>1, <1>5, <2>2 DEF MergeSeries
    <2>3. QED
        BY <2>1, <2>2
<1>6. QED
    BY <1>2, <1>3, <1>4, <1>5 DEF SeriesForms

\* The shape of every step on one series of one member.
LEMMA HistForms ==
    ASSUME HistTyped, [Next]_vars, NEW m \in Members, NEW b \in Backends
    PROVE  SeriesForms(h1[m][b], h1'[m][b]) /\ SeriesForms(h2[m][b], h2'[m][b])
<1> DEFINE Same == h1'[m][b] = h1[m][b] /\ h2'[m][b] = h2[m][b]
<1>1. ASSUME NEW p \in Members, NEW o \in Members, PullFrom(p, o)
      PROVE  SeriesForms(h1[m][b], h1'[m][b]) /\ SeriesForms(h2[m][b], h2'[m][b])
    <2>1. CASE UNCHANGED <<h1, h2>>
        BY <2>1 DEF SeriesForms
    <2>2. CASE /\ h1' = [h1 EXCEPT ![p] = [c \in Backends |->
                             MergeSeries(h1[p][c], marshalled[o].s1[c])]]
               /\ h2' = [h2 EXCEPT ![p] = [c \in Backends |->
                             MergeSeries(h2[p][c], marshalled[o].s2[c])]]
        <3>1. marshalled[o].s1[b] \in Series /\ marshalled[o].s2[b] \in Series
            BY DEF HistTyped
        <3>2. CASE p = m
            BY <2>2, <3>1, <3>2 DEF SeriesForms, HistTyped
        <3>3. CASE p # m
            BY <2>2, <3>3 DEF SeriesForms, HistTyped
        <3>4. QED
            BY <3>2, <3>3
    <2>3. QED
        BY <1>1, <2>1, <2>2 DEF PullFrom
<1>2. ASSUME NEW p \in Members, EndRound(p)
      PROVE  SeriesForms(h1[m][b], h1'[m][b]) /\ SeriesForms(h2[m][b], h2'[m][b])
    BY <1>2 DEF EndRound, PurgedHistory, SeriesForms, HistTyped
<1>3. ASSUME NEW p \in Members, OwnerCheck(p)
      PROVE  SeriesForms(h1[m][b], h1'[m][b]) /\ SeriesForms(h2[m][b], h2'[m][b])
    <2>1. EndRound(p) \/ UNCHANGED <<h1, h2>>
        BY <1>3 DEF OwnerCheck
    <2>2. QED
        BY <1>2, <2>1 DEF SeriesForms
<1>4. ASSUME NEW p \in Members, NEW c \in Backends, Scrape(p, c)
      PROVE  SeriesForms(h1[m][b], h1'[m][b]) /\ SeriesForms(h2[m][b], h2'[m][b])
    <2>1. CASE Range2Defined(h1[p][c] \cup {now}) /\ Metric2History(p, c)
        <3>1. h1' = [h1 EXCEPT ![p][c] = h1[p][c] \cup {now}]
              /\ h2' = [h2 EXCEPT ![p][c] = h2[p][c] \cup {now}]
            BY <2>1 DEF Metric2History
        <3>2. QED
            BY <3>1 DEF SeriesForms, HistTyped
    <2>2. CASE ~Range2Defined(h1[p][c] \cup {now}) /\ Metric2History(p, c)
        BY <2>2 DEF Metric2History, SeriesForms
    <2>3. CASE UNCHANGED <<h1, h2>>
        BY <2>3 DEF SeriesForms
    <2>4. QED
        BY <1>4, <2>1, <2>2, <2>3 DEF Scrape
<1>5. ASSUME NEW p \in Members, ScrapeDone(p)
      PROVE  SeriesForms(h1[m][b], h1'[m][b]) /\ SeriesForms(h2[m][b], h2'[m][b])
    BY <1>2, <1>5 DEF ScrapeDone
<1>6. CASE UNCHANGED <<h1, h2>>
    BY <1>6 DEF SeriesForms
<1>7. QED
    <2>1. \/ \E p \in Members, o \in Members : PullFrom(p, o)
          \/ \E p \in Members : OwnerCheck(p) \/ ScrapeDone(p)
          \/ \E p \in Members, c \in Backends : Scrape(p, c)
          \/ UNCHANGED <<h1, h2>>
        BY DEF Next, ReadMetrics, vars, Tick, SetLocation, AddQueryRule,
               RemoveQueryRule, Campaign, LeaseLoss, Callback, RoundBegin
    <2>2. QED
        BY <1>1, <1>3, <1>4, <1>5, <1>6, <2>1

\* The latest pair of a member's Step1 and Step2 series never moves back in
\* time, whatever the interleaving of scrapes, pulls from owners whose series
\* lag behind, purges and rule removals (metric2History, mergeHistory and
\* purgeHistory of backend_reader.go), for any bounds.
THEOREM HistoryNeverRegresses == Spec => LatestNeverRegresses
<1>1. Init => HistTyped
    BY InitHistTyped
<1>2. HistTyped /\ [Next]_vars => HistTyped'
    BY HistTypedStep
<1>3. HistTyped /\ [Next]_vars =>
        \A m \in Members, b \in Backends :
          /\ h1[m][b] # {} /\ h1'[m][b] # {} => Last(h1'[m][b]) >= Last(h1[m][b])
          /\ h2[m][b] # {} /\ h2'[m][b] # {} => Last(h2'[m][b]) >= Last(h2[m][b])
    <2> SUFFICES ASSUME HistTyped, [Next]_vars, NEW m \in Members, NEW b \in Backends
                 PROVE  NotEarlier(h1[m][b], h1'[m][b]) /\ NotEarlier(h2[m][b], h2'[m][b])
        BY DEF NotEarlier
    <2>1. HistTyped'
        BY HistTypedStep
    <2>2. h1[m][b] \in Series /\ h2[m][b] \in Series /\ h1'[m][b] \in Series
          /\ h2'[m][b] \in Series /\ now \in Times
        BY <2>1 DEF HistTyped
    <2>3. QED
        BY <2>2, HistForms, FormsNotEarlier
<1>4. QED
    BY <1>1, <1>2, <1>3, PTL DEF Spec, LatestNeverRegresses


-----------------------------------------------------------------------------
(* TypeOK as a whole.  It is inductive; what it needs beyond HistTyped is *)
(* that the election keys stay typed when etcd deletes one, that the      *)
(* owner of a zone with a key exists (the key of least index), and that a *)
(* merged query result is the time of the latest pair.                    *)

KeysTyped == keys \in Seq(Members \X ZoneKeys)

\* Deleting a member's key leaves a sequence of keys.
LEMMA DropKeyTyped ==
    ASSUME KeysTyped, NEW m
    PROVE  DropKey(m) \in Seq(Members \X ZoneKeys)
<1>1. CASE HasKey(m)
    <2>1. KeyIndex(m) \in DOMAIN keys /\ Len(keys) \in Nat /\ Len(keys) >= 1
        BY <1>1 DEF HasKey, KeyIndex, KeysTyped
    <2>2. \A i \in 1..(Len(keys) - 1) :
            (IF i < KeyIndex(m) THEN keys[i] ELSE keys[i + 1]) \in Members \X ZoneKeys
        BY <2>1 DEF KeysTyped
    <2>3. Len(keys) - 1 \in Nat
        BY <2>1
    <2>4. QED
        BY <1>1, <2>2, <2>3 DEF DropKey
<1>2. CASE ~HasKey(m)
    BY <1>2 DEF DropKey, KeysTyped
<1>3. QED
    BY <1>1, <1>2

\* A non-empty set of naturals has a least element.
LEMMA NatMin ==
    ASSUME NEW T \in SUBSET Nat, T # {}
    PROVE  \E x \in T : \A y \in T : x <= y
<1>0. T \subseteq Nat
    OBVIOUS
<1>1. IsWellFoundedOn(OpToRel(<, Nat), Nat)
    BY NatLessThanWellFounded
<1>2. PICK x \in T : \A y \in T : ~(<<y, x>> \in OpToRel(<, Nat))
    BY <1>0, <1>1, WFMin, Zenon
<1>3. \A y \in T : ~(y < x)
    BY <1>0, <1>2 DEF OpToRel
<1>4. QED
    BY <1>0, <1>3

\* The first key of a zone that has one exists, and names a member.
LEMMA OwnerIsMember ==
    ASSUME NEW ks \in Seq(Members \X ZoneKeys), NEW z \in OwnedKeys(ks)
    PROVE  OwnerOf(ks, z) \in Members
<1> DEFINE I == {k \in DOMAIN ks : ks[k][2] = z}
<1>1. I \subseteq Nat /\ I # {}
    BY DEF OwnedKeys
<1>2. PICK n \in I : \A j \in I : n <= j
    BY <1>1, NatMin
<1>3. \A j \in 1..(n - 1) : ks[j][2] # z
    BY <1>1, <1>2
<1>4. \E k \in DOMAIN ks : ks[k][2] = z /\ \A j \in 1..(k - 1) : ks[j][2] # z
    BY <1>2, <1>3
<1> DEFINE first == CHOOSE k \in DOMAIN ks :
                        /\ ks[k][2] = z
                        /\ \A j \in 1..(k - 1) : ks[j][2] # z
<1>5. first \in DOMAIN ks
    BY <1>4, Zenon
<1>6. ks[first] \in Members \X ZoneKeys
    BY <1>5
<1>7. OwnerOf(ks, z) = ks[first][1]
    BY DEF OwnerOf
<1>8. QED
    BY <1>6, <1>7

\* A merged query result is a time, or None when there is none.
LEMMA ResultTyped ==
    ASSUME NEW m \in Members, NEW b \in Backends, NEW s2 \in Series,
           results \in [Members -> [Backends -> Times \cup {None}]]
    PROVE  ResultOf(m, b, s2) \in Times \cup {None}
BY LastIsMax DEF ResultOf, Series

\* The conjuncts of TypeOK that HistTyped leaves out.
OtherTyped ==
    /\ zoneCfg \in [Members -> ZoneKeys] /\ lastZone \in [Members -> ZoneKeys]
    /\ KeysTyped
    /\ isOwner \in [Members -> BOOLEAN] /\ ruleOn \in [Members -> BOOLEAN]
    /\ results \in [Members -> [Backends -> Times \cup {None}]]
    /\ phase \in [Members -> {"idle", "pull", "scrape"}]
    /\ toPull \in [Members -> SUBSET Members]
    /\ zones \in [Members -> SUBSET Zones]
    /\ pending \in [Members -> SUBSET Backends]
    /\ addrs \in [Members -> SUBSET Backends]
    /\ faults \in 0..MaxFaults /\ ruleEdits \in 0..MaxRuleEdits

LEMMA TypeSplit == TypeOK <=> HistTyped /\ OtherTyped
BY DEF TypeOK, HistTyped, OtherTyped, KeysTyped

LEMMA InitOtherTyped == Init => OtherTyped
BY DEF Init, OtherTyped, KeysTyped, ZoneKeys, None

\* queryAllOwners after the re-election of RoundBegin: the owners to pull
\* are members and the zones with an owner are zones.
LEMMA OwnersTyped ==
    ASSUME NEW ks \in Seq(Members \X ZoneKeys), NEW m \in Members
    PROVE  /\ {OwnerOf(ks, z) : z \in OwnedKeys(ks)} \ {m} \in SUBSET Members
           /\ OwnedZones(ks) \in SUBSET Zones
<1>1. \A z \in OwnedKeys(ks) : OwnerOf(ks, z) \in Members
    BY OwnerIsMember
<1>2. OwnedKeys(ks) \subseteq ZoneKeys
    BY DEF OwnedKeys
<1>3. QED
    BY <1>1, <1>2 DEF OwnedZones, ZoneKeys

LEMMA OtherTypedStep ==
    ASSUME HistTyped, OtherTyped, [Next]_vars
    PROVE  OtherTyped'
<1>0. HistTyped'
    BY HistTypedStep
<1>1. CASE Tick
    BY <1>1 DEF Tick, OtherTyped, KeysTyped
<1>2. ASSUME NEW m \in Members,
             SetLocation(m) \/ AddQueryRule(m) \/ RemoveQueryRule(m) \/ Callback(m)
      PROVE  OtherTyped'
    <2>1. CASE SetLocation(m)
        BY <2>1 DEF SetLocation, OtherTyped, KeysTyped, ZoneKeys
    <2>2. CASE AddQueryRule(m)
        BY <2>2 DEF AddQueryRule, OtherTyped, KeysTyped
    <2>5. CASE RemoveQueryRule(m)
        BY <2>5 DEF RemoveQueryRule, OtherTyped, KeysTyped
    <2>3. CASE Callback(m)
        <3>1. IsOwnerInEtcd(m) \in BOOLEAN
            BY DEF IsOwnerInEtcd
        <3>2. QED
            BY <2>3, <3>1 DEF Callback, OtherTyped, KeysTyped
    <2>4. QED
        BY <1>2, <2>1, <2>2, <2>3, <2>5
<1>3. ASSUME NEW m \in Members, Campaign(m) PROVE OtherTyped'
    <2>1. <<m, lastZone[m]>> \in Members \X ZoneKeys
        BY DEF OtherTyped
    <2>2. keys' \in Seq(Members \X ZoneKeys)
        BY <1>3, <2>1 DEF Campaign, OtherTyped, KeysTyped
    <2>3. QED
        BY <1>3, <2>2 DEF Campaign, OtherTyped, KeysTyped
<1>4. ASSUME NEW m \in Members, LeaseLoss(m) PROVE OtherTyped'
    <2>1. keys' \in Seq(Members \X ZoneKeys)
        BY <1>4, DropKeyTyped DEF LeaseLoss, OtherTyped
    <2>2. QED
        BY <1>4, <2>1 DEF LeaseLoss, CanFault, Fault, OtherTyped, KeysTyped
<1>5. ASSUME NEW m \in Members, RoundBegin(m) PROVE OtherTyped'
    <2> DEFINE keys1 == IF zoneCfg[m] # lastZone[m] THEN DropKey(m) ELSE keys
    <2>1. keys1 \in Seq(Members \X ZoneKeys)
        <3>1. KeysTyped
            BY DEF OtherTyped
        <3>2. DropKey(m) \in Seq(Members \X ZoneKeys)
            BY <3>1, DropKeyTyped
        <3>3. QED
            BY <3>1, <3>2 DEF KeysTyped
    <2>2. keys' = keys1 /\ lastZone' = [lastZone EXCEPT ![m] = zoneCfg[m]]
          /\ isOwner' \in [Members -> BOOLEAN]
        BY <1>5 DEF RoundBegin, OtherTyped
    <2>3. \/ UNCHANGED <<phase, toPull, zones>> /\ faults' = faults + 1 /\ faults < MaxFaults
          \/ /\ phase' = [phase EXCEPT ![m] = "pull"]
             /\ toPull' = [toPull EXCEPT ![m] = {OwnerOf(keys1, z) : z \in OwnedKeys(keys1)} \ {m}]
             /\ zones' = [zones EXCEPT ![m] = OwnedZones(keys1)]
             /\ UNCHANGED faults
        BY <1>5 DEF RoundBegin, CanFault, Fault
    <2>4. /\ phase' \in [Members -> {"idle", "pull", "scrape"}]
          /\ toPull' \in [Members -> SUBSET Members]
          /\ zones' \in [Members -> SUBSET Zones]
          /\ faults' \in 0..MaxFaults
        <3>1. CASE UNCHANGED <<phase, toPull, zones>> /\ faults' = faults + 1 /\ faults < MaxFaults
            BY <3>1 DEF OtherTyped
        <3>2. CASE /\ phase' = [phase EXCEPT ![m] = "pull"]
                   /\ toPull' = [toPull EXCEPT ![m] = {OwnerOf(keys1, z) : z \in OwnedKeys(keys1)} \ {m}]
                   /\ zones' = [zones EXCEPT ![m] = OwnedZones(keys1)]
                   /\ UNCHANGED faults
            <4>1. /\ {OwnerOf(keys1, z) : z \in OwnedKeys(keys1)} \ {m} \in SUBSET Members
                  /\ OwnedZones(keys1) \in SUBSET Zones
                BY <2>1, OwnersTyped
            <4>2. QED
                BY <3>2, <4>1 DEF OtherTyped
        <3>3. QED
            BY <2>3, <3>1, <3>2
    <2>5. KeysTyped'
        BY <2>1, <2>2 DEF KeysTyped
    <2>6. QED
        BY <1>5, <2>2, <2>4, <2>5 DEF RoundBegin, OtherTyped
<1>6. ASSUME NEW m \in Members, NEW o \in Members, PullFrom(m, o)
      PROVE  OtherTyped'
    <2> DEFINE new == marshalled[o]
               sent == {b \in Backends : new.s1[b] # {} \/ new.s2[b] # {}}
               s2 == [b \in Backends |-> MergeSeries(h2[m][b], new.s2[b])]
               res == [b \in Backends |-> IF b \in sent THEN ResultOf(m, b, s2[b])
                                          ELSE results[m][b]]
    <2>1. res \in [Backends -> Times \cup {None}]
        <3>1. \A b \in Backends : s2[b] \in Series
            BY DEF MergeSeries, HistTyped
        <3>2. QED
            BY <3>1, ResultTyped DEF OtherTyped
    <2>2. \/ UNCHANGED results /\ faults' = faults + 1 /\ faults < MaxFaults
          \/ results' = [results EXCEPT ![m] = res] /\ UNCHANGED faults
        BY <1>6 DEF PullFrom, CanFault, Fault
    <2>3. results' \in [Members -> [Backends -> Times \cup {None}]]
          /\ faults' \in 0..MaxFaults
        <3>1. CASE UNCHANGED results /\ faults' = faults + 1 /\ faults < MaxFaults
            BY <3>1 DEF OtherTyped
        <3>2. CASE results' = [results EXCEPT ![m] = res] /\ UNCHANGED faults
            BY <2>1, <3>2 DEF OtherTyped
        <3>3. QED
            BY <2>2, <3>1, <3>2
    <2>4. QED
        BY <1>6, <2>3 DEF PullFrom, OtherTyped, KeysTyped
<1>7. ASSUME NEW m \in Members, OwnerCheck(m) PROVE OtherTyped'
    <2>1. BackendAddrs(ExcludeZones(m)) \in SUBSET Backends
        BY DEF BackendAddrs
    <2>2. /\ phase' \in [Members -> {"idle", "pull", "scrape"}]
          /\ pending' \in [Members -> SUBSET Backends]
          /\ addrs' \in [Members -> SUBSET Backends]
          /\ faults' \in 0..MaxFaults
        <3>1. CASE ~isOwner[m] /\ EndRound(m) /\ UNCHANGED <<pending, addrs, faults>>
            BY <3>1 DEF EndRound, OtherTyped
        <3>2. CASE /\ CanFault /\ Fault
                   /\ phase' = [phase EXCEPT ![m] = "idle"]
                   /\ UNCHANGED <<pending, addrs>>
            BY <3>2 DEF CanFault, Fault, OtherTyped
        <3>3. CASE EndRound(m) /\ UNCHANGED <<pending, addrs, faults>>
            BY <3>3 DEF EndRound, OtherTyped
        <3>4. CASE /\ phase' = [phase EXCEPT ![m] = "scrape"]
                   /\ pending' = [pending EXCEPT ![m] = BackendAddrs(ExcludeZones(m))]
                   /\ addrs' = [addrs EXCEPT ![m] = BackendAddrs(ExcludeZones(m))]
                   /\ UNCHANGED faults
            BY <2>1, <3>4 DEF OtherTyped
        <3>5. QED
            BY <1>7, <3>1, <3>2, <3>3, <3>4 DEF OwnerCheck
    <2>3. QED
        BY <1>7, <2>2 DEF OwnerCheck, OtherTyped, KeysTyped
<1>8. ASSUME NEW m \in Members, NEW b \in Backends, Scrape(m, b)
      PROVE  OtherTyped'
    <2>1. ResultOf(m, b, h2'[m][b]) \in Times \cup {None}
        <3>1. h2'[m][b] \in Series
            BY <1>0 DEF HistTyped
        <3>2. QED
            BY <3>1, ResultTyped DEF OtherTyped
    <2>2. \/ UNCHANGED results /\ faults' = faults + 1 /\ faults < MaxFaults
          \/ results' = [results EXCEPT ![m][b] = ResultOf(m, b, h2'[m][b])] /\ UNCHANGED faults
          \/ UNCHANGED <<results, faults>>
        BY <1>8 DEF Scrape, CanFault, Fault
    <2>3. results' \in [Members -> [Backends -> Times \cup {None}]]
          /\ faults' \in 0..MaxFaults
        <3>1. CASE UNCHANGED results /\ faults' = faults + 1 /\ faults < MaxFaults
            BY <3>1 DEF OtherTyped
        <3>2. CASE results' = [results EXCEPT ![m][b] = ResultOf(m, b, h2'[m][b])] /\ UNCHANGED faults
            BY <2>1, <3>2 DEF OtherTyped
        <3>3. CASE UNCHANGED <<results, faults>>
            BY <3>3 DEF OtherTyped
        <3>4. QED
            BY <2>2, <3>1, <3>2, <3>3
    <2>4. QED
        BY <1>8, <2>3 DEF Scrape, OtherTyped, KeysTyped
<1>9. ASSUME NEW m \in Members, ScrapeDone(m) PROVE OtherTyped'
    BY <1>9 DEF ScrapeDone, EndRound, OtherTyped, KeysTyped
<1>10. CASE UNCHANGED vars
    BY <1>10 DEF vars, OtherTyped, KeysTyped
<1>11. QED
    BY <1>1, <1>2, <1>3, <1>4, <1>5, <1>6, <1>7, <1>8, <1>9, <1>10 DEF Next, ReadMetrics

\* Every reachable state of the backend reader is well typed, the etcd keys
\* (whose deletion by a lost lease or a zone change renumbers the later
\* keys) and the owners RoundBegin derives from them included, for any
\* members, backends, zones and bounds.
THEOREM ReaderTypeCorrect == Spec => []TypeOK
<1>1. Init => HistTyped /\ OtherTyped
    BY InitHistTyped, InitOtherTyped
<1>2. HistTyped /\ OtherTyped /\ [Next]_vars => HistTyped' /\ OtherTyped'
    BY HistTypedStep, OtherTypedStep
<1>3. HistTyped /\ OtherTyped => TypeOK
    BY TypeSplit
<1>4. QED
    BY <1>1, <1>2, <1>3, PTL DEF Spec

=============================================================================
