--------------------------- MODULE BackendReader ---------------------------
(***************************************************************************)
(* The cluster-wide backend metrics reader of                              *)
(* src/pkg/balance/metricsreader/backend_reader.go, for one query rule of  *)
(* result type Vector, on a set of proxy members that share one etcd.      *)
(*                                                                         *)
(* Each member runs ReadMetrics on a ticker: re-elect on a zone change,    *)
(* read every owner key from etcd, pull the marshalled history of every    *)
(* other owner, scrape the backends no other owner covers if it is an      *)
(* owner itself, marshal what it scraped, purge expired history.  The      *)
(* election (package elect, not in this repository) is modelled from its   *)
(* contract: a key per campaigning member in create-revision order, the    *)
(* first key of a zone owns it, and an asynchronous OnElected/OnRetired    *)
(* callback that may lag behind etcd.                                      *)
(*                                                                         *)
(* A series (Step1History, Step2History) is the set of timestamps of its   *)
(* samples: the values only feed Metric2Value and Range2Value, whose NaN   *)
(* outcomes are kept as choices and as the number of points Range2Value    *)
(* needs.  A QueryResult entry is the timestamp of the pair it exposes.    *)
(***************************************************************************)
EXTENDS Integers, Sequences, FiniteSets

CONSTANTS
    Members,      \* proxy members, identified by their status address
    Backends,     \* TiDB backends, identified by their status address
    Zones,        \* zone labels (config.LocationLabelName)
    Global,       \* the empty location: the global owner key
    ZoneOf,       \* the zone label of each backend
    MemberZone,   \* the zone a member is given when its location is set
    MaxTime,      \* last value of the wall clock
    Retention,    \* rule.Retention, in clock units
    Range2Min,    \* fewest Step1 points for which Range2Value is not NaN
    MaxFaults,    \* failed etcd reads, HTTP reads, scrapes and lease losses
    MaxRuleEdits  \* AddQueryRule / RemoveQueryRule calls

ASSUME ReaderAssumption ==
    /\ Global \notin Zones
    /\ Backends \subseteq DOMAIN ZoneOf /\ \A b \in Backends : ZoneOf[b] \in Zones
    /\ MemberZone \in [Members -> Zones]
    /\ MaxTime \in Nat /\ Retention \in Nat \ {0}
    /\ Range2Min \in Nat \ {0}
    /\ MaxFaults \in Nat /\ MaxRuleEdits \in Nat

VARIABLES
    now,         \* time.Now(), shared by all members
    zoneCfg,     \* cfg.GetLocation() of each member
    lastZone,    \* br.lastZone: the zone of the running election
    keys,        \* etcd keys under readerOwnerKeyPrefix, by create revision
    isOwner,     \* br.isOwner, set by the election callbacks
    ruleOn,      \* the rule is in br.queryRules
    h1, h2,      \* br.history[rule][backend].Step1History / Step2History
    results,     \* br.queryResults[rule]: timestamp per instance label
    marshalled,  \* br.marshalledHistory: the series served to followers
    phase,       \* where the ReadMetrics goroutine is
    toPull,      \* owners still to read in this round
    zones,       \* zones with an owner, from queryAllOwners
    pending,     \* backends whose scrape has not finished
    addrs,       \* backends this round scrapes (passed to marshalHistory)
    lastV1,      \* time of the member's last valid Metric2Value sample
    faults,      \* faults injected so far
    ruleEdits    \* rule edits so far

vars == <<now, zoneCfg, lastZone, keys, isOwner, ruleOn, h1, h2, results,
          marshalled, phase, toPull, zones, pending, addrs, lastV1, faults,
          ruleEdits>>

Times == 0..MaxTime
None == -1
ZoneKeys == Zones \cup {Global}
Series == SUBSET Times
EmptyHistory == [b \in Backends |-> {}]

\* The timestamp of the last pair of a non-empty series.
Last(s) == CHOOSE t \in s : \A u \in s : u <= t

\* The zone keys that have an owner among the etcd keys ks.
OwnedKeys(ks) == {ks[i][2] : i \in DOMAIN ks}
\* The owner of a zone key: its key with the least create revision.
OwnerOf(ks, z) == ks[CHOOSE i \in DOMAIN ks :
                        /\ ks[i][2] = z
                        /\ \A j \in 1..(i - 1) : ks[j][2] # z][1]
\* Mutant: the global key's empty zone kept among the zones with an owner.
OwnedZonesWithGlobal(ks) == OwnedKeys(ks)
\* The zones with a zonal owner (queryAllOwners skips the empty zone).
OwnedZones(ks) == OwnedKeys(ks) \ {Global}
HasKey(m) == \E i \in DOMAIN keys : keys[i][1] = m
\* etcd deletes the member's key.  A member campaigns only without a key,
\* so it has at most one: the keys after it move up by one.
KeyIndex(m) == CHOOSE i \in DOMAIN keys : keys[i][1] = m
DropKey(m) ==
    IF HasKey(m)
    THEN [i \in 1..(Len(keys) - 1) |->
            IF i < KeyIndex(m) THEN keys[i] ELSE keys[i + 1]]
    ELSE keys

\* purgeHistory (the function): keep the pairs with t + retention > now.
PurgeSeries(s) == {t \in s : t + Retention > now}

\* Range2Value(Step1History) is a number, not NaN.
Range2Defined(s) == Cardinality(s) >= Range2Min

CanFault == faults < MaxFaults
Fault == faults' = faults + 1

----------------------------------------------------------------------------
(* Initial state: NewBackendReader and Start.                              *)

Init ==
    /\ now = 0
    /\ zoneCfg \in [Members -> ZoneKeys]
    /\ \A m \in Members : zoneCfg[m] \in {Global, MemberZone[m]}
    /\ lastZone = zoneCfg
    /\ keys = <<>>
    /\ isOwner = [m \in Members |-> FALSE]
    /\ ruleOn = [m \in Members |-> FALSE]
    /\ h1 = [m \in Members |-> EmptyHistory]
    /\ h2 = [m \in Members |-> EmptyHistory]
    /\ results = [m \in Members |-> [b \in Backends |-> None]]
    /\ marshalled = [m \in Members |-> [s1 |-> EmptyHistory, s2 |-> EmptyHistory]]
    /\ phase = [m \in Members |-> "idle"]
    /\ toPull = [m \in Members |-> {}]
    /\ zones = [m \in Members |-> {}]
    /\ pending = [m \in Members |-> {}]
    /\ addrs = [m \in Members |-> {}]
    /\ lastV1 = [m \in Members |-> [b \in Backends |-> None]]
    /\ faults = 0
    /\ ruleEdits = 0

----------------------------------------------------------------------------
(* The environment: the clock, the location set through the HTTP API, and  *)
(* the balancer adding and removing the rule.                              *)

Tick ==
    /\ now < MaxTime
    /\ now' = now + 1
    /\ UNCHANGED <<zoneCfg, lastZone, keys, isOwner, ruleOn, h1, h2, results,
                   marshalled, phase, toPull, zones, pending, addrs, lastV1,
                   faults, ruleEdits>>

SetLocation(m) ==
    /\ zoneCfg[m] = Global
    /\ zoneCfg' = [zoneCfg EXCEPT ![m] = MemberZone[m]]
    /\ UNCHANGED <<now, lastZone, keys, isOwner, ruleOn, h1, h2, results,
                   marshalled, phase, toPull, zones, pending, addrs, lastV1,
                   faults, ruleEdits>>

\* Adding a rule that is there, or removing one that is not, changes nothing.
AddQueryRule(m) ==
    /\ ruleEdits < MaxRuleEdits
    /\ ~ruleOn[m]
    /\ ruleOn' = [ruleOn EXCEPT ![m] = TRUE]
    /\ ruleEdits' = ruleEdits + 1
    /\ UNCHANGED <<now, zoneCfg, lastZone, keys, isOwner, h1, h2, results,
                   marshalled, phase, toPull, zones, pending, addrs, lastV1,
                   faults>>

RemoveQueryRule(m) ==
    /\ ruleEdits < MaxRuleEdits
    /\ ruleOn[m]
    /\ ruleOn' = [ruleOn EXCEPT ![m] = FALSE]
    /\ ruleEdits' = ruleEdits + 1
    /\ UNCHANGED <<now, zoneCfg, lastZone, keys, isOwner, h1, h2, results,
                   marshalled, phase, toPull, zones, pending, addrs, lastV1,
                   faults>>

----------------------------------------------------------------------------
(* The election of package elect, from its contract: a member without a   *)
(* key campaigns, a lost session drops the key, and the callback brings    *)
(* isOwner in line with etcd some time later.                              *)

Campaign(m) ==
    /\ ~HasKey(m)
    /\ keys' = Append(keys, <<m, lastZone[m]>>)
    /\ UNCHANGED <<now, zoneCfg, lastZone, isOwner, ruleOn, h1, h2, results,
                   marshalled, phase, toPull, zones, pending, addrs, lastV1,
                   faults, ruleEdits>>

LeaseLoss(m) ==
    /\ CanFault /\ Fault
    /\ HasKey(m)
    /\ keys' = DropKey(m)
    /\ UNCHANGED <<now, zoneCfg, lastZone, isOwner, ruleOn, h1, h2, results,
                   marshalled, phase, toPull, zones, pending, addrs, lastV1,
                   ruleEdits>>

IsOwnerInEtcd(m) == HasKey(m) /\ OwnerOf(keys, lastZone[m]) = m

\* OnElected / OnRetired.
Callback(m) ==
    /\ isOwner[m] # IsOwnerInEtcd(m)
    /\ isOwner' = [isOwner EXCEPT ![m] = IsOwnerInEtcd(m)]
    /\ UNCHANGED <<now, zoneCfg, lastZone, keys, ruleOn, h1, h2, results,
                   marshalled, phase, toPull, zones, pending, addrs, lastV1,
                   faults, ruleEdits>>

----------------------------------------------------------------------------
(* Helpers of the reader that change its history and results.              *)

\* history2Value and mergeQueryResult for one backend: the Vector entry of
\* the backend is replaced by the last Step2 pair, or appended.
ResultOf(m, b, s2) ==
    IF ruleOn[m] /\ s2 # {} THEN Last(s2) ELSE results[m][b]

\* Mutant: the owner's series is taken whenever it is not empty.
MergeSeriesAlways(local, new) == IF new # {} THEN new ELSE local

\* mergeHistory: per backend, each series is replaced by the owner's one
\* when the local one is empty or the owner's last pair is later.
MergeSeries(local, new) ==
    IF local = {} \/ (new # {} /\ Last(new) > Last(local)) THEN new ELSE local

\* purgeHistory (the method): drop a removed rule's history, and expired pairs.
PurgedHistory(m, h) ==
    [b \in Backends |-> IF ruleOn[m] THEN PurgeSeries(h[m][b]) ELSE {}]

\* The ghost follows the purge of the Step1 series it was appended to.
PurgedV1(m) ==
    [b \in Backends |-> IF ruleOn[m] /\ lastV1[m][b] + Retention > now
                          THEN lastV1[m][b] ELSE None]

EndRound(m) ==
    /\ h1' = [h1 EXCEPT ![m] = PurgedHistory(m, h1)]
    /\ h2' = [h2 EXCEPT ![m] = PurgedHistory(m, h2)]
    /\ lastV1' = [lastV1 EXCEPT ![m] = PurgedV1(m)]
    /\ phase' = [phase EXCEPT ![m] = "idle"]

\* Mutant: the member's own zone is not removed from the excluded zones.
ExcludeZonesKeepSelf(m) == zones[m]
\* excludeZones: the zones with an owner, without the member's own zone.
ExcludeZones(m) == zones[m] \ {lastZone[m]}

\* getBackendAddrs(excludeZones): the backends whose zone is not excluded.
BackendAddrs(excluded) == {b \in Backends : ZoneOf[b] \notin excluded}

----------------------------------------------------------------------------
(* ReadMetrics, one step per suspension point.                             *)

\* Zone check and re-election, then queryAllOwners.
RoundBegin(m) ==
    /\ phase[m] = "idle"
    /\ LET moved == zoneCfg[m] # lastZone[m]
           keys1 == IF moved THEN DropKey(m) ELSE keys
           owned == OwnedKeys(keys1)
       IN /\ lastZone' = [lastZone EXCEPT ![m] = zoneCfg[m]]
          /\ keys' = keys1
          /\ isOwner' = IF moved THEN [isOwner EXCEPT ![m] = FALSE] ELSE isOwner
          /\ \/ /\ CanFault /\ Fault
                /\ UNCHANGED <<phase, toPull, zones>>
             \/ /\ phase' = [phase EXCEPT ![m] = "pull"]
                /\ toPull' = [toPull EXCEPT ![m] = {OwnerOf(keys1, z) : z \in owned} \ {m}]
                /\ zones' = [zones EXCEPT ![m] = OwnedZones(keys1)]
                /\ UNCHANGED faults
    /\ UNCHANGED <<now, zoneCfg, ruleOn, h1, h2, results, marshalled, pending,
                   addrs, lastV1, ruleEdits>>

\* readFromOwner: GetBackendMetrics of the owner, mergeHistory, then
\* history2Value and mergeQueryResult for every backend it sent.
PullFrom(m, o) ==
    /\ phase[m] = "pull"
    /\ o \in toPull[m]
    /\ toPull' = [toPull EXCEPT ![m] = @ \ {o}]
    /\ \/ /\ CanFault /\ Fault
          /\ UNCHANGED <<h1, h2, results>>
       \/ LET new == marshalled[o]
              sent == {b \in Backends : new.s1[b] # {} \/ new.s2[b] # {}}
              s1 == [b \in Backends |-> MergeSeries(h1[m][b], new.s1[b])]
              s2 == [b \in Backends |-> MergeSeries(h2[m][b], new.s2[b])]
          IN /\ h1' = [h1 EXCEPT ![m] = s1]
             /\ h2' = [h2 EXCEPT ![m] = s2]
             /\ results' = [results EXCEPT ![m] =
                   [b \in Backends |-> IF b \in sent THEN ResultOf(m, b, s2[b])
                                       ELSE results[m][b]]]
             /\ UNCHANGED faults
    /\ UNCHANGED <<now, zoneCfg, lastZone, keys, isOwner, ruleOn, marshalled,
                   phase, zones, pending, addrs, lastV1, ruleEdits>>

\* After the pulls: an owner starts readFromBackends, the others purge.
OwnerCheck(m) ==
    /\ phase[m] = "pull"
    /\ toPull[m] = {}
    /\ LET bs == BackendAddrs(ExcludeZones(m))
       IN \/ /\ ~isOwner[m]
             /\ EndRound(m)
             /\ UNCHANGED <<pending, addrs, faults>>
          \/ /\ isOwner[m]
             /\ CanFault /\ Fault
             /\ phase' = [phase EXCEPT ![m] = "idle"]
             /\ UNCHANGED <<h1, h2, lastV1, pending, addrs>>
          \/ /\ isOwner[m]
             /\ bs = {} \/ ~ruleOn[m]
             /\ EndRound(m)
             /\ UNCHANGED <<pending, addrs, faults>>
          \/ /\ isOwner[m]
             /\ bs # {} /\ ruleOn[m]
             /\ phase' = [phase EXCEPT ![m] = "scrape"]
             /\ pending' = [pending EXCEPT ![m] = bs]
             /\ addrs' = [addrs EXCEPT ![m] = bs]
             /\ UNCHANGED <<h1, h2, lastV1, faults>>
    /\ UNCHANGED <<now, zoneCfg, lastZone, keys, isOwner, ruleOn, results,
                   marshalled, toPull, zones, ruleEdits>>

\* metric2History for a valid Metric2Value sample taken at now.
Metric2History(m, b) ==
    LET s1 == h1[m][b] \cup {now}
    IN IF Range2Defined(s1)
       THEN /\ h1' = [h1 EXCEPT ![m][b] = s1]
            /\ h2' = [h2 EXCEPT ![m][b] = @ \cup {now}]
       ELSE UNCHANGED <<h1, h2>>

\* One worker of the pool: readBackendMetric, filter and parse, then
\* metric2History, history2Value and mergeQueryResult.
Scrape(m, b) ==
    /\ phase[m] = "scrape"
    /\ b \in pending[m]
    /\ pending' = [pending EXCEPT ![m] = @ \ {b}]
    /\ \/ /\ CanFault /\ Fault
          /\ UNCHANGED <<h1, h2, results, lastV1>>
       \/ /\ ruleOn[m]
          /\ Metric2History(m, b)
          /\ lastV1' = [lastV1 EXCEPT ![m][b] = now]
          /\ results' = [results EXCEPT ![m][b] = ResultOf(m, b, h2'[m][b])]
          /\ UNCHANGED faults
       \/ /\ ~ruleOn[m]
          /\ UNCHANGED <<h1, h2, results, lastV1, faults>>
    /\ UNCHANGED <<now, zoneCfg, lastZone, keys, isOwner, ruleOn, marshalled,
                   phase, toPull, zones, addrs, ruleEdits>>

\* wgp.Wait, marshalHistory(addrs), then purgeHistory.
ScrapeDone(m) ==
    /\ phase[m] = "scrape"
    /\ pending[m] = {}
    /\ marshalled' = [marshalled EXCEPT ![m] =
          [s1 |-> [b \in Backends |-> IF b \in addrs[m] THEN h1[m][b] ELSE {}],
           s2 |-> [b \in Backends |-> IF b \in addrs[m] THEN h2[m][b] ELSE {}]]]
    /\ EndRound(m)
    /\ UNCHANGED <<now, zoneCfg, lastZone, keys, isOwner, ruleOn, results,
                   toPull, zones, pending, addrs, faults, ruleEdits>>

ReadMetrics(m) ==
    \/ RoundBegin(m)
    \/ \E o \in Members : PullFrom(m, o)
    \/ OwnerCheck(m)
    \/ \E b \in Backends : Scrape(m, b)
    \/ ScrapeDone(m)

Next ==
    \/ Tick
    \/ \E m \in Members :
          \/ SetLocation(m) \/ AddQueryRule(m) \/ RemoveQueryRule(m)
          \/ Campaign(m) \/ LeaseLoss(m) \/ Callback(m)
          \/ ReadMetrics(m)

\* The ReadMetrics loop runs on a ticker and the election goroutine retries
\* its campaign and delivers its callbacks: all three are weakly fair.
Fairness ==
    \A m \in Members :
        /\ WF_vars(ReadMetrics(m))
        /\ WF_vars(Campaign(m))
        /\ WF_vars(Callback(m))

Spec == Init /\ [][Next]_vars /\ Fairness

----------------------------------------------------------------------------
(* Properties.                                                             *)

TypeOK ==
    /\ now \in Times
    /\ zoneCfg \in [Members -> ZoneKeys] /\ lastZone \in [Members -> ZoneKeys]
    /\ keys \in Seq(Members \X ZoneKeys)
    /\ isOwner \in [Members -> BOOLEAN] /\ ruleOn \in [Members -> BOOLEAN]
    /\ h1 \in [Members -> [Backends -> Series]]
    /\ h2 \in [Members -> [Backends -> Series]]
    /\ results \in [Members -> [Backends -> Times \cup {None}]]
    /\ marshalled \in [Members -> [s1 : [Backends -> Series],
                                   s2 : [Backends -> Series]]]
    /\ phase \in [Members -> {"idle", "pull", "scrape"}]
    /\ toPull \in [Members -> SUBSET Members]
    /\ zones \in [Members -> SUBSET Zones]
    /\ pending \in [Members -> SUBSET Backends]
    /\ addrs \in [Members -> SUBSET Backends]
    /\ lastV1 \in [Members -> [Backends -> Times \cup {None}]]
    /\ faults \in 0..MaxFaults /\ ruleEdits \in 0..MaxRuleEdits


\* Every sample of a backend that Metric2Value turned into a number is kept
\* in the member's Step1History (metric2History, step 1) until it expires or
\* an owner's newer Step1 series replaces it (mergeHistory).
Step1KeepsSamples ==
    \A m \in Members, b \in Backends :
        LET t == lastV1[m][b]
        IN t = None \/ t \in h1[m][b] \/ (h1[m][b] # {} /\ t < Last(h1[m][b]))

\* The latest pair of a member's series never moves back in time: a scrape
\* appends at the current time, mergeHistory only takes a later series and
\* purgeHistory drops a prefix, or the whole series.
LatestNeverRegresses ==
    [][\A m \in Members, b \in Backends :
          /\ h1[m][b] # {} /\ h1'[m][b] # {} => Last(h1'[m][b]) >= Last(h1[m][b])
          /\ h2[m][b] # {} /\ h2'[m][b] # {} => Last(h2'[m][b]) >= Last(h2[m][b])
      ]_vars

\* Once the rule stays registered on every member and the clock stops, every
\* member ends up serving, for every backend, a pair taken at the current
\* time: the owners cover all backends and the followers pull from them.
EventuallyServeLatest ==
    (<>[](\A m \in Members : ruleOn[m])) =>
        <>[](\A m \in Members, b \in Backends : results[m][b] = now)

=============================================================================
