---------------------------- MODULE VIPManager ----------------------------
(***************************************************************************)
(* The virtual-IP manager of src/pkg/manager/vip/manager.go on a set of    *)
(* proxy nodes.  Each node campaigns for the etcd key /tiproxy/vip/owner;  *)
(* the election (package elect, not in this repository, modelled from its  *)
(* contract) calls OnElected or OnRetired once per change of ownership,    *)
(* and once right after Start.  OnElected adds the address to the link and *)
(* broadcasts ARP, OnRetired deletes it; each step may fail, and a failure *)
(* is logged and not retried.  The address stays on the host's link when   *)
(* the process crashes, which is why Start runs OnRetired first.  The key  *)
(* of a crashed process's session (key/leaseID) stays in etcd until its    *)
(* lease expires; a restarted process campaigns with a new session, so a   *)
(* new key with a later create revision.                                   *)
(***************************************************************************)
EXTENDS Integers

CONSTANTS
    Nodes,      \* proxy nodes, identified by their SQL address
    MaxFaults,  \* failed HasIP / AddIP / SendARP / DeleteIP calls
    MaxStops    \* crashes, Close calls and lost sessions

ASSUME VIPAssumption == MaxFaults \in Nat /\ MaxStops \in Nat

VARIABLES
    rev,      \* create revision of the key of the node's session, 0 if none
    orphans,  \* create revisions of the keys of crashed processes' sessions
    etcdRev,  \* etcd's revision counter
    up,       \* the process runs (Start returned, Close not called)
    belief,   \* the last callback the election made: "none", "owner", "retired"
    hasIP,    \* the virtual IP is on the node's link (survives a crash)
    arp,      \* the node the last successful SendARP came from
    lastErr,  \* the last OnElected / OnRetired of the node returned on an error
    faults,
    stops

vars == <<rev, orphans, etcdRev, up, belief, hasIP, arp, lastErr, faults, stops>>

NoNode == "none"

HasKey(n) == rev[n] # 0
\* The owner is the key with the smallest create revision.
IsEtcdOwner(n) ==
    /\ HasKey(n)
    /\ \A k \in Nodes : HasKey(k) => rev[n] <= rev[k]
    /\ \A r \in orphans : rev[n] < r

CanFault == faults < MaxFaults
Fault == faults' = faults + 1

\* Mutant: the address is added but ARP is not broadcast.
OnElectedNoARP(n) ==
    \/ /\ hasIP[n]
       /\ lastErr' = [lastErr EXCEPT ![n] = FALSE]
       /\ UNCHANGED <<hasIP, arp, faults>>
    \/ /\ ~hasIP[n]
       /\ hasIP' = [hasIP EXCEPT ![n] = TRUE]
       /\ lastErr' = [lastErr EXCEPT ![n] = FALSE]
       /\ UNCHANGED <<arp, faults>>

\* The body of OnElected: HasIP, then AddIP and SendARP if the address is
\* missing.  An error returns early.
OnElected(n) ==
    \/ /\ CanFault /\ Fault                           \* HasIP fails
       /\ lastErr' = [lastErr EXCEPT ![n] = TRUE]
       /\ UNCHANGED <<hasIP, arp>>
    \/ /\ hasIP[n]                                    \* already has VIP
       /\ lastErr' = [lastErr EXCEPT ![n] = FALSE]
       /\ UNCHANGED <<hasIP, arp, faults>>
    \/ /\ ~hasIP[n] /\ CanFault /\ Fault              \* AddIP fails
       /\ lastErr' = [lastErr EXCEPT ![n] = TRUE]
       /\ UNCHANGED <<hasIP, arp>>
    \/ /\ ~hasIP[n] /\ CanFault /\ Fault              \* SendARP fails
       /\ hasIP' = [hasIP EXCEPT ![n] = TRUE]
       /\ lastErr' = [lastErr EXCEPT ![n] = TRUE]
       /\ UNCHANGED arp
    \/ /\ ~hasIP[n]
       /\ hasIP' = [hasIP EXCEPT ![n] = TRUE]
       /\ arp' = n
       /\ lastErr' = [lastErr EXCEPT ![n] = FALSE]
       /\ UNCHANGED faults

\* The body of OnRetired: HasIP, then DeleteIP if the address is there.
OnRetired(n) ==
    \/ /\ CanFault /\ Fault                           \* HasIP fails
       /\ lastErr' = [lastErr EXCEPT ![n] = TRUE]
       /\ UNCHANGED hasIP
    \/ /\ ~hasIP[n]                                   \* does not have VIP
       /\ lastErr' = [lastErr EXCEPT ![n] = FALSE]
       /\ UNCHANGED <<hasIP, faults>>
    \/ /\ hasIP[n] /\ CanFault /\ Fault               \* DeleteIP fails
       /\ lastErr' = [lastErr EXCEPT ![n] = TRUE]
       /\ UNCHANGED hasIP
    \/ /\ hasIP[n]
       /\ hasIP' = [hasIP EXCEPT ![n] = FALSE]
       /\ lastErr' = [lastErr EXCEPT ![n] = FALSE]
       /\ UNCHANGED faults

----------------------------------------------------------------------------

\* No process runs yet; the address is on no link.
Init ==
    /\ rev = [n \in Nodes |-> 0]
    /\ orphans = {}
    /\ etcdRev = 1
    /\ up = [n \in Nodes |-> FALSE]
    /\ belief = [n \in Nodes |-> "none"]
    /\ hasIP = [n \in Nodes |-> FALSE]
    /\ arp = NoNode
    /\ lastErr = [n \in Nodes |-> FALSE]
    /\ faults = 0
    /\ stops = 0

\* Mutant: Start does not check the ownership, the address of a crashed
\* run stays.
StartNoCleanup(n) ==
    /\ ~up[n]
    /\ up' = [up EXCEPT ![n] = TRUE]
    /\ belief' = [belief EXCEPT ![n] = "none"]
    /\ UNCHANGED <<rev, orphans, etcdRev, hasIP, arp, lastErr, faults, stops>>

\* Start: the election is created but not started, so IsOwner() is false
\* and OnRetired removes an address left by an earlier run.  The new
\* election has no session yet.
Start(n) ==
    /\ ~up[n]
    /\ OnRetired(n)
    /\ up' = [up EXCEPT ![n] = TRUE]
    /\ belief' = [belief EXCEPT ![n] = "none"]
    /\ UNCHANGED <<rev, orphans, etcdRev, arp, stops>>

\* The election's session campaigns for the key.  After the key of an owner
\* is lost, the election reports the change (OnRetired) before it campaigns
\* again: one callback per change of ownership.
Campaign(n) ==
    /\ up[n] /\ ~HasKey(n) /\ belief[n] # "owner"
    /\ rev' = [rev EXCEPT ![n] = etcdRev]
    /\ etcdRev' = etcdRev + 1
    /\ UNCHANGED <<orphans, up, belief, hasIP, arp, lastErr, faults, stops>>

\* The election calls OnElected when it becomes the owner.
Elected(n) ==
    /\ up[n] /\ belief[n] # "owner" /\ IsEtcdOwner(n)
    /\ belief' = [belief EXCEPT ![n] = "owner"]
    /\ OnElected(n)
    /\ UNCHANGED <<rev, orphans, etcdRev, up, stops>>

\* The election calls OnRetired when it is not, or no longer, the owner.
Retired(n) ==
    /\ up[n] /\ belief[n] # "retired" /\ ~IsEtcdOwner(n)
    /\ belief' = [belief EXCEPT ![n] = "retired"]
    /\ OnRetired(n)
    /\ UNCHANGED <<rev, orphans, etcdRev, up, arp, stops>>

\* The session is lost (network partition from etcd); the key is gone.
LeaseLoss(n) ==
    /\ HasKey(n) /\ stops < MaxStops
    /\ rev' = [rev EXCEPT ![n] = 0]
    /\ stops' = stops + 1
    /\ UNCHANGED <<orphans, etcdRev, up, belief, hasIP, arp, lastErr, faults>>

\* The process dies: the key of its session lives on until the lease's TTL,
\* the address stays on the link.
Crash(n) ==
    /\ up[n] /\ stops < MaxStops
    /\ up' = [up EXCEPT ![n] = FALSE]
    /\ rev' = [rev EXCEPT ![n] = 0]
    /\ orphans' = IF HasKey(n) THEN orphans \cup {rev[n]} ELSE orphans
    /\ stops' = stops + 1
    /\ UNCHANGED <<etcdRev, belief, hasIP, arp, lastErr, faults>>

\* The lease of a crashed process's session expires and etcd deletes its key.
LeaseExpire(r) ==
    /\ r \in orphans
    /\ orphans' = orphans \ {r}
    /\ UNCHANGED <<rev, etcdRev, up, belief, hasIP, arp, lastErr, faults, stops>>

\* Close: the election releases the lease and calls OnRetired if it owns.
Close(n) ==
    /\ up[n] /\ stops < MaxStops
    /\ rev' = [rev EXCEPT ![n] = 0]
    /\ up' = [up EXCEPT ![n] = FALSE]
    /\ stops' = stops + 1
    /\ \/ /\ belief[n] = "owner"
          /\ belief' = [belief EXCEPT ![n] = "retired"]
          /\ OnRetired(n)
       \/ /\ belief[n] # "owner"
          /\ UNCHANGED <<belief, hasIP, lastErr, faults>>
    /\ UNCHANGED <<orphans, etcdRev, arp>>

Next ==
    \/ \E n \in Nodes :
        \/ Start(n) \/ Campaign(n) \/ Elected(n) \/ Retired(n)
        \/ LeaseLoss(n) \/ Crash(n) \/ Close(n)
    \/ \E r \in orphans : LeaseExpire(r)

\* The election goroutine campaigns and calls back, and etcd expires the
\* lease of a dead session: weakly fair.  Starting a process is not.
Fairness ==
    /\ \A n \in Nodes :
        WF_vars(Campaign(n)) /\ WF_vars(Elected(n)) /\ WF_vars(Retired(n))
    /\ WF_vars(\E r \in orphans : LeaseExpire(r))

Spec == Init /\ [][Next]_vars /\ Fairness

----------------------------------------------------------------------------

TypeOK ==
    /\ rev \in [Nodes -> Nat]
    /\ orphans \subseteq Nat
    /\ etcdRev \in Nat \ {0}
    /\ up \in [Nodes -> BOOLEAN]
    /\ belief \in [Nodes -> {"none", "owner", "retired"}]
    /\ hasIP \in [Nodes -> BOOLEAN]
    /\ arp \in Nodes \cup {NoNode}
    /\ lastErr \in [Nodes -> BOOLEAN]
    /\ faults \in 0..MaxFaults /\ stops \in 0..MaxStops

\* A running node whose last OnElected / OnRetired did not fail holds the
\* address exactly when the election last told it that it owns: a crash with
\* the address, a restart, a lost lease or a late callback never leave an
\* address on a node that does not own it, or none on the one that does.
VIPMatchesBelief ==
    \A n \in Nodes :
        up[n] /\ ~lastErr[n] => (hasIP[n] <=> belief[n] = "owner")

\* When no HasIP / AddIP / SendARP / DeleteIP call fails, then whatever
\* crashes, restarts, Close calls and lost sessions happen, the address ends
\* up on the running node etcd names owner, on no other running node, and
\* the last ARP broadcast came from that node.  (A failed call is not retried
\* by manager.go, so this is promised only without failed calls.)
VIPFollowsOwner ==
    <>[](\A n \in Nodes :
            /\ up[n] => (hasIP[n] <=> IsEtcdOwner(n))
            /\ up[n] /\ IsEtcdOwner(n) => arp = n)


=============================================================================
