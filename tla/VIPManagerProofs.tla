-------------------------- MODULE VIPManagerProofs --------------------------
(***************************************************************************)
(* Proofs about the virtual-IP manager (VIPManager.tla) for any set of     *)
(* nodes and any bounds on faults and stops allowed by VIPAssumption.      *)
(***************************************************************************)
EXTENDS VIPManager, TLAPS

\* What OnElected(n) of manager.go leaves behind: the address is on the
\* link unless the call failed, the other nodes are untouched, and the
\* variables keep their types.
LEMMA OnElectedEffect ==
    ASSUME TypeOK, NEW n \in Nodes, OnElected(n)
    PROVE  /\ hasIP' \in [Nodes -> BOOLEAN]
           /\ lastErr' \in [Nodes -> BOOLEAN]
           /\ arp' \in Nodes \cup {NoNode}
           /\ faults' \in 0..MaxFaults
           /\ ~lastErr'[n] => hasIP'[n]
           /\ \A k \in Nodes \ {n} : hasIP'[k] = hasIP[k] /\ lastErr'[k] = lastErr[k]
<1> USE VIPAssumption DEF TypeOK, CanFault, Fault
<1>1. CASE CanFault /\ Fault /\ lastErr' = [lastErr EXCEPT ![n] = TRUE]
                   /\ UNCHANGED <<hasIP, arp>>
    BY <1>1
<1>2. CASE hasIP[n] /\ lastErr' = [lastErr EXCEPT ![n] = FALSE]
                   /\ UNCHANGED <<hasIP, arp, faults>>
    BY <1>2
<1>3. CASE ~hasIP[n] /\ CanFault /\ Fault /\ hasIP' = [hasIP EXCEPT ![n] = TRUE]
           /\ lastErr' = [lastErr EXCEPT ![n] = TRUE] /\ UNCHANGED arp
    BY <1>3
<1>4. CASE ~hasIP[n] /\ hasIP' = [hasIP EXCEPT ![n] = TRUE] /\ arp' = n
           /\ lastErr' = [lastErr EXCEPT ![n] = FALSE] /\ UNCHANGED faults
    BY <1>4
<1>5. QED
    BY <1>1, <1>2, <1>3, <1>4 DEF OnElected

\* What OnRetired(n) leaves behind: the address is gone unless the call
\* failed, the other nodes are untouched.
LEMMA OnRetiredEffect ==
    ASSUME TypeOK, NEW n \in Nodes, OnRetired(n)
    PROVE  /\ hasIP' \in [Nodes -> BOOLEAN]
           /\ lastErr' \in [Nodes -> BOOLEAN]
           /\ faults' \in 0..MaxFaults
           /\ ~lastErr'[n] => ~hasIP'[n]
           /\ \A k \in Nodes \ {n} : hasIP'[k] = hasIP[k] /\ lastErr'[k] = lastErr[k]
<1> USE VIPAssumption DEF TypeOK, CanFault, Fault
<1>1. CASE CanFault /\ Fault /\ lastErr' = [lastErr EXCEPT ![n] = TRUE]
                   /\ UNCHANGED hasIP
    BY <1>1
<1>2. CASE ~hasIP[n] /\ lastErr' = [lastErr EXCEPT ![n] = FALSE]
                    /\ UNCHANGED <<hasIP, faults>>
    BY <1>2
<1>3. CASE hasIP[n] /\ hasIP' = [hasIP EXCEPT ![n] = FALSE]
           /\ lastErr' = [lastErr EXCEPT ![n] = FALSE] /\ UNCHANGED faults
    BY <1>3
<1>4. QED
    BY <1>1, <1>2, <1>3 DEF OnRetired

\* One step keeps the types: revisions are natural numbers, the fault and
\* stop counters stay within their bounds.
LEMMA TypeStep ==
    ASSUME TypeOK, [Next]_vars
    PROVE  TypeOK'
<1> USE VIPAssumption
<1>1. ASSUME NEW n \in Nodes, Start(n) PROVE TypeOK'
    BY <1>1, OnRetiredEffect DEF Start, TypeOK
<1>2. ASSUME NEW n \in Nodes, Campaign(n) PROVE TypeOK'
    BY <1>2 DEF Campaign, TypeOK
<1>3. ASSUME NEW n \in Nodes, Elected(n) PROVE TypeOK'
    BY <1>3, OnElectedEffect DEF Elected, TypeOK
<1>4. ASSUME NEW n \in Nodes, Retired(n) PROVE TypeOK'
    BY <1>4, OnRetiredEffect DEF Retired, TypeOK
<1>5. ASSUME NEW n \in Nodes, LeaseLoss(n) PROVE TypeOK'
    BY <1>5 DEF LeaseLoss, TypeOK
<1>6. ASSUME NEW n \in Nodes, Crash(n) PROVE TypeOK'
    <2>1. orphans' \subseteq Nat
        BY <1>6 DEF Crash, TypeOK, HasKey
    <2>2. QED
        BY <1>6, <2>1 DEF Crash, TypeOK
<1>7. ASSUME NEW r \in orphans, LeaseExpire(r) PROVE TypeOK'
    BY <1>7 DEF LeaseExpire, TypeOK
<1>8. ASSUME NEW n \in Nodes, Close(n) PROVE TypeOK'
    <2>1. CASE belief[n] = "owner"
        BY <1>8, <2>1, OnRetiredEffect DEF Close, TypeOK
    <2>2. CASE belief[n] # "owner"
        BY <1>8, <2>2 DEF Close, TypeOK
    <2>3. QED
        BY <2>1, <2>2
<1>9. CASE UNCHANGED vars
    BY <1>9 DEF vars, TypeOK
<1>10. QED
    BY <1>1, <1>2, <1>3, <1>4, <1>5, <1>6, <1>7, <1>8, <1>9 DEF Next

\* Every reachable state is well typed.
THEOREM VIPTypeCorrect == Spec => []TypeOK
<1>1. Init => TypeOK
    BY VIPAssumption DEF Init, TypeOK
<1>2. QED
    BY <1>1, TypeStep, PTL DEF Spec

\* VIPMatchesBelief together with the types is inductive: every step either
\* leaves a node's address, belief, error flag and liveness alone, stops
\* the node, or runs OnElected / OnRetired right after setting the belief
\* they serve.
IInv == TypeOK /\ VIPMatchesBelief

\* A running node without a pending error holds the address exactly when
\* the election last called OnElected on it: Start's OnRetired cleans up the
\* address of a crashed run, and no interleaving of callbacks, lost leases,
\* crashes and restarts breaks it, for any number of nodes.
THEOREM VIPBeliefHolds == Spec => []VIPMatchesBelief
<1>1. Init => IInv
    BY VIPAssumption DEF Init, IInv, TypeOK, VIPMatchesBelief
<1>2. IInv /\ [Next]_vars => IInv'
    <2> SUFFICES ASSUME IInv, [Next]_vars PROVE IInv'
        OBVIOUS
    <2>0. TypeOK'
        BY TypeStep DEF IInv
    <2> SUFFICES VIPMatchesBelief'
        BY <2>0 DEF IInv
    <2> SUFFICES ASSUME NEW m \in Nodes, up'[m], ~lastErr'[m]
                 PROVE  hasIP'[m] <=> belief'[m] = "owner"
        BY DEF VIPMatchesBelief
    <2>1. ASSUME NEW n \in Nodes, Start(n) PROVE hasIP'[m] <=> belief'[m] = "owner"
        <3>1. CASE m = n
            BY <2>1, <3>1, OnRetiredEffect DEF Start, IInv, TypeOK
        <3>2. CASE m # n
            BY <2>1, <3>2, OnRetiredEffect DEF Start, IInv, TypeOK, VIPMatchesBelief
        <3>3. QED
            BY <3>1, <3>2
    <2>2. ASSUME NEW n \in Nodes, Campaign(n) PROVE hasIP'[m] <=> belief'[m] = "owner"
        BY <2>2 DEF Campaign, IInv, VIPMatchesBelief
    <2>3. ASSUME NEW n \in Nodes, Elected(n) PROVE hasIP'[m] <=> belief'[m] = "owner"
        <3>1. CASE m = n
            BY <2>3, <3>1, OnElectedEffect DEF Elected, IInv, TypeOK
        <3>2. CASE m # n
            BY <2>3, <3>2, OnElectedEffect DEF Elected, IInv, TypeOK, VIPMatchesBelief
        <3>3. QED
            BY <3>1, <3>2
    <2>4. ASSUME NEW n \in Nodes, Retired(n) PROVE hasIP'[m] <=> belief'[m] = "owner"
        <3>1. CASE m = n
            BY <2>4, <3>1, OnRetiredEffect DEF Retired, IInv, TypeOK
        <3>2. CASE m # n
            BY <2>4, <3>2, OnRetiredEffect DEF Retired, IInv, TypeOK, VIPMatchesBelief
        <3>3. QED
            BY <3>1, <3>2
    <2>5. ASSUME NEW n \in Nodes, LeaseLoss(n) PROVE hasIP'[m] <=> belief'[m] = "owner"
        BY <2>5 DEF LeaseLoss, IInv, VIPMatchesBelief
    <2>6. ASSUME NEW n \in Nodes, Crash(n) PROVE hasIP'[m] <=> belief'[m] = "owner"
        BY <2>6 DEF Crash, IInv, TypeOK, VIPMatchesBelief
    <2>7. ASSUME NEW r \in orphans, LeaseExpire(r) PROVE hasIP'[m] <=> belief'[m] = "owner"
        BY <2>7 DEF LeaseExpire, IInv, VIPMatchesBelief
    <2>8. ASSUME NEW n \in Nodes, Close(n) PROVE hasIP'[m] <=> belief'[m] = "owner"
        <3>1. CASE m = n
            BY <2>8, <3>1 DEF Close, IInv, TypeOK
        <3>2. CASE m # n /\ belief[n] = "owner"
            BY <2>8, <3>2, OnRetiredEffect DEF Close, IInv, TypeOK, VIPMatchesBelief
        <3>3. CASE m # n /\ belief[n] # "owner"
            BY <2>8, <3>3 DEF Close, IInv, TypeOK, VIPMatchesBelief
        <3>4. QED
            BY <3>1, <3>2, <3>3
    <2>9. CASE UNCHANGED vars
        BY <2>9 DEF vars, IInv, VIPMatchesBelief
    <2>10. QED
        BY <2>1, <2>2, <2>3, <2>4, <2>5, <2>6, <2>7, <2>8, <2>9 DEF Next
<1>3. IInv => VIPMatchesBelief
    BY DEF IInv
<1>4. QED
    BY <1>1, <1>2, <1>3, PTL DEF Spec

=============================================================================
