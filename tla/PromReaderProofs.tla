------------------------- MODULE PromReaderProofs -------------------------
(***************************************************************************)
(* Proofs about the Prometheus metrics reader (PromReader.tla) for any set *)
(* of expressions and any bounds allowed by PromAssumption.                *)
(***************************************************************************)
EXTENDS PromReader, TLAPS

USE PromAssumption

(***************************************************************************)
(* ResultMatchesExpr is not inductive: a result is copied from acc, acc    *)
(* from the snapshot, so both must be tied to queryExprs too.  The ids the *)
(* round still has to query are ids it copied, and an id above lastID has  *)
(* never been handed out, so nothing is stored under it anywhere.          *)
(***************************************************************************)
TodoCopied == \A i \in todo : snap[i] # None
FreshIDsEmpty ==
    \A i \in IDs : i > lastID =>
        exprs[i] = None /\ snap[i] = None /\ acc[i] = None /\ results[i] = None
SnapCurrent == \A i \in IDs : snap[i] # None /\ exprs[i] # None => snap[i] = exprs[i]
AccFromSnap == \A i \in IDs : acc[i] # None => snap[i] # None /\ acc[i].expr = snap[i].e

IInv ==
    /\ TypeOK /\ TodoCopied /\ FreshIDsEmpty /\ SnapCurrent /\ AccFromSnap
    /\ ResultMatchesExpr

LEMMA InitIInv == Init => IInv
<1> SUFFICES ASSUME Init PROVE IInv
    OBVIOUS
<1>1. TypeOK
    <2>1. exprs \in [IDs -> ExprRec \cup {None}] /\ snap \in [IDs -> ExprRec \cup {None}]
        BY DEF Init
    <2>2. results \in [IDs -> Result \cup {None}] /\ acc \in [IDs -> Result \cup {None}]
        BY DEF Init, NoResults
    <2>3. lastID \in 0..MaxID /\ now \in 0..MaxTime
        BY DEF Init
    <2>4. QED
        BY <2>1, <2>2, <2>3 DEF Init, TypeOK
<1>2. TodoCopied /\ FreshIDsEmpty /\ SnapCurrent /\ AccFromSnap /\ ResultMatchesExpr
    BY DEF Init, TodoCopied, FreshIDsEmpty, SnapCurrent, AccFromSnap,
           ResultMatchesExpr, NoResults
<1>3. QED
    BY <1>1, <1>2 DEF IInv

LEMMA AddStep ==
    ASSUME IInv, NEW x \in Exprs, NEW hl \in BOOLEAN, AddQueryExpr(x, hl)
    PROVE  IInv'
<1> DEFINE n == lastID + 1
<1>1. n \in IDs /\ exprs' = [exprs EXCEPT ![n] = [e |-> x, hasLabel |-> hl]]
    BY DEF AddQueryExpr, IInv, TypeOK, IDs
<1>2. snap[n] = None /\ results[n] = None
    BY <1>1 DEF IInv, FreshIDsEmpty, TypeOK, IDs
<1>3. TypeOK'
    BY <1>1 DEF AddQueryExpr, IInv, TypeOK, ExprRec
<1>4. FreshIDsEmpty'
    BY <1>1 DEF AddQueryExpr, IInv, FreshIDsEmpty, TypeOK, IDs
<1>5. (SnapCurrent /\ ResultMatchesExpr)'
    BY <1>1, <1>2 DEF AddQueryExpr, IInv, SnapCurrent, ResultMatchesExpr, TypeOK
<1>6. (TodoCopied /\ AccFromSnap)'
    BY DEF AddQueryExpr, IInv, TodoCopied, AccFromSnap
<1>7. QED
    BY <1>3, <1>4, <1>5, <1>6 DEF IInv

LEMMA QueryStep ==
    ASSUME IInv, NEW id \in IDs, Query(id)
    PROVE  IInv'
<1> DEFINE hit == [expr |-> snap[id].e, at |-> now]
<1>1. snap[id] \in ExprRec
    BY DEF Query, IInv, TodoCopied, TypeOK
<1>2. hit \in Result /\ hit # None
    BY <1>1 DEF IInv, TypeOK, ExprRec, Result
<1>3. id <= lastID
    BY <1>1 DEF IInv, FreshIDsEmpty, TypeOK, IDs
<1>4. acc' = acc \/ acc' = [acc EXCEPT ![id] = hit]
    BY DEF Query
<1>5. TypeOK'
    BY <1>2, <1>4 DEF Query, IInv, TypeOK
<1>6. FreshIDsEmpty'
    BY <1>3, <1>4 DEF Query, IInv, FreshIDsEmpty, TypeOK, IDs
<1>7. AccFromSnap'
    BY <1>1, <1>2, <1>4 DEF Query, IInv, AccFromSnap, TypeOK
<1>8. (TodoCopied /\ SnapCurrent /\ ResultMatchesExpr)'
    BY DEF Query, IInv, TodoCopied, SnapCurrent, ResultMatchesExpr
<1>9. QED
    BY <1>5, <1>6, <1>7, <1>8 DEF IInv

LEMMA RoundEndStep ==
    ASSUME IInv, RoundEnd
    PROVE  IInv'
<1>1. CASE results' = acc
    <2>1. ResultMatchesExpr'
        BY <1>1 DEF RoundEnd, IInv, AccFromSnap, SnapCurrent, ResultMatchesExpr
    <2>2. QED
        BY <1>1, <2>1 DEF RoundEnd, IInv, TypeOK, TodoCopied, FreshIDsEmpty,
                          SnapCurrent, AccFromSnap
<1>2. CASE results' = results
    BY <1>2 DEF RoundEnd, IInv, TypeOK, TodoCopied, FreshIDsEmpty, SnapCurrent,
                AccFromSnap, ResultMatchesExpr
<1>3. QED
    BY <1>1, <1>2 DEF RoundEnd

LEMMA ReadBeginStep ==
    ASSUME IInv, ReadBegin
    PROVE  IInv'
<1>1. CASE pc' = "wait" /\ UNCHANGED <<snap, todo, acc, now>>
    BY <1>1 DEF ReadBegin, IInv, TypeOK, TodoCopied, FreshIDsEmpty, SnapCurrent,
                AccFromSnap, ResultMatchesExpr
<1>2. CASE /\ snap' = exprs /\ todo' = {i \in IDs : exprs[i] # None}
           /\ acc' = NoResults /\ now' = IF now < MaxTime THEN now + 1 ELSE now
           /\ pc' = "query"
    BY <1>2 DEF ReadBegin, IInv, TypeOK, TodoCopied, FreshIDsEmpty, SnapCurrent,
                AccFromSnap, ResultMatchesExpr, NoResults
<1>3. QED
    BY <1>1, <1>2 DEF ReadBegin

\* The invariant is kept by every step.
LEMMA IInvStep ==
    ASSUME IInv, [Next]_vars
    PROVE  IInv'
<1>1. CASE \E x \in Exprs, hl \in BOOLEAN : AddQueryExpr(x, hl)
    BY <1>1, AddStep
<1>2. ASSUME NEW id \in IDs, RemoveQueryExpr(id) PROVE IInv'
    BY <1>2 DEF RemoveQueryExpr, IInv, TypeOK, TodoCopied, FreshIDsEmpty,
                SnapCurrent, AccFromSnap, ResultMatchesExpr
<1>3. ASSUME NEW id \in IDs, Query(id) PROVE IInv'
    BY <1>3, QueryStep
<1>4. CASE Start \/ LoopExit \/ Wait \/ Close
    BY <1>4 DEF Start, LoopExit, Wait, Close, IInv, TypeOK, TodoCopied,
                FreshIDsEmpty, SnapCurrent, AccFromSnap, ResultMatchesExpr
<1>5. CASE ReadBegin
    BY <1>5, ReadBeginStep
<1>6. CASE RoundEnd
    BY <1>6, RoundEndStep
<1>7. CASE UNCHANGED vars
    BY <1>7 DEF vars, IInv, TypeOK, TodoCopied, FreshIDsEmpty, SnapCurrent,
                AccFromSnap, ResultMatchesExpr
<1>8. QED
    BY <1>1, <1>2, <1>3, <1>4, <1>5, <1>6, <1>7 DEF Next

\* GetQueryResult(id) answers the expression registered under id, for any
\* number of ids, expressions and rounds: a result copied before
\* RemoveQueryExpr and stored after it is never served for an expression
\* added later, since AddQueryExpr never reuses an id.
THEOREM ResultsMatchExprs == Spec => []ResultMatchesExpr
<1>1. IInv => ResultMatchesExpr
    BY DEF IInv
<1>2. QED
    BY InitIInv, IInvStep, <1>1, PTL DEF Spec

\* Every reachable state is well typed.
THEOREM PromTypeCorrect == Spec => []TypeOK
<1>1. IInv => TypeOK
    BY DEF IInv
<1>2. QED
    BY InitIInv, IInvStep, <1>1, PTL DEF Spec


-----------------------------------------------------------------------------
(* PromReader implements PromRegistry.  Publish needs two more facts: the  *)
(* round being built is stamped with the round's time, and the clock,     *)
(* read at the start of each round, never goes back, so what is served is *)
(* never newer than now.                                                    *)

TimeInv ==
    /\ \A i \in IDs : acc[i] # None => acc[i].at = now
    /\ \A i \in IDs : results[i] # None => results[i].at <= now

LEMMA TimeStep ==
    ASSUME IInv, TimeInv, [Next]_vars
    PROVE  TimeInv'
<1>1. CASE ReadBegin
    BY <1>1 DEF ReadBegin, TimeInv, NoResults, IInv, TypeOK, Result
<1>2. ASSUME NEW id \in IDs, Query(id) PROVE TimeInv'
    <2>1. acc' = acc \/ acc' = [acc EXCEPT ![id] = [expr |-> snap[id].e, at |-> now]]
        BY <1>2 DEF Query
    <2>2. QED
        BY <1>2, <2>1 DEF Query, TimeInv, IInv, TypeOK
<1>3. CASE RoundEnd
    BY <1>3 DEF RoundEnd, TimeInv, IInv, TypeOK, Result
<1>4. CASE \/ \E x \in Exprs, hl \in BOOLEAN : AddQueryExpr(x, hl)
           \/ \E id \in IDs : RemoveQueryExpr(id)
           \/ Start \/ LoopExit \/ Wait \/ Close \/ UNCHANGED vars
    BY <1>4 DEF AddQueryExpr, RemoveQueryExpr, Start, LoopExit, Wait, Close, vars,
                TimeInv
<1>5. QED
    BY <1>1, <1>2, <1>3, <1>4 DEF Next

\* The round RoundEnd publishes is a round of PromRegistry.
LEMMA RoundEndPublishes ==
    ASSUME IInv, TimeInv, RoundEnd, \E i \in IDs : acc[i] # None
    PROVE  Registry!Publish
<1>1. acc \in [IDs -> Result \cup {None}] /\ now \in 0..MaxTime
    BY DEF IInv, TypeOK
<1>2. acc # Registry!Empty
    BY DEF Registry!Empty, Registry!IDs, IDs
<1>3. ASSUME NEW i \in IDs, acc[i] # None
      PROVE  /\ i <= lastID
             /\ acc[i].at = now
             /\ exprs[i] # None => acc[i].expr = exprs[i].e
    <2>1. i <= lastID
        BY <1>3 DEF IInv, FreshIDsEmpty, TypeOK, IDs
    <2>2. acc[i].at = now
        BY <1>3 DEF TimeInv
    <2>3. exprs[i] # None => acc[i].expr = exprs[i].e
        BY <1>3 DEF IInv, AccFromSnap, SnapCurrent
    <2>4. QED
        BY <2>1, <2>2, <2>3
<1>4. \A i \in IDs : results[i] # None => results[i].at <= now
    BY DEF TimeInv
<1>5. results' = acc /\ UNCHANGED <<exprs, lastID>>
    BY DEF RoundEnd
<1>6. Registry!Round(acc, now)
    BY <1>2, <1>3 DEF Registry!Round, Registry!IDs, IDs
<1>7. QED
    BY <1>1, <1>4, <1>5, <1>6 DEF Registry!Publish, Registry!IDs, Registry!Result, IDs, Result

\* Every step of the reader is a step of PromRegistry or leaves the
\* registered expressions, the id counter and the served results alone.
LEMMA RegistryStep ==
    ASSUME IInv, TimeInv, [Next]_vars
    PROVE  [Registry!Next]_<<exprs, lastID, results>>
<1>1. ASSUME NEW x \in Exprs, NEW hl \in BOOLEAN, AddQueryExpr(x, hl)
      PROVE  Registry!Register(x, hl)
    BY <1>1 DEF AddQueryExpr, Registry!Register
<1>2. ASSUME NEW id \in IDs, RemoveQueryExpr(id)
      PROVE  Registry!Unregister(id)
    BY <1>2 DEF RemoveQueryExpr, Registry!Unregister
<1>3. CASE RoundEnd
    <2>1. CASE \E i \in IDs : acc[i] # None
        BY <1>3, <2>1, RoundEndPublishes DEF Registry!Next
    <2>2. CASE ~\E i \in IDs : acc[i] # None
        BY <1>3, <2>2 DEF RoundEnd
    <2>3. QED
        BY <2>1, <2>2
<1>4. CASE \/ \E id \in IDs : Query(id)
           \/ Start \/ LoopExit \/ ReadBegin \/ Wait \/ Close \/ UNCHANGED vars
    BY <1>4 DEF Query, Start, LoopExit, ReadBegin, Wait, Close, vars
<1>5. QED
    BY <1>1, <1>2, <1>3, <1>4 DEF Next, Registry!Next, Registry!IDs, IDs

\* DefaultMetricsReader implements PromRegistry, for any expressions and
\* bounds: Init maps to the registry's Init, AddQueryExpr to Register,
\* RemoveQueryExpr to Unregister, a round that stores results to Publish,
\* and every other step of the polling goroutine to a stutter.
THEOREM PromRefinesRegistry == Spec => ImplementsRegistry
<1>1. Init => Registry!Init /\ IInv /\ TimeInv
    BY InitIInv DEF Init, Registry!Init, NoResults, Registry!Empty, Registry!IDs, IDs, TimeInv
<1>2. IInv /\ TimeInv /\ [Next]_vars => IInv' /\ TimeInv'
    BY IInvStep, TimeStep
<1>3. IInv /\ TimeInv /\ [Next]_vars => [Registry!Next]_<<exprs, lastID, results>>
    BY RegistryStep
<1>4. QED
    BY <1>1, <1>2, <1>3, PTL DEF Spec, ImplementsRegistry, Registry!Spec

=============================================================================
