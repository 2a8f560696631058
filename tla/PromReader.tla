---------------------------- MODULE PromReader ----------------------------
(***************************************************************************)
(* The Prometheus metrics reader DefaultMetricsReader (metricsreader,      *)
(* src/unnamed/part_003).  Callers register PromQL expressions under ids   *)
(* from a counter; a goroutine started by Start copies the expressions     *)
(* under the lock, queries Prometheus for each without the lock, and       *)
(* replaces the whole result map when at least one query succeeded.  An    *)
(* expression with a label placeholder is tried with "job" and then with   *)
(* "component".  Close cancels the goroutine and waits for it.             *)
(*                                                                         *)
(* A query result is abstracted to the expression it answers and the round *)
(* time it was asked at; Prometheus answers each query nondeterministically *)
(* with data, an empty result or an error (retries included).              *)
(***************************************************************************)
EXTENDS Integers, FiniteSets

CONSTANTS
    Exprs,     \* the PromQL expressions callers register
    MaxID,     \* bound on AddQueryExpr calls (lastID)
    MaxTime,   \* bound on the clock read at the start of a round
    None       \* an absent map entry

IDs == 1..MaxID
ExprRec == [e : Exprs, hasLabel : BOOLEAN]
Result == [expr : Exprs, at : 0..MaxTime]

ASSUME PromAssumption ==
    /\ MaxID \in Nat /\ MaxTime \in Nat
    /\ None \notin ExprRec \cup Result

VARIABLES
    exprs,     \* queryExprs: id -> [e, hasLabel], None when absent
    lastID,
    results,   \* queryResults: id -> [expr, at], None when absent
    pc,        \* the loop goroutine: "off", "loop", "query", "wait", "exit"
    snap,      \* copyedMap taken by readMetrics
    todo,      \* ids of snap not yet queried in this round
    acc,       \* the results map readMetrics is building
    now,       \* time.Now() of the current round
    canceled,  \* childCtx is canceled
    closing    \* Close was called

vars == <<exprs, lastID, results, pc, snap, todo, acc, now, canceled,
          closing>>

NoResults == [i \in IDs |-> None]

\* AddQueryExpr: lastID++ and store the expression under the new id.
AddQueryExpr(x, hl) ==
    /\ lastID < MaxID
    /\ exprs' = [exprs EXCEPT ![lastID + 1] = [e |-> x, hasLabel |-> hl]]
    /\ lastID' = lastID + 1
    /\ UNCHANGED <<results, pc, snap, todo, acc, now, canceled, closing>>

\* RemoveQueryExpr: delete the id from queryExprs (a missing id is a no-op).
RemoveQueryExpr(id) ==
    /\ exprs[id] # None
    /\ exprs' = [exprs EXCEPT ![id] = None]
    /\ UNCHANGED <<lastID, results, pc, snap, todo, acc, now, canceled, closing>>

----------------------------------------------------------------------------

Init ==
    /\ exprs = [i \in IDs |-> None]
    /\ lastID = 0
    /\ results = NoResults
    /\ pc = "off"
    /\ snap = [i \in IDs |-> None]
    /\ todo = {}
    /\ acc = NoResults
    /\ now = 0
    /\ canceled = FALSE
    /\ closing = FALSE

\* Start (with a Prometheus fetcher): keep the cancel func, run the loop.
Start ==
    /\ pc = "off" /\ ~closing
    /\ pc' = "loop"
    /\ UNCHANGED <<exprs, lastID, results, snap, todo, acc, now, canceled, closing>>

\* The loop condition childCtx.Err() == nil fails: the goroutine returns.
LoopExit ==
    /\ pc = "loop" /\ canceled
    /\ pc' = "exit"
    /\ UNCHANGED <<exprs, lastID, results, snap, todo, acc, now, canceled, closing>>

\* readMetrics up to the queries: getPromAPI fails (the round ends with an
\* error and no result change), or the expressions are copied under the
\* lock and the clock is read.
ReadBegin ==
    /\ pc = "loop" /\ ~canceled
    /\ \/ /\ pc' = "wait"
          /\ UNCHANGED <<snap, todo, acc, now>>
       \/ /\ snap' = exprs
          /\ todo' = {i \in IDs : exprs[i] # None}
          /\ acc' = NoResults
          /\ now' = IF now < MaxTime THEN now + 1 ELSE now
          /\ pc' = "query"
    /\ UNCHANGED <<exprs, lastID, results, canceled, closing>>

\* queryMetric for one copied expression, outside the lock.  Without a
\* label it is one queryOnce.  With one, "job" is tried first and
\* "component" after an error or an empty answer; the expression whose
\* label was found is a local copy, so queryExprs keeps hasLabel.  A
\* canceled context makes every query fail.
Query(id) ==
    /\ pc = "query" /\ id \in todo
    /\ LET x   == snap[id]
           hit == [expr |-> x.e, at |-> now]
       IN  \E ok \in BOOLEAN :
              /\ canceled => ~ok
              /\ acc' = IF ok THEN [acc EXCEPT ![id] = hit] ELSE acc
    /\ todo' = todo \ {id}
    /\ UNCHANGED <<exprs, lastID, results, pc, snap, now, canceled, closing>>

\* Mutant: queryResults is replaced even by an empty map.
RoundEndAlways ==
    /\ pc = "query" /\ todo = {}
    /\ results' = acc
    /\ pc' = "wait"
    /\ UNCHANGED <<exprs, lastID, snap, todo, acc, now, canceled, closing>>

\* readMetrics returns; when some query succeeded queryResults is replaced
\* by the new map under the lock.
RoundEnd ==
    /\ pc = "query" /\ todo = {}
    /\ results' = IF \E i \in IDs : acc[i] # None THEN acc ELSE results
    /\ pc' = "wait"
    /\ UNCHANGED <<exprs, lastID, snap, todo, acc, now, canceled, closing>>

\* The select on the ticker and on childCtx.Done().
Wait ==
    /\ pc = "wait"
    /\ \/ pc' = "loop"
       \/ canceled /\ pc' = "exit"
    /\ UNCHANGED <<exprs, lastID, results, snap, todo, acc, now, canceled, closing>>

\* Mutant: Close does not cancel the loop.
CloseNoCancel ==
    /\ ~closing
    /\ closing' = TRUE
    /\ UNCHANGED <<exprs, lastID, results, pc, snap, todo, acc, now, canceled>>

\* Close: cancel the loop if Start ran, then wait for it.
Close ==
    /\ ~closing
    /\ closing' = TRUE
    /\ canceled' = (pc # "off")
    /\ UNCHANGED <<exprs, lastID, results, pc, snap, todo, acc, now>>

Next ==
    \/ \E x \in Exprs, hl \in BOOLEAN : AddQueryExpr(x, hl)
    \/ \E id \in IDs : RemoveQueryExpr(id) \/ Query(id)
    \/ Start \/ LoopExit \/ ReadBegin \/ RoundEnd \/ Wait \/ Close

\* The loop goroutine runs its steps; the ticker keeps firing.
Fairness ==
    /\ WF_vars(LoopExit) /\ WF_vars(ReadBegin) /\ WF_vars(RoundEnd)
    /\ WF_vars(Wait) /\ \A id \in IDs : WF_vars(Query(id))

Spec == Init /\ [][Next]_vars /\ Fairness

----------------------------------------------------------------------------

TypeOK ==
    /\ exprs \in [IDs -> ExprRec \cup {None}]
    /\ lastID \in 0..MaxID
    /\ results \in [IDs -> Result \cup {None}]
    /\ pc \in {"off", "loop", "query", "wait", "exit"}
    /\ snap \in [IDs -> ExprRec \cup {None}]
    /\ todo \subseteq IDs
    /\ acc \in [IDs -> Result \cup {None}]
    /\ now \in 0..MaxTime
    /\ canceled \in BOOLEAN /\ closing \in BOOLEAN

\* GetQueryResult(id) answers the expression registered under id: a query
\* copied before RemoveQueryExpr and stored after it never shows up as the
\* result of an expression added later, because AddQueryExpr never reuses
\* an id.
ResultMatchesExpr ==
    \A i \in IDs : results[i] # None /\ exprs[i] # None => results[i].expr = exprs[i].e

\* What the reader promises its callers (PromRegistry): ids are fresh, and
\* GetQueryResult only ever changes to a whole non-empty round, taken no
\* earlier than the results it replaces, that answers the registered
\* expressions.  The polling loop, the snapshot and the clock are hidden.
Registry == INSTANCE PromRegistry
ImplementsRegistry == Registry!Spec

\* Close returns: once Close is called, the loop goroutine it waits on
\* exits (or never started).
CloseReturns == closing ~> pc \in {"off", "exit"}

\* The comment at readMetrics says a result is only updated when its query
\* succeeds: a registered expression that has a result keeps one.
LastGoodResultKept ==
    [][\A i \in IDs :
          exprs[i] # None /\ exprs'[i] # None /\ results[i] # None
             => results'[i] # None]_vars

=============================================================================
