--------------------------- MODULE PromRegistry ---------------------------
(***************************************************************************)
(* What DefaultMetricsReader promises its callers, without the polling     *)
(* goroutine: AddQueryExpr hands out a fresh id, RemoveQueryExpr forgets   *)
(* one, and GetQueryResult serves a map that changes only when a whole     *)
(* round is published.  A published round is non-empty, was taken at one  *)
(* time no older than the results it replaces, and each entry answers the  *)
(* expression registered under its id (or an id removed since).           *)
(***************************************************************************)
EXTENDS Integers

CONSTANTS Exprs, MaxID, MaxTime, None

VARIABLES exprs, lastID, results

IDs == 1..MaxID
ExprRec == [e : Exprs, hasLabel : BOOLEAN]
Result == [expr : Exprs, at : 0..MaxTime]
Empty == [i \in IDs |-> None]

Init ==
    /\ exprs = [i \in IDs |-> None]
    /\ lastID = 0
    /\ results = Empty

Register(x, hl) ==
    /\ lastID < MaxID
    /\ exprs' = [exprs EXCEPT ![lastID + 1] = [e |-> x, hasLabel |-> hl]]
    /\ lastID' = lastID + 1
    /\ UNCHANGED results

Unregister(id) ==
    /\ exprs[id] # None
    /\ exprs' = [exprs EXCEPT ![id] = None]
    /\ UNCHANGED <<lastID, results>>

\* The round taken at time t answers r.
Round(r, t) ==
    /\ r # Empty
    /\ \A i \in IDs : r[i] # None =>
          /\ i <= lastID
          /\ r[i].at = t
          /\ exprs[i] # None => r[i].expr = exprs[i].e

Publish ==
    \E r \in [IDs -> Result \cup {None}], t \in 0..MaxTime :
        /\ Round(r, t)
        /\ \A i \in IDs : results[i] # None => results[i].at <= t
        /\ results' = r
        /\ UNCHANGED <<exprs, lastID>>

Next ==
    \/ \E x \in Exprs, hl \in BOOLEAN : Register(x, hl)
    \/ \E id \in IDs : Unregister(id)
    \/ Publish

Spec == Init /\ [][Next]_<<exprs, lastID, results>>

=============================================================================
