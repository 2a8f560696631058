------------------------------- MODULE Filter -------------------------------
(***************************************************************************)
(* The capture filter of pkg/sqlreplay/capture/filter.go: IsSensitiveSQL   *)
(* decides from the leading keywords of a statement whether the capture    *)
(* must redact it.  A statement is abstracted to the sequence of keywords  *)
(* the lexer (pkg/util/lex) returns for it, already upper-cased, with      *)
(* whitespace and comments skipped; the empty string marks the end.        *)
(***************************************************************************)
EXTENDS Naturals, Sequences

CONSTANTS
    Tokens,     \* the keywords a statement may be made of
    MaxTokens   \* bound on the number of keywords of a statement

ASSUME FilterAssumption ==
    /\ MaxTokens \in Nat
    /\ "" \notin Tokens

\* sensitiveKeywords: statements that carry passwords or cloud storage
\* URLs, or that the replay does not support.
SensitiveKeywords ==
    << <<"CREATE", "USER">>, <<"ALTER", "USER">>, <<"SET", "PASSWORD">>,
       <<"GRANT">>, <<"BACKUP">>, <<"RESTORE">>, <<"IMPORT">>,
       <<"LOAD", "DATA">> >>

\* The statements TLC enumerates.
SQLs == UNION {[1..n -> Tokens] : n \in 0..MaxTokens}

\* lexer.NextToken() when the lexer is at keyword p: "" past the end.
NextToken(sql, p) == IF p <= Len(sql) THEN sql[p] ELSE ""

\* The lexer is not advanced before the second keyword is compared
\* (fault injection).
SecondTokenNotAdvanced(sql, p) == NextToken(sql, p - 1)

\* keyword = lexer.NextToken() for the second word of entry kw: the lexer
\* has returned p - 1 keywords so far.
SecondToken(sql, p) == NextToken(sql, p)

\* The loop over sensitiveKeywords from entry i, with the current value of
\* keyword and the lexer at position p.  A first-word match of a two-word
\* entry reads the next keyword into keyword itself, so the entries after
\* it are compared with that second keyword.
RECURSIVE Scan(_, _, _, _)
Scan(sql, i, keyword, p) ==
    IF i > Len(SensitiveKeywords) THEN FALSE
    ELSE LET kw == SensitiveKeywords[i] IN
         IF keyword # kw[1] THEN Scan(sql, i + 1, keyword, p)
         ELSE IF Len(kw) <= 1 THEN TRUE
         ELSE LET next == SecondToken(sql, p) IN
              IF next = kw[2] THEN TRUE
              ELSE Scan(sql, i + 1, next, p + 1)

IsSensitiveSQL(sql) ==
    LET keyword == NextToken(sql, 1) IN
    IF keyword = "" THEN FALSE ELSE Scan(sql, 1, keyword, 2)

\* The spec's rule (4.3): the statement's leading keywords are one of the
\* sensitive prefixes.
IsSensitiveRef(sql) ==
    \E i \in 1..Len(SensitiveKeywords) :
        LET kw == SensitiveKeywords[i] IN
        /\ Len(sql) >= Len(kw)
        /\ \A j \in 1..Len(kw) : sql[j] = kw[j]

-----------------------------------------------------------------------------
(* A capture classifies one statement at a time.                          *)

VARIABLES sql, verdict

vars == <<sql, verdict>>

Init ==
    /\ sql \in SQLs
    /\ verdict = "pending"

Classify ==
    /\ verdict = "pending"
    /\ verdict' = IF IsSensitiveSQL(sql) THEN "redact" ELSE "keep"
    /\ UNCHANGED sql

Spec == Init /\ [][Classify]_vars

TypeOK ==
    /\ sql \in SQLs
    /\ verdict \in {"pending", "redact", "keep"}

\* No credential leaks into the capture: every statement that starts with a
\* sensitive prefix is redacted by IsSensitiveSQL, whichever entries of
\* sensitiveKeywords were tried before its own.
NoFalseNegative ==
    verdict # "pending" /\ IsSensitiveRef(sql) => verdict = "redact"

=============================================================================
