------------------------------ MODULE MCFilter ------------------------------
(* The capture filter on every statement of up to three keywords drawn    *)
(* from the first words of the sensitive prefixes and two ordinary ones.   *)
EXTENDS Filter

MCTokens == {"CREATE", "USER", "ALTER", "SET", "PASSWORD", "GRANT", "LOAD",
             "DATA", "BACKUP", "TABLE", "SELECT"}

=============================================================================
