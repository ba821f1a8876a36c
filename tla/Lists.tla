------------------------------- MODULE Lists -------------------------------
(***************************************************************************)
(* Lists made of the places or the elements of other lists.                *)
(***************************************************************************)
EXTENDS Integers, FiniteSets, Sequences

\* The places in E from the first to the last.
Ascending(E) ==
    [k \in 1..Cardinality(E) |-> CHOOSE i \in E : Cardinality({j \in E : j <= i}) = k]

\* The elements of s that are in S, in order.
Keeping(s, S) ==
    LET at == Ascending({i \in DOMAIN s : s[i] \in S}) IN [k \in DOMAIN at |-> s[at[k]]]

=============================================================================
