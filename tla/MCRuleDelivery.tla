-------------------------- MODULE MCRuleDelivery --------------------------
(***************************************************************************)
(* Small instances of RuleDelivery for TLC.                                *)
(***************************************************************************)
EXTENDS RuleDelivery, TLC

NoDelete == {"error", "evict", "expire"}
DeleteExpire == {"delete", "expire"}

\* Tasks, versions, graphs and classes are interchangeable in safety properties.
Symmetry == Permutations(VersionId) \union Permutations(Graph)
            \union Permutations(Class) \union Permutations(Request)
            \union Permutations(Refresher)

=============================================================================
