----------------------------- MODULE MCCatalog -----------------------------
(***************************************************************************)
(* A small instance of Catalog for TLC.                                    *)
(***************************************************************************)
EXTENDS Catalog

\* Host names that differ in case are one source to the proxy.
Sources == {"Shop:80", "shop:80"}
Lowercase(source) == IF source = "Shop:80" THEN "shop:80" ELSE source

=============================================================================
