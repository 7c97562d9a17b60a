---------------------------- MODULE MCDiscovery ----------------------------
(* Every set of sources, a list of up to three postings of which one is     *)
(* filtered out, one to a page, two pairs of a query and a location, and    *)
(* two searches one after the other.                                        *)
EXTENDS Discovery
=============================================================================
