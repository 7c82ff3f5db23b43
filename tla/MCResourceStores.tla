-------------------------- MODULE MCResourceStores --------------------------
(* Two threads, two documents, a subscriber for each, two writing requests.  *)
EXTENDS ResourceStores, TLC

CONSTANTS k1, k2, s1, s2, w1, w2

MCStores == AllStores
MCWatch == (s1 :> k1) @@ (s2 :> k2)
\* The path of k1 is contained in the URI of k2, as imsi-..1 in imsi-..10.
MCContains == (k1 :> {k1}) @@ (k2 :> {k1, k2})
WorkerSymmetry == Permutations(Workers)
=============================================================================
