--------------------------- MODULE MCClusterConfig ---------------------------
(* A watcher and one admission replica, certificates of the administrator's *)
(* own and shipped ones, one spec whose certificates do not parse.          *)
EXTENDS ClusterConfig, TLC

CONSTANTS w, a, c1, bad, d1, d2, cidr

MCSpec(certs, includes, nodes, domain, exemptAll) ==
  [certs |-> certs, includes |-> includes, cidrs |-> [api |-> None, nodes |-> nodes],
   domain |-> domain, exemptAll |-> exemptAll]

MCInitial == MCSpec(None, {"dod"}, None, None, FALSE)
MCSpecs == {MCInitial, MCSpec(c1, {"dod"}, cidr, "example.org", TRUE), MCSpec(bad, {}, None, None, FALSE)}
MCShippedCerts == {[dod |-> d1], [dod |-> d2]}
MCInitialShipped == [dod |-> d1]
MCSecrets == {[redis |-> None, mode |-> "AUTO"], [redis |-> "uri", mode |-> "SIGNED_JWT"]}
MCInitialSecret == [redis |-> None, mode |-> "AUTO"]
=============================================================================
