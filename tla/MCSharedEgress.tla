--------------------------- MODULE MCSharedEgress ---------------------------
(* An instance of SharedEgress for TLC.                                    *)
EXTENDS SharedEgress

CONSTANTS p1, p2, h1, h2

Rule(h, protocol) == [key |-> h, protocol |-> protocol]

(* Both modes, two hosts, two protocols for one host and port, and none.   *)
MCWants ==
    {[mode |-> "sidecar", rules |-> {Rule(h1, "TLS"), Rule(h2, "TLS")}],
     [mode |-> "sidecar", rules |-> {Rule(h1, "HTTP")}],
     [mode |-> "ambient", rules |-> {Rule(h1, "TLS")}],
     [mode |-> "ambient", rules |-> {}]}

=============================================================================
