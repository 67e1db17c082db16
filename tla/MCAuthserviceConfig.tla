------------------------ MODULE MCAuthserviceConfig ------------------------
(* Instances of AuthserviceConfig for TLC.                                 *)
EXTENDS AuthserviceConfig

CONSTANTS a1, r1, g1

=============================================================================
