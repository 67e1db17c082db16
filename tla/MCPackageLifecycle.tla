------------------------- MODULE MCPackageLifecycle -------------------------
(* Instances of PackageLifecycle for TLC.                                  *)
EXTENDS PackageLifecycle

CONSTANTS a, b, t1, t2

MCTasks == {t1, t2}

MCOneClient == {a}
MCTwoClients == {a, b}

(* An authservice client, or no SSO.                                       *)
MCSpecsOne ==
    {[sso |-> {a}, auth |-> {a}], [sso |-> {}, auth |-> {}]}

(* One and two authservice clients, or a plain client.                     *)
MCSpecsTwo ==
    {[sso |-> {a}, auth |-> {a}], [sso |-> {a, b}, auth |-> {a, b}], [sso |-> {b}, auth |-> {}]}

=============================================================================
