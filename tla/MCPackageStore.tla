--------------------------- MODULE MCPackageStore ---------------------------
(* Instances of PackageStore: two namespaces, two package names in one of    *)
(* them, one client id and one UDP port that several packages want.          *)
EXTENDS PackageStore

MCTokens(s) == <<s>>

Client(id) ==
  [clientId |-> id, standardFlowEnabled |-> TRUE, publicClient |-> FALSE,
   serviceAccountsEnabled |-> FALSE, protocol |-> "openid-connect",
   redirectUris |-> <<"/login">>, attributes |-> <<>>, secret |-> None,
   enableAuthserviceSelector |-> None, secretConfig |-> None, secretName |-> None,
   secretLabels |-> None, secretAnnotations |-> None, secretTemplate |-> None]

UDPExpose(port) ==
  [protocol |-> "UDP", description |-> "dns", host |-> None, gateway |-> None,
   domain |-> None, service |-> "dns", port |-> port, targetPort |-> None,
   selector |-> <<<<"app", "dns">>>>, podLabels |-> None, match |-> None,
   advancedHTTP |-> None, uptime |-> <<>>]

Pkg(ns, name, sso, expose) ==
  [namespace |-> ns, name |-> name, deleting |-> FALSE, mode |-> None,
   expose |-> expose, allow |-> <<>>, sso |-> sso, monitor |-> <<>>]

MCDraft ==
  {Pkg("team-a", "web", <<Client("login")>>, <<UDPExpose("53")>>),
   Pkg("team-a", "web", <<>>, <<>>),
   Pkg("team-a", "other", <<Client("login")>>, <<>>),
   Pkg("team-b", "web", <<Client("login")>>, <<UDPExpose("53")>>)}
=============================================================================
