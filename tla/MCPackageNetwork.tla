--------------------------- MODULE MCPackageNetwork -------------------------
(* Specs of one package: with and without SSO, in both mesh modes, with     *)
(* deprecated fields, with clients that overlap, and some the webhook must  *)
(* refuse.                                                                  *)
EXTENDS PackageNetwork

MCTokens(s) == <<s>>

Web == <<<<"app", "web">>>>
Db == <<<<"app", "db">>>>
WebFront == <<<<"app", "web">>, <<"tier", "front">>>>
MCWorkload == {Web, Db, WebFront}

Client(id, selector) ==
  [clientId |-> id, standardFlowEnabled |-> TRUE, publicClient |-> FALSE,
   serviceAccountsEnabled |-> FALSE, protocol |-> "openid-connect",
   redirectUris |-> <<"/login">>, attributes |-> <<>>, secret |-> None,
   enableAuthserviceSelector |-> selector, secretConfig |-> None, secretName |-> None,
   secretLabels |-> None, secretAnnotations |-> None, secretTemplate |-> None]

OldClient(id, selector) ==
  [Client(id, selector) EXCEPT !.secretName = "old", !.secretLabels = <<<<"a", "b">>>>,
                               !.secretConfig = [NoSecretConfig EXCEPT !.name = "new"]]

HTTP(host, selector, gw) ==
  [protocol |-> None, description |-> None, host |-> host, gateway |-> gw,
   domain |-> None, service |-> "svc", port |-> "80", targetPort |-> "8080",
   selector |-> selector, podLabels |-> None, match |-> None,
   advancedHTTP |-> None, uptime |-> <<>>]

Redirect(host) ==
  [HTTP(host, None, "tenant") EXCEPT !.service = None, !.port = None, !.targetPort = None,
     !.advancedHTTP = [match |-> None, directResponse |-> TRUE]]

UDPExpose == [HTTP(None, Db, None) EXCEPT !.protocol = "UDP"]

Scrape(selector, podSelector, port, kind) ==
  [kind |-> kind, description |-> None, selector |-> selector, podSelector |-> podSelector,
   portName |-> "http", targetPort |-> port, path |-> None]

From(ns, labels, selector) ==
  [Rule("Ingress", selector, ns, labels, "8080", None) EXCEPT !.remoteProtocol = None]

To(field, value) ==
  [Rule("Egress", Db, None, None, "443", None) EXCEPT ![field] = value]

Old(a) == [a EXCEPT !.podLabels = a.selector, !.selector = None,
                    !.remotePodLabels = a.remoteSelector, !.remoteSelector = None]

Peer == <<<<"app", "peer">>>>

Pkg(mode, expose, allow, sso, monitor) ==
  [namespace |-> "team", name |-> "web", deleting |-> FALSE, mode |-> mode,
   expose |-> expose, allow |-> allow, sso |-> sso, monitor |-> monitor]

Protected(mode, client) ==
  Pkg(mode, <<HTTP("web", Web, None)>>, <<From("peer", Peer, Web), To("remoteGenerated", "KubeAPI")>>,
      <<client>>, <<Scrape(Web, None, "8080", None)>>)

Plain(mode) ==
  Pkg(mode, <<HTTP("web", Web, "tenant"), HTTP("db", Db, "admin"), UDPExpose>>,
      <<Old(From("peer", Peer, Db)), From("*", None, Web), To("remoteHost", "example.com")>>,
      <<>>, <<Scrape(Web, None, "9090", "PodMonitor"), Scrape(Web, Db, "9091", "ServiceMonitor")>>)

MCDraft ==
  {Protected("ambient", Client("login", Web)), Protected("sidecar", Client("login", Web)),
   Protected("ambient", OldClient("login", <<>>)), Protected(None, Client("front", WebFront)),
   Plain("ambient"), Plain("sidecar"),
   Pkg("ambient", <<HTTP("web", Web, None), HTTP("db", Db, None)>>,
       <<From("peer", Peer, Web), From("peer", Peer, Db), To("remoteCidr", "10.0.0.0/8")>>,
       <<Client("login", Web), Client("db-login", Db)>>,
       <<Scrape(Web, Db, "9090", None), Scrape(Db, None, "9090", None)>>),
   Pkg("ambient", <<Redirect("old")>>, <<To("remoteGenerated", "Anywhere"), From("peer", None, None)>>,
       <<Client("login", Web), Client("all", <<>>)>>, <<Scrape(Web, None, "15020", None)>>),
   Pkg("ambient", <<>>, <<[To("remoteGenerated", "KubeNodes") EXCEPT !.remoteCidr = "10.0.0.0/8"]>>, <<>>, <<>>)}

MCColliding ==
  {Pkg("ambient", <<HTTP("web", <<<<"app", "web">>>>, None), HTTP("other", <<<<"name", "web">>>>, None)>>,
       <<>>, <<>>, <<>>)}
=============================================================================
