-------------------------- MODULE MCPackageResources --------------------------
(* An instance of PackageResources for TLC.                                *)
EXTENDS PackageResources, TLC

CONSTANTS a, b, pod, svc, c1, c2, p1, p2, m

MCPackage == {a, b}
MCIn == pod :> a @@ svc :> a
Pkg(mode, sso, ports, probes) == [mode |-> mode, sso |-> sso, ports |-> ports, probes |-> probes]
To(client, selects) == [client |-> client, selects |-> selects]

(* The first package changes its mode, its selectors, its clients and its  *)
(* listeners; the second one shares the gateway and the secret with it.    *)
First == Pkg("ambient", <<To(c1, {pod, svc})>>, {p1}, {m})
MCSpecs == a :> {First, Pkg("ambient", <<To(c2, {svc}), To(c1, {pod, svc})>>, {}, {m}),
                 Pkg("sidecar", <<To(c1, {pod})>>, {p1}, {})}
           @@ b :> {Pkg("ambient", <<>>, {p2}, {m})}
MCInitialSpec == a :> First @@ b :> Pkg("ambient", <<>>, {p2}, {m})
MCMaxChanges == a :> 1 @@ b :> 0
MCInitialStates == a :> {"sidecar"} @@ b :> {"none"}
=============================================================================
