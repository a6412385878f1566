----------------------------- MODULE LogicalNets ------------------------------
(***************************************************************************)
(* What a Document says about its circuit (packages/derived) and what the  *)
(* edits of packages/edit-engine do to it.                                 *)
(*                                                                         *)
(* A Base Net owns terminals: it is what wires and contacts join.  Names   *)
(* are claims on Base Nets, each owned by a label, by a power marker or by *)
(* the declaration of an imported netlist; nets whose claims agree on name *)
(* and scope are one logical net, and stay separate Base Nets.             *)
(*                                                                         *)
(* Geometry is kept as far as contacts need it: a terminal and a Junction  *)
(* lie at a point, a Route joins two of them and may pass over one more.   *)
(* An instance contributes one pin (a body is the B pin of an NMOS, whose  *)
(* policy may bind it to the Cell's bulk default), and one imported net is *)
(* the source of every spice-source evidence.                              *)
(***************************************************************************)
EXTENDS Integers, FiniteSets, FiniteSetsExt

CONSTANTS Pins,       \* ordinary device pins
          Bodies,     \* B pins of NMOS instances
          Grounds,    \* the pins of Ground markers
          Supplies,   \* the pins of VDD markers
          Junctions, Routes, Labels,   \* ids the Document may use
          LabelNames, \* what a label may say
          Points, At, \* where things lie; the place of each terminal
          MaxNets,    \* bound of a run: ids for Base Nets
          None

Markers == Grounds \cup Supplies
Terminals == Pins \cup Bodies \cup Markers
Endpoints == Terminals \cup Junctions
NetIds == 1..MaxNets

ASSUME LogicalNetsAssumption ==
    /\ MaxNets \in Nat
    /\ At \in [Terminals -> Points]
    /\ None \notin NetIds /\ None \notin Points
    /\ None \notin Endpoints /\ None \notin LabelNames
    /\ IsFiniteSet(Endpoints) /\ IsFiniteSet(LabelNames)
    /\ Terminals \cap Junctions = {} /\ Endpoints \cap Routes = {}
    /\ Bodies \cap (Pins \cup Markers) = {}
    /\ Labels \cap (Markers \cup {"declaration"}) = {} /\ "declaration" \notin Markers

Claim == [owner : Labels \cup Markers \cup {"declaration"}, net : NetIds,
          name : LabelNames \cup {"0", "vdd"}, scope : {"local", "global"},
          power : {"none", "ground", "vdd"}]

PartialFunction(f, S, T) ==
    DOMAIN f \subseteq S /\ f \in [DOMAIN f -> T]

IsDocument(d) ==
    /\ d = [nets |-> d.nets, on |-> d.on, placed |-> d.placed,
            juncs |-> d.juncs, routes |-> d.routes, labels |-> d.labels,
            claims |-> d.claims, sources |-> d.sources,
            default |-> d.default, bound |-> d.bound, status |-> d.status]
    /\ d.nets \subseteq NetIds
    /\ d.on \in [Terminals -> NetIds \cup {None}]
    /\ d.placed \subseteq Terminals
    /\ PartialFunction(d.juncs, Junctions, [net : NetIds, at : Points])
    /\ PartialFunction(d.routes, Routes,
          [net : NetIds, from : Endpoints, to : Endpoints, bulk : BOOLEAN,
           over : Points \cup {None}])
    /\ PartialFunction(d.labels, Labels,
          [net : NetIds, anchor : Endpoints \cup Routes])
    /\ d.claims \subseteq Claim
    /\ d.sources \subseteq NetIds
    /\ d.default \in NetIds \cup {None}
    /\ d.bound \subseteq Bodies
    /\ d.status \in {"in-sync", "connectivity-modified"}

-------------------------------------------------------------------------------
\* Endpoints, where they lie and which of them can be seen.

EndsOf(r) == {r.from, r.to}

Owner(d, e) ==
    IF e \in Terminals THEN d.on[e]
    ELSE IF e \in DOMAIN d.juncs THEN d.juncs[e].net ELSE None

PointOf(d, e) ==
    CASE e \in d.placed -> At[e]
      [] e \in DOMAIN d.juncs -> d.juncs[e].at
      [] OTHER -> None

netEndpoints(d, n) == {e \in Terminals \cup DOMAIN d.juncs : Owner(d, e) = n}

RoutesOf(d, n) == {r \in DOMAIN d.routes : d.routes[r].net = n}

RoutesAt(d, e) == {r \in DOMAIN d.routes : e \in EndsOf(d.routes[r])}

hasExplicitMosBulkRoute(d, b) == \E r \in RoutesAt(d, b) : d.routes[r].bulk

\* The pin of a body is drawn only for a connection somebody made by hand.
isVisibleEndpoint(d, e) ==
    e \in Bodies =>
        \/ hasExplicitMosBulkRoute(d, e)
        \/ d.on[e] # None /\ e \notin d.bound /\ d.on[e] # d.default

VisibleEndpoints(d) ==
    {e \in d.placed \cup DOMAIN d.juncs : isVisibleEndpoint(d, e)}

Coincident(d, e, f) ==
    /\ e # f
    /\ {e, f} \subseteq VisibleEndpoints(d)
    /\ PointOf(d, e) = PointOf(d, f)

-------------------------------------------------------------------------------
\* The members of S that a chain of pairs in R joins to x.
Component(x, S, R) ==
    LET grown[found \in SUBSET S] ==
            LET more == {y \in S \ found : \E z \in found : <<z, y>> \in R}
            IN  IF more = {} THEN found ELSE grown[found \cup more]
    IN  grown[{x}]

\* Two endpoints of net n that a Route or a direct contact joins.
Wired(d, n, e, f) ==
    \/ \E r \in RoutesOf(d, n) : EndsOf(d.routes[r]) = {e, f}
    \/ Coincident(d, e, f)

\* Mutant: endpoints that touch without a Route between them fall apart.
RouteGroups(d, n) ==
    LET members == netEndpoints(d, n)
        routed == {p \in members \X members :
                     \E r \in RoutesOf(d, n) : EndsOf(d.routes[r]) = {p[1], p[2]}}
    IN  {Component(e, members, routed) : e \in members}

WiredPairs(d, n) ==
    {p \in netEndpoints(d, n) \X netEndpoints(d, n) : Wired(d, n, p[1], p[2])}

netEndpointGroups(d, n) ==
    {Component(e, netEndpoints(d, n), WiredPairs(d, n)) : e \in netEndpoints(d, n)}

\* Base Nets on which a name is claimed in one scope.
NamedAlike(d) ==
    {p \in d.nets \X d.nets :
        \E c \in d.claims, e \in d.claims :
            /\ c.net = p[1] /\ e.net = p[2]
            /\ c.scope = e.scope /\ c.name = e.name}

\* The Base Nets that a chain of equal names joins to n.
LogicalNet(d, n) == Component(n, d.nets, NamedAlike(d))

ClaimsOn(d, ns) == {c \in d.claims : c.net \in ns}
NamesOn(d, ns) == {c.name : c \in ClaimsOn(d, ns)}
PowersOn(d, ns) == {c.power : c \in ClaimsOn(d, ns)} \ {"none"}
ScopesOn(d, ns) ==
    IF ClaimsOn(d, ns) = {} THEN {"local"}
    ELSE {c.scope : c \in ClaimsOn(d, ns)}

Sole(S) == IF Cardinality(S) = 1 THEN CHOOSE x \in S : TRUE ELSE None

NameOf(d, n) == Sole(NamesOn(d, LogicalNet(d, n)))
ScopeOf(d, n) ==
    LET ns == LogicalNet(d, n)
    IN  IF Cardinality(ScopesOn(d, ns)) = 1 THEN Sole(ScopesOn(d, ns))
        ELSE IF Cardinality(NamesOn(d, ns)) = 1 THEN "global" ELSE None
PowerOf(d, n) ==
    LET powers == PowersOn(d, LogicalNet(d, n))
    IN  CASE powers = {} -> "none"
          [] Cardinality(powers) > 1 -> "conflict"
          [] OTHER -> Sole(powers)

\* validateLogicalNetContract: each conflict with the nets it is on.
Conflicts(d) ==
    UNION {LET ns == LogicalNet(d, n)
           IN  {issue \in {<<"name", ns>>, <<"scope", ns>>, <<"power", ns>>} :
                  CASE issue[1] = "name" -> Cardinality(NamesOn(d, ns)) > 1
                    [] issue[1] = "scope" -> ScopeOf(d, n) = None
                    [] OTHER -> PowerOf(d, n) = "conflict"} : n \in d.nets}

\* What the Document schema asks of the electrical records, and validateRoute
\* of each Route.
WellFormed(d) ==
    /\ \A t \in Terminals : d.on[t] \in d.nets \cup {None}
    /\ \A j \in DOMAIN d.juncs : d.juncs[j].net \in d.nets
    /\ \A r \in DOMAIN d.routes :
          \A e \in EndsOf(d.routes[r]) : /\ Owner(d, e) = d.routes[r].net
                                         /\ PointOf(d, e) # None
    /\ \A l \in DOMAIN d.labels :
          /\ d.labels[l].net \in d.nets
          /\ d.labels[l].anchor \in
                Terminals \cup DOMAIN d.juncs \cup DOMAIN d.routes
    /\ \A c \in d.claims :
          /\ c.net \in d.nets
          /\ CASE c.owner \in Labels ->
                    c.owner \in DOMAIN d.labels /\ d.labels[c.owner].net = c.net
               [] c.owner \in Markers -> d.on[c.owner] = c.net
               [] OTHER -> c.net \in d.sources
    /\ d.sources \subseteq d.nets
    /\ d.default \in d.nets \cup {None}
    /\ \A b \in d.bound : d.on[b] # None
===============================================================================
