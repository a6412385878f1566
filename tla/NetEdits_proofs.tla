--------------------------- MODULE NetEdits_proofs ----------------------------
(***************************************************************************)
(* What the operators of LogicalNets and NetEdits do, for every Document:  *)
(*                                                                         *)
(*  - Component is reachability, so logical nets and the groups of a cut   *)
(*    are the least sets that names, or Routes and contacts, close;        *)
(*  - every edit takes a Document whose records are on nets that exist to  *)
(*    another one;                                                         *)
(*  - a net keeps something that stands on it, except where an edit takes  *)
(*    it away; a label that names the net it stands on goes on doing so;   *)
(*    Junctions stay on the nets of their Routes;                          *)
(*  - a net that is torn falls into its groups, each on a net of its own,  *)
(*    and what was said of it is said of the parts of those who said it;   *)
(*  - what restates or retires a claim nobody needs leaves every logical   *)
(*    net with its names, scope and supply, given what is said of node 0.  *)
(*                                                                         *)
(* The theorems of executeTransaction rest on these lemmas.                *)
(***************************************************************************)
EXTENDS EditTransaction, FiniteSetTheorems, NaturalsInduction,
        WellFoundedInduction, TLAPS

\* The fields of a Document, and that d is a record of them.
Fields == {"nets", "on", "placed", "juncs", "routes", "labels", "claims",
           "sources", "default", "bound", "status"}

IsRecord(d) == d = [f \in Fields |-> d[f]]

-------------------------------------------------------------------------------
\* The least number, and Component as reachability.

\* A set of naturals that is not empty has a least member.
LEMMA LeastNumber ==
    ASSUME NEW T \in SUBSET Nat, T # {}
    PROVE  \E x \in T : \A y \in T : x <= y
<1>1. \E x \in T : \A y \in T : ~ (<<y, x>> \in OpToRel(<, Nat))
  BY NatLessThanWellFounded, WFMin
<1>2. PICK x \in T : \A y \in T : ~ (<<y, x>> \in OpToRel(<, Nat))
  BY <1>1
<1>3. \A y \in T : ~ (y < x)
  BY <1>2 DEF OpToRel
<1> QED
  BY <1>3

\* T is a part of S that R does not lead out of.
Closed(T, S, R) == T \subseteq S /\ \A y \in T, z \in S : <<y, z>> \in R => z \in T

\* What R leads to from the members of found.
Reached(S, R, found) == {y \in S : \A T \in SUBSET S :
                            Closed(T, S, R) /\ found \subseteq T => y \in T}

Onward(S, R, found) == {y \in S \ found : \E z \in found : <<z, y>> \in R}

\* g solves the equation by which Component is defined.
Grows(g, S, R) ==
    g = [found \in SUBSET S |->
            IF Onward(S, R, found) = {} THEN found
            ELSE g[found \cup Onward(S, R, found)]]

LEMMA ReachedGrows ==
    ASSUME NEW S, NEW R
    PROVE  Grows([found \in SUBSET S |-> Reached(S, R, found)], S, R)
<1> DEFINE g == [found \in SUBSET S |-> Reached(S, R, found)]
<1>1. ASSUME NEW found \in SUBSET S
      PROVE  g[found] = IF Onward(S, R, found) = {} THEN found
                        ELSE g[found \cup Onward(S, R, found)]
  <2>1. CASE Onward(S, R, found) = {}
    <3>1. Closed(found, S, R)
      BY <2>1 DEF Closed, Onward
    <3> QED
      BY <2>1, <3>1 DEF Reached
  <2>2. CASE Onward(S, R, found) # {}
    <3> DEFINE more == found \cup Onward(S, R, found)
    <3>1. more \in SUBSET S
      BY DEF Onward
    <3>2. \A T \in SUBSET S : Closed(T, S, R) =>
             (found \subseteq T <=> more \subseteq T)
      BY DEF Closed, Onward
    <3> HIDE DEF more
    <3>3. Reached(S, R, found) = Reached(S, R, more)
      BY <3>2 DEF Reached
    <3> QED
      BY <2>2, <3>1, <3>3 DEF more
  <2> QED
    BY <2>1, <2>2
<1> HIDE DEF g
<1>2. g = [found \in SUBSET S |->
            IF Onward(S, R, found) = {} THEN found
            ELSE g[found \cup Onward(S, R, found)]]
  BY <1>1 DEF g
<1> QED
  BY <1>2 DEF Grows, g

LEMMA GrowsToReached ==
    ASSUME NEW S, IsFiniteSet(S), NEW R, NEW g, Grows(g, S, R)
    PROVE  \A found \in SUBSET S : g[found] = Reached(S, R, found)
<1> DEFINE h == [found \in SUBSET S |-> Reached(S, R, found)]
           Left(found) == Cardinality(S \ found)
           bad == {found \in SUBSET S : g[found] # h[found]}
           sizes == {Left(found) : found \in bad}
<1>1. ASSUME NEW found \in SUBSET S
      PROVE  IsFiniteSet(S \ found) /\ Left(found) \in Nat
  BY FS_Subset, FS_CardinalityType
<1>2. SUFFICES ASSUME bad # {} PROVE FALSE
  BY <1>2
<1>3. \A found \in bad : Left(found) \in Nat
  BY <1>1
<1> HIDE DEF h, Left
<1>4. PICK found \in bad : \A other \in bad : Left(found) <= Left(other)
  <2>1. sizes \in SUBSET Nat /\ sizes # {}
    BY <1>2, <1>3
  <2>2. PICK k \in sizes : \A j \in sizes : k <= j
    BY <2>1, LeastNumber
  <2> QED
    BY <2>2
<1> DEFINE more == Onward(S, R, found)
<1>5. Grows(h, S, R)
  BY ReachedGrows DEF h
<1>6. /\ g[found] = IF more = {} THEN found ELSE g[found \cup more]
      /\ h[found] = IF more = {} THEN found ELSE h[found \cup more]
  BY <1>4, <1>5 DEF Grows
<1>7. more # {} /\ found \cup more \in bad
  BY <1>4, <1>6 DEF Onward
<1>8. /\ S \ (found \cup more) \subseteq S \ found
      /\ S \ (found \cup more) # S \ found
  BY <1>7 DEF Onward
<1> HIDE DEF more
<1>9. Left(found \cup more) <= Left(found) /\ Left(found \cup more) # Left(found)
  BY <1>1, <1>4, <1>8, FS_Subset DEF Left
<1>10. Left(found) <= Left(found \cup more)
  BY <1>4, <1>7
<1> QED
  BY <1>3, <1>4, <1>7, <1>9, <1>10

\* Component(x, S, R) is what R leads to from x.
LEMMA Components ==
    ASSUME NEW S, IsFiniteSet(S), NEW R, NEW x \in S
    PROVE  Component(x, S, R) = Reached(S, R, {x})
<1> DEFINE grows(g) == g = [found \in SUBSET S |->
              LET more == {y \in S \ found : \E z \in found : <<z, y>> \in R}
              IN  IF more = {} THEN found ELSE g[found \cup more]]
           grown == CHOOSE g : grows(g)
<1>1. \A g : grows(g) <=> Grows(g, S, R)
  BY DEF Grows, Onward
<1>2. \E g : grows(g)
  BY <1>1, ReachedGrows
<1>3. grows(grown)
  BY <1>2
<1>4. Grows(grown, S, R)
  BY <1>1, <1>3
<1>5. Component(x, S, R) = grown[{x}]
  BY DEF Component
<1> QED
  BY <1>4, <1>5, GrowsToReached

\* x is in its component, which R does not lead out of and which is in every
\* other part of S with x that R does not lead out of.
LEMMA Reach ==
    ASSUME NEW S, IsFiniteSet(S), NEW R, NEW x \in S
    PROVE  LET C == Component(x, S, R)
           IN  /\ x \in C /\ Closed(C, S, R)
               /\ \A T \in SUBSET S : Closed(T, S, R) /\ x \in T => C \subseteq T
BY Components DEF Reached, Closed

\* Pairs that go both ways divide S: the component of a member is its own.
LEMMA Parts ==
    ASSUME NEW S, IsFiniteSet(S), NEW R,
           \A y, z \in S : <<y, z>> \in R => <<z, y>> \in R,
           NEW x \in S, NEW y \in Component(x, S, R)
    PROVE  y \in S /\ Component(y, S, R) = Component(x, S, R)
<1> DEFINE C == Component(x, S, R)
           D == Component(y, S, R)
<1>1. /\ x \in C /\ Closed(C, S, R)
      /\ \A T \in SUBSET S : Closed(T, S, R) /\ x \in T => C \subseteq T
  BY Reach
<1>2. y \in S
  BY <1>1 DEF Closed
<1>3. /\ y \in D /\ Closed(D, S, R)
      /\ \A T \in SUBSET S : Closed(T, S, R) /\ y \in T => D \subseteq T
  BY <1>2, Reach
<1> HIDE DEF C, D
<1>4. D \subseteq C
  BY <1>1, <1>3 DEF C, Closed
<1>5. x \in D
  <2>1. SUFFICES ASSUME x \notin D PROVE FALSE
    BY <2>1
  <2>2. Closed(C \ D, S, R)
    BY <1>1, <1>3 DEF Closed
  <2>3. C \subseteq C \ D
    BY <1>1, <2>1, <2>2 DEF Closed
  <2> QED
    BY <1>3, <1>4, <2>3
<1>6. C \subseteq D
  BY <1>1, <1>3, <1>5 DEF Closed
<1> QED
  BY <1>2, <1>4, <1>6 DEF C, D

-------------------------------------------------------------------------------
\* Edits keep a Document whole.

\* Every net that is referred to is there.
Housed(d) ==
    /\ \A t \in Terminals : d.on[t] \in d.nets \cup {None}
    /\ \A j \in DOMAIN d.juncs : d.juncs[j].net \in d.nets
    /\ \A r \in DOMAIN d.routes : d.routes[r].net \in d.nets
    /\ \A l \in DOMAIN d.labels : d.labels[l].net \in d.nets
    /\ \A c \in d.claims : c.net \in d.nets
    /\ d.default \in d.nets \cup {None}

Whole(d) == IsDocument(d) /\ Housed(d)

JunctionType == [net : NetIds, at : Points]
RouteType == [net : NetIds, from : Endpoints, to : Endpoints, bulk : BOOLEAN,
              over : Points \cup {None}]
LabelType == [net : NetIds, anchor : Endpoints \cup Routes]

\* The type of a Document field by field.
Fielded(d) ==
    /\ d.nets \subseteq NetIds
    /\ d.on \in [Terminals -> NetIds \cup {None}]
    /\ d.placed \subseteq Terminals
    /\ PartialFunction(d.juncs, Junctions, JunctionType)
    /\ PartialFunction(d.routes, Routes, RouteType)
    /\ PartialFunction(d.labels, Labels, LabelType)
    /\ d.claims \subseteq Claim
    /\ d.sources \subseteq NetIds
    /\ d.default \in NetIds \cup {None}
    /\ d.bound \subseteq Bodies
    /\ d.status \in {"in-sync", "connectivity-modified"}

LEMMA ByFields == ASSUME NEW d PROVE IsDocument(d) <=> IsRecord(d) /\ Fielded(d)
<1>1. (d = [nets |-> d.nets, on |-> d.on, placed |-> d.placed,
            juncs |-> d.juncs, routes |-> d.routes, labels |-> d.labels,
            claims |-> d.claims, sources |-> d.sources,
            default |-> d.default, bound |-> d.bound, status |-> d.status])
      <=> IsRecord(d)
  BY DEF IsRecord, Fields
<1> QED
  BY <1>1, Zenon DEF IsDocument, Fielded, JunctionType, RouteType, LabelType

\* A Document with some fields replaced is one with the others kept.
\* e differs from d in the fields in F only.
Only(d, e, F) ==
    /\ IsRecord(e)
    /\ \A f \in Fields \ F : e[f] = d[f]

LEMMA RetiredWhole ==
    ASSUME NEW d, Whole(d), NEW ns, \A n \in ns : Unowned(d, n)
    PROVE  LET e == Retired(d, ns)
           IN  /\ Whole(e)
               /\ Only(d, e, {"nets", "claims", "sources", "default"})
               /\ e.nets = d.nets \ ns
               /\ e.claims = {c \in d.claims : c.net \notin ns}
               /\ e.sources = d.sources \ ns
               /\ e.default = IF d.default \in ns THEN None ELSE d.default
<1> DEFINE e == Retired(d, ns)
<1>0. IsRecord(d) /\ Fielded(d) /\ Housed(d)
  BY ByFields DEF Whole
<1>1. Only(d, e, {"nets", "claims", "sources", "default"})
  BY <1>0 DEF Retired, Only, IsRecord, Fields
<1>2. /\ e.nets = d.nets \ ns
      /\ e.claims = {c \in d.claims : c.net \notin ns}
      /\ e.sources = d.sources \ ns
      /\ e.default = IF d.default \in ns THEN None ELSE d.default
  BY <1>0 DEF Retired, IsRecord, Fields
<1> HIDE DEF e
<1>3. /\ e.on = d.on /\ e.placed = d.placed /\ e.juncs = d.juncs
      /\ e.routes = d.routes /\ e.labels = d.labels /\ e.bound = d.bound
      /\ e.status = d.status
  BY <1>1 DEF Only, Fields
<1>4. Fielded(e)
  BY <1>0, <1>2, <1>3 DEF Fielded
<1>5. Housed(e)
  BY <1>0, <1>2, <1>3 DEF Housed, Unowned, RoutesOf
<1>6. IsRecord(e)
  BY <1>1 DEF Only
<1> QED
  BY <1>1, <1>2, <1>4, <1>5, <1>6, ByFields DEF Whole, e

\* A draft of the type of a Document, with nets of its own only.
LEMMA WholeBy ==
    ASSUME NEW e, IsRecord(e), Fielded(e), Housed(e)
    PROVE  Whole(e)
BY ByFields DEF Whole

\* What refers to net m in d refers to net n in e.
Retargets(d, e, n, m) ==
    LET to(k) == Retargeted(k, m, n)
        moved(x) == [x EXCEPT !.net = to(x.net)]
    IN  /\ \A t \in Terminals : e.on[t] = to(d.on[t])
        /\ DOMAIN e.juncs = DOMAIN d.juncs
        /\ \A j \in DOMAIN d.juncs : e.juncs[j] = moved(d.juncs[j])
        /\ DOMAIN e.routes = DOMAIN d.routes
        /\ \A r \in DOMAIN d.routes : e.routes[r] = moved(d.routes[r])
        /\ DOMAIN e.labels = DOMAIN d.labels
        /\ \A l \in DOMAIN d.labels : e.labels[l] = moved(d.labels[l])
        /\ e.claims = {moved(c) : c \in d.claims}

LEMMA MergedWhole ==
    ASSUME NEW d, Whole(d), NEW n \in d.nets, NEW m, n # m
    PROVE  LET e == mergeBaseNets(d, n, m)
           IN  /\ Whole(e) /\ Retargets(d, e, n, m)
               /\ Only(d, e, {"nets", "on", "juncs", "routes", "labels",
                              "claims", "sources", "default"})
               /\ e.nets = d.nets \ {m}
<1> DEFINE e == mergeBaseNets(d, n, m)
           to(k) == Retargeted(k, m, n)
           moved(x) == [x EXCEPT !.net = to(x.net)]
<1>0. IsRecord(d) /\ Fielded(d) /\ Housed(d) /\ d.nets \subseteq NetIds
  BY ByFields DEF Whole, Fielded
<1>1. Only(d, e, {"nets", "on", "juncs", "routes", "labels",
                              "claims", "sources", "default"})
  BY <1>0 DEF mergeBaseNets, Only, IsRecord, Fields
<1>2. /\ e.nets = d.nets \ {m}
      /\ e.on = [t \in Terminals |-> to(d.on[t])]
      /\ e.juncs = [j \in DOMAIN d.juncs |-> moved(d.juncs[j])]
      /\ e.routes = [r \in DOMAIN d.routes |-> moved(d.routes[r])]
      /\ e.labels = [l \in DOMAIN d.labels |-> moved(d.labels[l])]
      /\ e.claims = {moved(c) : c \in d.claims}
      /\ e.sources = {to(k) : k \in d.sources}
      /\ e.default = to(d.default)
  BY <1>0 DEF mergeBaseNets, IsRecord, Fields
<1> HIDE DEF e
<1>3. e.placed = d.placed /\ e.bound = d.bound /\ e.status = d.status
  BY <1>1 DEF Only, Fields
<1>4. \A k \in NetIds : to(k) \in NetIds
  BY <1>0 DEF Retargeted
<1>5. to(None) = None \/ to(None) \in d.nets
  BY DEF Retargeted
<1>6. \A x : x \in JunctionType => moved(x) \in JunctionType
  BY <1>4 DEF JunctionType
<1>7. \A x : x \in RouteType => moved(x) \in RouteType
  BY <1>4 DEF RouteType
<1>8. \A x : x \in LabelType => moved(x) \in LabelType
  BY <1>4 DEF LabelType
<1>9. \A x : x \in Claim => moved(x) \in Claim
  BY <1>4 DEF Claim
<1>10. \A x : /\ x \in JunctionType \/ x \in RouteType \/ x \in LabelType \/ x \in Claim
              /\ x.net \in d.nets
              => moved(x).net \in d.nets \ {m}
  BY DEF JunctionType, RouteType, LabelType, Claim, Retargeted
<1>11. \A k : k \in d.nets \cup {None} => to(k) \in (d.nets \ {m}) \cup {None}
  BY <1>0, LogicalNetsAssumption DEF Retargeted
<1> HIDE DEF moved, to
<1>12. Fielded(e)
  BY <1>0, <1>2, <1>3, <1>4, <1>5, <1>6, <1>7, <1>8, <1>9 DEF Fielded, PartialFunction
<1>13. Housed(e)
  BY <1>0, <1>2, <1>10, <1>11 DEF Housed, Fielded, PartialFunction
<1>14. IsRecord(e)
  BY <1>1 DEF Only
<1>15. Whole(e)
  BY <1>12, <1>13, <1>14, WholeBy
<1>16. Retargets(d, e, n, m)
  BY <1>2 DEF Retargets, moved, to
<1> QED
  BY <1>1, <1>2, <1>15, <1>16 DEF e

\* Only what changes where things are decides what is pruned.
LEMMA PrunedWhole ==
    ASSUME NEW d, Whole(d), NEW ns
    PROVE  LET e == pruneDeferring(d, ns)
               gone == d.nets \ e.nets
           IN  /\ Whole(e)
               /\ Only(d, e, {"nets", "claims", "sources", "default"})
               /\ e.claims = d.claims
               /\ e.nets \subseteq d.nets
               /\ gone \subseteq ns
               /\ \A n \in gone : Unowned(d, n) /\ ClaimsOn(d, {n}) = {}
               /\ e.default = IF d.default \in gone THEN None ELSE d.default
<1> DEFINE left == {n \in ns \cap d.nets : Unowned(d, n) /\ ~Evidenced(d, n)}
           e == Retired(d, left)
<1>1. \A n \in left : Unowned(d, n) /\ n \in d.nets /\ ClaimsOn(d, {n}) = {}
  BY DEF Evidenced
<1>2. left \subseteq ns
  OBVIOUS
<1>3. pruneDeferring(d, ns) = e
  BY DEF pruneDeferring
<1> HIDE DEF left
<1>4. /\ Whole(e)
      /\ Only(d, e, {"nets", "claims", "sources", "default"})
      /\ e.nets = d.nets \ left
      /\ e.claims = {c \in d.claims : c.net \notin left}
      /\ e.default = IF d.default \in left THEN None ELSE d.default
  BY <1>1, RetiredWhole
<1>5. d.nets \ e.nets = left
  BY <1>1, <1>4
<1>6. e.claims = d.claims
  BY <1>1, <1>4 DEF ClaimsOn
<1> QED
  BY <1>1, <1>2, <1>3, <1>4, <1>5, <1>6

\* The terminals outside S are where they were; those in S are on net n.
StayPut(d, e, S) == \A t \in Terminals : t \notin S => e.on[t] = d.on[t]
PutOn(e, S, n) == \A t \in Terminals : t \in S => e.on[t] = n

LEMMA AddedWhole ==
    ASSUME NEW d, Whole(d), NEW n \in d.nets, NEW x
    PROVE  LET e == addEndpointToNet(d, n, x)
           IN  /\ Whole(e) /\ Only(d, e, {"on"})
               /\ StayPut(d, e, {x}) /\ PutOn(e, {x}, n)
<1> DEFINE e == addEndpointToNet(d, n, x)
<1>0. IsRecord(d) /\ Fielded(d) /\ Housed(d) /\ d.on \in [Terminals -> NetIds \cup {None}]
  BY ByFields DEF Whole, Fielded
<1>1. CASE x \notin Terminals
  <2>1. e = d
    BY <1>1 DEF addEndpointToNet
  <2> QED
    BY <1>0, <1>1, <2>1 DEF Only, StayPut, PutOn
<1>2. CASE x \in Terminals
  <2>1. Only(d, e, {"on"})
    BY <1>0, <1>2 DEF addEndpointToNet, Only, IsRecord, Fields
  <2>2. e.on = [d.on EXCEPT ![x] = n]
    BY <1>0, <1>2 DEF addEndpointToNet, IsRecord, Fields
  <2> HIDE DEF e
  <2>3. e.on = [t \in Terminals |-> IF t = x THEN n ELSE d.on[t]]
    BY <1>0, <1>2, <2>2
  <2>4. /\ e.nets = d.nets /\ e.placed = d.placed /\ e.juncs = d.juncs
        /\ e.routes = d.routes /\ e.labels = d.labels /\ e.bound = d.bound
        /\ e.status = d.status /\ e.claims = d.claims /\ e.sources = d.sources
        /\ e.default = d.default
    BY <2>1 DEF Only, Fields
  <2>5. Fielded(e)
    BY <1>0, <2>3, <2>4 DEF Fielded
  <2>6. Housed(e)
    BY <1>0, <2>3, <2>4 DEF Housed
  <2>7. IsRecord(e)
    BY <2>1 DEF Only
  <2>8. StayPut(d, e, {x}) /\ PutOn(e, {x}, n)
    BY <2>3 DEF StayPut, PutOn
  <2> QED
    BY <2>1, <2>5, <2>6, <2>7, <2>8, WholeBy DEF e
<1> QED
  BY <1>1, <1>2

\* Route r of d is two Routes of e that meet at x.
Halves(d, e, r, second, x) ==
    /\ DOMAIN e.routes = DOMAIN d.routes \cup {second}
    /\ e.routes[second] = [d.routes[r] EXCEPT !.from = x, !.over = None]
    /\ r # second =>
          e.routes[r] = [d.routes[r] EXCEPT !.to = x, !.over = None]
    /\ \A q \in DOMAIN d.routes :
          q \notin {r, second} => e.routes[q] = d.routes[q]
    /\ \A q \in DOMAIN d.routes :
          q # second => e.routes[q].net = d.routes[q].net
    /\ e.routes[second].net = d.routes[r].net

LEMMA SplitWhole ==
    ASSUME NEW d, Whole(d), NEW r \in DOMAIN d.routes, NEW second \in Routes,
           NEW x \in Endpoints
    PROVE  LET e == SplitRoute(d, r, second, x)
           IN  Whole(e) /\ Only(d, e, {"routes"}) /\ Halves(d, e, r, second, x)
<1> DEFINE e == SplitRoute(d, r, second, x)
           half == [d.routes[r] EXCEPT !.to = x, !.over = None]
           other == [d.routes[r] EXCEPT !.from = x, !.over = None]
           cut == [q \in DOMAIN d.routes \cup {second} |->
                     IF q = second THEN other
                     ELSE IF q = r THEN half ELSE d.routes[q]]
<1>0. IsRecord(d) /\ Fielded(d) /\ Housed(d) /\ PartialFunction(d.routes, Routes, RouteType)
  BY ByFields DEF Whole, Fielded
<1>1. Only(d, e, {"routes"})
  BY <1>0 DEF SplitRoute, Only, IsRecord, Fields
<1>2. e.routes = With([d.routes EXCEPT ![r] = half], second, other)
  BY <1>0 DEF SplitRoute, IsRecord, Fields
<1>3. d.routes[r] \in RouteType
  BY <1>0 DEF PartialFunction
<1>4. /\ half \in RouteType /\ other \in RouteType
      /\ half.net = d.routes[r].net /\ other.net = d.routes[r].net
  BY <1>3 DEF RouteType
<1> HIDE DEF e, half, other
<1>5. e.routes = cut
  BY <1>2 DEF With
<1>6. PartialFunction(e.routes, Routes, RouteType)
  BY <1>0, <1>4, <1>5 DEF PartialFunction
<1>7. /\ \A q \in DOMAIN d.routes : q # second => e.routes[q].net = d.routes[q].net
      /\ e.routes[second].net = d.routes[r].net
      /\ DOMAIN e.routes = DOMAIN d.routes \cup {second}
  BY <1>4, <1>5
<1>8. /\ e.nets = d.nets /\ e.placed = d.placed /\ e.juncs = d.juncs
      /\ e.on = d.on /\ e.labels = d.labels /\ e.bound = d.bound
      /\ e.status = d.status /\ e.claims = d.claims /\ e.sources = d.sources
      /\ e.default = d.default
  BY <1>1 DEF Only, Fields
<1>9. Fielded(e)
  BY <1>0, <1>6, <1>8 DEF Fielded
<1>10. Housed(e)
  BY <1>0, <1>7, <1>8 DEF Housed
<1>11. IsRecord(e)
  BY <1>1 DEF Only
<1>12. Halves(d, e, r, second, x)
  BY <1>5, <1>7 DEF Halves, half, other
<1> QED
  BY <1>1, <1>9, <1>10, <1>11, <1>12, WholeBy DEF e

\* The labels in moved stand on second, the others where they stood.
Remaps(d, e, moved, second) ==
    /\ DOMAIN e.labels = DOMAIN d.labels
    /\ \A l \in DOMAIN d.labels :
          /\ e.labels[l].net = d.labels[l].net
          /\ l \in moved => e.labels[l].anchor = second
          /\ l \notin moved => e.labels[l].anchor = d.labels[l].anchor

LEMMA RemappedWhole ==
    ASSUME NEW d, Whole(d), NEW moved, NEW second \in Routes
    PROVE  LET e == RemapLabels(d, moved, second)
           IN  /\ Whole(e) /\ Only(d, e, {"labels"}) /\ Remaps(d, e, moved, second)
<1> DEFINE e == RemapLabels(d, moved, second)
<1>0. /\ IsRecord(d) /\ Fielded(d) /\ Housed(d)
      /\ PartialFunction(d.labels, Labels, LabelType)
  BY ByFields DEF Whole, Fielded
<1>1. Only(d, e, {"labels"})
  BY <1>0 DEF RemapLabels, Only, IsRecord, Fields
<1>2. e.labels = [l \in DOMAIN d.labels |->
        IF l \in moved THEN [d.labels[l] EXCEPT !.anchor = second] ELSE d.labels[l]]
  BY <1>0 DEF RemapLabels, IsRecord, Fields
<1> HIDE DEF e
<1>3. \A l \in DOMAIN d.labels :
         /\ e.labels[l] \in LabelType
         /\ e.labels[l].net = d.labels[l].net
         /\ e.labels[l].anchor = IF l \in moved THEN second ELSE d.labels[l].anchor
  BY <1>0, <1>2 DEF PartialFunction, LabelType
<1>4. PartialFunction(e.labels, Labels, LabelType) /\ DOMAIN e.labels = DOMAIN d.labels
  BY <1>0, <1>2, <1>3 DEF PartialFunction
<1>5. /\ e.nets = d.nets /\ e.placed = d.placed /\ e.juncs = d.juncs
      /\ e.on = d.on /\ e.routes = d.routes /\ e.bound = d.bound
      /\ e.status = d.status /\ e.claims = d.claims /\ e.sources = d.sources
      /\ e.default = d.default
  BY <1>1 DEF Only, Fields
<1>6. Fielded(e)
  BY <1>0, <1>4, <1>5 DEF Fielded
<1>7. Housed(e)
  BY <1>0, <1>3, <1>4, <1>5 DEF Housed
<1>8. IsRecord(e)
  BY <1>1 DEF Only
<1>9. Remaps(d, e, moved, second)
  BY <1>3, <1>4 DEF Remaps
<1> QED
  BY <1>1, <1>6, <1>7, <1>8, <1>9, WholeBy DEF e

\* The nets of a logical net are nets of the Document.

LEMMA NetsFinite == ASSUME NEW d, Whole(d) PROVE IsFiniteSet(d.nets)
<1>1. IsFiniteSet(NetIds) /\ d.nets \subseteq NetIds
  BY LogicalNetsAssumption, FS_Interval, ByFields DEF NetIds, Whole, Fielded
<1> QED
  BY <1>1, FS_Subset

LEMMA LogicalNets ==
    ASSUME NEW d, Whole(d), NEW n \in d.nets
    PROVE  /\ n \in LogicalNet(d, n)
           /\ Closed(LogicalNet(d, n), d.nets, NamedAlike(d))
           /\ \A T \in SUBSET d.nets :
                Closed(T, d.nets, NamedAlike(d)) /\ n \in T => LogicalNet(d, n) \subseteq T
           /\ \A m \in LogicalNet(d, n) :
                m \in d.nets /\ LogicalNet(d, m) = LogicalNet(d, n)
<1>1. IsFiniteSet(d.nets)
  BY NetsFinite
<1>2. \A a, b \in d.nets : <<a, b>> \in NamedAlike(d) => <<b, a>> \in NamedAlike(d)
  BY DEF NamedAlike
<1>3. \A m \in Component(n, d.nets, NamedAlike(d)) :
         /\ m \in d.nets
         /\ Component(m, d.nets, NamedAlike(d)) = Component(n, d.nets, NamedAlike(d))
  <2> SUFFICES ASSUME NEW m \in Component(n, d.nets, NamedAlike(d))
               PROVE  /\ m \in d.nets
                      /\ Component(m, d.nets, NamedAlike(d)) = Component(n, d.nets, NamedAlike(d))
    OBVIOUS
  <2> QED
    BY <1>1, <1>2, Parts
<1>4. LET C == Component(n, d.nets, NamedAlike(d))
      IN  /\ n \in C /\ Closed(C, d.nets, NamedAlike(d))
          /\ \A T \in SUBSET d.nets : Closed(T, d.nets, NamedAlike(d)) /\ n \in T => C \subseteq T
  BY <1>1, Reach
<1> QED
  BY <1>3, <1>4 DEF LogicalNet

LEMMA LeastNet ==
    ASSUME NEW S, S \in SUBSET NetIds, S # {}
    PROVE  Min(S) \in S
<1>1. \A n \in NetIds : n \in Nat
  BY LogicalNetsAssumption DEF NetIds
<1>2. \E n \in S : \A m \in S : n <= m
  BY <1>1, LeastNumber
<1> QED
  BY <1>2 DEF Min

LEMMA Soles == ASSUME NEW S PROVE Sole(S) \in S \cup {None}
<1>1. Cardinality(S) = 1 => S # {}
  BY FS_EmptySet
<1> QED
  BY <1>1 DEF Sole

LEMMA SetBodiesWhole ==
    ASSUME NEW d, Whole(d), NEW bs, bs \subseteq Bodies,
           NEW n, n \in d.nets \cup {None}
    PROVE  LET e == SetBodies(d, bs, n)
           IN  /\ Whole(e) /\ Only(d, e, {"on", "bound"})
               /\ StayPut(d, e, bs) /\ PutOn(e, bs, n)
               /\ n = None => e.bound = d.bound \ bs
               /\ n # None => e.bound = d.bound \cup bs
<1> DEFINE e == SetBodies(d, bs, n)
<1>0. IsRecord(d) /\ Fielded(d) /\ Housed(d)
  BY ByFields DEF Whole
<1>1. Only(d, e, {"on", "bound"})
  BY <1>0 DEF SetBodies, Only, IsRecord, Fields
<1>2. /\ e.on = [t \in Terminals |-> IF t \in bs THEN n ELSE d.on[t]]
      /\ e.bound = IF n = None THEN d.bound \ bs ELSE d.bound \cup bs
  BY <1>0 DEF SetBodies, IsRecord, Fields
<1> HIDE DEF e
<1>3. /\ e.nets = d.nets /\ e.placed = d.placed /\ e.juncs = d.juncs
      /\ e.routes = d.routes /\ e.labels = d.labels
      /\ e.status = d.status /\ e.claims = d.claims /\ e.sources = d.sources
      /\ e.default = d.default
  BY <1>1 DEF Only, Fields
<1>4. Fielded(e)
  BY <1>0, <1>2, <1>3 DEF Fielded
<1>5. Housed(e)
  BY <1>0, <1>2, <1>3 DEF Housed
<1>6. IsRecord(e)
  BY <1>1 DEF Only
<1>7. StayPut(d, e, bs) /\ PutOn(e, bs, n)
  BY <1>2 DEF StayPut, PutOn
<1> QED
  BY <1>1, <1>2, <1>4, <1>5, <1>6, <1>7, WholeBy DEF e

LEMMA ReleasedWhole ==
    ASSUME NEW d, Whole(d)
    PROVE  LET e == ReleaseDrawn(d)
           IN  /\ Whole(e) /\ Only(d, e, {"bound"})
               /\ e.bound = {b \in d.bound : ~hasExplicitMosBulkRoute(d, b)}
<1> DEFINE e == ReleaseDrawn(d)
<1>0. IsRecord(d) /\ Fielded(d) /\ Housed(d)
  BY ByFields DEF Whole
<1>1. Only(d, e, {"bound"})
  BY <1>0 DEF ReleaseDrawn, Only, IsRecord, Fields
<1>2. e.bound = {b \in d.bound : ~hasExplicitMosBulkRoute(d, b)}
  BY <1>0 DEF ReleaseDrawn, IsRecord, Fields
<1> HIDE DEF e
<1>3. /\ e.nets = d.nets /\ e.placed = d.placed /\ e.juncs = d.juncs
      /\ e.on = d.on /\ e.routes = d.routes /\ e.labels = d.labels
      /\ e.status = d.status /\ e.claims = d.claims /\ e.sources = d.sources
      /\ e.default = d.default
  BY <1>1 DEF Only, Fields
<1>4. Fielded(e)
  BY <1>0, <1>2, <1>3 DEF Fielded
<1>5. Housed(e)
  BY <1>0, <1>3 DEF Housed
<1>6. IsRecord(e)
  BY <1>1 DEF Only
<1> QED
  BY <1>1, <1>2, <1>4, <1>5, <1>6, WholeBy DEF e

LEMMA ReconciledWhole ==
    ASSUME NEW d, Whole(d)
    PROVE  LET e == reconcileMosBulk(d)
           IN  /\ Whole(e) /\ Only(d, e, {"on", "bound"})
               /\ StayPut(d, e, Bodies)
<1> DEFINE left == ReleaseDrawn(d)
           e == SetBodies(left, Reclaimed(d), d.default)
<1>1. Whole(left) /\ Only(d, left, {"bound"})
  BY ReleasedWhole
<1>2. Reclaimed(d) \subseteq Bodies
  BY DEF Reclaimed
<1>3. left.nets = d.nets /\ left.default = d.default /\ left.on = d.on
  BY <1>1 DEF Only, Fields
<1>4. d.default \in left.nets \cup {None}
  BY <1>3 DEF Whole, Housed
<1> HIDE DEF left
<1>5. /\ Whole(e) /\ Only(left, e, {"on", "bound"})
      /\ StayPut(left, e, Reclaimed(d))
  BY <1>1, <1>2, <1>4, SetBodiesWhole
<1>6. e = reconcileMosBulk(d)
  BY DEF reconcileMosBulk, left
<1> HIDE DEF e
<1>7. Only(d, e, {"on", "bound"})
  BY <1>1, <1>5 DEF Only, Fields
<1>8. StayPut(d, e, Bodies)
  BY <1>2, <1>3, <1>5 DEF StayPut
<1> QED
  BY <1>5, <1>6, <1>7, <1>8

LEMMA BoundWhole ==
    ASSUME NEW d, Whole(d)
    PROVE  LET e == reconcileBindings(d)
           IN  /\ Whole(e) /\ Only(d, e, {"on", "bound"})
               /\ StayPut(d, e, Bodies)
<1> DEFINE left == ReleaseDrawn(d)
           e == SetBodies(left, left.bound, d.default)
<1>1. Whole(left) /\ Only(d, left, {"bound"})
  BY ReleasedWhole
<1>2. left.bound \subseteq Bodies
  BY <1>1, ByFields DEF Whole, Fielded
<1>3. left.nets = d.nets /\ left.default = d.default /\ left.on = d.on
  BY <1>1 DEF Only, Fields
<1>4. d.default \in left.nets \cup {None}
  BY <1>3 DEF Whole, Housed
<1> HIDE DEF left
<1>5. /\ Whole(e) /\ Only(left, e, {"on", "bound"})
      /\ StayPut(left, e, left.bound)
  BY <1>1, <1>2, <1>4, SetBodiesWhole
<1>6. e = reconcileBindings(d)
  BY DEF reconcileBindings, left
<1> HIDE DEF e
<1>7. Only(d, e, {"on", "bound"})
  BY <1>1, <1>5 DEF Only, Fields
<1>8. StayPut(d, e, Bodies)
  BY <1>2, <1>3, <1>5 DEF StayPut
<1> QED
  BY <1>5, <1>6, <1>7, <1>8

LEMMA Replacing ==
    ASSUME NEW before, NEW d, Whole(d)
    PROVE  Replacement(before, d) \in d.nets \cup {None}
<1> DEFINE name == NameOf(before, before.default)
           ground == {n \in d.nets : /\ PowerOf(d, n) = "ground"
                                     /\ name # None /\ NameOf(d, n) = name}
           groups == {LogicalNet(d, n) : n \in ground}
<1>1. CASE Cardinality(groups) = 1
  <2>1. groups # {}
    BY <1>1, FS_EmptySet
  <2>2. \A n \in d.nets : n \in LogicalNet(d, n) /\ LogicalNet(d, n) \subseteq d.nets
    BY LogicalNets
  <2>3. UNION groups \subseteq d.nets /\ UNION groups # {}
    BY <2>1, <2>2
  <2>4. d.nets \subseteq NetIds
    BY ByFields DEF Whole, Fielded
  <2>5. Min(UNION groups) \in UNION groups
    BY <2>3, <2>4, LeastNet
  <2> QED
    BY <1>1, <2>3, <2>5 DEF Replacement
<1>2. CASE Cardinality(groups) # 1
  BY <1>2 DEF Replacement
<1> QED
  BY <1>1, <1>2

LEMMA RevokedWhole ==
    ASSUME NEW before, NEW d, Whole(d)
    PROVE  LET e == revokeSupplyDefault(before, d)
           IN  /\ Whole(e) /\ Only(d, e, {"on", "bound", "default"})
               /\ ~LostSupply(before, d) => e = d
               /\ StayPut(d, e, Bodies)
<1> DEFINE bs == {b \in d.bound : d.on[b] = d.default}
           k == Replacement(before, d)
           m == SetBodies(d, bs, k)
           e == [m EXCEPT !.default = k]
<1>0. IsRecord(d) /\ Fielded(d) /\ Housed(d) /\ d.nets \subseteq NetIds
  BY ByFields DEF Whole, Fielded
<1>1. CASE ~LostSupply(before, d)
  BY <1>0, <1>1 DEF revokeSupplyDefault, Only, StayPut
<1>2. CASE LostSupply(before, d)
  <2>1. e = revokeSupplyDefault(before, d)
    BY <1>2 DEF revokeSupplyDefault
  <2>2. k \in d.nets \cup {None}
    BY Replacing
  <2>3. bs \subseteq Bodies
    BY <1>0 DEF Fielded
  <2> HIDE DEF k, bs
  <2>4. /\ Whole(m) /\ Only(d, m, {"on", "bound"})
        /\ StayPut(d, m, bs)
    BY <2>2, <2>3, SetBodiesWhole
  <2> HIDE DEF m
  <2>5. IsRecord(m) /\ Fielded(m) /\ Housed(m)
    BY <2>4, ByFields DEF Whole
  <2>6. Only(m, e, {"default"}) /\ e.default = k
    BY <2>5 DEF Only, IsRecord, Fields
  <2> HIDE DEF e
  <2>7. /\ e.nets = m.nets /\ e.placed = m.placed /\ e.juncs = m.juncs
        /\ e.on = m.on /\ e.routes = m.routes /\ e.labels = m.labels
        /\ e.status = m.status /\ e.claims = m.claims /\ e.sources = m.sources
        /\ e.bound = m.bound
    BY <2>6 DEF Only, Fields
  <2>8. m.nets = d.nets
    BY <2>4 DEF Only, Fields
  <2>9. Fielded(e)
    BY <1>0, <2>2, <2>5, <2>6, <2>7 DEF Fielded
  <2>10. Housed(e)
    BY <2>2, <2>5, <2>6, <2>7, <2>8 DEF Housed
  <2>11. Whole(e)
    BY <2>6, <2>9, <2>10, WholeBy DEF Only
  <2>12. Only(d, e, {"on", "bound", "default"})
    BY <2>4, <2>6 DEF Only, Fields
  <2>13. StayPut(d, e, Bodies)
    BY <2>3, <2>4, <2>7 DEF StayPut
  <2> QED
    BY <1>2, <2>1, <2>11, <2>12, <2>13
<1> QED
  BY <1>1, <1>2


-------------------------------------------------------------------------------
\* The parts of a cut keep a Document whole.

LEMMA Identities ==
    ASSUME NEW d, Whole(d), NEW n
    PROVE  /\ NameOf(d, n) \in LabelNames \cup {"0", "vdd", None}
           /\ ScopeOf(d, n) \in {"local", "global", None}
<1> DEFINE ns == LogicalNet(d, n)
<1>1. d.claims \subseteq Claim
  BY ByFields DEF Whole, Fielded
<1> HIDE DEF ns
<1>2. NamesOn(d, ns) \subseteq LabelNames \cup {"0", "vdd"}
  BY <1>1 DEF NamesOn, ClaimsOn, Claim
<1>3. ScopesOn(d, ns) \subseteq {"local", "global"}
  BY <1>1 DEF ScopesOn, ClaimsOn, Claim
<1>4. NameOf(d, n) \in NamesOn(d, ns) \cup {None}
  BY Soles DEF NameOf, ns
<1>5. Sole(ScopesOn(d, ns)) \in ScopesOn(d, ns) \cup {None}
  BY Soles
<1>6. ScopeOf(d, n) \in {"global", None, Sole(ScopesOn(d, ns))}
  BY DEF ScopeOf, ns
<1> QED
  BY <1>2, <1>3, <1>4, <1>5, <1>6

LEMMA NamedWhole ==
    ASSUME NEW d, Whole(d), NEW n \in d.nets
    PROVE  LET e == WithMarkersNamed(d, n)
           IN  /\ Whole(e) /\ Only(d, e, {"claims"})
               /\ \A c \in e.claims \ d.claims :
                     c \in missingPowerMarkerClaims(d, n)
               /\ \A c \in d.claims : c.net # n \/ c.owner # "declaration" => c \in e.claims
<1> DEFINE e == WithMarkersNamed(d, n)
           missing == missingPowerMarkerClaims(d, n)
<1>0. IsRecord(d) /\ Fielded(d) /\ Housed(d) /\ d.nets \subseteq NetIds
  BY ByFields DEF Whole, Fielded
<1>1. Only(d, e, {"claims"})
  BY <1>0 DEF WithMarkersNamed, Only, IsRecord, Fields
<1>2. e.claims \subseteq d.claims \cup missing
  BY <1>0 DEF WithMarkersNamed, IsRecord, Fields
<1>3. \A c \in d.claims : c.net # n \/ c.owner # "declaration" => c \in e.claims
  BY <1>0 DEF WithMarkersNamed, IsRecord, Fields
<1> HIDE DEF e
<1>4. missing \subseteq Claim /\ \A c \in missing : c.net = n
  <2> DEFINE name == NameOf(d, n)
             scope == ScopeOf(d, n)
  <2>1. \A c \in missing :
          \E m \in Markers :
             /\ c = [owner |-> m, net |-> n, name |-> name, scope |-> scope,
                     power |-> IF m \in Grounds THEN "ground" ELSE "vdd"]
             /\ name # None /\ scope # None
    BY DEF missingPowerMarkerClaims
  <2>2. /\ name \in LabelNames \cup {"0", "vdd", None}
        /\ scope \in {"local", "global", None}
    BY Identities
  <2> HIDE DEF name, scope, missing
  <2>3. n \in NetIds
    BY <1>0
  <2> QED
    BY <2>1, <2>2, <2>3 DEF Claim
<1>5. /\ e.nets = d.nets /\ e.placed = d.placed /\ e.juncs = d.juncs
      /\ e.on = d.on /\ e.routes = d.routes /\ e.labels = d.labels
      /\ e.status = d.status /\ e.bound = d.bound /\ e.sources = d.sources
      /\ e.default = d.default
  BY <1>1 DEF Only, Fields
<1> HIDE DEF missing
<1>6. Fielded(e)
  BY <1>0, <1>2, <1>4, <1>5 DEF Fielded
<1>7. Housed(e)
  BY <1>0, <1>2, <1>4, <1>5 DEF Housed
<1>8. IsRecord(e)
  BY <1>1 DEF Only
<1> QED
  BY <1>1, <1>2, <1>3, <1>6, <1>7, <1>8, WholeBy DEF e, missing

\* The entries of f outside S are those of g.
Restricts(f, g, S) ==
    DOMAIN g = DOMAIN f \ S /\ \A x \in DOMAIN g : g[x] = f[x]

LEMMA WithoutRouteWhole ==
    ASSUME NEW d, Whole(d), NEW r \in DOMAIN d.routes
    PROVE  LET e == WithoutRoute(d, r)
           IN  /\ Whole(e) /\ Only(d, e, {"routes", "juncs"})
               /\ Restricts(d.routes, e.routes, {r})
               /\ \E orphans \in SUBSET EndsOf(d.routes[r]) :
                    /\ Restricts(d.juncs, e.juncs, orphans)
                    /\ \A j \in orphans : LabelsAt(d, j) = {}
<1> DEFINE left == [d EXCEPT !.routes = Without(@, {r})]
           orphans == {j \in EndsOf(d.routes[r]) \cap DOMAIN d.juncs :
                         RoutesAt(left, j) = {} /\ LabelsAt(left, j) = {}}
           e == [left EXCEPT !.juncs = Without(@, orphans)]
<1>0. IsRecord(d) /\ Fielded(d) /\ Housed(d)
  BY ByFields DEF Whole
<1>1. IsRecord(left) /\ left.juncs = d.juncs /\ left.labels = d.labels
  BY <1>0 DEF IsRecord, Fields
<1>2. orphans \in SUBSET EndsOf(d.routes[r]) /\ \A j \in orphans : LabelsAt(d, j) = {}
  BY <1>1 DEF LabelsAt
<1>3. e = WithoutRoute(d, r)
  BY DEF WithoutRoute
<1> HIDE DEF orphans
<1>4. Only(d, e, {"routes", "juncs"})
  BY <1>0 DEF Only, IsRecord, Fields
<1>5. e.routes = Without(d.routes, {r}) /\ e.juncs = Without(d.juncs, orphans)
  BY <1>0 DEF IsRecord, Fields
<1> HIDE DEF e
<1>6. Restricts(d.routes, e.routes, {r}) /\ Restricts(d.juncs, e.juncs, orphans)
  BY <1>5 DEF Restricts, Without
<1>7. /\ PartialFunction(e.routes, Routes, RouteType)
      /\ PartialFunction(e.juncs, Junctions, JunctionType)
  BY <1>0, <1>5 DEF Fielded, PartialFunction, Without
<1>8. /\ e.nets = d.nets /\ e.placed = d.placed /\ e.claims = d.claims
      /\ e.on = d.on /\ e.labels = d.labels
      /\ e.status = d.status /\ e.bound = d.bound /\ e.sources = d.sources
      /\ e.default = d.default
  BY <1>4 DEF Only, Fields
<1>9. Fielded(e)
  BY <1>0, <1>7, <1>8 DEF Fielded
<1>10. Housed(e)
  BY <1>0, <1>6, <1>8 DEF Housed, Restricts
<1>11. IsRecord(e)
  BY <1>4 DEF Only
<1>12. Whole(e)
  BY <1>9, <1>10, <1>11, WholeBy
<1> QED
  BY <1>2, <1>3, <1>4, <1>6, <1>12

\* The net that idOf gives endpoint x of net n.
PartOf(idOf, n, x) ==
    LET around == {g \in DOMAIN idOf : x \in g}
    IN  IF around = {} THEN n ELSE idOf[CHOOSE g \in around : TRUE]

\* What is on net n in d is on the net of its part in e.
Divides(d, e, n, idOf) ==
    /\ \A t \in Terminals : /\ d.on[t] = n => e.on[t] = PartOf(idOf, n, t)
                            /\ d.on[t] # n => e.on[t] = d.on[t]
    /\ DOMAIN e.juncs = DOMAIN d.juncs
    /\ \A j \in DOMAIN d.juncs :
          /\ d.juncs[j].net = n => e.juncs[j].net = PartOf(idOf, n, j)
          /\ d.juncs[j].net # n => e.juncs[j].net = d.juncs[j].net
    /\ DOMAIN e.routes = DOMAIN d.routes
    /\ \A r \in DOMAIN d.routes :
          /\ d.routes[r].net = n =>
                e.routes[r].net = PartOf(idOf, n, d.routes[r].from)
          /\ d.routes[r].net # n => e.routes[r].net = d.routes[r].net

LEMMA PartitionedWhole ==
    ASSUME NEW d, Whole(d), NEW n \in d.nets, NEW idOf,
           \A g \in DOMAIN idOf : idOf[g] \in NetIds
    PROVE  LET e == Partitioned(d, n, idOf)
           IN  /\ Whole(e) /\ Only(d, e, {"nets", "on", "juncs", "routes"})
               /\ e.nets = d.nets \cup {idOf[g] : g \in DOMAIN idOf}
               /\ Divides(d, e, n, idOf)
<1> DEFINE e == Partitioned(d, n, idOf)
           parts == {idOf[g] : g \in DOMAIN idOf}
           to(x) == PartOf(idOf, n, x)
<1>0. IsRecord(d) /\ Fielded(d) /\ Housed(d) /\ d.nets \subseteq NetIds
  BY ByFields DEF Whole, Fielded
<1>1. Only(d, e, {"nets", "on", "juncs", "routes"})
  BY <1>0 DEF Partitioned, Only, IsRecord, Fields
<1>2. /\ e.nets = d.nets \cup parts
      /\ e.on = [t \in Terminals |-> IF d.on[t] = n THEN to(t) ELSE d.on[t]]
      /\ e.juncs = [j \in DOMAIN d.juncs |->
            IF d.juncs[j].net = n THEN [d.juncs[j] EXCEPT !.net = to(j)]
            ELSE d.juncs[j]]
      /\ e.routes = [r \in DOMAIN d.routes |->
            IF d.routes[r].net = n
            THEN [d.routes[r] EXCEPT !.net = to(d.routes[r].from)]
            ELSE d.routes[r]]
  BY <1>0 DEF Partitioned, PartOf, IsRecord, Fields
<1> HIDE DEF e
<1>3. \A x : to(x) \in parts \cup {n}
  BY DEF PartOf
<1>4. parts \subseteq NetIds
  OBVIOUS
<1>5. \A x : to(x) \in NetIds /\ to(x) \in e.nets
  BY <1>0, <1>2, <1>3, <1>4
<1> HIDE DEF parts, to
<1>6. \A j \in DOMAIN d.juncs :
         /\ d.juncs[j] \in JunctionType /\ e.juncs[j] \in JunctionType
         /\ e.juncs[j].net = IF d.juncs[j].net = n THEN to(j) ELSE d.juncs[j].net
  BY <1>0, <1>2, <1>5 DEF Fielded, PartialFunction, JunctionType
<1>7. \A r \in DOMAIN d.routes :
         /\ d.routes[r] \in RouteType /\ e.routes[r] \in RouteType
         /\ e.routes[r].net = IF d.routes[r].net = n THEN to(d.routes[r].from)
                              ELSE d.routes[r].net
  <2> SUFFICES ASSUME NEW r \in DOMAIN d.routes
               PROVE  /\ d.routes[r] \in RouteType /\ e.routes[r] \in RouteType
                      /\ e.routes[r].net = IF d.routes[r].net = n
                                           THEN to(d.routes[r].from)
                                           ELSE d.routes[r].net
    OBVIOUS
  <2>1. d.routes[r] \in RouteType
    BY <1>0 DEF Fielded, PartialFunction
  <2>2. CASE d.routes[r].net = n
    <3>1. e.routes[r] = [d.routes[r] EXCEPT !.net = to(d.routes[r].from)]
      BY <1>2, <2>2
    <3> QED
      BY <1>5, <2>1, <2>2, <3>1 DEF RouteType
  <2>3. CASE d.routes[r].net # n
    BY <1>2, <2>1, <2>3
  <2> QED
    BY <2>2, <2>3
<1>8. /\ DOMAIN e.juncs = DOMAIN d.juncs /\ DOMAIN e.routes = DOMAIN d.routes
      /\ PartialFunction(e.juncs, Junctions, JunctionType)
      /\ PartialFunction(e.routes, Routes, RouteType)
  BY <1>0, <1>2, <1>6, <1>7 DEF Fielded, PartialFunction
<1>9. Divides(d, e, n, idOf)
  BY <1>2, <1>6, <1>7, <1>8 DEF Divides, to
<1>10. /\ e.placed = d.placed /\ e.claims = d.claims /\ e.labels = d.labels
       /\ e.status = d.status /\ e.bound = d.bound /\ e.sources = d.sources
       /\ e.default = d.default
  BY <1>1 DEF Only, Fields
<1>11. Fielded(e)
  BY <1>0, <1>2, <1>4, <1>5, <1>8, <1>10 DEF Fielded
<1>12. Housed(e)
  BY <1>0, <1>2, <1>5, <1>6, <1>7, <1>8, <1>10 DEF Housed
<1>13. IsRecord(e)
  BY <1>1 DEF Only
<1>14. Whole(e)
  BY <1>11, <1>12, <1>13, WholeBy
<1> QED
  BY <1>1, <1>2, <1>9, <1>14 DEF e, parts

\* Owners are nets of the Document, or None.
LEMMA Owned ==
    ASSUME NEW d, Whole(d), NEW x
    PROVE  Owner(d, x) \in d.nets \cup {None} /\ NetOfAnchor(d, x) \in d.nets \cup {None}
BY DEF Whole, Housed, Owner, NetOfAnchor

\* The net that retargetOwnerEvidence gives label l, and a claim of owner o.
LabelNet(d, l) ==
    LET there == NetOfAnchor(d, d.labels[l].anchor)
    IN  IF there = None THEN d.labels[l].net ELSE there

ClaimNet(d, n, o) ==
    CASE o \in DOMAIN d.labels -> LabelNet(d, o)
      [] o \in Markers /\ d.on[o] # None -> d.on[o]
      [] OTHER -> n

\* Labels and claims of net n follow what they stand on.
FollowsOwner(d, e, n) ==
    /\ DOMAIN e.labels = DOMAIN d.labels
    /\ \A l \in DOMAIN d.labels :
          /\ e.labels[l].anchor = d.labels[l].anchor
          /\ e.labels[l].net \in {d.labels[l].net, LabelNet(d, l)}
    /\ e.claims = {IF c.net = n THEN [c EXCEPT !.net = ClaimNet(d, n, c.owner)]
                   ELSE c : c \in d.claims}

LEMMA FollowedWhole ==
    ASSUME NEW d, Whole(d), NEW n \in d.nets
    PROVE  LET e == retargetOwnerEvidence(d, n)
           IN  /\ Whole(e) /\ Only(d, e, {"labels", "claims"})
               /\ FollowsOwner(d, e, n)
<1> DEFINE e == retargetOwnerEvidence(d, n)
           claimed == {c.owner : c \in ClaimsOn(d, {n})}
           netOf(l) == LabelNet(d, l)
           to(o) == ClaimNet(d, n, o)
<1>0. IsRecord(d) /\ Fielded(d) /\ Housed(d) /\ d.nets \subseteq NetIds
  BY ByFields DEF Whole, Fielded
<1>1. Only(d, e, {"labels", "claims"})
  BY <1>0 DEF retargetOwnerEvidence, Only, IsRecord, Fields
<1>2. /\ e.labels = [l \in DOMAIN d.labels |->
            IF l \in claimed THEN [d.labels[l] EXCEPT !.net = netOf(l)]
            ELSE d.labels[l]]
      /\ e.claims = {IF c.net = n THEN [c EXCEPT !.net = to(c.owner)] ELSE c :
                       c \in d.claims}
  BY <1>0 DEF retargetOwnerEvidence, LabelNet, ClaimNet, IsRecord, Fields
<1> HIDE DEF e, claimed
<1>3. \A l \in DOMAIN d.labels : netOf(l) \in d.nets
  <2> TAKE l \in DOMAIN d.labels
  <2>1. NetOfAnchor(d, d.labels[l].anchor) \in d.nets \cup {None}
    BY Owned
  <2>2. d.labels[l].net \in d.nets
    BY <1>0 DEF Housed
  <2> QED
    BY <2>1, <2>2 DEF LabelNet
<1>4. \A o : to(o) \in d.nets
  <2> TAKE o
  <2>1. d.on \in [Terminals -> NetIds \cup {None}] /\ Markers \subseteq Terminals
    BY <1>0 DEF Fielded, Terminals
  <2>2. o \in Markers => d.on[o] \in d.nets \cup {None}
    BY <1>0, <2>1 DEF Housed
  <2> QED
    BY <1>3, <2>2 DEF ClaimNet
<1> HIDE DEF netOf, to
<1>5. \A l \in DOMAIN d.labels :
         /\ e.labels[l] \in LabelType
         /\ e.labels[l].anchor = d.labels[l].anchor
         /\ e.labels[l].net \in {d.labels[l].net, netOf(l)}
  BY <1>0, <1>2, <1>3 DEF Fielded, PartialFunction, LabelType
<1>6. PartialFunction(e.labels, Labels, LabelType) /\ DOMAIN e.labels = DOMAIN d.labels
  BY <1>0, <1>2, <1>5 DEF Fielded, PartialFunction
<1>7. \A c \in e.claims : c \in Claim /\ c.net \in d.nets
  <2>1. ASSUME NEW c \in d.claims
        PROVE  LET m == IF c.net = n THEN [c EXCEPT !.net = to(c.owner)] ELSE c
               IN  m \in Claim /\ m.net \in d.nets
    <3>1. c \in Claim /\ c.net \in d.nets
      BY <1>0 DEF Fielded, Housed
    <3>2. to(c.owner) \in NetIds /\ to(c.owner) \in d.nets
      BY <1>0, <1>4
    <3> QED
      BY <3>1, <3>2 DEF Claim
  <2> QED
    BY <1>2, <2>1
<1>8. /\ e.nets = d.nets /\ e.placed = d.placed /\ e.juncs = d.juncs
      /\ e.on = d.on /\ e.routes = d.routes
      /\ e.status = d.status /\ e.bound = d.bound /\ e.sources = d.sources
      /\ e.default = d.default
  BY <1>1 DEF Only, Fields
<1>9. Fielded(e)
  BY <1>0, <1>6, <1>7, <1>8 DEF Fielded
<1>10. Housed(e)
  BY <1>0, <1>3, <1>5, <1>6, <1>7, <1>8 DEF Housed
<1>11. IsRecord(e)
  BY <1>1 DEF Only
<1>12. FollowsOwner(d, e, n)
  BY <1>2, <1>5, <1>6 DEF FollowsOwner, netOf, to
<1> QED
  BY <1>1, <1>9, <1>10, <1>11, <1>12, WholeBy DEF e

\* A draft torn into parts: what a cut that divides a net leaves.
LEMMA TornWhole ==
    ASSUME NEW d, NEW p, Whole(p), NEW n \in p.nets, NEW idOf,
           \A g \in DOMAIN idOf : idOf[g] \in NetIds
    PROVE  LET parted == Partitioned(p, n, idOf)
               e == Torn(d, p, n, idOf)
           IN  /\ Whole(parted)
               /\ parted.nets = p.nets \cup {idOf[g] : g \in DOMAIN idOf}
               /\ Only(p, parted, {"nets", "on", "juncs", "routes"})
               /\ Divides(p, parted, n, idOf)
               /\ Whole(e)
               /\ Only(parted, e, {"labels", "claims", "sources", "default"})
               /\ FollowsOwner(parted, e, n)
<1> DEFINE parts == {idOf[g] : g \in DOMAIN idOf}
           m1 == Partitioned(p, n, idOf)
           m2 == retargetOwnerEvidence(m1, n)
           m3 == propagateSource(m2, n, parts)
           was == Identity(WithMarkersNamed(d, n), n)
           e == retargetDefault(m3, n, parts, was)
<1>1. /\ Whole(m1) /\ m1.nets = p.nets \cup parts /\ Divides(p, m1, n, idOf)
      /\ Only(p, m1, {"nets", "on", "juncs", "routes"})
  BY PartitionedWhole
<1>2. n \in m1.nets /\ parts \subseteq m1.nets
  BY <1>1
<1> HIDE DEF m1
<1>3. /\ Whole(m2) /\ Only(m1, m2, {"labels", "claims"})
      /\ FollowsOwner(m1, m2, n)
  BY <1>1, <1>2, FollowedWhole
<1> HIDE DEF m2, parts
<1>4. IsRecord(m2) /\ Fielded(m2) /\ Housed(m2) /\ parts \subseteq NetIds
  BY <1>1, <1>2, <1>3, ByFields DEF Whole, Fielded
<1>5. /\ Only(m2, m3, {"sources"})
      /\ m3.sources = IF n \in m2.sources THEN m2.sources \cup parts ELSE m2.sources
  BY <1>4 DEF propagateSource, Only, IsRecord, Fields
<1> HIDE DEF m3, was
<1>6. /\ m3.nets = m2.nets /\ m3.placed = m2.placed /\ m3.juncs = m2.juncs
      /\ m3.on = m2.on /\ m3.routes = m2.routes /\ m3.labels = m2.labels
      /\ m3.status = m2.status /\ m3.bound = m2.bound /\ m3.claims = m2.claims
      /\ m3.default = m2.default
  BY <1>5 DEF Only, Fields
<1>7. m3.sources \subseteq NetIds
  BY <1>4, <1>5 DEF Fielded
<1>8. IsRecord(m3) /\ Fielded(m3) /\ Housed(m3)
  <2>1. Fielded(m3)
    BY <1>4, <1>6, <1>7 DEF Fielded
  <2>2. Housed(m3)
    BY <1>4, <1>6 DEF Housed
  <2> QED
    BY <1>5, <2>1, <2>2 DEF Only
<1>9. Only(m3, e, {"default"}) /\ e.default \in m3.nets \cup {None}
  <2> DEFINE same(m) == /\ was.name # None => NameOf(m3, m) = was.name
                        /\ was.scope # None => ScopeOf(m3, m) = was.scope
                        /\ was.power \in {"ground", "vdd"} =>
                             PowerOf(m3, m) = was.power
             matching == {m \in parts : same(m)}
             found == Cardinality({LogicalNet(m3, m) : m \in matching}) = 1
  <2>1. e = m3 \/ (e = [m3 EXCEPT !.default = Min(matching)] /\ found)
    BY DEF retargetDefault
  <2>2. found => matching # {}
    <3>1. matching = {} => {LogicalNet(m3, m) : m \in matching} = {}
      OBVIOUS
    <3> QED
      BY <3>1, FS_EmptySet
  <2>3. matching \in SUBSET NetIds /\ matching \subseteq m3.nets
    <3>1. m3.nets = m1.nets
      BY <1>3, <1>6 DEF Only, Fields
    <3> QED
      BY <1>2, <1>4, <3>1
  <2> HIDE DEF matching, found
  <2>4. found => Min(matching) \in m3.nets
    BY <2>2, <2>3, LeastNet
  <2>5. m3.default \in m3.nets \cup {None}
    BY <1>8 DEF Housed
  <2>6. CASE e = m3
    BY <1>8, <2>5, <2>6 DEF Only
  <2>7. CASE e = [m3 EXCEPT !.default = Min(matching)] /\ found
    <3>1. Only(m3, e, {"default"}) /\ e.default = Min(matching)
      BY <1>8, <2>7 DEF Only, IsRecord, Fields
    <3> QED
      BY <2>4, <2>7, <3>1
  <2> QED
    BY <2>1, <2>6, <2>7
<1> HIDE DEF e
<1>10. /\ e.nets = m3.nets /\ e.placed = m3.placed /\ e.juncs = m3.juncs
       /\ e.on = m3.on /\ e.routes = m3.routes /\ e.labels = m3.labels
       /\ e.status = m3.status /\ e.bound = m3.bound /\ e.claims = m3.claims
       /\ e.sources = m3.sources
  BY <1>9 DEF Only, Fields
<1>11. m3.nets \subseteq NetIds
  BY <1>8 DEF Fielded
<1>12. Whole(e)
  <2>1. Fielded(e)
    BY <1>8, <1>9, <1>10, <1>11 DEF Fielded
  <2>2. Housed(e)
    BY <1>8, <1>9, <1>10 DEF Housed
  <2> QED
    BY <1>9, <2>1, <2>2, WholeBy DEF Only
<1>13. Only(m1, e, {"labels", "claims", "sources", "default"})
  BY <1>3, <1>5, <1>9 DEF Only, Fields
<1>14. FollowsOwner(m1, e, n)
  BY <1>3, <1>6, <1>10 DEF FollowsOwner
<1>15. e = Torn(d, p, n, idOf)
  BY DEF Torn, e, m3, m2, m1, parts, was
<1> QED
  BY <1>1, <1>12, <1>13, <1>14, <1>15 DEF m1, parts

-------------------------------------------------------------------------------
\* What stands on a net, and what its labels name.

Peopled(d, n) ==
    \/ \E t \in Terminals : d.on[t] = n
    \/ \E j \in DOMAIN d.juncs : d.juncs[j].net = n
    \/ \E r \in DOMAIN d.routes : d.routes[r].net = n

LEMMA PeopledIs ==
    ASSUME NEW d, Whole(d), NEW n
    PROVE  Populated(d, n) <=> Peopled(d, n)
<1>1. DOMAIN d.juncs \cap Terminals = {}
  BY LogicalNetsAssumption, ByFields DEF Whole, Fielded, PartialFunction
<1>2. netEndpoints(d, n) # {} <=> \/ \E t \in Terminals : d.on[t] = n
                                  \/ \E j \in DOMAIN d.juncs : d.juncs[j].net = n
  BY <1>1 DEF netEndpoints, Owner
<1>3. RoutesOf(d, n) # {} <=> \E r \in DOMAIN d.routes : d.routes[r].net = n
  BY DEF RoutesOf
<1> QED
  BY <1>2, <1>3 DEF Populated, Peopled

\* Nets that d and e share keep something on them, but those in S may not.
StillPeopled(d, e, S) ==
    \A n \in d.nets \cap e.nets : Peopled(d, n) => Peopled(e, n) \/ n \in S

LEMMA AnchorNet ==
    ASSUME NEW d, Whole(d)
    PROVE  /\ \A r \in DOMAIN d.routes : NetOfAnchor(d, r) = d.routes[r].net
           /\ \A j \in DOMAIN d.juncs : NetOfAnchor(d, j) = d.juncs[j].net
           /\ \A a \in Junctions \cup Routes :
                NetOfAnchor(d, a) # None => a \in DOMAIN d.routes \/ a \in DOMAIN d.juncs
           /\ DOMAIN d.routes \subseteq Routes /\ DOMAIN d.juncs \subseteq Junctions
           /\ DOMAIN d.routes \cap DOMAIN d.juncs = {}
           /\ \A a \in DOMAIN d.routes \cup DOMAIN d.juncs : NetOfAnchor(d, a) # None
<1>1. DOMAIN d.routes \subseteq Routes /\ DOMAIN d.juncs \subseteq Junctions
  BY ByFields DEF Whole, Fielded, PartialFunction
<1>2. Routes \cap Junctions = {} /\ Routes \cap Terminals = {} /\ Junctions \cap Terminals = {}
  BY LogicalNetsAssumption DEF Endpoints
<1>3. None \notin d.nets
  BY LogicalNetsAssumption, ByFields DEF Whole, Fielded
<1>4. /\ \A r \in DOMAIN d.routes : NetOfAnchor(d, r) = d.routes[r].net
      /\ \A j \in DOMAIN d.juncs : NetOfAnchor(d, j) = d.juncs[j].net
      /\ \A a \in Junctions \cup Routes :
            NetOfAnchor(d, a) # None => a \in DOMAIN d.routes \/ a \in DOMAIN d.juncs
  BY <1>1, <1>2 DEF NetOfAnchor, Owner
<1>5. \A a \in DOMAIN d.routes \cup DOMAIN d.juncs : NetOfAnchor(d, a) # None
  BY <1>3, <1>4 DEF Whole, Housed
<1> QED
  BY <1>1, <1>2, <1>4, <1>5

\* NamesItsWire, claim by claim.
LEMMA Naming ==
    ASSUME NEW d, NEW l
    PROVE  NamesItsWire(d, l) <=>
             /\ l \in DOMAIN d.labels
             /\ d.labels[l].anchor \in Junctions \cup Routes
             /\ NetOfAnchor(d, d.labels[l].anchor) # None
             /\ \E c \in d.claims : c.owner = l
             /\ \A c \in d.claims :
                  c.owner = l => c.net = NetOfAnchor(d, d.labels[l].anchor)
BY DEF NamesItsWire

\* Every label that names the net it stands on in d does so in e.
Carries(d, e) == \A l \in Labels : NamesItsWire(d, l) => NamesItsWire(e, l)

\* The same, as far as e still has the claim and what the label stands on.
CarriesOn(d, e) ==
    \A l \in Labels :
        /\ NamesItsWire(d, l)
        /\ \E c \in e.claims : c.owner = l
        /\ NetOfAnchor(e, e.labels[l].anchor) # None
        => NamesItsWire(e, l)

\* A draft in which Junctions, Routes and labels that are there still stand
\* where they stood, with no claims of labels but those that were there.
LEMMA Undisturbed ==
    ASSUME NEW d, Whole(d), NEW e, Whole(e),
           e.labels = d.labels,
           \A c \in e.claims : c.owner \in Labels => c \in d.claims,
           \A j \in DOMAIN d.juncs : j \in DOMAIN e.juncs => e.juncs[j].net = d.juncs[j].net,
           \A r \in DOMAIN d.routes : r \in DOMAIN e.routes => e.routes[r].net = d.routes[r].net
    PROVE  /\ CarriesOn(d, e)
           /\ /\ \A c \in d.claims : c.owner \in Labels => c \in e.claims
              /\ \A l \in DOMAIN d.labels :
                    /\ d.labels[l].anchor \in DOMAIN d.juncs => d.labels[l].anchor \in DOMAIN e.juncs
                    /\ d.labels[l].anchor \in DOMAIN d.routes => d.labels[l].anchor \in DOMAIN e.routes
              => Carries(d, e)
<1>1. \A a \in Junctions \cup Routes :
         NetOfAnchor(d, a) # None /\ NetOfAnchor(e, a) # None =>
            NetOfAnchor(e, a) = NetOfAnchor(d, a)
  <2> SUFFICES ASSUME NEW a \in Junctions \cup Routes,
                      NetOfAnchor(d, a) # None, NetOfAnchor(e, a) # None
               PROVE  NetOfAnchor(e, a) = NetOfAnchor(d, a)
    OBVIOUS
  <2>1. /\ a \in DOMAIN d.routes \/ a \in DOMAIN d.juncs
        /\ a \in DOMAIN e.routes \/ a \in DOMAIN e.juncs
    BY AnchorNet
  <2>2. Routes \cap Junctions = {}
    BY LogicalNetsAssumption DEF Endpoints
  <2>3. CASE a \in DOMAIN d.routes
    <3>1. a \in Routes /\ a \in DOMAIN e.routes
      BY <2>1, <2>2, <2>3, AnchorNet
    <3> QED
      BY <2>3, <3>1, AnchorNet
  <2>4. CASE a \in DOMAIN d.juncs
    <3>1. a \in Junctions /\ a \in DOMAIN e.juncs
      BY <2>1, <2>2, <2>4, AnchorNet
    <3> QED
      BY <2>4, <3>1, AnchorNet
  <2> QED
    BY <2>1, <2>3, <2>4
<1>2. CarriesOn(d, e)
  BY <1>1, Naming DEF CarriesOn
<1>3. ASSUME \A c \in d.claims : c.owner \in Labels => c \in e.claims,
             NEW l \in Labels, NamesItsWire(d, l),
             d.labels[l].anchor \in DOMAIN d.juncs => d.labels[l].anchor \in DOMAIN e.juncs,
             d.labels[l].anchor \in DOMAIN d.routes => d.labels[l].anchor \in DOMAIN e.routes
      PROVE  NamesItsWire(e, l)
  <2>1. \E c \in e.claims : c.owner = l
    BY <1>3, Naming
  <2>2. NetOfAnchor(e, e.labels[l].anchor) # None
    BY <1>3, Naming, AnchorNet
  <2> QED
    BY <1>2, <1>3, <2>1, <2>2 DEF CarriesOn
<1> QED
  BY <1>2, <1>3, Naming DEF Carries

\* e is a whole draft, with things on every net it shares with d but those in
\* S, and labels that name their wires.
Good(d, e, S) == Whole(e) /\ StillPeopled(d, e, S) /\ Carries(d, e)

LEMMA GoodThenGood ==
    ASSUME NEW d, NEW e, NEW f, NEW S, NEW T, Good(d, e, S), Good(e, f, T),
           d.nets \cap f.nets \subseteq e.nets
    PROVE  Good(d, f, S \cup T)
BY DEF Good, StillPeopled, Carries

LEMMA GoodSelf == ASSUME NEW d, Whole(d), NEW S PROVE Good(d, d, S)
BY DEF Good, StillPeopled, Carries

LEMMA MergeGood ==
    ASSUME NEW d, Whole(d), NEW n \in d.nets, NEW m, n # m
    PROVE  Good(d, mergeBaseNets(d, n, m), {})
<1> DEFINE e == mergeBaseNets(d, n, m)
           to(k) == Retargeted(k, m, n)
           moved(x) == [x EXCEPT !.net = to(x.net)]
<1>1. /\ Whole(e) /\ Retargets(d, e, n, m)
      /\ e.nets = d.nets \ {m}
  BY MergedWhole
<1> HIDE DEF e
<1>2. /\ \A t \in Terminals : e.on[t] = to(d.on[t])
      /\ DOMAIN e.juncs = DOMAIN d.juncs
      /\ \A j \in DOMAIN d.juncs : e.juncs[j] = moved(d.juncs[j])
      /\ DOMAIN e.routes = DOMAIN d.routes
      /\ \A r \in DOMAIN d.routes : e.routes[r] = moved(d.routes[r])
      /\ DOMAIN e.labels = DOMAIN d.labels
      /\ \A l \in DOMAIN d.labels : e.labels[l] = moved(d.labels[l])
      /\ e.claims = {moved(c) : c \in d.claims}
  BY <1>1 DEF Retargets
<1>3. /\ PartialFunction(d.juncs, Junctions, JunctionType)
      /\ PartialFunction(d.routes, Routes, RouteType)
      /\ PartialFunction(d.labels, Labels, LabelType)
      /\ d.claims \subseteq Claim /\ None \notin d.nets
  BY LogicalNetsAssumption, ByFields DEF Whole, Fielded
<1>4. /\ \A j \in DOMAIN d.juncs : e.juncs[j].net = to(d.juncs[j].net)
      /\ \A r \in DOMAIN d.routes : e.routes[r].net = to(d.routes[r].net)
      /\ \A l \in DOMAIN d.labels : e.labels[l].anchor = d.labels[l].anchor
  <2>1. /\ \A x \in JunctionType : moved(x).net = to(x.net)
        /\ \A x \in RouteType : moved(x).net = to(x.net)
        /\ \A x \in LabelType : moved(x).anchor = x.anchor
    BY DEF JunctionType, RouteType, LabelType
  <2>2. /\ \A j \in DOMAIN d.juncs : d.juncs[j] \in JunctionType
        /\ \A r \in DOMAIN d.routes : d.routes[r] \in RouteType
        /\ \A l \in DOMAIN d.labels : d.labels[l] \in LabelType
    BY <1>3 DEF PartialFunction
  <2> HIDE DEF moved
  <2> QED
    BY <1>2, <2>1, <2>2
<1>5. /\ \A c \in d.claims : moved(c).owner = c.owner /\ moved(c).net = to(c.net)
  BY <1>3 DEF Claim
<1>6. \A k \in d.nets : k # m => to(k) = k
  BY DEF Retargeted
<1> HIDE DEF moved
<1>7. StillPeopled(d, e, {})
  BY <1>1, <1>2, <1>4, <1>6 DEF StillPeopled, Peopled
<1>8. Carries(d, e)
  <2> SUFFICES ASSUME NEW l \in Labels, NamesItsWire(d, l)
               PROVE  NamesItsWire(e, l)
    BY DEF Carries
  <2> DEFINE a == d.labels[l].anchor
  <2>1. /\ l \in DOMAIN d.labels /\ a \in Junctions \cup Routes
        /\ NetOfAnchor(d, a) # None
        /\ \E c \in d.claims : c.owner = l
        /\ \A c \in d.claims : c.owner = l => c.net = NetOfAnchor(d, a)
    BY Naming
  <2>2. e.labels[l].anchor = a /\ l \in DOMAIN e.labels
    BY <1>2, <1>4, <2>1
  <2>3. NetOfAnchor(e, a) = to(NetOfAnchor(d, a)) /\ NetOfAnchor(e, a) # None
    <3>1. CASE a \in DOMAIN d.routes
      BY <1>1, <1>2, <1>4, <3>1, AnchorNet
    <3>2. CASE a \in DOMAIN d.juncs
      BY <1>1, <1>2, <1>4, <3>2, AnchorNet
    <3> QED
      BY <2>1, <3>1, <3>2, AnchorNet
  <2>4. \E c \in e.claims : c.owner = l
    BY <1>2, <1>5, <2>1
  <2>5. \A c \in e.claims : c.owner = l => c.net = NetOfAnchor(e, a)
    BY <1>2, <1>5, <2>1, <2>3
  <2> QED
    BY <2>1, <2>2, <2>3, <2>4, <2>5, Naming
<1> QED
  BY <1>1, <1>7, <1>8 DEF Good, e

\* Fields other than the nets, the claims, the sources and the default.
LEMMA PruneGood ==
    ASSUME NEW d, Whole(d), NEW ns
    PROVE  Good(d, pruneDeferring(d, ns), {})
<1> DEFINE e == pruneDeferring(d, ns)
<1>1. /\ Whole(e)
      /\ Only(d, e, {"nets", "claims", "sources", "default"})
      /\ e.claims = d.claims
  BY PrunedWhole
<1> HIDE DEF e
<1>2. /\ e.on = d.on /\ e.juncs = d.juncs /\ e.routes = d.routes
      /\ e.labels = d.labels
  BY <1>1 DEF Only, Fields
<1>3. StillPeopled(d, e, {})
  BY <1>2 DEF StillPeopled, Peopled
<1>4. Carries(d, e)
  BY <1>1, <1>2, Undisturbed
<1> QED
  BY <1>1, <1>3, <1>4 DEF Good, e

\* Drafts that differ in what no net, Junction, Route or label refers to.
LEMMA AlikeGood ==
    ASSUME NEW d, Whole(d), NEW e, Whole(e), e.labels = d.labels,
           \A c \in e.claims : c.owner \in Labels => c \in d.claims,
           \A c \in d.claims : c.owner \in Labels => c \in e.claims,
           e.on = d.on, e.juncs = d.juncs, e.routes = d.routes
    PROVE  Good(d, e, {})
<1>1. Carries(d, e)
  BY Undisturbed
<1>2. StillPeopled(d, e, {})
  BY DEF StillPeopled, Peopled
<1> QED
  BY <1>1, <1>2 DEF Good

LEMMA AddGood ==
    ASSUME NEW d, Whole(d), NEW n \in d.nets, NEW x,
           x \in Terminals => d.on[x] \in {None, n}
    PROVE  /\ Good(d, addEndpointToNet(d, n, x), {})
           /\ addEndpointToNet(d, n, x).nets = d.nets
<1> DEFINE e == addEndpointToNet(d, n, x)
<1>1. /\ Whole(e) /\ Only(d, e, {"on"})
      /\ StayPut(d, e, {x}) /\ PutOn(e, {x}, n)
  BY AddedWhole
<1> HIDE DEF e
<1>2. /\ e.juncs = d.juncs /\ e.routes = d.routes /\ e.claims = d.claims
      /\ e.labels = d.labels /\ e.nets = d.nets
  BY <1>1 DEF Only, Fields
<1>3. Carries(d, e)
  BY <1>1, <1>2, Undisturbed
<1>4. None \notin d.nets
  BY LogicalNetsAssumption, ByFields DEF Whole, Fielded
<1>5. \A k \in d.nets, t \in Terminals : d.on[t] = k => e.on[t] = k
  BY <1>1, <1>4 DEF StayPut, PutOn
<1>6. StillPeopled(d, e, {})
  BY <1>2, <1>5 DEF StillPeopled, Peopled
<1> QED
  BY <1>1, <1>2, <1>3, <1>6 DEF Good, e

LEMMA NewNetGood ==
    ASSUME NEW d, Whole(d), NEW n \in NetIds
    PROVE  LET e == [d EXCEPT !.nets = @ \cup {n}]
           IN  Good(d, e, {}) /\ e.nets = d.nets \cup {n} /\ Only(d, e, {"nets"})
<1> DEFINE e == [d EXCEPT !.nets = @ \cup {n}]
<1>0. IsRecord(d) /\ Fielded(d) /\ Housed(d)
  BY ByFields DEF Whole
<1>1. Only(d, e, {"nets"}) /\ e.nets = d.nets \cup {n}
  BY <1>0 DEF Only, IsRecord, Fields
<1> HIDE DEF e
<1>2. /\ e.placed = d.placed /\ e.juncs = d.juncs
      /\ e.on = d.on /\ e.routes = d.routes /\ e.labels = d.labels
      /\ e.status = d.status /\ e.bound = d.bound /\ e.claims = d.claims
      /\ e.sources = d.sources /\ e.default = d.default
  BY <1>1 DEF Only, Fields
<1>3. Fielded(e)
  BY <1>0, <1>1, <1>2 DEF Fielded
<1>4. Housed(e)
  BY <1>0, <1>1, <1>2 DEF Housed
<1>5. Whole(e)
  BY <1>1, <1>3, <1>4, WholeBy DEF Only
<1>6. Good(d, e, {})
  BY <1>2, <1>5, AlikeGood
<1> QED
  BY <1>1, <1>6 DEF e

\* A Route that is split, and the labels that move to its second half.
LEMMA SplitGood ==
    ASSUME NEW d, Whole(d), NEW r \in DOMAIN d.routes,
           NEW second \in Routes, second \notin DOMAIN d.routes,
           NEW x \in Endpoints, NEW moved, moved \subseteq LabelsAt(d, r)
    PROVE  LET e == RemapLabels(SplitRoute(d, r, second, x), moved, second)
           IN  Good(d, e, {}) /\ Only(d, e, {"routes", "labels"})
<1> DEFINE m == SplitRoute(d, r, second, x)
           e == RemapLabels(m, moved, second)
<1>1. Whole(m) /\ Only(d, m, {"routes"}) /\ Halves(d, m, r, second, x)
  BY SplitWhole
<1> HIDE DEF m
<1>2. Whole(e) /\ Only(m, e, {"labels"}) /\ Remaps(m, e, moved, second)
  BY <1>1, RemappedWhole
<1> HIDE DEF e
<1>3. Only(d, e, {"routes", "labels"})
  BY <1>1, <1>2 DEF Only, Fields
<1>4. e.routes = m.routes /\ m.labels = d.labels
  BY <1>1, <1>2 DEF Only, Fields
<1>5. /\ e.on = d.on /\ e.juncs = d.juncs /\ e.claims = d.claims
      /\ DOMAIN e.routes = DOMAIN d.routes \cup {second}
      /\ \A q \in DOMAIN d.routes : e.routes[q].net = d.routes[q].net
      /\ e.routes[second].net = d.routes[r].net
  BY <1>1, <1>3, <1>4 DEF Only, Fields, Halves
<1>6. StillPeopled(d, e, {})
  BY <1>5 DEF StillPeopled, Peopled
<1>7. Carries(d, e)
  <2> SUFFICES ASSUME NEW l \in Labels, NamesItsWire(d, l)
               PROVE  NamesItsWire(e, l)
    BY DEF Carries
  <2> DEFINE a == d.labels[l].anchor
             b == e.labels[l].anchor
  <2>1. /\ l \in DOMAIN d.labels /\ a \in Junctions \cup Routes
        /\ NetOfAnchor(d, a) # None
        /\ \E c \in d.claims : c.owner = l
        /\ \A c \in d.claims : c.owner = l => c.net = NetOfAnchor(d, a)
    BY Naming
  <2>2. /\ l \in DOMAIN e.labels
        /\ l \in moved => b = second
        /\ l \notin moved => b = a
    BY <1>2, <1>4, <2>1 DEF Remaps
  <2>3. NetOfAnchor(e, b) = NetOfAnchor(d, a)
    <3>1. CASE l \in moved
      <4>1. a = r /\ b = second
        BY <2>2, <3>1 DEF LabelsAt
      <4> HIDE DEF a, b
      <4> QED
        BY <1>2, <1>5, <4>1, AnchorNet
    <3>2. CASE l \notin moved
      <4>1. b = a
        BY <2>2, <3>2
      <4> HIDE DEF a, b
      <4>2. CASE a \in DOMAIN d.routes
        BY <1>2, <1>5, <4>1, <4>2, AnchorNet
      <4>3. CASE a \in DOMAIN d.juncs
        BY <1>2, <1>5, <4>1, <4>3, AnchorNet
      <4> QED
        BY <2>1, <4>2, <4>3, AnchorNet
    <3> QED
      BY <3>1, <3>2
  <2>4. b \in Junctions \cup Routes
    BY <2>1, <2>2
  <2> QED
    BY <1>5, <2>1, <2>2, <2>3, <2>4, Naming
<1> QED
  BY <1>2, <1>3, <1>6, <1>7 DEF Good, e, m

-------------------------------------------------------------------------------
\* Cutting.

\* A Junction at the end of a Route is there, on the net of the Route.
JunctionsJoin(d) ==
    \A r \in DOMAIN d.routes : \A j \in EndsOf(d.routes[r]) \cap Junctions :
        j \in DOMAIN d.juncs /\ d.juncs[j].net = d.routes[r].net

LEMMA PreparedGood ==
    ASSUME NEW d, Whole(d), JunctionsJoin(d), NEW r \in DOMAIN d.routes,
           LabelsAt(d, r) = {}
    PROVE  LET p == CutPrepared(d, r)
               n == d.routes[r].net
           IN  /\ Good(d, p, {n}) /\ JunctionsJoin(p)
               /\ Only(d, p, {"claims", "routes", "juncs"})
               /\ Restricts(d.routes, p.routes, {r})
<1> DEFINE n == d.routes[r].net
           m == WithMarkersNamed(d, n)
           p == WithoutRoute(m, r)
<1>1. n \in d.nets
  BY DEF Whole, Housed
<1>2. /\ Whole(m) /\ Only(d, m, {"claims"})
      /\ \A c \in m.claims \ d.claims : c \in missingPowerMarkerClaims(d, n)
      /\ \A c \in d.claims : c.net # n \/ c.owner # "declaration" => c \in m.claims
  BY <1>1, NamedWhole
<1>3. \A c \in missingPowerMarkerClaims(d, n) : c.owner \in Markers
  BY DEF missingPowerMarkerClaims
<1> HIDE DEF m
<1>4. /\ m.juncs = d.juncs /\ m.routes = d.routes /\ m.labels = d.labels
      /\ m.on = d.on /\ m.nets = d.nets
  BY <1>2 DEF Only, Fields
<1>5. /\ Whole(p) /\ Only(m, p, {"routes", "juncs"})
      /\ Restricts(m.routes, p.routes, {r})
      /\ \E orphans \in SUBSET EndsOf(m.routes[r]) :
            /\ Restricts(m.juncs, p.juncs, orphans)
            /\ \A j \in orphans : LabelsAt(m, j) = {}
  BY <1>2, <1>4, WithoutRouteWhole
<1>6. PICK orphans \in SUBSET EndsOf(d.routes[r]) :
            /\ Restricts(d.juncs, p.juncs, orphans)
            /\ \A j \in orphans : LabelsAt(d, j) = {}
  BY <1>4, <1>5 DEF LabelsAt
<1>7. \A j \in EndsOf(d.routes[r]) :
          RoutesAt(p, j) # {} /\ j \in DOMAIN d.juncs => j \in DOMAIN p.juncs
  <2> DEFINE left == [m EXCEPT !.routes = Without(@, {r})]
             lost == {j \in EndsOf(m.routes[r]) \cap DOMAIN m.juncs :
                        RoutesAt(left, j) = {} /\ LabelsAt(left, j) = {}}
  <2>1. IsRecord(m)
    BY <1>2 DEF Only
  <2>2. p = [left EXCEPT !.juncs = Without(@, lost)]
    BY DEF WithoutRoute
  <2>3. /\ left.routes = Without(m.routes, {r}) /\ left.juncs = m.juncs
        /\ IsRecord(left)
    BY <2>1 DEF IsRecord, Fields
  <2>4. \A j \in lost : RoutesAt(left, j) = {}
    OBVIOUS
  <2> HIDE DEF lost, left, p
  <2>5. p.juncs = Without(m.juncs, lost) /\ p.routes = left.routes
    BY <2>2, <2>3 DEF IsRecord, Fields
  <2>6. \A j : RoutesAt(p, j) = RoutesAt(left, j)
    BY <2>5 DEF RoutesAt
  <2> QED
    BY <1>4, <2>4, <2>5, <2>6 DEF Without
<1> HIDE DEF p
<1>8. Only(d, p, {"claims", "routes", "juncs"})
  BY <1>2, <1>5 DEF Only, Fields
<1>9. Restricts(d.routes, p.routes, {r}) /\ p.on = d.on /\ p.labels = d.labels
  BY <1>4, <1>5, <1>8 DEF Only, Fields
<1>10. \A q \in DOMAIN p.routes :
          q \in DOMAIN d.routes /\ q # r /\ p.routes[q] = d.routes[q]
  BY <1>9 DEF Restricts
<1>11. \A j \in DOMAIN p.juncs : j \in DOMAIN d.juncs /\ p.juncs[j] = d.juncs[j]
  BY <1>6 DEF Restricts
<1>12. JunctionsJoin(p)
  <2> SUFFICES ASSUME NEW q \in DOMAIN p.routes,
                      NEW j \in EndsOf(p.routes[q]) \cap Junctions
               PROVE  j \in DOMAIN p.juncs /\ p.juncs[j].net = p.routes[q].net
    BY DEF JunctionsJoin
  <2>1. j \in DOMAIN d.juncs /\ d.juncs[j].net = p.routes[q].net
    BY <1>10 DEF JunctionsJoin
  <2>2. RoutesAt(p, j) # {}
    BY DEF RoutesAt
  <2>3. j \in DOMAIN p.juncs
    BY <1>6, <1>7, <2>1, <2>2 DEF Restricts
  <2> QED
    BY <1>11, <2>1, <2>3
<1>13. StillPeopled(d, p, {n})
  <2>1. \A j \in orphans \cap DOMAIN d.juncs : d.juncs[j].net = n
    <3>1. DOMAIN d.juncs \subseteq Junctions
      BY AnchorNet
    <3> QED
      BY <1>6, <3>1 DEF JunctionsJoin
  <2>2. \A j \in DOMAIN d.juncs : d.juncs[j].net # n =>
            j \in DOMAIN p.juncs /\ p.juncs[j].net = d.juncs[j].net
    BY <1>6, <2>1 DEF Restricts
  <2>3. \A q \in DOMAIN d.routes : d.routes[q].net # n =>
            q \in DOMAIN p.routes /\ p.routes[q].net = d.routes[q].net
    BY <1>9 DEF Restricts
  <2> HIDE DEF n
  <2> QED
    BY <1>9, <2>2, <2>3 DEF StillPeopled, Peopled
<1>14. Carries(d, p)
  <2>1. Labels \cap (Markers \cup {"declaration"}) = {}
    BY LogicalNetsAssumption
  <2>2. p.claims = m.claims
    BY <1>5 DEF Only, Fields
  <2>3. \A c \in p.claims : c.owner \in Labels => c \in d.claims
    BY <1>2, <1>3, <2>1, <2>2
  <2>4. \A c \in d.claims : c.owner \in Labels => c \in p.claims
    BY <1>2, <2>1, <2>2
  <2>5. \A l \in DOMAIN d.labels :
            d.labels[l].anchor # r /\ d.labels[l].anchor \notin orphans
    BY <1>6 DEF LabelsAt
  <2>6. \A l \in DOMAIN d.labels :
          /\ d.labels[l].anchor \in DOMAIN d.juncs => d.labels[l].anchor \in DOMAIN p.juncs
          /\ d.labels[l].anchor \in DOMAIN d.routes => d.labels[l].anchor \in DOMAIN p.routes
    BY <1>6, <1>9, <2>5 DEF Restricts
  <2> QED
    BY <1>5, <1>9, <1>10, <1>11, <2>3, <2>4, <2>6, Undisturbed
<1>15. Good(d, p, {n})
  BY <1>5, <1>13, <1>14 DEF Good
<1> QED
  BY <1>8, <1>9, <1>12, <1>15 DEF CutPrepared, p, m

LEMMA EndpointsFinite ==
    ASSUME NEW d, Whole(d), NEW n
    PROVE  IsFiniteSet(netEndpoints(d, n)) /\ netEndpoints(d, n) \subseteq Endpoints
<1>1. netEndpoints(d, n) \subseteq Endpoints
  BY AnchorNet DEF netEndpoints, Endpoints
<1> QED
  BY <1>1, LogicalNetsAssumption, FS_Subset

\* The component of endpoint x among those of net n.
Group(d, n, x) == Component(x, netEndpoints(d, n), WiredPairs(d, n))

LEMMA Groups ==
    ASSUME NEW d, Whole(d), NEW n
    PROVE  LET S == netEndpoints(d, n)
           IN  /\ netEndpointGroups(d, n) = {Group(d, n, x) : x \in S}
               /\ \A x \in S :
                    /\ x \in Group(d, n, x) /\ Group(d, n, x) \subseteq S
                    /\ Closed(Group(d, n, x), S, WiredPairs(d, n))
                    /\ \A T \in SUBSET S :
                         Closed(T, S, WiredPairs(d, n)) /\ x \in T => Group(d, n, x) \subseteq T
                    /\ \A y \in Group(d, n, x) : Group(d, n, y) = Group(d, n, x)
<1> DEFINE S == netEndpoints(d, n)
           W == WiredPairs(d, n)
<1>1. IsFiniteSet(S)
  BY EndpointsFinite
<1>2. \A x, y \in S : <<x, y>> \in W => <<y, x>> \in W
  <2>1. \A x, y : Wired(d, n, x, y) => Wired(d, n, y, x)
    BY DEF Wired, Coincident
  <2> QED
    BY <2>1 DEF WiredPairs
<1> HIDE DEF S, W
<1>3. ASSUME NEW x \in S
      PROVE  LET C == Component(x, S, W)
             IN  /\ x \in C /\ Closed(C, S, W)
                 /\ \A T \in SUBSET S : Closed(T, S, W) /\ x \in T => C \subseteq T
                 /\ \A y \in C : Component(y, S, W) = C
  <2>1. /\ x \in Component(x, S, W) /\ Closed(Component(x, S, W), S, W)
        /\ \A T \in SUBSET S : Closed(T, S, W) /\ x \in T => Component(x, S, W) \subseteq T
    BY <1>1, Reach
  <2>2. ASSUME NEW y \in Component(x, S, W)
        PROVE  Component(y, S, W) = Component(x, S, W)
    BY <1>1, <1>2, <2>2, Parts
  <2> QED
    BY <2>1, <2>2
<1>4. \A C : Closed(C, S, W) => C \subseteq S
  BY DEF Closed
<1>5. netEndpointGroups(d, n) = {Component(x, S, W) : x \in S}
  BY DEF netEndpointGroups, S, W
<1> QED
  BY <1>3, <1>4, <1>5 DEF Group, S, W

\* Every endpoint of the net is given the net of its own group.
LEMMA PartOfGroup ==
    ASSUME NEW d, Whole(d), NEW n, NEW idOf,
           DOMAIN idOf = netEndpointGroups(d, n), NEW x \in netEndpoints(d, n)
    PROVE  PartOf(idOf, n, x) = idOf[Group(d, n, x)]
<1> DEFINE around == {g \in DOMAIN idOf : x \in g}
<1>1. \A y \in netEndpoints(d, n) :
         x \in Group(d, n, y) => Group(d, n, y) = Group(d, n, x)
  BY Groups
<1>2. Group(d, n, x) \in DOMAIN idOf /\ x \in Group(d, n, x)
  BY Groups
<1>3. \A g \in DOMAIN idOf : \E y \in netEndpoints(d, n) : g = Group(d, n, y)
  BY Groups
<1>4. around = {Group(d, n, x)}
  BY <1>1, <1>2, <1>3
<1>5. PartOf(idOf, n, x) = IF around = {} THEN n ELSE idOf[CHOOSE g \in around : TRUE]
  BY DEF PartOf
<1> HIDE DEF around
<1>6. (CHOOSE g \in around : TRUE) = Group(d, n, x)
  BY <1>4
<1> QED
  BY <1>4, <1>5, <1>6

\* e has the nets of p and those of its parts; what was on net n is on them.
Parted(p, e, n, idOf) ==
    /\ e.nets = p.nets \cup {idOf[g] : g \in DOMAIN idOf}
    /\ \A x \in netEndpoints(p, n) : Owner(e, x) = idOf[Group(p, n, x)]

\* p with the groups of net n on nets of their own, the primary group on n.
LEMMA TornGood ==
    ASSUME NEW d, NEW p, Whole(p), JunctionsJoin(p), NEW n \in p.nets, NEW idOf,
           DOMAIN idOf = netEndpointGroups(p, n),
           \A g \in DOMAIN idOf : idOf[g] \in NetIds,
           NEW primary \in DOMAIN idOf, idOf[primary] = n,
           \A s \in RoutesOf(p, n) :
                EndsOf(p.routes[s]) \subseteq UNION netEndpointGroups(p, n)
    PROVE  LET e == Torn(d, p, n, idOf)
           IN  Good(p, e, {}) /\ JunctionsJoin(e) /\ Parted(p, e, n, idOf)
<1> DEFINE parted == Partitioned(p, n, idOf)
           e == Torn(d, p, n, idOf)
           S == netEndpoints(p, n)
<1>1. /\ Whole(parted) /\ Whole(e) /\ Divides(p, parted, n, idOf)
      /\ parted.nets = p.nets \cup {idOf[g] : g \in DOMAIN idOf}
      /\ Only(p, parted, {"nets", "on", "juncs", "routes"})
      /\ Only(parted, e, {"labels", "claims", "sources", "default"})
      /\ FollowsOwner(parted, e, n)
  BY TornWhole
<1> HIDE DEF parted, e
<1>2. /\ e.on = parted.on /\ e.juncs = parted.juncs /\ e.routes = parted.routes
      /\ e.nets = parted.nets
      /\ parted.labels = p.labels /\ parted.claims = p.claims
  BY <1>1 DEF Only, Fields
<1>3. Divides(p, e, n, idOf)
  BY <1>1, <1>2 DEF Divides
<1>4. /\ \A t \in Terminals : t \in S <=> p.on[t] = n
      /\ \A j \in DOMAIN p.juncs : j \in S <=> p.juncs[j].net = n
      /\ S \subseteq Terminals \cup DOMAIN p.juncs
  <2>1. Terminals \cap DOMAIN p.juncs = {}
    BY LogicalNetsAssumption, AnchorNet
  <2> QED
    BY <2>1 DEF netEndpoints, Owner
<1>5. \A x \in S : PartOf(idOf, n, x) = idOf[Group(p, n, x)]
  BY PartOfGroup
<1>6. \A x \in S : Owner(e, x) = idOf[Group(p, n, x)]
  <2> SUFFICES ASSUME NEW x \in S PROVE Owner(e, x) = PartOf(idOf, n, x)
    BY <1>5
  <2>1. CASE x \in Terminals
    BY <1>3, <1>4, <2>1 DEF Owner, Divides
  <2>2. CASE x \notin Terminals
    BY <1>3, <1>4, <2>2 DEF Owner, Divides
  <2> QED
    BY <2>1, <2>2
<1>7. StillPeopled(p, e, {})
  <2>1. PICK x \in S : primary = Group(p, n, x)
    BY Groups
  <2>2. PartOf(idOf, n, x) = n
    BY <1>5, <2>1
  <2>3. Peopled(e, n)
    BY <1>3, <1>4, <2>2 DEF Peopled, Divides
  <2>4. \A k \in p.nets : k # n /\ Peopled(p, k) => Peopled(e, k)
    BY <1>3 DEF Peopled, Divides
  <2> QED
    BY <2>3, <2>4 DEF StillPeopled
<1>8. JunctionsJoin(e)
  <2> SUFFICES ASSUME NEW r \in DOMAIN e.routes,
                      NEW j \in EndsOf(e.routes[r]) \cap Junctions
               PROVE  j \in DOMAIN e.juncs /\ e.juncs[j].net = e.routes[r].net
    BY DEF JunctionsJoin
  <2>1. r \in DOMAIN p.routes /\ EndsOf(e.routes[r]) = EndsOf(p.routes[r])
    <3>1. /\ e.routes = [q \in DOMAIN p.routes |->
            IF p.routes[q].net = n
            THEN [p.routes[q] EXCEPT !.net = PartOf(idOf, n, p.routes[q].from)]
            ELSE p.routes[q]]
      BY <1>2, ByFields DEF parted, Partitioned, PartOf, Whole, IsRecord, Fields
    <3>2. r \in DOMAIN p.routes /\ p.routes[r] \in RouteType
      BY <3>1, ByFields DEF Whole, Fielded, PartialFunction
    <3>3. e.routes[r].from = p.routes[r].from /\ e.routes[r].to = p.routes[r].to
      BY <3>1, <3>2 DEF RouteType
    <3> QED
      BY <3>2, <3>3 DEF EndsOf
  <2>2. j \in DOMAIN p.juncs /\ p.juncs[j].net = p.routes[r].net
    BY <2>1 DEF JunctionsJoin
  <2>3. j \in DOMAIN e.juncs
    BY <1>3, <2>2 DEF Divides
  <2>4. CASE p.routes[r].net # n
    BY <1>3, <2>1, <2>2, <2>3, <2>4 DEF Divides
  <2>5. CASE p.routes[r].net = n
    <3> DEFINE f == p.routes[r].from
    <3>1. e.routes[r].net = PartOf(idOf, n, f) /\ e.juncs[j].net = PartOf(idOf, n, j)
      BY <1>3, <2>1, <2>2, <2>5 DEF Divides
    <3>2. r \in RoutesOf(p, n)
      BY <2>1, <2>5 DEF RoutesOf
    <3>3. f \in S /\ j \in S
      <4>1. EndsOf(p.routes[r]) \subseteq UNION netEndpointGroups(p, n)
        BY <3>2
      <4>2. UNION netEndpointGroups(p, n) \subseteq S
        BY Groups
      <4> QED
        BY <2>1, <4>1, <4>2 DEF EndsOf
    <3>4. Group(p, n, f) = Group(p, n, j)
      <4>1. CASE f = j
        BY <4>1
      <4>2. CASE f # j
        <5>1. EndsOf(p.routes[r]) = {f, j}
          BY <2>1, <4>2 DEF EndsOf
        <5>2. Wired(p, n, f, j)
          BY <3>2, <5>1 DEF Wired
        <5>3. <<f, j>> \in WiredPairs(p, n)
          BY <3>3, <5>2 DEF WiredPairs
        <5>4. j \in Group(p, n, f)
          BY <3>3, <5>3, Groups DEF Closed
        <5> QED
          BY <3>3, <5>4, Groups
      <4> QED
        BY <4>1, <4>2
    <3> QED
      BY <1>5, <2>3, <3>1, <3>3, <3>4
  <2> QED
    BY <2>4, <2>5
<1>9. Carries(p, e)
  <2> SUFFICES ASSUME NEW l \in Labels, NamesItsWire(p, l)
               PROVE  NamesItsWire(e, l)
    BY DEF Carries
  <2> DEFINE a == p.labels[l].anchor
  <2>1. /\ l \in DOMAIN p.labels /\ a \in Junctions \cup Routes
        /\ NetOfAnchor(p, a) # None
        /\ \E c \in p.claims : c.owner = l
        /\ \A c \in p.claims : c.owner = l => c.net = NetOfAnchor(p, a)
    BY Naming
  <2>2. l \in DOMAIN e.labels /\ e.labels[l].anchor = a
    BY <1>1, <1>2, <2>1 DEF FollowsOwner
  <2>3. a \in DOMAIN p.routes \/ a \in DOMAIN p.juncs
    BY <2>1, AnchorNet
  <2>4. a \in DOMAIN e.routes \cup DOMAIN e.juncs
    BY <1>3, <2>3 DEF Divides
  <2>5. NetOfAnchor(e, a) # None
    BY <1>1, <2>4, AnchorNet
  <2>6. NetOfAnchor(parted, a) = NetOfAnchor(e, a)
    BY <1>2 DEF NetOfAnchor, Owner
  <2>7. NetOfAnchor(p, a) # n => NetOfAnchor(e, a) = NetOfAnchor(p, a)
    <3> HIDE DEF a
    <3>1. CASE a \in DOMAIN p.routes
      BY <1>1, <1>3, <3>1, AnchorNet DEF Divides
    <3>2. CASE a \in DOMAIN p.juncs
      BY <1>1, <1>3, <3>2, AnchorNet DEF Divides
    <3> QED
      BY <2>3, <3>1, <3>2
  <2>8. LabelNet(parted, l) = NetOfAnchor(e, a)
    BY <1>2, <2>5, <2>6 DEF LabelNet
  <2>9. ClaimNet(parted, n, l) = NetOfAnchor(e, a)
    <3>1. l \notin Markers
      BY LogicalNetsAssumption
    <3> QED
      BY <1>2, <2>1, <2>8, <3>1 DEF ClaimNet
  <2>10. e.claims = {IF c.net = n THEN [c EXCEPT !.net = ClaimNet(parted, n, c.owner)]
                     ELSE c : c \in p.claims}
    BY <1>1, <1>2 DEF FollowsOwner
  <2>11. p.claims \subseteq Claim
    BY ByFields DEF Whole, Fielded
  <2> HIDE DEF a
  <2> DEFINE follow(c) == IF c.net = n
                          THEN [c EXCEPT !.net = ClaimNet(parted, n, c.owner)] ELSE c
  <2>12. ASSUME NEW c \in p.claims
         PROVE  /\ follow(c).owner = c.owner
                /\ c.net = n => follow(c).net = ClaimNet(parted, n, c.owner)
                /\ c.net # n => follow(c).net = c.net
    <3>1. c \in Claim
      BY <2>11
    <3>2. CASE c.net = n
      BY <3>1, <3>2 DEF Claim
    <3>3. CASE c.net # n
      BY <3>3
    <3> QED
      BY <3>2, <3>3
  <2>13. e.claims = {follow(c) : c \in p.claims}
    BY <2>10
  <2> HIDE DEF follow
  <2>14. \E c \in e.claims : c.owner = l
    <3> PICK c \in p.claims : c.owner = l
      BY <2>1
    <3>1. follow(c) \in e.claims
      BY <2>13
    <3> QED
      BY <2>12, <3>1
  <2>15. ASSUME NEW b \in e.claims, b.owner = l
         PROVE  b.net = NetOfAnchor(e, a)
    <3> PICK c \in p.claims : b = follow(c)
      BY <2>13
    <3>1. c.owner = l /\ c.net = NetOfAnchor(p, a)
      BY <2>1, <2>12, <2>15
    <3> QED
      BY <2>7, <2>9, <2>12, <3>1
  <2> QED
    BY <2>1, <2>2, <2>5, <2>14, <2>15, Naming
<1>10. Good(p, e, {})
  BY <1>1, <1>7, <1>9 DEF Good
<1> QED
  BY <1>1, <1>2, <1>6, <1>8, <1>10 DEF e, Parted

\* The primary group is one of the groups.
LEMMA Primary ==
    ASSUME NEW groups, groups # {}, NEW route
    PROVE  PrimaryGroup(groups, route) \in groups
BY DEF PrimaryGroup

\* What the choice of ids makes of the groups.
LEMMA Choosing ==
    ASSUME NEW d, NEW r, NEW unused, CutGroups(d, r) # {}, CutIds(d, r, unused) # {}
    PROVE  LET n == d.routes[r].net
               idOf == CHOOSE idOf \in CutIds(d, r, unused) : TRUE
           IN  /\ DOMAIN idOf = CutGroups(d, r)
               /\ \A g \in DOMAIN idOf : idOf[g] \in unused \cup {n}
               /\ \A g, h \in DOMAIN idOf : idOf[g] = idOf[h] => g = h
               /\ PrimaryGroup(CutGroups(d, r), d.routes[r]) \in DOMAIN idOf
               /\ idOf[PrimaryGroup(CutGroups(d, r), d.routes[r])] = n
<1> DEFINE n == d.routes[r].net
           groups == CutGroups(d, r)
           primary == PrimaryGroup(groups, d.routes[r])
           idOf == CHOOSE idOf \in CutIds(d, r, unused) : TRUE
<1>1. primary \in groups
  BY Primary
<1>2. idOf \in CutIds(d, r, unused)
  OBVIOUS
<1> HIDE DEF idOf
<1>3. /\ idOf \in [groups -> unused \cup {n}]
      /\ \A g \in groups : /\ idOf[g] = n <=> g = primary
                           /\ \A h \in groups : idOf[g] = idOf[h] => g = h
  BY <1>2 DEF CutIds, GroupIds
<1> HIDE DEF groups, primary, n
<1> QED
  BY <1>1, <1>3 DEF idOf, groups, primary, n



-------------------------------------------------------------------------------
\* Junctions stay on the nets of their Routes.

LEMMA JoinsAlike ==
    ASSUME NEW d, JunctionsJoin(d), NEW e, e.juncs = d.juncs, e.routes = d.routes
    PROVE  JunctionsJoin(e)
BY DEF JunctionsJoin

LEMMA MergeJoins ==
    ASSUME NEW d, Whole(d), JunctionsJoin(d), NEW n \in d.nets, NEW m, n # m
    PROVE  JunctionsJoin(mergeBaseNets(d, n, m))
<1> DEFINE e == mergeBaseNets(d, n, m)
           moved(x) == [x EXCEPT !.net = Retargeted(x.net, m, n)]
<1>1. Retargets(d, e, n, m)
  BY MergedWhole
<1> HIDE DEF e
<1>2. /\ DOMAIN e.juncs = DOMAIN d.juncs
      /\ \A j \in DOMAIN d.juncs : e.juncs[j] = moved(d.juncs[j])
      /\ DOMAIN e.routes = DOMAIN d.routes
      /\ \A r \in DOMAIN d.routes : e.routes[r] = moved(d.routes[r])
  BY <1>1 DEF Retargets
<1>3. /\ \A j \in DOMAIN d.juncs : d.juncs[j] \in JunctionType
      /\ \A r \in DOMAIN d.routes : d.routes[r] \in RouteType
  BY ByFields DEF Whole, Fielded, PartialFunction
<1>4. /\ \A x \in JunctionType : moved(x).net = Retargeted(x.net, m, n)
      /\ \A x \in RouteType : /\ moved(x).net = Retargeted(x.net, m, n)
                              /\ EndsOf(moved(x)) = EndsOf(x)
  BY DEF JunctionType, RouteType, EndsOf
<1> HIDE DEF moved
<1>5. /\ \A j \in DOMAIN d.juncs : e.juncs[j].net = Retargeted(d.juncs[j].net, m, n)
      /\ \A r \in DOMAIN d.routes :
            /\ e.routes[r].net = Retargeted(d.routes[r].net, m, n)
            /\ EndsOf(e.routes[r]) = EndsOf(d.routes[r])
  BY <1>2, <1>3, <1>4
<1> QED
  BY <1>2, <1>5 DEF JunctionsJoin, e

LEMMA SplitJoins ==
    ASSUME NEW d, Whole(d), JunctionsJoin(d), NEW r \in DOMAIN d.routes,
           NEW second \in Routes, second \notin DOMAIN d.routes,
           NEW x \in Endpoints, NEW moved,
           x \in Junctions => x \in DOMAIN d.juncs /\ d.juncs[x].net = d.routes[r].net
    PROVE  JunctionsJoin(RemapLabels(SplitRoute(d, r, second, x), moved, second))
<1> DEFINE f == SplitRoute(d, r, second, x)
           e == RemapLabels(f, moved, second)
<1>1. Whole(f) /\ Only(d, f, {"routes"}) /\ Halves(d, f, r, second, x)
  BY SplitWhole
<1> HIDE DEF f
<1>2. Only(f, e, {"labels"})
  BY <1>1, RemappedWhole
<1> HIDE DEF e
<1>3. e.juncs = d.juncs /\ e.routes = f.routes
  BY <1>1, <1>2 DEF Only, Fields
<1>4. \A q \in DOMAIN d.routes : d.routes[q] \in RouteType
  BY ByFields DEF Whole, Fielded, PartialFunction
<1>5. r # second
  OBVIOUS
<1>6. /\ f.routes[second].from = x /\ f.routes[second].to = d.routes[r].to
      /\ f.routes[second].net = d.routes[r].net
      /\ f.routes[r].to = x /\ f.routes[r].from = d.routes[r].from
      /\ f.routes[r].net = d.routes[r].net
  <2>1. /\ f.routes[second] = [d.routes[r] EXCEPT !.from = x, !.over = None]
        /\ f.routes[r] = [d.routes[r] EXCEPT !.to = x, !.over = None]
    BY <1>1, <1>5 DEF Halves
  <2> QED
    BY <1>4, <2>1 DEF RouteType
<1>7. /\ DOMAIN f.routes = DOMAIN d.routes \cup {second}
      /\ \A q \in DOMAIN d.routes : q # r => f.routes[q] = d.routes[q]
  BY <1>1 DEF Halves
<1>8. JunctionsJoin(f)
  <2> SUFFICES ASSUME NEW q \in DOMAIN f.routes,
                      NEW j \in EndsOf(f.routes[q]) \cap Junctions
               PROVE  j \in DOMAIN d.juncs /\ d.juncs[j].net = f.routes[q].net
    BY <1>1 DEF JunctionsJoin, Only, Fields
  <2>1. CASE q \notin {r, second}
    BY <1>7, <2>1 DEF JunctionsJoin
  <2>2. CASE q \in {r, second}
    BY <1>6, <2>2 DEF JunctionsJoin, EndsOf
  <2> QED
    BY <2>1, <2>2
<1>9. f.juncs = d.juncs
  BY <1>1 DEF Only, Fields
<1> QED
  BY <1>3, <1>8, <1>9, JoinsAlike DEF e, f

-------------------------------------------------------------------------------
\* One field of a Document set anew.

LEMMA ClaimsWhole ==
    ASSUME NEW d, Whole(d), NEW cs, cs \subseteq Claim, \A c \in cs : c.net \in d.nets
    PROVE  LET e == [d EXCEPT !.claims = cs]
           IN  Whole(e) /\ Only(d, e, {"claims"}) /\ e.claims = cs
<1> DEFINE e == [d EXCEPT !.claims = cs]
<1>1. IsRecord(d) /\ Fielded(d) /\ Housed(d)
  BY ByFields DEF Whole
<1>2. IsRecord(e) /\ Only(d, e, {"claims"}) /\ e.claims = cs
  BY <1>1 DEF Only, IsRecord, Fields
<1> HIDE DEF e
<1>3. Fielded(e) /\ Housed(e)
  BY <1>1, <1>2 DEF Fielded, Housed, Only, Fields
<1> QED
  BY <1>2, <1>3, WholeBy DEF e

LEMMA LabelsWhole ==
    ASSUME NEW d, Whole(d), NEW ls, PartialFunction(ls, Labels, LabelType),
           \A l \in DOMAIN ls : ls[l].net \in d.nets
    PROVE  LET e == [d EXCEPT !.labels = ls]
           IN  Whole(e) /\ Only(d, e, {"labels"}) /\ e.labels = ls
<1> DEFINE e == [d EXCEPT !.labels = ls]
<1>1. IsRecord(d) /\ Fielded(d) /\ Housed(d)
  BY ByFields DEF Whole
<1>2. IsRecord(e) /\ Only(d, e, {"labels"}) /\ e.labels = ls
  BY <1>1 DEF Only, IsRecord, Fields
<1> HIDE DEF e
<1>3. Fielded(e) /\ Housed(e)
  BY <1>1, <1>2 DEF Fielded, Housed, Only, Fields
<1> QED
  BY <1>2, <1>3, WholeBy DEF e

LEMMA JunctionsWhole ==
    ASSUME NEW d, Whole(d), NEW js, PartialFunction(js, Junctions, JunctionType),
           \A j \in DOMAIN js : js[j].net \in d.nets
    PROVE  LET e == [d EXCEPT !.juncs = js]
           IN  Whole(e) /\ Only(d, e, {"juncs"}) /\ e.juncs = js
<1> DEFINE e == [d EXCEPT !.juncs = js]
<1>1. IsRecord(d) /\ Fielded(d) /\ Housed(d)
  BY ByFields DEF Whole
<1>2. IsRecord(e) /\ Only(d, e, {"juncs"}) /\ e.juncs = js
  BY <1>1 DEF Only, IsRecord, Fields
<1> HIDE DEF e
<1>3. Fielded(e) /\ Housed(e)
  BY <1>1, <1>2 DEF Fielded, Housed, Only, Fields
<1> QED
  BY <1>2, <1>3, WholeBy DEF e

LEMMA RoutesWhole ==
    ASSUME NEW d, Whole(d), NEW rs, PartialFunction(rs, Routes, RouteType),
           \A r \in DOMAIN rs : rs[r].net \in d.nets
    PROVE  LET e == [d EXCEPT !.routes = rs]
           IN  Whole(e) /\ Only(d, e, {"routes"}) /\ e.routes = rs
<1> DEFINE e == [d EXCEPT !.routes = rs]
<1>1. IsRecord(d) /\ Fielded(d) /\ Housed(d)
  BY ByFields DEF Whole
<1>2. IsRecord(e) /\ Only(d, e, {"routes"}) /\ e.routes = rs
  BY <1>1 DEF Only, IsRecord, Fields
<1> HIDE DEF e
<1>3. Fielded(e) /\ Housed(e)
  BY <1>1, <1>2 DEF Fielded, Housed, Only, Fields
<1> QED
  BY <1>2, <1>3, WholeBy DEF e

\* A terminal that leaves its net, bound or not.
LEMMA LoosedWhole ==
    ASSUME NEW d, Whole(d), NEW t \in Terminals
    PROVE  LET e == [d EXCEPT !.on[t] = None, !.bound = @ \ {t}]
           IN  Whole(e) /\ Only(d, e, {"on", "bound"}) /\ StayPut(d, e, {t})
<1> DEFINE e == [d EXCEPT !.on[t] = None, !.bound = @ \ {t}]
<1>1. IsRecord(d) /\ Fielded(d) /\ Housed(d)
  BY ByFields DEF Whole
<1>2. /\ IsRecord(e) /\ Only(d, e, {"on", "bound"})
      /\ e.on = [d.on EXCEPT ![t] = None] /\ e.bound = d.bound \ {t}
  BY <1>1 DEF Only, IsRecord, Fields
<1> HIDE DEF e
<1>3. /\ e.on \in [Terminals -> NetIds \cup {None}]
      /\ \A u \in Terminals : u # t => e.on[u] = d.on[u]
      /\ e.on[t] = None
  BY <1>1, <1>2 DEF Fielded
<1>4. Fielded(e)
  BY <1>1, <1>2, <1>3 DEF Fielded, Only, Fields
<1>5. Housed(e)
  BY <1>1, <1>2, <1>3 DEF Housed, Only, Fields
<1>6. StayPut(d, e, {t})
  BY <1>3 DEF StayPut
<1> QED
  BY <1>2, <1>4, <1>5, <1>6, WholeBy DEF e

LEMMA PlacedWhole ==
    ASSUME NEW d, Whole(d), NEW ts, ts \subseteq Terminals
    PROVE  LET e == [d EXCEPT !.placed = ts]
           IN  Whole(e) /\ Only(d, e, {"placed"})
<1> DEFINE e == [d EXCEPT !.placed = ts]
<1>1. IsRecord(d) /\ Fielded(d) /\ Housed(d)
  BY ByFields DEF Whole
<1>2. IsRecord(e) /\ Only(d, e, {"placed"}) /\ e.placed = ts
  BY <1>1 DEF Only, IsRecord, Fields
<1> HIDE DEF e
<1>3. Fielded(e) /\ Housed(e)
  BY <1>1, <1>2 DEF Fielded, Housed, Only, Fields
<1> QED
  BY <1>2, <1>3, WholeBy DEF e

LEMMA DefaultWhole ==
    ASSUME NEW d, Whole(d), NEW n \in d.nets \cup {None}
    PROVE  LET e == [d EXCEPT !.default = n]
           IN  Whole(e) /\ Only(d, e, {"default"})
<1> DEFINE e == [d EXCEPT !.default = n]
<1>1. IsRecord(d) /\ Fielded(d) /\ Housed(d)
  BY ByFields DEF Whole
<1>2. IsRecord(e) /\ Only(d, e, {"default"}) /\ e.default = n
  BY <1>1 DEF Only, IsRecord, Fields
<1> HIDE DEF e
<1>3. Fielded(e) /\ Housed(e)
  BY <1>1, <1>2 DEF Fielded, Housed, Only, Fields
<1> QED
  BY <1>2, <1>3, WholeBy DEF e

\* Nothing moves that stands on a net.
Standing(d, e) ==
    /\ e.nets = d.nets /\ e.on = d.on /\ e.juncs = d.juncs /\ e.routes = d.routes

LEMMA StandingStill ==
    ASSUME NEW d, NEW e, Standing(d, e), NEW S
    PROVE  /\ StillPeopled(d, e, S)
           /\ JunctionsJoin(d) => JunctionsJoin(e)
BY DEF Standing, StillPeopled, Peopled, JunctionsJoin

\* After a merge, endpoints and Routes are where their nets are.
LEMMA Merged ==
    ASSUME NEW d, Whole(d), NEW n \in d.nets, NEW m, m # None, n # m
    PROVE  LET e == mergeBaseNets(d, n, m)
           IN  /\ \A x : Owner(e, x) = Retargeted(Owner(d, x), m, n)
               /\ DOMAIN e.routes = DOMAIN d.routes /\ DOMAIN e.juncs = DOMAIN d.juncs
               /\ \A r \in DOMAIN d.routes :
                     e.routes[r].net = Retargeted(d.routes[r].net, m, n)
               /\ \A r : LabelsAt(e, r) = LabelsAt(d, r)
<1> DEFINE e == mergeBaseNets(d, n, m)
           moved(x) == [x EXCEPT !.net = Retargeted(x.net, m, n)]
<1>1. Retargets(d, e, n, m)
  BY MergedWhole
<1> HIDE DEF e
<1>2. /\ \A t \in Terminals : e.on[t] = Retargeted(d.on[t], m, n)
      /\ DOMAIN e.juncs = DOMAIN d.juncs
      /\ \A j \in DOMAIN d.juncs : e.juncs[j] = moved(d.juncs[j])
      /\ DOMAIN e.routes = DOMAIN d.routes
      /\ \A r \in DOMAIN d.routes : e.routes[r] = moved(d.routes[r])
      /\ DOMAIN e.labels = DOMAIN d.labels
      /\ \A l \in DOMAIN d.labels : e.labels[l] = moved(d.labels[l])
  BY <1>1 DEF Retargets
<1>3. /\ \A j \in DOMAIN d.juncs : d.juncs[j] \in JunctionType
      /\ \A r \in DOMAIN d.routes : d.routes[r] \in RouteType
      /\ \A l \in DOMAIN d.labels : d.labels[l] \in LabelType
  BY ByFields DEF Whole, Fielded, PartialFunction
<1>4. /\ \A x \in JunctionType : moved(x).net = Retargeted(x.net, m, n)
      /\ \A x \in RouteType : moved(x).net = Retargeted(x.net, m, n)
      /\ \A x \in LabelType : moved(x).anchor = x.anchor
  BY DEF JunctionType, RouteType, LabelType
<1> HIDE DEF moved
<1>5. /\ \A j \in DOMAIN d.juncs : e.juncs[j].net = Retargeted(d.juncs[j].net, m, n)
      /\ \A r \in DOMAIN d.routes : e.routes[r].net = Retargeted(d.routes[r].net, m, n)
      /\ \A l \in DOMAIN d.labels : e.labels[l].anchor = d.labels[l].anchor
  BY <1>2, <1>3, <1>4
<1>6. Retargeted(None, m, n) = None
  BY DEF Retargeted
<1>7. \A x : Owner(e, x) = Retargeted(Owner(d, x), m, n)
  BY <1>2, <1>5, <1>6 DEF Owner
<1>8. \A r : LabelsAt(e, r) = LabelsAt(d, r)
  BY <1>2, <1>5 DEF LabelsAt
<1> QED
  BY <1>2, <1>5, <1>7, <1>8 DEF e

\* Nets n and m of d are the one net k of e.
Bonds(d, e, n, m, k) ==
    /\ \A x : Owner(d, x) \in {n, m} => Owner(e, x) \in {None, k}
    /\ DOMAIN e.routes = DOMAIN d.routes /\ DOMAIN e.juncs = DOMAIN d.juncs
    /\ m # None => \A r \in DOMAIN d.routes :
                      d.routes[r].net = m => e.routes[r].net = k
    /\ \A r : LabelsAt(e, r) = LabelsAt(d, r)

LEMMA BondGood ==
    ASSUME NEW d, Whole(d), JunctionsJoin(d),
           NEW n \in d.nets \cup {None}, NEW m \in d.nets \cup {None}
    PROVE  LET e == Bonded(d, n, m)
               k == BondedNet(d, n, m)
           IN  /\ Good(d, e, {}) /\ JunctionsJoin(e) /\ e.nets \subseteq d.nets
               /\ {n, m} # {None} => k \in e.nets
               /\ Bonds(d, e, n, m, k)
<1>1. CASE n = None \/ m = None \/ n = m
  <2>1. Bonded(d, n, m) = d
    BY <1>1 DEF Bonded
  <2>2. /\ BondedNet(d, n, m) \in {n, m}
        /\ n # None => BondedNet(d, n, m) = n
        /\ n = None => BondedNet(d, n, m) = m
    BY <1>1 DEF BondedNet
  <2>3. Bonds(d, d, n, m, BondedNet(d, n, m))
    BY <1>1, <2>2 DEF Bonds
  <2> QED
    BY <1>1, <2>1, <2>2, <2>3, GoodSelf
<1>2. CASE ~(n = None \/ m = None \/ n = m)
  <2> DEFINE k == preferredPhysicalMergeTarget(d, n, m)
             o == IF k = n THEN m ELSE n
             e == mergeBaseNets(d, k, o)
  <2>1. Bonded(d, n, m) = e /\ BondedNet(d, n, m) = k
    BY <1>2 DEF Bonded, BondedNet
  <2>2. k \in {n, m} /\ {k, o} = {n, m} /\ k # o /\ k \in d.nets /\ o # None
    BY <1>2 DEF preferredPhysicalMergeTarget
  <2> HIDE DEF k, o
  <2>3. Good(d, e, {}) /\ JunctionsJoin(e) /\ e.nets = d.nets \ {o}
    BY <2>2, MergeGood, MergeJoins, MergedWhole
  <2>4. /\ \A x : Owner(e, x) = Retargeted(Owner(d, x), o, k)
        /\ DOMAIN e.routes = DOMAIN d.routes /\ DOMAIN e.juncs = DOMAIN d.juncs
        /\ \A r \in DOMAIN d.routes :
              e.routes[r].net = Retargeted(d.routes[r].net, o, k)
        /\ \A r : LabelsAt(e, r) = LabelsAt(d, r)
    BY <2>2, Merged
  <2> HIDE DEF e
  <2>5. Bonds(d, e, n, m, k)
    BY <2>2, <2>4 DEF Bonds, Retargeted
  <2> QED
    BY <2>1, <2>2, <2>3, <2>5
<1> QED
  BY <1>1, <1>2

\* What keeps e and f apart is a closed set that holds e alone.
LEMMA Divisions ==
    ASSUME NEW d, Whole(d), NEW n,
           NEW x \in netEndpoints(d, n), NEW y \in netEndpoints(d, n)
    PROVE  Apart(d, n, netEndpoints(d, n), x, y) <=> Group(d, n, x) # Group(d, n, y)
<1> DEFINE S == netEndpoints(d, n)
<1>1. /\ x \in Group(d, n, x) /\ Group(d, n, x) \subseteq S
      /\ Closed(Group(d, n, x), S, WiredPairs(d, n))
      /\ \A T \in SUBSET S :
           Closed(T, S, WiredPairs(d, n)) /\ x \in T => Group(d, n, x) \subseteq T
      /\ \A z \in Group(d, n, x) : Group(d, n, z) = Group(d, n, x)
      /\ y \in Group(d, n, y)
  BY Groups
<1>2. \A T \in SUBSET S : Closed(T, S, WiredPairs(d, n))
                            <=> \A z \in T, w \in S \ T : ~Wired(d, n, z, w)
  BY DEF Closed, WiredPairs
<1>3. Apart(d, n, S, x, y) <=>
         \E T \in SUBSET S : x \in T /\ y \notin T /\ Closed(T, S, WiredPairs(d, n))
  BY <1>2 DEF Apart
<1> HIDE DEF S
<1>4. Apart(d, n, S, x, y) <=> y \notin Group(d, n, x)
  BY <1>1, <1>3
<1>5. y \in Group(d, n, x) <=> Group(d, n, x) = Group(d, n, y)
  BY <1>1
<1> QED
  BY <1>4, <1>5 DEF S

-------------------------------------------------------------------------------
\* What is said of nets: when two drafts are the same circuit.

\* The same nets are one with n, and the same is said of them.
SameNet(d, e, n) ==
    LET ns == LogicalNet(d, n)
    IN  /\ LogicalNet(e, n) = ns
        /\ NamesOn(e, ns) = NamesOn(d, ns)
        /\ ScopesOn(e, ns) = ScopesOn(d, ns)
        /\ SupplyOn(e, n) = SupplyOn(d, n)

\* The circuit of e is that of d, but for nets that nothing was on.
Alike(d, e) ==
    /\ e.on = d.on /\ e.nets \subseteq d.nets
    /\ \A n \in e.nets : SameNet(d, e, n)

LEMMA AlikeSelf == ASSUME NEW d PROVE Alike(d, d)
BY DEF Alike, SameNet

LEMMA AlikeThenAlike ==
    ASSUME NEW d, NEW e, NEW f, Alike(d, e), Alike(e, f)
    PROVE  Alike(d, f)
<1>1. f.on = d.on /\ f.nets \subseteq d.nets
  BY DEF Alike
<1>2. ASSUME NEW n \in f.nets PROVE SameNet(d, f, n)
  <2>1. SameNet(d, e, n) /\ SameNet(e, f, n)
    BY DEF Alike
  <2> QED
    BY <2>1 DEF SameNet
<1> QED
  BY <1>1, <1>2 DEF Alike

\* The only member of a finite set.
LEMMA SoleOf ==
    ASSUME NEW S, IsFiniteSet(S), Cardinality(S) = 1
    PROVE  S = {Sole(S)}
<1>1. PICK x : S = {x}
  BY FS_Singleton
<1>2. Sole(S) = CHOOSE y \in S : TRUE
  BY DEF Sole
<1> QED
  BY <1>1, <1>2

\* What is unambiguous of a logical net is said on it.
LEMMA Said ==
    ASSUME NEW d, Whole(d), NEW n \in d.nets
    PROVE  LET ns == LogicalNet(d, n)
           IN  /\ NameOf(d, n) # None => NamesOn(d, ns) = {NameOf(d, n)}
               /\ NameOf(d, n) # None /\ ScopeOf(d, n) # None =>
                     ScopeOf(d, n) \in {c.scope : c \in ClaimsOn(d, ns)}
               /\ PowerOf(d, n) \in PowersOn(d, ns) \cup {"none", "conflict"}
               /\ PowerOf(d, n) = "none" => PowersOn(d, ns) = {}
               /\ PowersOn(d, ns) \subseteq {"ground", "vdd"}
               /\ PowerOf(d, n) = "conflict" =>
                     ns \in {issue[2] : issue \in Conflicts(d)}
<1> DEFINE ns == LogicalNet(d, n)
           names == NamesOn(d, ns)
           scopes == {c.scope : c \in ClaimsOn(d, ns)}
           powers == PowersOn(d, ns)
<1>1. d.claims \subseteq Claim
  BY ByFields DEF Whole, Fielded
<1>2. \A c \in ClaimsOn(d, ns) :
         /\ c.name \in LabelNames \cup {"0", "vdd"}
         /\ c.scope \in {"local", "global"}
         /\ c.power \in {"none", "ground", "vdd"}
  BY <1>1 DEF ClaimsOn, Claim
<1>3. /\ names \subseteq LabelNames \cup {"0", "vdd"}
      /\ scopes \subseteq {"local", "global"}
      /\ powers \subseteq {"ground", "vdd"}
  BY <1>2 DEF NamesOn, PowersOn
<1>4. IsFiniteSet(names) /\ IsFiniteSet(powers)
  <2>1. \A a, b : IsFiniteSet({a, b})
    <3> TAKE a, b
    <3>1. IsFiniteSet({a} \cup {b})
      BY FS_Singleton, FS_Union
    <3>2. {a} \cup {b} = {a, b}
      OBVIOUS
    <3> QED
      BY <3>1, <3>2
  <2>2. IsFiniteSet(LabelNames \cup {"0", "vdd"})
    BY <2>1, LogicalNetsAssumption, FS_Union
  <2> QED
    BY <1>3, <2>1, <2>2, FS_Subset
<1>5. /\ NameOf(d, n) = Sole(names)
      /\ ScopesOn(d, ns) = IF ClaimsOn(d, ns) = {} THEN {"local"} ELSE scopes
      /\ ScopeOf(d, n) =
            IF Cardinality(ScopesOn(d, ns)) = 1 THEN Sole(ScopesOn(d, ns))
            ELSE IF Cardinality(names) = 1 THEN "global" ELSE None
      /\ PowerOf(d, n) = CASE powers = {} -> "none"
                           [] Cardinality(powers) > 1 -> "conflict"
                           [] OTHER -> Sole(powers)
  BY DEF NameOf, ScopesOn, ScopeOf, PowerOf
<1>6. PowerOf(d, n) = "conflict" => ns \in {issue[2] : issue \in Conflicts(d)}
  <2> SUFFICES ASSUME PowerOf(d, n) = "conflict"
               PROVE  ns \in {issue[2] : issue \in Conflicts(d)}
    OBVIOUS
  <2>1. <<"power", ns>> \in Conflicts(d)
    BY DEF Conflicts
  <2> QED
    BY <2>1
<1> HIDE DEF ns, names, scopes, powers
<1>7. NameOf(d, n) # None => names = {NameOf(d, n)}
  <2>1. Sole(names) # None => Cardinality(names) = 1
    BY DEF Sole
  <2> QED
    BY <1>4, <1>5, <2>1, SoleOf
<1>8. ASSUME NameOf(d, n) # None, ScopeOf(d, n) # None
      PROVE  ScopeOf(d, n) \in scopes
  <2>1. ClaimsOn(d, ns) # {}
    BY <1>7, <1>8 DEF names, NamesOn
  <2>2. ScopesOn(d, ns) = scopes /\ scopes # {}
    BY <1>5, <2>1 DEF scopes
  <2>3. Cardinality({"local"}) = 1 /\ IsFiniteSet({"local"})
    BY FS_Singleton
  <2>4. CASE Cardinality(scopes) = 1
    <3>1. Cardinality(scopes) = 1 => Sole(scopes) \in scopes
      BY <2>2 DEF Sole
    <3> QED
      BY <1>5, <2>2, <2>4, <3>1
  <2>5. CASE Cardinality(scopes) # 1
    <3>1. scopes # {"local"}
      BY <2>3, <2>5
    <3>2. "global" \in scopes
      BY <1>3, <2>2, <3>1
    <3> QED
      BY <1>5, <1>8, <2>2, <2>5, <3>2
  <2> QED
    BY <2>4, <2>5
<1>9. powers # {} /\ ~ (Cardinality(powers) > 1) => Sole(powers) \in powers
  <2> SUFFICES ASSUME powers # {}, ~ (Cardinality(powers) > 1)
               PROVE  Sole(powers) \in powers
    OBVIOUS
  <2>1. Cardinality(powers) \in Nat /\ Cardinality(powers) # 0
    BY <1>4, FS_CardinalityType, FS_EmptySet
  <2>2. Cardinality(powers) = 1
    BY <2>1
  <2> QED
    BY <2>2 DEF Sole
<1>10. /\ PowerOf(d, n) \in powers \cup {"none", "conflict"}
       /\ PowerOf(d, n) = "none" => powers = {}
  BY <1>3, <1>5, <1>9
<1> QED
  BY <1>3, <1>6, <1>7, <1>8, <1>10 DEF ns, names, scopes, powers

\* What a logical net says of itself when there is one name and one supply.
LEMMA Unambiguous ==
    ASSUME NEW d, NEW n
    PROVE  LET ns == LogicalNet(d, n)
           IN  /\ \A x : NamesOn(d, ns) = {x} => NameOf(d, n) = x
               /\ \A x : PowersOn(d, ns) = {x} => PowerOf(d, n) = x
               /\ PowersOn(d, ns) = {} => PowerOf(d, n) = "none"
               /\ Whole(d) /\ n \in d.nets /\ PowerOf(d, n) \in {"ground", "vdd"} =>
                     PowersOn(d, ns) = {PowerOf(d, n)}
<1> DEFINE ns == LogicalNet(d, n)
           names == NamesOn(d, ns)
           powers == PowersOn(d, ns)
<1>1. /\ NameOf(d, n) = Sole(names)
      /\ PowerOf(d, n) = CASE powers = {} -> "none"
                           [] Cardinality(powers) > 1 -> "conflict"
                           [] OTHER -> Sole(powers)
  BY DEF NameOf, PowerOf
<1>2. \A x : Cardinality({x}) = 1 /\ Sole({x}) = x
  <2> TAKE x
  <2>1. Cardinality({x}) = 1
    BY FS_Singleton
  <2> QED
    BY <2>1 DEF Sole
<1>3. Whole(d) /\ n \in d.nets =>
         powers \subseteq {"ground", "vdd"} /\ PowerOf(d, n) \in powers \cup {"none", "conflict"}
  BY Said
<1>4. Cardinality({"ground", "vdd"}) > 1
  <2>1. /\ Cardinality({"ground"} \cup {"vdd"}) =
              IF "vdd" \in {"ground"} THEN Cardinality({"ground"})
              ELSE Cardinality({"ground"}) + 1
        /\ Cardinality({"ground"}) = 1
    BY FS_Singleton, FS_AddElement
  <2>2. {"ground", "vdd"} = {"ground"} \cup {"vdd"}
    OBVIOUS
  <2> QED
    BY <2>1, <2>2
<1> HIDE DEF names, powers
<1>5. \A x : powers = {x} => PowerOf(d, n) = x
  <2> TAKE x
  <2> SUFFICES ASSUME powers = {x} PROVE PowerOf(d, n) = x
    OBVIOUS
  <2>1. Cardinality(powers) = 1 /\ Sole(powers) = x
    BY <1>2
  <2> QED
    BY <1>1, <2>1
<1>6. ASSUME Whole(d), n \in d.nets, PowerOf(d, n) \in {"ground", "vdd"}
      PROVE  powers = {PowerOf(d, n)}
  <2>1. powers # {"ground", "vdd"}
    BY <1>1, <1>4, <1>6
  <2>2. PowerOf(d, n) \in powers /\ powers \subseteq {"ground", "vdd"}
    BY <1>3, <1>6
  <2> QED
    BY <1>6, <2>1, <2>2
<1> QED
  <2>1. \A x : names = {x} => NameOf(d, n) = x
    BY <1>1, <1>2
  <2>2. powers = {} => PowerOf(d, n) = "none"
    <3>1. powers = {} => ~(Cardinality(powers) > 1)
      BY FS_EmptySet
    <3> QED
      BY <1>1, <3>1
  <2> QED
    BY <1>5, <1>6, <2>1, <2>2 DEF names, powers, ns

\* The claims of e name each logical net of d as those of d do.
Restates(d, e) ==
    /\ \A c \in d.claims : \E f \in e.claims :
          f.net = c.net /\ f.name = c.name /\ f.scope = c.scope
    /\ \A f \in e.claims : \E c \in d.claims :
          c.net \in LogicalNet(d, f.net) /\ c.name = f.name /\ c.scope = f.scope

\* And they say the same supplies, but for node 0 that they may call ground.
Resupplies(d, e) ==
    \A n \in e.nets :
        LET ns == LogicalNet(d, n)
        IN  \/ PowersOn(e, ns) = PowersOn(d, ns)
            \/ /\ NameOf(d, n) = "0" /\ ScopeOf(d, n) = "global"
               /\ PowersOn(d, ns) = {} /\ PowersOn(e, ns) = {"ground"}

LEMMA Restating ==
    ASSUME NEW d, Whole(d), NEW e, Whole(e),
           e.on = d.on, e.nets \subseteq d.nets, Restates(d, e), Resupplies(d, e)
    PROVE  Alike(d, e)
<1>1. /\ \A c \in d.claims : c.net \in e.nets
      /\ \A f \in e.claims : f.net \in e.nets
  BY DEF Restates, Whole, Housed
<1>2. \A y \in e.nets, z \in e.nets : <<y, z>> \in NamedAlike(d) => <<y, z>> \in NamedAlike(e)
  <2> SUFFICES ASSUME NEW y \in e.nets, NEW z \in e.nets, <<y, z>> \in NamedAlike(d)
               PROVE  <<y, z>> \in NamedAlike(e)
    OBVIOUS
  <2>1. PICK a \in d.claims, b \in d.claims :
            a.net = y /\ b.net = z /\ a.scope = b.scope /\ a.name = b.name
    BY DEF NamedAlike
  <2>2. PICK f \in e.claims : f.net = y /\ f.name = a.name /\ f.scope = a.scope
    BY <2>1, Zenon DEF Restates
  <2>3. PICK g \in e.claims : g.net = z /\ g.name = b.name /\ g.scope = b.scope
    BY <2>1, Zenon DEF Restates
  <2> QED
    BY <2>1, <2>2, <2>3 DEF NamedAlike
<1>3. \A y \in d.nets, z \in d.nets :
          <<y, z>> \in NamedAlike(d) => y \in e.nets /\ z \in e.nets
  BY <1>1 DEF NamedAlike
<1>4. \A y \in e.nets, z \in e.nets :
          <<y, z>> \in NamedAlike(e) => z \in LogicalNet(d, y)
  <2> SUFFICES ASSUME NEW y \in e.nets, NEW z \in e.nets, <<y, z>> \in NamedAlike(e)
               PROVE  z \in LogicalNet(d, y)
    OBVIOUS
  <2>1. PICK a \in e.claims, b \in e.claims :
            a.net = y /\ b.net = z /\ a.scope = b.scope /\ a.name = b.name
    BY DEF NamedAlike
  <2>2. PICK k \in LogicalNet(d, y), c \in d.claims :
            c.net = k /\ c.name = a.name /\ c.scope = a.scope
    BY <2>1, Zenon DEF Restates
  <2>3. PICK m \in LogicalNet(d, z), f \in d.claims :
            f.net = m /\ f.name = b.name /\ f.scope = b.scope
    BY <2>1, Zenon DEF Restates
  <2>4. y \in d.nets /\ z \in d.nets
    OBVIOUS
  <2>5. k \in d.nets /\ m \in d.nets /\ z \in LogicalNet(d, z)
        /\ LogicalNet(d, m) = LogicalNet(d, z)
        /\ Closed(LogicalNet(d, y), d.nets, NamedAlike(d))
        /\ z \in LogicalNet(d, m)
    BY <2>2, <2>3, <2>4, LogicalNets
  <2>6. <<k, m>> \in NamedAlike(d)
    BY <2>1, <2>2, <2>3, <2>5 DEF NamedAlike
  <2>7. m \in LogicalNet(d, y)
    BY <2>2, <2>5, <2>6 DEF Closed
  <2> QED
    BY <2>4, <2>5, <2>7, LogicalNets
<1>5. ASSUME NEW n \in e.nets PROVE LogicalNet(e, n) = LogicalNet(d, n)
  <2>1. n \in d.nets
    OBVIOUS
  <2> DEFINE D == LogicalNet(d, n)
             F == LogicalNet(e, n)
  <2>2. /\ n \in D /\ Closed(D, d.nets, NamedAlike(d))
        /\ \A T \in SUBSET d.nets :
             Closed(T, d.nets, NamedAlike(d)) /\ n \in T => D \subseteq T
        /\ \A m \in D : m \in d.nets /\ LogicalNet(d, m) = D
    BY <2>1, LogicalNets
  <2>3. /\ n \in F /\ Closed(F, e.nets, NamedAlike(e))
        /\ \A T \in SUBSET e.nets :
             Closed(T, e.nets, NamedAlike(e)) /\ n \in T => F \subseteq T
    BY LogicalNets
  <2> HIDE DEF D, F
  <2>4. Closed(F, d.nets, NamedAlike(d))
    BY <1>2, <1>3, <2>3 DEF Closed
  <2>5. D \subseteq F
    BY <2>2, <2>3, <2>4 DEF Closed
  <2>6. Closed(D \cap e.nets, e.nets, NamedAlike(e))
    BY <1>4, <2>2 DEF Closed
  <2>7. F \subseteq D \cap e.nets
    BY <2>2, <2>3, <2>6
  <2> QED
    BY <2>5, <2>7 DEF D, F
<1>6. ASSUME NEW n \in e.nets PROVE SameNet(d, e, n)
  <2> DEFINE ns == LogicalNet(d, n)
  <2>1. LogicalNet(e, n) = ns
    BY <1>5
  <2>2. \A m \in ns : LogicalNet(d, m) = ns
    BY LogicalNets
  <2> HIDE DEF ns
  <2>3. \A c \in ClaimsOn(d, ns) : \E f \in ClaimsOn(e, ns) :
           f.name = c.name /\ f.scope = c.scope
    BY DEF ClaimsOn, Restates
  <2>4. \A f \in ClaimsOn(e, ns) :
          \E c \in ClaimsOn(d, ns) : c.name = f.name /\ c.scope = f.scope
    BY <2>2 DEF ClaimsOn, Restates
  <2> DEFINE C == ClaimsOn(d, ns)
             F == ClaimsOn(e, ns)
  <2>5. /\ NamesOn(d, ns) = {c.name : c \in C} /\ NamesOn(e, ns) = {c.name : c \in F}
        /\ ScopesOn(d, ns) = IF C = {} THEN {"local"} ELSE {c.scope : c \in C}
        /\ ScopesOn(e, ns) = IF F = {} THEN {"local"} ELSE {c.scope : c \in F}
    BY DEF NamesOn, ScopesOn
  <2>6. /\ \A c \in C : \E f \in F : f.name = c.name
        /\ \A f \in F : \E c \in C : c.name = f.name
    BY <2>3, <2>4, Zenon
  <2>7. /\ \A c \in C : \E f \in F : f.scope = c.scope
        /\ \A f \in F : \E c \in C : c.scope = f.scope
    BY <2>3, <2>4, Zenon
  <2> HIDE DEF C, F
  <2>8. {c.name : c \in F} = {c.name : c \in C}
    BY <2>6
  <2>9. {c.scope : c \in F} = {c.scope : c \in C} /\ (F = {} <=> C = {})
    BY <2>7
  <2>10. NamesOn(e, ns) = NamesOn(d, ns) /\ ScopesOn(e, ns) = ScopesOn(d, ns)
    BY <2>5, <2>8, <2>9
  <2>11. NameOf(e, n) = NameOf(d, n) /\ ScopeOf(e, n) = ScopeOf(d, n)
    BY <2>1, <2>10 DEF NameOf, ScopeOf, ns
  <2>12. SupplyOn(e, n) = SupplyOn(d, n)
    <3>1. CASE PowersOn(e, ns) = PowersOn(d, ns)
      <4>1. PowerOf(e, n) = PowerOf(d, n)
        BY <2>1, <3>1 DEF PowerOf, ns
      <4> QED
        BY <2>11, <4>1 DEF SupplyOn
    <3>2. CASE /\ NameOf(d, n) = "0" /\ ScopeOf(d, n) = "global"
               /\ PowersOn(d, ns) = {} /\ PowersOn(e, ns) = {"ground"}
      <4>1. PowerOf(d, n) = "none" /\ PowerOf(e, n) = "ground"
        BY <2>1, <3>2, Unambiguous DEF ns
      <4> QED
        BY <3>2, <4>1 DEF SupplyOn
    <3> QED
      BY <3>1, <3>2 DEF Resupplies, ns
  <2> QED
    BY <2>1, <2>10, <2>12 DEF SameNet, ns
<1> QED
  BY <1>6 DEF Alike

\* The same claims on fewer nets.
LEMMA Trimming ==
    ASSUME NEW d, Whole(d), NEW e, Whole(e),
           e.on = d.on, e.nets \subseteq d.nets, e.claims = d.claims
    PROVE  Alike(d, e)
<1>1. \A c \in d.claims : c.net \in LogicalNet(d, c.net)
  BY LogicalNets DEF Whole, Housed
<1>2. Restates(d, e)
  BY <1>1 DEF Restates
<1>3. Resupplies(d, e)
  BY DEF Resupplies, PowersOn, ClaimsOn
<1> QED
  BY <1>2, <1>3, Restating

\* A marker that states what it shared says what is said of its net already,
\* and takes the place of a declaration only that says the same.
LEMMA NamedIsAlike ==
    ASSUME NEW d, Whole(d), NodeZeroIsGround(d), NEW n \in d.nets
    PROVE  LET e == WithMarkersNamed(d, n)
           IN  Alike(d, e) /\ NodeZeroIsGround(e)
<1> DEFINE e == WithMarkersNamed(d, n)
           ns == LogicalNet(d, n)
           name == NameOf(d, n)
           scope == ScopeOf(d, n)
           power == PowerOf(d, n)
           missing == missingPowerMarkerClaims(d, n)
           claims == d.claims \cup missing
           grounded == \E c \in claims : /\ c.net = n /\ c.name = "0"
                                         /\ c.scope = "global"
                                         /\ c.owner \in Grounds
<1>1. /\ Whole(e) /\ Only(d, e, {"claims"})
  BY NamedWhole
<1>2. e.claims = {c \in claims : ~(/\ grounded /\ c.net = n /\ c.name = "0"
                                   /\ c.owner = "declaration")}
  BY ByFields DEF Whole, WithMarkersNamed, IsRecord, Fields
<1>3. ASSUME NEW c \in missing
      PROVE  /\ c.owner \in Markers /\ c.net = n /\ c.name = name /\ c.scope = scope
             /\ name # None /\ scope # None
             /\ c.owner \in Grounds => /\ c.power = "ground" /\ power # "vdd"
                                       /\ name = "0" /\ scope = "global"
             /\ c.owner \notin Grounds => c.power = "vdd" /\ power = "vdd"
             /\ ns \notin {issue[2] : issue \in Conflicts(d)}
  BY DEF missingPowerMarkerClaims
<1>4. /\ name # None => NamesOn(d, ns) = {name}
      /\ name # None /\ scope # None =>
            scope \in {c.scope : c \in ClaimsOn(d, ns)}
      /\ power \in PowersOn(d, ns) \cup {"none", "conflict"}
      /\ power = "none" => PowersOn(d, ns) = {}
      /\ PowersOn(d, ns) \subseteq {"ground", "vdd"}
      /\ power = "conflict" => ns \in {issue[2] : issue \in Conflicts(d)}
  BY Said
<1>5. \A m \in d.nets : m \in LogicalNet(d, m)
  BY LogicalNets
<1>6. \A c \in d.claims : c.net \in d.nets
  BY DEF Whole, Housed
<1> HIDE DEF e, ns, name, scope, power, missing, grounded
<1>7. ASSUME NEW c \in missing
      PROVE  \E b \in d.claims : b.net \in ns /\ b.name = name /\ b.scope = scope
  <2>1. PICK b \in ClaimsOn(d, ns) : b.scope = scope
    BY <1>3, <1>4
  <2>2. b \in d.claims /\ b.net \in ns /\ b.name = name
    BY <1>3, <1>4, <2>1 DEF ClaimsOn, NamesOn
  <2> QED
    BY <2>1, <2>2
<1>8. NodeZeroIsGround(e)
  <2>1. ASSUME NEW c \in missing
        PROVE  c.owner # "declaration" /\ (c.owner \in Grounds => c.power = "ground")
    BY <1>3, LogicalNetsAssumption
  <2> QED
    BY <1>2, <2>1 DEF NodeZeroIsGround
<1>9. ASSUME NEW c \in d.claims, c \notin e.claims
      PROVE  /\ c.net = n /\ c.name = "0" /\ c.scope = "global" /\ c.power # "vdd"
             /\ \E f \in e.claims : /\ f \in claims /\ f.net = n /\ f.name = "0"
                                    /\ f.scope = "global" /\ f.power = "ground"
  <2>1. grounded /\ c.net = n /\ c.name = "0" /\ c.owner = "declaration"
    BY <1>2, <1>9
  <2>2. PICK f \in claims : /\ f.net = n /\ f.name = "0" /\ f.scope = "global"
                            /\ f.owner \in Grounds
    BY <2>1 DEF grounded
  <2>3. f \in e.claims
    BY <1>2, <2>2, LogicalNetsAssumption DEF Markers
  <2>4. c.scope = "global" /\ c.power # "vdd"
    BY <2>1 DEF NodeZeroIsGround
  <2>5. f.power = "ground"
    BY <1>8, <2>2, <2>3 DEF NodeZeroIsGround
  <2> QED
    BY <2>1, <2>2, <2>3, <2>4, <2>5
<1>10. Restates(d, e)
  <2>1. ASSUME NEW c \in d.claims
        PROVE  \E f \in e.claims : f.net = c.net /\ f.name = c.name /\ f.scope = c.scope
    BY <1>9
  <2>2. ASSUME NEW f \in e.claims
        PROVE  \E c \in d.claims : /\ c.net \in LogicalNet(d, f.net)
                                  /\ c.name = f.name /\ c.scope = f.scope
    <3>1. CASE f \in d.claims
      BY <1>5, <1>6, <3>1
    <3>2. CASE f \in missing
      <4>1. LogicalNet(d, f.net) = ns /\ f.name = name /\ f.scope = scope
        BY <1>3, <3>2 DEF ns
      <4> QED
        BY <1>7, <3>2, <4>1
    <3> QED
      BY <1>2, <3>1, <3>2
  <2> QED
    BY <2>1, <2>2 DEF Restates
<1>11. Resupplies(d, e)
  <2> SUFFICES ASSUME NEW k \in d.nets
               PROVE  LET ks == LogicalNet(d, k)
                      IN  \/ PowersOn(e, ks) = PowersOn(d, ks)
                          \/ /\ NameOf(d, k) = "0" /\ ScopeOf(d, k) = "global"
                             /\ PowersOn(d, ks) = {} /\ PowersOn(e, ks) = {"ground"}
    BY <1>1 DEF Resupplies, Only, Fields
  <2> DEFINE ks == LogicalNet(d, k)
  <2>2. CASE n \notin ks
    <3>1. \A c : c \in e.claims /\ c.net # n <=> c \in d.claims /\ c.net # n
      BY <1>2, <1>3, <1>9
    <3>2. ClaimsOn(e, ks) = ClaimsOn(d, ks)
      BY <2>2, <3>1 DEF ClaimsOn
    <3> QED
      BY <3>2 DEF PowersOn
  <2>3. CASE n \in ks
    <3>1. ks = ns
      BY <2>3, LogicalNets DEF ns
    <3>2. NameOf(d, k) = name /\ ScopeOf(d, k) = scope /\ n \in ns
      BY <2>3, <3>1 DEF NameOf, ScopeOf, ns, name, scope
    <3> HIDE DEF ks
    <3>3. \A x : x \in PowersOn(d, ns) <=>
                 x # "none" /\ \E c \in d.claims : c.net \in ns /\ c.power = x
      BY DEF PowersOn, ClaimsOn
    <3>4. \A x : x \in PowersOn(e, ns) <=>
                 x # "none" /\ \E c \in e.claims : c.net \in ns /\ c.power = x
      BY DEF PowersOn, ClaimsOn
    <3>5. \A c \in d.claims : c.power \in {"none", "ground", "vdd"}
      BY ByFields DEF Whole, Fielded, Claim
    <3>6. power \in {"ground", "vdd"} => PowersOn(d, ns) = {power}
      BY Unambiguous DEF ns, power
    <3>7. \A c \in e.claims : c \in d.claims \/ c \in missing
      BY <1>2
    <3>8. missing \subseteq e.claims
      BY <1>2, <1>3, LogicalNetsAssumption
    <3>9. CASE missing = {}
      <4>1. \A f \in claims : f \in d.claims
        BY <3>9
      <4>2. \A c \in d.claims : c \notin e.claims => c.power \in {"none", "ground"}
        BY <1>9, <3>5
      <4>3. \A c \in d.claims : c \notin e.claims =>
               \E f \in e.claims : f.net = c.net /\ f.power = "ground"
        BY <1>9
      <4>4. PowersOn(e, ns) = PowersOn(d, ns)
        BY <3>3, <3>4, <3>7, <3>9, <4>2, <4>3
      <4> QED
        BY <3>1, <4>4 DEF ks
    <3>10. CASE \E c \in missing : c.owner \in Grounds
      <4> PICK c \in missing : c.owner \in Grounds
        BY <3>10
      <4>1. /\ c.power = "ground" /\ power # "vdd" /\ c.net = n
            /\ name = "0" /\ scope = "global" /\ power # "conflict"
        BY <1>3, <1>4
      <4>2. PowersOn(d, ns) \subseteq {"ground"}
        BY <1>4, <3>6, <4>1
      <4>3. \A f \in missing : f.power = "ground"
        BY <1>3, <4>1
      <4>4. "ground" \in PowersOn(e, ns)
        BY <3>2, <3>4, <3>8, <4>1
      <4>5. PowersOn(e, ns) \subseteq {"ground"}
        <5> SUFFICES ASSUME NEW x \in PowersOn(e, ns) PROVE x = "ground"
          OBVIOUS
        <5>1. PICK f \in e.claims : x # "none" /\ f.net \in ns /\ f.power = x
          BY <3>4
        <5>2. CASE f \in d.claims
          BY <3>3, <4>2, <5>1, <5>2
        <5> QED
          BY <3>7, <4>3, <5>1, <5>2
      <4>6. PowersOn(e, ns) = {"ground"}
        BY <4>4, <4>5
      <4> QED
        BY <3>1, <3>2, <4>1, <4>2, <4>6 DEF ks
    <3>11. CASE missing # {} /\ ~\E c \in missing : c.owner \in Grounds
      <4>1. PICK c \in missing : power = "vdd"
        BY <1>3, <3>11
      <4>2. PowersOn(d, ns) = {"vdd"}
        BY <3>6, <4>1
      <4>3. \A f \in missing : f.power = "vdd" /\ f.net = n
        BY <1>3, <3>11
      <4>4. \A f \in d.claims : f.net \in ns => f.power # "ground"
        BY <3>3, <4>2
      <4>5. d.claims \subseteq e.claims
        <5> SUFFICES ASSUME NEW b \in d.claims, b \notin e.claims PROVE FALSE
          OBVIOUS
        <5>1. PICK f \in claims : f.net = n /\ f.power = "ground"
          BY <1>9
        <5>2. f \in d.claims
          BY <4>3, <5>1
        <5> QED
          BY <3>2, <4>4, <5>1, <5>2
      <4>6. PowersOn(e, ns) = PowersOn(d, ns)
        BY <3>3, <3>4, <3>7, <4>2, <4>3, <4>5
      <4> QED
        BY <3>1, <4>6 DEF ks
    <3> QED
      BY <3>9, <3>10, <3>11
  <2> QED
    BY <2>2, <2>3
<1>12. e.on = d.on /\ e.nets = d.nets
  BY <1>1 DEF Only, Fields
<1> QED
  BY <1>1, <1>8, <1>10, <1>11, <1>12, Restating DEF e

\* A net that is retired at once takes no claim with it.
LEMMA PruningAway ==
    ASSUME NEW d, IsRecord(d), NEW ns
    PROVE  LET e == pruneDeferring(d, ns)
           IN  e.on = d.on /\ e.nets \subseteq d.nets /\ e.claims = d.claims
<1> DEFINE left == {n \in ns \cap d.nets : Unowned(d, n) /\ ~Evidenced(d, n)}
           e == Retired(d, left)
<1>1. \A c \in d.claims : c.net \notin left
  BY DEF Evidenced, ClaimsOn
<1>2. pruneDeferring(d, ns) = e
  BY DEF pruneDeferring
<1> HIDE DEF left
<1>3. e.on = d.on /\ e.nets = d.nets \ left
      /\ e.claims = {c \in d.claims : c.net \notin left}
  BY DEF Retired, IsRecord, Fields
<1> QED
  BY <1>1, <1>2, <1>3

\* e says what d says, on nets of d.
Trims(d, e) == e.on = d.on /\ e.nets \subseteq d.nets /\ e.claims = d.claims

-------------------------------------------------------------------------------
\* What a cut leaves said of the parts of a net.

\* Claims b and c are of one owner and say the same.
Says(b, c) == /\ b.owner = c.owner /\ b.name = c.name
              /\ b.scope = c.scope /\ b.power = c.power

\* The claims of e are those of q, but what was said of net n is on nets of P.
Spreads(q, e, n, P) ==
    \A b \in e.claims : \E c \in q.claims :
        /\ Says(b, c)
        /\ c.net = n => b.net \in P
        /\ c.net # n => b.net = c.net

\* What is said of a part of net n was said of n, whatever other nets its name
\* joins it to.
LEMMA Inherited ==
    ASSUME NEW d, Whole(d), NEW n \in d.nets, NEW q, NEW e, Whole(e),
           NEW P, n \in P, P \cap d.nets = {n}, Spreads(q, e, n, P),
           \A c \in q.claims \ d.claims : c \in missingPowerMarkerClaims(d, n),
           NEW p \in P, p \in e.nets
    PROVE  \A b \in ClaimsOn(e, LogicalNet(e, p)) :
              \E c \in q.claims : Says(b, c) /\ c.net \in LogicalNet(d, n)
<1> DEFINE ns == LogicalNet(d, n)
           name == NameOf(d, n)
           scope == ScopeOf(d, n)
           T == {x \in e.nets : x \in P \/ x \in ns}
<1>1. /\ n \in ns /\ Closed(ns, d.nets, NamedAlike(d)) /\ ns \subseteq d.nets
  BY LogicalNets DEF Closed
<1>2. /\ name # None => NamesOn(d, ns) = {name}
      /\ name # None /\ scope # None => scope \in {c.scope : c \in ClaimsOn(d, ns)}
  BY Said
<1>3. ASSUME NEW c \in q.claims, c \notin d.claims
      PROVE  c.net = n /\ c.name = name /\ c.scope = scope /\ name # None /\ scope # None
  BY <1>3 DEF missingPowerMarkerClaims
<1>4. \A c \in d.claims : c.net \in d.nets
  BY DEF Whole, Housed
<1>5. /\ p \in LogicalNet(e, p)
      /\ \A S \in SUBSET e.nets :
           Closed(S, e.nets, NamedAlike(e)) /\ p \in S => LogicalNet(e, p) \subseteq S
  BY LogicalNets
<1> HIDE DEF ns, name, scope
<1>6. ASSUME NEW c \in q.claims, c.net \in ns
      PROVE  \E b \in d.claims : b.net \in ns /\ b.name = c.name /\ b.scope = c.scope
  <2>1. CASE c \in d.claims
    BY <1>6, <2>1
  <2>2. CASE c \notin d.claims
    <3>1. PICK b \in ClaimsOn(d, ns) : b.scope = scope
      BY <1>2, <1>3, <2>2
    <3>2. b \in d.claims /\ b.net \in ns /\ b.name = name
      BY <1>2, <1>3, <2>2, <3>1 DEF ClaimsOn, NamesOn
    <3> QED
      BY <1>3, <2>2, <3>1, <3>2
  <2> QED
    BY <2>1, <2>2
<1>7. ASSUME NEW b \in e.claims, b.net \in T
      PROVE  \E c \in q.claims : Says(b, c) /\ c.net \in ns
  <2>1. PICK c \in q.claims : /\ Says(b, c)
                              /\ c.net = n => b.net \in P
                              /\ c.net # n => b.net = c.net
    BY DEF Spreads
  <2>2. c.net \in ns
    <3>1. CASE c.net = n
      BY <1>1, <3>1
    <3>2. CASE c.net # n
      <4>1. c \in d.claims
        BY <1>3, <3>2
      <4>2. b.net \notin P
        BY <1>4, <2>1, <3>2, <4>1
      <4> QED
        BY <1>7, <2>1, <3>2, <4>2
    <3> QED
      BY <3>1, <3>2
  <2> QED
    BY <2>1, <2>2
<1>8. Closed(T, e.nets, NamedAlike(e))
  <2> SUFFICES ASSUME NEW y \in T, NEW z \in e.nets, <<y, z>> \in NamedAlike(e)
               PROVE  z \in T
    BY DEF Closed
  <2>1. PICK a \in e.claims, b \in e.claims :
           a.net = y /\ b.net = z /\ a.scope = b.scope /\ a.name = b.name
    BY DEF NamedAlike
  <2>2. PICK f \in q.claims : Says(a, f) /\ f.net \in ns
    BY <1>7, <2>1
  <2>3. PICK k \in d.claims : k.net \in ns /\ k.name = f.name /\ k.scope = f.scope
    BY <1>6, <2>2
  <2>4. PICK g \in q.claims : /\ Says(b, g)
                              /\ g.net = n => b.net \in P
                              /\ g.net # n => b.net = g.net
    BY DEF Spreads
  <2>5. CASE g.net = n
    BY <2>1, <2>4, <2>5
  <2>6. CASE g.net # n
    <3>1. g \in d.claims
      BY <1>3, <2>6
    <3>2. g.name = k.name /\ g.scope = k.scope
      BY <2>1, <2>2, <2>3, <2>4 DEF Says
    <3>3. <<k.net, g.net>> \in NamedAlike(d)
      BY <1>4, <3>1, <3>2 DEF NamedAlike
    <3>4. g.net \in ns
      BY <1>1, <1>4, <2>3, <3>1, <3>3 DEF Closed
    <3> QED
      BY <2>1, <2>4, <2>6, <3>4
  <2> QED
    BY <2>5, <2>6
<1>9. LogicalNet(e, p) \subseteq T
  BY <1>5, <1>8
<1> QED
  BY <1>7, <1>9 DEF ClaimsOn, ns

\* A part of a net with one name and one supply has no others.
LEMMA InheritsOnly ==
    ASSUME NEW d, Whole(d), NEW n \in d.nets, NEW q, NEW e, Whole(e),
           NEW P, n \in P, P \cap d.nets = {n}, Spreads(q, e, n, P),
           \A c \in q.claims \ d.claims : c \in missingPowerMarkerClaims(d, n),
           NameOf(d, n) # None, PowerOf(d, n) \in {"ground", "vdd"},
           NEW p \in P, p \in e.nets
    PROVE  LET ms == LogicalNet(e, p)
           IN  /\ NamesOn(e, ms) \subseteq {NameOf(d, n)}
               /\ PowersOn(e, ms) \subseteq {PowerOf(d, n)}
               /\ NameOf(e, p) \in {NameOf(d, n), None}
               /\ PowerOf(e, p) \in {PowerOf(d, n), "none"}
<1> DEFINE ns == LogicalNet(d, n)
           ms == LogicalNet(e, p)
           name == NameOf(d, n)
           power == PowerOf(d, n)
<1>1. NamesOn(d, ns) = {name}
  BY Said
<1>2. PowersOn(d, ns) = {power}
  BY Unambiguous
<1>3. \A c \in q.claims : c \notin d.claims =>
         c.name = name /\ c.power = power
  <2> SUFFICES ASSUME NEW c \in missingPowerMarkerClaims(d, n)
               PROVE  c.name = name /\ c.power = power
    OBVIOUS
  <2> QED
    BY DEF missingPowerMarkerClaims
<1>4. \A b \in ClaimsOn(e, ms) : \E c \in q.claims : Says(b, c) /\ c.net \in ns
  BY Inherited
<1> HIDE DEF ns, ms, name, power
<1>5. \A b \in ClaimsOn(e, ms) : b.name = name /\ b.power \in {power, "none"}
  <2> SUFFICES ASSUME NEW b \in ClaimsOn(e, ms)
               PROVE  b.name = name /\ b.power \in {power, "none"}
    OBVIOUS
  <2>1. PICK c \in q.claims : Says(b, c) /\ c.net \in ns
    BY <1>4
  <2>2. CASE c \in d.claims
    <3>1. c.name \in NamesOn(d, ns) /\ (c.power # "none" => c.power \in PowersOn(d, ns))
      BY <2>1, <2>2 DEF NamesOn, PowersOn, ClaimsOn
    <3> QED
      BY <1>1, <1>2, <2>1, <3>1 DEF Says
  <2>3. CASE c \notin d.claims
    BY <1>3, <2>1, <2>3 DEF Says
  <2> QED
    BY <2>2, <2>3
<1>6. NamesOn(e, ms) \subseteq {name} /\ PowersOn(e, ms) \subseteq {power}
  BY <1>5 DEF NamesOn, PowersOn
<1>7. NameOf(e, p) \in {name, None}
  <2>1. NameOf(e, p) # None => NamesOn(e, ms) = {NameOf(e, p)}
    BY Said DEF ms
  <2> QED
    BY <1>6, <2>1
<1>8. PowerOf(e, p) \in {power, "none"}
  <2>1. PowersOn(e, ms) = {} \/ PowersOn(e, ms) = {power}
    BY <1>6
  <2> QED
    BY <2>1, Unambiguous DEF ms
<1> QED
  BY <1>6, <1>7, <1>8 DEF ms, name, power

\* A part of it that states its supply has just that, and its name.
LEMMA InheritsSupply ==
    ASSUME NEW d, Whole(d), NEW n \in d.nets, NEW q, NEW e, Whole(e),
           NEW P, n \in P, P \cap d.nets = {n}, Spreads(q, e, n, P),
           \A c \in q.claims \ d.claims : c \in missingPowerMarkerClaims(d, n),
           NameOf(d, n) # None, PowerOf(d, n) \in {"ground", "vdd"},
           NEW p \in P, p \in e.nets,
           \E b \in e.claims : b.net = p /\ b.power = PowerOf(d, n)
    PROVE  NameOf(e, p) = NameOf(d, n) /\ PowerOf(e, p) = PowerOf(d, n)
<1> DEFINE ms == LogicalNet(e, p)
           name == NameOf(d, n)
           power == PowerOf(d, n)
<1>1. NamesOn(e, ms) \subseteq {name} /\ PowersOn(e, ms) \subseteq {power}
  BY InheritsOnly
<1>2. p \in ms /\ power # "none"
  BY LogicalNets
<1> HIDE DEF ms, name, power
<1>3. PICK b \in ClaimsOn(e, ms) : b.power = power
  BY <1>2 DEF ClaimsOn, power
<1>4. NamesOn(e, ms) = {name} /\ PowersOn(e, ms) = {power}
  <2>1. b.name \in NamesOn(e, ms) /\ power \in PowersOn(e, ms)
    BY <1>2, <1>3 DEF NamesOn, PowersOn
  <2> QED
    BY <1>1, <2>1
<1> QED
  BY <1>4, Unambiguous DEF ms, name, power

\* The claims of e are those of q; what was said of net n is on nets of P, and
\* what a marker said of it is where the marker is.
Scatters(q, e, n, P) ==
    /\ \A b \in e.claims : \E c \in q.claims :
          /\ Says(b, c)
          /\ c.net = n => /\ b.net \in P
                          /\ c.owner \in Markers => b.net = e.on[c.owner]
          /\ c.net # n => b.net = c.net
    /\ \A c \in q.claims : c.net = n /\ c.owner \in Markers =>
          \E b \in e.claims : Says(b, c) /\ b.net = e.on[c.owner]
    /\ \A t \in Terminals : q.on[t] = n => e.on[t] \in P

\* Where labels and markers that speak for net n of p stand.
StandThere(p, n) ==
    \A c \in p.claims : c.net = n =>
        /\ c.owner \in Labels =>
              /\ c.owner \in DOMAIN p.labels
              /\ NetOfAnchor(p, p.labels[c.owner].anchor) = n
        /\ c.owner \in Markers => p.on[c.owner] = n

\* A draft torn into parts has what was said where those who said it are.
LEMMA TornScatters ==
    ASSUME NEW d, NEW p, Whole(p), NEW n \in p.nets, NEW idOf,
           \A g \in DOMAIN idOf : idOf[g] \in NetIds,
           NEW primary \in DOMAIN idOf, idOf[primary] = n,
           StandThere(p, n)
    PROVE  Scatters(p, Torn(d, p, n, idOf), n, {idOf[g] : g \in DOMAIN idOf})
<1> DEFINE parted == Partitioned(p, n, idOf)
           e == Torn(d, p, n, idOf)
           P == {idOf[g] : g \in DOMAIN idOf}
           to(o) == ClaimNet(parted, n, o)
           follow(c) == IF c.net = n THEN [c EXCEPT !.net = to(c.owner)] ELSE c
<1>1. /\ Whole(parted) /\ Whole(e) /\ Divides(p, parted, n, idOf)
      /\ Only(p, parted, {"nets", "on", "juncs", "routes"})
      /\ Only(parted, e, {"labels", "claims", "sources", "default"})
      /\ FollowsOwner(parted, e, n)
  BY TornWhole
<1>2. n \in P
  OBVIOUS
<1>3. \A x : PartOf(idOf, n, x) \in P
  <2> TAKE x
  <2> DEFINE around == {g \in DOMAIN idOf : x \in g}
  <2>1. PartOf(idOf, n, x) = IF around = {} THEN n ELSE idOf[CHOOSE g \in around : TRUE]
    BY DEF PartOf
  <2>2. around # {} => (CHOOSE g \in around : TRUE) \in around
    OBVIOUS
  <2> HIDE DEF around
  <2>3. around \subseteq DOMAIN idOf
    BY DEF around
  <2> QED
    BY <1>2, <2>1, <2>2, <2>3
<1> HIDE DEF parted, e, P
<1>4. /\ e.on = parted.on /\ parted.labels = p.labels /\ parted.claims = p.claims
  BY <1>1 DEF Only, Fields
<1>5. \A t \in Terminals : p.on[t] = n => parted.on[t] \in P
  BY <1>1, <1>3 DEF Divides
<1>6. \A a : NetOfAnchor(p, a) = n => NetOfAnchor(parted, a) \in P
  <2> SUFFICES ASSUME NEW a, NetOfAnchor(p, a) = n
               PROVE  NetOfAnchor(parted, a) \in P
    OBVIOUS
  <2>1. n # None
    BY LogicalNetsAssumption, ByFields DEF Whole, Fielded
  <2>2. DOMAIN parted.routes = DOMAIN p.routes /\ DOMAIN parted.juncs = DOMAIN p.juncs
    BY <1>1 DEF Divides
  <2>3. CASE a \in DOMAIN p.routes
    BY <1>1, <1>3, <2>2, <2>3, AnchorNet DEF Divides
  <2>4. CASE a \notin DOMAIN p.routes /\ a \in Terminals
    BY <1>5, <2>2, <2>4 DEF NetOfAnchor, Owner
  <2>5. CASE a \notin DOMAIN p.routes /\ a \notin Terminals
    <3>1. a \in DOMAIN p.juncs /\ p.juncs[a].net = n
      BY <2>1, <2>5 DEF NetOfAnchor, Owner
    <3>2. NetOfAnchor(parted, a) = parted.juncs[a].net
      BY <2>2, <2>5, <3>1 DEF NetOfAnchor, Owner
    <3> QED
      BY <1>1, <1>3, <3>1, <3>2 DEF Divides
  <2> QED
    BY <2>3, <2>4, <2>5
<1>7. None \notin P
  BY LogicalNetsAssumption DEF P
<1>8. p.claims \subseteq Claim
  BY ByFields DEF Whole, Fielded
<1>9. ASSUME NEW c \in p.claims, c.net = n
      PROVE  /\ to(c.owner) \in P
             /\ c.owner \in Markers => to(c.owner) = parted.on[c.owner]
  <2>1. c.owner \in Labels \cup Markers \cup {"declaration"}
    BY <1>8 DEF Claim
  <2>2. Labels \cap Markers = {} /\ DOMAIN p.labels \subseteq Labels
    BY LogicalNetsAssumption, ByFields DEF Whole, Fielded, PartialFunction
  <2>3. CASE c.owner \in Labels
    <3>1. c.owner \in DOMAIN p.labels /\ NetOfAnchor(p, p.labels[c.owner].anchor) = n
      BY <1>9, <2>3 DEF StandThere
    <3>2. NetOfAnchor(parted, p.labels[c.owner].anchor) \in P
      BY <1>6, <3>1
    <3>3. to(c.owner) = LabelNet(parted, c.owner)
      BY <1>4, <2>2, <3>1 DEF ClaimNet
    <3>4. LabelNet(parted, c.owner) = NetOfAnchor(parted, p.labels[c.owner].anchor)
      <4> DEFINE there == NetOfAnchor(parted, p.labels[c.owner].anchor)
      <4>1. there # None
        BY <1>7, <3>2
      <4>2. parted.labels[c.owner].anchor = p.labels[c.owner].anchor
        BY <1>4
      <4> QED
        BY <4>1, <4>2 DEF LabelNet
    <3> QED
      BY <2>2, <2>3, <3>2, <3>3, <3>4
  <2>4. CASE c.owner \in Markers
    <3>1. p.on[c.owner] = n /\ c.owner \in Terminals
      BY <1>9, <2>4 DEF StandThere, Terminals
    <3>2. parted.on[c.owner] \in P
      BY <1>5, <3>1
    <3>3. to(c.owner) = parted.on[c.owner]
      BY <1>4, <1>7, <2>2, <2>4, <3>2 DEF ClaimNet
    <3> QED
      BY <3>2, <3>3
  <2>5. CASE c.owner = "declaration"
    <3>1. c.owner \notin Labels \cup Markers
      BY <2>5, LogicalNetsAssumption
    <3>2. to(c.owner) = n
      BY <1>4, <2>2, <3>1 DEF ClaimNet
    <3> QED
      BY <1>2, <3>1, <3>2
  <2> QED
    BY <2>1, <2>3, <2>4, <2>5
<1>10. e.claims = {follow(c) : c \in p.claims}
  BY <1>1, <1>4 DEF FollowsOwner
<1> HIDE DEF to
<1>11. ASSUME NEW c \in p.claims
       PROVE  /\ Says(follow(c), c)
              /\ c.net = n => follow(c).net = to(c.owner)
              /\ c.net # n => follow(c).net = c.net
  <2>1. c \in Claim
    BY <1>8
  <2>2. CASE c.net = n
    BY <2>1, <2>2 DEF Claim, Says
  <2>3. CASE c.net # n
    BY <2>3 DEF Says
  <2> QED
    BY <2>2, <2>3
<1> HIDE DEF follow
<1>12. ASSUME NEW b \in e.claims
       PROVE  \E c \in p.claims :
                /\ Says(b, c)
                /\ c.net = n => /\ b.net \in P
                                /\ c.owner \in Markers => b.net = e.on[c.owner]
                /\ c.net # n => b.net = c.net
  <2> PICK c \in p.claims : b = follow(c)
    BY <1>10
  <2> QED
    BY <1>4, <1>9, <1>11
<1>13. ASSUME NEW c \in p.claims, c.net = n, c.owner \in Markers
       PROVE  \E b \in e.claims : Says(b, c) /\ b.net = e.on[c.owner]
  <2>1. follow(c) \in e.claims
    BY <1>10
  <2> QED
    BY <1>4, <1>9, <1>11, <1>13, <2>1
<1> QED
  BY <1>4, <1>5, <1>12, <1>13 DEF Scatters, e, P
===============================================================================
