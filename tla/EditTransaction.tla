--------------------------- MODULE EditTransaction ----------------------------
(***************************************************************************)
(* executeTransaction (packages/edit-engine/src/transaction.ts): edits are *)
(* applied in turn to a draft of the Document; then the contacts that they *)
(* licensed are joined one by one, body bindings are brought back to the   *)
(* Cell's default, nets that lost their last object are retired, and the   *)
(* draft replaces the Document if it is valid, or is dropped.              *)
(*                                                                         *)
(* An edit that its own guard refuses refuses the transaction: such a      *)
(* transaction changes nothing and is not a behaviour of its own here.     *)
(***************************************************************************)
EXTENDS NetEdits

CONSTANTS InitialDocuments, MaxEdits   \* bound of a run on edits

\* Bound bodies are on the Cell's default, and no wire was drawn to them.
PolicyHolds(d) ==
    \A b \in d.bound : d.on[b] = d.default /\ ~hasExplicitMosBulkRoute(d, b)

ASSUME EditTransactionAssumption ==
    /\ MaxEdits \in Nat
    /\ \A d \in InitialDocuments : IsDocument(d) /\ WellFormed(d) /\ PolicyHolds(d)

VARIABLES
    doc,     \* the Document
    draft,   \* the clone that edits change
    tx,      \* what the running transaction remembers
    phase,   \* "idle", "editing" or "contacts"
    edits    \* edits so far

vars == <<doc, draft, tx, phase, edits>>

Transaction ==
    [deferred : SUBSET NetIds,       \* nets that may have to be retired
     protected : SUBSET (Labels \cup Markers \cup {"declaration"}),
     licensed : SUBSET Endpoints,    \* endpoints that may make contacts
     typed : SUBSET (Routes \X Points),    \* where attaches were aimed
     landed : SUBSET (Routes \X Points),   \* where redrawn Routes landed
     suppressed : SUBSET Endpoints,  \* disconnected: no contact is made
     authored : SUBSET Routes,       \* Routes whose path was stated
     cleared : SUBSET NetIds,        \* history: nets that clearing took a body of
     changed : BOOLEAN]              \* connectivityChanged

NoTransaction ==
    [deferred |-> {}, protected |-> {}, licensed |-> {}, typed |-> {},
     landed |-> {}, suppressed |-> {}, authored |-> {}, cleared |-> {},
     changed |-> FALSE]

Init ==
    /\ doc \in InitialDocuments
    /\ draft = doc
    /\ tx = NoTransaction
    /\ phase = "idle"
    /\ edits = 0

-------------------------------------------------------------------------------
\* Edits.  Editing guards and counts each of them.
Editing ==
    /\ phase \in {"idle", "editing"}
    /\ edits < MaxEdits
    /\ phase' = "editing"
    /\ edits' = edits + 1
    /\ UNCHANGED doc

\* Mutant: the edit does not report that it changed what is connected.
Unreported(t) == t

Changed(t) == [t EXCEPT !.changed = TRUE]

\* An edit that may leave the nets ns empty.
Deferring(t, ns) == [t EXCEPT !.deferred = @ \cup (ns \ {None})]

UnusedNets == NetIds \ (draft.nets \cup doc.nets)
FreshNet == {n \in UnusedNets : \A m \in UnusedNets : n <= m}

Unused(S, used) == IF S \subseteq used THEN {} ELSE {CHOOSE x \in S \ used : TRUE}
UnusedRoute == Unused(Routes, DOMAIN draft.routes)
UnusedJunction == Unused(Junctions, DOMAIN draft.juncs)

\* The supply a marker stands for.
SupplyOf(m) == IF m \in Grounds THEN "ground" ELSE "vdd"

CreateBaseNet ==
    /\ Editing
    /\ \E n \in FreshNet : draft' = [draft EXCEPT !.nets = @ \cup {n}]
    /\ tx' = Changed(tx)

MergeNets ==
    /\ Editing
    /\ \E n, m \in draft.nets :
          /\ n # m
          /\ MayMerge(draft, n, m)
          /\ draft' = mergeBaseNets(draft, n, m)
    /\ tx' = Changed(tx)

\* upsert_connectivity_evidence: a label or a marker states its name.  A label
\* may say any name, local or global, of any supply or of none; a marker that is
\* renamed keeps its supply.  Nobody edits a declaration.
Upsert(c) ==
    LET previous == {e \in draft.claims : e.owner = c.owner}
        left == {e.net : e \in previous} \ {c.net}
    IN  /\ Editing
        /\ draft' = pruneDeferring(
              [draft EXCEPT !.claims = (@ \ previous) \cup {c}], left)
        /\ tx' = Changed(Deferring(
              [tx EXCEPT !.protected = @ \cup {c.owner}], left))

UpsertEvidence ==
    \E name \in LabelNames \cup {"0", "vdd"}, scope \in {"local", "global"} :
        \/ \E l \in DOMAIN draft.labels, power \in {"none", "ground", "vdd"} :
              Upsert([owner |-> l, net |-> draft.labels[l].net, name |-> name,
                      scope |-> scope, power |-> power])
        \/ \E m \in Markers :
              /\ draft.on[m] # None
              /\ Upsert([owner |-> m, net |-> draft.on[m], name |-> name,
                         scope |-> scope, power |-> SupplyOf(m)])

RemoveEvidence ==
    /\ Editing
    /\ \E c \in draft.claims :
          /\ draft' = pruneDeferring([draft EXCEPT !.claims = @ \ {c}], {c.net})
          /\ tx' = Changed(Deferring(tx, {c.net}))

UpsertAnnotation ==
    /\ Editing
    /\ \E l \in Labels,
          a \in Terminals \cup DOMAIN draft.juncs \cup DOMAIN draft.routes :
          /\ NetOfAnchor(draft, a) # None
          /\ draft' = [draft EXCEPT !.labels =
                With(@, l, [net |-> NetOfAnchor(draft, a), anchor |-> a])]
    /\ UNCHANGED tx

RemoveAnnotation ==
    /\ Editing
    /\ \E l \in DOMAIN draft.labels :
          LET nets == {c.net : c \in {c \in draft.claims : c.owner = l}}
              left == [draft EXCEPT !.labels = Without(@, {l})]
          IN  /\ draft' = pruneDeferring(removeOwned(left, {l}), nets)
              /\ tx' = [Deferring(tx, nets) EXCEPT !.changed = @ \/ nets # {}]

PlaceInstance ==
    /\ Editing
    /\ \E t \in Terminals \ draft.placed :
          /\ draft' = [draft EXCEPT !.placed = @ \cup {t}]
          /\ tx' = [tx EXCEPT !.licensed = @ \cup {t}]

UnplaceInstance ==
    /\ Editing
    /\ \E t \in draft.placed :
          /\ RoutesAt(draft, t) = {}
          /\ draft' = [draft EXCEPT !.placed = @ \ {t}]
    /\ UNCHANGED tx

\* On a net, on a new net, or on a Route that it splits.
AddJunction ==
    /\ Editing
    /\ \E j \in UnusedJunction :
          /\ \/ \E n \in draft.nets \cup FreshNet, p \in Points :
                   draft' = [draft EXCEPT !.nets = @ \cup {n},
                                !.juncs = With(@, j, [net |-> n, at |-> p])]
             \/ \E r \in DOMAIN draft.routes, second \in UnusedRoute :
                   LET route == draft.routes[r]
                       added == [draft EXCEPT !.juncs =
                                    With(@, j, [net |-> route.net,
                                                at |-> route.over])]
                   IN  /\ route.over # None
                       /\ \E moved \in SUBSET LabelsAt(draft, r) :
                             draft' = RemapLabels(
                                SplitRoute(added, r, second, j), moved, second)
          /\ tx' = Changed([tx EXCEPT !.licensed = @ \cup {j}])

RemoveJunction ==
    /\ Editing
    /\ \E j \in DOMAIN draft.juncs :
          LET n == draft.juncs[j].net
          IN  /\ RoutesAt(draft, j) = {}
              /\ draft' = pruneDeferring(
                    [draft EXCEPT !.juncs = Without(@, {j})], {n})
              /\ tx' = Changed(Deferring(tx, {n}))

AttachEndpointToRoute ==
    /\ Editing
    /\ \E r \in DOMAIN draft.routes, second \in UnusedRoute,
          e \in Terminals \cup DOMAIN draft.juncs :
          LET route == draft.routes[r]
          IN  /\ Owner(draft, e) \in {None, route.net}
              /\ route.over # None /\ PointOf(draft, e) = route.over
              /\ e \notin EndsOf(route)
              /\ \E moved \in SUBSET LabelsAt(draft, r) :
                    draft' = RemapLabels(SplitRoute(
                        addEndpointToNet(draft, route.net, e), r, second, e),
                        moved, second)
              /\ tx' = Changed([tx EXCEPT
                    !.licensed = @ \cup {e},
                    !.typed = @ \cup ({r, second} \X {route.over})])

\* Two endpoints without a net meet on a new one, or on one that was prepared.
PreparedNets == {n \in draft.nets : Unowned(draft, n) /\ ~Evidenced(draft, n)}

ConnectEndpoints ==
    /\ Editing
    /\ \E e, f \in Terminals \cup DOMAIN draft.juncs :
          /\ e # f
          /\ LET owners == {Owner(draft, e), Owner(draft, f)} \ {None}
             IN  \E n \in IF owners = {} THEN FreshNet \cup PreparedNets ELSE owners :
                    /\ owners \subseteq {n}
                    /\ draft' = addEndpointToNet(addEndpointToNet(
                          [draft EXCEPT !.nets = @ \cup {n}], n, e), n, f)
    /\ tx' = Changed(tx)

DisconnectEndpoint ==
    /\ Editing
    /\ \E t \in Terminals :
          LET n == draft.on[t]
          IN  /\ n # None
              /\ RoutesAt(draft, t) = {}
              /\ draft' = pruneDeferring(
                    [draft EXCEPT !.on[t] = None, !.bound = @ \ {t}], {n})
              /\ tx' = Changed(Deferring(
                    [tx EXCEPT !.suppressed = @ \cup {t}], {n}))

\* The Route that r becomes; a body wire stays one, whatever its ends.
RouteBetween(r, e, f, over) ==
    [net |-> Owner(draft, e), from |-> e, to |-> f,
     bulk |-> \/ {e, f} \cap Bodies # {}
              \/ r \in DOMAIN draft.routes /\ draft.routes[r].bulk,
     over |-> over]

\* set_route_path: a new Route, or another way and other ends on its own net for
\* one that is there.
SetRoutePath ==
    /\ Editing
    /\ \E r \in UnusedRoute \cup DOMAIN draft.routes, over \in Points \cup {None},
          e, f \in Terminals \cup DOMAIN draft.juncs :
          LET ends == {PointOf(draft, e), PointOf(draft, f)}
          IN  /\ Owner(draft, e) # None /\ Owner(draft, e) = Owner(draft, f)
              /\ r \in DOMAIN draft.routes => draft.routes[r].net = Owner(draft, e)
              /\ None \notin ends /\ Cardinality(ends) = 2
              /\ over \notin ends
              /\ draft' = [draft EXCEPT !.routes =
                    With(@, r, RouteBetween(r, e, f, over))]
              /\ tx' = [tx EXCEPT !.authored = @ \cup {r}]

RemoveRouteGeometry ==
    /\ Editing
    /\ \E r \in DOMAIN draft.routes :
          LET n == draft.routes[r].net
          IN  /\ LabelsAt(draft, r) = {}
              /\ draft' = pruneDeferring(
                    [draft EXCEPT !.routes = Without(@, {r})], {n})
              /\ tx' = [Deferring(tx, {n}) EXCEPT !.authored = @ \cup {r}]

Cut(r) ==
    LET n == draft.routes[r].net
        left == CutPrepared(draft, r)
        groups == CutGroups(draft, r)
    IN  /\ Editing
        /\ LabelsAt(draft, r) = {}
        /\ Divided(groups) =>
              /\ CutIds(draft, r, UnusedNets) # {}
              /\ \A s \in RoutesOf(left, n) :
                    EndsOf(left.routes[s]) \subseteq UNION groups
        /\ draft' = cutConnection(draft, r, UnusedNets)
        /\ tx' = CASE groups = {} -> Changed(Deferring(tx, {n}))
                   [] Divided(groups) -> Changed(tx)
                   [] OTHER -> tx

CutConnection == \E r \in DOMAIN draft.routes : Cut(r)

SetMosBulkDefaults ==
    /\ Editing
    /\ \E n \in draft.nets \cup {None} :
          /\ n # draft.default
          /\ draft' = [draft EXCEPT !.default = n]
    /\ tx' = Changed(tx)

ReconcileMosBulk ==
    LET bound == reconcileMosBulk(draft)
        left == LeftByBodies(draft, bound)
    IN  /\ Editing
        /\ draft' = pruneDeferring(bound, left)
        /\ tx' = [Deferring(tx, left) EXCEPT !.changed =
                    @ \/ bound.on # draft.on \/ draft.bound \ bound.bound # {}]

ClearMosBulkDefault ==
    /\ Editing
    /\ \E b \in draft.bound :
          /\ ~hasExplicitMosBulkRoute(draft, b)
          /\ draft' = [draft EXCEPT !.on[b] = None, !.bound = @ \ {b}]
          /\ tx' = Changed([tx EXCEPT !.cleared = @ \cup ({draft.on[b]} \ {None})])

-------------------------------------------------------------------------------
\* Contacts.  Only what the transaction introduced, placed, aimed at or moved
\* a Route onto is joined; geometry that was parked there before is not.

\* Where a Route runs, as far as its endpoints and the point it passes tell.
Covers(d, r, p) ==
    /\ r \in DOMAIN d.routes /\ ~d.routes[r].bulk
    /\ p \in {d.routes[r].over} \cup {PointOf(d, e) : e \in EndsOf(d.routes[r])}

newlyTouched ==
    {landing \in (tx.authored \cap DOMAIN doc.routes) \X Points :
        LET r == landing[1]
            p == landing[2]
        IN  /\ Covers(draft, r, p) /\ ~Covers(doc, r, p)
            /\ \E e \in VisibleEndpoints(draft) \ EndsOf(draft.routes[r]) :
                  PointOf(draft, e) = p}

FinishEdits ==
    /\ phase = "editing"
    /\ phase' = "contacts"
    /\ tx' = [tx EXCEPT !.landed = newlyTouched]
    /\ UNCHANGED <<doc, draft, edits>>

Contactable == VisibleEndpoints(draft) \ tx.suppressed

\* nextPhysicalContactOperation, first kind: two endpoints at one point.
MayJoin(e, f) ==
    /\ {e, f} \subseteq Contactable
    /\ Coincident(draft, e, f)
    /\ \/ {e, f} \cap tx.licensed # {}
       \/ PointOf(draft, e) \in {landing[2] : landing \in tx.landed}
    /\ \/ Owner(draft, e) = None
       \/ Owner(draft, e) # Owner(draft, f)

\* Second kind: an endpoint on the way of a Route.
MayAttach(e, r) ==
    LET route == draft.routes[r]
        here == <<r, route.over>>
    IN  /\ e \in Contactable
        /\ ~route.bulk
        /\ route.over # None /\ PointOf(draft, e) = route.over
        /\ e \notin EndsOf(route)
        /\ \/ here \in tx.landed
           \/ e \in Junctions /\ (e \in tx.licensed \/ here \in tx.typed)
           \/ e \in tx.licensed /\ here \in tx.typed

Joinable == {pair \in Contactable \X Contactable : MayJoin(pair[1], pair[2])}

Attachable ==
    {pair \in Contactable \X DOMAIN draft.routes : MayAttach(pair[1], pair[2])}

\* The draft with n and m one net (None: the endpoint has no net yet).
Bonded(d, n, m) ==
    IF n = None \/ m = None \/ n = m THEN d
    ELSE LET target == preferredPhysicalMergeTarget(d, n, m)
         IN  mergeBaseNets(d, target, IF target = n THEN m ELSE n)

BondedNet(d, n, m) ==
    IF n = None THEN m
    ELSE IF m \in {None, n} THEN n ELSE preferredPhysicalMergeTarget(d, n, m)

MayBond(d, n, m) == None \notin {n, m} /\ n # m => MayMerge(d, n, m)

JoinContact ==
    /\ phase = "contacts"
    /\ \E pair \in Joinable :
          LET e == pair[1]
              f == pair[2]
              n == Owner(draft, e)
              m == Owner(draft, f)
          IN  /\ MayBond(draft, n, m)
              /\ \E k \in IF {n, m} = {None} THEN FreshNet
                         ELSE {BondedNet(draft, n, m)} :
                    draft' = addEndpointToNet(addEndpointToNet(
                        [Bonded(draft, n, m) EXCEPT !.nets = @ \cup {k}],
                        k, e), k, f)
    /\ tx' = Changed(tx)
    /\ UNCHANGED <<doc, phase, edits>>

\* A split hands the licences of the Route on to its new half.
Handed(S, r, second) ==
    S \cup {<<second, at[2]>> : at \in {at \in S : at[1] = r}}

AttachContact ==
    /\ phase = "contacts"
    /\ Joinable = {}
    /\ \E pair \in Attachable, second \in UnusedRoute :
          LET e == pair[1]
              r == pair[2]
              n == Owner(draft, e)
              m == draft.routes[r].net
              bonded == Bonded(draft, n, m)
          IN  /\ MayBond(draft, n, m)
              /\ \E moved \in SUBSET LabelsAt(draft, r) :
                    draft' = RemapLabels(SplitRoute(
                        addEndpointToNet(bonded, bonded.routes[r].net, e),
                        r, second, e), moved, second)
              /\ tx' = Changed([tx EXCEPT !.typed = Handed(@, r, second),
                                          !.landed = Handed(@, r, second)])
    /\ UNCHANGED <<doc, phase, edits>>

-------------------------------------------------------------------------------
\* The end of a transaction.
Normalized ==
    LET revoked == revokeSupplyDefault(doc, draft)
        bound == reconcileBindings(revoked)
        left == LeftByBodies(draft, bound)
    IN  pruneDeferred(bound, tx.deferred \cup left, tx.protected)

connectivityChanged(result) ==
    \/ tx.changed
    \/ LostSupply(doc, draft)
    \/ result.on # draft.on
    \/ draft.bound \ result.bound # {}
    \/ result.nets # draft.nets

\* Mutant: the schema alone decides.
AnySchema(result) == WellFormed(result)

\* What a transaction would leave is checked for new contract conflicts only
\* if it changed connectivity, and always against the schema.
Acceptable(result) ==
    /\ connectivityChanged(result) => Conflicts(result) \subseteq Conflicts(doc)
    /\ WellFormed(result)

Settled == phase = "contacts" /\ Joinable = {} /\ Attachable = {}

Idle ==
    /\ phase' = "idle"
    /\ tx' = NoTransaction
    /\ UNCHANGED edits

Apply ==
    /\ Settled
    /\ \E result \in {Normalized} :
          /\ Acceptable(result)
          /\ doc' = [result EXCEPT !.status =
                IF connectivityChanged(result) THEN "connectivity-modified" ELSE @]
    /\ draft' = doc'
    /\ Idle

\* A contact between incompatible supplies, or a result that is not valid.
RejectTransaction ==
    /\ phase = "contacts"
    /\ \/ Settled /\ \E result \in {Normalized} : ~Acceptable(result)
       \/ \E pair \in Joinable :
             ~MayBond(draft, Owner(draft, pair[1]), Owner(draft, pair[2]))
       \/ Joinable = {} /\ \E pair \in Attachable :
             ~MayBond(draft, Owner(draft, pair[1]), draft.routes[pair[2]].net)
    /\ draft' = doc
    /\ UNCHANGED doc
    /\ Idle

Edit ==
    \/ CreateBaseNet \/ MergeNets \/ UpsertEvidence \/ RemoveEvidence
    \/ UpsertAnnotation \/ RemoveAnnotation
    \/ PlaceInstance \/ UnplaceInstance
    \/ AddJunction \/ RemoveJunction \/ AttachEndpointToRoute
    \/ ConnectEndpoints \/ DisconnectEndpoint
    \/ SetRoutePath \/ RemoveRouteGeometry \/ CutConnection
    \/ SetMosBulkDefaults \/ ReconcileMosBulk \/ ClearMosBulkDefault

Execute == FinishEdits \/ JoinContact \/ AttachContact \/ Apply \/ RejectTransaction

Next == Edit \/ Execute

Spec == Init /\ [][Next]_vars

-------------------------------------------------------------------------------
\* Properties.

\* A body that policy binds is on the Cell's default, and no wire was drawn to
\* it by hand, whatever the transaction did to nets, Routes and the default.
BoundBodiesFollowTheDefault == PolicyHolds(doc)

Committed == doc' # doc

\* Some side of S holds e without f, and nothing wires it to the other side.
Apart(d, n, S, e, f) ==
    \E T \in SUBSET S : /\ e \in T /\ f \notin T
                        /\ \A x \in T, y \in S \ T : ~Wired(d, n, x, y)

IsCut(r) ==
    /\ phase' = "editing"
    /\ r \in DOMAIN draft.routes \ DOMAIN draft'.routes
    /\ Cut(r)

\* A cut leaves two endpoints of the net on one net exactly when Routes and
\* contacts still join them; names, imported sources and policy do not count
\* (docs/specs/connectivity-and-routing.md, Wire cut lifecycle).
CutSeparates ==
    [][\A r \in Routes : IsCut(r) =>
         LET n == draft.routes[r].net
             left == CutPrepared(draft, r)
             S == netEndpoints(left, n)
         IN  \A e, f \in S :
                (Owner(draft', e) = Owner(draft', f)) <=>
                    ~Apart(left, n, S, e, f)]_vars

\* The names on net n are those of labels and markers that stand on it, and
\* markers state what they stand for.
InPlace(d, n) ==
    /\ NameOf(d, n) # None /\ ScopeOf(d, n) # None
    /\ \A c \in ClaimsOn(d, {n}) :
          /\ c.owner \in Labels => /\ c.owner \in DOMAIN d.labels
                                   /\ NetOfAnchor(d, d.labels[c.owner].anchor) = n
          /\ c.owner \in Markers => d.on[c.owner] = n /\ c.power = SupplyOf(c.owner)
          /\ c.owner \in Grounds => c.scope = "global"

\* Marker m of net n states a name on it, or shares one that it may state.
Speaks(d, n, m) ==
    /\ d.on[m] = n
    /\ \/ \E c \in ClaimsOn(d, {n}) : c.owner = m
       \/ /\ \A c \in d.claims : c.owner # m
          /\ m \in Grounds => NameOf(d, n) = "0" /\ ScopeOf(d, n) = "global"

\* A marker that stood for a supply before a cut stands for it after, under the
\* same name, even if it had shared the claim of another; no part of the net has
\* another name or supply; and a part of node 0 that the cut leaves without a
\* Ground marker, and that no label names, is not grounded any more.
CutKeepsSupplies ==
    [][\A r \in Routes : IsCut(r) =>
         LET n == draft.routes[r].net
         IN  \A m \in Markers :
                /\ InPlace(draft, n) /\ Speaks(draft, n, m)
                /\ PowerOf(draft, n) = SupplyOf(m)
                =>
                /\ PowerOf(draft', draft'.on[m]) = SupplyOf(m)
                /\ NameOf(draft', draft'.on[m]) = NameOf(draft, n)
                /\ \A t \in Terminals : draft.on[t] = n =>
                      /\ PowerOf(draft', draft'.on[t]) \in {SupplyOf(m), "none"}
                      /\ NameOf(draft', draft'.on[t]) \in {NameOf(draft, n), None}
                /\ m \in Grounds /\ NameOf(draft, n) = "0" =>
                     \A t \in Terminals :
                        /\ draft.on[t] = n
                        /\ \A g \in Grounds : draft'.on[g] # draft'.on[t]
                        /\ \A c \in ClaimsOn(draft', {draft'.on[t]}) :
                              c.owner \notin Labels
                        => PowerOf(draft', draft'.on[t]) # "ground"]_vars

\* The label names the net it stands on, and no other.
NamesItsWire(d, l) ==
    /\ l \in DOMAIN d.labels
    /\ d.labels[l].anchor \in Junctions \cup Routes
    /\ NetOfAnchor(d, d.labels[l].anchor) # None
    /\ {c.net : c \in {c \in d.claims : c.owner = l}}
          = {NetOfAnchor(d, d.labels[l].anchor)}

\* A name follows the wire it is written on: as long as a label that names the
\* net it stands on, and no other, is neither moved nor stated anew, every cut,
\* merge, split, contact and removal leaves its name on the net it stands on
\* (retargetOwnerEvidenceAfterSplit, mergeBaseNets, remapNetLabelsAfterSplit).
LabelsStayOnTheirWire ==
    [][\A l \in Labels :
         /\ NamesItsWire(draft, l)
         /\ \E c \in draft'.claims : c.owner = l
         /\ NetOfAnchor(draft', draft'.labels[l].anchor) # None
         /\ ~(UpsertAnnotation \/ UpsertEvidence \/ RejectTransaction)
         => NamesItsWire(draft', l)]_vars

\* The supply of a net.  Node 0 of the whole Project is the ground of every
\* netlist, also when the label that says "0" says no supply.
SupplyOn(d, n) ==
    IF PowerOf(d, n) = "none" /\ NameOf(d, n) = "0" /\ ScopeOf(d, n) = "global"
    THEN "ground" ELSE PowerOf(d, n)

\* What a netlist would say of a terminal: its name, supply and companions.
ElectricalView(d) ==
    [t \in Terminals |->
        IF d.on[t] = None THEN <<>>
        ELSE <<NameOf(d, d.on[t]), SupplyOn(d, d.on[t]),
               {u \in Terminals : d.on[u] \in LogicalNet(d, d.on[t])}>>]

\* What the importer declares of node 0 is global and never of VDD, and what a
\* Ground marker claims of it says ground.  Every planner keeps to that; the
\* Document schema does not ask for it.
NodeZeroIsGround(d) ==
    \A c \in {c \in d.claims : c.name = "0"} :
        /\ c.owner = "declaration" => c.scope = "global" /\ c.power # "vdd"
        /\ c.owner \in Grounds /\ c.scope = "global" => c.power = "ground"

\* Nothing that changes what a netlist would say passes for a change of the
\* drawing only: the Document is marked as departed from its source.  One thing
\* a cut that divides nothing does say unreported: that a global node 0 which no
\* claim called a supply is ground, as the Ground marker on it states.
SourceStatusIsHonest ==
    [][Committed /\ NodeZeroIsGround(doc)
       /\ ElectricalView(doc') # ElectricalView(doc) =>
         doc'.status = "connectivity-modified"]_vars

Populated(d, n) == netEndpoints(d, n) # {} \/ RoutesOf(d, n) # {}

\* No transaction leaves a ghost: a net that loses its last device pin,
\* marker, Junction and Route goes, with its names, unless a label still
\* refers to it or the transaction just named it.  The nets that
\* clear_mos_bulk_default took a body of are left out: it retires none.
NoGhostNets ==
    [][Committed => \A n \in (doc.nets \cap doc'.nets) \ tx.cleared :
         Populated(doc, n) /\ Unowned(doc', n)
         => \E c \in ClaimsOn(doc', {n}) : c.owner \in tx.protected]_vars

\* No transaction makes one logical net carry two names, scopes or supplies
\* that did not already, also when it counts as geometry only.
NoConflictIsIntroduced ==
    [][Committed /\ NodeZeroIsGround(doc) =>
         Conflicts(doc') \subseteq Conflicts(doc)]_vars

\* Where a terminal was imported from is not forgotten while it stays wired.
ProvenanceFollowsTerminals ==
    [][Committed => \A t \in Terminals \ Bodies :
         /\ doc.on[t] \in doc.sources
         /\ t \notin tx.suppressed
         => doc'.on[t] \in doc'.sources]_vars

\* "Explicit custom defaults remain untouched": a default that is no supply,
\* and was none before, is what the edits made it.
CustomDefaultStands ==
    [][/\ Committed
       /\ draft.default \in doc.nets \cap doc'.nets
       /\ PowerOf(doc, draft.default) # "ground"
       => doc'.default = draft.default]_vars
===============================================================================
