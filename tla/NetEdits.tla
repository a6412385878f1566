------------------------------- MODULE NetEdits -------------------------------
(***************************************************************************)
(* The steps of packages/edit-engine/src/transaction-*.ts that change what *)
(* is connected, as operators from a draft to a draft.  Their guards are   *)
(* with the actions of EditTransaction.                                    *)
(***************************************************************************)
EXTENDS LogicalNets

Retargeted(n, source, target) == IF n = source THEN target ELSE n

\* The partial function f with its entries outside S forgotten.
Without(f, S) == [x \in DOMAIN f \ S |-> f[x]]

\* f with entry x set to v, x new or not.
With(f, x, v) == [y \in DOMAIN f \cup {x} |-> IF y = x THEN v ELSE f[y]]

addEndpointToNet(d, n, e) ==
    IF e \in Terminals THEN [d EXCEPT !.on[e] = n] ELSE d

removeOwned(d, owners) ==
    [d EXCEPT !.claims = {c \in d.claims : c.owner \notin owners}]

-------------------------------------------------------------------------------
\* Merging and retiring Base Nets.

\* mergeBaseNets, which refuses incompatible supplies.
MayMerge(d, target, source) ==
    LET powers == {PowerOf(d, target), PowerOf(d, source)}
    IN  "conflict" \notin powers /\ powers # {"ground", "vdd"}

mergeBaseNets(d, target, source) ==
    LET to(n) == Retargeted(n, source, target)
        moved(x) == [x EXCEPT !.net = to(x.net)]
    IN  [d EXCEPT
          !.nets = @ \ {source},
          !.on = [t \in Terminals |-> to(@[t])],
          !.juncs = [j \in DOMAIN @ |-> moved(@[j])],
          !.routes = [r \in DOMAIN @ |-> moved(@[r])],
          !.labels = [l \in DOMAIN @ |-> moved(@[l])],
          !.claims = {moved(c) : c \in @},
          !.sources = {to(n) : n \in @},
          !.default = to(@)]

\* preferredPhysicalMergeTarget: the net that says more is kept.
MergeScore(d, n) ==
    (IF PowerOf(d, n) \in {"ground", "vdd"} THEN 4 ELSE 0)
    + (IF ScopeOf(d, n) = "global" THEN 2 ELSE 0)
    + (IF NameOf(d, n) # None THEN 1 ELSE 0)

preferredPhysicalMergeTarget(d, n, m) ==
    IF \/ MergeScore(d, n) > MergeScore(d, m)
       \/ MergeScore(d, n) = MergeScore(d, m) /\ n < m
    THEN n ELSE m

Unowned(d, n) ==
    /\ \A t \in Terminals : d.on[t] # n
    /\ RoutesOf(d, n) = {}
    /\ \A j \in DOMAIN d.juncs : d.juncs[j].net # n
    /\ \A l \in DOMAIN d.labels : d.labels[l].net # n

Evidenced(d, n) == n \in d.sources \/ ClaimsOn(d, {n}) # {}

\* pruneUnreachableLocalNet takes its evidence and the bulk default with it.
Retired(d, ns) ==
    [d EXCEPT !.nets = @ \ ns,
              !.claims = {c \in @ : c.net \notin ns},
              !.sources = @ \ ns,
              !.default = IF @ \in ns THEN None ELSE @]

\* While edits are applied only a net without evidence goes at once.
pruneDeferring(d, ns) ==
    Retired(d, {n \in ns \cap d.nets : Unowned(d, n) /\ ~Evidenced(d, n)})

\* Mutant: a net that nothing but a name is left of stays.
PruneUnlessNamed(d, ns, protected) == pruneDeferring(d, ns)

\* At the end evidence goes as well, unless the transaction just stated it.
pruneDeferred(d, ns, protected) ==
    Retired(d, {n \in ns \cap d.nets :
                  /\ Unowned(d, n)
                  /\ \A c \in ClaimsOn(d, {n}) : c.owner \notin protected})

-------------------------------------------------------------------------------
\* Splitting a Route at endpoint e: the first half keeps the id.
SplitRoute(d, r, second, e) ==
    LET route == d.routes[r]
    IN  [d EXCEPT !.routes =
          With([@ EXCEPT ![r] = [route EXCEPT !.to = e, !.over = None]],
               second, [route EXCEPT !.from = e, !.over = None])]

\* Labels of a Route that was split stand on the half that is nearest.
RemapLabels(d, moved, second) ==
    [d EXCEPT !.labels = [l \in DOMAIN @ |->
        IF l \in moved THEN [@[l] EXCEPT !.anchor = second] ELSE @[l]]]

LabelsAt(d, anchor) == {l \in DOMAIN d.labels : d.labels[l].anchor = anchor}

-------------------------------------------------------------------------------
\* cut_connection

\* Mutant: markers go on sharing the claim that stays behind.
MarkersUnnamed(d, n) == {}

\* missingPowerMarkerClaims: a marker that shares the claim of its net states
\* the unambiguous name on its own account before the net is divided.
missingPowerMarkerClaims(d, n) ==
    LET name == NameOf(d, n)
        scope == ScopeOf(d, n)
        power == PowerOf(d, n)
        agrees(m) == IF m \in Grounds
                     THEN power # "vdd" /\ name = "0" /\ scope = "global"
                     ELSE power = "vdd"
    IN  {[owner |-> m, net |-> n, name |-> name, scope |-> scope,
          power |-> IF m \in Grounds THEN "ground" ELSE "vdd"] :
            m \in {m \in Markers : /\ d.on[m] = n
                                   /\ \A c \in d.claims : c.owner # m
                                   /\ name # None /\ scope # None
                                   /\ LogicalNet(d, n) \notin
                                        {issue[2] : issue \in Conflicts(d)}
                                   /\ agrees(m)}}

\* Visible Ground markers take over node 0 from the imported declaration.
WithMarkersNamed(d, n) ==
    LET claims == d.claims \cup missingPowerMarkerClaims(d, n)
        grounded == \E c \in claims : /\ c.net = n /\ c.name = "0"
                                      /\ c.scope = "global"
                                      /\ c.owner \in Grounds
    IN  [d EXCEPT !.claims =
          {c \in claims : ~(/\ grounded /\ c.net = n /\ c.name = "0"
                            /\ c.owner = "declaration")}]

\* The Route goes, and each end that nothing uses any more.
WithoutRoute(d, r) ==
    LET left == [d EXCEPT !.routes = Without(@, {r})]
        orphans == {j \in EndsOf(d.routes[r]) \cap DOMAIN d.juncs :
                      RoutesAt(left, j) = {} /\ LabelsAt(left, j) = {}}
    IN  [left EXCEPT !.juncs = Without(@, orphans)]

\* The group of the first end that survived keeps the id of the net.
PrimaryGroup(groups, route) ==
    IF \E g \in groups : route.from \in g
    THEN CHOOSE g \in groups : route.from \in g
    ELSE IF \E g \in groups : route.to \in g
    THEN CHOOSE g \in groups : route.to \in g
    ELSE CHOOSE g \in groups : TRUE

\* Where a label, a claim's owner or a Route stands.
NetOfAnchor(d, a) ==
    IF a \in DOMAIN d.routes THEN d.routes[a].net ELSE Owner(d, a)

\* Mutant: names stay with the net that kept the id.
EvidenceStays(d, n) == d

\* retargetOwnerEvidenceAfterSplit: a label follows the object it stands on,
\* a claim follows its owner; the rest stays with the primary group.
retargetOwnerEvidence(d, n) ==
    LET claimed == {c.owner : c \in ClaimsOn(d, {n})}
        netOf(l) == LET there == NetOfAnchor(d, d.labels[l].anchor)
                    IN  IF there = None THEN d.labels[l].net ELSE there
        follow(o) == CASE o \in DOMAIN d.labels -> netOf(o)
                       [] o \in Markers /\ d.on[o] # None -> d.on[o]
                       [] OTHER -> n
    IN  [d EXCEPT
          !.labels = [l \in DOMAIN @ |->
              IF l \in claimed THEN [@[l] EXCEPT !.net = netOf(l)] ELSE @[l]],
          !.claims = {IF c.net = n THEN [c EXCEPT !.net = follow(c.owner)]
                      ELSE c : c \in @}]

\* Mutant: a detached part forgets that it was imported.
PartsUnsourced(d, n, parts) == d

\* propagateSpiceSourceEvidenceAfterSplit: every part keeps the source.
propagateSource(d, n, parts) ==
    [d EXCEPT !.sources = IF n \in @ THEN @ \cup parts ELSE @]

\* retargetMosBulkDefaultsAfterSplit: the default follows the one group that
\* still is what the default was (before).
retargetDefault(d, n, split, before) ==
    LET same(m) == /\ before.name # None => NameOf(d, m) = before.name
                   /\ before.scope # None => ScopeOf(d, m) = before.scope
                   /\ before.power \in {"ground", "vdd"} =>
                        PowerOf(d, m) = before.power
        matching == {m \in split : same(m)}
    IN  IF /\ d.default = n
           /\ before.name # None \/ before.power \in {"ground", "vdd"}
           /\ Cardinality({LogicalNet(d, m) : m \in matching}) = 1
        THEN [d EXCEPT !.default = Min(matching)] ELSE d

Identity(d, n) == [name |-> NameOf(d, n), scope |-> ScopeOf(d, n),
                   power |-> PowerOf(d, n)]

\* idOf gives each group its net.
Partitioned(d, n, idOf) ==
    LET around(e) == {g \in DOMAIN idOf : e \in g}
        groupNet(e) == IF around(e) = {} THEN n
                       ELSE idOf[CHOOSE g \in around(e) : TRUE]
    IN  [d EXCEPT
          !.nets = @ \cup {idOf[g] : g \in DOMAIN idOf},
          !.on = [t \in Terminals |-> IF @[t] = n THEN groupNet(t) ELSE @[t]],
          !.juncs = [j \in DOMAIN @ |->
              IF @[j].net = n THEN [@[j] EXCEPT !.net = groupNet(j)] ELSE @[j]],
          !.routes = [r \in DOMAIN @ |->
              IF @[r].net = n THEN [@[r] EXCEPT !.net = groupNet(d.routes[r].from)]
              ELSE @[r]]]

\* The ways to give detached groups ids of their own.
GroupIds(n, groups, primary, unused) ==
    {idOf \in [groups -> unused \cup {n}] :
        \A g \in groups : /\ idOf[g] = n <=> g = primary
                          /\ \A h \in groups : idOf[g] = idOf[h] => g = h}

\* Before the groups are told apart, and after.
CutPrepared(d, r) == WithoutRoute(WithMarkersNamed(d, d.routes[r].net), r)

CutGroups(d, r) == netEndpointGroups(CutPrepared(d, r), d.routes[r].net)

CutIds(d, r, unused) ==
    GroupIds(d.routes[r].net, CutGroups(d, r),
             PrimaryGroup(CutGroups(d, r), d.routes[r]), unused)

\* A cut that leaves the net in one piece, or none of it, divides nothing.
Divided(groups) == groups # {} /\ Cardinality(groups) # 1

\* prepared is torn into the parts that idOf names.
Torn(d, prepared, n, idOf) ==
    LET parts == {idOf[g] : g \in DOMAIN idOf}
        parted == retargetOwnerEvidence(Partitioned(prepared, n, idOf), n)
    IN  retargetDefault(propagateSource(parted, n, parts), n, parts,
                        Identity(WithMarkersNamed(d, n), n))

cutConnection(d, r, unused) ==
    LET n == d.routes[r].net
        prepared == CutPrepared(d, r)
        groups == CutGroups(d, r)
    IN  CASE groups = {} -> pruneDeferring(prepared, {n})
          [] Divided(groups) ->
                Torn(d, prepared, n, CHOOSE idOf \in CutIds(d, r, unused) : TRUE)
          [] OTHER -> prepared

-------------------------------------------------------------------------------
\* The body policy of a Cell: a bound body follows the bulk default.

SetBodies(d, bs, n) ==
    [d EXCEPT !.on = [t \in Terminals |-> IF t \in bs THEN n ELSE @[t]],
              !.bound = IF n = None THEN @ \ bs ELSE @ \cup bs]

\* strandedMosBulkNet: what is left of a net that only policy had populated.
Stranded(d, b) ==
    /\ b \in d.bound
    /\ netEndpoints(d, d.on[b]) = {b}
    /\ RoutesOf(d, d.on[b]) = {}
    /\ ~Evidenced(d, d.on[b])

\* resolveDetachedMosBulkDefault: bodies alone on a part of the imported net.
Detached(d, b) ==
    /\ netEndpoints(d, d.on[b]) \subseteq Bodies
    /\ RoutesOf(d, d.on[b]) = {}
    /\ {d.on[b], d.default} \subseteq d.sources

\* reconcile_mos_bulk: a body drawn by hand is released, any other that is
\* free, on the default already or residue of policy is bound to the default.
Reclaimed(d) ==
    IF d.default = None THEN {}
    ELSE {b \in Bodies : /\ ~hasExplicitMosBulkRoute(d, b)
                         /\ \/ d.on[b] \in {None, d.default}
                            \/ Detached(d, b)
                            \/ Stranded(d, b)}

\* Mutant: policy holds on to a body that was wired by hand.
DrawnStaysBound(d) == d

ReleaseDrawn(d) ==
    [d EXCEPT !.bound = {b \in @ : ~hasExplicitMosBulkRoute(d, b)}]

reconcileMosBulk(d) == SetBodies(ReleaseDrawn(d), Reclaimed(d), d.default)

\* revokeInvalidatedSupplyBulkDefaults: a default that was the ground supply
\* when the transaction began and is not any more moves to the one net that
\* is, or goes with its bindings.
LostSupply(before, d) ==
    /\ before.default # None /\ PowerOf(before, before.default) = "ground"
    /\ d.default # None /\ PowerOf(d, d.default) # "ground"

Replacement(before, d) ==
    LET name == NameOf(before, before.default)
        groups == {LogicalNet(d, n) : n \in
                     {n \in d.nets : /\ PowerOf(d, n) = "ground"
                                     /\ name # None /\ NameOf(d, n) = name}}
    IN  IF Cardinality(groups) = 1 THEN Min(UNION groups) ELSE None

revokeSupplyDefault(before, d) ==
    IF LostSupply(before, d)
    THEN [SetBodies(d, {b \in d.bound : d.on[b] = d.default},
                    Replacement(before, d))
          EXCEPT !.default = Replacement(before, d)]
    ELSE d

\* reconcileMaterializedMosBulkBindings, at the end of every transaction.
reconcileBindings(d) ==
    LET left == ReleaseDrawn(d)
    IN  SetBodies(left, left.bound, d.default)

\* The nets that bodies leave between two drafts.
LeftByBodies(d, e) == {d.on[b] : b \in {b \in Bodies : d.on[b] # e.on[b]}} \ {None}
===============================================================================
