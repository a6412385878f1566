------------------------ MODULE EditTransaction_proofs -------------------------
(***************************************************************************)
(* What holds of executeTransaction for every Document and any number of   *)
(* edits: first where terminals were imported from and the body policy,    *)
(* by the invariant IInv; then that Documents stay whole, that cuts        *)
(* separate and keep supplies, that names follow their wire and that no    *)
(* ghost net is left, by the invariant Settles; last that no transaction   *)
(* changes a circuit without saying so, by the invariant Honest.  Each     *)
(* edit has a lemma for each of the three.                                 *)
(***************************************************************************)
EXTENDS NetEdits_proofs

\* What the proofs need of the type of a Document.
Sound(d) ==
    /\ IsRecord(d)
    /\ d.on = [t \in Terminals |-> d.on[t]]
    /\ \A r \in DOMAIN d.routes :
          "net" \in DOMAIN d.routes[r] /\ d.routes[r].net # None
    /\ None \notin d.nets /\ None \notin d.sources
    /\ d.bound \subseteq Bodies

\* Terminals outside S that are on an imported net in d are so in e.
Follows(d, e, S) ==
    \A t \in (Terminals \ Bodies) \ S :
        d.on[t] \in d.sources => e.on[t] \in e.sources

LEMMA Following ==
    ASSUME NEW d, NEW e, NEW f, NEW S, Follows(d, e, S), Follows(e, f, {})
    PROVE  Follows(d, f, S)
BY DEF Follows

LEMMA Retiring ==
    ASSUME NEW d, Sound(d), NEW ns,
           \A n \in ns : \A t \in Terminals : d.on[t] # n
    PROVE  /\ Sound(Retired(d, ns))
           /\ Follows(d, Retired(d, ns), {})
           /\ Retired(d, ns).on = d.on
           /\ Retired(d, ns).bound = d.bound
           /\ Retired(d, ns).routes = d.routes
<1> DEFINE e == Retired(d, ns)
<1>1. IsRecord(e)
  BY DEF Retired, Sound, IsRecord, Fields
<1>2. /\ e.on = d.on /\ e.bound = d.bound /\ e.routes = d.routes
      /\ e.nets = d.nets \ ns /\ e.sources = d.sources \ ns
  BY DEF Retired, Sound, IsRecord, Fields
<1> HIDE DEF e
<1> QED
  BY <1>1, <1>2 DEF Sound, Follows, e

LEMMA Merging ==
    ASSUME NEW d, Sound(d), NEW n, n # None, NEW m
    PROVE  LET e == mergeBaseNets(d, n, m)
           IN  /\ Sound(e) /\ Follows(d, e, {})
               /\ DOMAIN e.routes = DOMAIN d.routes
<1> DEFINE e == mergeBaseNets(d, n, m)
<1>1. IsRecord(e)
  BY DEF mergeBaseNets, Sound, IsRecord, Fields
<1>2. e.on = [t \in Terminals |-> Retargeted(d.on[t], m, n)]
  BY DEF mergeBaseNets, Sound, IsRecord, Fields
<1>3. e.sources = {Retargeted(k, m, n) : k \in d.sources}
  BY DEF mergeBaseNets, Sound, IsRecord, Fields
<1>4. e.routes = [r \in DOMAIN d.routes |->
          [d.routes[r] EXCEPT !.net = Retargeted(d.routes[r].net, m, n)]]
  BY DEF mergeBaseNets, Sound, IsRecord, Fields
<1>5. e.nets = d.nets \ {m} /\ e.bound = d.bound
  BY DEF mergeBaseNets, Sound, IsRecord, Fields
<1> HIDE DEF e
<1>6. \A r \in DOMAIN e.routes :
          "net" \in DOMAIN e.routes[r] /\ e.routes[r].net # None
  BY <1>4 DEF Sound, Retargeted
<1>7. None \notin e.sources
  BY <1>3 DEF Sound, Retargeted
<1>8. e.on = [t \in Terminals |-> e.on[t]]
  BY <1>2
<1>9. Sound(e)
  BY <1>1, <1>5, <1>6, <1>7, <1>8 DEF Sound
<1>10. Follows(d, e, {})
  BY <1>2, <1>3 DEF Follows
<1> QED
  BY <1>4, <1>9, <1>10 DEF e

LEMMA PruningNow ==
    ASSUME NEW d, Sound(d), NEW ns
    PROVE  Sound(pruneDeferring(d, ns)) /\ Follows(d, pruneDeferring(d, ns), {})
<1> DEFINE left == {n \in ns \cap d.nets : Unowned(d, n) /\ ~Evidenced(d, n)}
<1>1. \A n \in left : \A t \in Terminals : d.on[t] # n
  BY DEF Unowned
<1> HIDE DEF left
<1>2. Sound(Retired(d, left)) /\ Follows(d, Retired(d, left), {})
  BY <1>1, Retiring
<1> QED
  BY <1>2 DEF pruneDeferring, left

LEMMA PruningLater ==
    ASSUME NEW d, Sound(d), NEW ns, NEW protected
    PROVE  LET e == pruneDeferred(d, ns, protected)
           IN  /\ Sound(e) /\ Follows(d, e, {})
               /\ e.on = d.on /\ e.bound = d.bound /\ e.routes = d.routes
               /\ e.default # d.default =>
                    \A t \in Terminals : d.on[t] # d.default
<1> DEFINE left == {n \in ns \cap d.nets :
                      /\ Unowned(d, n)
                      /\ \A c \in ClaimsOn(d, {n}) : c.owner \notin protected}
           e == Retired(d, left)
<1>1. \A n \in left : \A t \in Terminals : d.on[t] # n
  BY DEF Unowned
<1>2. e.default = IF d.default \in left THEN None ELSE d.default
  BY DEF Retired, Sound, IsRecord, Fields
<1> HIDE DEF left
<1>3. /\ Sound(e) /\ Follows(d, e, {})
      /\ e.on = d.on /\ e.bound = d.bound /\ e.routes = d.routes
  BY <1>1, Retiring
<1>4. e = pruneDeferred(d, ns, protected)
  BY DEF pruneDeferred, left
<1> QED
  BY <1>1, <1>2, <1>3, <1>4

\* A draft whose nets of terminals, sources and Routes are those of d.
LEMMA Untouched ==
    ASSUME NEW d, Sound(d), NEW e, IsRecord(e),
           e.on = d.on, e.sources = d.sources, e.bound \subseteq d.bound,
           None \notin e.nets,
           \A r \in DOMAIN e.routes :
              "net" \in DOMAIN e.routes[r] /\ e.routes[r].net # None
    PROVE  Sound(e) /\ Follows(d, e, {})
BY DEF Sound, Follows

LEMMA Adding ==
    ASSUME NEW d, Sound(d), NEW n, NEW x,
           x \in Terminals => d.on[x] \in {None, n}
    PROVE  /\ Sound(addEndpointToNet(d, n, x))
           /\ Follows(d, addEndpointToNet(d, n, x), {})
           /\ addEndpointToNet(d, n, x).routes = d.routes
           /\ \A t \in Terminals : addEndpointToNet(d, n, x).on[t] \in {d.on[t], n}
<1> DEFINE e == addEndpointToNet(d, n, x)
<1>1. CASE x \notin Terminals
  BY <1>1 DEF addEndpointToNet, Follows
<1>2. CASE x \in Terminals
  <2>1. IsRecord(e)
    BY <1>2 DEF addEndpointToNet, Sound, IsRecord, Fields
  <2>2. e.on = [d.on EXCEPT ![x] = n]
    BY <1>2 DEF addEndpointToNet, Sound, IsRecord, Fields
  <2>3. /\ e.bound = d.bound /\ e.routes = d.routes
        /\ e.nets = d.nets /\ e.sources = d.sources
    BY <1>2 DEF addEndpointToNet, Sound, IsRecord, Fields
  <2> HIDE DEF e
  <2>4. e.on = [t \in Terminals |-> IF t = x THEN n ELSE d.on[t]]
    BY <1>2, <2>2 DEF Sound
  <2>5. Sound(e)
    BY <2>1, <2>3, <2>4 DEF Sound
  <2>6. Follows(d, e, {})
    BY <1>2, <2>3, <2>4 DEF Follows, Sound
  <2> QED
    BY <2>3, <2>4, <2>5, <2>6 DEF e
<1> QED
  BY <1>1, <1>2

LEMMA Rebinding ==
    ASSUME NEW d, Sound(d), NEW bs, bs \subseteq Bodies, NEW n
    PROVE  LET e == SetBodies(d, bs, n)
           IN  Sound(e) /\ Follows(d, e, {})
<1> DEFINE e == SetBodies(d, bs, n)
<1>1. IsRecord(e)
  BY DEF SetBodies, Sound, IsRecord, Fields
<1>2. e.on = [t \in Terminals |-> IF t \in bs THEN n ELSE d.on[t]]
  BY DEF SetBodies, Sound, IsRecord, Fields
<1>3. e.bound = IF n = None THEN d.bound \ bs ELSE d.bound \cup bs
  BY DEF SetBodies, Sound, IsRecord, Fields
<1>4. /\ e.nets = d.nets /\ e.sources = d.sources
      /\ e.routes = d.routes /\ e.default = d.default
  BY DEF SetBodies, Sound, IsRecord, Fields
<1> HIDE DEF e
<1>5. Sound(e)
  BY <1>1, <1>2, <1>3, <1>4 DEF Sound
<1>6. Follows(d, e, {})
  BY <1>2, <1>4 DEF Follows, Sound
<1> QED
  BY <1>5, <1>6 DEF e
-------------------------------------------------------------------------------
\* The body policy and the end of a transaction.

LEMMA Releasing ==
    ASSUME NEW d, Sound(d)
    PROVE  LET e == ReleaseDrawn(d)
           IN  /\ Sound(e) /\ Follows(d, e, {})
               /\ e.bound = {b \in d.bound : ~hasExplicitMosBulkRoute(d, b)}
               /\ e.on = d.on /\ e.routes = d.routes /\ e.default = d.default
<1> DEFINE e == ReleaseDrawn(d)
<1>1. IsRecord(e)
  BY DEF ReleaseDrawn, Sound, IsRecord, Fields
<1>2. /\ e.bound = {b \in d.bound : ~hasExplicitMosBulkRoute(d, b)}
      /\ e.on = d.on /\ e.routes = d.routes /\ e.default = d.default
      /\ e.sources = d.sources /\ e.nets = d.nets
  BY DEF ReleaseDrawn, Sound, IsRecord, Fields
<1> HIDE DEF e
<1>3. Sound(e) /\ Follows(d, e, {})
  BY <1>1, <1>2, Untouched DEF Sound
<1> QED
  BY <1>2, <1>3 DEF e

\* Only the Routes say which bodies were drawn.
LEMMA Drawing ==
    ASSUME NEW d, NEW e, e.routes = d.routes, NEW b
    PROVE  hasExplicitMosBulkRoute(e, b) <=> hasExplicitMosBulkRoute(d, b)
BY DEF hasExplicitMosBulkRoute, RoutesAt

LEMMA Reconciling ==
    ASSUME NEW d, Sound(d)
    PROVE  Sound(reconcileMosBulk(d)) /\ Follows(d, reconcileMosBulk(d), {})
<1> DEFINE left == ReleaseDrawn(d)
           e == SetBodies(left, Reclaimed(d), d.default)
<1>1. Sound(left) /\ Follows(d, left, {})
  BY Releasing
<1>2. Reclaimed(d) \subseteq Bodies
  BY DEF Reclaimed
<1> HIDE DEF left
<1>3. Sound(e) /\ Follows(left, e, {})
  BY <1>1, <1>2, Rebinding
<1> HIDE DEF e
<1>4. Follows(d, e, {})
  BY <1>1, <1>3 DEF Follows
<1> QED
  BY <1>3, <1>4 DEF reconcileMosBulk, left, e

LEMMA Revoking ==
    ASSUME NEW before, NEW d, Sound(d)
    PROVE  LET e == revokeSupplyDefault(before, d)
           IN  Sound(e) /\ Follows(d, e, {})
<1>1. CASE ~LostSupply(before, d)
  BY <1>1 DEF revokeSupplyDefault, Follows
<1>2. CASE LostSupply(before, d)
  <2> DEFINE bs == {b \in d.bound : d.on[b] = d.default}
             m == SetBodies(d, bs, Replacement(before, d))
             e == [m EXCEPT !.default = Replacement(before, d)]
  <2>1. bs \subseteq Bodies
    BY DEF Sound
  <2> HIDE DEF bs
  <2>2. Sound(m) /\ Follows(d, m, {})
    BY <2>1, Rebinding
  <2> HIDE DEF m
  <2>3. IsRecord(e)
    BY <2>2 DEF Sound, IsRecord, Fields
  <2>4. /\ e.on = m.on /\ e.sources = m.sources /\ e.bound = m.bound
        /\ e.nets = m.nets /\ e.routes = m.routes
    BY <2>2 DEF Sound, IsRecord, Fields
  <2> HIDE DEF e
  <2>5. Sound(e) /\ Follows(m, e, {})
    BY <2>2, <2>3, <2>4, Untouched DEF Sound
  <2>6. Follows(d, e, {})
    BY <2>2, <2>5 DEF Follows
  <2> QED
    BY <1>2, <2>5, <2>6 DEF revokeSupplyDefault, e, m, bs
<1> QED
  BY <1>1, <1>2

\* Whatever the draft, the bindings that are left agree with the default.
LEMMA Binding ==
    ASSUME NEW d, Sound(d)
    PROVE  LET e == reconcileBindings(d)
           IN  Sound(e) /\ Follows(d, e, {}) /\ PolicyHolds(e)
<1> DEFINE left == ReleaseDrawn(d)
           bs == left.bound
           n == d.default
           e == SetBodies(left, bs, n)
<1>1. /\ Sound(left) /\ Follows(d, left, {})
      /\ left.bound = {b \in d.bound : ~hasExplicitMosBulkRoute(d, b)}
      /\ left.routes = d.routes /\ left.default = d.default
  BY Releasing
<1> HIDE DEF left
<1>2. bs \subseteq Bodies
  BY <1>1 DEF Sound
<1> HIDE DEF bs, n
<1>3. /\ Sound(e) /\ Follows(left, e, {})
      /\ \A t \in Terminals : e.on[t] = IF t \in bs THEN n ELSE left.on[t]
      /\ e.bound = IF n = None THEN left.bound \ bs ELSE left.bound \cup bs
      /\ e.routes = left.routes /\ e.default = left.default
  <2>1. Sound(e) /\ Follows(left, e, {})
    BY <1>1, <1>2, Rebinding
  <2>2. \A t \in Terminals : e.on[t] = IF t \in bs THEN n ELSE left.on[t]
    BY <1>1, <1>2 DEF SetBodies, Sound, IsRecord, Fields
  <2>3. e.bound = IF n = None THEN left.bound \ bs ELSE left.bound \cup bs
    BY <1>1, <1>2 DEF SetBodies, Sound, IsRecord, Fields
  <2>4. e.routes = left.routes
    BY <1>1, <1>2 DEF SetBodies, Sound, IsRecord, Fields
  <2>5. e.default = left.default
    BY <1>1, <1>2 DEF SetBodies, Sound, IsRecord, Fields
  <2> QED
    BY <2>1, <2>2, <2>3, <2>4, <2>5
<1> HIDE DEF e
<1>4. e.bound \subseteq bs
  BY <1>3 DEF bs
<1>5. \A b \in e.bound : e.on[b] = e.default
  BY <1>1, <1>2, <1>3, <1>4 DEF Terminals, n
<1>6. \A b \in e.bound : ~hasExplicitMosBulkRoute(e, b)
  BY <1>1, <1>3, <1>4, Drawing DEF bs
<1>7. Follows(d, e, {})
  BY <1>1, <1>3 DEF Follows
<1>8. PolicyHolds(e)
  BY <1>5, <1>6 DEF PolicyHolds
<1>9. e = reconcileBindings(d)
  BY <1>1 DEF reconcileBindings, left, bs, n, e
<1> QED
  BY <1>3, <1>7, <1>8, <1>9

LEMMA Normalizing ==
    ASSUME Sound(draft)
    PROVE  /\ Sound(Normalized)
           /\ Follows(draft, Normalized, {})
           /\ PolicyHolds(Normalized)
<1> DEFINE revoked == revokeSupplyDefault(doc, draft)
           bound == reconcileBindings(revoked)
           ns == tx.deferred \cup LeftByBodies(draft, bound)
           e == pruneDeferred(bound, ns, tx.protected)
<1>1. Sound(revoked) /\ Follows(draft, revoked, {})
  BY Revoking
<1> HIDE DEF revoked
<1>2. Sound(bound) /\ Follows(revoked, bound, {}) /\ PolicyHolds(bound)
  BY <1>1, Binding
<1> HIDE DEF bound, ns
<1>3. /\ Sound(e) /\ Follows(bound, e, {})
      /\ e.on = bound.on /\ e.bound = bound.bound /\ e.routes = bound.routes
      /\ e.default # bound.default =>
           \A t \in Terminals : bound.on[t] # bound.default
  BY <1>2, PruningLater
<1> HIDE DEF e
<1>4. PolicyHolds(e)
  <2> SUFFICES ASSUME NEW b \in e.bound
               PROVE  e.on[b] = e.default /\ ~hasExplicitMosBulkRoute(e, b)
    BY DEF PolicyHolds
  <2>1. b \in Terminals
    BY <1>3 DEF Sound, Terminals
  <2>2. bound.on[b] = bound.default /\ ~hasExplicitMosBulkRoute(bound, b)
    BY <1>2, <1>3 DEF PolicyHolds
  <2> QED
    BY <1>3, <2>1, <2>2, Drawing
<1>5. Follows(draft, e, {})
  BY <1>1, <1>2, <1>3 DEF Follows
<1> QED
  BY <1>3, <1>4, <1>5 DEF Normalized, revoked, bound, ns, e
-------------------------------------------------------------------------------
\* Routes that are split, and the parts of a cut.

LEMMA Splitting ==
    ASSUME NEW d, Sound(d), NEW r \in DOMAIN d.routes, NEW second, NEW x
    PROVE  LET e == SplitRoute(d, r, second, x)
           IN  Sound(e) /\ Follows(d, e, {})
<1> DEFINE e == SplitRoute(d, r, second, x)
           half == [d.routes[r] EXCEPT !.to = x, !.over = None]
           other == [d.routes[r] EXCEPT !.from = x, !.over = None]
<1>1. IsRecord(e)
  BY DEF SplitRoute, Sound, IsRecord, Fields
<1>2. /\ e.on = d.on /\ e.sources = d.sources
      /\ e.bound = d.bound /\ e.nets = d.nets
  BY DEF SplitRoute, Sound, IsRecord, Fields
<1>3. e.routes = With([d.routes EXCEPT ![r] = half], second, other)
  BY DEF SplitRoute, Sound, IsRecord, Fields
<1>4. /\ "net" \in DOMAIN half /\ half.net = d.routes[r].net
      /\ "net" \in DOMAIN other /\ other.net = d.routes[r].net
  BY DEF Sound
<1> HIDE DEF e, half, other
<1>5. \A q \in DOMAIN e.routes :
          "net" \in DOMAIN e.routes[q] /\ e.routes[q].net # None
  <2> SUFFICES ASSUME NEW q \in DOMAIN e.routes
               PROVE  "net" \in DOMAIN e.routes[q] /\ e.routes[q].net # None
    OBVIOUS
  <2>1. e.routes[q] = IF q = second THEN other
                      ELSE IF q = r THEN half ELSE d.routes[q]
    BY <1>3 DEF With
  <2>2. q # second => q \in DOMAIN d.routes
    BY <1>3 DEF With
  <2> QED
    BY <1>4, <2>1, <2>2 DEF Sound
<1>6. Sound(e) /\ Follows(d, e, {})
  BY <1>1, <1>2, <1>5, Untouched DEF Sound
<1> QED
  BY <1>6 DEF e

LEMMA Remapping ==
    ASSUME NEW d, Sound(d), NEW moved, NEW second
    PROVE  LET e == RemapLabels(d, moved, second)
           IN  Sound(e) /\ Follows(d, e, {})
<1> DEFINE e == RemapLabels(d, moved, second)
<1>1. IsRecord(e)
  BY DEF RemapLabels, Sound, IsRecord, Fields
<1>2. /\ e.on = d.on /\ e.sources = d.sources /\ e.routes = d.routes
      /\ e.bound = d.bound /\ e.nets = d.nets
  BY DEF RemapLabels, Sound, IsRecord, Fields
<1> HIDE DEF e
<1>3. Sound(e) /\ Follows(d, e, {})
  BY <1>1, <1>2, Untouched DEF Sound
<1> QED
  BY <1>3 DEF e

LEMMA Preparing ==
    ASSUME NEW d, Sound(d), NEW r
    PROVE  Sound(CutPrepared(d, r)) /\ Follows(d, CutPrepared(d, r), {})
<1> DEFINE m == WithMarkersNamed(d, d.routes[r].net)
           e == WithoutRoute(m, r)
<1>1. IsRecord(m)
  BY DEF WithMarkersNamed, Sound, IsRecord, Fields
<1>2. /\ m.on = d.on /\ m.sources = d.sources /\ m.routes = d.routes
      /\ m.bound = d.bound /\ m.nets = d.nets
  BY DEF WithMarkersNamed, Sound, IsRecord, Fields
<1> HIDE DEF m
<1>3. Sound(m) /\ Follows(d, m, {})
  BY <1>1, <1>2, Untouched DEF Sound
<1>4. IsRecord(e)
  BY <1>1 DEF WithoutRoute, IsRecord, Fields
<1>5. /\ e.on = m.on /\ e.sources = m.sources
      /\ e.bound = m.bound /\ e.nets = m.nets
      /\ e.routes = Without(m.routes, {r})
  BY <1>1 DEF WithoutRoute, IsRecord, Fields
<1> HIDE DEF e
<1>6. \A q \in DOMAIN e.routes :
          "net" \in DOMAIN e.routes[q] /\ e.routes[q].net # None
  BY <1>3, <1>5 DEF Without, Sound
<1>7. Sound(e) /\ Follows(m, e, {})
  BY <1>3, <1>4, <1>5, <1>6, Untouched DEF Sound
<1>8. Follows(d, e, {})
  BY <1>3, <1>7 DEF Follows
<1> QED
  BY <1>7, <1>8 DEF CutPrepared, e, m

LEMMA Tearing ==
    ASSUME NEW d, NEW p, Sound(p), NEW n, n # None, NEW idOf,
           \A g \in DOMAIN idOf : idOf[g] # None
    PROVE  Sound(Torn(d, p, n, idOf)) /\ Follows(p, Torn(d, p, n, idOf), {})
<1> DEFINE parts == {idOf[g] : g \in DOMAIN idOf}
           around(x) == {g \in DOMAIN idOf : x \in g}
           groupNet(x) == IF around(x) = {} THEN n
                          ELSE idOf[CHOOSE g \in around(x) : TRUE]
           m1 == Partitioned(p, n, idOf)
           m2 == retargetOwnerEvidence(m1, n)
           m3 == propagateSource(m2, n, parts)
           e == retargetDefault(m3, n, parts, Identity(WithMarkersNamed(d, n), n))
<1>1. \A x : groupNet(x) \in parts \cup {n} /\ groupNet(x) # None
  OBVIOUS
<1>2. IsRecord(m1)
  BY DEF Partitioned, Sound, IsRecord, Fields
<1>3. /\ m1.sources = p.sources /\ m1.bound = p.bound
      /\ m1.nets = p.nets \cup parts
  BY DEF Partitioned, Sound, IsRecord, Fields
<1>4. m1.on = [t \in Terminals |->
                 IF p.on[t] = n THEN groupNet(t) ELSE p.on[t]]
  BY DEF Partitioned, Sound, IsRecord, Fields
<1>5. m1.routes = [r \in DOMAIN p.routes |->
          IF p.routes[r].net = n
          THEN [p.routes[r] EXCEPT !.net = groupNet(p.routes[r].from)]
          ELSE p.routes[r]]
  BY DEF Partitioned, Sound, IsRecord, Fields
<1> HIDE DEF m1, groupNet, parts
<1>6. \A r \in DOMAIN m1.routes :
          "net" \in DOMAIN m1.routes[r] /\ m1.routes[r].net # None
  BY <1>1, <1>5 DEF Sound
<1>7. None \notin m1.nets
  BY <1>3 DEF parts, Sound
<1>8. Sound(m1)
  BY <1>2, <1>3, <1>4, <1>6, <1>7 DEF Sound
<1>9. IsRecord(m2)
  BY <1>8 DEF retargetOwnerEvidence, Sound, IsRecord, Fields
<1>10. /\ m2.on = m1.on /\ m2.sources = m1.sources /\ m2.routes = m1.routes
       /\ m2.bound = m1.bound /\ m2.nets = m1.nets
  BY <1>8 DEF retargetOwnerEvidence, Sound, IsRecord, Fields
<1> HIDE DEF m2
<1>11. IsRecord(m3)
  BY <1>9 DEF propagateSource, IsRecord, Fields
<1>12. /\ m3.on = m2.on /\ m3.routes = m2.routes
       /\ m3.bound = m2.bound /\ m3.nets = m2.nets
       /\ m3.sources = IF n \in m2.sources THEN m2.sources \cup parts
                       ELSE m2.sources
  BY <1>9 DEF propagateSource, IsRecord, Fields
<1> HIDE DEF m3
<1>13. None \notin parts
  BY DEF parts
<1>14. Sound(m3)
  BY <1>8, <1>10, <1>11, <1>12, <1>13 DEF Sound
<1>15. Follows(p, m3, {})
  BY <1>1, <1>3, <1>4, <1>10, <1>12 DEF Follows
<1>16. IsRecord(e)
  BY <1>11 DEF retargetDefault, IsRecord, Fields
<1>17. /\ e.on = m3.on /\ e.sources = m3.sources /\ e.routes = m3.routes
       /\ e.bound = m3.bound /\ e.nets = m3.nets
  BY <1>11 DEF retargetDefault, IsRecord, Fields
<1> HIDE DEF e
<1>18. Sound(e) /\ Follows(m3, e, {})
  BY <1>14, <1>16, <1>17, Untouched DEF Sound
<1>19. Follows(p, e, {})
  BY <1>15, <1>18 DEF Follows
<1>20. e = Torn(d, p, n, idOf)
  BY DEF Torn, e, m3, m2, m1, parts
<1> QED
  BY <1>18, <1>19, <1>20

LEMMA Cutting ==
    ASSUME NEW d, Sound(d), NEW r \in DOMAIN d.routes, NEW unused,
           None \notin unused,
           Divided(CutGroups(d, r)) => CutIds(d, r, unused) # {}
    PROVE  LET e == cutConnection(d, r, unused)
           IN  Sound(e) /\ Follows(d, e, {})
<1> DEFINE n == d.routes[r].net
           p == CutPrepared(d, r)
           groups == CutGroups(d, r)
           idOf == CHOOSE idOf \in CutIds(d, r, unused) : TRUE
           e == cutConnection(d, r, unused)
<1>1. Sound(p) /\ Follows(d, p, {}) /\ n # None
  BY Preparing DEF Sound
<1> HIDE DEF p, groups, n
<1>2. CASE groups = {}
  <2>1. e = pruneDeferring(p, {n})
    BY <1>2 DEF cutConnection, Divided, p, groups, n
  <2>2. Sound(e) /\ Follows(p, e, {})
    BY <1>1, <2>1, PruningNow
  <2> QED
    BY <1>1, <2>2, Following
<1>3. CASE groups # {} /\ ~Divided(groups)
  <2>1. e = p
    BY <1>3 DEF cutConnection, p, groups
  <2> QED
    BY <1>1, <2>1
<1>4. CASE Divided(groups)
  <2>1. e = Torn(d, p, n, idOf)
    BY <1>4 DEF cutConnection, Divided, p, groups, n
  <2>2. idOf \in CutIds(d, r, unused)
    BY <1>4 DEF groups
  <2>3. idOf \in [groups -> unused \cup {n}]
    BY <2>2 DEF CutIds, GroupIds, groups, n
  <2> HIDE DEF idOf
  <2>4. \A g \in DOMAIN idOf : idOf[g] # None
    BY <1>1, <2>3
  <2>5. Sound(e) /\ Follows(p, e, {})
    BY <1>1, <2>1, <2>4, Tearing
  <2> QED
    BY <1>1, <2>5, Following
<1> QED
  BY <1>2, <1>3, <1>4 DEF p
-------------------------------------------------------------------------------
\* The invariant.

\* What the proofs need of what a transaction remembers.
Remembers(t) ==
    t = [f \in {"deferred", "protected", "licensed", "typed", "landed",
                "suppressed", "authored", "cleared", "changed"} |-> t[f]]

Traced ==
    /\ Sound(doc) /\ Sound(draft)
    /\ Remembers(tx)
    /\ Follows(doc, draft, tx.suppressed)

IInv == Traced /\ PolicyHolds(doc)

LEMMA Sounding ==
    ASSUME NEW d, IsDocument(d), WellFormed(d)
    PROVE  Sound(d)
<1>1. IsRecord(d)
  BY DEF IsDocument, IsRecord, Fields
<1>2. d.on = [t \in Terminals |-> d.on[t]] /\ d.bound \subseteq Bodies
  BY DEF IsDocument
<1>3. None \notin d.nets /\ None \notin d.sources
  BY LogicalNetsAssumption DEF IsDocument
<1>4. \A r \in DOMAIN d.routes :
          "net" \in DOMAIN d.routes[r] /\ d.routes[r].net # None
  BY LogicalNetsAssumption DEF IsDocument, PartialFunction
<1> QED
  BY <1>1, <1>2, <1>3, <1>4 DEF Sound

LEMMA InitTraced == Init => IInv
<1> SUFFICES ASSUME Init PROVE IInv
  OBVIOUS
<1>1. Sound(doc) /\ Sound(draft) /\ PolicyHolds(doc)
  BY EditTransactionAssumption, Sounding DEF Init
<1>2. Remembers(tx)
  BY DEF Init, NoTransaction, Remembers
<1>3. Follows(doc, draft, tx.suppressed)
  BY DEF Init, Follows
<1> QED
  BY <1>1, <1>2, <1>3 DEF IInv, Traced

\* A step of an edit that keeps terminals on their imported nets.
Keeps ==
    /\ Sound(draft') /\ Follows(draft, draft', {})
    /\ Remembers(tx') /\ tx'.suppressed = tx.suppressed

LEMMA Keeping ==
    ASSUME IInv, Keeps, UNCHANGED doc
    PROVE  IInv'
<1>1. Follows(doc, draft', tx'.suppressed)
  BY Following DEF IInv, Traced, Keeps
<1>2. Sound(doc') /\ PolicyHolds(doc')
  BY DEF IInv, Traced
<1> QED
  BY <1>1, <1>2 DEF IInv, Traced, Keeps

LEMMA Remembering ==
    ASSUME NEW t, Remembers(t), NEW ns
    PROVE  /\ Remembers(Changed(t)) /\ Changed(t).suppressed = t.suppressed
           /\ Remembers(Deferring(t, ns))
           /\ Deferring(t, ns).suppressed = t.suppressed
BY DEF Remembers, Changed, Deferring

LEMMA Fresh == None \notin UnusedNets /\ FreshNet \subseteq UnusedNets
BY LogicalNetsAssumption DEF UnusedNets, FreshNet

\* Every edit but the disconnection of a terminal keeps it on its net.

LEMMA CreateKeeps == ASSUME IInv, CreateBaseNet PROVE Keeps
<1> PICK n \in FreshNet : draft' = [draft EXCEPT !.nets = @ \cup {n}]
  BY DEF CreateBaseNet
<1>1. IsRecord(draft')
  BY DEF IInv, Traced, Sound, IsRecord, Fields
<1>2. /\ draft'.on = draft.on /\ draft'.sources = draft.sources
      /\ draft'.bound = draft.bound /\ draft'.routes = draft.routes
      /\ draft'.nets = draft.nets \cup {n}
  BY DEF IInv, Traced, Sound, IsRecord, Fields
<1>3. Sound(draft') /\ Follows(draft, draft', {})
  BY <1>1, <1>2, Fresh, Untouched DEF IInv, Traced, Sound
<1> QED
  BY <1>3, Remembering DEF IInv, Traced, Keeps, CreateBaseNet

LEMMA MergeKeeps == ASSUME IInv, MergeNets PROVE Keeps
<1> PICK n \in draft.nets, m \in draft.nets : draft' = mergeBaseNets(draft, n, m)
  BY DEF MergeNets
<1>1. Sound(draft') /\ Follows(draft, draft', {})
  <2>1. Sound(draft) /\ n # None
    BY DEF IInv, Traced, Sound
  <2> QED
    BY <2>1, Merging
<1> QED
  BY <1>1, Remembering DEF IInv, Traced, Keeps, MergeNets

\* e has the terminals, nets, Routes and bindings of d.
SameNets(d, e) ==
    /\ IsRecord(e)
    /\ e.on = d.on /\ e.sources = d.sources /\ e.routes = d.routes
    /\ e.bound = d.bound /\ e.nets = d.nets

LEMMA Same ==
    ASSUME NEW d, Sound(d), NEW e, SameNets(d, e)
    PROVE  Sound(e) /\ Follows(d, e, {})
BY Untouched DEF SameNets, Sound

LEMMA SamePruned ==
    ASSUME NEW d, Sound(d), NEW e, SameNets(d, e), NEW ns
    PROVE  Sound(pruneDeferring(e, ns)) /\ Follows(d, pruneDeferring(e, ns), {})
<1>1. Sound(e) /\ Follows(d, e, {})
  BY Same
<1>2. Sound(pruneDeferring(e, ns)) /\ Follows(e, pruneDeferring(e, ns), {})
  BY <1>1, PruningNow
<1> QED
  BY <1>1, <1>2, Following

LEMMA UpsertKeeps == ASSUME IInv, UpsertEvidence PROVE Keeps
<1> SUFFICES ASSUME NEW c, Upsert(c) PROVE Keeps
  BY Zenon DEF UpsertEvidence
<1> DEFINE previous == {e \in draft.claims : e.owner = c.owner}
           left == {e.net : e \in previous} \ {c.net}
           claims == (draft.claims \ previous) \cup {c}
           stated == [tx EXCEPT !.protected = @ \cup {c.owner}]
<1>1. draft' = pruneDeferring([draft EXCEPT !.claims = claims], left)
  BY DEF Upsert
<1>2. tx' = Changed(Deferring(stated, left))
  BY DEF Upsert
<1>3. Remembers(stated) /\ stated.suppressed = tx.suppressed
  BY DEF IInv, Traced, Remembers
<1>4. SameNets(draft, [draft EXCEPT !.claims = claims])
  BY DEF SameNets, IInv, Traced, Sound, IsRecord, Fields
<1> HIDE DEF claims, left, stated
<1>5. Sound(draft') /\ Follows(draft, draft', {})
  BY <1>1, <1>4, SamePruned DEF IInv, Traced
<1>6. Remembers(tx') /\ tx'.suppressed = stated.suppressed
  BY <1>2, <1>3, Remembering
<1> QED
  BY <1>3, <1>5, <1>6 DEF Keeps

LEMMA RemoveEvidenceKeeps == ASSUME IInv, RemoveEvidence PROVE Keeps
<1> PICK c \in draft.claims :
        /\ draft' = pruneDeferring([draft EXCEPT !.claims = @ \ {c}], {c.net})
        /\ tx' = Changed(Deferring(tx, {c.net}))
  BY DEF RemoveEvidence
<1>1. SameNets(draft, [draft EXCEPT !.claims = @ \ {c}])
  BY DEF SameNets, IInv, Traced, Sound, IsRecord, Fields
<1>2. Sound(draft') /\ Follows(draft, draft', {})
  BY <1>1, SamePruned DEF IInv, Traced
<1>3. Remembers(tx') /\ tx'.suppressed = tx.suppressed
  BY Remembering DEF IInv, Traced
<1> QED
  BY <1>2, <1>3 DEF Keeps

LEMMA AnnotationKeeps == ASSUME IInv, UpsertAnnotation PROVE Keeps
<1> PICK labels : draft' = [draft EXCEPT !.labels = labels]
  BY DEF UpsertAnnotation
<1>1. SameNets(draft, draft')
  BY DEF SameNets, IInv, Traced, Sound, IsRecord, Fields
<1>2. Sound(draft') /\ Follows(draft, draft', {})
  BY <1>1, Same DEF IInv, Traced
<1> QED
  BY <1>2 DEF IInv, Traced, Keeps, UpsertAnnotation

LEMMA RemoveAnnotationKeeps == ASSUME IInv, RemoveAnnotation PROVE Keeps
<1> PICK l, nets :
        /\ draft' = pruneDeferring(removeOwned(
                        [draft EXCEPT !.labels = Without(@, {l})], {l}), nets)
        /\ tx' = [Deferring(tx, nets) EXCEPT !.changed = @ \/ nets # {}]
  BY DEF RemoveAnnotation
<1> DEFINE left == [draft EXCEPT !.labels = Without(@, {l})]
           e == removeOwned(left, {l})
<1>1. IsRecord(left) /\ SameNets(draft, left)
  BY DEF SameNets, IInv, Traced, Sound, IsRecord, Fields
<1> HIDE DEF left
<1>2. SameNets(left, e)
  BY <1>1 DEF SameNets, removeOwned, IsRecord, Fields
<1> HIDE DEF e
<1>3. SameNets(draft, e)
  BY <1>1, <1>2 DEF SameNets
<1>4. Sound(draft') /\ Follows(draft, draft', {})
  BY <1>3, SamePruned DEF e, left, IInv, Traced
<1>5. Remembers(Deferring(tx, nets)) /\ Deferring(tx, nets).suppressed = tx.suppressed
  BY Remembering DEF IInv, Traced
<1>6. Remembers(tx') /\ tx'.suppressed = tx.suppressed
  BY <1>5 DEF Remembers
<1> QED
  BY <1>4, <1>6 DEF Keeps

LEMMA PlaceKeeps == ASSUME IInv, PlaceInstance \/ UnplaceInstance PROVE Keeps
<1>1. \E placed : draft' = [draft EXCEPT !.placed = placed]
  BY DEF PlaceInstance, UnplaceInstance
<1>2. SameNets(draft, draft')
  BY <1>1 DEF SameNets, IInv, Traced, Sound, IsRecord, Fields
<1>3. Remembers(tx') /\ tx'.suppressed = tx.suppressed
  BY DEF PlaceInstance, UnplaceInstance, IInv, Traced, Remembers
<1> QED
  BY <1>2, <1>3, Same DEF Keeps, IInv, Traced

LEMMA AddJunctionKeeps == ASSUME IInv, AddJunction PROVE Keeps
<1> PICK j :
        /\ \/ \E n \in draft.nets \cup FreshNet, p \in Points :
                 draft' = [draft EXCEPT !.nets = @ \cup {n},
                              !.juncs = With(@, j, [net |-> n, at |-> p])]
           \/ \E r \in DOMAIN draft.routes, second \in UnusedRoute :
                 LET route == draft.routes[r]
                     added == [draft EXCEPT !.juncs =
                                  With(@, j, [net |-> route.net,
                                              at |-> route.over])]
                 IN  /\ route.over # None
                     /\ \E moved \in SUBSET LabelsAt(draft, r) :
                           draft' = RemapLabels(
                              SplitRoute(added, r, second, j), moved, second)
        /\ tx' = Changed([tx EXCEPT !.licensed = @ \cup {j}])
  BY DEF AddJunction
<1>1. ASSUME NEW n \in draft.nets \cup FreshNet, NEW p,
             draft' = [draft EXCEPT !.nets = @ \cup {n},
                          !.juncs = With(@, j, [net |-> n, at |-> p])]
      PROVE  Sound(draft') /\ Follows(draft, draft', {})
  <2>1. IsRecord(draft')
    BY <1>1 DEF IInv, Traced, Sound, IsRecord, Fields
  <2>2. /\ draft'.on = draft.on /\ draft'.sources = draft.sources
        /\ draft'.bound = draft.bound /\ draft'.routes = draft.routes
        /\ draft'.nets = draft.nets \cup {n}
    BY <1>1 DEF IInv, Traced, Sound, IsRecord, Fields
  <2>3. None \notin draft'.nets
    BY <2>2, Fresh DEF IInv, Traced, Sound
  <2> QED
    BY <2>1, <2>2, <2>3, Untouched DEF IInv, Traced, Sound
<1>2. ASSUME NEW r \in DOMAIN draft.routes, NEW second, NEW x, NEW moved,
             draft' = RemapLabels(SplitRoute([draft EXCEPT !.juncs = x],
                                             r, second, j), moved, second)
      PROVE  Sound(draft') /\ Follows(draft, draft', {})
  <2> DEFINE added == [draft EXCEPT !.juncs = x]
             split == SplitRoute(added, r, second, j)
  <2>1. SameNets(draft, added)
    BY DEF SameNets, IInv, Traced, Sound, IsRecord, Fields
  <2> HIDE DEF added
  <2>2. Sound(added) /\ Follows(draft, added, {}) /\ r \in DOMAIN added.routes
    BY <2>1, Same DEF IInv, Traced, SameNets
  <2>3. Sound(split) /\ Follows(added, split, {})
    BY <2>2, Splitting
  <2> HIDE DEF split
  <2>4. draft' = RemapLabels(split, moved, second)
    BY <1>2 DEF split, added
  <2>5. Sound(draft') /\ Follows(split, draft', {})
    BY <2>3, <2>4, Remapping
  <2> QED
    BY <2>2, <2>3, <2>5, Following
<1>3. Sound(draft') /\ Follows(draft, draft', {})
  BY <1>1, <1>2
<1>4. Remembers(tx') /\ tx'.suppressed = tx.suppressed
  <2> DEFINE t == [tx EXCEPT !.licensed = @ \cup {j}]
  <2>1. Remembers(t) /\ t.suppressed = tx.suppressed
    BY DEF IInv, Traced, Remembers
  <2> HIDE DEF t
  <2> QED
    BY <2>1, Remembering DEF t
<1> QED
  BY <1>3, <1>4 DEF Keeps

LEMMA RemoveJunctionKeeps == ASSUME IInv, RemoveJunction PROVE Keeps
<1> PICK j, n :
        /\ draft' = pruneDeferring([draft EXCEPT !.juncs = Without(@, {j})], {n})
        /\ tx' = Changed(Deferring(tx, {n}))
  BY DEF RemoveJunction
<1>1. SameNets(draft, [draft EXCEPT !.juncs = Without(@, {j})])
  BY DEF SameNets, IInv, Traced, Sound, IsRecord, Fields
<1>2. Sound(draft') /\ Follows(draft, draft', {})
  BY <1>1, SamePruned DEF IInv, Traced
<1> QED
  BY <1>2, Remembering DEF Keeps, IInv, Traced

\* An endpoint e is put on net n, Route r is split at it, labels follow.
LEMMA Landing ==
    ASSUME NEW d, Sound(d), NEW r \in DOMAIN d.routes, NEW n, NEW x,
           x \in Terminals => d.on[x] \in {None, n},
           NEW second, NEW moved
    PROVE  LET e == RemapLabels(SplitRoute(addEndpointToNet(d, n, x),
                                           r, second, x), moved, second)
           IN  Sound(e) /\ Follows(d, e, {})
<1> DEFINE a == addEndpointToNet(d, n, x)
           b == SplitRoute(a, r, second, x)
           c == RemapLabels(b, moved, second)
<1>1. Sound(a) /\ Follows(d, a, {}) /\ a.routes = d.routes
  BY Adding
<1> HIDE DEF a
<1>2. Sound(b) /\ Follows(a, b, {})
  BY <1>1, Splitting
<1> HIDE DEF b
<1>3. Sound(c) /\ Follows(b, c, {})
  BY <1>2, Remapping
<1> HIDE DEF c
<1>4. Follows(d, c, {})
  BY <1>1, <1>2, <1>3, Following
<1> QED
  BY <1>3, <1>4 DEF a, b, c

LEMMA AttachKeeps == ASSUME IInv, AttachEndpointToRoute PROVE Keeps
<1> PICK r \in DOMAIN draft.routes, second \in UnusedRoute,
         e \in Terminals \cup DOMAIN draft.juncs :
        LET route == draft.routes[r]
        IN  /\ Owner(draft, e) \in {None, route.net}
            /\ route.over # None /\ PointOf(draft, e) = route.over
            /\ e \notin EndsOf(route)
            /\ \E moved \in SUBSET LabelsAt(draft, r) :
                  draft' = RemapLabels(SplitRoute(
                      addEndpointToNet(draft, route.net, e), r, second, e),
                      moved, second)
            /\ tx' = Changed([tx EXCEPT
                  !.licensed = @ \cup {e},
                  !.typed = @ \cup ({r, second} \X {route.over})])
  BY DEF AttachEndpointToRoute
<1> DEFINE t == [tx EXCEPT !.licensed = @ \cup {e},
                           !.typed = @ \cup ({r, second} \X {draft.routes[r].over})]
<1> DEFINE n == draft.routes[r].net
<1>1. e \in Terminals => draft.on[e] \in {None, n}
  BY DEF Owner
<1> PICK moved : draft' = RemapLabels(SplitRoute(
                     addEndpointToNet(draft, n, e), r, second, e), moved, second)
  OBVIOUS
<1> HIDE DEF n
<1>2. Sound(draft') /\ Follows(draft, draft', {})
  BY <1>1, Landing DEF IInv, Traced
<1>3. Remembers(t) /\ t.suppressed = tx.suppressed
  BY DEF IInv, Traced, Remembers
<1>4. tx' = Changed(t)
  OBVIOUS
<1> HIDE DEF t
<1> QED
  BY <1>2, <1>3, <1>4, Remembering DEF Keeps

\* Two endpoints are put on net n, which may be new.
LEMMA Joining ==
    ASSUME NEW d, Sound(d), NEW n, n # None, NEW x, NEW y,
           x \in Terminals => d.on[x] \in {None, n},
           y \in Terminals => d.on[y] \in {None, n}
    PROVE  LET e == addEndpointToNet(addEndpointToNet(
                       [d EXCEPT !.nets = @ \cup {n}], n, x), n, y)
           IN  Sound(e) /\ Follows(d, e, {})
<1> DEFINE a == [d EXCEPT !.nets = @ \cup {n}]
           b == addEndpointToNet(a, n, x)
           c == addEndpointToNet(b, n, y)
<1>1. IsRecord(a)
  BY DEF Sound, IsRecord, Fields
<1>2. /\ a.on = d.on /\ a.sources = d.sources /\ a.routes = d.routes
      /\ a.bound = d.bound /\ a.nets = d.nets \cup {n}
  BY DEF Sound, IsRecord, Fields
<1> HIDE DEF a
<1>3. Sound(a) /\ Follows(d, a, {})
  BY <1>1, <1>2, Untouched DEF Sound
<1>4. /\ Sound(b) /\ Follows(a, b, {})
      /\ \A t \in Terminals : b.on[t] \in {a.on[t], n}
  BY <1>2, <1>3, Adding
<1> HIDE DEF b
<1>5. y \in Terminals => b.on[y] \in {None, n}
  BY <1>2, <1>4
<1>6. Sound(c) /\ Follows(b, c, {})
  BY <1>4, <1>5, Adding
<1> HIDE DEF c
<1>7. Follows(d, c, {})
  BY <1>3, <1>4, <1>6, Following
<1> QED
  BY <1>6, <1>7 DEF a, b, c

LEMMA ConnectKeeps == ASSUME IInv, ConnectEndpoints PROVE Keeps
<1> PICK e, f, n :
        LET owners == {Owner(draft, e), Owner(draft, f)} \ {None}
        IN  /\ n \in IF owners = {} THEN FreshNet \cup PreparedNets ELSE owners
            /\ owners \subseteq {n}
            /\ draft' = addEndpointToNet(addEndpointToNet(
                  [draft EXCEPT !.nets = @ \cup {n}], n, e), n, f)
  BY DEF ConnectEndpoints
<1>1. n # None
  BY Fresh DEF PreparedNets, IInv, Traced, Sound
<1>2. /\ e \in Terminals => draft.on[e] \in {None, n}
      /\ f \in Terminals => draft.on[f] \in {None, n}
  BY DEF Owner
<1>3. Sound(draft') /\ Follows(draft, draft', {})
  <2>1. draft' = addEndpointToNet(addEndpointToNet(
            [draft EXCEPT !.nets = @ \cup {n}], n, e), n, f)
    OBVIOUS
  <2> QED
    BY <1>1, <1>2, <2>1, Joining DEF IInv, Traced
<1> QED
  BY <1>3, Remembering DEF Keeps, IInv, Traced, ConnectEndpoints

\* Only the terminal that is disconnected is let go.
LEMMA DisconnectStep == ASSUME IInv, DisconnectEndpoint, UNCHANGED doc PROVE IInv'
<1> PICK t, n :
        /\ t \in Terminals
        /\ draft' = pruneDeferring(
              [draft EXCEPT !.on[t] = None, !.bound = @ \ {t}], {n})
        /\ tx' = Changed(Deferring(
              [tx EXCEPT !.suppressed = @ \cup {t}], {n}))
  BY DEF DisconnectEndpoint
<1> DEFINE e == [draft EXCEPT !.on[t] = None, !.bound = @ \ {t}]
           m == [tx EXCEPT !.suppressed = @ \cup {t}]
<1>1. IsRecord(e)
  BY DEF IInv, Traced, Sound, IsRecord, Fields
<1>2. /\ e.on = [draft.on EXCEPT ![t] = None]
      /\ e.sources = draft.sources /\ e.routes = draft.routes
      /\ e.bound = draft.bound \ {t} /\ e.nets = draft.nets
  BY DEF IInv, Traced, Sound, IsRecord, Fields
<1>3. Remembers(m) /\ m.suppressed = tx.suppressed \cup {t}
  BY DEF IInv, Traced, Remembers
<1>4. tx' = Changed(Deferring(m, {n})) /\ draft' = pruneDeferring(e, {n})
  OBVIOUS
<1> HIDE DEF e, m
<1>5. e.on = [u \in Terminals |-> IF u = t THEN None ELSE draft.on[u]]
  BY <1>2 DEF IInv, Traced, Sound
<1>6. Sound(e)
  BY <1>1, <1>2, <1>5 DEF IInv, Traced, Sound
<1>7. Follows(doc, e, m.suppressed)
  BY <1>2, <1>3, <1>5 DEF IInv, Traced, Follows
<1>8. Sound(draft') /\ Follows(e, draft', {})
  BY <1>4, <1>6, PruningNow
<1>9. Remembers(tx') /\ tx'.suppressed = m.suppressed
  BY <1>3, <1>4, Remembering
<1>10. Follows(doc, draft', tx'.suppressed)
  BY <1>7, <1>8, <1>9, Following
<1> QED
  BY <1>8, <1>9, <1>10 DEF IInv, Traced

LEMMA SetRoutePathKeeps == ASSUME IInv, SetRoutePath PROVE Keeps
<1>1. PICK r, route : /\ "net" \in DOMAIN route /\ route.net # None
                      /\ draft' = [draft EXCEPT !.routes = With(@, r, route)]
  <2>1. PICK r \in UnusedRoute \cup DOMAIN draft.routes, over \in Points \cup {None},
             e \in Terminals \cup DOMAIN draft.juncs,
             f \in Terminals \cup DOMAIN draft.juncs :
           /\ Owner(draft, e) # None
           /\ draft' = [draft EXCEPT !.routes =
                 With(@, r, RouteBetween(r, e, f, over))]
    BY Zenon DEF SetRoutePath
  <2>2. /\ "net" \in DOMAIN RouteBetween(r, e, f, over)
        /\ RouteBetween(r, e, f, over).net # None
    BY <2>1 DEF RouteBetween
  <2> QED
    BY <2>1, <2>2
<1>2. IsRecord(draft')
  BY <1>1 DEF IInv, Traced, Sound, IsRecord, Fields
<1>3. /\ draft'.on = draft.on /\ draft'.sources = draft.sources
      /\ draft'.bound = draft.bound /\ draft'.nets = draft.nets
      /\ draft'.routes = With(draft.routes, r, route)
  BY <1>1 DEF IInv, Traced, Sound, IsRecord, Fields
<1>5. \A q \in DOMAIN draft'.routes :
          "net" \in DOMAIN draft'.routes[q] /\ draft'.routes[q].net # None
  BY <1>1, <1>3 DEF IInv, Traced, Sound, With
<1>6. Sound(draft') /\ Follows(draft, draft', {})
  BY <1>2, <1>3, <1>5, Untouched DEF IInv, Traced, Sound
<1>4. Remembers(tx') /\ tx'.suppressed = tx.suppressed
  BY DEF SetRoutePath, IInv, Traced, Remembers
<1> QED
  BY <1>4, <1>6 DEF Keeps

LEMMA RemoveRouteKeeps == ASSUME IInv, RemoveRouteGeometry PROVE Keeps
<1> PICK r, n :
        /\ draft' = pruneDeferring([draft EXCEPT !.routes = Without(@, {r})], {n})
        /\ tx' = [Deferring(tx, {n}) EXCEPT !.authored = @ \cup {r}]
  BY DEF RemoveRouteGeometry
<1> DEFINE e == [draft EXCEPT !.routes = Without(@, {r})]
<1>1. IsRecord(e)
  BY DEF IInv, Traced, Sound, IsRecord, Fields
<1>2. /\ e.on = draft.on /\ e.sources = draft.sources
      /\ e.bound = draft.bound /\ e.nets = draft.nets
      /\ e.routes = Without(draft.routes, {r})
  BY DEF IInv, Traced, Sound, IsRecord, Fields
<1>3. draft' = pruneDeferring(e, {n})
  OBVIOUS
<1> HIDE DEF e
<1>4. \A q \in DOMAIN e.routes :
          "net" \in DOMAIN e.routes[q] /\ e.routes[q].net # None
  BY <1>2 DEF IInv, Traced, Sound, Without
<1>5. Sound(e) /\ Follows(draft, e, {})
  BY <1>1, <1>2, <1>4, Untouched DEF IInv, Traced, Sound
<1>6. Sound(draft') /\ Follows(draft, draft', {})
  BY <1>3, <1>5, PruningNow, Following
<1>7. Remembers(Deferring(tx, {n})) /\ Deferring(tx, {n}).suppressed = tx.suppressed
  BY Remembering DEF IInv, Traced
<1>8. Remembers(tx') /\ tx'.suppressed = tx.suppressed
  BY <1>7 DEF Remembers
<1> QED
  BY <1>6, <1>8 DEF Keeps

LEMMA CutKeeps == ASSUME IInv, CutConnection PROVE Keeps
<1> PICK r \in DOMAIN draft.routes : Cut(r)
  BY DEF CutConnection
<1>1. /\ Divided(CutGroups(draft, r)) => CutIds(draft, r, UnusedNets) # {}
      /\ draft' = cutConnection(draft, r, UnusedNets)
  BY DEF Cut
<1>2. Sound(draft') /\ Follows(draft, draft', {})
  BY <1>1, Fresh, Cutting DEF IInv, Traced
<1>3. \/ tx' = tx \/ tx' = Changed(tx)
      \/ tx' = Changed(Deferring(tx, {draft.routes[r].net}))
  BY DEF Cut
<1>4. Remembers(tx') /\ tx'.suppressed = tx.suppressed
  BY <1>3, Remembering DEF IInv, Traced
<1> QED
  BY <1>2, <1>4 DEF Keeps

LEMMA DefaultKeeps == ASSUME IInv, SetMosBulkDefaults PROVE Keeps
<1> PICK n : draft' = [draft EXCEPT !.default = n]
  BY DEF SetMosBulkDefaults
<1>1. SameNets(draft, draft')
  BY DEF SameNets, IInv, Traced, Sound, IsRecord, Fields
<1> QED
  BY <1>1, Same, Remembering DEF IInv, Traced, Keeps, SetMosBulkDefaults

LEMMA ReconcileKeeps == ASSUME IInv, ReconcileMosBulk PROVE Keeps
<1> DEFINE bound == reconcileMosBulk(draft)
           left == LeftByBodies(draft, bound)
           t == Deferring(tx, left)
<1>1. draft' = pruneDeferring(bound, left)
  BY DEF ReconcileMosBulk
<1>2. tx' = [t EXCEPT !.changed =
                @ \/ bound.on # draft.on \/ draft.bound \ bound.bound # {}]
  BY DEF ReconcileMosBulk
<1>3. Sound(bound) /\ Follows(draft, bound, {})
  BY Reconciling DEF IInv, Traced
<1> HIDE DEF bound, left
<1>4. Sound(draft') /\ Follows(draft, draft', {})
  BY <1>1, <1>3, PruningNow, Following
<1>5. Remembers(t) /\ t.suppressed = tx.suppressed
  BY Remembering DEF IInv, Traced
<1> HIDE DEF t
<1>6. Remembers(tx') /\ tx'.suppressed = tx.suppressed
  BY <1>2, <1>5 DEF Remembers
<1> QED
  BY <1>4, <1>6 DEF Keeps

LEMMA ClearKeeps == ASSUME IInv, ClearMosBulkDefault PROVE Keeps
<1> PICK b \in draft.bound :
        draft' = [draft EXCEPT !.on[b] = None, !.bound = @ \ {b}]
  BY DEF ClearMosBulkDefault
<1>1. IsRecord(draft')
  BY DEF IInv, Traced, Sound, IsRecord, Fields
<1>2. /\ draft'.on = [draft.on EXCEPT ![b] = None]
      /\ draft'.sources = draft.sources /\ draft'.routes = draft.routes
      /\ draft'.bound = draft.bound \ {b} /\ draft'.nets = draft.nets
  BY DEF IInv, Traced, Sound, IsRecord, Fields
<1>3. b \in Bodies
  BY DEF IInv, Traced, Sound
<1>4. draft'.on = [t \in Terminals |-> IF t = b THEN None ELSE draft.on[t]]
  BY <1>2 DEF IInv, Traced, Sound
<1>5. Sound(draft')
  BY <1>1, <1>2, <1>4 DEF IInv, Traced, Sound
<1>6. Follows(draft, draft', {})
  BY <1>2, <1>3, <1>4 DEF Follows
<1>7. Remembers(tx') /\ tx'.suppressed = tx.suppressed
  BY DEF ClearMosBulkDefault, IInv, Traced, Remembers, Changed
<1> QED
  BY <1>5, <1>6, <1>7 DEF Keeps

-------------------------------------------------------------------------------
\* Contacts.

LEMMA Bonding ==
    ASSUME NEW d, Sound(d), NEW n, NEW m, {n, m} # {None}
    PROVE  LET e == Bonded(d, n, m)
               k == BondedNet(d, n, m)
           IN  /\ Sound(e) /\ Follows(d, e, {}) /\ k # None
               /\ \A t \in Terminals : d.on[t] \in {n, m} => e.on[t] \in {None, k}
               /\ DOMAIN e.routes = DOMAIN d.routes
               /\ m # None => \A r \in DOMAIN d.routes :
                                d.routes[r].net = m => e.routes[r].net = k
<1>1. CASE n = None \/ m = None \/ n = m
  BY <1>1 DEF Bonded, BondedNet, Follows
<1>2. CASE ~(n = None \/ m = None \/ n = m)
  <2> DEFINE k == preferredPhysicalMergeTarget(d, n, m)
             o == IF k = n THEN m ELSE n
             e == mergeBaseNets(d, k, o)
  <2>1. Bonded(d, n, m) = e /\ BondedNet(d, n, m) = k
    BY <1>2 DEF Bonded, BondedNet
  <2>2. k \in {n, m} /\ {k, o} = {n, m} /\ k # None
    BY <1>2 DEF preferredPhysicalMergeTarget
  <2> HIDE DEF k, o
  <2>3. /\ Sound(e) /\ Follows(d, e, {})
        /\ \A t \in Terminals : e.on[t] = Retargeted(d.on[t], o, k)
        /\ DOMAIN e.routes = DOMAIN d.routes
        /\ \A r \in DOMAIN d.routes :
              e.routes[r].net = Retargeted(d.routes[r].net, o, k)
    <3>1. Sound(e) /\ Follows(d, e, {}) /\ DOMAIN e.routes = DOMAIN d.routes
      BY <2>2, Merging
    <3>2. \A t \in Terminals : e.on[t] = Retargeted(d.on[t], o, k)
      BY DEF mergeBaseNets, Sound, IsRecord, Fields
    <3>3. \A r \in DOMAIN d.routes :
              e.routes[r].net = Retargeted(d.routes[r].net, o, k)
      BY DEF mergeBaseNets, Sound, IsRecord, Fields
    <3> QED
      BY <3>1, <3>2, <3>3
  <2> HIDE DEF e
  <2> QED
    BY <2>1, <2>2, <2>3 DEF Retargeted
<1> QED
  BY <1>1, <1>2

LEMMA JoinKeeps == ASSUME IInv, JoinContact PROVE Keeps
<1> PICK pair \in Joinable :
        LET e == pair[1]
            f == pair[2]
            n == Owner(draft, e)
            m == Owner(draft, f)
        IN  /\ MayBond(draft, n, m)
            /\ \E k \in IF {n, m} = {None} THEN FreshNet
                        ELSE {BondedNet(draft, n, m)} :
                  draft' = addEndpointToNet(addEndpointToNet(
                      [Bonded(draft, n, m) EXCEPT !.nets = @ \cup {k}],
                      k, e), k, f)
  BY DEF JoinContact
<1> DEFINE e == pair[1]
           f == pair[2]
           n == Owner(draft, e)
           m == Owner(draft, f)
           d == Bonded(draft, n, m)
<1> PICK k : /\ k \in IF {n, m} = {None} THEN FreshNet
                       ELSE {BondedNet(draft, n, m)}
             /\ draft' = addEndpointToNet(addEndpointToNet(
                    [d EXCEPT !.nets = @ \cup {k}], k, e), k, f)
  OBVIOUS
<1>1. /\ e \in Terminals => draft.on[e] = n
      /\ f \in Terminals => draft.on[f] = m
  BY DEF Owner
<1> HIDE DEF e, f, n, m
<1>2. /\ Sound(d) /\ Follows(draft, d, {}) /\ k # None
      /\ e \in Terminals => d.on[e] \in {None, k}
      /\ f \in Terminals => d.on[f] \in {None, k}
  <2>1. CASE {n, m} = {None}
    <3>1. d = draft /\ n = None /\ m = None
      BY <2>1 DEF Bonded
    <3> QED
      BY <1>1, <2>1, <3>1, Fresh DEF IInv, Traced, Follows
  <2>2. CASE {n, m} # {None}
    BY <1>1, <2>2, Bonding DEF IInv, Traced
  <2> QED
    BY <2>1, <2>2
<1> HIDE DEF d
<1>3. Sound(draft') /\ Follows(d, draft', {})
  BY <1>2, Joining
<1>4. Follows(draft, draft', {})
  BY <1>2, <1>3, Following
<1> QED
  BY <1>3, <1>4, Remembering DEF IInv, Traced, Keeps, JoinContact

LEMMA AttachContactKeeps == ASSUME IInv, AttachContact PROVE Keeps
<1> PICK pair \in Attachable, second \in UnusedRoute :
        LET e == pair[1]
            r == pair[2]
            n == Owner(draft, e)
            m == draft.routes[r].net
            bonded == Bonded(draft, n, m)
        IN  /\ MayBond(draft, n, m)
            /\ \E moved \in SUBSET LabelsAt(draft, r) :
                  draft' = RemapLabels(SplitRoute(
                      addEndpointToNet(bonded, bonded.routes[r].net, e),
                      r, second, e), moved, second)
            /\ tx' = Changed([tx EXCEPT !.typed = Handed(@, r, second),
                                        !.landed = Handed(@, r, second)])
  BY DEF AttachContact
<1> DEFINE e == pair[1]
           r == pair[2]
           n == Owner(draft, e)
           m == draft.routes[r].net
           k == BondedNet(draft, n, m)
           d == Bonded(draft, n, m)
           t == [tx EXCEPT !.typed = Handed(@, r, second),
                           !.landed = Handed(@, r, second)]
<1> PICK moved : draft' = RemapLabels(SplitRoute(
                     addEndpointToNet(d, d.routes[r].net, e),
                     r, second, e), moved, second)
  OBVIOUS
<1>1. r \in DOMAIN draft.routes
  BY DEF Attachable
<1>2. m # None
  BY <1>1 DEF IInv, Traced, Sound
<1>3. e \in Terminals => draft.on[e] = n
  BY DEF Owner
<1>4. Remembers(t) /\ t.suppressed = tx.suppressed
  BY DEF IInv, Traced, Remembers
<1>5. tx' = Changed(t)
  OBVIOUS
<1>6. draft.routes[r].net = m
  OBVIOUS
<1> HIDE DEF e, r, n, m, t
<1>7. /\ Sound(d) /\ Follows(draft, d, {})
      /\ e \in Terminals => d.on[e] \in {None, k}
      /\ r \in DOMAIN d.routes /\ d.routes[r].net = k
  BY <1>1, <1>2, <1>3, <1>6, Bonding DEF IInv, Traced
<1> HIDE DEF d, k
<1>8. Sound(draft') /\ Follows(d, draft', {})
  BY <1>7, Landing
<1>9. Follows(draft, draft', {})
  BY <1>7, <1>8, Following
<1> QED
  BY <1>4, <1>5, <1>8, <1>9, Remembering DEF Keeps

-------------------------------------------------------------------------------
\* The end of a transaction: provenance and the body policy.

LEMMA ApplyStep ==
    ASSUME IInv, Apply
    PROVE  IInv' /\ Follows(doc, doc', tx.suppressed)
<1> DEFINE e == Normalized
<1> PICK status : doc' = [e EXCEPT !.status = status]
  BY DEF Apply
<1>1. Sound(e) /\ Follows(draft, e, {}) /\ PolicyHolds(e)
  BY Normalizing DEF IInv, Traced
<1> HIDE DEF e
<1>2. /\ IsRecord(doc') /\ doc'.on = e.on /\ doc'.bound = e.bound
      /\ doc'.routes = e.routes /\ doc'.default = e.default
      /\ doc'.sources = e.sources /\ doc'.nets = e.nets
  BY <1>1 DEF Sound, IsRecord, Fields
<1>3. Sound(doc') /\ Follows(e, doc', {})
  BY <1>1, <1>2, Untouched DEF Sound
<1>4. Follows(doc, doc', tx.suppressed)
  BY <1>1, <1>3, Following DEF IInv, Traced
<1>5. PolicyHolds(doc')
  BY <1>1, <1>2, Drawing DEF PolicyHolds
<1>6. draft' = doc' /\ tx' = NoTransaction
  BY DEF Apply, Idle
<1>7. Remembers(tx') /\ Follows(doc', draft', tx'.suppressed)
  BY <1>6 DEF Remembers, NoTransaction, Follows
<1> QED
  BY <1>3, <1>4, <1>5, <1>6, <1>7 DEF IInv, Traced

LEMMA RejectStep == ASSUME IInv, RejectTransaction PROVE IInv'
<1>1. draft' = doc /\ doc' = doc /\ tx' = NoTransaction
  BY DEF RejectTransaction, Idle
<1>2. Remembers(tx') /\ Follows(doc', draft', tx'.suppressed)
  BY <1>1 DEF Remembers, NoTransaction, Follows
<1> QED
  BY <1>1, <1>2 DEF IInv, Traced, PolicyHolds, hasExplicitMosBulkRoute, RoutesAt

LEMMA FinishKeeps == ASSUME IInv, FinishEdits PROVE Keeps
<1>1. draft' = draft /\ Remembers(tx') /\ tx'.suppressed = tx.suppressed
  BY DEF IInv, Traced, FinishEdits, Remembers
<1> QED
  BY <1>1 DEF IInv, Traced, Keeps, Follows

LEMMA EditStep == ASSUME IInv, Edit PROVE IInv' /\ UNCHANGED doc
<1>0. ASSUME UpsertEvidence PROVE UNCHANGED doc
  <2>1. \A c : Upsert(c) => UNCHANGED doc
    BY DEF Upsert, Editing
  <2> QED
    BY <1>0, <2>1, Zenon DEF UpsertEvidence
<1>1. UNCHANGED doc
  BY <1>0 DEF Edit, Editing, CreateBaseNet, MergeNets, RemoveEvidence, UpsertAnnotation, RemoveAnnotation, PlaceInstance,
         UnplaceInstance, AddJunction, RemoveJunction, AttachEndpointToRoute,
         ConnectEndpoints, DisconnectEndpoint, SetRoutePath,
         RemoveRouteGeometry, CutConnection, Cut, SetMosBulkDefaults,
         ReconcileMosBulk, ClearMosBulkDefault
<1>2. CASE DisconnectEndpoint
  BY <1>1, <1>2, DisconnectStep
<1>3. ASSUME Keeps PROVE IInv'
  BY <1>1, <1>3, Keeping
<1> QED
  BY <1>1, <1>2, <1>3, CreateKeeps, MergeKeeps, UpsertKeeps, RemoveEvidenceKeeps,
     AnnotationKeeps, RemoveAnnotationKeeps, PlaceKeeps, AddJunctionKeeps,
     RemoveJunctionKeeps, AttachKeeps, ConnectKeeps, SetRoutePathKeeps,
     RemoveRouteKeeps, CutKeeps, DefaultKeeps, ReconcileKeeps, ClearKeeps
     DEF Edit

LEMMA NextStep ==
    ASSUME IInv, [Next]_vars
    PROVE  /\ IInv'
           /\ Committed => Apply
<1>1. CASE Edit
  BY <1>1, EditStep DEF Committed
<1>2. CASE FinishEdits \/ JoinContact \/ AttachContact
  <2>1. UNCHANGED doc
    BY <1>2 DEF FinishEdits, JoinContact, AttachContact
  <2>2. Keeps
    BY <1>2, FinishKeeps, JoinKeeps, AttachContactKeeps
  <2> QED
    BY <2>1, <2>2, Keeping DEF Committed
<1>3. CASE Apply
  BY <1>3, ApplyStep
<1>4. CASE RejectTransaction
  <2>1. UNCHANGED doc
    BY <1>4 DEF RejectTransaction
  <2> QED
    BY <1>4, <2>1, RejectStep DEF Committed
<1>5. CASE UNCHANGED vars
  BY <1>5 DEF vars, IInv, Traced, PolicyHolds, hasExplicitMosBulkRoute, RoutesAt,
     Committed
<1> QED
  BY <1>1, <1>2, <1>3, <1>4, <1>5 DEF Next, Execute

\* The shape of the Document and of the draft, the traces of imported nets
\* and the body policy survive every step of executeTransaction.
THEOREM Invariance == Spec => []IInv
<1>1. IInv /\ [Next]_vars => IInv'
  BY NextStep
<1> QED
  BY InitTraced, <1>1, PTL DEF Spec

\* Whatever the edits did to nets, Routes and the bulk default, bodies that
\* policy binds are on the default when the transaction ends, and none of
\* them was drawn by hand (reconcileMaterializedMosBulkBindings).
THEOREM PolicyIsKept == Spec => []BoundBodiesFollowTheDefault
<1>1. IInv => BoundBodiesFollowTheDefault
  BY DEF IInv, BoundBodiesFollowTheDefault
<1> QED
  BY Invariance, <1>1, PTL

\* No sequence of merges, cuts, splits, contacts and removals makes a terminal
\* forget that it was imported, unless it was disconnected.
THEOREM ProvenanceIsKept == Spec => ProvenanceFollowsTerminals
<1> DEFINE Kept ==
        Committed => \A t \in Terminals \ Bodies :
            /\ doc.on[t] \in doc.sources
            /\ t \notin tx.suppressed
            => doc'.on[t] \in doc'.sources
<1>1. IInv /\ [Next]_vars => [Kept]_vars
  BY NextStep, ApplyStep DEF Follows
<1> QED
  BY Invariance, <1>1, PTL DEF Spec, ProvenanceFollowsTerminals

-------------------------------------------------------------------------------
\* The end of a transaction: whole Documents; and what a cut divides.

\* The Document that a transaction leaves, retired nets aside.
LEMMA NormalizedWhole ==
    ASSUME Whole(draft)
    PROVE  LET bound == reconcileBindings(revokeSupplyDefault(doc, draft))
               gone == bound.nets \ Normalized.nets
           IN  /\ Whole(Normalized)
               /\ Whole(bound) /\ Only(draft, bound, {"on", "bound", "default"})
               /\ ~LostSupply(doc, draft) => Only(draft, bound, {"on", "bound"})
               /\ StayPut(draft, bound, Bodies)
               /\ Only(bound, Normalized, {"nets", "claims", "sources", "default"})
               /\ Normalized.claims = {c \in bound.claims : c.net \notin gone}
               /\ \A n \in gone : Unowned(bound, n)
               /\ Normalized.nets = bound.nets \ gone
               /\ gone = {n \in (tx.deferred \cup LeftByBodies(draft, bound)) \cap bound.nets :
                            /\ Unowned(bound, n)
                            /\ \A c \in ClaimsOn(bound, {n}) : c.owner \notin tx.protected}
<1> DEFINE revoked == revokeSupplyDefault(doc, draft)
           bound == reconcileBindings(revoked)
           ns == tx.deferred \cup LeftByBodies(draft, bound)
           left == {n \in ns \cap bound.nets :
                      /\ Unowned(bound, n)
                      /\ \A c \in ClaimsOn(bound, {n}) : c.owner \notin tx.protected}
           e == Retired(bound, left)
<1>1. /\ Whole(revoked) /\ Only(draft, revoked, {"on", "bound", "default"})
      /\ ~LostSupply(doc, draft) => revoked = draft
      /\ StayPut(draft, revoked, Bodies)
  BY RevokedWhole
<1> HIDE DEF revoked
<1>2. /\ Whole(bound) /\ Only(revoked, bound, {"on", "bound"})
      /\ StayPut(revoked, bound, Bodies)
  BY <1>1, BoundWhole
<1> HIDE DEF bound
<1>3. /\ Only(draft, bound, {"on", "bound", "default"})
      /\ ~LostSupply(doc, draft) => Only(draft, bound, {"on", "bound"})
  BY <1>1, <1>2 DEF Only, Fields
<1>4. left \subseteq bound.nets /\ \A n \in left : Unowned(bound, n)
  OBVIOUS
<1>5. Normalized = e
  BY DEF Normalized, pruneDeferred, bound, revoked
<1>6. left = {n \in ns \cap bound.nets :
                      /\ Unowned(bound, n)
                      /\ \A c \in ClaimsOn(bound, {n}) : c.owner \notin tx.protected}
  OBVIOUS
<1> HIDE DEF left
<1>7. /\ Whole(e)
      /\ Only(bound, e, {"nets", "claims", "sources", "default"})
      /\ e.nets = bound.nets \ left
      /\ e.claims = {c \in bound.claims : c.net \notin left}
  BY <1>2, <1>4, RetiredWhole
<1>8. bound.nets \ e.nets = left
  BY <1>4, <1>7
<1>9. StayPut(draft, bound, Bodies)
  BY <1>1, <1>2 DEF StayPut
<1> QED
  BY <1>2, <1>3, <1>4, <1>5, <1>6, <1>7, <1>8, <1>9 DEF bound, revoked

\* What a transaction remembers of nets only grows.
Builds(t, u) ==
    Remembers(u) /\ t.deferred \subseteq u.deferred /\ t.cleared \subseteq u.cleared

LEMMA Deferrals ==
    ASSUME NEW t, Remembers(t), NEW ns
    PROVE  /\ Builds(t, t) /\ Builds(t, Changed(t))
           /\ Builds(t, Deferring(t, ns)) /\ Builds(t, Changed(Deferring(t, ns)))
           /\ ns \ {None} \subseteq Deferring(t, ns).deferred
           /\ ns \ {None} \subseteq Changed(Deferring(t, ns)).deferred
BY DEF Remembers, Builds, Changed, Deferring

\* A Cut leaves a good draft, and puts endpoints on one net by their groups.
LEMMA CutGood ==
    ASSUME Whole(draft), JunctionsJoin(draft), Remembers(tx),
           NEW r \in DOMAIN draft.routes, Cut(r)
    PROVE  LET n == draft.routes[r].net
               p == CutPrepared(draft, r)
           IN  /\ Good(draft, draft', tx'.deferred) /\ JunctionsJoin(draft')
               /\ draft'.nets \subseteq draft.nets \cup UnusedNets
               /\ Builds(tx, tx')
               /\ Whole(p)
               /\ \A x, y \in netEndpoints(p, n) :
                    Owner(draft', x) = Owner(draft', y) <=> Group(p, n, x) = Group(p, n, y)
<1> DEFINE n == draft.routes[r].net
           p == CutPrepared(draft, r)
           groups == CutGroups(draft, r)
           idOf == CHOOSE idOf \in CutIds(draft, r, UnusedNets) : TRUE
<1>1. /\ LabelsAt(draft, r) = {}
      /\ Divided(groups) => /\ CutIds(draft, r, UnusedNets) # {}
                            /\ \A s \in RoutesOf(p, n) : EndsOf(p.routes[s]) \subseteq UNION groups
      /\ draft' = CASE groups = {} -> pruneDeferring(p, {n})
                    [] Divided(groups) -> Torn(draft, p, n, idOf)
                    [] OTHER -> p
  BY DEF Cut, cutConnection
<1>2. tx' = CASE groups = {} -> Changed(Deferring(tx, {n}))
              [] Divided(groups) -> Changed(tx)
              [] OTHER -> tx
  BY DEF Cut
<1>3. /\ Good(draft, p, {n}) /\ JunctionsJoin(p)
      /\ Only(draft, p, {"claims", "routes", "juncs"})
  BY <1>1, PreparedGood
<1>4. groups = netEndpointGroups(p, n)
  BY DEF CutGroups
<1>5. n \in draft.nets /\ p.nets = draft.nets /\ Whole(p) /\ n # None /\ n \in NetIds
  BY <1>3, ByFields, LogicalNetsAssumption DEF Only, Fields, Whole, Housed, Good, Fielded
<1>6. Builds(tx, tx')
  BY <1>2, Deferrals
<1>7. /\ groups = {Group(p, n, x) : x \in netEndpoints(p, n)}
      /\ \A x \in netEndpoints(p, n) : x \in Group(p, n, x)
  BY <1>4, <1>5, Groups
<1>8. Divided(groups) <=> groups # {} /\ Cardinality(groups) # 1
  BY DEF Divided
<1>9. CASE groups = {}
  <2>1. draft' = pruneDeferring(p, {n}) /\ tx' = Changed(Deferring(tx, {n}))
    BY <1>1, <1>2, <1>8, <1>9
  <2>2. /\ Good(p, draft', {}) /\ draft'.nets \subseteq p.nets
        /\ Only(p, draft', {"nets", "claims", "sources", "default"})
    BY <1>5, <2>1, PruneGood, PrunedWhole
  <2>3. Good(draft, draft', {n} \cup {})
    BY <1>3, <1>5, <2>2, GoodThenGood
  <2>4. n \in tx'.deferred
    BY <1>5, <2>1, Deferrals
  <2>5. Good(draft, draft', tx'.deferred)
    BY <2>3, <2>4 DEF Good, StillPeopled
  <2>6. JunctionsJoin(draft')
    BY <1>3, <2>2 DEF JunctionsJoin, Only, Fields
  <2>7. netEndpoints(p, n) = {}
    BY <1>7, <1>9
  <2> QED
    BY <1>5, <1>6, <2>2, <2>5, <2>6, <2>7
<1>10. CASE Divided(groups)
  <2>1. draft' = Torn(draft, p, n, idOf)
    BY <1>1, <1>8, <1>10
  <2>2. groups # {} /\ CutIds(draft, r, UnusedNets) # {}
    BY <1>1, <1>8, <1>10
  <2>3. /\ DOMAIN idOf = groups
        /\ \A g \in DOMAIN idOf : idOf[g] \in UnusedNets \cup {n}
        /\ \A g, h \in DOMAIN idOf : idOf[g] = idOf[h] => g = h
        /\ PrimaryGroup(groups, draft.routes[r]) \in DOMAIN idOf
        /\ idOf[PrimaryGroup(groups, draft.routes[r])] = n
    BY <2>2, Choosing
  <2>4. \A g \in DOMAIN idOf : idOf[g] \in NetIds
    BY <1>5, <2>3 DEF UnusedNets
  <2>5. \A s \in RoutesOf(p, n) : EndsOf(p.routes[s]) \subseteq UNION netEndpointGroups(p, n)
    BY <1>1, <1>4, <1>10
  <2>6. DOMAIN idOf = netEndpointGroups(p, n)
    BY <1>4, <2>3
  <2> DEFINE primary == PrimaryGroup(groups, draft.routes[r])
  <2>7. primary \in DOMAIN idOf /\ idOf[primary] = n
    BY <2>3
  <2> HIDE DEF idOf, primary, groups, n, p
  <2>8. /\ Good(p, draft', {}) /\ JunctionsJoin(draft')
        /\ draft'.nets = p.nets \cup {idOf[g] : g \in DOMAIN idOf}
        /\ \A x \in netEndpoints(p, n) : Owner(draft', x) = idOf[Group(p, n, x)]
    <3>1. Whole(p) /\ JunctionsJoin(p) /\ n \in p.nets
      BY <1>3, <1>5
    <3>2. Good(p, draft', {}) /\ JunctionsJoin(draft') /\ Parted(p, draft', n, idOf)
      BY <2>1, <2>4, <2>5, <2>6, <2>7, <3>1, TornGood
    <3> QED
      BY <3>2 DEF Parted
  <2>9. Good(draft, draft', {n} \cup {})
    BY <1>3, <1>5, <2>8, GoodThenGood
  <2>10. Peopled(draft', n)
    <3>1. PICK x \in netEndpoints(p, n) : primary = Group(p, n, x)
      BY <1>7, <2>3, <2>7
    <3>2. Owner(draft', x) = n
      BY <2>7, <2>8, <3>1
    <3> QED
      BY <1>5, <3>2 DEF Owner, Peopled
  <2>11. Good(draft, draft', tx'.deferred)
    BY <2>9, <2>10 DEF Good, StillPeopled
  <2>12. \A x \in netEndpoints(p, n) : Group(p, n, x) \in DOMAIN idOf
    BY <1>7, <2>3
  <2>13. draft'.nets \subseteq draft.nets \cup UnusedNets
    BY <1>5, <2>3, <2>8
  <2>14. \A x, y \in netEndpoints(p, n) :
            Owner(draft', x) = Owner(draft', y) <=> Group(p, n, x) = Group(p, n, y)
    BY <2>3, <2>8, <2>12
  <2> QED
    BY <1>5, <1>6, <2>8, <2>11, <2>13, <2>14 DEF p, n
<1>11. CASE groups # {} /\ ~Divided(groups)
  <2>1. draft' = p
    BY <1>1, <1>11
  <2>2. Cardinality(groups) = 1
    BY <1>8, <1>11
  <2>3. \A g, h \in groups : g = h
    <3>1. IsFiniteSet(groups)
      <4>1. IsFiniteSet(netEndpoints(p, n))
        BY <1>5, EndpointsFinite
      <4> DEFINE f == [x \in netEndpoints(p, n) |-> Group(p, n, x)]
      <4>2. f \in Surjection(netEndpoints(p, n), groups)
        BY <1>7 DEF Surjection
      <4> QED
        BY <4>1, <4>2, FS_Surjection
    <3> HIDE DEF groups
    <3>2. \E x : groups = {x}
      BY <2>2, <3>1, FS_Singleton
    <3> QED
      BY <3>2
  <2>4. \A x \in netEndpoints(p, n) : Owner(p, x) = n
    BY DEF netEndpoints
  <2>5. \A x, y \in netEndpoints(p, n) : Group(p, n, x) = Group(p, n, y)
    BY <1>7, <2>3
  <2>6. netEndpoints(p, n) # {}
    BY <1>7, <1>11
  <2>7. Peopled(p, n)
    BY <2>6 DEF netEndpoints, Owner, Peopled
  <2>8. Good(draft, p, tx'.deferred)
    BY <1>3, <2>7 DEF Good, StillPeopled
  <2> HIDE DEF groups, n, p
  <2> QED
    BY <1>3, <1>5, <1>6, <2>1, <2>4, <2>5, <2>8 DEF p, n
<1> QED
  BY <1>8, <1>9, <1>10, <1>11

-------------------------------------------------------------------------------
\* What each edit does to a draft that is whole.

Sane == Whole(draft) /\ JunctionsJoin(draft) /\ Remembers(tx)

\* The draft stays whole, and a net that lost everything is remembered.
Lasts ==
    /\ Whole(draft') /\ JunctionsJoin(draft')
    /\ draft'.nets \subseteq draft.nets \cup UnusedNets
    /\ StillPeopled(draft, draft', tx'.deferred \cup tx'.cleared)
    /\ Builds(tx, tx')

Firm == Lasts /\ Carries(draft, draft')

LEMMA Firmly ==
    ASSUME NEW S, Good(draft, draft', S), S \subseteq tx'.deferred \cup tx'.cleared,
           JunctionsJoin(draft'), draft'.nets \subseteq draft.nets \cup UnusedNets,
           Builds(tx, tx')
    PROVE  Firm
BY DEF Firm, Lasts, Good, StillPeopled

LEMMA StandingThen ==
    ASSUME NEW d, NEW e, Standing(d, e), NEW f, NEW S, StillPeopled(e, f, S)
    PROVE  StillPeopled(d, f, S)
<1>1. \A n : Peopled(d, n) <=> Peopled(e, n)
  BY DEF Standing, Peopled
<1> QED
  BY <1>1 DEF Standing, StillPeopled

LEMMA Pruned ==
    ASSUME NEW d, Whole(d), JunctionsJoin(d), NEW ns
    PROVE  LET e == pruneDeferring(d, ns)
           IN  Good(d, e, {}) /\ JunctionsJoin(e) /\ e.nets \subseteq d.nets
<1> DEFINE e == pruneDeferring(d, ns)
<1>1. /\ Good(d, e, {}) /\ e.nets \subseteq d.nets
      /\ Only(d, e, {"nets", "claims", "sources", "default"})
  BY PruneGood, PrunedWhole
<1> HIDE DEF e
<1> QED
  BY <1>1, JoinsAlike DEF Only, Fields, e

LEMMA CreateFirm == ASSUME Sane, CreateBaseNet PROVE Firm
<1> PICK n \in FreshNet : draft' = [draft EXCEPT !.nets = @ \cup {n}]
  BY DEF CreateBaseNet
<1>1. n \in UnusedNets /\ n \in NetIds
  BY Fresh DEF UnusedNets
<1>2. /\ Good(draft, draft', {}) /\ draft'.nets = draft.nets \cup {n}
      /\ Only(draft, draft', {"nets"})
  BY <1>1, NewNetGood DEF Sane
<1>3. JunctionsJoin(draft')
  BY <1>2, JoinsAlike DEF Sane, Only, Fields
<1>4. Builds(tx, tx')
  BY Deferrals DEF Sane, CreateBaseNet
<1> QED
  BY <1>1, <1>2, <1>3, <1>4, Firmly

LEMMA MergeFirm == ASSUME Sane, MergeNets PROVE Firm
<1> PICK n \in draft.nets, m \in draft.nets :
        n # m /\ draft' = mergeBaseNets(draft, n, m)
  BY DEF MergeNets
<1>1. Good(draft, draft', {}) /\ JunctionsJoin(draft')
  BY MergeGood, MergeJoins DEF Sane
<1>2. draft'.nets = draft.nets \ {m}
  BY MergedWhole DEF Sane
<1>3. Builds(tx, tx')
  BY Deferrals DEF Sane, MergeNets
<1> QED
  BY <1>1, <1>2, <1>3, Firmly

LEMMA UpsertLasts ==
    ASSUME Sane, NEW c \in Claim, c.net \in draft.nets, Upsert(c)
    PROVE  Lasts
<1> DEFINE previous == {e \in draft.claims : e.owner = c.owner}
           left == {e.net : e \in previous} \ {c.net}
           cs == (draft.claims \ previous) \cup {c}
           e == [draft EXCEPT !.claims = cs]
<1>1. cs \subseteq Claim /\ \A b \in cs : b.net \in draft.nets
  BY ByFields DEF Sane, Whole, Fielded, Housed
<1>2. draft' = pruneDeferring(e, left)
  BY DEF Upsert
<1>3. tx' = Changed(Deferring([tx EXCEPT !.protected = @ \cup {c.owner}], left))
  BY DEF Upsert
<1> HIDE DEF previous, cs
<1>4. Whole(e) /\ Only(draft, e, {"claims"})
  BY <1>1, ClaimsWhole DEF Sane
<1> HIDE DEF e, left
<1>5. Standing(draft, e)
  BY <1>4 DEF Standing, Only, Fields
<1>6. JunctionsJoin(e)
  BY <1>5, StandingStill DEF Sane
<1>7. Good(e, draft', {}) /\ JunctionsJoin(draft') /\ draft'.nets \subseteq e.nets
  BY <1>2, <1>4, <1>6, Pruned
<1>8. StillPeopled(draft, draft', {})
  BY <1>5, <1>7, StandingThen DEF Good
<1>9. Builds(tx, tx')
  <2> DEFINE t == [tx EXCEPT !.protected = @ \cup {c.owner}]
  <2>1. Remembers(t) /\ t.deferred = tx.deferred /\ t.cleared = tx.cleared
    BY DEF Sane, Remembers
  <2> HIDE DEF t
  <2>2. Builds(t, tx')
    BY <1>3, <2>1, Deferrals DEF t
  <2> QED
    BY <2>1, <2>2 DEF Builds
<1> QED
  BY <1>5, <1>7, <1>8, <1>9 DEF Lasts, Good, StillPeopled, Standing

LEMMA UpsertEvidenceLasts == ASSUME Sane, UpsertEvidence PROVE Lasts
<1>1. Fielded(draft) /\ Housed(draft)
  BY ByFields DEF Sane, Whole
<1>2. ASSUME NEW c \in Claim, c.net \in draft.nets, Upsert(c) PROVE Lasts
  BY <1>2, UpsertLasts
<1>3. ASSUME NEW name \in LabelNames \cup {"0", "vdd"},
             NEW scope \in {"local", "global"},
             NEW l \in DOMAIN draft.labels, NEW power \in {"none", "ground", "vdd"}
      PROVE  LET c == [owner |-> l, net |-> draft.labels[l].net, name |-> name,
                       scope |-> scope, power |-> power]
             IN  c \in Claim /\ c.net \in draft.nets
  BY <1>1, <1>3 DEF Claim, Fielded, Housed, PartialFunction
<1>4. ASSUME NEW name \in LabelNames \cup {"0", "vdd"},
             NEW scope \in {"local", "global"},
             NEW m \in Markers, draft.on[m] # None
      PROVE  LET c == [owner |-> m, net |-> draft.on[m], name |-> name,
                       scope |-> scope, power |-> SupplyOf(m)]
             IN  c \in Claim /\ c.net \in draft.nets
  <2>1. m \in Terminals
    BY DEF Terminals
  <2>2. draft.on[m] \in draft.nets /\ draft.on[m] \in NetIds
    BY <1>1, <1>4, <2>1 DEF Fielded, Housed
  <2>3. SupplyOf(m) \in {"none", "ground", "vdd"}
    BY DEF SupplyOf
  <2> QED
    BY <2>2, <2>3 DEF Claim
<1>5. PICK name \in LabelNames \cup {"0", "vdd"}, scope \in {"local", "global"} :
        \/ \E l \in DOMAIN draft.labels, power \in {"none", "ground", "vdd"} :
              Upsert([owner |-> l, net |-> draft.labels[l].net, name |-> name,
                      scope |-> scope, power |-> power])
        \/ \E m \in Markers :
              /\ draft.on[m] # None
              /\ Upsert([owner |-> m, net |-> draft.on[m], name |-> name,
                         scope |-> scope, power |-> SupplyOf(m)])
  BY Zenon DEF UpsertEvidence
<1>6. CASE \E l \in DOMAIN draft.labels, power \in {"none", "ground", "vdd"} :
              Upsert([owner |-> l, net |-> draft.labels[l].net, name |-> name,
                      scope |-> scope, power |-> power])
  BY <1>2, <1>3, <1>6
<1>7. CASE \E m \in Markers :
              /\ draft.on[m] # None
              /\ Upsert([owner |-> m, net |-> draft.on[m], name |-> name,
                         scope |-> scope, power |-> SupplyOf(m)])
  BY <1>2, <1>4, <1>7
<1> QED
  BY <1>5, <1>6, <1>7

LEMMA RemoveEvidenceLasts ==
    ASSUME Sane, RemoveEvidence
    PROVE  Lasts /\ CarriesOn(draft, draft')
<1> PICK c \in draft.claims :
        /\ draft' = pruneDeferring([draft EXCEPT !.claims = @ \ {c}], {c.net})
        /\ tx' = Changed(Deferring(tx, {c.net}))
  BY DEF RemoveEvidence
<1> DEFINE cs == draft.claims \ {c}
           e == [draft EXCEPT !.claims = cs]
<1>1. cs \subseteq Claim /\ \A b \in cs : b.net \in draft.nets
  BY ByFields DEF Sane, Whole, Fielded, Housed
<1>2. draft' = pruneDeferring(e, {c.net})
  OBVIOUS
<1>3. cs \subseteq draft.claims
  OBVIOUS
<1> HIDE DEF cs
<1>4. Whole(e) /\ Only(draft, e, {"claims"}) /\ e.claims = cs
  BY <1>1, ClaimsWhole DEF Sane
<1> HIDE DEF e
<1>5. Standing(draft, e) /\ e.labels = draft.labels
  BY <1>4 DEF Standing, Only, Fields
<1>6. JunctionsJoin(e)
  BY <1>5, StandingStill DEF Sane
<1>7. Good(e, draft', {}) /\ JunctionsJoin(draft') /\ draft'.nets \subseteq e.nets
  BY <1>2, <1>4, <1>6, Pruned
<1>8. /\ draft'.claims = e.claims
      /\ Only(e, draft', {"nets", "claims", "sources", "default"})
  BY <1>2, <1>4, PrunedWhole
<1>9. /\ draft'.labels = draft.labels /\ draft'.juncs = draft.juncs
      /\ draft'.routes = draft.routes /\ draft'.claims \subseteq draft.claims
  BY <1>3, <1>4, <1>5, <1>8 DEF Standing, Only, Fields
<1>10. CarriesOn(draft, draft')
  BY <1>7, <1>9, Undisturbed DEF Sane, Good
<1>11. StillPeopled(draft, draft', {})
  BY <1>5, <1>7, StandingThen DEF Good
<1>12. Builds(tx, tx')
  BY Deferrals DEF Sane
<1> QED
  BY <1>5, <1>7, <1>10, <1>11, <1>12 DEF Lasts, Good, StillPeopled, Standing

LEMMA AnnotationLasts == ASSUME Sane, UpsertAnnotation PROVE Lasts
<1> PICK l \in Labels,
         a \in Terminals \cup DOMAIN draft.juncs \cup DOMAIN draft.routes :
        /\ NetOfAnchor(draft, a) # None
        /\ draft' = [draft EXCEPT !.labels =
              With(@, l, [net |-> NetOfAnchor(draft, a), anchor |-> a])]
  BY DEF UpsertAnnotation
<1> DEFINE label == [net |-> NetOfAnchor(draft, a), anchor |-> a]
           ls == With(draft.labels, l, label)
<1>1. Fielded(draft) /\ Housed(draft)
  BY ByFields DEF Sane, Whole
<1>2. NetOfAnchor(draft, a) \in draft.nets
  BY Owned DEF Sane
<1>3. a \in Endpoints \cup Routes
  BY <1>1 DEF Fielded, PartialFunction, Endpoints
<1>4. label \in LabelType /\ label.net \in draft.nets
  BY <1>1, <1>2, <1>3 DEF LabelType, Fielded
<1> HIDE DEF label
<1>5. DOMAIN draft.labels \subseteq Labels /\ \A k \in DOMAIN draft.labels :
         draft.labels[k] \in LabelType /\ draft.labels[k].net \in draft.nets
  BY <1>1 DEF Fielded, Housed, PartialFunction
<1>6. /\ DOMAIN ls = DOMAIN draft.labels \cup {l}
      /\ ls = [k \in DOMAIN ls |-> ls[k]]
      /\ \A k \in DOMAIN ls : ls[k] \in LabelType /\ ls[k].net \in draft.nets
  BY <1>4, <1>5 DEF With
<1>7. draft' = [draft EXCEPT !.labels = ls]
  BY DEF label
<1> HIDE DEF ls
<1>8. PartialFunction(ls, Labels, LabelType)
  BY <1>5, <1>6 DEF PartialFunction
<1>9. Whole(draft') /\ Only(draft, draft', {"labels"})
  BY <1>6, <1>7, <1>8, LabelsWhole DEF Sane
<1>10. Standing(draft, draft')
  BY <1>9 DEF Standing, Only, Fields
<1>11. Builds(tx, tx')
  BY Deferrals DEF Sane, UpsertAnnotation
<1> QED
  BY <1>9, <1>10, <1>11, StandingStill DEF Sane, Lasts, Standing

LEMMA RemoveAnnotationLasts ==
    ASSUME Sane, RemoveAnnotation
    PROVE  Lasts /\ CarriesOn(draft, draft')
<1> PICK l \in DOMAIN draft.labels :
        LET nets == {c.net : c \in {c \in draft.claims : c.owner = l}}
            left == [draft EXCEPT !.labels = Without(@, {l})]
        IN  /\ draft' = pruneDeferring(removeOwned(left, {l}), nets)
            /\ tx' = [Deferring(tx, nets) EXCEPT !.changed = @ \/ nets # {}]
  BY DEF RemoveAnnotation
<1> DEFINE nets == {c.net : c \in {c \in draft.claims : c.owner = l}}
           ls == Without(draft.labels, {l})
           left == [draft EXCEPT !.labels = ls]
           cs == {c \in left.claims : c.owner \notin {l}}
           e == [left EXCEPT !.claims = cs]
<1>1. Fielded(draft) /\ Housed(draft)
  BY ByFields DEF Sane, Whole
<1>2. draft' = pruneDeferring(e, nets)
  BY DEF removeOwned
<1>3. tx' = [Deferring(tx, nets) EXCEPT !.changed = @ \/ nets # {}]
  OBVIOUS
<1> HIDE DEF nets
<1>4. /\ DOMAIN ls = DOMAIN draft.labels \ {l}
      /\ ls = [k \in DOMAIN ls |-> ls[k]]
      /\ \A k \in DOMAIN ls : ls[k] = draft.labels[k]
  BY DEF Without
<1> HIDE DEF ls
<1>5. PartialFunction(ls, Labels, LabelType) /\ \A k \in DOMAIN ls : ls[k].net \in draft.nets
  <2>1. DOMAIN draft.labels \subseteq Labels /\ \A k \in DOMAIN draft.labels :
           draft.labels[k] \in LabelType /\ draft.labels[k].net \in draft.nets
    BY <1>1 DEF Fielded, Housed, PartialFunction
  <2> QED
    BY <1>4, <2>1 DEF PartialFunction
<1>6. Whole(left) /\ Only(draft, left, {"labels"}) /\ left.labels = ls
  BY <1>5, LabelsWhole DEF Sane
<1> HIDE DEF left
<1>7. cs \subseteq Claim /\ \A b \in cs : b.net \in left.nets
  BY <1>6, ByFields DEF Whole, Fielded, Housed
<1>8. cs \subseteq draft.claims /\ \A c \in cs : c.owner # l
  BY <1>6 DEF Only, Fields
<1> HIDE DEF cs
<1>9. Whole(e) /\ Only(left, e, {"claims"}) /\ e.claims = cs
  BY <1>6, <1>7, ClaimsWhole
<1> HIDE DEF e
<1>10. Standing(draft, e) /\ e.labels = ls
  BY <1>6, <1>9 DEF Standing, Only, Fields
<1>11. JunctionsJoin(e)
  BY <1>10, StandingStill DEF Sane
<1>12. Good(e, draft', {}) /\ JunctionsJoin(draft') /\ draft'.nets \subseteq e.nets
  BY <1>2, <1>9, <1>11, Pruned
<1>13. draft'.claims = e.claims /\ Only(e, draft', {"nets", "claims", "sources", "default"})
  BY <1>2, <1>9, PrunedWhole
<1>14. CarriesOn(draft, draft')
  <2>1. /\ draft'.juncs = draft.juncs /\ draft'.routes = draft.routes
        /\ draft'.labels = ls /\ draft'.claims = cs
    BY <1>9, <1>10, <1>13 DEF Standing, Only, Fields
  <2>2. \A a : NetOfAnchor(draft', a) = NetOfAnchor(draft, a)
    <3>1. draft'.on = draft.on
      BY <1>10, <1>13 DEF Standing, Only, Fields
    <3> QED
      BY <2>1, <3>1 DEF NetOfAnchor, Owner
  <2> SUFFICES ASSUME NEW k \in Labels, NamesItsWire(draft, k),
                      \E c \in draft'.claims : c.owner = k
               PROVE  NamesItsWire(draft', k)
    BY DEF CarriesOn
  <2>3. k # l
    BY <1>8, <2>1
  <2>4. k \in DOMAIN draft.labels
    BY Naming
  <2>5. k \in DOMAIN ls /\ ls[k] = draft.labels[k]
    BY <1>4, <2>3, <2>4
  <2>6. NamesItsWire(draft, k) <=>
             /\ k \in DOMAIN draft.labels
             /\ draft.labels[k].anchor \in Junctions \cup Routes
             /\ NetOfAnchor(draft, draft.labels[k].anchor) # None
             /\ \E c \in draft.claims : c.owner = k
             /\ \A c \in draft.claims :
                  c.owner = k => c.net = NetOfAnchor(draft, draft.labels[k].anchor)
    BY Naming
  <2>7. \A c \in draft'.claims :
            c.owner = k => c.net = NetOfAnchor(draft', draft'.labels[k].anchor)
    BY <1>8, <2>1, <2>2, <2>5, <2>6
  <2>8. NetOfAnchor(draft', draft'.labels[k].anchor) # None
    BY <2>1, <2>2, <2>5, <2>6
  <2> QED
    BY <2>1, <2>5, <2>6, <2>7, <2>8, Naming
<1>15. StillPeopled(draft, draft', {})
  BY <1>10, <1>12, StandingThen DEF Good
<1>16. Builds(tx, tx')
  <2> DEFINE t == Deferring(tx, nets)
  <2>1. Builds(tx, t)
    BY Deferrals DEF Sane
  <2>2. tx' = [t EXCEPT !.changed = @ \/ nets # {}]
    BY <1>3
  <2> HIDE DEF t
  <2> QED
    BY <2>1, <2>2 DEF Builds, Remembers
<1> QED
  BY <1>10, <1>12, <1>14, <1>15, <1>16 DEF Lasts, Good, StillPeopled, Standing

\* Licences and places do not touch what stands on a net.
LEMMA PlaceFirm == ASSUME Sane, PlaceInstance \/ UnplaceInstance PROVE Firm
<1> PICK ts \in SUBSET Terminals : draft' = [draft EXCEPT !.placed = ts]
  <2>1. draft.placed \subseteq Terminals
    BY ByFields DEF Sane, Whole, Fielded
  <2>2. CASE PlaceInstance
    <3> PICK t \in Terminals : draft' = [draft EXCEPT !.placed = @ \cup {t}]
      BY <2>2 DEF PlaceInstance
    <3>1. draft.placed \cup {t} \in SUBSET Terminals
      BY <2>1
    <3> QED
      BY <3>1
  <2>3. CASE UnplaceInstance
    <3> PICK t : draft' = [draft EXCEPT !.placed = @ \ {t}]
      BY <2>3 DEF UnplaceInstance
    <3>1. draft.placed \ {t} \in SUBSET Terminals
      BY <2>1
    <3> QED
      BY <3>1
  <2> QED
    BY <2>2, <2>3
<1>1. Whole(draft') /\ Only(draft, draft', {"placed"})
  BY PlacedWhole DEF Sane
<1>2. /\ draft'.labels = draft.labels /\ draft'.claims = draft.claims
      /\ draft'.on = draft.on /\ draft'.juncs = draft.juncs
      /\ draft'.routes = draft.routes /\ draft'.nets = draft.nets
  BY <1>1 DEF Only, Fields
<1>3. Good(draft, draft', {})
  BY <1>1, <1>2, AlikeGood DEF Sane
<1>4. Builds(tx, tx')
  BY Deferrals DEF Sane, PlaceInstance, UnplaceInstance, Builds, Remembers
<1> QED
  BY <1>2, <1>3, <1>4, JoinsAlike, Firmly DEF Sane

LEMMA Spare ==
    /\ \A r \in UnusedRoute : r \in Routes /\ r \notin DOMAIN draft.routes
    /\ \A j \in UnusedJunction : j \in Junctions /\ j \notin DOMAIN draft.juncs
BY DEF UnusedRoute, UnusedJunction, Unused

Lies(d, j, n) == j \in DOMAIN d.juncs /\ d.juncs[j].net = n

\* A new Junction on a net that is there.
LEMMA JunctionGood ==
    ASSUME NEW d, Whole(d), JunctionsJoin(d),
           NEW j \in Junctions, j \notin DOMAIN d.juncs,
           NEW n \in d.nets, NEW at \in Points
    PROVE  LET e == [d EXCEPT !.juncs = With(@, j, [net |-> n, at |-> at])]
           IN  /\ Good(d, e, {}) /\ JunctionsJoin(e) /\ Only(d, e, {"juncs"})
               /\ Lies(e, j, n)
<1> DEFINE junction == [net |-> n, at |-> at]
           js == With(d.juncs, j, junction)
           e == [d EXCEPT !.juncs = js]
<1>1. Fielded(d) /\ Housed(d)
  BY ByFields DEF Whole
<1>2. junction \in JunctionType /\ junction.net = n
  BY <1>1 DEF JunctionType, Fielded
<1> HIDE DEF junction
<1>3. DOMAIN d.juncs \subseteq Junctions /\ \A k \in DOMAIN d.juncs :
         d.juncs[k] \in JunctionType /\ d.juncs[k].net \in d.nets
  BY <1>1 DEF Fielded, Housed, PartialFunction
<1>4. /\ DOMAIN js = DOMAIN d.juncs \cup {j}
      /\ js = [k \in DOMAIN js |-> js[k]]
      /\ js[j] = junction
      /\ \A k \in DOMAIN d.juncs : js[k] = d.juncs[k]
  BY DEF With
<1> HIDE DEF js
<1>5. /\ PartialFunction(js, Junctions, JunctionType)
      /\ \A k \in DOMAIN js : js[k].net \in d.nets
  BY <1>2, <1>3, <1>4 DEF PartialFunction
<1>6. Whole(e) /\ Only(d, e, {"juncs"}) /\ e.juncs = js
  BY <1>5, JunctionsWhole
<1> HIDE DEF e
<1>7. /\ e.labels = d.labels /\ e.claims = d.claims /\ e.on = d.on
      /\ e.routes = d.routes /\ e.nets = d.nets
  BY <1>6 DEF Only, Fields
<1>8. Carries(d, e)
  BY <1>4, <1>6, <1>7, Undisturbed
<1>9. StillPeopled(d, e, {})
  BY <1>4, <1>6, <1>7 DEF StillPeopled, Peopled
<1>10. JunctionsJoin(e)
  BY <1>4, <1>6, <1>7 DEF JunctionsJoin
<1>11. Lies(e, j, n)
  BY <1>2, <1>4, <1>6 DEF Lies
<1> QED
  BY <1>6, <1>8, <1>9, <1>10, <1>11 DEF Good, e, js, junction

LEMMA AddJunctionFirm == ASSUME Sane, AddJunction PROVE Firm
<1> PICK j \in UnusedJunction :
        /\ \/ \E n \in draft.nets \cup FreshNet, p \in Points :
                 draft' = [draft EXCEPT !.nets = @ \cup {n},
                              !.juncs = With(@, j, [net |-> n, at |-> p])]
           \/ \E r \in DOMAIN draft.routes, second \in UnusedRoute :
                 LET route == draft.routes[r]
                     added == [draft EXCEPT !.juncs =
                                  With(@, j, [net |-> route.net,
                                              at |-> route.over])]
                 IN  /\ route.over # None
                     /\ \E moved \in SUBSET LabelsAt(draft, r) :
                           draft' = RemapLabels(
                              SplitRoute(added, r, second, j), moved, second)
        /\ tx' = Changed([tx EXCEPT !.licensed = @ \cup {j}])
  BY DEF AddJunction
<1>1. j \in Junctions /\ j \notin DOMAIN draft.juncs
  BY Spare
<1>2. Builds(tx, tx')
  BY DEF Sane, Builds, Remembers, Changed
<1>3. ASSUME NEW n \in draft.nets \cup FreshNet, NEW p \in Points,
             draft' = [draft EXCEPT !.nets = @ \cup {n},
                          !.juncs = With(@, j, [net |-> n, at |-> p])]
      PROVE  Firm
  <2> DEFINE d == [draft EXCEPT !.nets = @ \cup {n}]
             e == [d EXCEPT !.juncs = With(@, j, [net |-> n, at |-> p])]
  <2>1. draft' = e
    BY <1>3
  <2>2. n \in NetIds /\ n \in draft.nets \cup UnusedNets
    BY Fresh, ByFields DEF UnusedNets, Sane, Whole, Fielded
  <2>3. Good(draft, d, {}) /\ d.nets = draft.nets \cup {n} /\ Only(draft, d, {"nets"})
    BY <2>2, NewNetGood DEF Sane
  <2> HIDE DEF d
  <2>4. JunctionsJoin(d) /\ d.juncs = draft.juncs /\ n \in d.nets /\ Whole(d)
    BY <2>3, JoinsAlike DEF Sane, Only, Fields, Good
  <2>5. Good(d, e, {}) /\ JunctionsJoin(e) /\ Only(d, e, {"juncs"})
    BY <1>1, <2>4, JunctionGood
  <2> HIDE DEF e
  <2>6. e.nets = d.nets
    BY <2>5 DEF Only, Fields
  <2>7. Good(draft, e, {} \cup {})
    BY <2>3, <2>5, <2>6, GoodThenGood
  <2> QED
    BY <1>2, <2>1, <2>2, <2>3, <2>5, <2>6, <2>7, Firmly
<1>4. ASSUME NEW r \in DOMAIN draft.routes, NEW second \in UnusedRoute,
             draft.routes[r].over # None,
             NEW moved \in SUBSET LabelsAt(draft, r),
             draft' = RemapLabels(SplitRoute(
                [draft EXCEPT !.juncs = With(@, j, [net |-> draft.routes[r].net,
                                                    at |-> draft.routes[r].over])],
                r, second, j), moved, second)
      PROVE  Firm
  <2> DEFINE n == draft.routes[r].net
             at == draft.routes[r].over
             d == [draft EXCEPT !.juncs = With(@, j, [net |-> n, at |-> at])]
  <2>1. draft' = RemapLabels(SplitRoute(d, r, second, j), moved, second)
    BY <1>4
  <2>2. n \in draft.nets /\ at \in Points
    BY <1>4, ByFields DEF Sane, Whole, Fielded, Housed, PartialFunction, RouteType
  <2>3. /\ Good(draft, d, {}) /\ JunctionsJoin(d) /\ Only(draft, d, {"juncs"})
        /\ j \in DOMAIN d.juncs /\ d.juncs[j].net = n
    <3>1. Good(draft, d, {}) /\ JunctionsJoin(d) /\ Only(draft, d, {"juncs"}) /\ Lies(d, j, n)
      <4> HIDE DEF n, at
      <4> QED
        BY <1>1, <2>2, JunctionGood DEF Sane
    <3> QED
      BY <3>1 DEF Lies
  <2> HIDE DEF d
  <2>4. d.routes = draft.routes /\ d.labels = draft.labels /\ d.nets = draft.nets /\ Whole(d)
    BY <2>3 DEF Only, Fields, Good
  <2>5. moved \subseteq LabelsAt(d, r)
    BY <2>4 DEF LabelsAt
  <2>6. second \in Routes /\ second \notin DOMAIN d.routes /\ j \in Endpoints
    BY <1>1, <2>4, Spare DEF Endpoints
  <2>7. Good(d, draft', {}) /\ Only(d, draft', {"routes", "labels"})
    BY <2>1, <2>4, <2>5, <2>6, SplitGood
  <2>8. JunctionsJoin(draft')
    BY <2>1, <2>3, <2>4, <2>6, SplitJoins
  <2>9. draft'.nets = draft.nets
    BY <2>4, <2>7 DEF Only, Fields
  <2>10. Good(draft, draft', {} \cup {})
    BY <2>3, <2>4, <2>7, GoodThenGood
  <2> QED
    BY <1>2, <2>8, <2>9, <2>10, Firmly
<1> QED
  BY <1>3, <1>4

LEMMA RemoveJunctionLasts ==
    ASSUME Sane, RemoveJunction
    PROVE  Lasts /\ CarriesOn(draft, draft')
<1> PICK j \in DOMAIN draft.juncs :
        LET n == draft.juncs[j].net
        IN  /\ RoutesAt(draft, j) = {}
            /\ draft' = pruneDeferring([draft EXCEPT !.juncs = Without(@, {j})], {n})
            /\ tx' = Changed(Deferring(tx, {n}))
  BY DEF RemoveJunction
<1> DEFINE n == draft.juncs[j].net
           js == Without(draft.juncs, {j})
           e == [draft EXCEPT !.juncs = js]
<1>1. Fielded(draft) /\ Housed(draft)
  BY ByFields DEF Sane, Whole
<1>2. draft' = pruneDeferring(e, {n})
  OBVIOUS
<1>3. DOMAIN draft.juncs \subseteq Junctions /\ \A k \in DOMAIN draft.juncs :
         draft.juncs[k] \in JunctionType /\ draft.juncs[k].net \in draft.nets
  BY <1>1 DEF Fielded, Housed, PartialFunction
<1>4. /\ DOMAIN js = DOMAIN draft.juncs \ {j}
      /\ js = [k \in DOMAIN js |-> js[k]]
      /\ \A k \in DOMAIN js : js[k] = draft.juncs[k]
  BY DEF Without
<1>5. n \in draft.nets /\ n # None
  BY <1>1, <1>3, LogicalNetsAssumption DEF Fielded
<1>6. tx' = Changed(Deferring(tx, {n})) /\ RoutesAt(draft, j) = {}
  OBVIOUS
<1> HIDE DEF js
<1>7. PartialFunction(js, Junctions, JunctionType) /\ \A k \in DOMAIN js : js[k].net \in draft.nets
  BY <1>3, <1>4 DEF PartialFunction
<1>8. Whole(e) /\ Only(draft, e, {"juncs"}) /\ e.juncs = js
  BY <1>7, JunctionsWhole DEF Sane
<1> HIDE DEF e
<1>9. /\ e.labels = draft.labels /\ e.claims = draft.claims /\ e.on = draft.on
      /\ e.routes = draft.routes /\ e.nets = draft.nets
  BY <1>8 DEF Only, Fields
<1>10. JunctionsJoin(e)
  <2>1. \A r \in DOMAIN draft.routes : j \notin EndsOf(draft.routes[r])
    BY <1>6 DEF RoutesAt
  <2> QED
    BY <1>4, <1>8, <1>9, <2>1 DEF Sane, JunctionsJoin
<1>11. Good(e, draft', {}) /\ JunctionsJoin(draft') /\ draft'.nets \subseteq e.nets
  BY <1>2, <1>8, <1>10, Pruned
<1>12. draft'.claims = e.claims /\ Only(e, draft', {"nets", "claims", "sources", "default"})
  BY <1>2, <1>8, PrunedWhole
<1>13. /\ draft'.labels = draft.labels /\ draft'.routes = draft.routes
       /\ draft'.claims = draft.claims /\ draft'.juncs = js
  BY <1>8, <1>9, <1>12 DEF Only, Fields
<1>14. CarriesOn(draft, draft')
  BY <1>4, <1>11, <1>13, Undisturbed DEF Sane, Good
<1>15. StillPeopled(draft, e, {n})
  <2>1. ASSUME NEW k, k # n, Peopled(draft, k) PROVE Peopled(e, k)
    <3>1. \A i \in DOMAIN draft.juncs : draft.juncs[i].net = k => i \in DOMAIN js
      BY <1>4, <2>1
    <3> HIDE DEF n
    <3> QED
      BY <1>4, <1>8, <1>9, <2>1, <3>1 DEF Peopled
  <2> QED
    BY <2>1 DEF StillPeopled
<1>16. n \in tx'.deferred /\ Builds(tx, tx')
  BY <1>5, <1>6, Deferrals DEF Sane
<1>17. StillPeopled(draft, draft', tx'.deferred)
  BY <1>9, <1>11, <1>15, <1>16 DEF Good, StillPeopled
<1> QED
  BY <1>9, <1>11, <1>14, <1>16, <1>17 DEF Lasts, Good, StillPeopled

Lands(d, x, n) ==
    x \in Terminals \cup DOMAIN d.juncs /\ Owner(d, x) \in {None, n}

\* An endpoint that has no net or that of the Route lands on the Route.
LEMMA LandGood ==
    ASSUME NEW d, Whole(d), JunctionsJoin(d), NEW r \in DOMAIN d.routes,
           NEW x, Lands(d, x, d.routes[r].net),
           NEW second \in Routes, second \notin DOMAIN d.routes,
           NEW moved, moved \subseteq LabelsAt(d, r)
    PROVE  LET n == d.routes[r].net
               e == RemapLabels(SplitRoute(addEndpointToNet(d, n, x), r, second, x),
                                moved, second)
           IN  Good(d, e, {}) /\ JunctionsJoin(e) /\ e.nets = d.nets
<1> DEFINE n == d.routes[r].net
           f == addEndpointToNet(d, n, x)
           e == RemapLabels(SplitRoute(f, r, second, x), moved, second)
<1>1. Fielded(d) /\ Housed(d)
  BY ByFields DEF Whole
<1>2. n \in d.nets /\ None \notin d.nets
  BY <1>1, LogicalNetsAssumption DEF Housed, Fielded
<1>3. x \in Endpoints
  BY <1>1 DEF Lands, Fielded, PartialFunction, Endpoints
<1>4. x \in Junctions => x \in DOMAIN d.juncs /\ d.juncs[x].net = n
  BY <1>1, <1>2, LogicalNetsAssumption DEF Lands, Owner, Housed
<1>5. x \in Terminals => d.on[x] \in {None, n}
  BY DEF Lands, Owner
<1> HIDE DEF n
<1>6. Good(d, f, {}) /\ f.nets = d.nets /\ Whole(f) /\ Only(d, f, {"on"})
  BY <1>2, <1>5, AddGood, AddedWhole
<1> HIDE DEF f
<1>7. f.routes = d.routes /\ f.juncs = d.juncs /\ f.labels = d.labels
  BY <1>6 DEF Only, Fields
<1>8. JunctionsJoin(f) /\ moved \subseteq LabelsAt(f, r)
  BY <1>7, JoinsAlike DEF LabelsAt
<1>9. Good(f, e, {}) /\ Only(f, e, {"routes", "labels"})
  BY <1>3, <1>6, <1>7, <1>8, SplitGood
<1>10. JunctionsJoin(e)
  BY <1>3, <1>4, <1>6, <1>7, <1>8, SplitJoins DEF n
<1> HIDE DEF e
<1>11. e.nets = d.nets
  BY <1>6, <1>9 DEF Only, Fields
<1>12. Good(d, e, {} \cup {})
  BY <1>6, <1>9, GoodThenGood
<1> QED
  BY <1>10, <1>11, <1>12 DEF e, f, n

LEMMA AttachFirm == ASSUME Sane, AttachEndpointToRoute PROVE Firm
<1> PICK r \in DOMAIN draft.routes, second \in UnusedRoute,
         x \in Terminals \cup DOMAIN draft.juncs :
        LET route == draft.routes[r]
        IN  /\ Owner(draft, x) \in {None, route.net}
            /\ \E moved \in SUBSET LabelsAt(draft, r) :
                  draft' = RemapLabels(SplitRoute(
                      addEndpointToNet(draft, route.net, x), r, second, x),
                      moved, second)
            /\ tx' = Changed([tx EXCEPT
                  !.licensed = @ \cup {x},
                  !.typed = @ \cup ({r, second} \X {route.over})])
  BY DEF AttachEndpointToRoute
<1> PICK moved \in SUBSET LabelsAt(draft, r) :
        draft' = RemapLabels(SplitRoute(
            addEndpointToNet(draft, draft.routes[r].net, x), r, second, x),
            moved, second)
  OBVIOUS
<1>1. Lands(draft, x, draft.routes[r].net)
  BY DEF Lands
<1>2. second \in Routes /\ second \notin DOMAIN draft.routes
  BY Spare
<1>3. Good(draft, draft', {}) /\ JunctionsJoin(draft') /\ draft'.nets = draft.nets
  BY <1>1, <1>2, LandGood DEF Sane
<1>4. Builds(tx, tx')
  BY DEF Sane, Builds, Remembers, Changed
<1> QED
  BY <1>3, <1>4, Firmly

\* Two endpoints put on net n.
LEMMA JoinedGood ==
    ASSUME NEW d, Whole(d), JunctionsJoin(d), NEW n \in NetIds, NEW x, NEW y,
           x \in Terminals => d.on[x] \in {None, n},
           y \in Terminals => d.on[y] \in {None, n}
    PROVE  LET e == addEndpointToNet(addEndpointToNet(
                        [d EXCEPT !.nets = @ \cup {n}], n, x), n, y)
           IN  Good(d, e, {}) /\ JunctionsJoin(e) /\ e.nets = d.nets \cup {n}
<1> DEFINE f == [d EXCEPT !.nets = @ \cup {n}]
           g == addEndpointToNet(f, n, x)
           e == addEndpointToNet(g, n, y)
<1>1. Good(d, f, {}) /\ f.nets = d.nets \cup {n} /\ Only(d, f, {"nets"})
  BY NewNetGood
<1> HIDE DEF f
<1>2. f.on = d.on /\ Whole(f)
  BY <1>1 DEF Only, Fields, Good
<1>3. n \in f.nets
  BY <1>1
<1>4. /\ Good(f, g, {}) /\ g.nets = f.nets /\ Whole(g) /\ Only(f, g, {"on"})
      /\ StayPut(f, g, {x}) /\ PutOn(g, {x}, n)
  BY <1>2, <1>3, AddGood, AddedWhole
<1> HIDE DEF g
<1>5. y \in Terminals => g.on[y] \in {None, n}
  BY <1>2, <1>4 DEF StayPut, PutOn
<1>6. Good(g, e, {}) /\ e.nets = g.nets /\ Only(g, e, {"on"})
  BY <1>3, <1>4, <1>5, AddGood, AddedWhole
<1> HIDE DEF e
<1>7. Good(d, g, {} \cup {})
  BY <1>1, <1>4, GoodThenGood
<1>8. Good(d, e, {} \cup {} \cup {})
  BY <1>1, <1>4, <1>6, <1>7, GoodThenGood
<1>9. e.juncs = d.juncs /\ e.routes = d.routes
  BY <1>1, <1>4, <1>6 DEF Only, Fields
<1> QED
  BY <1>1, <1>4, <1>6, <1>8, <1>9, JoinsAlike DEF e, f, g

LEMMA ConnectFirm == ASSUME Sane, ConnectEndpoints PROVE Firm
<1> PICK x \in Terminals \cup DOMAIN draft.juncs,
         y \in Terminals \cup DOMAIN draft.juncs :
        LET owners == {Owner(draft, x), Owner(draft, y)} \ {None}
        IN  \E n \in IF owners = {} THEN FreshNet \cup PreparedNets ELSE owners :
               /\ owners \subseteq {n}
               /\ draft' = addEndpointToNet(addEndpointToNet(
                     [draft EXCEPT !.nets = @ \cup {n}], n, x), n, y)
  BY DEF ConnectEndpoints
<1> DEFINE owners == {Owner(draft, x), Owner(draft, y)} \ {None}
<1> PICK n \in IF owners = {} THEN FreshNet \cup PreparedNets ELSE owners :
        /\ owners \subseteq {n}
        /\ draft' = addEndpointToNet(addEndpointToNet(
              [draft EXCEPT !.nets = @ \cup {n}], n, x), n, y)
  OBVIOUS
<1>1. n \in draft.nets \cup UnusedNets
  BY Owned, Fresh DEF Sane, PreparedNets
<1>2. n \in NetIds
  BY <1>1, ByFields DEF Sane, Whole, Fielded, UnusedNets
<1>3. /\ x \in Terminals => draft.on[x] \in {None, n}
      /\ y \in Terminals => draft.on[y] \in {None, n}
  BY DEF Owner
<1> HIDE DEF owners
<1> DEFINE e == addEndpointToNet(addEndpointToNet(
                    [draft EXCEPT !.nets = @ \cup {n}], n, x), n, y)
<1>6. Whole(draft) /\ JunctionsJoin(draft)
  BY DEF Sane
<1>7. Good(draft, e, {}) /\ JunctionsJoin(e) /\ e.nets = draft.nets \cup {n}
  BY <1>2, <1>3, <1>6, JoinedGood
<1>4. Good(draft, draft', {}) /\ JunctionsJoin(draft') /\ draft'.nets = draft.nets \cup {n}
  BY <1>7
<1>5. Builds(tx, tx')
  BY Deferrals DEF Sane, ConnectEndpoints
<1> QED
  BY <1>1, <1>4, <1>5, Firmly

\* A terminal taken off its net.
LEMMA LoosedGood ==
    ASSUME NEW d, Whole(d), JunctionsJoin(d), NEW t \in Terminals
    PROVE  LET e == [d EXCEPT !.on[t] = None, !.bound = @ \ {t}]
           IN  Good(d, e, {d.on[t]}) /\ JunctionsJoin(e) /\ e.nets = d.nets
<1> DEFINE e == [d EXCEPT !.on[t] = None, !.bound = @ \ {t}]
<1>1. Whole(e) /\ Only(d, e, {"on", "bound"}) /\ StayPut(d, e, {t})
  BY LoosedWhole
<1> HIDE DEF e
<1>2. /\ e.labels = d.labels /\ e.claims = d.claims /\ e.juncs = d.juncs
      /\ e.routes = d.routes /\ e.nets = d.nets
  BY <1>1 DEF Only, Fields
<1>3. Carries(d, e)
  BY <1>1, <1>2, Undisturbed
<1>4. StillPeopled(d, e, {d.on[t]})
  BY <1>1, <1>2 DEF StillPeopled, Peopled, StayPut
<1> QED
  BY <1>1, <1>2, <1>3, <1>4, JoinsAlike DEF Good, e

LEMMA DisconnectFirm == ASSUME Sane, DisconnectEndpoint PROVE Firm
<1> PICK t \in Terminals :
        LET n == draft.on[t]
        IN  /\ n # None
            /\ draft' = pruneDeferring(
                  [draft EXCEPT !.on[t] = None, !.bound = @ \ {t}], {n})
            /\ tx' = Changed(Deferring([tx EXCEPT !.suppressed = @ \cup {t}], {n}))
  BY DEF DisconnectEndpoint
<1> DEFINE n == draft.on[t]
           e == [draft EXCEPT !.on[t] = None, !.bound = @ \ {t}]
           u == [tx EXCEPT !.suppressed = @ \cup {t}]
<1>1. n # None /\ draft' = pruneDeferring(e, {n}) /\ tx' = Changed(Deferring(u, {n}))
  OBVIOUS
<1>2. Good(draft, e, {n}) /\ JunctionsJoin(e) /\ e.nets = draft.nets
  BY LoosedGood DEF Sane
<1>3. Remembers(u) /\ u.deferred = tx.deferred /\ u.cleared = tx.cleared
  BY DEF Sane, Remembers
<1> HIDE DEF n, e, u
<1>4. Good(e, draft', {}) /\ JunctionsJoin(draft') /\ draft'.nets \subseteq e.nets
  <2>1. Whole(e)
    BY <1>2 DEF Good
  <2>2. JunctionsJoin(e) /\ draft' = pruneDeferring(e, {n})
    BY <1>1, <1>2
  <2> QED
    BY <2>1, <2>2, Pruned
<1>5. Good(draft, draft', {n} \cup {})
  BY <1>2, <1>4, GoodThenGood
<1>6. Builds(u, tx') /\ n \in tx'.deferred
  BY <1>1, <1>3, Deferrals
<1>7. Builds(tx, tx')
  BY <1>3, <1>6 DEF Builds
<1>8. {n} \cup {} \subseteq tx'.deferred \cup tx'.cleared
  BY <1>6
<1> QED
  BY <1>2, <1>4, <1>5, <1>7, <1>8, Firmly

LEMMA ClearFirm == ASSUME Sane, ClearMosBulkDefault PROVE Firm
<1> PICK b \in draft.bound :
        /\ draft' = [draft EXCEPT !.on[b] = None, !.bound = @ \ {b}]
        /\ tx' = Changed([tx EXCEPT !.cleared = @ \cup ({draft.on[b]} \ {None})])
  BY DEF ClearMosBulkDefault
<1> DEFINE n == draft.on[b]
<1>1. b \in Terminals
  BY ByFields DEF Sane, Whole, Fielded, Terminals
<1>2. Good(draft, draft', {n}) /\ JunctionsJoin(draft') /\ draft'.nets = draft.nets
  BY <1>1, LoosedGood DEF Sane
<1>3. n # None => n \in tx'.cleared
  BY DEF Sane, Remembers, Changed
<1>4. Builds(tx, tx')
  BY DEF Sane, Builds, Remembers, Changed
<1>5. None \notin draft.nets
  BY LogicalNetsAssumption, ByFields DEF Sane, Whole, Fielded
<1>6. Good(draft, draft', tx'.deferred \cup tx'.cleared)
  BY <1>2, <1>3, <1>5 DEF Good, StillPeopled
<1> QED
  BY <1>2, <1>4, <1>6, Firmly

\* Routes of which those that d has are on their nets.
Redrawn(d, rs) ==
    /\ PartialFunction(rs, Routes, RouteType)
    /\ DOMAIN d.routes \subseteq DOMAIN rs
    /\ \A r \in DOMAIN d.routes : rs[r].net = d.routes[r].net
    /\ \A r \in DOMAIN rs :
          /\ rs[r].net \in d.nets
          /\ \A j \in EndsOf(rs[r]) \cap Junctions :
                j \in DOMAIN d.juncs /\ d.juncs[j].net = rs[r].net

LEMMA RedrawnFirm ==
    ASSUME Sane, NEW rs, Redrawn(draft, rs), draft' = [draft EXCEPT !.routes = rs],
           Builds(tx, tx')
    PROVE  Firm
<1>1. Fielded(draft) /\ Housed(draft) /\ Whole(draft) /\ JunctionsJoin(draft)
  BY ByFields DEF Sane, Whole
<1>3. /\ PartialFunction(rs, Routes, RouteType)
      /\ DOMAIN draft.routes \subseteq DOMAIN rs
      /\ \A r \in DOMAIN draft.routes : rs[r].net = draft.routes[r].net
      /\ \A r \in DOMAIN rs :
            /\ rs[r].net \in draft.nets
            /\ \A j \in EndsOf(rs[r]) \cap Junctions :
                  j \in DOMAIN draft.juncs /\ draft.juncs[j].net = rs[r].net
  BY DEF Redrawn
<1>4. Whole(draft') /\ Only(draft, draft', {"routes"}) /\ draft'.routes = rs
  BY <1>1, <1>3, RoutesWhole
<1>5. /\ draft'.labels = draft.labels /\ draft'.claims = draft.claims
      /\ draft'.on = draft.on /\ draft'.juncs = draft.juncs
      /\ draft'.nets = draft.nets
  BY <1>4 DEF Only, Fields
<1>6. Carries(draft, draft')
  <2>1. \A r \in DOMAIN draft.routes : draft'.routes[r].net = draft.routes[r].net
    BY <1>3, <1>4
  <2>2. DOMAIN draft.routes \subseteq DOMAIN draft'.routes
    BY <1>3, <1>4
  <2> QED
    BY <1>1, <1>4, <1>5, <2>1, <2>2, Undisturbed
<1>7. StillPeopled(draft, draft', {})
  <2> SUFFICES ASSUME NEW n, Peopled(draft, n) PROVE Peopled(draft', n)
    BY DEF StillPeopled
  <2>1. CASE \E r \in DOMAIN draft.routes : draft.routes[r].net = n
    <3> PICK r \in DOMAIN draft.routes : draft.routes[r].net = n
      BY <2>1
    <3>1. r \in DOMAIN draft'.routes /\ draft'.routes[r].net = n
      BY <1>3, <1>4
    <3> QED
      BY <3>1 DEF Peopled
  <2>2. CASE ~\E r \in DOMAIN draft.routes : draft.routes[r].net = n
    BY <1>5, <2>2 DEF Peopled
  <2> QED
    BY <2>1, <2>2
<1>8. JunctionsJoin(draft')
  BY <1>3, <1>4, <1>5 DEF JunctionsJoin
<1> QED
  BY <1>4, <1>5, <1>6, <1>7, <1>8 DEF Firm, Lasts, StillPeopled

LEMMA SetRoutePathFirm == ASSUME Sane, SetRoutePath PROVE Firm
<1>1. Fielded(draft) /\ Housed(draft) /\ Whole(draft)
  BY ByFields DEF Sane, Whole
<1>2. Builds(tx, tx')
  BY DEF Sane, Builds, Remembers, SetRoutePath
<1>3. DOMAIN draft.routes \subseteq Routes /\ \A r \in DOMAIN draft.routes :
         draft.routes[r] \in RouteType /\ draft.routes[r].net \in draft.nets
  BY <1>1 DEF Fielded, Housed, PartialFunction
<1>4. JunctionsJoin(draft)
  BY DEF Sane
<1>5. PICK r \in UnusedRoute \cup DOMAIN draft.routes, over \in Points \cup {None},
           x \in Terminals \cup DOMAIN draft.juncs,
           y \in Terminals \cup DOMAIN draft.juncs :
        /\ Owner(draft, x) # None /\ Owner(draft, x) = Owner(draft, y)
        /\ r \in DOMAIN draft.routes => draft.routes[r].net = Owner(draft, x)
        /\ draft' = [draft EXCEPT !.routes =
              With(@, r, RouteBetween(r, x, y, over))]
  BY Zenon DEF SetRoutePath
<1> DEFINE route == RouteBetween(r, x, y, over)
           rs == With(draft.routes, r, route)
<1>6. Owner(draft, x) \in draft.nets
  BY <1>1, <1>5, Owned
<1>7. x \in Endpoints /\ y \in Endpoints
  BY <1>1 DEF Fielded, PartialFunction, Endpoints
<1>8. route \in RouteType /\ route.net = Owner(draft, x) /\ EndsOf(route) = {x, y}
  BY <1>1, <1>3, <1>5, <1>6, <1>7 DEF RouteBetween, RouteType, EndsOf, Fielded
<1>9. draft' = [draft EXCEPT !.routes = rs]
  BY <1>5
<1>10. \A j \in {x, y} \cap Junctions :
          j \in DOMAIN draft.juncs /\ draft.juncs[j].net = Owner(draft, x)
  BY <1>5, LogicalNetsAssumption DEF Owner
<1> HIDE DEF route
<1>11. r \in Routes
  BY <1>3, Spare
<1>12. /\ DOMAIN rs = DOMAIN draft.routes \cup {r}
       /\ rs = [q \in DOMAIN rs |-> rs[q]]
       /\ rs[r] = route
       /\ \A q \in DOMAIN draft.routes : q # r => rs[q] = draft.routes[q]
  BY DEF With
<1> HIDE DEF rs
<1>13. PartialFunction(rs, Routes, RouteType)
  BY <1>3, <1>8, <1>11, <1>12 DEF PartialFunction
<1>14. \A q \in DOMAIN rs :
          /\ rs[q].net \in draft.nets
          /\ \A j \in EndsOf(rs[q]) \cap Junctions :
                j \in DOMAIN draft.juncs /\ draft.juncs[j].net = rs[q].net
  BY <1>3, <1>4, <1>6, <1>8, <1>10, <1>12 DEF JunctionsJoin
<1>15. \A q \in DOMAIN draft.routes : rs[q].net = draft.routes[q].net
  BY <1>5, <1>8, <1>12
<1>16. Redrawn(draft, rs)
  BY <1>12, <1>13, <1>14, <1>15 DEF Redrawn
<1> QED
  BY <1>2, <1>9, <1>16, RedrawnFirm

LEMMA RemoveRouteFirm == ASSUME Sane, RemoveRouteGeometry PROVE Firm
<1> PICK r \in DOMAIN draft.routes :
        LET n == draft.routes[r].net
        IN  /\ LabelsAt(draft, r) = {}
            /\ draft' = pruneDeferring([draft EXCEPT !.routes = Without(@, {r})], {n})
            /\ tx' = [Deferring(tx, {n}) EXCEPT !.authored = @ \cup {r}]
  BY DEF RemoveRouteGeometry
<1> DEFINE n == draft.routes[r].net
           rs == Without(draft.routes, {r})
           e == [draft EXCEPT !.routes = rs]
<1>1. Fielded(draft) /\ Housed(draft) /\ Whole(draft) /\ JunctionsJoin(draft)
  BY ByFields DEF Sane, Whole
<1>2. draft' = pruneDeferring(e, {n})
  OBVIOUS
<1>3. DOMAIN draft.routes \subseteq Routes /\ \A q \in DOMAIN draft.routes :
         draft.routes[q] \in RouteType /\ draft.routes[q].net \in draft.nets
  BY <1>1 DEF Fielded, Housed, PartialFunction
<1>4. /\ DOMAIN rs = DOMAIN draft.routes \ {r}
      /\ rs = [q \in DOMAIN rs |-> rs[q]]
      /\ \A q \in DOMAIN rs : rs[q] = draft.routes[q]
  BY DEF Without
<1>5. n \in draft.nets /\ n # None
  BY <1>1, <1>3, LogicalNetsAssumption DEF Fielded
<1>6. tx' = [Deferring(tx, {n}) EXCEPT !.authored = @ \cup {r}] /\ LabelsAt(draft, r) = {}
  OBVIOUS
<1> HIDE DEF rs
<1>7. PartialFunction(rs, Routes, RouteType) /\ \A q \in DOMAIN rs : rs[q].net \in draft.nets
  BY <1>3, <1>4 DEF PartialFunction
<1>8. Whole(e) /\ Only(draft, e, {"routes"}) /\ e.routes = rs
  BY <1>1, <1>7, RoutesWhole
<1> HIDE DEF e
<1>9. /\ e.labels = draft.labels /\ e.claims = draft.claims /\ e.on = draft.on
      /\ e.juncs = draft.juncs /\ e.nets = draft.nets
  BY <1>8 DEF Only, Fields
<1>10. JunctionsJoin(e)
  BY <1>1, <1>4, <1>8, <1>9 DEF JunctionsJoin
<1>11. Carries(draft, e)
  <2>1. \A l \in DOMAIN draft.labels : draft.labels[l].anchor # r
    BY <1>6 DEF LabelsAt
  <2>2. \A l \in DOMAIN draft.labels : draft.labels[l].anchor \in DOMAIN draft.routes
                                         => draft.labels[l].anchor \in DOMAIN e.routes
    BY <1>4, <1>8, <2>1
  <2>3. \A q \in DOMAIN draft.routes : q \in DOMAIN e.routes => e.routes[q].net = draft.routes[q].net
    BY <1>4, <1>8
  <2> QED
    BY <1>1, <1>8, <1>9, <2>2, <2>3, Undisturbed
<1>12. StillPeopled(draft, e, {n})
  <2>1. ASSUME NEW k, k # n, Peopled(draft, k) PROVE Peopled(e, k)
    <3>1. \A i \in DOMAIN draft.routes : draft.routes[i].net = k => i \in DOMAIN rs
      BY <1>4, <2>1
    <3> HIDE DEF n
    <3> QED
      BY <1>4, <1>8, <1>9, <2>1, <3>1 DEF Peopled
  <2> QED
    BY <2>1 DEF StillPeopled
<1>13. Good(draft, e, {n})
  BY <1>8, <1>11, <1>12 DEF Good
<1> HIDE DEF n
<1>14. Good(e, draft', {}) /\ JunctionsJoin(draft') /\ draft'.nets \subseteq e.nets
  BY <1>2, <1>8, <1>10, Pruned
<1>15. Good(draft, draft', {n} \cup {})
  BY <1>9, <1>13, <1>14, GoodThenGood
<1>16. n \in tx'.deferred /\ Builds(tx, tx')
  <2> DEFINE t == Deferring(tx, {n})
  <2>1. Builds(tx, t) /\ n \in t.deferred
    BY <1>5, Deferrals DEF Sane
  <2>2. tx' = [t EXCEPT !.authored = @ \cup {r}]
    BY <1>6
  <2> HIDE DEF t
  <2> QED
    BY <2>1, <2>2 DEF Builds, Remembers
<1>17. {n} \cup {} \subseteq tx'.deferred \cup tx'.cleared
  BY <1>16
<1> QED
  BY <1>9, <1>14, <1>15, <1>16, <1>17, Firmly

LEMMA CutFirm == ASSUME Sane, CutConnection PROVE Firm
<1> PICK r \in DOMAIN draft.routes : Cut(r)
  BY DEF CutConnection
<1>1. /\ Good(draft, draft', tx'.deferred) /\ JunctionsJoin(draft')
      /\ draft'.nets \subseteq draft.nets \cup UnusedNets
      /\ Builds(tx, tx')
  BY CutGood DEF Sane
<1> QED
  BY <1>1, Firmly

LEMMA DefaultFirm == ASSUME Sane, SetMosBulkDefaults PROVE Firm
<1> PICK n \in draft.nets \cup {None} : draft' = [draft EXCEPT !.default = n]
  BY DEF SetMosBulkDefaults
<1>1. Whole(draft') /\ Only(draft, draft', {"default"})
  BY DefaultWhole DEF Sane
<1>2. /\ draft'.labels = draft.labels /\ draft'.claims = draft.claims
      /\ draft'.on = draft.on /\ draft'.juncs = draft.juncs
      /\ draft'.routes = draft.routes /\ draft'.nets = draft.nets
  BY <1>1 DEF Only, Fields
<1>3. Good(draft, draft', {})
  BY <1>1, <1>2, AlikeGood DEF Sane
<1>4. Builds(tx, tx')
  BY Deferrals DEF Sane, SetMosBulkDefaults
<1> QED
  BY <1>2, <1>3, <1>4, JoinsAlike, Firmly DEF Sane

\* Bodies that are moved leave only the nets that LeftByBodies says.
LEMMA BodiesGood ==
    ASSUME NEW d, Whole(d), JunctionsJoin(d), NEW e, Whole(e),
           Only(d, e, {"on", "bound", "default"}), StayPut(d, e, Bodies)
    PROVE  Good(d, e, LeftByBodies(d, e)) /\ JunctionsJoin(e) /\ e.nets = d.nets
<1>1. /\ e.labels = d.labels /\ e.claims = d.claims /\ e.juncs = d.juncs
      /\ e.routes = d.routes /\ e.nets = d.nets
  BY DEF Only, Fields
<1>2. Carries(d, e)
  BY <1>1, Undisturbed
<1>3. None \notin d.nets
  BY LogicalNetsAssumption, ByFields DEF Whole, Fielded
<1>4. ASSUME NEW n \in d.nets, NEW t \in Terminals, d.on[t] = n
      PROVE  Peopled(e, n) \/ n \in LeftByBodies(d, e)
  <2>1. CASE e.on[t] = n
    BY <2>1 DEF Peopled
  <2>2. CASE e.on[t] # n
    <3>1. t \in Bodies
      BY <1>4, <2>2 DEF StayPut
    <3>2. t \in {b \in Bodies : d.on[b] # e.on[b]}
      BY <1>4, <2>2, <3>1
    <3> QED
      BY <1>3, <1>4, <3>2 DEF LeftByBodies
  <2> QED
    BY <2>1, <2>2
<1>5. StillPeopled(d, e, LeftByBodies(d, e))
  BY <1>1, <1>4 DEF StillPeopled, Peopled
<1> QED
  BY <1>1, <1>2, <1>5, JoinsAlike DEF Good

LEMMA ReconcileFirm == ASSUME Sane, ReconcileMosBulk PROVE Firm
<1> DEFINE e == reconcileMosBulk(draft)
           left == LeftByBodies(draft, e)
           t == Deferring(tx, left)
<1>1. draft' = pruneDeferring(e, left)
  BY DEF ReconcileMosBulk
<1>2. tx' = [t EXCEPT !.changed = @ \/ e.on # draft.on \/ draft.bound \ e.bound # {}]
  BY DEF ReconcileMosBulk
<1>3. Whole(e) /\ Only(draft, e, {"on", "bound"}) /\ StayPut(draft, e, Bodies)
  BY ReconciledWhole DEF Sane
<1> HIDE DEF e
<1>4. Only(draft, e, {"on", "bound", "default"})
  BY <1>3 DEF Only
<1>5. Good(draft, e, left) /\ JunctionsJoin(e) /\ e.nets = draft.nets
  BY <1>3, <1>4, BodiesGood DEF Sane
<1>6. None \notin left
  BY DEF LeftByBodies
<1> HIDE DEF left
<1>7. Good(e, draft', {}) /\ JunctionsJoin(draft') /\ draft'.nets \subseteq e.nets
  BY <1>1, <1>3, <1>5, Pruned
<1>8. Good(draft, draft', left \cup {})
  BY <1>5, <1>7, GoodThenGood
<1>9. Builds(tx, t) /\ left \subseteq t.deferred
  BY <1>6, Deferrals DEF Sane
<1> HIDE DEF t
<1>10. Builds(tx, tx') /\ left \subseteq tx'.deferred
  BY <1>2, <1>9 DEF Builds, Remembers
<1>11. left \cup {} \subseteq tx'.deferred \cup tx'.cleared
  BY <1>10
<1> QED
  BY <1>5, <1>7, <1>8, <1>10, <1>11, Firmly

LEMMA JoinFirm == ASSUME Sane, JoinContact PROVE Firm
<1> PICK pair \in Joinable :
        LET x == pair[1]
            y == pair[2]
            n == Owner(draft, x)
            m == Owner(draft, y)
        IN  \E k \in IF {n, m} = {None} THEN FreshNet
                     ELSE {BondedNet(draft, n, m)} :
               draft' = addEndpointToNet(addEndpointToNet(
                   [Bonded(draft, n, m) EXCEPT !.nets = @ \cup {k}],
                   k, x), k, y)
  BY DEF JoinContact
<1> DEFINE x == pair[1]
           y == pair[2]
           n == Owner(draft, x)
           m == Owner(draft, y)
           d == Bonded(draft, n, m)
<1> PICK k : /\ k \in IF {n, m} = {None} THEN FreshNet
                       ELSE {BondedNet(draft, n, m)}
             /\ draft' = addEndpointToNet(addEndpointToNet(
                    [d EXCEPT !.nets = @ \cup {k}], k, x), k, y)
  OBVIOUS
<1> DEFINE e == addEndpointToNet(addEndpointToNet(
                    [d EXCEPT !.nets = @ \cup {k}], k, x), k, y)
<1>1. Whole(draft) /\ JunctionsJoin(draft)
  BY DEF Sane
<1>2. n \in draft.nets \cup {None} /\ m \in draft.nets \cup {None}
  BY <1>1, Owned
<1>3. Owner(draft, x) = n /\ Owner(draft, y) = m
  OBVIOUS
<1>4. draft' = e
  OBVIOUS
<1> HIDE DEF x, y, n, m
<1>5. /\ Good(draft, d, {}) /\ JunctionsJoin(d) /\ d.nets \subseteq draft.nets
      /\ {n, m} # {None} => BondedNet(draft, n, m) \in d.nets
      /\ Bonds(draft, d, n, m, BondedNet(draft, n, m))
  BY <1>1, <1>2, BondGood
<1>6. {n, m} = {None} => d = draft
  BY DEF Bonded
<1> HIDE DEF d
<1>7. k \in draft.nets \cup UnusedNets
  BY <1>5, Fresh
<1>8. k \in NetIds
  BY <1>1, <1>7, ByFields DEF Whole, Fielded, UnusedNets
<1>9. /\ Owner(d, x) \in {None, k}
      /\ Owner(d, y) \in {None, k}
  <2>1. CASE {n, m} = {None}
    BY <1>3, <1>6, <2>1
  <2>2. CASE {n, m} # {None}
    <3>1. k = BondedNet(draft, n, m)
      BY <2>2
    <3> QED
      BY <1>3, <1>5, <3>1 DEF Bonds
  <2> QED
    BY <2>1, <2>2
<1>10. /\ x \in Terminals => d.on[x] \in {None, k}
       /\ y \in Terminals => d.on[y] \in {None, k}
  BY <1>9 DEF Owner
<1>11. Good(d, e, {}) /\ JunctionsJoin(e) /\ e.nets = d.nets \cup {k}
  <2>1. Whole(d) /\ JunctionsJoin(d)
    BY <1>5 DEF Good
  <2> QED
    BY <1>8, <1>10, <2>1, JoinedGood
<1> HIDE DEF e
<1>12. k \notin UnusedNets => k \in d.nets
  <2>1. CASE {n, m} = {None}
    BY <2>1, Fresh
  <2>2. CASE {n, m} # {None}
    BY <1>5, <2>2
  <2> QED
    BY <2>1, <2>2
<1>13. draft.nets \cap e.nets \subseteq d.nets
  BY <1>11, <1>12 DEF UnusedNets
<1>14. Good(draft, e, {} \cup {})
  BY <1>5, <1>11, <1>13, GoodThenGood
<1>15. Builds(tx, tx')
  BY Deferrals DEF Sane, JoinContact
<1>16. draft'.nets \subseteq draft.nets \cup UnusedNets
  BY <1>4, <1>5, <1>7, <1>11
<1> QED
  BY <1>4, <1>11, <1>14, <1>15, <1>16, Firmly

LEMMA AttachContactFirm == ASSUME Sane, AttachContact PROVE Firm
<1> PICK pair \in Attachable, second \in UnusedRoute :
        LET x == pair[1]
            r == pair[2]
            n == Owner(draft, x)
            m == draft.routes[r].net
            bonded == Bonded(draft, n, m)
        IN  /\ \E moved \in SUBSET LabelsAt(draft, r) :
                  draft' = RemapLabels(SplitRoute(
                      addEndpointToNet(bonded, bonded.routes[r].net, x),
                      r, second, x), moved, second)
            /\ tx' = Changed([tx EXCEPT !.typed = Handed(@, r, second),
                                        !.landed = Handed(@, r, second)])
  BY DEF AttachContact
<1> DEFINE x == pair[1]
           r == pair[2]
           n == Owner(draft, x)
           m == draft.routes[r].net
           k == BondedNet(draft, n, m)
           d == Bonded(draft, n, m)
<1> PICK moved \in SUBSET LabelsAt(draft, r) :
        draft' = RemapLabels(SplitRoute(addEndpointToNet(d, d.routes[r].net, x),
                                        r, second, x), moved, second)
  OBVIOUS
<1>1. r \in DOMAIN draft.routes /\ x \in Contactable
  BY DEF Attachable
<1>2. x \in Terminals \cup DOMAIN draft.juncs
  BY <1>1, ByFields DEF Contactable, VisibleEndpoints, Sane, Whole, Fielded
<1>3. Whole(draft) /\ JunctionsJoin(draft)
  BY DEF Sane
<1>4. n \in draft.nets \cup {None} /\ m \in draft.nets /\ m # None
  BY <1>1, <1>3, Owned, ByFields, LogicalNetsAssumption DEF Whole, Housed, Fielded
<1>5. Builds(tx, tx')
  BY DEF Sane, Builds, Remembers, Changed
<1>6. Owner(draft, x) = n /\ draft.routes[r].net = m
  OBVIOUS
<1> HIDE DEF x, r, n, m
<1>7. /\ Good(draft, d, {}) /\ JunctionsJoin(d) /\ d.nets \subseteq draft.nets
      /\ k \in d.nets
      /\ Bonds(draft, d, n, m, k)
  <2>1. {n, m} # {None} /\ m \in draft.nets \cup {None}
    BY <1>4
  <2> QED
    BY <1>3, <1>4, <2>1, BondGood
<1> HIDE DEF d, k
<1>8. r \in DOMAIN d.routes /\ d.routes[r].net = k
  BY <1>1, <1>4, <1>6, <1>7 DEF Bonds
<1>9. Lands(d, x, d.routes[r].net)
  <2>1. x \in Terminals \cup DOMAIN d.juncs
    BY <1>2, <1>7 DEF Bonds
  <2>2. Owner(d, x) \in {None, k}
    BY <1>6, <1>7 DEF Bonds
  <2> QED
    BY <1>8, <2>1, <2>2 DEF Lands
<1>10. second \in Routes /\ second \notin DOMAIN d.routes
  BY <1>7, Spare DEF Bonds
<1>11. moved \subseteq LabelsAt(d, r)
  BY <1>7 DEF Bonds
<1>12. Good(d, draft', {}) /\ JunctionsJoin(draft') /\ draft'.nets = d.nets
  <2>1. Whole(d)
    BY <1>7 DEF Good
  <2> QED
    BY <1>7, <1>8, <1>9, <1>10, <1>11, <2>1, LandGood
<1>13. Good(draft, draft', {} \cup {})
  BY <1>7, <1>12, GoodThenGood
<1> QED
  BY <1>5, <1>7, <1>12, <1>13, Firmly

LEMMA FinishFirm == ASSUME Sane, FinishEdits PROVE Firm
<1>1. draft' = draft
  BY DEF FinishEdits
<1>2. Builds(tx, tx')
  BY DEF Sane, Builds, Remembers, FinishEdits
<1>3. Good(draft, draft', {}) /\ JunctionsJoin(draft')
  BY <1>1, GoodSelf DEF Sane
<1> QED
  BY <1>1, <1>2, <1>3, Firmly

-------------------------------------------------------------------------------
\* The invariant of whole Documents, and the theorems it gives.

\* Doc and draft are whole; what a net of the Document lost is remembered.
Settles ==
    /\ Whole(doc) /\ JunctionsJoin(doc) /\ Sane
    /\ StillPeopled(doc, draft, tx.deferred \cup tx.cleared)

LEMMA InitSettles == Init => Settles
<1> SUFFICES ASSUME Init PROVE Settles
  OBVIOUS
<1>1. draft = doc /\ tx = NoTransaction /\ IsDocument(doc) /\ WellFormed(doc)
  BY EditTransactionAssumption DEF Init
<1>2. Fielded(doc)
  BY <1>1, ByFields
<1>3. \A x \in Endpoints : Owner(doc, x) \in doc.nets \cup {None}
  BY <1>1 DEF WellFormed, Owner
<1>4. \A r \in DOMAIN doc.routes :
          /\ doc.routes[r].from \in Endpoints /\ doc.routes[r].net # None
          /\ \A x \in EndsOf(doc.routes[r]) : Owner(doc, x) = doc.routes[r].net
  BY <1>1, <1>2, LogicalNetsAssumption DEF WellFormed, Fielded, PartialFunction, RouteType
<1>5. \A r \in DOMAIN doc.routes : doc.routes[r].net \in doc.nets
  BY <1>3, <1>4 DEF EndsOf
<1>6. Housed(doc)
  BY <1>1, <1>5 DEF WellFormed, Housed
<1>7. JunctionsJoin(doc)
  BY <1>4, LogicalNetsAssumption DEF JunctionsJoin, Owner, Endpoints
<1>8. Remembers(tx) /\ StillPeopled(doc, draft, tx.deferred \cup tx.cleared)
  BY <1>1 DEF NoTransaction, Remembers, StillPeopled
<1> QED
  BY <1>1, <1>6, <1>7, <1>8 DEF Settles, Sane, Whole

LEMMA LastsSettles == ASSUME Settles, Lasts, UNCHANGED doc PROVE Settles'
<1>1. StillPeopled(doc, draft', tx'.deferred \cup tx'.cleared)
  <2> SUFFICES ASSUME NEW n \in doc.nets \cap draft'.nets, Peopled(doc, n)
               PROVE  Peopled(draft', n) \/ n \in tx'.deferred \cup tx'.cleared
    BY DEF StillPeopled
  <2>1. n \in draft.nets
    BY DEF Lasts, UnusedNets
  <2>2. Peopled(draft, n) \/ n \in tx.deferred \cup tx.cleared
    BY <2>1 DEF Settles, StillPeopled
  <2> QED
    BY <2>1, <2>2 DEF Lasts, StillPeopled, Builds
<1> QED
  BY <1>1 DEF Settles, Sane, Lasts, Builds

LEMMA EditCarries ==
    ASSUME Sane, Edit, ~UpsertEvidence, ~UpsertAnnotation
    PROVE  Lasts /\ CarriesOn(draft, draft')
<1>1. ASSUME Firm PROVE Lasts /\ CarriesOn(draft, draft')
  BY <1>1 DEF Firm, Carries, CarriesOn
<1> QED
  BY <1>1, CreateFirm, MergeFirm, RemoveEvidenceLasts, RemoveAnnotationLasts,
     PlaceFirm, AddJunctionFirm, RemoveJunctionLasts, AttachFirm, ConnectFirm,
     DisconnectFirm, SetRoutePathFirm, RemoveRouteFirm, CutFirm, DefaultFirm,
     ReconcileFirm, ClearFirm DEF Edit

LEMMA EditLasts == ASSUME Sane, Edit PROVE Lasts
BY EditCarries, UpsertEvidenceLasts, AnnotationLasts

LEMMA ContactCarries ==
    ASSUME Sane, FinishEdits \/ JoinContact \/ AttachContact
    PROVE  Lasts /\ CarriesOn(draft, draft')
BY FinishFirm, JoinFirm, AttachContactFirm DEF Firm, Carries, CarriesOn

\* The end of a transaction: the policy moves bodies, empty nets go.
LEMMA Applied ==
    ASSUME Settles, Apply
    PROVE  /\ Settles'
           /\ CarriesOn(draft, draft')
           /\ \A n \in (doc.nets \cap doc'.nets) \ tx.cleared :
                Populated(doc, n) /\ Unowned(doc', n)
                => \E c \in ClaimsOn(doc', {n}) : c.owner \in tx.protected
<1> DEFINE bound == reconcileBindings(revokeSupplyDefault(doc, draft))
           e == Normalized
           gone == bound.nets \ e.nets
           left == LeftByBodies(draft, bound)
<1> PICK status : /\ doc' = [e EXCEPT !.status = status]
                  /\ status \in {"connectivity-modified", e.status}
  BY DEF Apply
<1>1. draft' = doc' /\ tx' = NoTransaction
  BY DEF Apply, Idle
<1>2. /\ Whole(e) /\ Whole(bound) /\ Only(draft, bound, {"on", "bound", "default"})
      /\ StayPut(draft, bound, Bodies)
      /\ Only(bound, e, {"nets", "claims", "sources", "default"})
      /\ e.claims = {c \in bound.claims : c.net \notin gone}
      /\ gone = {n \in (tx.deferred \cup left) \cap bound.nets :
                   /\ Unowned(bound, n)
                   /\ \A c \in ClaimsOn(bound, {n}) : c.owner \notin tx.protected}
      /\ e.nets = bound.nets \ gone
  BY NormalizedWhole DEF Settles, Sane
<1> HIDE DEF bound, e, gone, left
<1>3. Good(draft, bound, left) /\ JunctionsJoin(bound) /\ bound.nets = draft.nets
  BY <1>2, BodiesGood DEF Settles, Sane, left
<1>4. IsRecord(e) /\ Fielded(e) /\ Housed(e)
  BY <1>2, ByFields DEF Whole
<1>5. IsRecord(doc') /\ Only(e, doc', {"status"}) /\ doc'.status = status
  BY <1>4 DEF IsRecord, Fields, Only
<1>6. /\ doc'.nets = e.nets /\ doc'.on = bound.on /\ doc'.juncs = bound.juncs
      /\ doc'.routes = bound.routes /\ doc'.labels = bound.labels
      /\ doc'.claims = e.claims
  BY <1>2, <1>5 DEF Only, Fields
<1>7. Whole(doc')
  <2>1. Fielded(doc') /\ Housed(doc')
    BY <1>4, <1>5 DEF Fielded, Housed, Only, Fields
  <2> QED
    BY <1>5, <2>1, WholeBy
<1>8. JunctionsJoin(doc')
  BY <1>3, <1>6, JoinsAlike
<1>9. Settles'
  <2>1. Remembers(tx')
    BY <1>1 DEF NoTransaction, Remembers
  <2>2. StillPeopled(doc', draft', tx'.deferred \cup tx'.cleared)
    BY <1>1 DEF StillPeopled
  <2> QED
    BY <1>1, <1>7, <1>8, <2>1, <2>2 DEF Settles, Sane
<1>10. CarriesOn(draft, draft')
  <2>1. CarriesOn(bound, doc')
    BY <1>2, <1>6, <1>7, Undisturbed
  <2> QED
    BY <1>1, <1>3, <2>1 DEF Good, Carries, CarriesOn
<1>11. ASSUME NEW n \in (doc.nets \cap doc'.nets) \ tx.cleared,
              Populated(doc, n), Unowned(doc', n)
       PROVE  \E c \in ClaimsOn(doc', {n}) : c.owner \in tx.protected
  <2>1. Unowned(bound, n)
    BY <1>6, <1>11 DEF Unowned, RoutesOf
  <2>2. ~Peopled(bound, n)
    BY <2>1 DEF Unowned, Peopled, RoutesOf
  <2>3. n \in bound.nets /\ n \notin gone /\ n \in draft.nets
    BY <1>2, <1>3, <1>6, <1>11
  <2>4. Peopled(doc, n)
    BY <1>11, PeopledIs DEF Settles
  <2>5. n \in tx.deferred \cup left
    BY <1>3, <1>11, <2>2, <2>3, <2>4 DEF Settles, StillPeopled, Good
  <2>6. PICK c \in ClaimsOn(bound, {n}) : c.owner \in tx.protected
    BY <1>2, <2>1, <2>3, <2>5
  <2>7. c \in ClaimsOn(doc', {n})
    BY <1>2, <1>6, <2>3, <2>6 DEF ClaimsOn
  <2> QED
    BY <2>6, <2>7
<1> QED
  BY <1>9, <1>10, <1>11

LEMMA RejectSettles == ASSUME Settles, RejectTransaction PROVE Settles'
<1>1. draft' = doc /\ doc' = doc /\ tx' = NoTransaction
  BY DEF RejectTransaction, Idle
<1>2. Remembers(tx') /\ StillPeopled(doc', draft', tx'.deferred \cup tx'.cleared)
  BY <1>1 DEF NoTransaction, Remembers, StillPeopled
<1> QED
  BY <1>1, <1>2 DEF Settles, Sane

LEMMA SettledStep == ASSUME IInv, Settles, [Next]_vars PROVE Settles'
<1>1. CASE Edit
  BY <1>1, EditLasts, EditStep, LastsSettles DEF Settles
<1>2. CASE FinishEdits \/ JoinContact \/ AttachContact
  <2>1. UNCHANGED doc
    BY <1>2 DEF FinishEdits, JoinContact, AttachContact
  <2> QED
    BY <1>2, <2>1, ContactCarries, LastsSettles DEF Settles
<1>3. CASE Apply
  BY <1>3, Applied
<1>4. CASE RejectTransaction
  BY <1>4, RejectSettles
<1>5. CASE UNCHANGED vars
  BY <1>5 DEF vars, Settles, Sane
<1> QED
  BY <1>1, <1>2, <1>3, <1>4, <1>5 DEF Next, Execute

\* Document and draft are well typed and keep their records on nets that
\* exist, Junctions on the nets of their Routes, after every step.
THEOREM DocumentsStayWhole == Spec => [](Whole(doc) /\ Whole(draft))
<1>1. IInv /\ Settles /\ [Next]_vars => Settles'
  BY SettledStep
<1>2. Settles => Whole(doc) /\ Whole(draft)
  BY DEF Settles, Sane
<1> QED
  BY Invariance, InitSettles, <1>1, <1>2, PTL DEF Spec

\* The invariant holds of every state that is reached.
LEMMA Settlement == Spec => []Settles
<1>1. IInv /\ Settles /\ [Next]_vars => Settles'
  BY SettledStep
<1> QED
  BY Invariance, InitSettles, <1>1, PTL DEF Spec

\* A net that a transaction leaves without terminal, Junction and Route has been
\* retired when the edits are applied, whichever edit took the last of them and
\* whichever edit deferred its removal (pruneBaseNetIfUnused, deferredPrune).
THEOREM NoGhostStays == Spec => NoGhostNets
<1>1. IInv /\ Settles /\ [Next]_vars =>
         [Committed => \A n \in (doc.nets \cap doc'.nets) \ tx.cleared :
            Populated(doc, n) /\ Unowned(doc', n)
            => \E c \in ClaimsOn(doc', {n}) : c.owner \in tx.protected]_vars
  BY NextStep, Applied
<1> QED
  BY Invariance, Settlement, <1>1, PTL DEF Spec, NoGhostNets

\* No edit, contact or commit parts a label from the net it stands on: after a
\* cut its claim goes with the group of its anchor, after a merge with the net
\* that is kept (retargetOwnerEvidenceAfterSplit, mergeBaseNets).
THEOREM NamesFollowTheWire == Spec => LabelsStayOnTheirWire
<1>1. ASSUME IInv, Settles, Next,
             ~(UpsertAnnotation \/ UpsertEvidence \/ RejectTransaction)
      PROVE  CarriesOn(draft, draft')
  BY <1>1, EditCarries, ContactCarries, Applied DEF Next, Execute, Settles
<1>2. IInv /\ Settles /\ [Next]_vars =>
       [\A l \in Labels :
         /\ NamesItsWire(draft, l)
         /\ \E c \in draft'.claims : c.owner = l
         /\ NetOfAnchor(draft', draft'.labels[l].anchor) # None
         /\ ~(UpsertAnnotation \/ UpsertEvidence \/ RejectTransaction)
         => NamesItsWire(draft', l)]_vars
  BY <1>1 DEF CarriesOn
<1> QED
  BY Invariance, Settlement, <1>2, PTL DEF Spec, LabelsStayOnTheirWire

\* However many Routes and contacts a net has, a cut gives two endpoints one net
\* exactly when a path of Routes and contacts is left between them
\* (cut_connection, netEndpointGroups).
THEOREM CutsSeparate == Spec => CutSeparates
<1>1. ASSUME Settles, NEW r \in Routes, IsCut(r)
      PROVE  LET n == draft.routes[r].net
                 left == CutPrepared(draft, r)
                 S == netEndpoints(left, n)
             IN  \A e, f \in S :
                    (Owner(draft', e) = Owner(draft', f)) <=>
                        ~Apart(left, n, S, e, f)
  <2> DEFINE n == draft.routes[r].net
             p == CutPrepared(draft, r)
  <2>1. Cut(r) /\ r \in DOMAIN draft.routes
    BY <1>1 DEF IsCut
  <2>2. /\ Whole(p)
        /\ \A x, y \in netEndpoints(p, n) :
             Owner(draft', x) = Owner(draft', y) <=> Group(p, n, x) = Group(p, n, y)
    BY <1>1, <2>1, CutGood DEF Settles, Sane
  <2> HIDE DEF n, p
  <2>3. \A x, y \in netEndpoints(p, n) :
             Owner(draft', x) = Owner(draft', y) <=> ~Apart(p, n, netEndpoints(p, n), x, y)
    BY <2>2, Divisions
  <2> QED
    BY <2>3 DEF n, p
<1>2. Settles =>
       [\A r \in Routes : IsCut(r) =>
         LET n == draft.routes[r].net
             left == CutPrepared(draft, r)
             S == netEndpoints(left, n)
         IN  \A e, f \in S :
                (Owner(draft', e) = Owner(draft', f)) <=>
                    ~Apart(left, n, S, e, f)]_vars
  BY <1>1
<1> QED
  BY Settlement, <1>2, PTL DEF Spec, CutSeparates

-------------------------------------------------------------------------------
\* What a cut leaves said of markers.

\* Of a draft in which the claims of one net are scattered over its parts, as a
\* cut leaves it: the part of a marker says what the marker stands for, and the
\* part of no Ground marker and no label is not node 0.
LEMMA ScatteredSupply ==
    ASSUME NEW d, Whole(d), NEW n \in d.nets, NEW e, Whole(e),
           NEW P, n \in P, P \cap d.nets = {n}, P \subseteq e.nets,
           Scatters(WithMarkersNamed(d, n), e, n, P),
           NEW m \in Markers, InPlace(d, n), Speaks(d, n, m),
           PowerOf(d, n) = SupplyOf(m)
    PROVE  /\ PowerOf(e, e.on[m]) = SupplyOf(m)
           /\ NameOf(e, e.on[m]) = NameOf(d, n)
           /\ \A t \in Terminals : d.on[t] = n =>
                 /\ PowerOf(e, e.on[t]) \in {SupplyOf(m), "none"}
                 /\ NameOf(e, e.on[t]) \in {NameOf(d, n), None}
           /\ m \in Grounds /\ NameOf(d, n) = "0" =>
                \A t \in Terminals :
                   /\ d.on[t] = n
                   /\ \A g \in Grounds : e.on[g] # e.on[t]
                   /\ \A c \in ClaimsOn(e, {e.on[t]}) : c.owner \notin Labels
                   => PowerOf(e, e.on[t]) # "ground"
<1> DEFINE q == WithMarkersNamed(d, n)
           ns == LogicalNet(d, n)
           name == NameOf(d, n)
           scope == ScopeOf(d, n)
           power == PowerOf(d, n)
           missing == missingPowerMarkerClaims(d, n)
           claims == d.claims \cup missing
           grounded == \E c \in claims : /\ c.net = n /\ c.name = "0"
                                         /\ c.scope = "global"
                                         /\ c.owner \in Grounds
<1>1. /\ Whole(q) /\ q.on = d.on
      /\ \A c \in q.claims \ d.claims : c \in missing
      /\ \A c \in d.claims : c.net # n \/ c.owner # "declaration" => c \in q.claims
  BY NamedWhole DEF Only, Fields
<1>2. q.claims = {c \in claims : ~(/\ grounded /\ c.net = n /\ c.name = "0"
                                   /\ c.owner = "declaration")}
  BY ByFields DEF Whole, WithMarkersNamed, IsRecord, Fields
<1>3. /\ name # None /\ scope # None /\ power \in {"ground", "vdd"}
      /\ power = SupplyOf(m) /\ m \in Terminals /\ d.on[m] = n
  BY DEF InPlace, Speaks, SupplyOf, Terminals
<1>4. NamesOn(d, ns) = {name} /\ PowersOn(d, ns) = {power} /\ n \in ns
  BY <1>3, Said, Unambiguous, LogicalNets
<1>5. ns \notin {issue[2] : issue \in Conflicts(d)}
  <2> SUFFICES ASSUME NEW issue \in Conflicts(d), issue[2] = ns PROVE FALSE
    OBVIOUS
  <2>1. PICK k \in d.nets :
           LET ks == LogicalNet(d, k)
           IN  issue \in {i \in {<<"name", ks>>, <<"scope", ks>>, <<"power", ks>>} :
                  CASE i[1] = "name" -> Cardinality(NamesOn(d, ks)) > 1
                    [] i[1] = "scope" -> ScopeOf(d, k) = None
                    [] OTHER -> PowerOf(d, k) = "conflict"}
    BY DEF Conflicts
  <2>2. LogicalNet(d, k) = ns
    BY <2>1
  <2>3. ScopeOf(d, k) = scope /\ PowerOf(d, k) = power
    BY <2>2 DEF ScopeOf, PowerOf
  <2>4. ~(Cardinality(NamesOn(d, ns)) > 1)
    <3>1. Cardinality({name}) = 1
      BY FS_Singleton
    <3>2. NamesOn(d, ns) = {name}
      BY <1>4
    <3> HIDE DEF name, ns
    <3> QED
      BY <3>1, <3>2
  <2> QED
    BY <1>3, <2>1, <2>2, <2>3, <2>4
<1> HIDE DEF q, ns, name, scope, power, grounded
<1>6. \A c \in missing : /\ c.net = n /\ c.name = name /\ c.owner \in Markers
                         /\ d.on[c.owner] = n /\ c.power = power
                         /\ c.power = SupplyOf(c.owner)
  <2> SUFFICES ASSUME NEW c \in missing
               PROVE  /\ c.net = n /\ c.name = name /\ c.owner \in Markers
                      /\ d.on[c.owner] = n /\ c.power = power
                      /\ c.power = SupplyOf(c.owner)
    OBVIOUS
  <2>1. /\ c.net = n /\ c.name = name /\ c.owner \in Markers /\ d.on[c.owner] = n
        /\ c.power = IF c.owner \in Grounds THEN "ground" ELSE "vdd"
        /\ c.owner \in Grounds => power # "vdd"
        /\ c.owner \notin Grounds => power = "vdd"
    BY DEF missingPowerMarkerClaims, name, power
  <2> QED
    BY <1>3, <2>1 DEF SupplyOf
<1>7. ASSUME NEW c \in d.claims, c.net = n
      PROVE  /\ c.name = name /\ (c.power # "none" => c.power = power)
             /\ c.owner \in Markers => d.on[c.owner] = n /\ c.power = SupplyOf(c.owner)
             /\ c.owner \in Grounds => c.scope = "global"
  <2>1. c.name = name /\ (c.power # "none" => c.power = power)
    BY <1>4, <1>7 DEF NamesOn, PowersOn, ClaimsOn
  <2> QED
    BY <1>7, <2>1 DEF InPlace, ClaimsOn
\* m has a claim of its own on n, stated before or for the cut.
<1>8. \E c \in claims : /\ c.net = n /\ c.owner = m /\ c.name = name /\ c.power = power
                        /\ m \in Grounds /\ name = "0" => c.scope = "global"
  <2>1. CASE \E c \in ClaimsOn(d, {n}) : c.owner = m
    BY <1>3, <1>7, <2>1 DEF ClaimsOn
  <2>2. CASE ~\E c \in ClaimsOn(d, {n}) : c.owner = m
    <3> DEFINE c == [owner |-> m, net |-> n, name |-> name, scope |-> scope,
                     power |-> IF m \in Grounds THEN "ground" ELSE "vdd"]
    <3>1. /\ \A b \in d.claims : b.owner # m
          /\ m \in Grounds => name = "0" /\ scope = "global"
      BY <2>2 DEF Speaks, name, scope
    <3>2. /\ m \in Grounds => power = "ground"
          /\ m \notin Grounds => power = "vdd"
      BY <1>3 DEF SupplyOf
    <3>3. c \in missing
      BY <1>3, <1>5, <3>1, <3>2 DEF missingPowerMarkerClaims, name, scope, power, ns
    <3> HIDE DEF missing
    <3> QED
      BY <1>3, <3>1, <3>2, <3>3 DEF SupplyOf
  <2> QED
    BY <2>1, <2>2
<1>9. PICK own \in claims : /\ own.net = n /\ own.owner = m
                            /\ own.name = name /\ own.power = power
                            /\ m \in Grounds /\ name = "0" => own.scope = "global"
  BY <1>8
<1>10. own \in q.claims
  <2>1. own.owner # "declaration"
    BY <1>9, LogicalNetsAssumption
  <2> QED
    BY <1>2, <1>9, <2>1
<1> HIDE DEF missing
<1>11. \A c \in claims : c.net \in d.nets
  BY <1>6 DEF Whole, Housed
<1>12. /\ \A b \in e.claims : \E c \in q.claims :
             /\ Says(b, c)
             /\ c.net = n => /\ b.net \in P
                             /\ c.owner \in Markers => b.net = e.on[c.owner]
             /\ c.net # n => b.net = c.net
       /\ \A c \in q.claims : c.net = n /\ c.owner \in Markers =>
             \E b \in e.claims : Says(b, c) /\ b.net = e.on[c.owner]
       /\ \A t \in Terminals : d.on[t] = n => e.on[t] \in P
  BY <1>1 DEF Scatters, q
<1>13. Spreads(q, e, n, P)
  BY <1>12 DEF Spreads
<1>14. /\ \A c \in q.claims \ d.claims : c \in missingPowerMarkerClaims(d, n)
       /\ NameOf(d, n) # None /\ PowerOf(d, n) \in {"ground", "vdd"}
       /\ PowerOf(d, n) = SupplyOf(m)
  BY <1>1, <1>3 DEF missing, name, power
<1>15. /\ PowerOf(e, e.on[m]) = SupplyOf(m)
       /\ NameOf(e, e.on[m]) = NameOf(d, n)
  <2>1. e.on[m] \in P /\ e.on[m] \in e.nets
    BY <1>3, <1>12
  <2>2. \E b \in e.claims : b.net = e.on[m] /\ b.power = PowerOf(d, n)
    BY <1>9, <1>10, <1>12 DEF Says, power
  <2>3. NameOf(e, e.on[m]) = NameOf(d, n) /\ PowerOf(e, e.on[m]) = PowerOf(d, n)
    BY <1>13, <1>14, <2>1, <2>2, InheritsSupply
  <2> QED
    BY <1>14, <2>3
<1>16. ASSUME NEW t \in Terminals, d.on[t] = n
       PROVE  /\ PowerOf(e, e.on[t]) \in {SupplyOf(m), "none"}
              /\ NameOf(e, e.on[t]) \in {NameOf(d, n), None}
  <2>1. e.on[t] \in P /\ e.on[t] \in e.nets
    BY <1>12, <1>16
  <2>2. /\ NameOf(e, e.on[t]) \in {NameOf(d, n), None}
        /\ PowerOf(e, e.on[t]) \in {PowerOf(d, n), "none"}
    BY <1>13, <1>14, <2>1, InheritsOnly
  <2> QED
    BY <1>14, <2>2
<1>17. ASSUME m \in Grounds, name = "0", NEW t \in Terminals, d.on[t] = n,
              \A g \in Grounds : e.on[g] # e.on[t],
              \A c \in ClaimsOn(e, {e.on[t]}) : c.owner \notin Labels
       PROVE  PowerOf(e, e.on[t]) = "none"
  <2> DEFINE x == e.on[t]
  <2>1. x \in P /\ x \in e.nets
    BY <1>12, <1>17
  <2>2. grounded /\ power = "ground"
    BY <1>3, <1>9, <1>17 DEF grounded, SupplyOf
  <2>3. ASSUME NEW b \in e.claims, b.net = x
        PROVE  FALSE
    <3>1. PICK c \in q.claims :
             /\ Says(b, c)
             /\ c.net = n => /\ b.net \in P
                             /\ c.owner \in Markers => b.net = e.on[c.owner]
             /\ c.net # n => b.net = c.net
      BY <1>12
    <3>2. c \in claims
      BY <1>2
    <3>3. c.net = n
      BY <1>11, <2>1, <2>3, <3>1, <3>2
    <3>4. c.owner \notin Grounds
      BY <1>17, <2>3, <3>1, <3>3 DEF Markers
    <3>5. c.owner \notin Markers
      BY <1>3, <1>6, <1>7, <1>17, <2>2, <3>2, <3>3, <3>4 DEF SupplyOf, missing
    <3>6. c \in d.claims /\ c.name = "0"
      BY <1>6, <1>7, <1>17, <3>2, <3>3, <3>5
    <3>7. c.owner # "declaration"
      BY <1>2, <2>2, <3>3, <3>6
    <3>8. c.owner \notin Labels
      BY <1>17, <2>3, <3>1 DEF ClaimsOn, Says
    <3>9. c \in Claim
      BY <3>6, ByFields DEF Whole, Fielded
    <3> QED
      BY <3>5, <3>7, <3>8, <3>9 DEF Claim
  <2>4. LogicalNet(e, x) \subseteq {x}
    <3>1. Closed({x}, e.nets, NamedAlike(e))
      <4>1. \A y : <<x, y>> \notin NamedAlike(e)
        BY <2>3 DEF NamedAlike
      <4> QED
        BY <2>1, <4>1 DEF Closed
    <3> QED
      BY <2>1, <3>1, LogicalNets
  <2> HIDE DEF x
  <2>5. PowersOn(e, LogicalNet(e, x)) = {}
    BY <2>3, <2>4 DEF PowersOn, ClaimsOn
  <2>6. PowerOf(e, x) = "none"
    BY <2>5, Unambiguous
  <2> QED
    BY <2>6 DEF x
<1>18. m \in Grounds /\ NameOf(d, n) = "0" =>
          \A t \in Terminals :
             /\ d.on[t] = n
             /\ \A g \in Grounds : e.on[g] # e.on[t]
             /\ \A c \in ClaimsOn(e, {e.on[t]}) : c.owner \notin Labels
             => PowerOf(e, e.on[t]) # "ground"
  BY <1>17 DEF name
<1> QED
  BY <1>15, <1>16, <1>18

\* A cut scatters what was said of the net of its Route over the parts of it.
LEMMA CutScatters ==
    ASSUME Sane, NEW r \in DOMAIN draft.routes, Cut(r),
           LET n == draft.routes[r].net
           IN  InPlace(draft, n) /\ \E m \in Terminals : draft.on[m] = n
    PROVE  LET n == draft.routes[r].net
           IN  \E P : /\ n \in P /\ P \cap draft.nets = {n} /\ P \subseteq draft'.nets
                      /\ Scatters(WithMarkersNamed(draft, n), draft', n, P)
<1> DEFINE n == draft.routes[r].net
           q == WithMarkersNamed(draft, n)
           p == CutPrepared(draft, r)
           groups == CutGroups(draft, r)
           idOf == CHOOSE idOf \in CutIds(draft, r, UnusedNets) : TRUE
           P == {idOf[g] : g \in DOMAIN idOf}
<1>1. /\ LabelsAt(draft, r) = {}
      /\ Divided(groups) => CutIds(draft, r, UnusedNets) # {}
      /\ draft' = CASE groups = {} -> pruneDeferring(p, {n})
                    [] Divided(groups) -> Torn(draft, p, n, idOf)
                    [] OTHER -> p
  BY DEF Cut, cutConnection
<1>2. n \in draft.nets /\ InPlace(draft, n) /\ \E m \in Terminals : draft.on[m] = n
  BY DEF Sane, Whole, Housed
<1>3. /\ Good(draft, p, {n})
      /\ Only(draft, p, {"claims", "routes", "juncs"})
      /\ Restricts(draft.routes, p.routes, {r})
  BY <1>1, PreparedGood DEF Sane
<1>4. /\ Whole(q) /\ Only(draft, q, {"claims"})
      /\ \A c \in q.claims \ draft.claims : c \in missingPowerMarkerClaims(draft, n)
  BY <1>2, NamedWhole DEF Sane
<1>5. p = WithoutRoute(q, r)
  BY DEF CutPrepared
<1> HIDE DEF q, p
<1>6. q.on = draft.on /\ q.juncs = draft.juncs /\ q.routes = draft.routes /\ q.labels = draft.labels
  BY <1>4 DEF Only, Fields
<1>7. Only(q, p, {"routes", "juncs"})
  BY <1>4, <1>5, <1>6, WithoutRouteWhole
<1>8. /\ p.claims = q.claims /\ p.on = draft.on /\ p.labels = draft.labels
      /\ p.nets = draft.nets /\ Whole(p)
  BY <1>3, <1>6, <1>7 DEF Only, Fields, Good
<1>9. \A j \in DOMAIN draft.juncs :
         LabelsAt(draft, j) # {} => j \in DOMAIN p.juncs /\ p.juncs[j] = draft.juncs[j]
  <2>1. PICK orphans : /\ Restricts(q.juncs, p.juncs, orphans)
                       /\ \A j \in orphans : LabelsAt(q, j) = {}
    BY <1>4, <1>5, <1>6, WithoutRouteWhole
  <2> QED
    BY <1>6, <2>1 DEF Restricts, LabelsAt
<1>10. ASSUME NEW l \in DOMAIN draft.labels, NetOfAnchor(draft, draft.labels[l].anchor) = n
       PROVE  NetOfAnchor(p, draft.labels[l].anchor) = n
  <2> DEFINE a == draft.labels[l].anchor
  <2>1. l \in LabelsAt(draft, a)
    BY DEF LabelsAt
  <2>2. a # r
    BY <1>1, <2>1
  <2>3. a \in DOMAIN draft.juncs => a \in DOMAIN p.juncs /\ p.juncs[a] = draft.juncs[a]
    BY <1>9, <2>1
  <2>4. n # None
    BY <1>2, LogicalNetsAssumption, ByFields DEF Sane, Whole, Fielded
  <2>5. a \in DOMAIN draft.routes => a \in DOMAIN p.routes /\ p.routes[a] = draft.routes[a]
    BY <1>3, <2>2 DEF Restricts
  <2>6. a \notin DOMAIN draft.routes => a \notin DOMAIN p.routes
    BY <1>3 DEF Restricts
  <2> HIDE DEF a
  <2>7. NetOfAnchor(draft, a) = n
    BY <1>10 DEF a
  <2>8. NetOfAnchor(p, a) = n
    BY <1>8, <2>3, <2>4, <2>5, <2>6, <2>7 DEF NetOfAnchor, Owner
  <2> QED
    BY <2>8 DEF a
<1>11. ASSUME NEW c \in q.claims, c.net = n
       PROVE  /\ c.owner \in Labels =>
                   /\ c.owner \in DOMAIN draft.labels
                   /\ NetOfAnchor(draft, draft.labels[c.owner].anchor) = n
              /\ c.owner \in Markers => draft.on[c.owner] = n
  <2>1. CASE c \in draft.claims
    BY <1>2, <1>11, <2>1 DEF InPlace, ClaimsOn
  <2>2. CASE c \notin draft.claims
    <3>1. c.owner \in Markers /\ draft.on[c.owner] = n
      BY <1>4, <2>2 DEF missingPowerMarkerClaims
    <3> QED
      BY <3>1, LogicalNetsAssumption
  <2> QED
    BY <2>1, <2>2
<1>12. StandThere(p, n)
  BY <1>8, <1>10, <1>11 DEF StandThere
<1>13. groups = netEndpointGroups(p, n) /\ netEndpoints(p, n) # {}
  <2>1. groups = netEndpointGroups(p, n)
    BY DEF CutGroups, p
  <2>2. PICK m \in Terminals : p.on[m] = n
    BY <1>2, <1>8
  <2>3. m \in netEndpoints(p, n)
    BY <2>2 DEF netEndpoints, Owner
  <2> QED
    BY <2>1, <2>3
<1>14. groups # {}
  BY <1>8, <1>13, Groups
<1>15. CASE Divided(groups)
  <2>1. draft' = Torn(draft, p, n, idOf)
    BY <1>1, <1>14, <1>15
  <2>2. CutIds(draft, r, UnusedNets) # {}
    BY <1>1, <1>15
  <2>3. /\ DOMAIN idOf = groups
        /\ \A g \in DOMAIN idOf : idOf[g] \in UnusedNets \cup {n}
        /\ PrimaryGroup(groups, draft.routes[r]) \in DOMAIN idOf
        /\ idOf[PrimaryGroup(groups, draft.routes[r])] = n
    BY <1>14, <2>2, Choosing
  <2>4. n \in NetIds
    BY <1>2, ByFields DEF Sane, Whole, Fielded
  <2>5. \A g \in DOMAIN idOf : idOf[g] \in NetIds
    BY <2>3, <2>4 DEF UnusedNets
  <2>6. n \in P /\ P \subseteq UnusedNets \cup {n}
    BY <2>3
  <2> HIDE DEF idOf, P, groups
  <2>7. P \cap draft.nets = {n}
    BY <1>2, <2>6 DEF UnusedNets
  <2>8. Scatters(p, draft', n, P)
    BY <1>2, <1>8, <1>12, <2>1, <2>3, <2>5, TornScatters DEF P
  <2>9. Scatters(q, draft', n, P)
    BY <1>6, <1>8, <2>8 DEF Scatters
  <2>10. P \subseteq draft'.nets
    <3> DEFINE parted == Partitioned(p, n, idOf)
               e == Torn(draft, p, n, idOf)
    <3>1. n \in p.nets
      BY <1>2, <1>8
    <3>2. /\ parted.nets = p.nets \cup {idOf[g] : g \in DOMAIN idOf}
          /\ Only(parted, e, {"labels", "claims", "sources", "default"})
      BY <1>8, <2>5, <3>1, TornWhole
    <3> HIDE DEF parted, e
    <3>3. e.nets = parted.nets /\ draft' = e
      BY <2>1, <3>2 DEF Only, Fields, e
    <3> QED
      BY <3>2, <3>3 DEF P
  <2> QED
    BY <2>6, <2>7, <2>9, <2>10 DEF q
<1>16. CASE ~Divided(groups)
  <2>1. draft' = p
    BY <1>1, <1>14, <1>16
  <2>2. Scatters(q, p, n, {n})
    BY <1>6, <1>8, <1>11 DEF Scatters, Says
  <2>3. {n} \cap draft.nets = {n} /\ {n} \subseteq draft'.nets
    BY <1>2, <1>8, <2>1
  <2> QED
    BY <2>1, <2>2, <2>3 DEF q
<1> QED
  BY <1>15, <1>16

\* A cut takes the supply of no marker, and leaves it to none that lost it:
\* markers that shared a claim state it for the part they stand on, and a
\* declaration of node 0 goes when Ground markers take its place (cut_connection,
\* missingPowerMarkerClaims, retargetOwnerEvidenceAfterSplit).
THEOREM SuppliesOutliveCuts == Spec => CutKeepsSupplies
<1>1. ASSUME Settles, NEW r \in Routes, IsCut(r)
      PROVE  LET n == draft.routes[r].net
             IN  \A m \in Markers :
                    /\ InPlace(draft, n) /\ Speaks(draft, n, m)
                    /\ PowerOf(draft, n) = SupplyOf(m)
                    =>
                    /\ PowerOf(draft', draft'.on[m]) = SupplyOf(m)
                    /\ NameOf(draft', draft'.on[m]) = NameOf(draft, n)
                    /\ \A t \in Terminals : draft.on[t] = n =>
                          /\ PowerOf(draft', draft'.on[t]) \in {SupplyOf(m), "none"}
                          /\ NameOf(draft', draft'.on[t]) \in {NameOf(draft, n), None}
                    /\ m \in Grounds /\ NameOf(draft, n) = "0" =>
                         \A t \in Terminals :
                            /\ draft.on[t] = n
                            /\ \A g \in Grounds : draft'.on[g] # draft'.on[t]
                            /\ \A c \in ClaimsOn(draft', {draft'.on[t]}) :
                                  c.owner \notin Labels
                            => PowerOf(draft', draft'.on[t]) # "ground"
  <2> DEFINE n == draft.routes[r].net
  <2>1. Cut(r) /\ r \in DOMAIN draft.routes /\ Sane
    BY <1>1 DEF IsCut, Settles
  <2>2. Whole(draft) /\ n \in draft.nets
    BY <2>1 DEF Sane, Whole, Housed
  <2>3. Whole(draft')
    BY <2>1, CutGood DEF Sane, Good
  <2> SUFFICES ASSUME NEW m \in Markers, InPlace(draft, n), Speaks(draft, n, m),
                      PowerOf(draft, n) = SupplyOf(m)
               PROVE  /\ PowerOf(draft', draft'.on[m]) = SupplyOf(m)
                      /\ NameOf(draft', draft'.on[m]) = NameOf(draft, n)
                      /\ \A t \in Terminals : draft.on[t] = n =>
                            /\ PowerOf(draft', draft'.on[t]) \in {SupplyOf(m), "none"}
                            /\ NameOf(draft', draft'.on[t]) \in {NameOf(draft, n), None}
                      /\ m \in Grounds /\ NameOf(draft, n) = "0" =>
                           \A t \in Terminals :
                              /\ draft.on[t] = n
                              /\ \A g \in Grounds : draft'.on[g] # draft'.on[t]
                              /\ \A c \in ClaimsOn(draft', {draft'.on[t]}) :
                                    c.owner \notin Labels
                              => PowerOf(draft', draft'.on[t]) # "ground"
    OBVIOUS
  <2>4. m \in Terminals /\ draft.on[m] = n
    BY DEF Terminals, Speaks
  <2>5. PICK P : /\ n \in P /\ P \cap draft.nets = {n} /\ P \subseteq draft'.nets
                 /\ Scatters(WithMarkersNamed(draft, n), draft', n, P)
    BY <2>1, <2>4, CutScatters
  <2> HIDE DEF n
  <2> QED
    BY <2>2, <2>3, <2>5, ScatteredSupply
<1>2. Settles =>
       [\A r \in Routes : IsCut(r) =>
         LET n == draft.routes[r].net
         IN  \A m \in Markers :
                /\ InPlace(draft, n) /\ Speaks(draft, n, m)
                /\ PowerOf(draft, n) = SupplyOf(m)
                =>
                /\ PowerOf(draft', draft'.on[m]) = SupplyOf(m)
                /\ NameOf(draft', draft'.on[m]) = NameOf(draft, n)
                /\ \A t \in Terminals : draft.on[t] = n =>
                      /\ PowerOf(draft', draft'.on[t]) \in {SupplyOf(m), "none"}
                      /\ NameOf(draft', draft'.on[t]) \in {NameOf(draft, n), None}
                /\ m \in Grounds /\ NameOf(draft, n) = "0" =>
                     \A t \in Terminals :
                        /\ draft.on[t] = n
                        /\ \A g \in Grounds : draft'.on[g] # draft'.on[t]
                        /\ \A c \in ClaimsOn(draft', {draft'.on[t]}) :
                              c.owner \notin Labels
                        => PowerOf(draft', draft'.on[t]) # "ground"]_vars
  BY <1>1
<1> QED
  BY Settlement, <1>2, PTL DEF Spec, CutKeepsSupplies

-------------------------------------------------------------------------------
\* When edits change no circuit.

LEMMA TrimmedEdit ==
    ASSUME Sane, Whole(draft'),
           NEW d, IsRecord(d), Trims(draft, d),
           draft' = d \/ \E ns : draft' = pruneDeferring(d, ns)
    PROVE  Alike(draft, draft') /\ draft'.claims = draft.claims
<1>1. Trims(draft, draft')
  BY PruningAway DEF Trims
<1> QED
  BY <1>1, Trimming DEF Trims, Sane

\* A cut that leaves the net in one piece changes no circuit.
LEMMA WholeCutIsAlike ==
    ASSUME Sane, NodeZeroIsGround(draft), Whole(draft'),
           NEW r \in DOMAIN draft.routes, draft' = CutPrepared(draft, r)
    PROVE  Alike(draft, draft') /\ NodeZeroIsGround(draft')
<1> DEFINE n == draft.routes[r].net
           m == WithMarkersNamed(draft, n)
<1>1. n \in draft.nets
  BY DEF Sane, Whole, Housed
<1>2. /\ Alike(draft, m) /\ NodeZeroIsGround(m)
      /\ Whole(m) /\ Only(draft, m, {"claims"})
  BY <1>1, NamedIsAlike, NamedWhole DEF Sane
<1>3. r \in DOMAIN m.routes
  BY <1>2 DEF Only, Fields
<1>4. draft' = WithoutRoute(m, r)
  BY DEF CutPrepared
<1> HIDE DEF m
<1>5. Only(m, draft', {"routes", "juncs"})
  BY <1>2, <1>3, <1>4, WithoutRouteWhole
<1>6. draft'.on = m.on /\ draft'.nets = m.nets /\ draft'.claims = m.claims
  BY <1>5 DEF Only, Fields
<1>7. Alike(m, draft')
  BY <1>2, <1>6, Trimming
<1> QED
  BY <1>2, <1>6, <1>7, AlikeThenAlike DEF NodeZeroIsGround

\* An edit that does not report a change leaves the circuit alone.
LEMMA EditAlike ==
    ASSUME Sane, Whole(draft'), Edit, ~tx'.changed
    PROVE  /\ ~tx.changed
           /\ NodeZeroIsGround(draft) =>
                 Alike(draft, draft') /\ NodeZeroIsGround(draft')
<1>0. IsRecord(draft)
  BY ByFields DEF Sane, Whole
<1>1. \A t : Remembers(t) => Changed(t).changed
  BY DEF Remembers, Changed
<1>2. /\ Remembers(tx)
      /\ \A ns : Remembers(Deferring(tx, ns)) /\ Deferring(tx, ns).changed = tx.changed
      /\ \A S : Remembers([tx EXCEPT !.protected = S])
      /\ \A S : Remembers([tx EXCEPT !.licensed = S])
      /\ \A S, T : Remembers([tx EXCEPT !.licensed = S, !.typed = T])
      /\ \A S : Remembers([tx EXCEPT !.suppressed = S])
      /\ \A S : Remembers([tx EXCEPT !.cleared = S])
  BY DEF Sane, Remembers, Deferring
<1>3. \A t, ns : Remembers(t) => Remembers(Deferring(t, ns))
  BY DEF Remembers, Deferring
<1>4. /\ ~CreateBaseNet /\ ~MergeNets /\ ~RemoveEvidence /\ ~RemoveJunction
      /\ ~ConnectEndpoints /\ ~SetMosBulkDefaults
  BY <1>1, <1>2 DEF CreateBaseNet, MergeNets, RemoveEvidence, RemoveJunction,
     ConnectEndpoints, SetMosBulkDefaults
<1>5. /\ ~UpsertEvidence /\ ~AddJunction /\ ~AttachEndpointToRoute
      /\ ~DisconnectEndpoint /\ ~ClearMosBulkDefault
  <2>1. ~UpsertEvidence
    <3>1. \A c : ~Upsert(c)
      BY <1>1, <1>2, <1>3 DEF Upsert
    <3> QED
      BY <3>1, Zenon DEF UpsertEvidence
  <2>2. ~AddJunction
    BY <1>1, <1>2 DEF AddJunction
  <2>3. ~AttachEndpointToRoute
    BY <1>1, <1>2 DEF AttachEndpointToRoute
  <2>4. ~DisconnectEndpoint
    BY <1>1, <1>2, <1>3 DEF DisconnectEndpoint
  <2>5. ~ClearMosBulkDefault
    BY <1>1, <1>2 DEF ClearMosBulkDefault
  <2> QED
    BY <2>1, <2>2, <2>3, <2>4, <2>5
<1>6. CASE UpsertAnnotation
  <2>1. tx' = tx
    BY <1>6 DEF UpsertAnnotation
  <2>2. PICK v : draft' = [draft EXCEPT !.labels = v]
    BY <1>6 DEF UpsertAnnotation
  <2>3. IsRecord(draft') /\ Trims(draft, draft')
    BY <1>0, <2>2 DEF Trims, IsRecord, Fields
  <2> QED
    BY <2>1, <2>3, TrimmedEdit DEF NodeZeroIsGround
<1>7. CASE RemoveAnnotation
  <2> PICK l \in DOMAIN draft.labels :
        LET nets == {c.net : c \in {c \in draft.claims : c.owner = l}}
            left == [draft EXCEPT !.labels = Without(@, {l})]
        IN  /\ draft' = pruneDeferring(removeOwned(left, {l}), nets)
            /\ tx' = [Deferring(tx, nets) EXCEPT !.changed = @ \/ nets # {}]
    BY <1>7 DEF RemoveAnnotation
  <2> DEFINE nets == {c.net : c \in {c \in draft.claims : c.owner = l}}
             left == [draft EXCEPT !.labels = Without(@, {l})]
             d == removeOwned(left, {l})
  <2>1. tx'.changed = (tx.changed \/ nets # {})
    <3> HIDE DEF nets
    <3>1. tx' = [Deferring(tx, nets) EXCEPT !.changed = @ \/ nets # {}]
      BY DEF nets
    <3>2. Remembers(Deferring(tx, nets)) /\ Deferring(tx, nets).changed = tx.changed
      BY <1>2
    <3>3. tx'.changed = (Deferring(tx, nets).changed \/ nets # {})
      BY <3>1, <3>2 DEF Remembers
    <3> QED
      BY <3>2, <3>3
  <2>2. ~tx.changed /\ nets = {}
    BY <2>1
  <2>3. IsRecord(d) /\ d.on = draft.on /\ d.nets = draft.nets
        /\ d.claims = {c \in draft.claims : c.owner \notin {l}}
    BY <1>0 DEF removeOwned, IsRecord, Fields
  <2>4. \A c \in draft.claims : c.owner # l
    BY <2>2
  <2>5. draft' = pruneDeferring(d, nets)
    OBVIOUS
  <2> HIDE DEF d, nets
  <2>6. Trims(draft, d)
    BY <2>3, <2>4 DEF Trims
  <2> QED
    BY <2>2, <2>3, <2>5, <2>6, TrimmedEdit DEF NodeZeroIsGround
<1>8. CASE PlaceInstance \/ UnplaceInstance
  <2>1. tx'.changed = tx.changed
    BY <1>2, <1>8 DEF PlaceInstance, UnplaceInstance, Remembers
  <2>2. PICK v : draft' = [draft EXCEPT !.placed = v]
    BY <1>8 DEF PlaceInstance, UnplaceInstance
  <2>3. IsRecord(draft') /\ Trims(draft, draft')
    BY <1>0, <2>2 DEF Trims, IsRecord, Fields
  <2> QED
    BY <2>1, <2>3, TrimmedEdit DEF NodeZeroIsGround
<1>9. CASE SetRoutePath
  <2>1. tx'.changed = tx.changed
    BY <1>2, <1>9 DEF SetRoutePath, Remembers
  <2>2. PICK v : draft' = [draft EXCEPT !.routes = v]
    BY <1>9 DEF SetRoutePath
  <2>3. IsRecord(draft') /\ Trims(draft, draft')
    BY <1>0, <2>2 DEF Trims, IsRecord, Fields
  <2> QED
    BY <2>1, <2>3, TrimmedEdit DEF NodeZeroIsGround
<1>10. CASE RemoveRouteGeometry
  <2> PICK r, n : /\ draft' = pruneDeferring([draft EXCEPT !.routes = Without(@, {r})], {n})
                  /\ tx' = [Deferring(tx, {n}) EXCEPT !.authored = @ \cup {r}]
    BY <1>10 DEF RemoveRouteGeometry
  <2> DEFINE d == [draft EXCEPT !.routes = Without(@, {r})]
  <2>1. tx'.changed = tx.changed
    <3>1. Remembers(Deferring(tx, {n})) /\ Deferring(tx, {n}).changed = tx.changed
      BY <1>2
    <3> QED
      BY <3>1 DEF Remembers
  <2>2. IsRecord(d) /\ Trims(draft, d)
    BY <1>0 DEF Trims, IsRecord, Fields
  <2> HIDE DEF d
  <2>3. draft' = pruneDeferring(d, {n})
    BY DEF d
  <2> QED
    BY <2>1, <2>2, <2>3, TrimmedEdit DEF NodeZeroIsGround
<1>11. CASE CutConnection
  <2> PICK r \in DOMAIN draft.routes : Cut(r)
    BY <1>11 DEF CutConnection
  <2> DEFINE n == draft.routes[r].net
             p == CutPrepared(draft, r)
             groups == CutGroups(draft, r)
  <2>1. /\ draft' = cutConnection(draft, r, UnusedNets)
        /\ tx' = CASE groups = {} -> Changed(Deferring(tx, {n}))
                   [] Divided(groups) -> Changed(tx)
                   [] OTHER -> tx
    BY DEF Cut
  <2>2. groups # {} /\ ~Divided(groups)
    <3>1. Divided(groups) => groups # {}
      BY DEF Divided
    <3>2. groups = {} => tx' = Changed(Deferring(tx, {n}))
      BY <2>1, <3>1
    <3>3. Divided(groups) => tx' = Changed(tx)
      BY <2>1, <3>1
    <3> QED
      BY <1>1, <1>2, <3>2, <3>3
  <2>3. tx' = tx /\ draft' = p
    BY <2>1, <2>2 DEF cutConnection
  <2> QED
    BY <2>3, WholeCutIsAlike
<1>12. CASE ReconcileMosBulk
  <2> DEFINE bound == reconcileMosBulk(draft)
             left == LeftByBodies(draft, bound)
             moved == bound.on # draft.on \/ draft.bound \ bound.bound # {}
  <2>1. /\ draft' = pruneDeferring(bound, left)
        /\ tx' = [Deferring(tx, left) EXCEPT !.changed =
                    @ \/ bound.on # draft.on \/ draft.bound \ bound.bound # {}]
    BY <1>12 DEF ReconcileMosBulk
  <2>2. Whole(bound) /\ Only(draft, bound, {"on", "bound"})
    BY ReconciledWhole DEF Sane
  <2> HIDE DEF bound, left
  <2>3. tx'.changed = (tx.changed \/ moved)
    <3>1. Remembers(Deferring(tx, left)) /\ Deferring(tx, left).changed = tx.changed
      BY <1>2
    <3>2. tx' = [Deferring(tx, left) EXCEPT !.changed = @ \/ moved]
      BY <2>1
    <3> HIDE DEF moved
    <3>3. tx'.changed = (Deferring(tx, left).changed \/ moved)
      BY <3>1, <3>2 DEF Remembers
    <3> QED
      BY <3>1, <3>3
  <2>4. ~tx.changed /\ bound.on = draft.on
    BY <2>3
  <2>5. IsRecord(bound) /\ Trims(draft, bound)
    BY <2>2, <2>4 DEF Only, Trims, Fields
  <2> QED
    BY <2>1, <2>4, <2>5, TrimmedEdit DEF NodeZeroIsGround
<1> QED
  BY <1>4, <1>5, <1>6, <1>7, <1>8, <1>9, <1>10, <1>11, <1>12 DEF Edit

-------------------------------------------------------------------------------
\* The invariant of honest drafts, and the theorems it gives.

\* Until an edit reports a change, the circuit of the draft is the Document's.
Honest ==
    NodeZeroIsGround(doc) /\ ~tx.changed =>
        NodeZeroIsGround(draft) /\ Alike(doc, draft)

LEMMA InitHonest == Init => Honest
BY AlikeSelf DEF Init, Honest

\* Nets that are alike have the conflicts they had, and what a netlist says of
\* a terminal stays the same.
LEMMA AlikeSays ==
    ASSUME NEW d, NEW e, Alike(d, e)
    PROVE  /\ Conflicts(e) \subseteq Conflicts(d)
           /\ Whole(e) => ElectricalView(e) = ElectricalView(d)
<1>1. ASSUME NEW n \in e.nets
      PROVE  /\ n \in d.nets /\ LogicalNet(e, n) = LogicalNet(d, n)
             /\ NamesOn(e, LogicalNet(e, n)) = NamesOn(d, LogicalNet(d, n))
             /\ NameOf(e, n) = NameOf(d, n) /\ ScopeOf(e, n) = ScopeOf(d, n)
             /\ SupplyOn(e, n) = SupplyOn(d, n)
             /\ PowerOf(e, n) = "conflict" <=> PowerOf(d, n) = "conflict"
  <2>1. /\ n \in d.nets /\ LogicalNet(e, n) = LogicalNet(d, n)
        /\ NamesOn(e, LogicalNet(e, n)) = NamesOn(d, LogicalNet(d, n))
        /\ NameOf(e, n) = NameOf(d, n) /\ ScopeOf(e, n) = ScopeOf(d, n)
        /\ SupplyOn(e, n) = SupplyOn(d, n)
    BY DEF Alike, SameNet, NameOf, ScopeOf
  <2>2. PowerOf(e, n) = "conflict" <=> PowerOf(d, n) = "conflict"
    BY <2>1 DEF SupplyOn
  <2> QED
    BY <2>1, <2>2
<1>2. Conflicts(e) \subseteq Conflicts(d)
  <2> DEFINE found(x, n) ==
        LET ns == LogicalNet(x, n)
        IN  {issue \in {<<"name", ns>>, <<"scope", ns>>, <<"power", ns>>} :
                  CASE issue[1] = "name" -> Cardinality(NamesOn(x, ns)) > 1
                    [] issue[1] = "scope" -> ScopeOf(x, n) = None
                    [] OTHER -> PowerOf(x, n) = "conflict"}
  <2>1. ASSUME NEW n \in e.nets PROVE found(e, n) = found(d, n)
    BY <1>1
  <2>2. Conflicts(e) = UNION {found(e, n) : n \in e.nets}
    BY DEF Conflicts
  <2>3. Conflicts(d) = UNION {found(d, n) : n \in d.nets}
    BY DEF Conflicts
  <2> HIDE DEF found
  <2> QED
    BY <1>1, <2>1, <2>2, <2>3
<1>3. ASSUME Whole(e) PROVE ElectricalView(e) = ElectricalView(d)
  <2>1. e.on = d.on
    BY DEF Alike
  <2>2. \A t \in Terminals : e.on[t] # None => e.on[t] \in e.nets
    BY <1>3 DEF Whole, Housed
  <2> DEFINE view(x, t) ==
        IF x.on[t] = None THEN <<>>
        ELSE <<NameOf(x, x.on[t]), SupplyOn(x, x.on[t]),
               {u \in Terminals : x.on[u] \in LogicalNet(x, x.on[t])}>>
  <2>3. ASSUME NEW t \in Terminals PROVE view(e, t) = view(d, t)
    BY <1>1, <2>1, <2>2
  <2>4. ElectricalView(e) = [t \in Terminals |-> view(e, t)]
    BY DEF ElectricalView
  <2>5. ElectricalView(d) = [t \in Terminals |-> view(d, t)]
    BY DEF ElectricalView
  <2> HIDE DEF view
  <2> QED
    BY <2>3, <2>4, <2>5
<1> QED
  BY <1>2, <1>3

\* The end of a transaction: if it counts as geometry, nothing was said anew.
LEMMA AppliedHonestly ==
    ASSUME Settles, Honest, Apply
    PROVE  /\ Honest'
           /\ NodeZeroIsGround(doc) =>
                 /\ doc'.status = "connectivity-modified" \/ Alike(doc, doc')
                 /\ Conflicts(doc') \subseteq Conflicts(doc)
<1> DEFINE e == Normalized
           bound == reconcileBindings(revokeSupplyDefault(doc, draft))
<1> PICK status :
       /\ doc' = [e EXCEPT !.status = status]
       /\ connectivityChanged(e) => status = "connectivity-modified"
       /\ connectivityChanged(e) => Conflicts(e) \subseteq Conflicts(doc)
  BY DEF Apply, Acceptable
<1>1. draft' = doc' /\ tx' = NoTransaction
  BY DEF Apply, Idle
<1>2. /\ Whole(e) /\ Whole(bound)
      /\ Only(draft, bound, {"on", "bound", "default"})
      /\ e.claims = {c \in bound.claims : c.net \notin bound.nets \ e.nets}
  BY NormalizedWhole DEF Settles, Sane
<1>3. connectivityChanged(e) \/ (~tx.changed /\ e.on = draft.on /\ e.nets = draft.nets)
  BY DEF connectivityChanged
<1> HIDE DEF e, bound
<1>11. IsRecord(e)
  BY <1>2, ByFields DEF Whole
<1>4. Only(e, doc', {"status"}) /\ doc'.status = status
  BY <1>11 DEF IsRecord, Fields, Only
<1>5. doc'.on = e.on /\ doc'.nets = e.nets /\ doc'.claims = e.claims
  BY <1>4 DEF Only, Fields
<1>6. Whole(doc') /\ Whole(draft)
  BY Applied DEF Settles, Sane
<1>7. Alike(e, doc')
  BY <1>2, <1>5, <1>6, Trimming
<1>8. Honest'
  BY <1>1, AlikeSelf DEF Honest
<1>9. CASE connectivityChanged(e)
  BY <1>4, <1>7, <1>8, <1>9, AlikeSays
<1>10. CASE ~connectivityChanged(e)
  <2> SUFFICES ASSUME NodeZeroIsGround(doc)
               PROVE  Alike(doc, doc') /\ Conflicts(doc') \subseteq Conflicts(doc)
    BY <1>8
  <2>1. ~tx.changed /\ e.on = draft.on /\ e.nets = draft.nets
    BY <1>3, <1>10
  <2>2. bound.nets = draft.nets /\ bound.claims = draft.claims
    BY <1>2 DEF Only, Fields
  <2>3. e.claims = draft.claims
    BY <1>2, <2>1, <2>2
  <2>4. Alike(doc, draft) /\ Alike(draft, doc')
    BY <1>5, <1>6, <2>1, <2>3, Trimming DEF Honest
  <2>5. Alike(doc, doc')
    BY <2>4, AlikeThenAlike
  <2> QED
    BY <2>5, AlikeSays
<1> QED
  BY <1>9, <1>10

LEMMA HonestStep == ASSUME IInv, Settles, Honest, [Next]_vars PROVE Honest'
<1>1. CASE Edit
  <2>1. UNCHANGED doc /\ Whole(draft')
    BY <1>1, EditStep, EditLasts DEF Settles, Lasts
  <2> SUFFICES ASSUME NodeZeroIsGround(doc), ~tx'.changed
               PROVE  NodeZeroIsGround(draft') /\ Alike(doc, draft')
    BY <2>1 DEF Honest
  <2>2. /\ ~tx.changed
        /\ NodeZeroIsGround(draft) =>
              Alike(draft, draft') /\ NodeZeroIsGround(draft')
    BY <1>1, <2>1, EditAlike DEF Settles
  <2>3. NodeZeroIsGround(draft) /\ Alike(doc, draft)
    BY <2>2 DEF Honest
  <2> QED
    BY <2>2, <2>3, AlikeThenAlike
<1>2. CASE FinishEdits
  BY <1>2 DEF FinishEdits, Honest, Settles, Sane, Remembers
<1>3. CASE JoinContact \/ AttachContact
  <2>1. CASE JoinContact
    BY <2>1 DEF JoinContact, Changed, Settles, Sane, Remembers, Honest
  <2>2. CASE AttachContact
    BY <2>2 DEF AttachContact, Changed, Settles, Sane, Remembers, Honest
  <2> QED
    BY <1>3, <2>1, <2>2
<1>4. CASE Apply
  BY <1>4, AppliedHonestly
<1>5. CASE RejectTransaction
  BY <1>5, AlikeSelf DEF RejectTransaction, Honest
<1>6. CASE UNCHANGED vars
  BY <1>6 DEF vars, Honest
<1> QED
  BY <1>1, <1>2, <1>3, <1>4, <1>5, <1>6 DEF Next, Execute

\* The invariant holds of every state that is reached.
LEMMA Honesty == Spec => []Honest
<1>1. IInv /\ Settles /\ Honest /\ [Next]_vars => Honest'
  BY HonestStep
<1> QED
  BY Invariance, Settlement, InitHonest, <1>1, PTL DEF Spec

\* A transaction after which a netlist would say something else of a terminal,
\* its name, its supply or its companions, marks the Document as departed from
\* its source, whatever edits it was made of and whichever of them reported a
\* change (connectivityChanged in executeTransaction).
THEOREM SourceStatusIsKept == Spec => SourceStatusIsHonest
<1>1. IInv /\ Settles /\ Honest /\ [Next]_vars =>
         [Committed /\ NodeZeroIsGround(doc)
          /\ ElectricalView(doc') # ElectricalView(doc) =>
            doc'.status = "connectivity-modified"]_vars
  BY NextStep, Applied, AppliedHonestly, AlikeSays DEF Settles
<1> QED
  BY Invariance, Settlement, Honesty, <1>1, PTL DEF Spec, SourceStatusIsHonest

\* No transaction leaves a logical net with names, scopes or supplies in
\* conflict that the Document did not have, also one that is not checked for
\* them because it counts as geometry (validateLogicalNetContract).
THEOREM ConflictsAreNotIntroduced == Spec => NoConflictIsIntroduced
<1>1. IInv /\ Settles /\ Honest /\ [Next]_vars =>
         [Committed /\ NodeZeroIsGround(doc) =>
            Conflicts(doc') \subseteq Conflicts(doc)]_vars
  BY NextStep, AppliedHonestly
<1> QED
  BY Invariance, Settlement, Honesty, <1>1, PTL DEF Spec, NoConflictIsIntroduced
===============================================================================
