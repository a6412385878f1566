-------------------------- MODULE MCEditTransaction ---------------------------
(***************************************************************************)
(* Five Documents to edit: an imported ground star whose marker shares the *)
(* declaration, a labelled wire that passes over a parked pin, two nets of *)
(* which one is the ground of a body, a VDD marker with its text, and a    *)
(* loop whose label alone says that it is node 0, of no supply.            *)
(***************************************************************************)
EXTENDS EditTransaction, TLC

CONSTANTS a, b, c, nm, g, v, j1, j2, r1, r2, r3, r4, r5, r6, r7, r8,
          l1, p1, p2, p3, p4

MCAt == a :> p1 @@ b :> p2 @@ c :> p3 @@ g :> p3 @@ v :> p2 @@ nm :> p4

Wire(n, e, f, over) ==
    [net |-> n, from |-> e, to |-> f, bulk |-> FALSE, over |-> over]

Plain ==
    [nets |-> {1}, on |-> [t \in Terminals |-> None], placed |-> {a, b},
     juncs |-> <<>>, routes |-> <<>>, labels |-> <<>>, claims |-> {},
     sources |-> {}, default |-> None, bound |-> {}, status |-> "in-sync"]

GroundClaim(owner) == [owner |-> owner, net |-> 1, name |-> "0",
                       scope |-> "global", power |-> "ground"]

ImportedGround ==
    [Plain EXCEPT !.on = [t \in Terminals |-> IF t \in {a, b, g, nm} THEN 1
                                              ELSE None],
                  !.placed = {a, b, g},
                  !.juncs = j1 :> [net |-> 1, at |-> p4],
                  !.routes = r1 :> Wire(1, a, j1, None)
                          @@ r2 :> Wire(1, j1, b, None)
                          @@ r3 :> Wire(1, j1, g, None),
                  !.claims = {GroundClaim("declaration")},
                  !.sources = {1},
                  !.default = 1,
                  !.bound = {nm}]

LabelledWire ==
    [Plain EXCEPT !.on = [t \in Terminals |-> IF t \in {a, b} THEN 1 ELSE None],
                  !.placed = {a, b, c},
                  !.routes = r1 :> Wire(1, a, b, p3),
                  !.labels = l1 :> [net |-> 1, anchor |-> r1],
                  !.claims = {[owner |-> l1, net |-> 1, name |-> "x",
                               scope |-> "local", power |-> "none"]}]

TwoNets ==
    [Plain EXCEPT !.nets = {1, 2},
                  !.on = [t \in Terminals |-> CASE t \in {a, g, nm} -> 1
                                                [] t \in {b, c} -> 2
                                                [] OTHER -> None],
                  !.placed = {a, b, c, g, nm},
                  !.routes = r1 :> Wire(1, a, g, p4)
                          @@ r2 :> Wire(2, b, c, None),
                  !.claims = {GroundClaim(g)},
                  !.default = 1,
                  !.bound = {nm}]

SupplyText ==
    [Plain EXCEPT !.on = [t \in Terminals |-> IF t \in {a, v} THEN 1 ELSE None],
                  !.placed = {a, b, v},
                  !.routes = r1 :> Wire(1, a, v, p3),
                  !.labels = l1 :> [net |-> 1, anchor |-> v],
                  !.claims = {[owner |-> v, net |-> 1, name |-> "vdd",
                               scope |-> "global", power |-> "vdd"]}]

NodeZeroLoop ==
    [Plain EXCEPT !.on = [t \in Terminals |-> IF t \in {a, g} THEN 1 ELSE None],
                  !.placed = {a, g},
                  !.routes = r1 :> Wire(1, a, g, None) @@ r2 :> Wire(1, a, g, p4),
                  !.labels = l1 :> [net |-> 1, anchor |-> r1],
                  !.claims = {[owner |-> l1, net |-> 1, name |-> "0",
                               scope |-> "global", power |-> "none"]}]

MCInitialDocuments ==
    {ImportedGround, LabelledWire, TwoNets, SupplyText, NodeZeroLoop}
===============================================================================
