------------------------------ MODULE MCTransform ------------------------------
(* Queries over two named nodes and anonymous ones, a map that renames the *)
(* table j to st and one that swaps f and st, and tables of three edges.    *)
EXTENDS Transform, TLC

CONSTANTS va, vb, vr, f, j, st, ty, unbound

NoStar == [ present |-> FALSE, has_min |-> FALSE, min |-> 0, has_max |-> FALSE, max |-> 0 ]

Node(v, ls) == [ var |-> v, labels |-> ls, props |-> FALSE ]
Rel(v, ts, d) == [ var |-> v, types |-> ts, dir |-> d, props |-> << >>, star |-> NoStar ]
(* The value of the property with this key is an expression.               *)
Expression == "alias"

Having(rel, key) == [ rel EXCEPT !.props = << [ key |-> key, value |-> ty, literal |-> key # Expression ] >> ]
Seg(rel, n) == [ rel |-> rel, node |-> n ]
Path(n, segs) == [ start |-> n, segs |-> segs ]
Hop(n, rel, m) == << Path(n, << Seg(rel, m) >>) >>
Use(v, k) == [ var |-> v, known |-> k ]
Query(ps, us) == [ matches |-> 1, shape |-> TRUE, paths |-> ps, uses |-> us ]

Nodes == { Node(va, << >>), Node(vb, << >>), Node(Anon, << >>), Node(va, << f >>),
           Node(vb, << st >>) }
BadNodes == { [ Node(va, << f >>) EXCEPT !.props = TRUE ], Node(va, << f, st >>),
              Node(va, << ty >>) }
UseLists == { << >>, << Use(va, TRUE) >>, << Use(vb, TRUE), Use(va, TRUE) >>,
              << Use(vr, TRUE) >>, << Use(va, FALSE) >>, << Use(unbound, TRUE) >> }

-----------------------------------------------------------------------------
(* Directed patterns of up to three relationships.                         *)
Rels  == { Rel(Anon, << >>, "right"), Rel(vr, << ty >>, "left") }
Plain == { Seg(Rel(Anon, << >>, d), n) :
             d \in {"right", "left"}, n \in { Node(va, << >>), Node(vb, << f >>) } }

Paths0 == { Path(n, << >>) : n \in Nodes }
Paths1 == { Path(n, << Seg(rel, m) >>) : n \in Nodes, rel \in Rels, m \in Nodes }
Paths2 == { Path(n, << g, h >>) : n \in Nodes, g \in Plain, h \in Plain }
Paths3 == { Path(Node(va, << >>), << g, h, k >>) : g, h, k \in Plain }

Directed ==
  { Query(p, u) : p \in { << x >> : x \in Paths0 \cup Paths1 }, u \in UseLists }
  \cup
  { Query(<< x >>, << Use(vb, TRUE) >>) : x \in Paths2 \cup Paths3 }
  \cup
  { Query(<< x, y >>, << Use(va, TRUE) >>) : x \in Paths0,
      y \in Paths0 \cup Paths1 \cup { Path(Node(va, << st >>), << >>) } }
  \cup
  { Query(Hop(n, rel, Node(vb, << f >>)), << Use(va, TRUE) >>) :
      n \in BadNodes \cup { Node(va, << j >>) },
      rel \in { Rel(vr, << ty, ty >>, "right"), Rel(vr, << >>, "right"),
                Having(Rel(vr, << >>, "left"), "edge_type"),
                Having(Rel(vr, << >>, "left"), "nosuch"),
                Having(Rel(vr, << >>, "left"), Expression) } }
  \cup
  { Query(Hop(Node(vb, << >>), Rel(vr, << >>, "right"), n), << >>) : n \in BadNodes }

-----------------------------------------------------------------------------
(* A single hop, undirected or of variable length, and the misuses of one. *)
HopNodes == Nodes \cup BadNodes

Undirect ==
  { Query(Hop(n, rel, m), u) :
      n \in HopNodes, m \in Nodes, u \in UseLists,
      rel \in { Rel(vr, << ty >>, "undir"), Rel(Anon, << >>, "undir") } }
  \cup
  { Query(Hop(Node(va, << f >>), rel, Node(vb, << >>)), << Use(va, TRUE) >>) :
      rel \in { Having(Rel(vr, << >>, "undir"), "edge_type"),
                Having(Rel(vr, << >>, "undir"), "nosuch"),
                Having(Rel(vr, << >>, "undir"), Expression),
                Rel(vr, << ty, ty >>, "undir") } }

Star1(lo, hi) ==
  [ present |-> TRUE, has_min |-> lo # {}, min |-> IF lo = {} THEN 0 ELSE CHOOSE x \in lo : TRUE,
    has_max |-> hi # {}, max |-> IF hi = {} THEN 0 ELSE CHOOSE x \in hi : TRUE ]

Bounds == { {}, {0}, {1}, {2}, {3}, {17}, {40} }
Stars  == { Star1(lo, hi) : lo, hi \in Bounds }
Starred(rel, star) == [ rel EXCEPT !.star = star ]

Variable ==
  { Query(Hop(n, Starred(Rel(Anon, ts, d), star), m), u) :
      n \in { Node(va, << >>), Node(va, << f >>) }, m \in { Node(vb, << st >>), Node(Anon, << >>) },
      ts \in { << >>, << ty >> }, d \in {"left", "right"}, star \in Stars,
      u \in { << Use(va, TRUE) >>, << >> } }
  \cup
  { Query(Hop(n, Starred(rel, Star1({2}, {})), m), u) :
      n \in HopNodes, m \in Nodes, u \in UseLists,
      rel \in { Rel(Anon, << ty >>, "right"), Rel(Anon, << >>, "left") } }
  \cup
  { Query(Hop(Node(va, << f >>), Starred(rel, Star1({}, {2})), Node(vb, << >>)), << >>) :
      rel \in { Rel(vr, << >>, "right"), Rel(Anon, << >>, "undir"), Rel(Anon, << ty, ty >>, "left"),
                Having(Rel(Anon, << >>, "left"), "edge_type") } }

Misused ==
  { Query(<< Path(Node(va, << f >>), << Seg(g, Node(vb, << >>)), Seg(h, Node(Anon, << >>)) >>) >>, << >>) :
      g, h \in { Rel(Anon, << >>, "right"), Rel(Anon, << >>, "undir"),
                 Starred(Rel(Anon, << >>, "left"), Star1({1}, {2})) } }
  \cup
  { [ q EXCEPT !.matches = m, !.shape = (m = 1) # x ] :
      q \in { Query(Hop(Node(va, << f >>), Rel(Anon, << >>, d), Node(vb, << >>)), << >>) :
                d \in {"right", "undir"} },
      m \in 1..2, x \in BOOLEAN }

MCQueries == UNION { Directed, Undirect, Variable, Misused }


-----------------------------------------------------------------------------
MCMaps == { << >>, << Entry(j, st) >>, << Entry(f, st), Entry(st, f) >> }

Peers == { << 1, f >>, << 1, st >>, << 2, f >>, << NULL, f >> }

EdgeRow(k, x, y) ==
  [ rowid |-> k, source_id |-> x[1], source_name |-> x[2],
    target_id |-> y[1], target_name |-> y[2], edge_type |-> ty ]

Tables == (f :> { [ id |-> 1 ], [ id |-> 2 ] }) @@ (st :> {}) @@ (j :> { [ id |-> 1 ] })

MCDatabases ==
  { (EdgeTable :> { EdgeRow(1, x, y), EdgeRow(2, << 1, f >>, z),
                    [ EdgeRow(3, z, x) EXCEPT !.edge_type = NULL ] }) @@ Tables :
      x, y \in Peers, z \in { << 1, f >>, << 2, f >> } }
=============================================================================
