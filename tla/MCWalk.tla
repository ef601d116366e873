-------------------------------- MODULE MCWalk --------------------------------
(* Three edges over peers that share an id or a name, and peers with a NULL *)
(* column, so that cycles, self-loops, parallel edges and near misses all   *)
(* occur; hops with and without a type and an upper bound.  The digits of   *)
(* one rowid are part of those of the others.                               *)
EXTENDS WalkText

CONSTANTS f, g, t, u

MCRowid == { 1, 11, 12 }

MCDigit == 0..9

MCDecimal ==
  [ e \in MCRowid |-> IF e < 10 THEN << e >> ELSE << e \div 10, e % 10 >> ]

Peers == { << 1, f >>, << 1, g >>, << 2, f >>, << NULL, f >> }

MCEdgeRows ==
  { [ source_id |-> s[1], source_name |-> s[2],
      target_id |-> d[1], target_name |-> d[2], edge_type |-> ty ] :
        s \in Peers \ { << NULL, f >> }, d \in Peers, ty \in {t} }
  \cup
  { [ source_id |-> s, source_name |-> f,
      target_id |-> 1, target_name |-> f, edge_type |-> ty ] :
        s \in {1, NULL}, ty \in {u, NULL} }

MCHops == { [ type |-> t, has_max |-> FALSE, max |-> 1 ],
            [ type |-> NoType, has_max |-> TRUE, max |-> 2 ] }
=============================================================================
