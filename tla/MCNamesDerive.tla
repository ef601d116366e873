----------------------------- MODULE MCNamesDerive -----------------------------
(* Two names, of which f is also a table; one table more; two ids, either  *)
(* of which may be in any of the tables, and NULL.                         *)
EXTENDS NamesDerive

CONSTANTS f, g, j

MCTables == << EdgeTable, f, j >>
MCPeerSets == SUBSET ({f, g} \X {1, 2, NULL})
MCHoldings == { h \in [ {EdgeTable, f, j} -> SUBSET {1, 2} ] : h[EdgeTable] = {} }
=============================================================================
