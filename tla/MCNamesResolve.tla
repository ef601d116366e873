---------------------------- MODULE MCNamesResolve ----------------------------
(* Maps of up to three entries over three tables and names.                *)
EXTENDS NamesResolve

CONSTANTS f, g, h

MCSpellings == { f, g, h }
MCLabels == { f, g, h, NoLabel }
MCEntries == [ table : {f, g, h}, name : {f, g, h} ]
MCMaps == UNION { [ 1..n -> MCEntries ] : n \in 0..3 }
=============================================================================
