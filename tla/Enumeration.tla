----------------------------- MODULE Enumeration -----------------------------
(***************************************************************************)
(* What a search promises, whatever order it works in: it finds the        *)
(* members of a fixed set one at a time and each of them once.             *)
(***************************************************************************)
VARIABLES
  wanted,  \* the set of things to find; it never changes
  found    \* those found so far

vars == << wanted, found >>

Init == found = {}

Find(x) ==
  /\ x \in wanted \ found
  /\ found' = found \cup {x}
  /\ UNCHANGED wanted

Next == \E x \in wanted : Find(x)

Spec == Init /\ [][Next]_vars
=============================================================================
