------------------------------- MODULE MCProgram -------------------------------
(* Three tables of which the first, a middle one or none are skipped, one   *)
(* whose name the listing leaves out, and every command line that differs.  *)
EXTENDS Program, TLC

CONSTANTS e, f, g, s

MCSorted == << e, f, g, s >>

Tables(te, tf, tg, ts) == (e :> te) @@ (f :> tf) @@ (g :> tg) @@ (s :> ts)

MCSchemas ==
  { Tables("other", "node", "node", "none"), Tables("other", "other", "node", "node"),
    Tables("none", "node", "other", "none"), Tables("other", "none", "node", "none") }

Line(ms, n, names, derive) ==
  [ usage |-> "ok", modes |-> ms, npos |-> n, names |-> names, derive |-> derive ]

MCCommands ==
  { Line(ms, n, names, FALSE) :
      ms \in SUBSET { "ast", "explain", "catalog" }, n \in 0..2, names \in {{}, { "names" }} }
  \cup
  { Line(ms, 2, names, derive) :
      ms \in {{}, { "explain" }}, names \in SUBSET { "names", "names-file" }, derive \in BOOLEAN }
  \cup
  { [ Line({}, 2, {}, FALSE) EXCEPT !.usage = u ] : u \in { "help", "bad" } }
=============================================================================
