-------------------------------- MODULE Program --------------------------------
(***************************************************************************)
(* The program from its command line to its exit: main, run_query,         *)
(* run_explain and run_catalog with catalog_load, effective_map and        *)
(* exec_query, every early return and what each of them releases.          *)
(*                                                                         *)
(* What a name map, a parse or a translation computes is the business of   *)
(* other modules; here each of them succeeds or fails.  A translated       *)
(* statement is the set of the tables it speaks of: tables the translator  *)
(* found in the catalog, and the edge table, which it takes for granted.   *)
(* The schema may change while the program runs.                           *)
(***************************************************************************)
EXTENDS CatalogLoad

CONSTANTS
  Commands,   \* the command lines, see below
  MaxRows     \* the rows an answer may have

(***************************************************************************)
(* A command line:                                                         *)
(*   usage    "ok", "help", or "bad" for an option without its value or an *)
(*            argument too many                                            *)
(*   modes    the set of the mode options given                            *)
(*   npos     the number of arguments                                      *)
(*   names    the set of the name map options given                        *)
(*   derive   --derive-table-names                                         *)
(***************************************************************************)
ASSUME CommandsAssumption ==
  \A c \in Commands :
    /\ c.usage \in { "ok", "help", "bad" }
    /\ c.modes \subseteq { "ast", "explain", "catalog" }
    /\ c.npos \in 0..2
    /\ c.names \subseteq { "names", "names-file" }
    /\ c.derive \in BOOLEAN

ASSUME MaxRowsAssumption == MaxRows \in Nat

(* A schema says of the edge table whether it is there. *)
ASSUME EdgeTableAssumption == EdgeTable \in TableNames

VARIABLES
  cmd,
  pc,       \* the next thing to do
  held,     \* what is allocated or open, apart from the catalog's blocks
  needs,    \* the tables the translated statement speaks of
  fetched,  \* the rows of the answer in the buffer
  stdout,   \* what is printed: nothing, or a sort of output and its size
  messages, \* how many complaints went to stderr
  why,      \* what the program complained of
  code      \* the exit status, -1 before the exit

mainVars == << cmd, pc, held, needs, fetched, stdout, messages, why, code >>

allVars == << vars, mainVars >>

Nothing == << "nothing", 0 >>

ProgramInit ==
  /\ Init
  /\ cmd \in Commands
  /\ pc = "args"
  /\ held = {} /\ needs = {} /\ fetched = 0
  /\ stdout = Nothing /\ messages = 0 /\ why = "none" /\ code = 0 - 1

-----------------------------------------------------------------------------
Goto(next) == pc' = next /\ UNCHANGED << cmd, stdout, messages, why, code >>

(* Mutant: the status is not set.                                          *)
Exit_NoStatus(status, released) ==
  /\ pc' = "exit"
  /\ held' = held \ released
  /\ UNCHANGED << cmd, code, needs, fetched >>

(* An early return: what the code at this place releases is released.      *)
Exit(status, released) ==
  /\ pc' = "exit"
  /\ code' = status
  /\ held' = held \ released
  /\ UNCHANGED << cmd, needs, fetched >>

Complain(reason, status, released) ==
  /\ Exit(status, released)
  /\ messages' = messages + 1
  /\ why' = reason
  /\ UNCHANGED stdout

Show(output, released) ==
  /\ Exit(0, released)
  /\ stdout' = output
  /\ UNCHANGED << messages, why >>

(* The explicit map is main's, and freed whatever run_query returns.       *)
Map     == { "map" }
Opened  == Map \cup { "db" }
Parsed  == Opened \cup { "derived_map", "query", "sql", "rows" }

Mode == IF cmd.modes = {} THEN "query" ELSE CHOOSE m \in cmd.modes : TRUE

WrongCount ==
  CASE Mode \in { "query", "explain" } -> cmd.npos # 2
    [] Mode = "catalog"                -> cmd.npos < 1
    [] Mode = "ast"                    -> cmd.npos # 1

Arguments ==
  /\ pc = "args"
  /\ UNCHANGED vars
  /\ IF cmd.usage = "help" THEN Show(<< "usage", 1 >>, {})
     ELSE IF cmd.usage = "bad" THEN Complain("usage", 2, {})
     ELSE IF Cardinality(cmd.modes) > 1 \/ WrongCount THEN Complain("usage", 2, {})
     ELSE /\ Goto(CASE Mode = "ast" -> "ast" [] Mode = "catalog" -> "open" [] OTHER -> "map")
          /\ UNCHANGED << held, needs, fetched >>

(* --ast: the statement is parsed and its tree is printed.                 *)
Ast ==
  /\ pc = "ast"
  /\ UNCHANGED vars
  /\ \/ Show(<< "tree", 1 >>, {})
     \/ Complain("parse", 1, {})

(* build_explicit_map                                                      *)
ExplicitMap ==
  /\ pc = "map"
  /\ UNCHANGED vars
  /\ IF Cardinality(cmd.names) = 2 THEN Complain("usage", 2, {})
     ELSE \/ /\ Goto("open")
             /\ held' = IF cmd.names = {} THEN held ELSE held \cup Map
             /\ UNCHANGED << needs, fetched >>
          \/ cmd.names # {} /\ Complain("name_map", 1, {})

Open ==
  /\ pc = "open"
  /\ UNCHANGED vars
  /\ \/ /\ Goto("catalog")
        /\ held' = held \cup { "db" }
        /\ UNCHANGED << needs, fetched >>
     \/ Complain("open", 1, Map)

-----------------------------------------------------------------------------
(* catalog_load; a catalog that could not be loaded is freed in there.     *)
LoadCatalog ==
  /\ pc = "catalog"
  /\ \/ Load /\ UNCHANGED mainVars
     \/ /\ phase = "failed"
        /\ UNCHANGED vars
        /\ Complain("schema", 1, Opened)
     \/ /\ phase = "loaded"
        /\ UNCHANGED vars
        /\ Goto(IF Mode = "catalog" THEN "show" ELSE "derive")
        /\ UNCHANGED << held, needs, fetched >>

Listed == { tables[k].name : k \in 1..ntables }

(* run_catalog: all tables; or a table, or a column, if it is known.       *)
ShowCatalog ==
  /\ pc = "show"
  /\ Release
  /\ \/ cmd.npos = 1 /\ Show(<< "tables", ntables >>, Opened)
     \/ cmd.npos = 2 /\ \E t \in TableNames :
          IF t \in Listed
          THEN Show(<< "table", 1 >>, Opened) \/ Complain("unknown_column", 1, Opened)
          ELSE Complain("unknown_table", 1, Opened)

(* effective_map: an explicit map wins over a derived one.                 *)
EffectiveMap ==
  /\ pc = "derive"
  /\ IF cmd.derive /\ cmd.names = {}
     THEN \/ /\ schema[EdgeTable] # "none"
             /\ UNCHANGED vars
             /\ Goto("parse")
             /\ held' = held \cup { "derived_map" }
             /\ UNCHANGED << needs, fetched >>
          \/ Release /\ Complain("derive", 1, Opened)
     ELSE /\ UNCHANGED vars
          /\ Goto("parse")
          /\ UNCHANGED << held, needs, fetched >>

(* Mutant: the derived map is not freed.                                   *)
ParseFails_MapKept == Release /\ Complain("parse", 1, Opened)

ParseFails == Release /\ Complain("parse", 1, Opened \cup { "derived_map" })

Parse ==
  /\ pc = "parse"
  /\ \/ /\ UNCHANGED vars
        /\ Goto("translate")
        /\ held' = held \cup { "query" }
        /\ UNCHANGED << needs, fetched >>
     \/ ParseFails

(* Mutant: a label need not be a table of the catalog.                     *)
Speakable_Any == TableNames

Speakable == Listed \cup { EdgeTable }

(* transform_query; --explain prints the statement and is done.            *)
Translate ==
  /\ pc = "translate"
  /\ \/ Release /\ Complain("translate", 1, Parsed)
     \/ Mode = "explain" /\ Release /\ Show(<< "sql", 1 >>, Parsed)
     \/ /\ Mode = "query"
        /\ UNCHANGED vars
        /\ Goto("prepare")
        /\ needs' \in SUBSET Speakable \ {{}}
        /\ held' = held \cup { "sql" }
        /\ UNCHANGED fetched

-----------------------------------------------------------------------------
(* exec_query: the rows are buffered, and printed once SQLite is done.     *)
Missing == { t \in needs : schema[t] = "none" }

Prepare ==
  /\ pc = "prepare"
  /\ IF Missing # {} THEN Release /\ Complain("no_such_table", 1, Parsed)
     ELSE \/ /\ UNCHANGED vars
             /\ Goto("step")
             /\ held' = held \cup { "rows" }
             /\ UNCHANGED << needs, fetched >>
          \/ Release /\ Complain("storage", 1, Parsed)

Row ==
  /\ pc = "step" /\ fetched < MaxRows
  /\ fetched' = fetched + 1
  /\ UNCHANGED << vars, cmd, pc, held, needs, stdout, messages, why, code >>

(* Mutant: the rows so far are printed when a step fails.                  *)
StepFails_Prints ==
  /\ pc = "step"
  /\ Release
  /\ Exit(1, Parsed)
  /\ stdout' = << "answer", fetched >>
  /\ messages' = messages + 1
  /\ why' = "storage"

StepFails == pc = "step" /\ Release /\ Complain("storage", 1, Parsed)

(* An answer without rows prints nothing, not even a header.               *)
Done ==
  /\ pc = "step"
  /\ Release
  /\ Show(IF fetched = 0 THEN Nothing ELSE << "answer", fetched >>, Parsed)

Execute == Prepare \/ Row \/ StepFails \/ Done

Main ==
  \/ Arguments \/ Ast \/ ExplicitMap \/ Open \/ LoadCatalog \/ ShowCatalog
  \/ EffectiveMap \/ Parse \/ Translate \/ Execute

Concurrently == pc # "exit" /\ Change /\ UNCHANGED mainVars

ProgramNext == Main \/ Concurrently

ProgramSpec == ProgramInit /\ [][ProgramNext]_allVars

FairProgramSpec == ProgramSpec /\ WF_allVars(Main)

-----------------------------------------------------------------------------
(***************************************************************************)
(* Properties.                                                             *)
(***************************************************************************)
Resources == { "map", "db", "derived_map", "query", "sql", "rows" }

(* The program holds what it may hold, and the exit status is one of the   *)
(* documented three.                                                       *)
TypeOK ==
  /\ CatalogTypeOK
  /\ cmd \in Commands
  /\ held \subseteq Resources
  /\ needs \subseteq TableNames
  /\ fetched \in 0..MaxRows
  /\ messages \in 0..1
  /\ code \in (0 - 1)..2 /\ (code = 0 - 1) = (pc # "exit")

(* Every way out releases everything, the catalog's memory too, and frees  *)
(* no block twice unless the catalog could not be loaded.                  *)
NothingHeldAtExit ==
  pc = "exit" =>
    /\ held = {}
    /\ \A b \in Blocks : frees[b] >= 1 /\ (phase = "freed" => frees[b] = 1)

(* All or nothing: a run that fails says why, once, and prints nothing; a  *)
(* run that succeeds prints all of its output and complains of nothing.    *)
AllOrNothing ==
  pc = "exit" =>
    /\ code = 0 => messages = 0 /\ (fetched > 0 => stdout = << "answer", fetched >>)
    /\ code # 0 => messages = 1 /\ stdout = Nothing
    /\ code = 2 <=> why = "usage"

(* SQLite misses a table only if the schema changed under the program, or  *)
(* there is no edge table: the translator lets no other name through.      *)
MissesOnlyWhatIsGone ==
  why = "no_such_table" => changes > 0 \/ schema[EdgeTable] = "none"

(* The program ends.                                                       *)
Termination == <>(pc = "exit")
=============================================================================
