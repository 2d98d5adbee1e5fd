---------------------------- MODULE BuildScript -----------------------------
(***************************************************************************)
(* build.sh: the programs it runs, with what each asserts of the number of *)
(* its arguments.  set -e ends the script with the first that fails.       *)
(* Whether the set-up of --full, make and the virtual environment succeed  *)
(* is left open.                                                           *)
(***************************************************************************)
EXTENDS Naturals, Sequences

\* The commands behind the set-up, with the arguments behind their names.
Commands == <<[program |-> "make", args |-> 0],
              [program |-> "ConversionScript", args |-> 4],
              [program |-> "activate", args |-> 0],
              [program |-> "simple.py", args |-> 3],
              [program |-> "EarpodModelTest", args |-> 0]>>

\* assert(argc == 5), assert(len(argv) == 1), assert(argc == 2), where argc
\* counts the name of the program and argv of simple.py does not.
Accepts(c) ==
  CASE c.program \in {"make", "activate"} -> TRUE
    [] c.program = "ConversionScript" -> c.args + 1 = 5
    [] c.program = "simple.py"        -> c.args = 1
    [] c.program = "EarpodModelTest"  -> c.args + 1 = 2

VARIABLES
  step,     \* number of the next command; 0 is the set-up of --full
  exit      \* "none", "ok", "failed"

vars == <<step, exit>>

Init == step \in {0, 1} /\ exit = "none"

Setup ==
  /\ step = 0 /\ exit = "none"
  /\ \/ step' = 1 /\ exit' = exit
     \/ step' = step /\ exit' = "failed"

\* set -e: the first command that fails is the last.
RunCommand ==
  /\ step \in DOMAIN Commands /\ exit = "none"
  /\ step' = step + 1
  /\ \/ /\ Accepts(Commands[step])
        /\ exit' = IF step = Len(Commands) THEN "ok" ELSE "none"
     \/ exit' = "failed"

Next == Setup \/ RunCommand

Spec == Init /\ [][Next]_vars

\* The script calls no program with arguments that the program's first
\* assertion rejects.
ArgumentsAccepted ==
  step \in DOMAIN Commands /\ exit = "none" => Accepts(Commands[step])
=============================================================================
