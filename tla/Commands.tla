------------------------------ MODULE Commands ------------------------------
(***************************************************************************)
(* @atlas/commands: rule.ts, validator.ts and handler.ts.  Every rule of a *)
(* command runs, whatever the others found; one that throws counts as one  *)
(* that found an error.  Only errors reject a command, warnings are kept   *)
(* in the trace.  The order of the trace is the order of the rules; a      *)
(* trace is a function from rules here, and loses nothing by it.           *)
(***************************************************************************)

Violation(code, severity) == [code |-> code, severity |-> severity]

\* What the check of a rule comes to: what it returned, or that it threw.
Found(violations) == [threw |-> FALSE, errors |-> violations]
Threw == [threw |-> TRUE, errors |-> {}]

Blocks(error) == error.severity = "Error"

\* Mutant: a rule that threw has found nothing.
RunSwallowing(check) ==
  [errors |-> check.errors,
   outcome |-> IF \E e \in check.errors : Blocks(e) THEN "Failed" ELSE "Passed"]

Run(check) ==
  LET errors == IF check.threw THEN {Violation("RULE_THREW", "Error")} ELSE check.errors
  IN  [errors |-> errors,
       outcome |-> IF \E e \in errors : Blocks(e) THEN "Failed" ELSE "Passed"]

Validate(checks) ==
  LET entries == [rule \in DOMAIN checks |-> Run(checks[rule])]
  IN  [trace |-> entries,
       approved |-> \A rule \in DOMAIN entries : ~ \E e \in entries[rule].errors : Blocks(e)]

\* handle: the command is executed when, and only when, it was approved.
Handle(checks, executed, nothing) ==
  LET outcome == Validate(checks)
  IN  [approved |-> outcome.approved, trace |-> outcome.trace,
       value |-> IF outcome.approved THEN executed ELSE nothing]
=============================================================================
