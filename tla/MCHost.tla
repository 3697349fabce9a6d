-------------------------------- MODULE MCHost --------------------------------
(***************************************************************************)
(* The parts of the backend that do not touch the translations once they   *)
(* serve, each checked on an instance of its own in one run: replicas that *)
(* start over one share (those of MCI18nSeed), and a command of 4 units on *)
(* its way to a verdict.                                                   *)
(***************************************************************************)
EXTENDS MCI18nSeed, CommandPipeline

VARIABLE part

-----------------------------------------------------------------------------
(* Constants of the commands.                                              *)

Commitment(amount, bad) ==
  [op |-> "commit", blank |-> bad, amount |-> amount, threeLetters |-> TRUE, past |-> bad]
Move(stage) == [op |-> "advance", blank |-> FALSE, target |-> stage]

\* One that fits the bucket, one that is malformed and exceeds it, and two moves.
MCCommands ==
  {Commitment(4, FALSE), Commitment(5, TRUE), Move("Investable"), Move("Withdrawn")}

Book(open, permits) == [open |-> open, permits |-> permits]
InStage(status, ok, differs) == [status |-> status, inWindow |-> ok, differs |-> differs]
Sleeve(ofFund, active, headroom) == [ofFund |-> ofFund, active |-> active, headroom |-> headroom]

MCAnswers ==
  [fund |-> {Gone, Book(TRUE, TRUE), Book(FALSE, FALSE)},
   deal |-> {Gone, InStage("Investable", TRUE, {}), InStage("Pipeline", FALSE, {"region"})},
   node |-> {Sleeve(TRUE, TRUE, 4), Sleeve(TRUE, FALSE, 3)},
   limits |-> {Gone, 5},
   exposure |-> {1}]

-----------------------------------------------------------------------------
(* The idle states.                                                        *)

SeedIdle ==
  /\ files = [f \in File |-> "missing"] /\ at = [p \in Process |-> "down"]
  /\ todo = [p \in Process |-> {}] /\ target = [p \in Process |-> "none"] /\ upset = {}
CommandIdle ==
  /\ command = Move("Investable") /\ style = "functional" /\ memoized = TRUE
  /\ upstream = <<>> /\ held = <<>> /\ answers = <<>> /\ outcome = Undecided
  /\ changes = 0 /\ faults = 0

vars == <<part, seedVars, commandVars>>

HostInit ==
  /\ part \in {"seed", "command"}
  /\ IF part = "seed" THEN SeedInit ELSE SeedIdle
  /\ IF part = "command" THEN CommandInit ELSE CommandIdle

SeedStep == part = "seed" /\ SeedNext /\ UNCHANGED <<part, commandVars>>
CommandStep == part = "command" /\ CommandNext /\ UNCHANGED <<part, seedVars>>

HostNext == SeedStep \/ CommandStep

HostSpec == HostInit /\ [][HostNext]_vars
=============================================================================
