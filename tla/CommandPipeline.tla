--------------------------- MODULE CommandPipeline ---------------------------
(***************************************************************************)
(* One command on its way to a verdict, beside an upstream that changes    *)
(* and fails: CommandHandler and Validator with their concurrent rules,    *)
(* with or without a MemoizedUpstream around the clients, and the four     *)
(* classic styles, which ask one source after the other or all of them     *)
(* before they begin.  A call is answered with what the upstream holds at  *)
(* that moment; the calls under way are answered in any order.             *)
(***************************************************************************)
EXTENDS CommitRules

CONSTANTS
  Commands,         \* the commands that may arrive
  Answers,          \* Answers[s]: what source s may hold
  Configured,       \* the limit of the command's bucket in appetite.config.json
  Pending, Threw,   \* in place of an answer: none yet; an exception or a cancellation
  Nothing,          \* a receipt has no status
  MaxChanges, MaxFaults  \* bounds of TLC's runs

ASSUME CommandsAssumption ==
  /\ Commands \subseteq Command
  /\ \A s \in Source : Answers[s] \subseteq AnswerOf[s]
  /\ Configured \in Int \union {Gone}
  /\ \A s \in Source : Pending \notin AnswerOf[s] /\ Threw \notin AnswerOf[s]

VARIABLES
  command, style,
  memoized,  \* the handler was given a MemoizedUpstream
  upstream,  \* upstream[s]: what source s holds now
  held,      \* observer: held[s], all that it has held since the command arrived
  answers,   \* answers[<<reader, s>>]: how the reader's call to s ended
  outcome,
  changes, faults

commandVars == <<command, style, memoized, upstream, held, answers, outcome, changes, faults>>

\* Who keeps what a call returned; a memo keeps it for all.
Readers == {"FundMustBeOpen", "CurrencyMustBePermitted", "DealMustBeInvestable",
            "CoInvestmentMustHaveHeadroom", "CommitmentMustBeWithinAppetite",
            "TransitionMustBeValid", "Execute", "request"}
Call == Readers \X Source

Outcome(verdict, errors, from) == [verdict |-> verdict, errors |-> errors, from |-> from]
Undecided == Outcome("none", {}, Nothing)

\* One value for every source.
Readings(values) ==
  [fund : values.fund, deal : values.deal, node : values.node, limits : values.limits,
   exposure : values.exposure]

CommandTypeOK ==
  /\ command \in Commands /\ style \in Style /\ memoized \in BOOLEAN
  /\ memoized \/ command.op = "advance" => style = "functional"
  /\ DOMAIN upstream = Source /\ DOMAIN held = Source /\ DOMAIN answers = Call
  /\ \A s \in Source : upstream[s] \in held[s] /\ held[s] \subseteq Answers[s]
  /\ \A call \in Call : answers[call] \in AnswerOf[call[2]] \union {Pending, Threw}
  /\ outcome.verdict \in {"none", "passed", "approved", "rejected", "threw"}
  /\ changes \in Nat /\ faults \in Nat

-----------------------------------------------------------------------------
(* The calls.                                                              *)

\* Mutant: a memo per rule, or none.
ReaderOfEach(who) == IF style # "functional" THEN "request" ELSE who
ReaderOf(who) == IF memoized \/ style # "functional" THEN "request" ELSE who

ReadBy(reader) == [s \in Source |-> answers[<<reader, s>>]]
Got(reader, s) == answers[<<reader, s>>] \notin {Pending, Threw}
Asked == ReadBy("request")

\* Validator starts every rule, and a rule makes its calls at once; the handler
\* of AdvanceDealStage asks for the deal once more before it executes.
RuleCalls == UNION {{ReaderOf(rule)} \X Reads[rule] : rule \in RulesOf(command)}
ExecuteCalls == IF command.op = "advance" THEN {<<ReaderOf("Execute"), "deal">>} ELSE {}

\* The chain stops at the first section that finds something, the N-tier
\* service at a bad fund; its limits come from the configuration.  Without a
\* limit, the service behind DataAnnotations does not ask for the exposure.
Before ==
  [fund |-> {}, deal |-> {"fund"}, node |-> {"fund", "deal"}, limits |-> {"fund", "deal", "node"},
   exposure |-> {"fund", "deal", "node", "limits"}]
GoesOnTo(s) ==
  CASE style = "chaining" ->
         ShapeReport(style, command) = {} /\ Found(Before[s], command, Asked) = {}
    [] style = "ntier" ->
         ShapeReport(style, command) = {} /\ (s # "fund" => FundFindings(Asked.fund) = {})
    [] style = "annotations" -> s = "exposure" => Asked.limits # Gone
SequentialCalls ==
  {call \in {"request"} \X Source :
     (\A e \in Before[call[2]] : Got("request", e)) /\ GoesOnTo(call[2])}

\* The calls whose answers the handling is waiting for.
Due ==
  {call \in CASE outcome.verdict = "passed" -> ExecuteCalls
              [] outcome.verdict = "none" /\ style = "functional" -> RuleCalls
              [] outcome.verdict = "none" /\ style = "factory" -> {"request"} \X Source
              [] outcome.verdict = "none" /\ style \notin {"functional", "factory"} -> SequentialCalls
              [] OTHER -> {} :
     answers[call] = Pending}

-----------------------------------------------------------------------------

CommandInit ==
  /\ command \in Commands
  /\ style \in IF command.op = "commit" THEN Style ELSE {"functional"}
  /\ memoized \in IF style = "functional" THEN BOOLEAN ELSE {FALSE}
  /\ upstream \in Readings(Answers)
  /\ held = [s \in Source |-> {upstream[s]}]
  /\ answers = [call \in Call |-> IF style = "ntier" /\ call = <<"request", "limits">>
                                  THEN Configured ELSE Pending]
  /\ outcome = Undecided
  /\ changes = 0 /\ faults = 0

Answered(call) ==
  /\ call \in Due
  /\ answers' = [answers EXCEPT ![call] = upstream[call[2]]]
  /\ UNCHANGED <<command, style, memoized, upstream, held, outcome, changes, faults>>

CallThrows(call) ==
  /\ call \in Due /\ faults < MaxFaults
  /\ answers' = [answers EXCEPT ![call] = Threw]
  /\ faults' = faults + 1
  /\ UNCHANGED <<command, style, memoized, upstream, held, outcome, changes>>

\* Another client of the source changes what it holds.
Change(s) ==
  /\ outcome.verdict \in {"none", "passed"} /\ changes < MaxChanges
  /\ \E a \in Answers[s] :
       /\ upstream' = [upstream EXCEPT ![s] = a]
       /\ held' = [held EXCEPT ![s] = @ \union {a}]
  /\ changes' = changes + 1
  /\ UNCHANGED <<command, style, memoized, answers, outcome, faults>>

-----------------------------------------------------------------------------
(* The verdict.                                                            *)

\* RunAsync makes an exception of a rule one of its errors.
Unharmed(rule) == \A s \in Reads[rule] : answers[<<ReaderOf(rule), s>>] # Threw
\* Mutant: the first rule that throws ends the validation (no catch in RunAsync).
RuleErrorsOrNone(rule) ==
  IF \A r \in RulesOf(command) : Unharmed(r)
  THEN RuleFindings(rule, command, ReadBy(ReaderOf(rule))) ELSE {"RULE_THREW"}
RuleErrors(rule) ==
  IF Unharmed(rule) THEN RuleFindings(rule, command, ReadBy(ReaderOf(rule))) ELSE {"RULE_THREW"}

Judged(errors, good) ==
  IF errors = {} THEN Outcome(good, {}, Nothing) ELSE Outcome("rejected", errors, Nothing)

\* Task.WhenAll and Result.Combine; whatever is wrong is reported.
Combine ==
  /\ outcome.verdict = "none" /\ style = "functional" /\ Due = {}
  /\ outcome' = Judged(UNION {RuleErrors(rule) : rule \in RulesOf(command)}, "passed")
  /\ UNCHANGED <<command, style, memoized, upstream, held, answers, changes, faults>>

\* ExecuteAsync; nothing catches what the second reading of the deal throws.
Execute ==
  /\ outcome.verdict = "passed" /\ Due = {}
  /\ LET deal == answers[<<ReaderOf("Execute"), "deal">>]
     IN  outcome' =
           IF command.op = "commit" THEN Outcome("approved", {}, Nothing)
           ELSE IF deal \in {Threw, Gone} THEN Outcome("threw", {}, Nothing)
           ELSE Outcome("approved", {}, deal.status)
  /\ UNCHANGED <<command, style, memoized, upstream, held, answers, changes, faults>>

\* The classic styles let an exception of the upstream through.
Judge ==
  /\ outcome.verdict = "none" /\ style # "functional" /\ Due = {}
  /\ outcome' =
       IF \E s \in Source : Asked[s] = Threw THEN Outcome("threw", {}, Nothing)
       ELSE Judged(Report(style, command, Asked, {s \in Source : Got("request", s)}), "approved")
  /\ UNCHANGED <<command, style, memoized, upstream, held, answers, changes, faults>>

CommandNext ==
  \/ \E call \in Call : Answered(call) \/ CallThrows(call)
  \/ \E s \in Source : Change(s)
  \/ Combine \/ Execute \/ Judge

CommandSpec == CommandInit /\ [][CommandNext]_commandVars

-----------------------------------------------------------------------------
(* Properties.                                                             *)

\* Each source as it was at some moment of the handling.
Snapshots == Readings(IF style = "ntier" THEN [held EXCEPT !.limits = {Configured}] ELSE held)

Findings(snap) ==
  Malformed(command, Least[style])
    \union IF command.op = "advance" THEN TransitionFindings(command, snap.deal)
           ELSE Found(Source, command, snap)

\* Every source was read once, or has not changed.
OneReading == memoized \/ style # "functional" \/ changes = 0

\* However its calls overlap with changes and failures of the upstream, a
\* command is judged by one reading of each source, in every style: what is
\* approved has no finding, only findings are reported, all of them by the
\* styles that promise "the complete picture in one pass" (README.md of
\* Atlas.Functional.Commands, L23), and a rule that throws "can never hide the
\* other findings" (L24).
VerdictIsOfOneReading ==
  outcome.verdict \notin {"none", "threw"} /\ OneReading =>
    \E snap \in Snapshots :
      /\ outcome.errors \ {"RULE_THREW"} \subseteq Findings(snap)
      /\ outcome.errors = {} => Findings(snap) = {}
      /\ style = "annotations" => outcome.errors = Findings(snap)
      /\ style = "functional" =>
           \A rule \in RulesOf(command) :
             Unharmed(rule) => RuleFindings(rule, command, snap) \subseteq outcome.errors

\* Behind a memo the deal that is executed is the one that was validated, also
\* if the CRM has moved it since, dropped it or failed: the receipt tells of an
\* edge of the machine from a stage the deal was in, and nothing is thrown.
ReceiptIsOfTheVerdict ==
  memoized /\ command.op = "advance" =>
    /\ outcome.verdict # "threw"
    /\ outcome.verdict = "approved" =>
         /\ CanTransition(outcome.from, command.target)
         /\ \E deal \in held.deal \ {Gone} : deal.status = outcome.from
=============================================================================
