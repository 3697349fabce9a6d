----------------------------- MODULE CommitRules -----------------------------
(***************************************************************************)
(* The rules of the commands CommitCapital and AdvanceDealStage, as        *)
(* functions of the command and of what the upstream answers, and what     *)
(* each of the five styles of the repository reports of their findings.    *)
(* A finding is the code of an Error; the classic styles say the same in   *)
(* words.  What a rule compares the command with is kept as the outcome of *)
(* the comparison (a fund permits the currency, a deal differs in its      *)
(* region), but for amounts.                                               *)
(***************************************************************************)
EXTENDS Integers, Sequences

CONSTANTS
  Gone,     \* the answer null: no such fund, deal or node, no limit for the bucket
  Epsilon,  \* the least amount of DataAnnotations' [Range], in the smallest decimal
  Cent      \* the least amount of the N-tier DTO's [Range]

ASSUME FloorsAssumption == Epsilon \in Int /\ Cent \in Int /\ 1 <= Epsilon /\ Epsilon <= Cent

Source == {"fund", "deal", "node", "limits", "exposure"}
DealStatus == {"Pipeline", "Investable", "Closed", "Withdrawn"}

AnswerOf ==
  [fund |-> [open : BOOLEAN, permits : BOOLEAN] \union {Gone},
   deal |-> [status : DealStatus, inWindow : BOOLEAN,
             differs : SUBSET {"assetClass", "region", "liquidity"}] \union {Gone},
   node |-> [ofFund : BOOLEAN, active : BOOLEAN, headroom : Int] \union {Gone},
   limits |-> Int \union {Gone},
   exposure |-> Int]

Command ==
  [op : {"commit"}, blank : BOOLEAN, amount : Int, threeLetters : BOOLEAN, past : BOOLEAN]
    \union [op : {"advance"}, blank : BOOLEAN, target : DealStatus]

-----------------------------------------------------------------------------
(* The rules.                                                              *)

Failing(checks) == {code \in DOMAIN checks : checks[code]}

\* Structural of either command.
Malformed(c, least) ==
  Failing(IF c.op = "advance"
          THEN [REQUIRED |-> c.blank]
          ELSE [REQUIRED |-> c.blank, AMOUNT_NONPOSITIVE |-> c.amount < least,
                CURRENCY_FORMAT |-> ~c.threeLetters, DATE_IN_PAST |-> c.past])

FundFindings(fund) ==
  IF fund = Gone THEN {"FUND_NOT_FOUND"} ELSE Failing([FUND_NOT_OPEN |-> ~fund.open])

\* A missing fund is FundMustBeOpen's to report.
CurrencyFindings(fund) ==
  IF fund = Gone THEN {} ELSE Failing([CURRENCY_NOT_PERMITTED |-> ~fund.permits])

DealFindings(deal) ==
  IF deal = Gone THEN {"DEAL_NOT_FOUND"}
  ELSE Failing([DEAL_NOT_INVESTABLE |-> deal.status # "Investable",
                DEAL_WINDOW |-> ~deal.inWindow,
                ASSETCLASS_MISMATCH |-> "assetClass" \in deal.differs,
                REGION_MISMATCH |-> "region" \in deal.differs,
                LIQUIDITY_MISMATCH |-> "liquidity" \in deal.differs])

NodeFindings(c, node) ==
  IF node = Gone THEN {"COINVEST_NOT_FOUND"}
  ELSE Failing([COINVEST_WRONG_FUND |-> ~node.ofFund,
                COINVEST_NOT_ACTIVE |-> ~node.active,
                COINVEST_NO_HEADROOM |-> node.headroom < c.amount])

\* Denied by default where no limit is configured.
AppetiteFindings(c, limit, committed) ==
  IF limit = Gone THEN {"APPETITE_NONE"}
  ELSE Failing([APPETITE_BREACH |-> committed + c.amount > limit])

Allowed ==
  [Pipeline |-> {"Investable", "Withdrawn"}, Investable |-> {"Closed", "Withdrawn"},
   Closed |-> {}, Withdrawn |-> {}]
CanTransition(current, target) == target \in Allowed[current]

TransitionFindings(c, deal) ==
  IF deal = Gone THEN {"DEAL_NOT_FOUND"}
  ELSE Failing([TRANSITION_NOT_ALLOWED |-> ~CanTransition(deal.status, c.target)])

-----------------------------------------------------------------------------
(* The rules as the functional handlers list them.                         *)

RulesOf(c) ==
  IF c.op = "advance" THEN {"Structural", "TransitionMustBeValid"}
  ELSE {"Structural", "FundMustBeOpen", "CurrencyMustBePermitted", "DealMustBeInvestable",
        "CoInvestmentMustHaveHeadroom", "CommitmentMustBeWithinAppetite"}

Reads ==
  [Structural |-> {}, TransitionMustBeValid |-> {"deal"}, FundMustBeOpen |-> {"fund"},
   CurrencyMustBePermitted |-> {"fund"}, DealMustBeInvestable |-> {"deal"},
   CoInvestmentMustHaveHeadroom |-> {"node"},
   CommitmentMustBeWithinAppetite |-> {"limits", "exposure"}]

\* What a rule finds when the upstream answers it with a.
RuleFindings(rule, c, a) ==
  CASE rule = "Structural" -> Malformed(c, 1)
    [] rule = "TransitionMustBeValid" -> TransitionFindings(c, a.deal)
    [] rule = "FundMustBeOpen" -> FundFindings(a.fund)
    [] rule = "CurrencyMustBePermitted" -> CurrencyFindings(a.fund)
    [] rule = "DealMustBeInvestable" -> DealFindings(a.deal)
    [] rule = "CoInvestmentMustHaveHeadroom" -> NodeFindings(c, a.node)
    [] rule = "CommitmentMustBeWithinAppetite" -> AppetiteFindings(c, a.limits, a.exposure)

-----------------------------------------------------------------------------
(* The classic styles of CommitCapital.                                    *)

Style == {"functional", "annotations", "factory", "ntier", "chaining"}

Least ==
  [functional |-> 1, annotations |-> Epsilon, factory |-> 1, ntier |-> Cent, chaining |-> 1]

\* The order in which the classic styles come upon the findings.
Order ==
  <<"FUND_NOT_FOUND", "FUND_NOT_OPEN", "CURRENCY_NOT_PERMITTED",
    "DEAL_NOT_FOUND", "DEAL_NOT_INVESTABLE", "DEAL_WINDOW",
    "ASSETCLASS_MISMATCH", "REGION_MISMATCH", "LIQUIDITY_MISMATCH",
    "COINVEST_NOT_FOUND", "COINVEST_WRONG_FUND", "COINVEST_NOT_ACTIVE", "COINVEST_NO_HEADROOM",
    "APPETITE_NONE", "APPETITE_BREACH">>

\* Of the findings, the one that an else-if chain or an exception leaves.
First(found) ==
  {Order[i] : i \in {i \in 1..Len(Order) :
      Order[i] \in found /\ \A j \in 1..(i - 1) : Order[j] \notin found}}

\* What is found in the answer of one source; the last to be read judges the limit.
Section(source, c, a) ==
  CASE source = "fund" -> FundFindings(a.fund) \union CurrencyFindings(a.fund)
    [] source = "deal" -> DealFindings(a.deal)
    [] source = "node" -> NodeFindings(c, a.node)
    [] source = "limits" -> {}
    [] source = "exposure" -> AppetiteFindings(c, a.limits, a.exposure)

Found(sources, c, a) == UNION {Section(s, c, a) : s \in sources}

\* A deal that is not investable is not looked at any further.
DealReport(deal) ==
  LET found == DealFindings(deal)
  IN  IF "DEAL_NOT_INVESTABLE" \in found THEN {"DEAL_NOT_INVESTABLE"} ELSE found

\* CommitCapitalValidator.Validate and CommitmentService.CommitAsync past the structure.
BusinessReport(c, a) ==
  IF FundFindings(a.fund) # {} THEN FundFindings(a.fund)
  ELSE CurrencyFindings(a.fund) \union DealReport(a.deal)
         \union First(NodeFindings(c, a.node)) \union AppetiteFindings(c, a.limits, a.exposure)

\* The DTO's attributes are checked before the validator that knows the date.
ShapeReport(style, c) ==
  LET shape == Malformed(c, Least[style])
  IN  IF style = "ntier" /\ shape # {"DATE_IN_PAST"} THEN shape \ {"DATE_IN_PAST"} ELSE shape

\* What a style reports when its calls to the sources in read were answered with a.
Report(style, c, a, read) ==
  CASE style = "annotations" -> Malformed(c, Least[style]) \union Found(Source, c, a)
    [] style # "annotations" /\ ShapeReport(style, c) # {} -> ShapeReport(style, c)
    [] style = "chaining" /\ ShapeReport(style, c) = {} -> First(Found(read, c, a))
    [] style \in {"factory", "ntier"} /\ ShapeReport(style, c) = {} -> BusinessReport(c, a)
=============================================================================
