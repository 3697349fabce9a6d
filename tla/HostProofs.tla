----------------------------- MODULE HostProofs -----------------------------
(***************************************************************************)
(* Proofs about the parts of the backend that MCHost checks beside each    *)
(* other.  I18nSeed, for any number of replicas and files: what is edited  *)
(* is never overwritten, and a share without catalogs is populated.        *)
(* CommandPipeline, for any commands and any answers of the upstream: a    *)
(* verdict is one of one reading, and a receipt one of its verdict.        *)
(***************************************************************************)
EXTENDS I18nSeed, CommandPipeline, TLAPS

-----------------------------------------------------------------------------
(* I18nSeed.                                                               *)

\* One replica at a time fills a file, and nobody else has touched it since.
FillInv ==
  \A p \in Process : at[p] = "fill" =>
    /\ files[target[p]] = "partial"
    /\ \A q \in Process : at[q] = "fill" /\ target[q] = target[p] => q = p

AtWork(p) == at[p] \in {"next", "copy", "fill"}

\* A replica that will not give up at the file it is at.
Good(p) == AtWork(p) /\ (at[p] = "copy" => files[target[p]] = "missing")

\* Undisturbed, every loop still has all missing files before it; torn files
\* are being filled; and either nobody has begun, or nothing is missing, or one
\* replica goes on.  The one that made the last file is such a replica.
PopulationInv ==
  upset = {} =>
    /\ \A p \in Process : AtWork(p) => Missing \subseteq todo[p]
    /\ \A f \in Seed : files[f] = "partial" => Filling(f)
    /\ \/ ~HasCatalog /\ \A p \in Process : at[p] = "down"
       \/ Missing = {}
       \/ \E p \in Process : Good(p)

SeedInv == SeedTypeOK /\ FillInv /\ PopulationInv

LEMMA SeedInitInv == SeedInit => SeedInv
BY FilesAssumption
   DEF SeedInit, SeedInv, SeedTypeOK, FillInv, PopulationInv, AtWork, Good, Content,
       Disturbance, Missing, Filling, HasCatalog

\* The types survive every step.
LEMMA SeedTypeStep == SeedTypeOK /\ [SeedNext]_seedVars => SeedTypeOK'
<1> SUFFICES ASSUME SeedTypeOK, [SeedNext]_seedVars PROVE SeedTypeOK'
    OBVIOUS
<1> USE FilesAssumption DEF SeedTypeOK, Content, Disturbance
<1>1. ASSUME NEW p \in Process, Start(p) PROVE SeedTypeOK'
      BY <1>1 DEF Start, LeaveAs
<1>2. ASSUME NEW p \in Process, NEW f \in Seed, Look(p, f) PROVE SeedTypeOK'
      BY <1>2 DEF Look, LeaveAs
<1>3. ASSUME NEW p \in Process, Copy(p) PROVE SeedTypeOK'
      BY <1>3 DEF Copy, LeaveAs
<1>4. ASSUME NEW p \in Process, Fill(p) PROVE SeedTypeOK'
      BY <1>4 DEF Fill
<1>5. ASSUME NEW p \in Process, Finish(p) \/ CopyFails(p) \/ Crash(p) PROVE SeedTypeOK'
      BY <1>5 DEF Finish, CopyFails, Crash, LeaveAs
<1>6. ASSUME NEW f \in File, Edit(f) \/ DropFile(f) \/ RemoveFile(f) PROVE SeedTypeOK'
      BY <1>6 DEF Edit, DropFile, RemoveFile
<1>7. CASE UNCHANGED seedVars
      BY <1>7 DEF seedVars
<1> QED BY <1>1, <1>2, <1>3, <1>4, <1>5, <1>6, <1>7 DEF SeedNext

\* File.Copy creates the file or throws, so a file has one replica filling it.
LEMMA FillStep == SeedTypeOK /\ FillInv /\ [SeedNext]_seedVars => FillInv'
<1> SUFFICES ASSUME SeedTypeOK, FillInv, [SeedNext]_seedVars PROVE FillInv'
    OBVIOUS
<1> USE FilesAssumption DEF SeedTypeOK, FillInv
<1>1. ASSUME NEW p \in Process, Start(p) PROVE FillInv'
      BY <1>1 DEF Start, LeaveAs
<1>2. ASSUME NEW p \in Process, NEW f \in Seed, Look(p, f) PROVE FillInv'
      BY <1>2 DEF Look, LeaveAs
<1>3. ASSUME NEW p \in Process, Copy(p) PROVE FillInv'
      BY <1>3 DEF Copy, LeaveAs
<1>4. ASSUME NEW p \in Process, Fill(p) PROVE FillInv'
      BY <1>4 DEF Fill
<1>5. ASSUME NEW p \in Process, Finish(p) \/ CopyFails(p) \/ Crash(p) PROVE FillInv'
      BY <1>5 DEF Finish, CopyFails, Crash, LeaveAs
<1>6. ASSUME NEW f \in File, Edit(f) \/ DropFile(f) \/ RemoveFile(f) PROVE FillInv'
      BY <1>6 DEF Edit, DropFile, RemoveFile, Filling
<1>7. CASE UNCHANGED seedVars
      BY <1>7 DEF seedVars
<1> QED BY <1>1, <1>2, <1>3, <1>4, <1>5, <1>6, <1>7 DEF SeedNext

\* Who gives up leaves somebody behind who goes on.
LEMMA PopulationStep == SeedInv /\ [SeedNext]_seedVars => PopulationInv'
<1> SUFFICES ASSUME SeedInv, [SeedNext]_seedVars, upset' = {} PROVE PopulationInv'
    BY DEF PopulationInv
<1> USE FilesAssumption DEF SeedInv, SeedTypeOK
<1>1. ASSUME NEW p \in Process, Start(p) PROVE PopulationInv'
      BY <1>1 DEF Start, LeaveAs, PopulationInv, AtWork, Good, Missing, Filling, HasCatalog
<1>2. ASSUME NEW p \in Process, NEW f \in Seed, Look(p, f) PROVE PopulationInv'
      BY <1>2 DEF Look, LeaveAs, PopulationInv, AtWork, Good, Missing, Filling, HasCatalog
<1>3. ASSUME NEW p \in Process, Copy(p) PROVE PopulationInv'
      BY <1>3 DEF Copy, LeaveAs, PopulationInv, AtWork, Good, Missing, Filling, HasCatalog
<1>4. ASSUME NEW p \in Process, Fill(p) PROVE PopulationInv'
      BY <1>4 DEF Fill, PopulationInv, AtWork, Good, Missing, Filling, HasCatalog
<1>5. ASSUME NEW p \in Process, Finish(p) PROVE PopulationInv'
      BY <1>5 DEF Finish, LeaveAs, PopulationInv, AtWork, Good, Missing, Filling, HasCatalog
<1>6. ASSUME NEW p \in Process, CopyFails(p) PROVE PopulationInv'
      BY <1>6 DEF CopyFails
<1>7. ASSUME NEW p \in Process, Crash(p) PROVE PopulationInv'
      BY <1>7 DEF Crash, LeaveAs, PopulationInv, AtWork, Good, Missing, Filling, HasCatalog
<1>8. ASSUME NEW f \in File, Edit(f) PROVE PopulationInv'
      BY <1>8 DEF Edit, PopulationInv, AtWork, Good, Missing, Filling, HasCatalog
<1>9. ASSUME NEW f \in File, DropFile(f) \/ RemoveFile(f) PROVE PopulationInv'
      BY <1>9 DEF DropFile, RemoveFile
<1>10. CASE UNCHANGED seedVars
      BY <1>10 DEF seedVars, PopulationInv, AtWork, Good, Missing, Filling, HasCatalog
<1> QED BY <1>1, <1>2, <1>3, <1>4, <1>5, <1>6, <1>7, <1>8, <1>9, <1>10 DEF SeedNext

LEMMA SeedInvariant == SeedSpec => []SeedInv
<1>1. SeedInv /\ [SeedNext]_seedVars => SeedInv'
      BY SeedTypeStep, FillStep, PopulationStep DEF SeedInv
<1> QED BY <1>1, SeedInitInv, PTL DEF SeedSpec

-----------------------------------------------------------------------------

\* The variables of EnsureSeeded keep their types.
THEOREM SeedTypeCorrect == SeedSpec => []SeedTypeOK
BY SeedInvariant, PTL DEF SeedInv

\* Seeding replaces nothing that was edited, whoever starts, dies or edits when.
THEOREM EditsSurviveSeeding == SeedSpec => SeedsNeverOverwrite
<1> DEFINE Kept == \A f \in File : files[f] = "edited" => files'[f] \in {"edited", "missing"}
<1>1. SeedInv /\ [SeedNext]_seedVars => [Kept]_seedVars
  <2> SUFFICES ASSUME SeedInv, SeedNext, NEW g \in File, files[g] = "edited"
               PROVE files'[g] \in {"edited", "missing"}
      OBVIOUS
  <2> USE FilesAssumption DEF SeedInv, SeedTypeOK
  <2>1. ASSUME NEW p \in Process, Copy(p) PROVE files'[g] \in {"edited", "missing"}
        BY <2>1 DEF Copy, LeaveAs
  <2>2. ASSUME NEW p \in Process, Fill(p) PROVE files'[g] \in {"edited", "missing"}
        BY <2>2 DEF Fill, FillInv
  <2>3. ASSUME NEW f \in File, Edit(f) \/ DropFile(f) \/ RemoveFile(f)
        PROVE  files'[g] \in {"edited", "missing"}
        BY <2>3 DEF Edit, DropFile, RemoveFile
  <2> QED BY <2>1, <2>2, <2>3
             DEF SeedNext, Start, Look, Finish, CopyFails, Crash
<1> QED BY <1>1, SeedInvariant, PTL DEF SeedSpec, SeedsNeverOverwrite

\* However many replicas start at once, an undisturbed start over a share
\* without catalogs leaves every bundled file on it, complete.
THEOREM FreshSharesFill == SeedSpec => []FreshShareIsPopulated
<1>1. SeedInv => FreshShareIsPopulated
      BY FilesAssumption
      DEF SeedInv, SeedTypeOK, PopulationInv, FreshShareIsPopulated, AllUp, AtWork, Good,
          Missing, Filling, Content
<1> QED BY <1>1, SeedInvariant, PTL

-----------------------------------------------------------------------------
(* CommandPipeline: types.                                                 *)

LEMMA CommandInitType == CommandInit => CommandTypeOK
<1> SUFFICES ASSUME CommandInit PROVE CommandTypeOK
    OBVIOUS
<1>1. /\ DOMAIN upstream = Source
      /\ \A s \in Source : upstream[s] \in Answers[s]
      BY DEF CommandInit, Readings, Source
<1>2. /\ DOMAIN held = Source /\ DOMAIN answers = Call
      /\ \A s \in Source : held[s] = {upstream[s]}
      BY DEF CommandInit
<1>3. \A call \in Call : answers[call] \in AnswerOf[call[2]] \union {Pending, Threw}
  <2> SUFFICES ASSUME NEW call \in Call, call = <<"request", "limits">>
               PROVE  Configured \in AnswerOf[call[2]]
      BY DEF CommandInit
  <2> QED BY CommandsAssumption DEF AnswerOf
<1>4. outcome.verdict = "none" /\ changes = 0 /\ faults = 0
      BY DEF CommandInit, Undecided, Outcome
<1>5. /\ command \in Commands /\ style \in Style /\ memoized \in BOOLEAN
      /\ memoized \/ command.op = "advance" => style = "functional"
      BY DEF CommandInit, Style
<1> QED BY <1>1, <1>2, <1>3, <1>4, <1>5 DEF CommandTypeOK

LEMMA CommandTypeStep == CommandTypeOK /\ [CommandNext]_commandVars => CommandTypeOK'
<1> SUFFICES ASSUME CommandTypeOK, [CommandNext]_commandVars PROVE CommandTypeOK'
    OBVIOUS
<1> USE DEF CommandTypeOK
<1>1. ASSUME NEW call \in Call, Answered(call) PROVE CommandTypeOK'
  <2>1. call[2] \in Source
        BY DEF Call
  <2>2. upstream[call[2]] \in AnswerOf[call[2]]
        BY <2>1, CommandsAssumption
  <2> QED BY <1>1, <2>2 DEF Answered
<1>2. ASSUME NEW call \in Call, CallThrows(call) PROVE CommandTypeOK'
      BY <1>2 DEF CallThrows
<1>3. ASSUME NEW s \in Source, Change(s) PROVE CommandTypeOK'
      BY <1>3 DEF Change
<1>4. CASE Combine
      BY <1>4 DEF Combine, Judged, Outcome
<1>5. CASE Execute
      BY <1>5 DEF Execute, Outcome
<1>6. CASE Judge
      BY <1>6 DEF Judge, Judged, Outcome
<1>7. CASE UNCHANGED commandVars
      BY <1>7 DEF commandVars
<1> QED BY <1>1, <1>2, <1>3, <1>4, <1>5, <1>6, <1>7 DEF CommandNext

\* The variables of a command's handling keep their types.
THEOREM CommandTypeCorrect == CommandSpec => []CommandTypeOK
BY CommandInitType, CommandTypeStep, PTL DEF CommandSpec

-----------------------------------------------------------------------------
(* CommitRules: what a report leaves of the findings.                      *)

Code == {Order[i] : i \in 1..Len(Order)}

LEMMA FindingsHaveCodes ==
  ASSUME NEW c, NEW a
  PROVE  /\ FundFindings(a.fund) \subseteq Code /\ CurrencyFindings(a.fund) \subseteq Code
         /\ DealFindings(a.deal) \subseteq Code /\ NodeFindings(c, a.node) \subseteq Code
         /\ AppetiteFindings(c, a.limits, a.exposure) \subseteq Code
<1>1. /\ Len(Order) = 15
      /\ Order[1] = "FUND_NOT_FOUND" /\ Order[2] = "FUND_NOT_OPEN"
      /\ Order[3] = "CURRENCY_NOT_PERMITTED" /\ Order[4] = "DEAL_NOT_FOUND"
      /\ Order[5] = "DEAL_NOT_INVESTABLE" /\ Order[6] = "DEAL_WINDOW"
      /\ Order[7] = "ASSETCLASS_MISMATCH" /\ Order[8] = "REGION_MISMATCH"
      /\ Order[9] = "LIQUIDITY_MISMATCH" /\ Order[10] = "COINVEST_NOT_FOUND"
      /\ Order[11] = "COINVEST_WRONG_FUND" /\ Order[12] = "COINVEST_NOT_ACTIVE"
      /\ Order[13] = "COINVEST_NO_HEADROOM" /\ Order[14] = "APPETITE_NONE"
      /\ Order[15] = "APPETITE_BREACH"
      BY DEF Order
<1>2. /\ FundFindings(a.fund) \subseteq {Order[1], Order[2]}
      /\ CurrencyFindings(a.fund) \subseteq {Order[3]}
      BY <1>1 DEF FundFindings, CurrencyFindings, Failing
<1>3. DealFindings(a.deal)
        \subseteq {Order[4], Order[5], Order[6], Order[7], Order[8], Order[9]}
      BY <1>1 DEF DealFindings, Failing
<1>4. NodeFindings(c, a.node) \subseteq {Order[10], Order[11], Order[12], Order[13]}
      BY <1>1 DEF NodeFindings, Failing
<1>5. AppetiteFindings(c, a.limits, a.exposure) \subseteq {Order[14], Order[15]}
      BY <1>1 DEF AppetiteFindings, Failing
<1>6. \A i \in 1..15 : Order[i] \in Code
      BY <1>1 DEF Code
<1>7. /\ Order[1] \in Code /\ Order[2] \in Code /\ Order[3] \in Code
      /\ Order[4] \in Code /\ Order[5] \in Code /\ Order[6] \in Code
      /\ Order[7] \in Code /\ Order[8] \in Code /\ Order[9] \in Code
      /\ Order[10] \in Code /\ Order[11] \in Code /\ Order[12] \in Code
      /\ Order[13] \in Code /\ Order[14] \in Code /\ Order[15] \in Code
      BY <1>6
<1> QED BY <1>2, <1>3, <1>4, <1>5, <1>7

\* An exception or an else-if chain never swallows the last finding.
LEMMA FirstOfSome ==
  ASSUME NEW found, found \subseteq Code, First(found) = {}
  PROVE  found = {}
<1> DEFINE NoneTo(n) == \A j \in 1..n : Order[j] \notin found
<1>1. Len(Order) = 15
      BY DEF Order
<1>2. ASSUME NEW n \in 0..14, NoneTo(n) PROVE NoneTo(n + 1)
  <2>1. n + 1 \in 1..Len(Order) /\ (n + 1) - 1 = n
        BY <1>1
  <2>2. Order[n + 1] \notin found
        BY <1>2, <2>1 DEF First
  <2> QED BY <1>2, <2>2
<1> HIDE DEF NoneTo
<1>3. NoneTo(0)
      BY DEF NoneTo
<1>4. NoneTo(1) /\ NoneTo(2) /\ NoneTo(3) /\ NoneTo(4) /\ NoneTo(5)
      BY <1>2, <1>3
<1>5. NoneTo(6) /\ NoneTo(7) /\ NoneTo(8) /\ NoneTo(9) /\ NoneTo(10)
      BY <1>2, <1>4
<1>6. NoneTo(11) /\ NoneTo(12) /\ NoneTo(13) /\ NoneTo(14) /\ NoneTo(15)
      BY <1>2, <1>5
<1> QED BY <1>1, <1>6 DEF NoneTo, Code

LEMMA FirstIsFound == ASSUME NEW found PROVE First(found) \subseteq found
BY DEF First

LEMMA FoundInAll ==
  ASSUME NEW c, NEW a
  PROVE  Found(Source, c, a) =
           FundFindings(a.fund) \union CurrencyFindings(a.fund) \union DealFindings(a.deal)
             \union NodeFindings(c, a.node) \union AppetiteFindings(c, a.limits, a.exposure)
BY DEF Found, Section, Source

LEMMA FoundHasCodes ==
  ASSUME NEW c, NEW a
  PROVE  Found(Source, c, a) \subseteq Code
<1> DEFINE fund == FundFindings(a.fund)
           currency == CurrencyFindings(a.fund)
           deal == DealFindings(a.deal)
           node == NodeFindings(c, a.node)
           appetite == AppetiteFindings(c, a.limits, a.exposure)
<1>1. Found(Source, c, a) = fund \union currency \union deal \union node \union appetite
      BY FoundInAll
<1>2. /\ fund \subseteq Code /\ currency \subseteq Code /\ deal \subseteq Code
      /\ node \subseteq Code /\ appetite \subseteq Code
      BY FindingsHaveCodes
<1> HIDE DEF fund, currency, deal, node, appetite
<1> QED BY <1>1, <1>2

\* A classic report that stops early reports findings, and none only if there is none.
LEMMA BusinessReportIsFair ==
  ASSUME NEW c, NEW a
  PROVE  /\ BusinessReport(c, a) \subseteq Found(Source, c, a)
         /\ BusinessReport(c, a) = {} => Found(Source, c, a) = {}
<1>1. DealReport(a.deal) \subseteq DealFindings(a.deal)
      /\ (DealReport(a.deal) = {} => DealFindings(a.deal) = {})
      BY DEF DealReport
<1>2. First(NodeFindings(c, a.node)) \subseteq NodeFindings(c, a.node)
      /\ (First(NodeFindings(c, a.node)) = {} => NodeFindings(c, a.node) = {})
      BY FirstIsFound, FirstOfSome, FindingsHaveCodes
<1> QED BY <1>1, <1>2, FoundInAll DEF BusinessReport

LEMMA ShapeReportIsFair ==
  ASSUME NEW st \in Style, NEW c
  PROVE  /\ ShapeReport(st, c) \subseteq Malformed(c, Least[st])
         /\ ShapeReport(st, c) = {} => Malformed(c, Least[st]) = {}
BY DEF ShapeReport

-----------------------------------------------------------------------------
(* CommandPipeline: the invariant.                                         *)

\* An answer is something that its source has held; the N-tier limits are
\* those of the configuration.
AnswersInv ==
  \A r \in Readers, s \in Source :
    answers[<<r, s>>] \in IF style = "ntier" /\ <<r, s>> = <<"request", "limits">>
                          THEN {Configured} ELSE held[s] \union {Pending, Threw}

HeldInv == changes = 0 => \A s \in Source : held[s] = {upstream[s]}

\* The chain asks for the exposure after the limits.
ChainInv ==
  style = "chaining" /\ Got("request", "exposure") => Got("request", "limits")

Answerable(rule) == \A s \in Reads[rule] : answers[<<ReaderOf(rule), s>>] # Pending

\* A functional verdict is the sum of what the rules made of their answers.
FunctionalInv ==
  style = "functional" /\ outcome.verdict \in {"passed", "approved", "rejected"} =>
    /\ \A rule \in RulesOf(command) : Answerable(rule)
    /\ outcome.errors = UNION {RuleErrors(rule) : rule \in RulesOf(command)}
    /\ outcome.verdict # "rejected" => outcome.errors = {}
    /\ command.op = "advance" /\ memoized /\ outcome.verdict = "approved" =>
         outcome.from = Asked.deal.status

\* Nobody waits for an answer, and the report is that of the answers.
Settled ==
  \A call \in IF style = "factory" THEN {"request"} \X Source ELSE SequentialCalls :
    answers[call] # Pending

ClassicInv ==
  style # "functional" =>
    /\ outcome.verdict # "passed"
    /\ outcome.verdict \in {"approved", "rejected"} =>
         /\ Settled
         /\ \A s \in Source : Asked[s] # Threw
         /\ outcome.errors = Report(style, command, Asked, {s \in Source : Got("request", s)})

\* Behind a memo the second reading of the deal throws nothing.
MemoInv == memoized => outcome.verdict # "threw"

CommandInv ==
  CommandTypeOK /\ AnswersInv /\ HeldInv /\ ChainInv /\ FunctionalInv /\ ClassicInv /\ MemoInv

LEMMA CommandInitInv == CommandInit => CommandInv
<1> SUFFICES ASSUME CommandInit PROVE CommandInv
    OBVIOUS
<1>1. CommandTypeOK
      BY CommandInitType
<1>2. outcome.verdict = "none"
      BY DEF CommandInit, Undecided, Outcome
<1>3. \A r \in Readers, s \in Source : <<r, s>> \in Call
      BY DEF Call
<1>4. AnswersInv
      BY <1>3 DEF CommandInit, AnswersInv
<1>5. HeldInv
      BY DEF CommandInit, HeldInv
<1>6. ChainInv
  <2> SUFFICES ASSUME style = "chaining" PROVE ~ Got("request", "exposure")
      BY DEF ChainInv
  <2>1. <<"request", "exposure">> \in Call
        BY DEF Call, Readers, Source
  <2> QED BY <2>1 DEF CommandInit, Got
<1> QED BY <1>1, <1>2, <1>4, <1>5, <1>6
           DEF CommandInv, FunctionalInv, ClassicInv, MemoInv

\* What was answered stays, and so does what was made of it.
LEMMA AnswersStep ==
  CommandInv /\ [CommandNext]_commandVars => AnswersInv' /\ HeldInv' /\ ChainInv'
<1> SUFFICES ASSUME CommandInv, [CommandNext]_commandVars
             PROVE  AnswersInv' /\ HeldInv' /\ ChainInv'
    OBVIOUS
<1> USE DEF CommandInv, CommandTypeOK
<1>1. ASSUME NEW call \in Call, Answered(call) PROVE AnswersInv' /\ HeldInv' /\ ChainInv'
  <2>1. /\ answers' = [answers EXCEPT ![call] = upstream[call[2]]]
        /\ UNCHANGED <<command, style, memoized, upstream, held, outcome, changes, faults>>
        /\ call \in Due
        BY <1>1 DEF Answered
  <2>2. answers[call] = Pending
        BY <2>1 DEF Due
  <2>3. \A r \in Readers, s \in Source : <<r, s>> \in Call
        BY DEF Call
  <2>4. ASSUME NEW r \in Readers, NEW s \in Source
        PROVE  answers'[<<r, s>>] \in IF style = "ntier" /\ <<r, s>> = <<"request", "limits">>
                                      THEN {Configured} ELSE held[s] \union {Pending, Threw}
    <3>1. CASE call = <<r, s>>
      <4>1. answers'[<<r, s>>] = upstream[s] /\ upstream[s] \in held[s]
            BY <2>1, <2>3, <3>1
      <4>2. Configured # Pending
            BY CommandsAssumption DEF AnswerOf, Source
      <4>3. ~(style = "ntier" /\ <<r, s>> = <<"request", "limits">>)
            BY <2>2, <3>1, <4>2 DEF AnswersInv
      <4> QED BY <4>1, <4>3
    <3>2. CASE call # <<r, s>>
          BY <2>1, <2>3, <3>2 DEF AnswersInv
    <3> QED BY <3>1, <3>2
  <2>5. HeldInv'
        BY <2>1 DEF HeldInv
  <2>6. ChainInv'
    <3> SUFFICES ASSUME style = "chaining", Got("request", "exposure")'
                 PROVE  Got("request", "limits")'
        BY <2>1 DEF ChainInv
    <3>1. <<"request", "exposure">> \in Call /\ <<"request", "limits">> \in Call
          BY DEF Call, Readers, Source
    <3>2. Got("request", "limits")
      <4>1. CASE call = <<"request", "exposure">>
        <5>1. call \in SequentialCalls
              BY <2>1 DEF Due, ExecuteCalls, ClassicInv
        <5> QED BY <4>1, <5>1 DEF SequentialCalls, Before
      <4>2. CASE call # <<"request", "exposure">>
            BY <2>1, <3>1, <4>2 DEF Got, ChainInv
      <4> QED BY <4>1, <4>2
    <3> QED BY <2>1, <2>2, <3>1, <3>2 DEF Got
  <2> QED BY <2>1, <2>4, <2>5, <2>6 DEF AnswersInv
<1>2. ASSUME NEW call \in Call, CallThrows(call) PROVE AnswersInv' /\ HeldInv' /\ ChainInv'
  <2>1. /\ answers' = [answers EXCEPT ![call] = Threw]
        /\ UNCHANGED <<command, style, memoized, upstream, held, outcome, changes>>
        /\ answers[call] = Pending
        BY <1>2 DEF CallThrows, Due
  <2>2. \A r \in Readers, s \in Source : <<r, s>> \in Call
        BY DEF Call
  <2>3. AnswersInv'
    <3> SUFFICES ASSUME NEW r \in Readers, NEW s \in Source, call = <<r, s>>
                 PROVE  ~(style = "ntier" /\ <<r, s>> = <<"request", "limits">>)
        BY <2>1, <2>2 DEF AnswersInv
    <3>1. Configured # Pending
          BY CommandsAssumption DEF AnswerOf, Source
    <3> QED BY <2>1, <3>1 DEF AnswersInv
  <2>4. <<"request", "exposure">> \in Call /\ <<"request", "limits">> \in Call
        BY DEF Call, Readers, Source
  <2>5. ChainInv'
        BY <2>1, <2>4 DEF ChainInv, Got
  <2> QED BY <2>1, <2>3, <2>5 DEF HeldInv
<1>3. ASSUME NEW s \in Source, Change(s) PROVE AnswersInv' /\ HeldInv' /\ ChainInv'
  <2>1. /\ UNCHANGED <<command, style, memoized, answers, outcome, faults>>
        /\ changes' = changes + 1
        /\ \A t \in Source : held[t] \subseteq held'[t]
        BY <1>3 DEF Change
  <2>2. AnswersInv'
        BY <2>1 DEF AnswersInv
  <2>3. HeldInv'
        BY <2>1 DEF HeldInv
  <2>4. ChainInv'
        BY <2>1 DEF ChainInv, Got
  <2> QED BY <2>2, <2>3, <2>4
<1>4. CASE Combine \/ Execute \/ Judge \/ UNCHANGED commandVars
  <2>1. UNCHANGED <<command, style, memoized, upstream, held, answers, changes>>
        BY <1>4 DEF Combine, Execute, Judge, commandVars
  <2> QED BY <2>1 DEF AnswersInv, HeldInv, ChainInv, Got
<1> QED BY <1>1, <1>2, <1>3, <1>4 DEF CommandNext

\* A rule looks at what it has read and at nothing else.
LEMMA RuleOfItsReads ==
  ASSUME NEW c, NEW rule \in RulesOf(c), NEW a, NEW b, \A s \in Reads[rule] : a[s] = b[s]
  PROVE  RuleFindings(rule, c, a) = RuleFindings(rule, c, b)
<1>1. CASE rule = "Structural"
      BY <1>1 DEF RuleFindings
<1>2. CASE rule = "TransitionMustBeValid"
      BY <1>2 DEF RuleFindings, Reads
<1>3. CASE rule = "FundMustBeOpen"
      BY <1>3 DEF RuleFindings, Reads
<1>4. CASE rule = "CurrencyMustBePermitted"
      BY <1>4 DEF RuleFindings, Reads
<1>5. CASE rule = "DealMustBeInvestable"
      BY <1>5 DEF RuleFindings, Reads
<1>6. CASE rule = "CoInvestmentMustHaveHeadroom"
      BY <1>6 DEF RuleFindings, Reads
<1>7. CASE rule = "CommitmentMustBeWithinAppetite"
      BY <1>7 DEF RuleFindings, Reads
<1> QED BY <1>1, <1>2, <1>3, <1>4, <1>5, <1>6, <1>7 DEF RulesOf

LEMMA RuleCallsAreCalls ==
  ASSUME NEW rule \in RulesOf(command), NEW s \in Reads[rule]
  PROVE  <<ReaderOf(rule), s>> \in Call /\ s \in Source
BY DEF RulesOf, Reads, ReaderOf, Call, Readers, Source

\* The request stays what it is, and an answer is given once.
Kept ==
  /\ command' = command /\ style' = style /\ memoized' = memoized
  /\ \A call \in Call : answers[call] # Pending => answers'[call] = answers[call]

LEMMA StepKeeps == CommandTypeOK /\ [CommandNext]_commandVars => Kept
<1> SUFFICES ASSUME CommandTypeOK, [CommandNext]_commandVars PROVE Kept
    OBVIOUS
<1> USE DEF CommandTypeOK, Kept
<1>1. ASSUME NEW call \in Call, Answered(call) \/ CallThrows(call) PROVE Kept
      BY <1>1 DEF Answered, CallThrows, Due
<1>2. ASSUME NEW s \in Source, Change(s) PROVE Kept
      BY <1>2 DEF Change
<1>3. CASE Combine \/ Execute \/ Judge \/ UNCHANGED commandVars
      BY <1>3 DEF Combine, Execute, Judge, commandVars
<1> QED BY <1>1, <1>2, <1>3 DEF CommandNext

LEMMA RuleErrorsKept ==
  ASSUME Kept, NEW rule \in RulesOf(command), Answerable(rule)
  PROVE  /\ Answerable(rule)'
         /\ Unharmed(rule)' <=> Unharmed(rule)
         /\ RuleErrors(rule)' = RuleErrors(rule)
<1>1. ReaderOf(rule)' = ReaderOf(rule) /\ RulesOf(command)' = RulesOf(command)
      BY DEF Kept, ReaderOf
<1>2. \A s \in Reads[rule] :
        answers'[<<ReaderOf(rule), s>>] = answers[<<ReaderOf(rule), s>>]
        /\ answers[<<ReaderOf(rule), s>>] # Pending
      BY RuleCallsAreCalls DEF Kept, Answerable
<1>3. Answerable(rule)' /\ (Unharmed(rule)' <=> Unharmed(rule))
      BY <1>1, <1>2 DEF Answerable, Unharmed
<1> DEFINE now == ReadBy(ReaderOf(rule))
           next == [s \in Source |-> answers'[<<ReaderOf(rule), s>>]]
<1>4. \A s \in Reads[rule] : now[s] = next[s]
      BY <1>2, RuleCallsAreCalls DEF ReadBy
<1>5. RuleFindings(rule, command, now) = RuleFindings(rule, command, next)
  <2> HIDE DEF now, next
  <2> QED BY <1>4, RuleOfItsReads
<1>6. RuleFindings(rule, command, ReadBy(ReaderOf(rule)))' = RuleFindings(rule, command, next)
  <2>1. ReadBy(ReaderOf(rule))' = next
        BY <1>1 DEF ReadBy
  <2>2. command' = command
        BY DEF Kept
  <2> QED BY <2>1, <2>2 DEF RuleFindings
<1> QED BY <1>3, <1>5, <1>6 DEF RuleErrors

\* Where the outcome stays, a functional verdict stays what it was made of.
LEMMA FunctionalKept ==
  ASSUME CommandTypeOK, FunctionalInv, Kept, outcome' = outcome
  PROVE  FunctionalInv'
<1> SUFFICES ASSUME style = "functional", outcome.verdict \in {"passed", "approved", "rejected"}
             PROVE  /\ \A rule \in RulesOf(command) : Answerable(rule)'
                    /\ outcome.errors = UNION {RuleErrors(rule)' : rule \in RulesOf(command)}
                    /\ command.op = "advance" /\ memoized /\ outcome.verdict = "approved" =>
                         Asked.deal' = Asked.deal
    BY DEF FunctionalInv, Kept
<1>1. \A rule \in RulesOf(command) : Answerable(rule)
      BY DEF FunctionalInv
<1>2. \A rule \in RulesOf(command) : Answerable(rule)' /\ RuleErrors(rule)' = RuleErrors(rule)
      BY <1>1, RuleErrorsKept
<1>3. ASSUME command.op = "advance", memoized PROVE Asked.deal' = Asked.deal
  <2>1. /\ "TransitionMustBeValid" \in RulesOf(command)
        /\ ReaderOf("TransitionMustBeValid") = "request" /\ "deal" \in Reads["TransitionMustBeValid"]
        BY <1>3 DEF RulesOf, ReaderOf, Reads
  <2>2. answers[<<"request", "deal">>] # Pending
        BY <1>1, <2>1 DEF Answerable
  <2>3. <<"request", "deal">> \in Call /\ "deal" \in Source
        BY DEF Call, Readers, Source
  <2> QED BY <2>2, <2>3 DEF Kept, Asked, ReadBy
<1>4. outcome.errors = UNION {RuleErrors(rule) : rule \in RulesOf(command)}
      BY DEF FunctionalInv
<1> QED BY <1>2, <1>3, <1>4

LEMMA FunctionalStep == CommandInv /\ [CommandNext]_commandVars => FunctionalInv'
<1> SUFFICES ASSUME CommandInv, [CommandNext]_commandVars PROVE FunctionalInv'
    OBVIOUS
<1> USE DEF CommandInv
<1>1. Kept
      BY StepKeeps
<1>2. ASSUME outcome' = outcome PROVE FunctionalInv'
      BY <1>1, <1>2, FunctionalKept
<1>3. CASE Combine
  <2>1. /\ UNCHANGED <<command, style, memoized, upstream, held, answers>>
        /\ outcome' = Judged(UNION {RuleErrors(rule) : rule \in RulesOf(command)}, "passed")
        /\ outcome.verdict = "none" /\ style = "functional" /\ Due = {}
        BY <1>3 DEF Combine
  <2>2. \A rule \in RulesOf(command) : Answerable(rule)
    <3> SUFFICES ASSUME NEW rule \in RulesOf(command), NEW s \in Reads[rule]
                 PROVE  answers[<<ReaderOf(rule), s>>] # Pending
        BY DEF Answerable
    <3>1. <<ReaderOf(rule), s>> \in RuleCalls
          BY DEF RuleCalls
    <3> QED BY <2>1, <3>1 DEF Due
  <2>3. \A rule \in RulesOf(command) : Answerable(rule)' /\ RuleErrors(rule)' = RuleErrors(rule)
        BY <1>1, <2>2, RuleErrorsKept
  <2>4. /\ outcome'.errors = UNION {RuleErrors(rule) : rule \in RulesOf(command)}
        /\ outcome'.verdict \in {"passed", "rejected"}
        /\ outcome'.verdict = "passed" => outcome'.errors = {}
        BY <2>1 DEF Judged, Outcome
  <2> QED BY <2>1, <2>3, <2>4 DEF FunctionalInv
<1>4. CASE Execute
  <2>1. /\ UNCHANGED <<command, style, memoized, upstream, held, answers>>
        /\ outcome.verdict = "passed" /\ outcome'.errors = {}
        /\ outcome'.verdict \in {"approved", "threw"}
        /\ command.op # "commit" /\ outcome'.verdict = "approved" =>
             outcome'.from = answers[<<ReaderOf("Execute"), "deal">>].status
        BY <1>4 DEF Execute, Outcome
  <2>2. SUFFICES ASSUME style = "functional" PROVE FunctionalInv'
        BY <2>1 DEF FunctionalInv
  <2>3. /\ \A rule \in RulesOf(command) : Answerable(rule)
        /\ outcome.errors = UNION {RuleErrors(rule) : rule \in RulesOf(command)}
        /\ outcome.errors = {}
        BY <2>1, <2>2 DEF FunctionalInv
  <2>4. \A rule \in RulesOf(command) : Answerable(rule)' /\ RuleErrors(rule)' = RuleErrors(rule)
        BY <1>1, <2>3, RuleErrorsKept
  <2>5. memoized /\ command.op = "advance" /\ outcome'.verdict = "approved" =>
          outcome'.from = Asked.deal.status
        BY <2>1 DEF ReaderOf, Asked, ReadBy, Source
  <2>6. Asked' = Asked
        BY <2>1 DEF Asked, ReadBy
  <2> QED BY <2>1, <2>3, <2>4, <2>5, <2>6 DEF FunctionalInv
<1>5. CASE Judge
      BY <1>5 DEF Judge, FunctionalInv
<1> QED BY <1>2, <1>3, <1>4, <1>5
        DEF CommandNext, Answered, CallThrows, Change, commandVars

LEMMA ClassicStep == CommandInv /\ [CommandNext]_commandVars => ClassicInv'
<1> SUFFICES ASSUME CommandInv, [CommandNext]_commandVars, style # "functional"
             PROVE  ClassicInv'
    BY StepKeeps DEF CommandInv, Kept, ClassicInv
<1> USE DEF CommandInv
<1>1. outcome.verdict # "passed"
      BY DEF ClassicInv
<1>2. ASSUME outcome.verdict = "none", outcome' = outcome PROVE ClassicInv'
      BY <1>2 DEF ClassicInv
<1>3. ASSUME NEW call \in Call, Answered(call) \/ CallThrows(call) PROVE ClassicInv'
      BY <1>1, <1>2, <1>3 DEF Answered, CallThrows, Due
<1>4. ASSUME NEW s \in Source, Change(s) PROVE ClassicInv'
      BY <1>1, <1>2, <1>4 DEF Change
<1>5. CASE Judge
  <2>1. /\ UNCHANGED <<command, style, memoized, answers>>
        /\ outcome.verdict = "none" /\ Due = {}
        BY <1>5 DEF Judge
  <2>2. Settled
        BY <2>1 DEF Settled, Due, SequentialCalls, Call, Readers
  <2>3. Settled' /\ Asked' = Asked
        BY <2>1, <2>2 DEF Settled, SequentialCalls, GoesOnTo, Asked, ReadBy, Got
  <2>4. {s \in Source : Got("request", s)}' = {s \in Source : Got("request", s)}
        BY <2>1 DEF Got
  <2>5. /\ outcome'.verdict \in {"threw", "approved", "rejected"}
        /\ outcome'.verdict # "threw" =>
             /\ \A s \in Source : Asked[s] # Threw
             /\ outcome'.errors = Report(style, command, Asked, {s \in Source : Got("request", s)})
        BY <1>5 DEF Judge, Judged, Outcome
  <2> QED BY <2>1, <2>3, <2>4, <2>5 DEF ClassicInv
<1>6. CASE UNCHANGED commandVars
      BY <1>6 DEF commandVars, ClassicInv, Settled, SequentialCalls, GoesOnTo, Asked, ReadBy, Got
<1> QED BY <1>1, <1>3, <1>4, <1>5, <1>6 DEF CommandNext, Combine, Execute

LEMMA MemoStep == CommandInv /\ [CommandNext]_commandVars => MemoInv'
<1> SUFFICES ASSUME CommandInv, [CommandNext]_commandVars, memoized PROVE MemoInv'
    BY StepKeeps DEF CommandInv, Kept, MemoInv
<1> USE DEF CommandInv
<1>1. style = "functional"
      BY DEF CommandTypeOK
<1>2. CASE Execute
  <2>1. CASE command.op = "commit"
        BY <1>2, <2>1 DEF Execute, Outcome, MemoInv
  <2>2. CASE command.op # "commit"
    <3>1. command.op = "advance"
          BY <2>2, CommandsAssumption DEF CommandTypeOK, Command
    <3>2. /\ "TransitionMustBeValid" \in RulesOf(command)
          /\ ReaderOf("TransitionMustBeValid") = "request" /\ ReaderOf("Execute") = "request"
          /\ "deal" \in Reads["TransitionMustBeValid"]
          BY <3>1 DEF RulesOf, ReaderOf, Reads
    <3>3. RuleErrors("TransitionMustBeValid") = {}
          BY <1>1, <1>2, <3>2 DEF Execute, FunctionalInv
    <3>4. /\ answers[<<"request", "deal">>] # Threw
          /\ TransitionFindings(command, ReadBy("request").deal) = {}
          BY <3>2, <3>3 DEF RuleErrors, Unharmed, RuleFindings
    <3>5. ReadBy("request").deal = answers[<<"request", "deal">>]
          BY DEF ReadBy, Source
    <3>6. answers[<<"request", "deal">>] # Gone
          BY <3>4, <3>5 DEF TransitionFindings
    <3> QED BY <1>2, <2>2, <3>2, <3>4, <3>6 DEF Execute, Outcome, MemoInv
  <2> QED BY <2>1, <2>2
<1>3. CASE Combine
      BY <1>3 DEF Combine, Judged, Outcome, MemoInv
<1> QED BY <1>1, <1>2, <1>3
        DEF CommandNext, Answered, CallThrows, Change, Judge, commandVars, MemoInv

LEMMA CommandInvariant == CommandSpec => []CommandInv
<1>1. CommandInv /\ [CommandNext]_commandVars => CommandInv'
      BY CommandTypeStep, AnswersStep, FunctionalStep, ClassicStep, MemoStep DEF CommandInv
<1> QED BY <1>1, CommandInitInv, PTL DEF CommandSpec

-----------------------------------------------------------------------------
(* CommandPipeline: the verdict.                                           *)

\* What the shared reader was told; of what it was not told, what there is now.
Taken(s) == IF Got("request", s) THEN answers[<<"request", s>>] ELSE upstream[s]
Reading ==
  [fund |-> Taken("fund"), deal |-> Taken("deal"), node |-> Taken("node"),
   limits |-> Taken("limits"), exposure |-> Taken("exposure")]

LEMMA ReadingOfSource == \A s \in Source : Reading[s] = Taken(s)
BY DEF Reading, Source

LEMMA ReadingIsSnapshot == ASSUME CommandInv PROVE Reading \in Snapshots
<1> USE DEF CommandInv, CommandTypeOK
<1>1. \A s \in Source : ~(style = "ntier" /\ s = "limits") => Taken(s) \in held[s]
  <2> SUFFICES ASSUME NEW s \in Source, ~(style = "ntier" /\ s = "limits")
               PROVE  Taken(s) \in held[s]
      OBVIOUS
  <2>1. "request" \in Readers
        BY DEF Readers
  <2>2. answers[<<"request", s>>] \in held[s] \union {Pending, Threw}
        BY <2>1 DEF AnswersInv
  <2> QED BY <2>2 DEF Taken, Got
<1>2. style = "ntier" => Taken("limits") = Configured
  <2>1. "request" \in Readers /\ "limits" \in Source
        BY DEF Readers, Source
  <2>2. Configured # Pending /\ Configured # Threw
        BY <2>1, CommandsAssumption DEF AnswerOf
  <2> QED BY <2>1, <2>2 DEF AnswersInv, Taken, Got
<1> DEFINE values == IF style = "ntier" THEN [held EXCEPT !.limits = {Configured}] ELSE held
<1>3. \A s \in Source : Taken(s) \in values[s]
      BY <1>1, <1>2
<1> HIDE DEF values
<1>4. Reading \in Readings(values)
      BY <1>3 DEF Reading, Readings, Source
<1> QED BY <1>4 DEF Snapshots, values

\* Behind a memo, or while nothing changes, all rules judge the same reading.
LEMMA RulesShareTheReading ==
  ASSUME CommandInv, memoized \/ changes = 0, style = "functional",
         NEW rule \in RulesOf(command), Answerable(rule), Unharmed(rule)
  PROVE  RuleErrors(rule) = RuleFindings(rule, command, Reading)
<1>1. ASSUME NEW s \in Reads[rule] PROVE ReadBy(ReaderOf(rule))[s] = Reading[s]
  <2>1. s \in Source /\ <<ReaderOf(rule), s>> \in Call /\ ReaderOf(rule) \in Readers
        BY <1>1, RuleCallsAreCalls DEF Call
  <2>2. answers[<<ReaderOf(rule), s>>] \notin {Pending, Threw}
        BY <1>1 DEF Answerable, Unharmed
  <2>3. CASE memoized
        BY <2>1, <2>2, <2>3, ReadingOfSource DEF ReaderOf, ReadBy, Taken, Got
  <2>4. CASE changes = 0
    <3>1. held[s] = {upstream[s]}
          BY <2>1, <2>4 DEF CommandInv, HeldInv
    <3>2. answers[<<ReaderOf(rule), s>>] = upstream[s]
          BY <2>1, <2>2, <3>1 DEF CommandInv, AnswersInv
    <3>3. "request" \in Readers
          BY DEF Readers
    <3>4. Taken(s) = upstream[s]
          BY <2>1, <3>1, <3>3 DEF CommandInv, AnswersInv, Taken, Got
    <3> QED BY <2>1, <3>2, <3>4, ReadingOfSource DEF ReadBy
  <2> QED BY <2>3, <2>4
<1>2. RuleFindings(rule, command, ReadBy(ReaderOf(rule))) = RuleFindings(rule, command, Reading)
      BY <1>1, RuleOfItsReads
<1> QED BY <1>2 DEF RuleErrors

\* What the rules of a command find is all there is to find.
LEMMA RulesFindAll ==
  ASSUME command \in Command, style = "functional", NEW snap
  PROVE  Findings(snap) = UNION {RuleFindings(rule, command, snap) : rule \in RulesOf(command)}
<1>1. Least[style] = 1
      BY DEF Least
<1>2. CASE command.op = "advance"
      BY <1>1, <1>2 DEF Findings, RulesOf, RuleFindings
<1>3. CASE command.op # "advance"
  <2>1. RulesOf(command) = {"Structural", "FundMustBeOpen", "CurrencyMustBePermitted",
           "DealMustBeInvestable", "CoInvestmentMustHaveHeadroom",
           "CommitmentMustBeWithinAppetite"}
        BY <1>3 DEF RulesOf
  <2> QED BY <1>1, <1>3, <2>1, FoundInAll DEF Findings, RuleFindings
<1> QED BY <1>2, <1>3

LEMMA FunctionalVerdict ==
  ASSUME CommandInv, OneReading, style = "functional",
         outcome.verdict \in {"passed", "approved", "rejected"}
  PROVE  /\ outcome.errors \ {"RULE_THREW"} \subseteq Findings(Reading)
         /\ outcome.errors = {} => Findings(Reading) = {}
         /\ \A rule \in RulesOf(command) :
              Unharmed(rule) => RuleFindings(rule, command, Reading) \subseteq outcome.errors
<1>1. /\ \A rule \in RulesOf(command) : Answerable(rule)
      /\ outcome.errors = UNION {RuleErrors(rule) : rule \in RulesOf(command)}
      BY DEF CommandInv, FunctionalInv
<1>2. ASSUME NEW rule \in RulesOf(command)
      PROVE  /\ Unharmed(rule) => RuleErrors(rule) = RuleFindings(rule, command, Reading)
             /\ ~ Unharmed(rule) => RuleErrors(rule) = {"RULE_THREW"}
      BY <1>1, RulesShareTheReading DEF OneReading, RuleErrors
<1>3. command \in Command
      BY CommandsAssumption DEF CommandInv, CommandTypeOK
<1>4. Findings(Reading)
        = UNION {RuleFindings(rule, command, Reading) : rule \in RulesOf(command)}
      BY <1>3, RulesFindAll
<1> QED BY <1>1, <1>2, <1>4

\* A classic style that has come to an end has asked for what it reports of.
LEMMA ClassicReads ==
  ASSUME CommandInv, style # "functional", outcome.verdict \in {"approved", "rejected"}
  PROVE  /\ style = "factory" => \A s \in Source : Got("request", s)
         /\ style = "annotations" =>
              /\ \A s \in {"fund", "deal", "node", "limits"} : Got("request", s)
              /\ Asked.limits # Gone => Got("request", "exposure")
         /\ style = "ntier" /\ ShapeReport(style, command) = {} =>
              /\ Got("request", "fund")
              /\ FundFindings(Asked.fund) = {} => \A s \in Source : Got("request", s)
         /\ style = "chaining" /\ ShapeReport(style, command) = {} =>
              \/ \A s \in Source : Got("request", s)
              \/ Found({s \in Source : Got("request", s)}, command, Asked) # {}
<1>1. /\ Settled
      /\ \A s \in Source : Asked[s] # Threw /\ Asked[s] = answers[<<"request", s>>]
      BY DEF CommandInv, ClassicInv, Asked, ReadBy
<1>2. /\ Source = {"fund", "deal", "node", "limits", "exposure"}
      /\ \A s \in Source : <<"request", s>> \in {"request"} \X Source
      BY DEF Source
<1>3. \A s \in Source : Asked[s] # Pending => Got("request", s)
      BY <1>1 DEF Got
<1>4. ASSUME style # "factory", NEW s \in Source,
             \A e \in Before[s] : Got("request", e), GoesOnTo(s)
      PROVE  Got("request", s)
  <2>1. <<"request", s>> \in SequentialCalls
        BY <1>4, <1>2 DEF SequentialCalls
  <2> QED BY <1>1, <1>3, <1>4, <2>1 DEF Settled
<1>5. ASSUME style = "factory", NEW s \in Source PROVE Got("request", s)
      BY <1>1, <1>2, <1>3, <1>5 DEF Settled
<1>6. ASSUME style = "annotations"
      PROVE  /\ \A s \in {"fund", "deal", "node", "limits"} : Got("request", s)
             /\ Asked.limits # Gone => Got("request", "exposure")
  <2>1. /\ GoesOnTo("fund") /\ GoesOnTo("deal") /\ GoesOnTo("node") /\ GoesOnTo("limits")
        /\ Asked.limits # Gone => GoesOnTo("exposure")
        BY <1>6 DEF GoesOnTo
  <2>2. Got("request", "fund")
        BY <1>2, <1>4, <1>6, <2>1 DEF Before
  <2>3. Got("request", "deal")
        BY <1>2, <1>4, <1>6, <2>1, <2>2 DEF Before
  <2>4. Got("request", "node")
        BY <1>2, <1>4, <1>6, <2>1, <2>2, <2>3 DEF Before
  <2>5. Got("request", "limits")
        BY <1>2, <1>4, <1>6, <2>1, <2>2, <2>3, <2>4 DEF Before
  <2> QED BY <1>2, <1>4, <1>6, <2>1, <2>2, <2>3, <2>4, <2>5 DEF Before
<1>7. ASSUME style = "ntier", ShapeReport(style, command) = {}
      PROVE  /\ Got("request", "fund")
             /\ FundFindings(Asked.fund) = {} => \A s \in Source : Got("request", s)
  <2>1. GoesOnTo("fund") /\ (FundFindings(Asked.fund) = {} => \A s \in Source : GoesOnTo(s))
        BY <1>7 DEF GoesOnTo
  <2>2. Got("request", "fund")
        BY <1>2, <1>4, <1>7, <2>1 DEF Before
  <2>3. ASSUME FundFindings(Asked.fund) = {} PROVE \A s \in Source : Got("request", s)
    <3>1. Got("request", "deal")
          BY <1>2, <1>4, <1>7, <2>1, <2>2, <2>3 DEF Before
    <3>2. Got("request", "node")
          BY <1>2, <1>4, <1>7, <2>1, <2>2, <2>3, <3>1 DEF Before
    <3>3. Got("request", "limits")
          BY <1>2, <1>4, <1>7, <2>1, <2>2, <2>3, <3>1, <3>2 DEF Before
    <3>4. Got("request", "exposure")
          BY <1>2, <1>4, <1>7, <2>1, <2>2, <2>3, <3>1, <3>2, <3>3 DEF Before
    <3> QED BY <1>2, <2>2, <3>1, <3>2, <3>3, <3>4
  <2> QED BY <2>2, <2>3
<1>8. ASSUME style = "chaining", ShapeReport(style, command) = {},
             Found({s \in Source : Got("request", s)}, command, Asked) = {}
      PROVE  \A s \in Source : Got("request", s)
  <2>1. ASSUME NEW s \in Source, \A e \in Before[s] : e \in Source /\ Got("request", e)
        PROVE  Got("request", s)
    <3>1. Found(Before[s], command, Asked) = {}
          BY <1>8, <2>1 DEF Found
    <3>2. GoesOnTo(s)
          BY <1>8, <3>1 DEF GoesOnTo
    <3> QED BY <1>4, <1>8, <2>1, <3>2
  <2>2. Got("request", "fund")
        BY <1>2, <2>1 DEF Before
  <2>3. Got("request", "deal")
        BY <1>2, <2>1, <2>2 DEF Before
  <2>4. Got("request", "node")
        BY <1>2, <2>1, <2>2, <2>3 DEF Before
  <2>5. Got("request", "limits")
        BY <1>2, <2>1, <2>2, <2>3, <2>4 DEF Before
  <2>6. Got("request", "exposure")
        BY <1>2, <2>1, <2>2, <2>3, <2>4, <2>5 DEF Before
  <2> QED BY <1>2, <2>2, <2>3, <2>4, <2>5, <2>6
<1> QED BY <1>5, <1>6, <1>7, <1>8

LEMMA ClassicVerdict ==
  ASSUME CommandInv, style # "functional", outcome.verdict \in {"approved", "rejected"}
  PROVE  /\ outcome.errors \subseteq Findings(Reading)
         /\ outcome.errors = {} => Findings(Reading) = {}
         /\ style = "annotations" => outcome.errors = Findings(Reading)
<1> DEFINE shape == Malformed(command, Least[style])
           told == {s \in Source : Got("request", s)}
<1>1. /\ outcome.errors = Report(style, command, Asked, told)
      /\ command.op # "advance" /\ style \in Style
      BY DEF CommandInv, CommandTypeOK, ClassicInv
<1>2. Findings(Reading) = shape \union Found(Source, command, Reading)
      BY <1>1 DEF Findings
<1>3. \A s \in told : Reading[s] = Asked[s]
      BY ReadingOfSource DEF Taken, Asked, ReadBy
<1>4. Source = {"fund", "deal", "node", "limits", "exposure"}
      BY DEF Source
<1>5. ASSUME told = Source PROVE Found(Source, command, Reading) = Found(Source, command, Asked)
  <2>1. /\ Reading.fund = Asked.fund /\ Reading.deal = Asked.deal /\ Reading.node = Asked.node
        /\ Reading.limits = Asked.limits /\ Reading.exposure = Asked.exposure
        BY <1>3, <1>4, <1>5
  <2> QED BY <2>1, FoundInAll
<1>6. /\ ShapeReport(style, command) \subseteq shape
      /\ ShapeReport(style, command) = {} => shape = {}
      BY <1>1, ShapeReportIsFair
<1>7. CASE style = "annotations"
  <2>1. outcome.errors = shape \union Found(Source, command, Asked)
        BY <1>1, <1>7 DEF Report
  <2>2. /\ Reading.fund = Asked.fund /\ Reading.deal = Asked.deal /\ Reading.node = Asked.node
        /\ Reading.limits = Asked.limits
        /\ Asked.limits # Gone => Reading.exposure = Asked.exposure
        BY <1>3, <1>4, <1>7, ClassicReads
  <2>3. AppetiteFindings(command, Reading.limits, Reading.exposure)
          = AppetiteFindings(command, Asked.limits, Asked.exposure)
        BY <2>2 DEF AppetiteFindings
  <2>4. Found(Source, command, Reading) = Found(Source, command, Asked)
        BY <2>2, <2>3, FoundInAll
  <2> QED BY <1>2, <2>1, <2>4
<1>8. ASSUME style # "annotations", ShapeReport(style, command) # {}
      PROVE  outcome.errors = ShapeReport(style, command)
      BY <1>1, <1>8 DEF Report
<1>9. CASE style \in {"factory", "ntier"} /\ ShapeReport(style, command) = {}
  <2>1. outcome.errors = BusinessReport(command, Asked)
        BY <1>1, <1>9 DEF Report
  <2>2. CASE told = Source
        BY <1>2, <1>5, <1>6, <1>9, <2>1, <2>2, BusinessReportIsFair
  <2>3. CASE told # Source
    <3>1. Got("request", "fund") /\ FundFindings(Asked.fund) # {}
          BY <1>9, <2>3, ClassicReads
    <3>2. Reading.fund = Asked.fund
          BY <1>3, <1>4, <3>1
    <3>3. outcome.errors = FundFindings(Reading.fund)
          BY <2>1, <3>1, <3>2 DEF BusinessReport
    <3> QED BY <1>2, <1>9, <3>1, <3>2, <3>3, FoundInAll
  <2> QED BY <2>2, <2>3
<1>10. CASE style = "chaining" /\ ShapeReport(style, command) = {}
  <2>1. outcome.errors = First(Found(told, command, Asked))
        BY <1>1, <1>10 DEF Report
  <2>2. \A s \in told : Section(s, command, Asked) = Section(s, command, Reading)
    <3> SUFFICES ASSUME NEW s \in told
                 PROVE  Section(s, command, Asked) = Section(s, command, Reading)
        OBVIOUS
    <3>1. s = "exposure" => Got("request", "limits")
          BY <1>10 DEF CommandInv, ChainInv
    <3> QED BY <1>3, <1>4, <3>1 DEF Section
  <2>3. Found(told, command, Asked) \subseteq Found(Source, command, Reading)
        BY <2>2 DEF Found
  <2>4. Found(told, command, Asked) \subseteq Code
    <3>1. Found(Source, command, Asked) \subseteq Code
          BY FoundHasCodes
    <3> QED BY <3>1 DEF Found
  <2>5. First(Found(told, command, Asked)) = {} => Found(told, command, Asked) = {}
        BY <2>4, FirstOfSome
  <2>6. Found(told, command, Asked) = {} => told = Source
        BY <1>10, ClassicReads
  <2>7. First(Found(told, command, Asked)) \subseteq Found(told, command, Asked)
        BY FirstIsFound
  <2> QED BY <1>2, <1>5, <1>6, <1>10, <2>1, <2>3, <2>5, <2>6, <2>7
<1> QED BY <1>1, <1>2, <1>6, <1>7, <1>8, <1>9, <1>10 DEF Style

\* However its calls, the changes and the failures of the upstream interleave,
\* a command is judged by one reading of each source, in every style.
THEOREM VerdictsAreRight == CommandSpec => []VerdictIsOfOneReading
<1>1. CommandInv => VerdictIsOfOneReading
  <2> SUFFICES ASSUME CommandInv, outcome.verdict \notin {"none", "threw"}, OneReading
               PROVE  VerdictIsOfOneReading
      BY DEF VerdictIsOfOneReading
  <2>1. /\ outcome.verdict \in {"passed", "approved", "rejected"}
        /\ style # "functional" => outcome.verdict \in {"approved", "rejected"}
        BY DEF CommandInv, CommandTypeOK, ClassicInv
  <2>2. Reading \in Snapshots
        BY ReadingIsSnapshot
  <2>3. CASE style = "functional"
        BY <2>1, <2>2, <2>3, FunctionalVerdict DEF VerdictIsOfOneReading
  <2>4. CASE style # "functional"
        BY <2>1, <2>2, <2>4, ClassicVerdict DEF VerdictIsOfOneReading
  <2> QED BY <2>3, <2>4
<1> QED BY <1>1, CommandInvariant, PTL

LEMMA NoFindingNoBarrier ==
  ASSUME NEW c, NEW deal, TransitionFindings(c, deal) = {}
  PROVE  deal # Gone /\ CanTransition(deal.status, c.target)
<1>1. deal # Gone
      BY DEF TransitionFindings
<1> DEFINE checks == [TRANSITION_NOT_ALLOWED |-> ~CanTransition(deal.status, c.target)]
<1>2. Failing(checks) = {}
      BY <1>1 DEF TransitionFindings
<1>3. "TRANSITION_NOT_ALLOWED" \in DOMAIN checks
      OBVIOUS
<1>4. ~ checks["TRANSITION_NOT_ALLOWED"]
  <2> HIDE DEF checks
  <2> QED BY <1>2, <1>3 DEF Failing
<1>5. checks["TRANSITION_NOT_ALLOWED"] = ~CanTransition(deal.status, c.target)
      OBVIOUS
<1> QED BY <1>1, <1>4, <1>5 DEF CanTransition

\* Behind a memo the executed deal is the validated one, whatever the CRM does.
THEOREM ReceiptsAreRight == CommandSpec => []ReceiptIsOfTheVerdict
<1>1. CommandInv => ReceiptIsOfTheVerdict
  <2> SUFFICES ASSUME CommandInv, memoized, command.op = "advance",
                      outcome.verdict = "approved"
               PROVE  /\ CanTransition(outcome.from, command.target)
                      /\ \E deal \in held.deal \ {Gone} : deal.status = outcome.from
      BY DEF ReceiptIsOfTheVerdict, CommandInv, MemoInv
  <2>1. style = "functional"
        BY DEF CommandInv, CommandTypeOK
  <2>2. /\ "TransitionMustBeValid" \in RulesOf(command)
        /\ ReaderOf("TransitionMustBeValid") = "request"
        /\ Reads["TransitionMustBeValid"] = {"deal"} /\ "deal" \in Source /\ "request" \in Readers
        BY DEF RulesOf, ReaderOf, Reads, Source, Readers
  <2>3. /\ Answerable("TransitionMustBeValid") /\ RuleErrors("TransitionMustBeValid") = {}
        /\ outcome.from = Asked.deal.status
        BY <2>1, <2>2 DEF CommandInv, FunctionalInv
  <2>4. /\ Unharmed("TransitionMustBeValid")
        /\ TransitionFindings(command, Asked.deal) = {}
        BY <2>2, <2>3 DEF RuleErrors, RuleFindings, Asked
  <2>5. Asked.deal = answers[<<"request", "deal">>]
        BY <2>2 DEF Asked, ReadBy
  <2>6. Asked.deal \in held.deal
        BY <2>1, <2>2, <2>3, <2>4, <2>5 DEF CommandInv, AnswersInv, Answerable, Unharmed
  <2>7. Asked.deal # Gone /\ CanTransition(Asked.deal.status, command.target)
        BY <2>4, NoFindingNoBarrier
  <2> QED BY <2>3, <2>6, <2>7
<1> QED BY <1>1, CommandInvariant, PTL

LEMMA FloorsAgree ==
  ASSUME NEW c \in Command, c.op = "commit", c.amount <= 0 \/ c.amount >= Cent,
         NEW st \in Style
  PROVE  Malformed(c, Least[st]) = Malformed(c, 1)
<1>1. c.amount \in Int
      BY DEF Command
<1>2. Least[st] \in {1, Epsilon, Cent}
      BY DEF Least, Style
<1>3. c.amount < Least[st] <=> c.amount < 1
      BY <1>1, <1>2, FloorsAssumption
<1> QED BY <1>3 DEF Malformed

\* "The exact same business operation" (README.md L6): asked about the same
\* command and answered the same, a classic style refuses what the functional
\* rules refuse and nothing else, and all it reports is among their findings;
\* but for positive amounts below the floors of the [Range] attributes.
THEOREM StylesAgree ==
  ASSUME NEW c \in Command, c.op = "commit", c.amount <= 0 \/ c.amount >= Cent,
         NEW a, NEW st \in Style \ {"functional"}
  PROVE  LET findings == UNION {RuleFindings(rule, c, a) : rule \in RulesOf(c)}
         IN  /\ Report(st, c, a, Source) \subseteq findings
             /\ Report(st, c, a, Source) = {} => findings = {}
<1> DEFINE findings == UNION {RuleFindings(rule, c, a) : rule \in RulesOf(c)}
           shape == Malformed(c, 1)
           all == Found(Source, c, a)
<1>1. findings = shape \union all
  <2>1. RulesOf(c) = {"Structural", "FundMustBeOpen", "CurrencyMustBePermitted",
           "DealMustBeInvestable", "CoInvestmentMustHaveHeadroom",
           "CommitmentMustBeWithinAppetite"}
        BY DEF RulesOf
  <2> QED BY <2>1, FoundInAll DEF RuleFindings
<1>2. Malformed(c, Least[st]) = shape
      BY FloorsAgree
<1>3. /\ ShapeReport(st, c) \subseteq shape
      /\ ShapeReport(st, c) = {} => shape = {}
      BY <1>2, ShapeReportIsFair
<1>4. /\ BusinessReport(c, a) \subseteq all
      /\ BusinessReport(c, a) = {} => all = {}
      BY BusinessReportIsFair
<1>5. First(all) \subseteq all /\ (First(all) = {} => all = {})
  <2>1. all \subseteq Code
        BY FoundHasCodes
  <2> HIDE DEF all
  <2> QED BY <2>1, FirstIsFound, FirstOfSome
<1>6. Report(st, c, a, Source) \subseteq shape \union all
      /\ (Report(st, c, a, Source) = {} => shape \union all = {})
  <2>1. CASE st = "annotations"
        BY <1>2, <2>1 DEF Report
  <2>2. CASE st # "annotations" /\ ShapeReport(st, c) # {}
        BY <1>3, <2>2 DEF Report
  <2>3. CASE st = "chaining" /\ ShapeReport(st, c) = {}
        BY <1>3, <1>5, <2>3 DEF Report
  <2>4. CASE st \in {"factory", "ntier"} /\ ShapeReport(st, c) = {}
        BY <1>3, <1>4, <2>4 DEF Report
  <2> QED BY <2>1, <2>2, <2>3, <2>4 DEF Style
<1> QED BY <1>1, <1>6
=============================================================================
