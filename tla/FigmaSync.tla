----------------------------- MODULE FigmaSync ------------------------------
(***************************************************************************)
(* figma-sync.ts and what it calls: a run reads the committed export and   *)
(* its ledger, waits for what Figma (or a plugin, or the token studio)     *)
(* describes, lets five rules decide, and writes the new export file by    *)
(* file, the ledger, and a pull request.  People edit files and            *)
(* restore them from git, runs die half-way.                               *)
(*                                                                         *)
(* The digest of the ledger is the token set itself: sha-256 over one      *)
(* line per token tells two token sets apart, and nothing else.            *)
(***************************************************************************)
EXTENDS TokenExport, Commands, Naturals, Sequences

CONSTANTS
  Author,         \* who may have published, Nothing when unknown
  Order,          \* the file names, sorted: a sequence
  Design,         \* exports a payload or a folder may describe
  First,          \* the export of the first release
  Transforms(_),  \* transform() makes a theme of this token set
  BaseMode,       \* the mode of what every theme mode reads
  Swatch,         \* SWATCHES: the paths whose colours the preview shows
  Contrast(_),    \* severities of checkContrast's findings, in every mode
  MaxReleases,    \* bound: releases in the ledger
  MaxEdits,       \* bound: hand edits
  MaxStops        \* bound: runs that die or fail

LedgerFile == "tokens.lock.json"

\* Files are of the schema, and a file of a schema is one.
IsFile(tokens) == DOMAIN tokens \subseteq Path /\ \A p \in DOMAIN tokens : tokens[p] \in Token
IsExport(files) == DOMAIN files \subseteq File /\ \A f \in DOMAIN files : IsFile(files[f])

ASSUME SyncAssumption ==
  /\ {Order[i] : i \in DOMAIN Order} = File /\ LedgerFile \notin File
  /\ \A d \in Design : IsExport(d)
  /\ Nothing \notin Entry
  /\ MaxReleases \in Nat /\ MaxEdits \in Nat /\ MaxStops \in Nat

\* The first release has passed the rules of every other.
ASSUME FirstAssumption ==
  First \in Design /\ Parses(First) /\ Transforms(Tokens(First)) /\ "Error" \notin Contrast(Tokens(First))

\* The colours of the swatches are texts, and a text is displayed as it is.
ASSUME SwatchAssumption ==
  \A d, e \in Design : \A f \in DOMAIN d, g \in DOMAIN e : \A p \in Swatch \cap DOMAIN d[f] \cap DOMAIN e[g] :
    Display[d[f][p].value] = Display[e[g][p].value] => d[f][p].value = e[g][p].value

VARIABLES
  export,     \* figma/*.tokens.json on disk
  ledger,     \* figma/tokens.lock.json on disk
  torn,       \* which of them hold half a write
  published,  \* the out folder: sync.json, pull-request.md, token-preview.html
  head,       \* export and ledger as last committed to git
  run,        \* the running figma-sync, or what is left of the last one
  edits, stops

syncVars == <<export, ledger, torn, published, head, run, edits, stops>>

Digest(files) == Tokens(files)

Release(version, bump, digest, changes, trace) ==
  [version |-> version, bump |-> bump, digest |-> digest, changes |-> changes, trace |-> trace]

\* readLedger, when there is no ledger: its digest is that of no export.
NoLedger == [version |-> <<0, 0, 0>>, digest |-> {Nothing}, releases |-> <<>>]

\* What a run has planned before it is approved, and what there is of a
\* preview when there can be none.
NoPlan == [release |-> Nothing]
NoPreview == [version |-> Nothing]

\* draftRelease and nextVersion
NextVersion(v, bump) ==
  IF bump = "major" THEN <<v[1] + 1, 0, 0>>
  ELSE IF bump = "minor" THEN <<v[1], v[2] + 1, 0>>
  ELSE <<v[1], v[2], v[3] + 1>>

Record(old, release) ==
  [version |-> release.version, digest |-> release.digest, releases |-> <<release>> \o old.releases]

\* Mutant: the version alone is compared.
VerifiesVersion(old, digest) ==
  old.releases # <<>> /\ old.releases[1].version = old.version

Verifies(old, digest) ==
  /\ old.releases # <<>> => old.releases[1].version = old.version
  /\ old.digest = digest

-----------------------------------------------------------------------------
(* The rules.  A payload that does not convert is Nothing.                 *)

IncomingParses(incoming) == incoming # Nothing /\ Parses(incoming)
ThemeOK(incoming) == IncomingParses(incoming) /\ Transforms(Tokens(incoming))

Fails(condition, code) == IF condition THEN {Violation(code, "Error")} ELSE {}

Rules(incoming, committed, old, author) ==
  LET themed == ThemeOK(incoming) IN
  [ExportIsWellFormed |->
     Found(Fails(incoming = Nothing \/ incoming = <<>>, "FIGMA_PAYLOAD")),
   ExportSatisfiesThemeContract |->
     Found(Fails(incoming # Nothing /\ ~ themed, "TOKEN_CONTRACT")),
   CommittedExportMatchesLedger |->
     IF ~ Parses(committed) THEN Threw
     ELSE Found(Fails(~ Verifies(old, Digest(committed)), "LEDGER_DRIFT")),
   ChangeIsAttributable |-> Found(Fails(author = Nothing, "AUTHOR_UNKNOWN")),
   TextRemainsReadable |->
     Found(IF themed
           THEN {Violation("CONTRAST_AA", s) : s \in Contrast(Tokens(incoming))} ELSE {})]

\* Mutant: every file of the committed export goes.
PlanRemovingAll(incoming, committed, old, trace) ==
  LET changes == Diff(committed, incoming)
      bump == BumpFor(changes)
  IN  IF bump = "none" THEN NoPlan
      ELSE [release |-> Release(NextVersion(old.version, bump), bump, Digest(incoming), changes, trace),
            files |-> incoming, removed |-> DOMAIN committed]

\* SYNC_TOKENS.execute and syncDesignTokens: the release, the export to write
\* and the files to remove, or no plan when no token changed.
Plan(incoming, committed, old, trace) ==
  LET changes == Diff(committed, incoming)
      bump == BumpFor(changes)
  IN  IF bump = "none" THEN NoPlan
      ELSE [release |-> Release(NextVersion(old.version, bump), bump, Digest(incoming), changes, trace),
            files |-> incoming, removed |-> DOMAIN committed \ DOMAIN incoming]

\* An export of one file.
Alone(f, tokens) == [g \in {f} |-> tokens]

\* Mutant: only files that both exports have are compared.
RewrittenOfBoth(committed, files) ==
  {f \in DOMAIN files \cap DOMAIN committed :
     Diff(Alone(f, committed[f]), Alone(f, files[f])) # {}}

\* writeExport leaves a file alone in which no diff shows.
Rewritten(committed, files) ==
  {f \in DOMAIN files :
     f \in DOMAIN committed => Diff(Alone(f, committed[f]), Alone(f, files[f])) # {}}

\* pullRequest: what is said of a release to whoever merges it.
PullRequest(release) ==
  [branch |-> release.version, bump |-> release.bump, reason |-> BumpReason(release.changes),
   rows |-> {[mode |-> c.mode, path |-> c.path, before |-> c.before, after |-> c.after,
              label |-> IF c.retypedFrom # NoType THEN "retyped" ELSE c.kind] : c \in release.changes},
   flagged |-> {r \in DOMAIN release.trace :
                  \E e \in release.trace[r].errors : e.severity = "Warning"}]

\* The colour a mode has at a path: its own, or the one every mode reads.
Painted(tokens, mode, path) ==
  {t.value : t \in At(tokens, IF At(tokens, mode, path) # {} THEN mode ELSE BaseMode, path)}

\* syncDesignTokens, previewHtml, modeCard: the swatches of every mode before
\* and after; empty when the export on main makes no theme.
Preview(committed, release) ==
  IF ~ Transforms(Tokens(committed)) \/ ~ Transforms(release.digest) THEN NoPreview
  ELSE [version |-> release.version,
        cells |-> {[mode |-> m, path |-> p,
                    was |-> Painted(Tokens(committed), m, p), now |-> Painted(release.digest, m, p)]
                     : m \in Mode \ {BaseMode}, p \in Swatch}]

\* writeExport and the ledger: what is removed, what is written.
Writes(committed, plan) ==
  [op : {"remove"}, file : plan.removed]
    \union [op : {"write"}, file : Rewritten(committed, plan.files) \union {LedgerFile}]

\* The order of the writes: first the removals, each file at its place in the
\* order of names, the ledger last.
Precedes(step, other) ==
  \/ step.op = "remove" /\ other.op = "write"
  \/ /\ step.op = other.op /\ step.file # LedgerFile
     /\ \/ other.file = LedgerFile
        \/ \E i, j \in DOMAIN Order : i < j /\ Order[i] = step.file /\ Order[j] = other.file

IsNext(step) == step \in run.todo /\ \A other \in run.todo : ~ Precedes(other, step)

-----------------------------------------------------------------------------

Init ==
  /\ export = First
  /\ ledger = Record(NoLedger, Release(<<1, 0, 0>>, "major", Digest(First), {}, <<>>))
  /\ torn = {}
  /\ published = [changed |-> FALSE, version |-> <<0, 0, 0>>, request |-> Nothing, preview |-> NoPreview]
  /\ head = [export |-> export, ledger |-> ledger]
  /\ run = [at |-> "exited", code |-> 1, calm |-> FALSE,
            committed |-> <<>>, old |-> NoLedger, plan |-> NoPlan, todo |-> {}]
  /\ edits = 0 /\ stops = 0

Exit(code) == [at |-> "exited", code |-> code, calm |-> run.calm,
               committed |-> <<>>, old |-> NoLedger, plan |-> NoPlan, todo |-> {}]

\* JSON.parse and parseLedger throw on what is half written.
Readable == torn = {}

\* main up to readSource: what is committed is read before Figma answers.
ReadCommitted ==
  /\ run.at = "exited"
  /\ Len(ledger.releases) < MaxReleases
  /\ run' = IF ~ Readable THEN [Exit(1) EXCEPT !.calm = FALSE]
            ELSE [at |-> "awaiting", code |-> 1, calm |-> TRUE,
                  committed |-> export, old |-> ledger, plan |-> NoPlan, todo |-> {}]
  /\ UNCHANGED <<export, ledger, torn, published, head, edits, stops>>

\* readSource: the folder, the fixture or Figma describes an export, or none
\* (Nothing) because its variables do not convert, and says who published it;
\* without a handle, or a name for the handle, that is nobody.  What makes it
\* throw is in Stop.
ReadSource == [incoming : Design \union {Nothing}, author : Author]

\* The answer is there, and who published it: the rules decide.
Decide(incoming, author) ==
  LET rules == Rules(incoming, run.committed, run.old, author)
      outcome == Handle(rules, Plan(incoming, run.committed, run.old, Validate(rules).trace), NoPlan)
  IN  /\ run.at = "awaiting"
      /\ IF outcome.approved /\ outcome.value # NoPlan
         THEN /\ run' = [run EXCEPT !.at = "writing", !.plan = outcome.value,
                                    !.todo = Writes(run.committed, outcome.value)]
              /\ UNCHANGED published
         ELSE /\ run' = Exit(IF outcome.approved THEN 0 ELSE 1)
              /\ published' = IF outcome.approved
                             THEN [published EXCEPT !.changed = FALSE, !.version = run.old.version]
                             ELSE published
      /\ UNCHANGED <<export, ledger, torn, head, edits, stops>>

Without(files, f) == [g \in DOMAIN files \ {f} |-> files[g]]
With(files, f, tokens) == [g \in DOMAIN files \union {f} |-> IF g = f THEN tokens ELSE files[g]]

\* writeExport and the ledger, one file at a time.  A file to remove that is
\* gone already makes rmSync throw.
WriteNext ==
  /\ run.at = "writing"
  /\ \E step \in run.todo :
       LET next == [run EXCEPT !.todo = @ \ {step}]
       IN  /\ IsNext(step)
           /\ \/ /\ step.op = "remove" /\ step.file \in DOMAIN export
                 /\ export' = Without(export, step.file) /\ run' = next /\ UNCHANGED ledger
              \/ /\ step.op = "remove" /\ step.file \notin DOMAIN export
                 /\ run' = Exit(1) /\ UNCHANGED <<export, ledger>>
              \/ /\ step.op = "write" /\ step.file # LedgerFile
                 /\ export' = With(export, step.file, run.plan.files[step.file])
                 /\ run' = next /\ UNCHANGED ledger
              \/ /\ step.op = "write" /\ step.file = LedgerFile
                 /\ ledger' = Record(run.old, run.plan.release) /\ run' = next /\ UNCHANGED export
  /\ UNCHANGED <<torn, published, head, edits, stops>>

WriteRequest ==
  /\ run.at = "writing" /\ run.todo = {}
  /\ published' = [published EXCEPT !.request = PullRequest(run.plan.release),
                                     !.preview = Preview(run.committed, run.plan.release)]
  /\ run' = [run EXCEPT !.at = "publishing"]
  /\ UNCHANGED <<export, ledger, torn, head, edits, stops>>

Publish ==
  /\ run.at = "publishing"
  /\ published' = [published EXCEPT !.changed = TRUE, !.version = run.plan.release.version]
  /\ run' = Exit(0)
  /\ UNCHANGED <<export, ledger, torn, head, edits, stops>>

\* The fetch fails, the process dies, or a write throws: half a file may stay.
Stop ==
  /\ run.at # "exited" /\ stops < MaxStops
  /\ torn' \in {torn} \union {torn \union {step.file} : step \in {s \in run.todo : IsNext(s) /\ s.op = "write"}}
  /\ run' = Exit(1)
  /\ stops' = stops + 1
  /\ UNCHANGED <<export, ledger, published, head, edits>>

-----------------------------------------------------------------------------
(* People and git.                                                         *)

\* A token file is edited or dropped by hand, or the ledger is lost.
HandEdit ==
  /\ edits < MaxEdits
  /\ edits' = edits + 1
  /\ \/ \E d \in Design : \E f \in DOMAIN d :
          export' = With(export, f, d[f]) /\ torn' = torn \ {f} /\ UNCHANGED ledger
     \/ \E f \in DOMAIN export :
          export' = Without(export, f) /\ torn' = torn \ {f} /\ UNCHANGED ledger
     \/ ledger' = NoLedger /\ torn' = torn \ {LedgerFile} /\ UNCHANGED export
  /\ run' = [run EXCEPT !.calm = FALSE]
  /\ UNCHANGED <<published, head, stops>>

Commit ==
  /\ run.at = "exited" /\ run.code = 0 /\ Readable /\ published.changed
  /\ head' = [export |-> export, ledger |-> ledger]
  /\ UNCHANGED <<export, ledger, torn, published, run, edits, stops>>

Restore ==
  /\ run.at = "exited"
  /\ export' = head.export /\ ledger' = head.ledger /\ torn' = {}
  /\ run' = [run EXCEPT !.calm = FALSE]
  /\ UNCHANGED <<published, head, edits, stops>>

Next ==
  \/ ReadCommitted
  \/ \E source \in ReadSource : Decide(source.incoming, source.author)
  \/ WriteNext \/ WriteRequest \/ Publish \/ Stop
  \/ HandEdit \/ Commit \/ Restore

SyncSpec == Init /\ [][Next]_syncVars
-----------------------------------------------------------------------------
(* What is claimed.                                                        *)

Version == Nat \X Nat \X Nat
Older(v, w) == \E i \in 1 .. 3 : v[i] < w[i] /\ \A j \in 1 .. i - 1 : v[j] = w[j]

\* A release of the ledger.
Released(release) ==
  /\ release.version \in Version
  /\ release.bump \in {"major", "minor", "patch"}
  /\ release.digest \subseteq Entry /\ release.changes \subseteq TokenChange

\* Every piece of state has its type; what a run plans to write it never plans
\* to remove (handler.ts L59-60), and it holds a plan only while it writes.
SyncTypeOK ==
  /\ IsExport(export)
  /\ torn \subseteq File \union {LedgerFile}
  /\ ledger.version \in Version
  /\ \A i \in DOMAIN ledger.releases : Released(ledger.releases[i])
  /\ run.at \in {"exited", "awaiting", "writing", "publishing"}
  /\ run.at \in {"writing", "publishing"} <=> run.plan # NoPlan
  /\ run.plan # NoPlan => run.plan.removed \cap DOMAIN run.plan.files = {}

ChecksOut == Readable /\ Parses(export) /\ Verifies(ledger, Digest(export))

Apply(changes, shown) ==
  {s \in shown : ~ \E c \in changes : c.mode = s.mode /\ c.path = s.path} \union
  {[mode |-> c.mode, path |-> c.path, type |-> c.type, shows |-> c.after] :
     c \in {d \in changes : d.kind # "removed"}}

\* The history has no gaps: the changes a release lists, applied to what the
\* release before it left, give what its own digest covers, as a diff shows
\* it.  Nothing that people edit, and nothing an interrupted run leaves
\* behind, slips between two releases (ledger.ts L1-2, L97-106).
LedgerReplays ==
  \A i \in 1 .. Len(ledger.releases) - 1 :
    Shown(ledger.releases[i].digest) =
      Apply(ledger.releases[i].changes, Shown(ledger.releases[i + 1].digest))

\* What the bump promises (diff.ts L52-58), over any number of releases: as
\* long as the major version stays, every token stays, one that had a type
\* keeps it, and the versions of the ledger only go up.  A token that had no
\* $type may gain one within a major version: compare (L89) keeps the type it
\* had, which is none, as retypedFrom, and bumpFor (L55) takes that for no
\* retyping and gives no more than a patch, although L52 asks a major version
\* for "one whose $type moved".
SameMajorIsCompatible ==
  \A i, j \in DOMAIN ledger.releases :
    LET newer == ledger.releases[i] older == ledger.releases[j]
    IN  i < j =>
          /\ Older(older.version, newer.version)
          /\ newer.version[1] = older.version[1] =>
               \A t \in older.digest : \E u \in At(newer.digest, t.mode, t.path) :
                 t.type # NoType => u.type = t.type

\* What passes --check went through the rules: it makes a theme, and every
\* contrast that blocks a release is kept (figma-sync.ts L170-178), whatever
\* half of a write a crash left and whatever was edited by hand.
CheckedIsSound ==
  ChecksOut => Transforms(Tokens(export)) /\ "Error" \notin Contrast(Tokens(export))

\* A run that says it succeeded, with nobody else at the files: sync.json
\* gives the version of the ledger, the pull request describes the ledger's
\* newest release and gives the reason its bump has, there is a preview of it
\* that marks no colour the request does not list, and the files on disk show
\* the tokens it was cut from, although writeExport skips files and compares
\* them one by one (L135-148).  Of the reasons of a minor release and of a
\* patch (diff.ts L67-68) nothing is claimed here about retyping: that none is
\* retyped, and that the types are unchanged, is untrue of a release in which
\* a token without a $type gains one (see SameMajorIsCompatible).
SuccessTellsTheTruth ==
  run.at = "exited" /\ run.code = 0 /\ run.calm =>
    /\ published.version = ledger.version
    /\ published.changed =>
         /\ published.request = PullRequest(ledger.releases[1])
         /\ published.request.reason.says =
              [major |-> "can break", minor |-> "none removed or retyped", patch |-> "values changed"]
                [published.request.bump]
         /\ published.preview # NoPreview /\ published.preview.version = ledger.version
         /\ \A c \in published.preview.cells : c.was # c.now =>
              \E row \in published.request.rows : row.path = c.path /\ row.mode \in {c.mode, BaseMode}
         /\ Parses(export) /\ Shown(Tokens(export)) = Shown(ledger.digest)

\* figma-sync.ts L8 and ledger.ts L1-2 say the ledger's digest ties the
\* version to the committed export: right after a successful release that
\* nobody disturbed, --check passes.
ReleasedExportVerifies ==
  run.at = "exited" /\ run.code = 0 /\ run.calm /\ published.changed => ChecksOut
=============================================================================
