------------------------------ MODULE I18nStore ------------------------------
(***************************************************************************)
(* The write path of Atlas.Api's translations store (I18nStore.cs): a      *)
(* folder of JSON files shared by one or more server processes.            *)
(*                                                                         *)
(*   {code}.json             the current catalog of a locale   current     *)
(*   _history/{code}/N.json  one snapshot per version          history     *)
(*   _audit.jsonl            one line per mutation             audit, torn *)
(*   _config.json            default locale and fallbacks      config      *)
(*                                                                         *)
(* Each writer is one HTTP request being served.  A process serves one     *)
(* mutation at a time behind its own semaphore (permits); nothing but the  *)
(* folder is shared between processes.  Every disk access of MutateAsync   *)
(* and SaveConfigAsync is a step of its own, so that another process, a    *)
(* crash, a failing disk or a person with an editor can come in between.   *)
(*                                                                         *)
(* Reads take no lock and write nothing: module I18nRead adds them.        *)
(***************************************************************************)
EXTENDS Naturals, Sequences, FiniteSets

CONSTANTS
  Locale,           \* locale codes
  Key,              \* translation keys
  Value,            \* translated texts
  NoValue,          \* a key that a catalog does not have
  NoFile,           \* a catalog file that is missing or malformed
  NoLocale,         \* no fallback; the locale of a config audit line
  NoConfig,         \* no _config.json, or a line that is about no config
  NoRequest,        \* an idle writer
  NoSeed,           \* a write that needs no seed snapshot
  AnyVersion,       \* a request without If-Match
  Named,            \* version numbers that a client or an editor may name
  Sent,             \* the configurations that clients send
  Shipped,          \* the configurations a fresh folder may come with
  Process,          \* server processes mounting the folder
  Writer,           \* requests in flight
  Host,             \* Host[w]: the process that serves w
  EditsRaceWrites,  \* TRUE: a person may save a catalog during a write to it
  MaxRequests,      \* bound on the requests submitted
  MaxFaults,        \* bound on crashes and failing disk accesses
  MaxEdits          \* bound on the files people edit or drop

Version == Nat \ {0}
Entries == [Key -> Value \union {NoValue}]
Catalog == [version: Version, entries: Entries]

\* Of each listed locale, whether it is enabled and what it falls back to.
Settings == [enabled: BOOLEAN, fallback: Locale \union {NoLocale}]
Config == [default: Locale, settings: UNION {[listed -> Settings] : listed \in SUBSET Locale}]

Change ==
  [op: {"set"}, key: Key, value: Value]
    \union [op: {"delete"}, key: Key]
    \union [op: {"rollback"}, to: Named]

Mutation == [locale: Locale, change: Change, ifMatch: Named \union {AnyVersion}]
SaveConfig == [config: Sent]

\* A version in history: minted by a request, or recorded by the system.
Action == {"create", "set", "delete", "rollback"}
Snapshot == [locale: Locale, version: Version, entries: Entries, action: Action]

\* What an audit line is about, and whether ReadAudit can parse it.
Line == [locale: Locale \union {NoLocale}, version: Nat,
         action: Action \union {"config"}, config: Config \union {NoConfig},
         text: {"whole", "garbled"}]

ASSUME NamedAssumption == Named \subseteq Version
ASSUME SentAssumption == Sent \subseteq Config
ASSUME ShippedAssumption == Shipped \subseteq Config \union {NoConfig}
ASSUME HostAssumption == Host \in [Writer -> Process]
ASSUME RacesAssumption == EditsRaceWrites \in BOOLEAN
ASSUME BoundsAssumption == MaxRequests \in Nat /\ MaxFaults \in Nat /\ MaxEdits \in Nat
ASSUME SentinelAssumption ==
  /\ NoFile \notin Catalog
  /\ NoSeed \notin Snapshot
  /\ NoRequest \notin Mutation \union SaveConfig
  /\ NoConfig \notin Config
  /\ NoLocale \notin Locale
  /\ NoValue \notin Value
  /\ AnyVersion \notin Named

VARIABLES
  current,   \* current[l]: what {l}.json holds
  history,   \* the snapshot files
  audit,     \* the complete lines of _audit.jsonl, oldest first
  torn,      \* the file ends in a line whose newline was never written
  config,    \* what _config.json holds
  permits,   \* permits[p]: free slots of the semaphore _gate of process p
  pc,        \* pc[w]: the disk access that w makes next
  job,       \* job[w]: the local variables of the request w serves
  applied,   \* observer: the writes that went live, with what they replaced
  spent      \* observer: requests, faults and edits so far (the bounds)

disk == <<current, history, audit, torn, config>>
vars == <<disk, permits, pc, job, applied, spent>>

\* The steps of MutateAsync and SaveConfigAsync between lock and release.
MutationStep ==
  {"read", "check", "reconcile", "seed", "seedAudit", "snapshot", "audit", "current"}
ConfigStep == {"validate", "config", "configAudit"}
InGate == MutationStep \union ConfigStep

Job == [request: Mutation \union SaveConfig \union {NoRequest},
        seen: Catalog \union {NoFile},
        seed: Snapshot \union {NoSeed},
        next: Catalog \union {NoFile}]
EmptyJob == [request |-> NoRequest, seen |-> NoFile, seed |-> NoSeed, next |-> NoFile]

Applied == [locale: Locale, change: Change, ifMatch: Named \union {AnyVersion},
            before: Catalog, after: Catalog]

TypeOK ==
  /\ current \in [Locale -> Catalog \union {NoFile}]
  /\ history \subseteq Snapshot
  /\ audit \in Seq(Line)
  /\ torn \in BOOLEAN
  /\ config \in Config \union {NoConfig}
  /\ permits \in [Process -> Nat]
  /\ pc \in [Writer -> {"idle", "waiting"} \union InGate]
  /\ job \in [Writer -> Job]
  /\ applied \subseteq Applied
  /\ spent \in [requests: Nat, faults: Nat, edits: Nat]

-----------------------------------------------------------------------------
(* Helpers.                                                                *)

\* The locale whose files a mutation works on.
LocaleOf(w) == job[w].request.locale

\* A person leaves a locale alone from the moment a write has read its file.
AtRest(l) ==
  \A w \in Writer : pc[w] \in MutationStep \ {"read"} => LocaleOf(w) # l

Recorded(l, v) == {s \in history : s.locale = l /\ s.version = v}

\* EnsureHistoryNotAhead: history holds a version above the current file's.
Ahead(l, v) == \E s \in history : s.locale = l /\ s.version > v

Spend(kind, limit) ==
  /\ spent[kind] < limit
  /\ spent' = [spent EXCEPT ![kind] = @ + 1]

Goto(w, step) == pc' = [pc EXCEPT ![w] = step]

\* The finally block: the request is over, its permit goes back.
Leave(w) ==
  /\ Goto(w, "idle")
  /\ permits' = [permits EXCEPT ![Host[w]] = @ + 1]
  /\ job' = [job EXCEPT ![w] = EmptyJob]

\* Unflushed text before a line makes both one line, which does not parse.
Append1(line) ==
  /\ audit' = Append(audit, [line EXCEPT !.text = IF torn THEN "garbled" ELSE "whole"])
  /\ torn' = FALSE

VersionLine(l, v, action) ==
  [locale |-> l, version |-> v, action |-> action, config |-> NoConfig, text |-> "whole"]
ConfigLine(c) ==
  [locale |-> NoLocale, version |-> 0, action |-> "config", config |-> c, text |-> "whole"]

-----------------------------------------------------------------------------
(* What a mutation computes once it has read the current file.             *)

\* Reconcile: found is the snapshot read at the current version, if any.
\* An unrecorded file is recorded as the version it claims; one that differs
\* from its snapshot was edited by hand and becomes the next version.
Edited(found, seen) == \E s \in found : s.entries # seen.entries

Basis(found, seen) ==
  IF Edited(found, seen) THEN [seen EXCEPT !.version = @ + 1] ELSE seen

SeedFor(l, found, seen) ==
  IF found = {} \/ Edited(found, seen)
  THEN [locale |-> l, version |-> Basis(found, seen).version,
        entries |-> seen.entries, action |-> "create"]
  ELSE NoSeed

\* Deleting a missing key, restoring the current version and restoring an
\* unknown version are refused.
Accepts(l, change, basis) ==
  CASE change.op = "set" -> TRUE
    [] change.op = "delete" -> basis.entries[change.key] # NoValue
    [] change.op = "rollback" -> change.to # basis.version /\ Recorded(l, change.to) # {}

\* Mutant: a rollback restores some snapshot of the locale, not the one named.
ResultOfAnySnapshot(l, change, basis) ==
  CASE change.op = "set" -> [basis.entries EXCEPT ![change.key] = change.value]
    [] change.op = "delete" -> [basis.entries EXCEPT ![change.key] = NoValue]
    [] change.op = "rollback" -> (CHOOSE s \in history : s.locale = l).entries

Result(l, change, basis) ==
  CASE change.op = "set" -> [basis.entries EXCEPT ![change.key] = change.value]
    [] change.op = "delete" -> [basis.entries EXCEPT ![change.key] = NoValue]
    [] change.op = "rollback" -> (CHOOSE s \in Recorded(l, change.to) : TRUE).entries

Minted(l, change, basis) ==
  [version |-> basis.version + 1, entries |-> Result(l, change, basis)]

-----------------------------------------------------------------------------
(* A request arrives, waits for the gate of its process, and enters.       *)

Submit(w, r) ==
  /\ pc[w] = "idle"
  /\ Spend("requests", MaxRequests)
  /\ Goto(w, "waiting")
  /\ job' = [job EXCEPT ![w].request = r]
  /\ UNCHANGED <<disk, permits, applied>>

\* Mutant: the wait is inside the try, so a cancelled wait releases.
CancelInsideTry(w) ==
  /\ pc[w] = "waiting"
  /\ Leave(w)
  /\ UNCHANGED <<disk, applied, spent>>

\* The client goes away: WaitAsync throws before the try, no permit is held.
Cancel(w) ==
  /\ pc[w] = "waiting"
  /\ Goto(w, "idle")
  /\ job' = [job EXCEPT ![w] = EmptyJob]
  /\ UNCHANGED <<disk, permits, applied, spent>>

\* Mutant: no gate.
EnterUngated(w) ==
  /\ pc[w] = "waiting"
  /\ Goto(w, IF job[w].request \in SaveConfig THEN "validate" ELSE "read")
  /\ UNCHANGED <<disk, permits, job, applied, spent>>

Enter(w) ==
  /\ pc[w] = "waiting"
  /\ permits[Host[w]] > 0
  /\ permits' = [permits EXCEPT ![Host[w]] = @ - 1]
  /\ Goto(w, IF job[w].request \in SaveConfig THEN "validate" ELSE "read")
  /\ UNCHANGED <<disk, job, applied, spent>>

-----------------------------------------------------------------------------
(* MutateAsync.                                                            *)

\* No current file: 404.
RefuseUnknown(w) ==
  /\ pc[w] = "read"
  /\ current[LocaleOf(w)] = NoFile
  /\ Leave(w)
  /\ UNCHANGED <<disk, applied, spent>>

ReadCurrent(w) ==
  /\ pc[w] = "read"
  /\ current[LocaleOf(w)] # NoFile
  /\ job' = [job EXCEPT ![w].seen = current[LocaleOf(w)]]
  /\ Goto(w, "check")
  /\ UNCHANGED <<disk, permits, applied, spent>>

\* Mutant: nobody looks whether history is ahead.
AdmissibleWhileAhead(w) ==
  job[w].request.ifMatch \in {AnyVersion, job[w].seen.version}

\* History ahead throws; a stale If-Match is a 409.
Admissible(w) ==
  /\ ~Ahead(LocaleOf(w), job[w].seen.version)
  /\ job[w].request.ifMatch \in {AnyVersion, job[w].seen.version}

\* Mutant: the early return skips the release.
RefuseStaleKeepingPermit(w) ==
  /\ pc[w] = "check"
  /\ ~Admissible(w)
  /\ Goto(w, "idle")
  /\ job' = [job EXCEPT ![w] = EmptyJob]
  /\ UNCHANGED <<disk, permits, applied, spent>>

RefuseStale(w) ==
  /\ pc[w] = "check"
  /\ ~Admissible(w)
  /\ Leave(w)
  /\ UNCHANGED <<disk, applied, spent>>

Admit(w) ==
  /\ pc[w] = "check"
  /\ Admissible(w)
  /\ Goto(w, "reconcile")
  /\ UNCHANGED <<disk, permits, job, applied, spent>>

RefuseChange(w, found) ==
  /\ pc[w] = "reconcile"
  /\ ~Accepts(LocaleOf(w), job[w].request.change, Basis(found, job[w].seen))
  /\ Leave(w)
  /\ UNCHANGED <<disk, applied>>

Plan(w, found) ==
  LET l == LocaleOf(w)
      change == job[w].request.change
      basis == Basis(found, job[w].seen)
      seed == SeedFor(l, found, job[w].seen)
  IN  /\ pc[w] = "reconcile"
      /\ Accepts(l, change, basis)
      /\ job' = [job EXCEPT ![w].seed = seed, ![w].next = Minted(l, change, basis)]
      /\ Goto(w, IF seed = NoSeed THEN "snapshot" ELSE "seed")
      /\ UNCHANGED <<disk, permits, applied>>

ReconcileAndApply(w) ==
  /\ \/ Plan(w, Recorded(LocaleOf(w), job[w].seen.version))
     \/ RefuseChange(w, Recorded(LocaleOf(w), job[w].seen.version))
  /\ UNCHANGED spent

\* ReadJson answers null for a file it cannot open: the snapshot of the
\* current version looks missing.
ReconcileUnreadable(w) ==
  /\ pc[w] = "reconcile"
  /\ Recorded(LocaleOf(w), job[w].seen.version) # {}
  /\ Spend("faults", MaxFaults)
  /\ Plan(w, {}) \/ RefuseChange(w, {})

\* Mutant: WriteJson in place of CreateJson.
OverwriteSnapshot(w, s, then) ==
  /\ history' = (history \ Recorded(s.locale, s.version)) \union {s}
  /\ Goto(w, then)
  /\ UNCHANGED <<permits, job>>

\* CreateJson: an existing target is an error, history is never rewritten.
CreateSnapshot(w, s, then) ==
  IF Recorded(s.locale, s.version) = {}
  THEN /\ history' = history \union {s}
       /\ Goto(w, then)
       /\ UNCHANGED <<permits, job>>
  ELSE /\ Leave(w)
       /\ UNCHANGED history

WriteSeed(w) ==
  /\ pc[w] = "seed"
  /\ CreateSnapshot(w, job[w].seed, "seedAudit")
  /\ UNCHANGED <<current, audit, torn, config, applied, spent>>

AuditSeed(w) ==
  /\ pc[w] = "seedAudit"
  /\ Append1(VersionLine(LocaleOf(w), job[w].seed.version, "create"))
  /\ Goto(w, "snapshot")
  /\ UNCHANGED <<current, history, config, permits, job, applied, spent>>

NextSnapshot(w) ==
  [locale |-> LocaleOf(w), version |-> job[w].next.version,
   entries |-> job[w].next.entries, action |-> job[w].request.change.op]

\* Mutant: the current file is written before the audit line would be.
WriteSnapshotUnaudited(w) ==
  /\ pc[w] = "snapshot"
  /\ CreateSnapshot(w, NextSnapshot(w), "current")
  /\ UNCHANGED <<current, audit, torn, config, applied, spent>>

WriteSnapshot(w) ==
  /\ pc[w] = "snapshot"
  /\ CreateSnapshot(w, NextSnapshot(w), "audit")
  /\ UNCHANGED <<current, audit, torn, config, applied, spent>>

AuditChange(w) ==
  /\ pc[w] = "audit"
  /\ Append1(VersionLine(LocaleOf(w), job[w].next.version, job[w].request.change.op))
  /\ Goto(w, "current")
  /\ UNCHANGED <<current, history, config, permits, job, applied, spent>>

\* Mutant: the current file keeps the version number it had.
WriteCurrentSameVersion(w) ==
  LET after == [job[w].next EXCEPT !.version = job[w].seen.version]
  IN  /\ pc[w] = "current"
      /\ current' = [current EXCEPT ![LocaleOf(w)] = after]
      /\ applied' = applied \union
           {[locale |-> LocaleOf(w), change |-> job[w].request.change,
             ifMatch |-> job[w].request.ifMatch,
             before |-> job[w].seen, after |-> after]}
      /\ Leave(w)
      /\ UNCHANGED <<history, audit, torn, config, spent>>

WriteCurrent(w) ==
  /\ pc[w] = "current"
  /\ current' = [current EXCEPT ![LocaleOf(w)] = job[w].next]
  /\ applied' = applied \union
       {[locale |-> LocaleOf(w), change |-> job[w].request.change,
         ifMatch |-> job[w].request.ifMatch,
         before |-> job[w].seen, after |-> job[w].next]}
  /\ Leave(w)
  /\ UNCHANGED <<history, audit, torn, config, spent>>

-----------------------------------------------------------------------------
(* SaveConfigAsync.                                                        *)

\* Every catalog on disk is listed and nothing else; a fallback is another
\* listed locale; the default is listed and enabled.
ValidConfig(c) ==
  LET listed == DOMAIN c.settings
  IN  /\ listed = {l \in Locale : current[l] # NoFile}
      /\ \A l \in listed : c.settings[l].fallback \in (listed \ {l}) \union {NoLocale}
      /\ c.default \in listed
      /\ c.settings[c.default].enabled

ValidateConfig(w) ==
  /\ pc[w] = "validate"
  /\ IF ValidConfig(job[w].request.config)
     THEN Goto(w, "config") /\ UNCHANGED <<permits, job>>
     ELSE Leave(w)
  /\ UNCHANGED <<disk, applied, spent>>

\* The file first, the audit line after it.
WriteConfig(w) ==
  /\ pc[w] = "config"
  /\ config' = job[w].request.config
  /\ Goto(w, "configAudit")
  /\ UNCHANGED <<current, history, audit, torn, permits, job, applied, spent>>

AuditConfig(w) ==
  /\ pc[w] = "configAudit"
  /\ Append1(ConfigLine(job[w].request.config))
  /\ Leave(w)
  /\ UNCHANGED <<current, history, config, applied, spent>>

-----------------------------------------------------------------------------
(* Failures.                                                               *)

AuditStep == {"seedAudit", "audit", "configAudit"}

\* WriteDurable opens the log with FileShare.Read: the open throws while
\* another process is appending.  Nothing retries it.
AuditBusy(w) ==
  /\ pc[w] \in AuditStep
  /\ \E x \in Writer : Host[x] # Host[w] /\ pc[x] \in AuditStep
  /\ Leave(w)
  /\ UNCHANGED <<disk, applied, spent>>

\* A disk access throws (or a read answers null) and nothing was written.
DiskFault(w) ==
  /\ pc[w] \in InGate
  /\ Spend("faults", MaxFaults)
  /\ Leave(w)
  /\ UNCHANGED <<disk, applied>>

\* An append stops in the middle of the line: disk full, or a crash next.
TearAppend(w) ==
  /\ pc[w] \in AuditStep
  /\ Spend("faults", MaxFaults)
  /\ torn' = TRUE
  /\ Leave(w)
  /\ UNCHANGED <<current, history, audit, config, applied>>

\* A process dies, with the requests it serves, and starts again.
Crash(p) ==
  /\ Spend("faults", MaxFaults)
  /\ pc' = [w \in Writer |-> IF Host[w] = p THEN "idle" ELSE pc[w]]
  /\ job' = [w \in Writer |-> IF Host[w] = p THEN EmptyJob ELSE job[w]]
  /\ permits' = [permits EXCEPT ![p] = 1]
  /\ UNCHANGED <<disk, applied>>

-----------------------------------------------------------------------------
(* People with access to the folder.                                       *)

\* An editor saves other entries under the version number it opened.
HandEdit(l, entries) ==
  /\ EditsRaceWrites \/ AtRest(l)
  /\ current[l] # NoFile
  /\ current[l].entries # entries
  /\ Spend("edits", MaxEdits)
  /\ current' = [current EXCEPT ![l].entries = entries]
  /\ UNCHANGED <<history, audit, torn, config, permits, pc, job, applied>>

\* A file is dropped (a hand-written one without a version is version 1),
\* replaced, or removed.
HandDrop(l, file) ==
  /\ AtRest(l)
  /\ current[l] # file
  /\ Spend("edits", MaxEdits)
  /\ current' = [current EXCEPT ![l] = file]
  /\ UNCHANGED <<history, audit, torn, config, permits, pc, job, applied>>

\* History is ahead of the current file and writes to l are refused: someone
\* reconciles the folder, removing the snapshot of a write that never went
\* live or restoring the latest snapshot as the current file.
Latest(l, s) ==
  /\ s.locale = l
  /\ \A t \in history : t.locale = l => t.version <= s.version

WentLive(s) ==
  \E a \in applied : a.locale = s.locale /\ a.after.version = s.version

LockedOut(l) == current[l] # NoFile /\ Ahead(l, current[l].version)

RemoveOrphan(l, s) ==
  /\ AtRest(l)
  /\ LockedOut(l)
  /\ Latest(l, s)
  /\ ~WentLive(s)
  /\ history' = history \ {s}
  /\ UNCHANGED <<current, audit, torn, config, permits, pc, job, applied, spent>>

RestoreLatest(l, s) ==
  /\ AtRest(l)
  /\ LockedOut(l)
  /\ Latest(l, s)
  /\ current' = [current EXCEPT ![l] = [version |-> s.version, entries |-> s.entries]]
  /\ UNCHANGED <<history, audit, torn, config, permits, pc, job, applied, spent>>

-----------------------------------------------------------------------------

\* A fresh folder: catalogs and configuration as shipped, or none; no history yet.
Init ==
  /\ current \in [Locale -> [version: {1}, entries: Entries] \union {NoFile}]
  /\ history = {}
  /\ audit = <<>>
  /\ torn = FALSE
  /\ config \in Shipped
  /\ permits = [p \in Process |-> 1]
  /\ pc = [w \in Writer |-> "idle"]
  /\ job = [w \in Writer |-> EmptyJob]
  /\ applied = {}
  /\ spent = [requests |-> 0, faults |-> 0, edits |-> 0]

\* What a process does for a request it has let through the gate.
Step(w) ==
  \/ RefuseUnknown(w)
  \/ ReadCurrent(w)
  \/ RefuseStale(w)
  \/ Admit(w)
  \/ ReconcileAndApply(w)
  \/ WriteSeed(w)
  \/ AuditSeed(w)
  \/ WriteSnapshot(w)
  \/ AuditChange(w)
  \/ WriteCurrent(w)
  \/ ValidateConfig(w)
  \/ WriteConfig(w)
  \/ AuditConfig(w)
  \/ AuditBusy(w)

Client(w) ==
  \/ \E r \in Mutation \union SaveConfig : Submit(w, r)
  \/ Cancel(w)

Fault ==
  \/ \E w \in Writer : ReconcileUnreadable(w) \/ DiskFault(w) \/ TearAppend(w)
  \/ \E p \in Process : Crash(p)

Person ==
  \E l \in Locale :
    \/ \E entries \in Entries : HandEdit(l, entries)
    \/ \E file \in [version: Named, entries: Entries] \union {NoFile} : HandDrop(l, file)
    \/ \E s \in history : RemoveOrphan(l, s) \/ RestoreLatest(l, s)

Next ==
  \/ \E w \in Writer : Client(w) \/ Enter(w) \/ Step(w)
  \/ Fault
  \/ Person

\* The server keeps running what it has started, and the waiters of a
\* SemaphoreSlim queue, so a request is not overtaken for ever.
Fairness == \A w \in Writer : WF_vars(Step(w)) /\ SF_vars(Enter(w))

Spec == Init /\ [][Next]_vars
FairSpec == Spec /\ Fairness

-----------------------------------------------------------------------------
(* Properties.                                                             *)

Audited(l, v, action) ==
  \E i \in DOMAIN audit :
    audit[i].locale = l /\ audit[i].version = v /\ audit[i].action = action

\* A live version and the catalog it replaced are both kept: history holds
\* exactly one snapshot of the version, with what was made live, and right
\* below it the catalog the write started from, hand edits included
\* (I18nStore.cs L200-208, the order of MutateAsync's writes).
AppliedIsRecorded ==
  \A a \in applied :
    /\ Recorded(a.locale, a.after.version) =
         {[locale |-> a.locale, version |-> a.after.version,
           entries |-> a.after.entries, action |-> a.change.op]}
    /\ \E s \in Recorded(a.locale, a.after.version - 1) : s.entries = a.before.entries

\* No version goes live before a line about it was appended to the audit log
\* (test The_audit_line_is_written_before_the_current_file...).
AppliedIsAudited ==
  \A a \in applied : Audited(a.locale, a.after.version, a.change.op)

\* A rollback makes live what history holds under the version it names
\* (RollbackAsync, L136-146).
RollbackRestores ==
  \A a \in applied : a.change.op = "rollback" =>
    \E s \in Recorded(a.locale, a.change.to) : s.entries = a.after.entries

\* The version numbers a locale's writes are answered with only grow: none is
\* minted twice or below an earlier one, whatever number a person puts into
\* the file and whatever was removed from history (EnsureHistoryNotAhead).
VersionsGrow ==
  [][\A a \in applied' \ applied, b \in applied :
       a.locale = b.locale => b.after.version < a.after.version]_applied

\* The semaphore neither loses nor gains a permit on any path out of a write:
\* success, refusal, exception, torn append, crash (L184-215, L152-173).
GateIsMutex ==
  \A p \in Process :
    permits[p] + Cardinality({w \in Writer : Host[w] = p /\ pc[w] \in InGate}) = 1

\* The writers of one process never leave a locale refusing writes: without a
\* fault, when nobody is writing to a locale whose history is ahead of its
\* file, the latest snapshot was live once and a person put an older number
\* back.  (Writers of two processes do, when their appends meet: AuditBusy.)
LockoutNeedsAFault ==
  spent.faults = 0 =>
    \A l \in Locale : AtRest(l) /\ LockedOut(l) =>
      \A s \in history : Latest(l, s) => WentLive(s)

\* With one process the gate is enough: no snapshot is ever found in the way
\* of a write, so no write fails half done unless a disk access does.
GateAvoidsCollisions ==
  [][\A w \in Writer :
       pc[w] \in {"seed", "snapshot"} /\ pc'[w] = "idle" => spent'.faults > 0]_pc

\* Every request let in or queued is answered, or abandoned by its client.
EveryRequestEnds ==
  \A w \in Writer : pc[w] # "idle" ~> pc[w] = "idle"

\* What the documentation says of the audit log, and a fault refutes.

\* "every accepted write is one version and one audit line" (I18nCatalog.cs
\* L125): ReadAudit can parse the line of every write that went live.
AppliedIsReadable ==
  \A a \in applied : \E i \in DOMAIN audit :
    /\ audit[i].locale = a.locale
    /\ audit[i].version = a.after.version
    /\ audit[i].text = "whole"

\* An accepted write is one atomic, conditional replacement of the live
\* catalog, across all processes.
Atomic == INSTANCE AtomicCatalog WITH live <- current
WritesAreAtomic == Atomic!Spec

=============================================================================
