------------------------ MODULE I18nStoreRecordProofs ------------------------
(***************************************************************************)
(* Type correctness of I18nStore, for every set of locales, keys, values,  *)
(* processes and writers, and every bound; and what it keeps: every        *)
(* version that went live is in the audit log and in history, next to the  *)
(* catalog it replaced.                                                    *)
(***************************************************************************)
EXTENDS I18nStoreInv, SequenceTheorems, TLAPS

-----------------------------------------------------------------------------
(* Types.                                                                  *)

LEMMA InitTypes == Init => TypeInv
<1> SUFFICES ASSUME Init PROVE TypeInv
  OBVIOUS
<1>1. EmptyJob \in Job
  BY DEF EmptyJob, Job
<1>2. current \in [Locale -> Catalog \union {NoFile}]
  <2>1. [version: {1}, entries: Entries] \subseteq Catalog
    BY DEF Catalog, Version
  <2>2. QED
    BY <2>1 DEF Init
<1>3. spent \in [requests: Nat, faults: Nat, edits: Nat]
  BY DEF Init
<1>4. TypeOK
  <2>1. history \subseteq Snapshot /\ applied \subseteq Applied
    BY DEF Init
  <2>2. audit \in Seq(Line)
    BY DEF Init
  <2>5. torn \in BOOLEAN
    BY DEF Init
  <2>6. config \in Config \union {NoConfig}
    BY ShippedAssumption DEF Init
  <2>3. permits \in [Process -> Nat] /\ job \in [Writer -> Job]
    BY <1>1 DEF Init
  <2>4. pc \in [Writer -> {"idle", "waiting"} \union InGate]
    BY DEF Init
  <2>7. QED
    BY <1>2, <1>3, <2>1, <2>2, <2>3, <2>4, <2>5, <2>6 DEF TypeOK
<1>5. JobOK
  BY DEF Init, JobOK, JobAt, InGate, MutationStep, ConfigStep, AfterPlan
<1>6. QED
  BY <1>4, <1>5 DEF TypeInv

\* A step that moves one writer on.
LEMMA MoveTypes ==
  ASSUME TypeInv, NEW w \in Writer,
         NEW step \in {"idle", "waiting"} \union InGate, NEW j \in Job,
         JobAt(step, j),
         pc' = [pc EXCEPT ![w] = step],
         job' = [job EXCEPT ![w] = j]
  PROVE  /\ pc' \in [Writer -> {"idle", "waiting"} \union InGate]
         /\ job' \in [Writer -> Job]
         /\ JobOK'
<1>1. pc \in [Writer -> {"idle", "waiting"} \union InGate] /\ job \in [Writer -> Job]
  BY DEF TypeInv, TypeOK
<1>2. ASSUME NEW x \in Writer
      PROVE  JobAt(pc'[x], job'[x])
  <2>1. CASE x = w
    BY <1>1, <2>1
  <2>2. CASE x # w
    BY <1>1, <2>2 DEF TypeInv, JobOK
  <2>3. QED
    BY <2>1, <2>2
<1>3. JobOK'
  BY <1>2 DEF JobOK, JobAt
<1>4. QED
  BY <1>1, <1>3

\* Leaving the gate, on whatever path.
LEMMA LeaveTypes ==
  ASSUME TypeInv, NEW w \in Writer, Leave(w)
  PROVE  /\ permits' \in [Process -> Nat]
         /\ pc' \in [Writer -> {"idle", "waiting"} \union InGate]
         /\ job' \in [Writer -> Job]
         /\ JobOK'
<1>1. permits' \in [Process -> Nat]
  <2>1. permits \in [Process -> Nat]
    BY DEF TypeInv, TypeOK
  <2>2. permits' = [permits EXCEPT ![Host[w]] = @ + 1]
    BY DEF Leave
  <2>3. QED
    BY <2>1, <2>2, HostAssumption
<1>2. EmptyJob \in Job
  BY DEF EmptyJob, Job
<1>3. JobAt("idle", EmptyJob)
  BY DEF JobAt, MutationStep, ConfigStep, AfterPlan
<1>4. QED
  BY <1>1, <1>2, <1>3, MoveTypes DEF Leave, Goto

LEMMA SpendTypes ==
  ASSUME TypeInv, NEW kind \in {"requests", "faults", "edits"}, NEW limit, Spend(kind, limit)
  PROVE  spent' \in [requests: Nat, faults: Nat, edits: Nat]
<1>1. spent \in [requests: Nat, faults: Nat, edits: Nat]
  BY DEF TypeInv, TypeOK
<1>2. spent' = [spent EXCEPT ![kind] = @ + 1]
  BY DEF Spend
<1>3. QED
  BY <1>1, <1>2

LEMMA AppendTypes ==
  ASSUME TypeInv, NEW line \in Line, Append1(line)
  PROVE  audit' \in Seq(Line) /\ torn' \in BOOLEAN
<1> DEFINE written == [line EXCEPT !.text = IF torn THEN "garbled" ELSE "whole"]
<1>1. written \in Line
  BY DEF Line
<1>2. audit \in Seq(Line)
  BY DEF TypeInv, TypeOK
<1>3. audit' = Append(audit, written)
  BY DEF Append1
<1>4. audit' \in Seq(Line)
  <2> HIDE DEF written
  <2> QED
    BY <1>1, <1>2, <1>3, AppendProperties
<1>5. torn' \in BOOLEAN
  BY DEF Append1
<1>6. QED
  BY <1>4, <1>5

LEMMA ResultType ==
  ASSUME TypeInv, NEW l \in Locale, NEW change \in Change, NEW basis \in Catalog,
         Accepts(l, change, basis)
  PROVE  Minted(l, change, basis) \in Catalog
<1>1. CASE change.op = "set"
  BY <1>1 DEF Minted, Result, Change, Catalog, Version, Entries
<1>2. CASE change.op = "delete"
  BY <1>2 DEF Minted, Result, Change, Catalog, Version, Entries
<1>3. CASE change.op = "rollback"
  BY <1>3 DEF TypeInv, TypeOK, Minted, Result, Accepts, Recorded, Change, Catalog,
              Version, Snapshot
<1>4. QED
  BY <1>1, <1>2, <1>3 DEF Change

\* What the step a writer is at says of its local variables.
LEMMA JobTypes ==
  ASSUME TypeInv, NEW w \in Writer
  PROVE  /\ job[w] \in Job
         /\ pc[w] \in {"idle", "waiting"} \union InGate
         /\ JobAt(pc[w], job[w])
  BY DEF TypeInv, TypeOK, JobOK

LEMMA MutationTypes ==
  ASSUME TypeInv, NEW w \in Writer, pc[w] \in MutationStep
  PROVE  /\ job[w].request \in Mutation
         /\ LocaleOf(w) \in Locale
         /\ job[w].request.change \in Change
         /\ pc[w] # "read" => job[w].seen \in Catalog
         /\ pc[w] \in AfterPlan => job[w].next \in Catalog
         /\ pc[w] \in {"seed", "seedAudit"} => job[w].seed \in Snapshot
         /\ pc[w] \in {"seed", "seedAudit"} => job[w].seed.locale = LocaleOf(w)
<1>1. job[w] \in Job /\ JobAt(pc[w], job[w])
  BY JobTypes
<1>2. job[w].request \in Mutation
  BY <1>1 DEF JobAt, MutationStep
<1>3. LocaleOf(w) \in Locale /\ job[w].request.change \in Change
  BY <1>2 DEF LocaleOf, Mutation
<1>4. pc[w] # "read" => job[w].seen \in Catalog
  BY <1>1 DEF JobAt, MutationStep
<1>5. pc[w] \in AfterPlan => job[w].next \in Catalog
  BY <1>1 DEF JobAt, AfterPlan
<1>6. pc[w] \in {"seed", "seedAudit"} => job[w].seed \in Snapshot
  BY <1>1 DEF JobAt, Job
<1>7. pc[w] \in {"seed", "seedAudit"} => job[w].seed.locale = LocaleOf(w)
  BY <1>1 DEF JobAt, LocaleOf, AfterPlan
<1>8. QED
  BY <1>2, <1>3, <1>4, <1>5, <1>6, <1>7

\* The plan of a write, whatever Reconcile found.
LEMMA PlanTypes ==
  ASSUME TypeInv, NEW w \in Writer, NEW found \in SUBSET Snapshot, Plan(w, found)
  PROVE  /\ pc' \in [Writer -> {"idle", "waiting"} \union InGate]
         /\ job' \in [Writer -> Job]
         /\ JobOK'
<1> DEFINE l == LocaleOf(w)
           seen == job[w].seen
           basis == Basis(found, seen)
           seed == SeedFor(l, found, seen)
           next == Minted(l, job[w].request.change, basis)
           j == [job[w] EXCEPT !.seed = seed, !.next = next]
           step == IF seed = NoSeed THEN "snapshot" ELSE "seed"
<1>1. pc[w] = "reconcile" /\ Accepts(l, job[w].request.change, basis)
  BY DEF Plan
<1>2. /\ job[w].request \in Mutation /\ l \in Locale
      /\ job[w].request.change \in Change /\ seen \in Catalog
  BY <1>1, MutationTypes DEF MutationStep
<1>3. job[w] \in Job
  BY JobTypes
<1>4. basis \in Catalog
  BY <1>2 DEF Basis, Catalog, Version
<1>5. seed \in Snapshot \union {NoSeed}
  <2>1. seen.entries \in Entries /\ basis.version \in Version
    BY <1>2, <1>4 DEF Catalog
  <2>2. "create" \in Action
    BY DEF Action
  <2>3. [locale |-> l, version |-> basis.version,
         entries |-> seen.entries, action |-> "create"] \in Snapshot
    BY <1>2, <2>1, <2>2 DEF Snapshot
  <2>4. QED
    BY <2>3 DEF SeedFor
<1>6. next \in Catalog
  BY <1>1, <1>2, <1>4, ResultType
<1>7. seed # NoSeed => seed.locale = l
  BY DEF SeedFor
<1>8. job' = [job EXCEPT ![w] = j] /\ pc' = [pc EXCEPT ![w] = step]
  <2>1. job \in [Writer -> Job]
    BY DEF TypeInv, TypeOK
  <2>2. job' = [job EXCEPT ![w].seed = seed, ![w].next = next]
    BY DEF Plan
  <2>3. pc' = [pc EXCEPT ![w] = step]
    BY DEF Plan, Goto
  <2> HIDE DEF l, seen, basis, seed, next, step
  <2>4. QED
    BY <2>1, <2>2, <2>3
<1>9. j \in Job /\ JobAt(step, j) /\ step \in InGate
  <2> USE <1>2, <1>3, <1>5, <1>6, <1>7
  <2> HIDE DEF basis, seed, next
  <2>1. j \in Job
    BY DEF Job
  <2>2. /\ j.request = job[w].request /\ j.seen = seen
        /\ j.seed = seed /\ j.next = next
    BY DEF Job
  <2>3. j.seed # NoSeed => j.seed.locale = j.request.locale
    BY <2>2 DEF LocaleOf
  <2>4. step = "snapshot" \/ (step = "seed" /\ seed # NoSeed)
    OBVIOUS
  <2> HIDE DEF j, step
  <2>5. QED
    BY <2>1, <2>2, <2>3, <2>4 DEF JobAt, AfterPlan, MutationStep, ConfigStep, InGate
<1> HIDE DEF j, step
<1>10. QED
  BY <1>8, <1>9, MoveTypes

\* A step of the request w that writes no file and observes nothing.
LEMMA QuietTypes ==
  ASSUME TypeInv, UNCHANGED <<disk, applied>>,
         permits' \in [Process -> Nat],
         pc' \in [Writer -> {"idle", "waiting"} \union InGate],
         job' \in [Writer -> Job],
         JobOK',
         spent' \in [requests: Nat, faults: Nat, edits: Nat]
  PROVE  TypeInv'
<1>1. TypeOK'
  BY DEF TypeInv, TypeOK, disk
<1>2. QED
  BY <1>1 DEF TypeInv

\* Nothing but the local variables of w.
LEMMA LocalTypes ==
  ASSUME TypeInv, NEW w \in Writer,
         NEW step \in {"idle", "waiting"} \union InGate, NEW j \in Job,
         JobAt(step, j),
         pc' = [pc EXCEPT ![w] = step],
         job' = [job EXCEPT ![w] = j],
         permits' \in [Process -> Nat],
         spent' \in [requests: Nat, faults: Nat, edits: Nat],
         UNCHANGED <<disk, applied>>
  PROVE  TypeInv'
  BY MoveTypes, QuietTypes

LEMMA Counted ==
  ASSUME TypeInv
  PROVE  spent \in [requests: Nat, faults: Nat, edits: Nat] /\ permits \in [Process -> Nat]
  BY DEF TypeInv, TypeOK

\* Giving up: a refusal, an exception, a torn append.
LEMMA LeaveQuietTypes ==
  ASSUME TypeInv, NEW w \in Writer, Leave(w), UNCHANGED <<disk, applied>>,
         spent' \in [requests: Nat, faults: Nat, edits: Nat]
  PROVE  TypeInv'
  BY LeaveTypes, QuietTypes

LEMMA ClientTypes ==
  ASSUME TypeInv, NEW w \in Writer, Client(w) \/ Enter(w)
  PROVE  TypeInv'
<1>1. job[w] \in Job /\ JobAt(pc[w], job[w]) /\ job \in [Writer -> Job] /\ pc \in [Writer -> {"idle", "waiting"} \union InGate]
  BY JobTypes DEF TypeInv, TypeOK
<1>2. ASSUME NEW r \in Mutation \union SaveConfig, Submit(w, r)
      PROVE  TypeInv'
  <2> DEFINE j == [job[w] EXCEPT !.request = r]
  <2>1. j \in Job /\ j.request = r
    BY <1>1 DEF Job
  <2>2. job' = [job EXCEPT ![w] = j] /\ pc' = [pc EXCEPT ![w] = "waiting"]
    BY <1>1, <1>2 DEF Submit, Goto
  <2> HIDE DEF j
  <2>3. JobAt("waiting", j)
    BY <2>1 DEF JobAt, MutationStep, ConfigStep, AfterPlan
  <2>4. spent' \in [requests: Nat, faults: Nat, edits: Nat]
    BY <1>2, SpendTypes DEF Submit
  <2>5. UNCHANGED <<disk, permits, applied>>
    BY <1>2 DEF Submit
  <2>6. QED
    BY <2>1, <2>2, <2>3, <2>4, <2>5, LocalTypes, Counted
<1>3. CASE Cancel(w)
  <2>1. EmptyJob \in Job /\ JobAt("idle", EmptyJob)
    BY DEF EmptyJob, Job, JobAt, MutationStep, ConfigStep, AfterPlan
  <2>2. /\ job' = [job EXCEPT ![w] = EmptyJob] /\ pc' = [pc EXCEPT ![w] = "idle"]
        /\ UNCHANGED <<disk, permits, applied, spent>>
    BY <1>3 DEF Cancel, Goto
  <2>3. QED
    BY <2>1, <2>2, LocalTypes, Counted
<1>4. CASE Enter(w)
  <2> DEFINE step == IF job[w].request \in SaveConfig THEN "validate" ELSE "read"
  <2>1. /\ pc' = [pc EXCEPT ![w] = step]
        /\ job' = [job EXCEPT ![w] = job[w]]
        /\ UNCHANGED <<disk, applied, spent>>
    BY <1>1, <1>4 DEF Enter, Goto
  <2>2. job[w].request \in Mutation \union SaveConfig
    BY <1>1, <1>4 DEF Enter, JobAt
  <2>3. step \in InGate /\ JobAt(step, job[w])
    BY <2>2 DEF JobAt, InGate, MutationStep, ConfigStep, AfterPlan
  <2>4. permits' \in [Process -> Nat]
    <3>1. permits \in [Process -> Nat] /\ Host[w] \in Process
      BY HostAssumption DEF TypeInv, TypeOK
    <3>2. permits[Host[w]] > 0 /\ permits' = [permits EXCEPT ![Host[w]] = @ - 1]
      BY <1>4 DEF Enter
    <3>3. QED
      BY <3>1, <3>2
  <2> HIDE DEF step
  <2>5. QED
    BY <1>1, <2>1, <2>3, <2>4, LocalTypes, Counted
<1>5. QED
  BY <1>2, <1>3, <1>4 DEF Client

\* MutateAsync up to the first file it writes.
LEMMA PlanningTypes ==
  ASSUME TypeInv, NEW w \in Writer,
         \/ RefuseUnknown(w) \/ ReadCurrent(w) \/ RefuseStale(w) \/ Admit(w)
         \/ ReconcileAndApply(w) \/ ReconcileUnreadable(w)
  PROVE  TypeInv'
<1>1. job[w] \in Job /\ JobAt(pc[w], job[w]) /\ job \in [Writer -> Job]
  BY JobTypes DEF TypeInv, TypeOK
<1>2. CASE RefuseUnknown(w)
  BY <1>2, LeaveQuietTypes, Counted DEF RefuseUnknown
<1>3. CASE ReadCurrent(w)
  <2> DEFINE j == [job[w] EXCEPT !.seen = current[LocaleOf(w)]]
  <2>1. LocaleOf(w) \in Locale /\ job[w].request \in Mutation
    BY <1>3, MutationTypes DEF ReadCurrent, MutationStep
  <2>2. current[LocaleOf(w)] \in Catalog
    BY <1>3, <2>1 DEF ReadCurrent, TypeInv, TypeOK
  <2>3. j \in Job /\ j.request \in Mutation /\ j.seen \in Catalog
    BY <1>1, <2>1, <2>2 DEF Job
  <2>4. /\ job' = [job EXCEPT ![w] = j] /\ pc' = [pc EXCEPT ![w] = "check"]
        /\ UNCHANGED <<disk, permits, applied, spent>>
    BY <1>1, <1>3 DEF ReadCurrent, Goto
  <2> HIDE DEF j
  <2>5. JobAt("check", j) /\ "check" \in InGate
    BY <2>3 DEF JobAt, MutationStep, ConfigStep, AfterPlan, InGate
  <2>6. QED
    BY <2>3, <2>4, <2>5, LocalTypes, Counted
<1>4. CASE RefuseStale(w)
  BY <1>4, LeaveQuietTypes, Counted DEF RefuseStale
<1>5. CASE Admit(w)
  <2>1. /\ job' = [job EXCEPT ![w] = job[w]] /\ pc' = [pc EXCEPT ![w] = "reconcile"]
        /\ UNCHANGED <<disk, permits, applied, spent>>
    BY <1>1, <1>5 DEF Admit, Goto
  <2>2. JobAt("reconcile", job[w]) /\ "reconcile" \in InGate
    BY <1>1, <1>5 DEF Admit, JobAt, MutationStep, ConfigStep, AfterPlan, InGate
  <2>3. QED
    BY <1>1, <2>1, <2>2, LocalTypes, Counted
<1>6. ASSUME NEW found \in SUBSET Snapshot, Plan(w, found) \/ RefuseChange(w, found),
             spent' \in [requests: Nat, faults: Nat, edits: Nat]
      PROVE  TypeInv'
  <2>1. CASE Plan(w, found)
    <3>1. UNCHANGED <<disk, permits, applied>>
      BY <2>1 DEF Plan
    <3>2. QED
      BY <1>6, <2>1, <3>1, PlanTypes, QuietTypes, Counted
  <2>2. CASE RefuseChange(w, found)
    BY <1>6, <2>2, LeaveQuietTypes DEF RefuseChange
  <2>3. QED
    BY <1>6, <2>1, <2>2
<1>7. Recorded(LocaleOf(w), job[w].seen.version) \in SUBSET Snapshot
  BY DEF Recorded, TypeInv, TypeOK
<1>8. CASE ReconcileAndApply(w)
  BY <1>6, <1>7, <1>8, Counted DEF ReconcileAndApply
<1>9. CASE ReconcileUnreadable(w)
  <2>1. spent' \in [requests: Nat, faults: Nat, edits: Nat]
    BY <1>9, SpendTypes DEF ReconcileUnreadable
  <2>2. Plan(w, {}) \/ RefuseChange(w, {})
    BY <1>9 DEF ReconcileUnreadable
  <2>3. QED
    BY <1>6, <2>1, <2>2
<1>10. QED
  BY <1>2, <1>3, <1>4, <1>5, <1>8, <1>9

\* w goes on to the next step with the local variables it has.
LEMMA GotoTypes ==
  ASSUME TypeInv, NEW w \in Writer, NEW step \in InGate, JobAt(step, job[w]),
         Goto(w, step), UNCHANGED job
  PROVE  /\ pc' \in [Writer -> {"idle", "waiting"} \union InGate]
         /\ job' \in [Writer -> Job]
         /\ JobOK'
<1>1. job[w] \in Job /\ job \in [Writer -> Job]
  BY DEF TypeInv, TypeOK
<1>2. job' = [job EXCEPT ![w] = job[w]] /\ pc' = [pc EXCEPT ![w] = step]
  BY <1>1 DEF Goto
<1>3. QED
  BY <1>1, <1>2, MoveTypes

\* CreateJson, whichever way it ends.
LEMMA CreateTypes ==
  ASSUME TypeInv, NEW w \in Writer, NEW s \in Snapshot, NEW step \in InGate,
         JobAt(step, job[w]), CreateSnapshot(w, s, step)
  PROVE  /\ history' \subseteq Snapshot
         /\ permits' \in [Process -> Nat]
         /\ pc' \in [Writer -> {"idle", "waiting"} \union InGate]
         /\ job' \in [Writer -> Job]
         /\ JobOK'
<1>1. history \subseteq Snapshot
  BY DEF TypeInv, TypeOK
<1>2. CASE Recorded(s.locale, s.version) = {}
  <2>1. history' = history \union {s} /\ Goto(w, step) /\ UNCHANGED <<permits, job>>
    BY <1>2 DEF CreateSnapshot
  <2>2. QED
    BY <1>1, <2>1, GotoTypes, Counted
<1>3. CASE Recorded(s.locale, s.version) # {}
  <2>1. Leave(w) /\ UNCHANGED history
    BY <1>3 DEF CreateSnapshot
  <2>2. QED
    BY <1>1, <2>1, LeaveTypes
<1>4. QED
  BY <1>2, <1>3

LEMMA VersionLineType ==
  ASSUME NEW l \in Locale, NEW v \in Nat, NEW action \in Action
  PROVE  VersionLine(l, v, action) \in Line
  BY DEF VersionLine, Line

LEMMA NextSnapshotType ==
  ASSUME TypeInv, NEW w \in Writer, pc[w] \in AfterPlan
  PROVE  /\ job[w].next.version \in Version
         /\ job[w].request.change.op \in Action
         /\ NextSnapshot(w) \in Snapshot
<1>1. /\ LocaleOf(w) \in Locale /\ job[w].next \in Catalog
      /\ job[w].request.change \in Change
  BY MutationTypes DEF AfterPlan, MutationStep
<1>2. job[w].request.change.op \in Action
  BY <1>1 DEF Change, Action
<1>3. QED
  BY <1>1, <1>2 DEF NextSnapshot, Snapshot, Catalog

\* The lines that the three audit steps append.
LEMMA SeedLineType ==
  ASSUME TypeInv, NEW w \in Writer, pc[w] = "seedAudit"
  PROVE  VersionLine(LocaleOf(w), job[w].seed.version, "create") \in Line
<1>1. LocaleOf(w) \in Locale /\ job[w].seed \in Snapshot
  BY MutationTypes DEF MutationStep
<1>2. QED
  BY <1>1, VersionLineType DEF Snapshot, Version, Action

LEMMA ChangeLineType ==
  ASSUME TypeInv, NEW w \in Writer, pc[w] = "audit"
  PROVE  VersionLine(LocaleOf(w), job[w].next.version, job[w].request.change.op) \in Line
<1>1. LocaleOf(w) \in Locale
  BY MutationTypes DEF MutationStep
<1>2. job[w].next.version \in Version /\ job[w].request.change.op \in Action
  BY NextSnapshotType DEF AfterPlan
<1>3. QED
  BY <1>1, <1>2, VersionLineType DEF Version

LEMMA ConfigLineType ==
  ASSUME TypeInv, NEW w \in Writer, pc[w] = "configAudit"
  PROVE  ConfigLine(job[w].request.config) \in Line
<1>1. job[w].request.config \in Config
  BY JobTypes, SentAssumption DEF JobAt, ConfigStep, SaveConfig
<1>2. QED
  BY <1>1 DEF ConfigLine, Line

LEMMA AppliedType ==
  ASSUME TypeInv, NEW w \in Writer, WriteCurrent(w)
  PROVE  /\ current' \in [Locale -> Catalog \union {NoFile}]
         /\ applied' \subseteq Applied
<1>1. pc[w] = "current"
  BY DEF WriteCurrent
<1>2. /\ LocaleOf(w) \in Locale /\ job[w].next \in Catalog /\ job[w].seen \in Catalog
      /\ job[w].request.change \in Change /\ job[w].request \in Mutation
  BY <1>1, MutationTypes DEF AfterPlan, MutationStep
<1>3. job[w].request.ifMatch \in Named \union {AnyVersion}
  BY <1>2 DEF Mutation
<1>4. [locale |-> LocaleOf(w), change |-> job[w].request.change,
       ifMatch |-> job[w].request.ifMatch,
       before |-> job[w].seen, after |-> job[w].next] \in Applied
  BY <1>2, <1>3 DEF Applied
<1>5. applied \subseteq Applied /\ current \in [Locale -> Catalog \union {NoFile}]
  BY DEF TypeInv, TypeOK
<1>6. current' = [current EXCEPT ![LocaleOf(w)] = job[w].next]
  BY DEF WriteCurrent
<1>7. applied' = applied \union
        {[locale |-> LocaleOf(w), change |-> job[w].request.change,
          ifMatch |-> job[w].request.ifMatch,
          before |-> job[w].seen, after |-> job[w].next]}
  BY DEF WriteCurrent
<1>8. QED
  BY <1>2, <1>4, <1>5, <1>6, <1>7

\* The files of an accepted mutation.
LEMMA WritingTypes ==
  ASSUME TypeInv, NEW w \in Writer,
         WriteSeed(w) \/ AuditSeed(w) \/ WriteSnapshot(w) \/ AuditChange(w) \/ WriteCurrent(w)
  PROVE  TypeInv'
<1>1. job[w] \in Job /\ JobAt(pc[w], job[w])
  BY JobTypes
<1>2. CASE WriteSeed(w)
  <2>1. job[w].seed \in Snapshot
    BY <1>2, MutationTypes DEF WriteSeed, MutationStep
  <2>2. JobAt("seedAudit", job[w]) /\ "seedAudit" \in InGate
    BY <1>1, <1>2 DEF WriteSeed, JobAt, MutationStep, ConfigStep, AfterPlan, InGate
  <2>3. CreateSnapshot(w, job[w].seed, "seedAudit")
        /\ UNCHANGED <<current, audit, torn, config, applied, spent>>
    BY <1>2 DEF WriteSeed
  <2>4. /\ history' \subseteq Snapshot
        /\ permits' \in [Process -> Nat]
        /\ pc' \in [Writer -> {"idle", "waiting"} \union InGate]
        /\ job' \in [Writer -> Job]
        /\ JobOK'
    BY <2>1, <2>2, <2>3, CreateTypes
  <2>5. QED
    BY <2>3, <2>4 DEF TypeInv, TypeOK
<1>3. CASE AuditSeed(w)
  <2>2. VersionLine(LocaleOf(w), job[w].seed.version, "create") \in Line
    BY <1>3, SeedLineType DEF AuditSeed
  <2>3. JobAt("snapshot", job[w]) /\ "snapshot" \in InGate
    BY <1>1, <1>3 DEF AuditSeed, JobAt, MutationStep, ConfigStep, AfterPlan, InGate
  <2>4. /\ Append1(VersionLine(LocaleOf(w), job[w].seed.version, "create"))
        /\ Goto(w, "snapshot")
        /\ UNCHANGED <<current, history, config, permits, job, applied, spent>>
    BY <1>3 DEF AuditSeed
  <2>5. audit' \in Seq(Line) /\ torn' \in BOOLEAN
    BY <2>2, <2>4, AppendTypes
  <2>6. /\ pc' \in [Writer -> {"idle", "waiting"} \union InGate]
        /\ job' \in [Writer -> Job]
        /\ JobOK'
    BY <2>3, <2>4, GotoTypes
  <2>7. QED
    BY <2>4, <2>5, <2>6 DEF TypeInv, TypeOK
<1>4. CASE WriteSnapshot(w)
  <2>1. NextSnapshot(w) \in Snapshot
    BY <1>4, NextSnapshotType DEF WriteSnapshot, AfterPlan
  <2>2. JobAt("audit", job[w]) /\ "audit" \in InGate
    BY <1>1, <1>4 DEF WriteSnapshot, JobAt, MutationStep, ConfigStep, AfterPlan, InGate
  <2>3. CreateSnapshot(w, NextSnapshot(w), "audit")
        /\ UNCHANGED <<current, audit, torn, config, applied, spent>>
    BY <1>4 DEF WriteSnapshot
  <2>4. /\ history' \subseteq Snapshot
        /\ permits' \in [Process -> Nat]
        /\ pc' \in [Writer -> {"idle", "waiting"} \union InGate]
        /\ job' \in [Writer -> Job]
        /\ JobOK'
    BY <2>1, <2>2, <2>3, CreateTypes
  <2>5. QED
    BY <2>3, <2>4 DEF TypeInv, TypeOK
<1>5. CASE AuditChange(w)
  <2>3. VersionLine(LocaleOf(w), job[w].next.version, job[w].request.change.op) \in Line
    BY <1>5, ChangeLineType DEF AuditChange
  <2>4. JobAt("current", job[w]) /\ "current" \in InGate
    BY <1>1, <1>5 DEF AuditChange, JobAt, MutationStep, ConfigStep, AfterPlan, InGate
  <2>5. /\ Append1(VersionLine(LocaleOf(w), job[w].next.version, job[w].request.change.op))
        /\ Goto(w, "current")
        /\ UNCHANGED <<current, history, config, permits, job, applied, spent>>
    BY <1>5 DEF AuditChange
  <2>6. audit' \in Seq(Line) /\ torn' \in BOOLEAN
    BY <2>3, <2>5, AppendTypes
  <2>7. /\ pc' \in [Writer -> {"idle", "waiting"} \union InGate]
        /\ job' \in [Writer -> Job]
        /\ JobOK'
    BY <2>4, <2>5, GotoTypes
  <2>8. QED
    BY <2>5, <2>6, <2>7 DEF TypeInv, TypeOK
<1>6. CASE WriteCurrent(w)
  <2>1. Leave(w) /\ UNCHANGED <<history, audit, torn, config, spent>>
    BY <1>6 DEF WriteCurrent
  <2>2. /\ permits' \in [Process -> Nat]
        /\ pc' \in [Writer -> {"idle", "waiting"} \union InGate]
        /\ job' \in [Writer -> Job]
        /\ JobOK'
    BY <2>1, LeaveTypes
  <2>3. QED
    BY <1>6, <2>1, <2>2, AppliedType DEF TypeInv, TypeOK
<1>7. QED
  BY <1>2, <1>3, <1>4, <1>5, <1>6

LEMMA ConfigTypes ==
  ASSUME TypeInv, NEW w \in Writer, ValidateConfig(w) \/ WriteConfig(w) \/ AuditConfig(w)
  PROVE  TypeInv'
<1>1. job[w] \in Job /\ JobAt(pc[w], job[w])
  BY JobTypes
<1>2. pc[w] \in ConfigStep => job[w].request \in SaveConfig /\ job[w].request.config \in Config
  BY <1>1, SentAssumption DEF JobAt, SaveConfig
<1>3. CASE ValidateConfig(w)
  <2>1. pc[w] = "validate" /\ UNCHANGED <<disk, applied, spent>>
    BY <1>3 DEF ValidateConfig
  <2>2. CASE ValidConfig(job[w].request.config)
    <3>1. Goto(w, "config") /\ UNCHANGED <<permits, job>>
      BY <1>3, <2>2 DEF ValidateConfig
    <3>2. JobAt("config", job[w]) /\ "config" \in InGate
      BY <1>1, <2>1 DEF JobAt, MutationStep, ConfigStep, AfterPlan, InGate
    <3>3. QED
      BY <2>1, <3>1, <3>2, GotoTypes, QuietTypes, Counted
  <2>3. CASE ~ValidConfig(job[w].request.config)
    <3>1. Leave(w)
      BY <1>3, <2>3 DEF ValidateConfig
    <3>2. QED
      BY <2>1, <3>1, LeaveQuietTypes, Counted
  <2>4. QED
    BY <2>2, <2>3
<1>4. CASE WriteConfig(w)
  <2>1. job[w].request.config \in Config
    BY <1>2, <1>4 DEF WriteConfig, ConfigStep
  <2>2. JobAt("configAudit", job[w]) /\ "configAudit" \in InGate
    BY <1>1, <1>4 DEF WriteConfig, JobAt, MutationStep, ConfigStep, AfterPlan, InGate
  <2>3. /\ config' = job[w].request.config /\ Goto(w, "configAudit")
        /\ UNCHANGED <<current, history, audit, torn, permits, job, applied, spent>>
    BY <1>4 DEF WriteConfig
  <2>4. /\ pc' \in [Writer -> {"idle", "waiting"} \union InGate]
        /\ job' \in [Writer -> Job]
        /\ JobOK'
    BY <2>2, <2>3, GotoTypes
  <2>5. QED
    BY <2>1, <2>3, <2>4 DEF TypeInv, TypeOK
<1>5. CASE AuditConfig(w)
  <2>2. ConfigLine(job[w].request.config) \in Line
    BY <1>5, ConfigLineType DEF AuditConfig
  <2>3. /\ Append1(ConfigLine(job[w].request.config)) /\ Leave(w)
        /\ UNCHANGED <<current, history, config, applied, spent>>
    BY <1>5 DEF AuditConfig
  <2>4. audit' \in Seq(Line) /\ torn' \in BOOLEAN
    BY <2>2, <2>3, AppendTypes
  <2>5. /\ permits' \in [Process -> Nat]
        /\ pc' \in [Writer -> {"idle", "waiting"} \union InGate]
        /\ job' \in [Writer -> Job]
        /\ JobOK'
    BY <2>3, LeaveTypes
  <2>6. QED
    BY <2>3, <2>4, <2>5 DEF TypeInv, TypeOK
<1>6. QED
  BY <1>3, <1>4, <1>5

LEMMA FaultTypes ==
  ASSUME TypeInv, Fault
  PROVE  TypeInv'
<1>1. ASSUME NEW w \in Writer, ReconcileUnreadable(w)
      PROVE  TypeInv'
  BY <1>1, PlanningTypes
<1>2. ASSUME NEW w \in Writer, DiskFault(w)
      PROVE  TypeInv'
  <2>1. Leave(w) /\ UNCHANGED <<disk, applied>> /\ Spend("faults", MaxFaults)
    BY <1>2 DEF DiskFault
  <2>2. QED
    BY <2>1, SpendTypes, LeaveQuietTypes
<1>3. ASSUME NEW w \in Writer, TearAppend(w)
      PROVE  TypeInv'
  <2>1. /\ Leave(w) /\ Spend("faults", MaxFaults) /\ torn' = TRUE
        /\ UNCHANGED <<current, history, audit, config, applied>>
    BY <1>3 DEF TearAppend
  <2>2. spent' \in [requests: Nat, faults: Nat, edits: Nat]
    BY <2>1, SpendTypes
  <2>3. /\ permits' \in [Process -> Nat]
        /\ pc' \in [Writer -> {"idle", "waiting"} \union InGate]
        /\ job' \in [Writer -> Job]
        /\ JobOK'
    BY <2>1, LeaveTypes
  <2>4. QED
    BY <2>1, <2>2, <2>3 DEF TypeInv, TypeOK
<1>4. ASSUME NEW p \in Process, Crash(p)
      PROVE  TypeInv'
  <2>1. /\ pc' = [w \in Writer |-> IF Host[w] = p THEN "idle" ELSE pc[w]]
        /\ job' = [w \in Writer |-> IF Host[w] = p THEN EmptyJob ELSE job[w]]
        /\ permits' = [permits EXCEPT ![p] = 1]
        /\ UNCHANGED <<disk, applied>>
        /\ Spend("faults", MaxFaults)
    BY <1>4 DEF Crash
  <2>2. EmptyJob \in Job /\ JobAt("idle", EmptyJob)
    BY DEF EmptyJob, Job, JobAt, MutationStep, ConfigStep, AfterPlan
  <2>3. /\ pc \in [Writer -> {"idle", "waiting"} \union InGate] /\ job \in [Writer -> Job]
        /\ permits \in [Process -> Nat]
    BY DEF TypeInv, TypeOK
  <2>4. pc' \in [Writer -> {"idle", "waiting"} \union InGate]
    BY <2>1, <2>3
  <2>5. job' \in [Writer -> Job]
    BY <2>1, <2>2, <2>3
  <2>6. permits' \in [Process -> Nat]
    BY <2>1, <2>3
  <2>7. ASSUME NEW w \in Writer
        PROVE  JobAt(pc'[w], job'[w])
    <3>1. JobAt(pc[w], job[w])
      BY JobTypes
    <3>2. \/ pc'[w] = "idle" /\ job'[w] = EmptyJob
          \/ pc'[w] = pc[w] /\ job'[w] = job[w]
      BY <2>1
    <3>3. QED
      BY <2>2, <3>1, <3>2
  <2>8. JobOK'
    BY <2>7 DEF JobOK, JobAt
  <2>9. QED
    BY <2>1, <2>4, <2>5, <2>6, <2>8, SpendTypes, QuietTypes
<1>5. QED
  BY <1>1, <1>2, <1>3, <1>4 DEF Fault

LEMMA PersonTypes ==
  ASSUME TypeInv, Person
  PROVE  TypeInv'
<1>1. /\ current \in [Locale -> Catalog \union {NoFile}]
      /\ history \subseteq Snapshot
  BY DEF TypeInv, TypeOK
<1>2. JobOK /\ UNCHANGED <<pc, job>> => JobOK'
  BY DEF JobOK, JobAt
<1>3. ASSUME NEW l \in Locale, NEW entries \in Entries, HandEdit(l, entries)
      PROVE  TypeInv'
  <2>1. /\ current[l] # NoFile
        /\ current' = [current EXCEPT ![l].entries = entries]
        /\ Spend("edits", MaxEdits)
        /\ UNCHANGED <<history, audit, torn, config, permits, pc, job, applied>>
    BY <1>3 DEF HandEdit
  <2>2. [current[l] EXCEPT !.entries = entries] \in Catalog
    BY <1>1, <2>1 DEF Catalog
  <2>3. current' \in [Locale -> Catalog \union {NoFile}]
    BY <1>1, <2>1, <2>2
  <2>4. spent' \in [requests: Nat, faults: Nat, edits: Nat]
    BY <2>1, SpendTypes
  <2>5. QED
    BY <1>2, <2>1, <2>3, <2>4 DEF TypeInv, TypeOK
<1>4. ASSUME NEW l \in Locale, NEW file \in [version: Named, entries: Entries] \union {NoFile},
             HandDrop(l, file)
      PROVE  TypeInv'
  <2>1. /\ current' = [current EXCEPT ![l] = file]
        /\ Spend("edits", MaxEdits)
        /\ UNCHANGED <<history, audit, torn, config, permits, pc, job, applied>>
    BY <1>4 DEF HandDrop
  <2>2. file \in Catalog \union {NoFile}
    BY NamedAssumption DEF Catalog
  <2>3. current' \in [Locale -> Catalog \union {NoFile}]
    BY <1>1, <2>1, <2>2
  <2>4. spent' \in [requests: Nat, faults: Nat, edits: Nat]
    BY <2>1, SpendTypes
  <2>5. QED
    BY <1>2, <2>1, <2>3, <2>4 DEF TypeInv, TypeOK
<1>5. ASSUME NEW l \in Locale, NEW s \in history, RemoveOrphan(l, s)
      PROVE  TypeInv'
  <2>1. /\ history' = history \ {s}
        /\ UNCHANGED <<current, audit, torn, config, permits, pc, job, applied, spent>>
    BY <1>5 DEF RemoveOrphan
  <2>2. QED
    BY <1>1, <1>2, <2>1 DEF TypeInv, TypeOK
<1>6. ASSUME NEW l \in Locale, NEW s \in history, RestoreLatest(l, s)
      PROVE  TypeInv'
  <2>1. /\ current' = [current EXCEPT ![l] = [version |-> s.version, entries |-> s.entries]]
        /\ UNCHANGED <<history, audit, torn, config, permits, pc, job, applied, spent>>
    BY <1>6 DEF RestoreLatest
  <2>2. [version |-> s.version, entries |-> s.entries] \in Catalog
    BY <1>1 DEF Snapshot, Catalog
  <2>3. current' \in [Locale -> Catalog \union {NoFile}]
    BY <1>1, <2>1, <2>2
  <2>4. QED
    BY <1>2, <2>1, <2>3 DEF TypeInv, TypeOK
<1>7. QED
  BY <1>3, <1>4, <1>5, <1>6 DEF Person

LEMMA TypesPreserved == TypeInv /\ [Next]_vars => TypeInv'
<1> SUFFICES ASSUME TypeInv, [Next]_vars PROVE TypeInv'
  OBVIOUS
<1>1. ASSUME NEW w \in Writer, Client(w) \/ Enter(w)
      PROVE  TypeInv'
  BY <1>1, ClientTypes
<1>2. ASSUME NEW w \in Writer, Step(w)
      PROVE  TypeInv'
  <2>1. CASE AuditBusy(w)
    BY <2>1, LeaveQuietTypes, Counted DEF AuditBusy
  <2>2. QED
    BY <1>2, <2>1, PlanningTypes, WritingTypes, ConfigTypes DEF Step
<1>3. CASE Fault
  BY <1>3, FaultTypes
<1>4. CASE Person
  BY <1>4, PersonTypes
<1>5. CASE UNCHANGED vars
  BY <1>5 DEF vars, disk, TypeInv, TypeOK, JobOK, JobAt
<1>6. QED
  BY <1>1, <1>2, <1>3, <1>4, <1>5 DEF Next

\* Every value stays in its type, and every request's local variables are
\* those its step needs, on every path of MutateAsync and SaveConfigAsync.
THEOREM TypeCorrect == Spec => []TypeOK
<1>1. TypeInv => TypeOK
  BY DEF TypeInv
<1>2. QED
  BY <1>1, InitTypes, TypesPreserved, PTL DEF Spec

THEOREM TypeInvariant == Spec => []TypeInv
  BY InitTypes, TypesPreserved, PTL DEF Spec

-----------------------------------------------------------------------------
(* How one step changes the local variables of the requests.               *)

\* A step of one request leaves the others alone.
LEMMA MovesAlone ==
  ASSUME TypeInv, NEW w \in Writer, Move(w), NEW x \in Writer, x # w
  PROVE  pc'[x] = pc[x] /\ job'[x] = job[x]
<1>1. pc \in [Writer -> {"idle", "waiting"} \union InGate] /\ job \in [Writer -> Job]
  BY DEF TypeInv, TypeOK
<1>2. CASE Leave(w)
  BY <1>1, <1>2 DEF Leave, Goto
<1>3. CASE \E step : Goto(w, step) /\ UNCHANGED job
  BY <1>1, <1>3 DEF Goto
<1>4. CASE Client(w) \/ Enter(w)
  BY <1>1, <1>4 DEF Client, Enter, Submit, Cancel, Goto
<1>5. ASSUME NEW found, Plan(w, found)
      PROVE  pc'[x] = pc[x] /\ job'[x] = job[x]
  <2>1. \E step, a, b : Goto(w, step) /\ job' = [job EXCEPT ![w].seed = a, ![w].next = b]
    BY <1>5 DEF Plan
  <2>2. QED
    BY <1>1, <2>1 DEF Goto
<1>6. ASSUME NEW found, RefuseChange(w, found)
      PROVE  Leave(w)
  BY <1>6 DEF RefuseChange
<1>7. CASE ReconcileAndApply(w) \/ ReconcileUnreadable(w)
  BY <1>2, <1>5, <1>6, <1>7 DEF ReconcileAndApply, ReconcileUnreadable
<1>8. CASE RefuseUnknown(w) \/ RefuseStale(w) \/ WriteCurrent(w) \/ AuditConfig(w)
           \/ AuditBusy(w) \/ DiskFault(w) \/ TearAppend(w)
  BY <1>2, <1>8 DEF RefuseUnknown, RefuseStale, WriteCurrent, AuditConfig, AuditBusy, DiskFault,
                    TearAppend
<1>9. CASE ReadCurrent(w)
  <2>1. \E a : Goto(w, "check") /\ job' = [job EXCEPT ![w].seen = a]
    BY <1>9 DEF ReadCurrent
  <2>2. QED
    BY <1>1, <2>1 DEF Goto
<1>10. CASE Admit(w) \/ AuditSeed(w) \/ AuditChange(w) \/ WriteConfig(w)
  BY <1>3, <1>10 DEF Admit, AuditSeed, AuditChange, WriteConfig
<1>11. CASE ValidateConfig(w)
  BY <1>2, <1>3, <1>11 DEF ValidateConfig
<1>12. ASSUME NEW s, NEW step, CreateSnapshot(w, s, step)
       PROVE  pc'[x] = pc[x] /\ job'[x] = job[x]
  BY <1>2, <1>3, <1>12 DEF CreateSnapshot
<1>13. CASE WriteSeed(w) \/ WriteSnapshot(w)
  BY <1>12, <1>13 DEF WriteSeed, WriteSnapshot
<1>14. QED
  BY <1>4, <1>7, <1>8, <1>9, <1>10, <1>11, <1>13 DEF Move, Step

\* A crash leaves the requests of the other processes alone and ends its own.
LEMMA CrashEnds ==
  ASSUME TypeInv, NEW p \in Process, Crash(p), NEW x \in Writer
  PROVE  pc'[x] = "idle" \/ (pc'[x] = pc[x] /\ job'[x] = job[x])
  BY DEF Crash

\* Nobody touches a request in the middle of a mutation but its own process.
LEMMA PersonAlone ==
  ASSUME Person
  PROVE  /\ UNCHANGED <<audit, torn, config, permits, pc, job, applied>>
         /\ \/ UNCHANGED history
            \/ UNCHANGED current
  BY DEF Person, HandEdit, HandDrop, RemoveOrphan, RestoreLatest

\* Every step is a move of one request, a crash, a person's, or a stutter.
LEMMA StepKinds ==
  ASSUME [Next]_vars
  PROVE  \/ \E w \in Writer : Move(w)
         \/ \E p \in Process : Crash(p)
         \/ Person
         \/ UNCHANGED vars
  BY DEF Next, Fault, Move

\* A move writes nothing that the invariants below speak of and leaves the
\* mutation, or it is one of the steps they turn on.
LEMMA MoveKinds ==
  ASSUME TypeInv, NEW w \in Writer, Move(w)
  PROVE  \/ ~Engaged(w)' /\ UNCHANGED <<current, history, applied>>
         \/ WriteCurrent(w) /\ ~Engaged(w)'
         \/ ReadCurrent(w)
         \/ Admit(w)
         \/ \E found \in {Recorded(LocaleOf(w), job[w].seen.version), {}} : Plan(w, found)
         \/ WriteSeed(w) /\ Recorded(job[w].seed.locale, job[w].seed.version) = {}
         \/ AuditSeed(w)
         \/ WriteSnapshot(w) /\ Recorded(LocaleOf(w), job[w].next.version) = {}
         \/ AuditChange(w)
<1> DEFINE Away == ~Engaged(w)' /\ UNCHANGED <<current, history, applied>>
<1>1. pc \in [Writer -> {"idle", "waiting"} \union InGate]
  BY DEF TypeInv, TypeOK
<1>2. Leave(w) => ~Engaged(w)'
  BY <1>1 DEF Leave, Goto, Engaged, MutationStep
<1>3. CASE Client(w) \/ Enter(w)
  <2>1. \E step \in {"idle", "waiting", "read", "validate"} : Goto(w, step)
    BY <1>3 DEF Client, Enter, Submit, Cancel
  <2>2. ~Engaged(w)'
    BY <1>1, <2>1 DEF Goto, Engaged, MutationStep
  <2>3. UNCHANGED <<current, history, applied>>
    BY <1>3 DEF Client, Enter, Submit, Cancel, disk
  <2>4. QED
    BY <2>2, <2>3
<1>4. CASE RefuseUnknown(w) \/ RefuseStale(w) \/ AuditConfig(w) \/ AuditBusy(w)
           \/ DiskFault(w) \/ TearAppend(w)
  <2>1. Leave(w) /\ UNCHANGED <<current, history, applied>>
    BY <1>4 DEF RefuseUnknown, RefuseStale, AuditConfig, AuditBusy, DiskFault, TearAppend, disk
  <2>2. QED
    BY <1>2, <2>1
<1>5. ASSUME NEW found, RefuseChange(w, found)
      PROVE  Away
  BY <1>2, <1>5 DEF RefuseChange, disk
<1>6. CASE ReconcileAndApply(w) \/ ReconcileUnreadable(w)
  BY <1>5, <1>6 DEF ReconcileAndApply, ReconcileUnreadable
<1>7. CASE ValidateConfig(w) \/ WriteConfig(w)
  <2>1. Leave(w) \/ Goto(w, "config") \/ Goto(w, "configAudit")
    BY <1>7 DEF ValidateConfig, WriteConfig
  <2>2. ~Engaged(w)'
    BY <1>1, <1>2, <2>1 DEF Goto, Engaged, MutationStep
  <2>3. UNCHANGED <<current, history, applied>>
    BY <1>7 DEF ValidateConfig, WriteConfig, disk
  <2>4. QED
    BY <2>2, <2>3
<1>8. ASSUME NEW s, NEW step, CreateSnapshot(w, s, step), UNCHANGED <<current, applied>>
      PROVE  Away \/ Recorded(s.locale, s.version) = {}
  BY <1>2, <1>8 DEF CreateSnapshot
<1>9. CASE WriteSeed(w)
  <2>1. CreateSnapshot(w, job[w].seed, "seedAudit") /\ UNCHANGED <<current, applied>>
    BY <1>9 DEF WriteSeed
  <2>2. QED
    BY <1>8, <1>9, <2>1
<1>10. CASE WriteSnapshot(w)
  <2>1. CreateSnapshot(w, NextSnapshot(w), "audit") /\ UNCHANGED <<current, applied>>
    BY <1>10 DEF WriteSnapshot
  <2>2. /\ NextSnapshot(w).locale = LocaleOf(w)
        /\ NextSnapshot(w).version = job[w].next.version
    BY DEF NextSnapshot
  <2>3. Away \/ Recorded(NextSnapshot(w).locale, NextSnapshot(w).version) = {}
    BY <1>8, <2>1
  <2>4. QED
    BY <1>10, <2>2, <2>3
<1>11. CASE WriteCurrent(w)
  BY <1>2, <1>11 DEF WriteCurrent
<1>12. QED
  BY <1>3, <1>4, <1>6, <1>7, <1>9, <1>10, <1>11 DEF Move, Step

-----------------------------------------------------------------------------
(* The audit log.                                                          *)

LEMMA AppendKeeps ==
  ASSUME TypeInv, NEW line \in Line, Append1(line)
  PROVE  /\ \A l, v, action : Audited(l, v, action) => Audited(l, v, action)'
         /\ Audited(line.locale, line.version, line.action)'
<1> DEFINE written == [line EXCEPT !.text = IF torn THEN "garbled" ELSE "whole"]
<1>1. /\ written \in Line /\ written.locale = line.locale
      /\ written.version = line.version /\ written.action = line.action
  BY DEF Line
<1>2. audit \in Seq(Line) /\ audit' = Append(audit, written)
  BY DEF TypeInv, TypeOK, Append1
<1> HIDE DEF written
<1>3. /\ DOMAIN audit' = 1 .. Len(audit) + 1
      /\ \A i \in DOMAIN audit : i \in DOMAIN audit' /\ audit'[i] = audit[i]
      /\ audit'[Len(audit) + 1] = written
      /\ Len(audit) + 1 \in DOMAIN audit'
  BY <1>1, <1>2
<1>4. \A l, v, action : Audited(l, v, action) => Audited(l, v, action)'
  BY <1>3 DEF Audited
<1>5. Audited(line.locale, line.version, line.action)'
  BY <1>1, <1>3 DEF Audited
<1>6. QED
  BY <1>4, <1>5

\* Lines are only ever appended.
LEMMA AuditGrows ==
  ASSUME TypeInv, [Next]_vars
  PROVE  \A l, v, action : Audited(l, v, action) => Audited(l, v, action)'
<1>1. UNCHANGED audit => \A l, v, action : Audited(l, v, action) => Audited(l, v, action)'
  BY DEF Audited
<1>2. ASSUME NEW w \in Writer, Move(w)
      PROVE  UNCHANGED audit \/ \E line \in Line : Append1(line)
  <2>1. CASE AuditSeed(w)
    BY <2>1, SeedLineType DEF AuditSeed
  <2>2. CASE AuditChange(w)
    BY <2>2, ChangeLineType DEF AuditChange
  <2>3. CASE AuditConfig(w)
    BY <2>3, ConfigLineType DEF AuditConfig
  <2>4. CASE Client(w) \/ Enter(w) \/ RefuseUnknown(w) \/ ReadCurrent(w) \/ RefuseStale(w)
             \/ Admit(w)
    BY <2>4 DEF Client, Submit, Cancel, Enter, RefuseUnknown, ReadCurrent, RefuseStale, Admit,
                disk
  <2>5. CASE ReconcileAndApply(w) \/ ReconcileUnreadable(w)
    BY <2>5 DEF ReconcileAndApply, ReconcileUnreadable, Plan, RefuseChange, disk
  <2>6. CASE WriteSeed(w) \/ WriteSnapshot(w) \/ WriteCurrent(w) \/ ValidateConfig(w)
             \/ WriteConfig(w) \/ AuditBusy(w) \/ DiskFault(w) \/ TearAppend(w)
    BY <2>6 DEF WriteSeed, WriteSnapshot, WriteCurrent, ValidateConfig, WriteConfig, AuditBusy,
                DiskFault, TearAppend, disk
  <2>7. QED
    BY <1>2, <2>1, <2>2, <2>3, <2>4, <2>5, <2>6 DEF Move, Step
<1>3. ASSUME NEW p \in Process, Crash(p)
      PROVE  UNCHANGED audit
  BY <1>3 DEF Crash, disk
<1>4. Person => UNCHANGED audit
  BY PersonAlone
<1>5. UNCHANGED vars => UNCHANGED audit
  BY DEF vars, disk
<1>6. UNCHANGED audit \/ \E line \in Line : Append1(line)
  BY <1>2, <1>3, <1>4, <1>5, StepKinds
<1>7. QED
  BY <1>1, <1>6, AppendKeeps

\* Only WriteCurrent makes a version live.
LEMMA AppliedGrows ==
  ASSUME TypeInv, [Next]_vars
  PROVE  UNCHANGED applied \/ \E w \in Writer : WriteCurrent(w)
<1>1. ASSUME NEW w \in Writer, Move(w)
      PROVE  UNCHANGED applied \/ WriteCurrent(w)
  BY <1>1, MoveKinds DEF ReadCurrent, Admit, Plan, WriteSeed, AuditSeed, WriteSnapshot,
                         AuditChange
<1>2. ASSUME NEW p \in Process, Crash(p)
      PROVE  UNCHANGED applied
  BY <1>2 DEF Crash
<1>3. QED
  BY <1>1, <1>2, PersonAlone, StepKinds DEF vars

LEMMA InitAudit == Init => AuditInv
  BY DEF Init, AuditInv, ChangeAudited, AppliedIsAudited

LEMMA AuditPreserved == TypeInv /\ AuditInv /\ [Next]_vars => AuditInv'
<1> SUFFICES ASSUME TypeInv, AuditInv, [Next]_vars PROVE AuditInv'
  OBVIOUS
<1>1. \A l, v, action : Audited(l, v, action) => Audited(l, v, action)'
  BY AuditGrows
<1>2. ASSUME NEW x \in Writer, pc'[x] = pc[x], job'[x] = job[x]
      PROVE  ChangeAudited(x)'
  <2>1. ChangeAudited(x)
    BY DEF AuditInv
  <2>2. QED
    BY <1>1, <1>2, <2>1 DEF ChangeAudited, LocaleOf
<1>3. ASSUME NEW x \in Writer, Move(x)
      PROVE  ChangeAudited(x)'
  <2>1. pc \in [Writer -> {"idle", "waiting"} \union InGate] /\ job \in [Writer -> Job]
    BY DEF TypeInv, TypeOK
  <2>2. CASE AuditChange(x)
    <3> DEFINE line == VersionLine(LocaleOf(x), job[x].next.version, job[x].request.change.op)
    <3>1. line \in Line /\ Append1(line) /\ UNCHANGED job
      BY <2>2, ChangeLineType DEF AuditChange
    <3>2. /\ line.locale = LocaleOf(x) /\ line.version = job[x].next.version
          /\ line.action = job[x].request.change.op
      BY DEF VersionLine
    <3> HIDE DEF line
    <3>3. Audited(LocaleOf(x), job[x].next.version, job[x].request.change.op)'
      BY <3>1, <3>2, AppendKeeps DEF LocaleOf
    <3>4. QED
      BY <3>3 DEF ChangeAudited
  <2>3. CASE ~Engaged(x)'
    BY <2>3 DEF Engaged, ChangeAudited, MutationStep
  <2>4. CASE ReadCurrent(x) \/ Admit(x) \/ AuditSeed(x)
    BY <2>1, <2>4 DEF ReadCurrent, Admit, AuditSeed, Goto, ChangeAudited
  <2>5. ASSUME NEW found, Plan(x, found)
        PROVE  pc'[x] # "current"
    BY <2>1, <2>5 DEF Plan, Goto
  <2>6. ASSUME NEW s, NEW step \in {"seedAudit", "audit"}, CreateSnapshot(x, s, step)
        PROVE  pc'[x] # "current"
    BY <2>1, <2>6 DEF CreateSnapshot, Leave, Goto
  <2>7. CASE WriteSeed(x) \/ WriteSnapshot(x)
    BY <2>6, <2>7 DEF WriteSeed, WriteSnapshot, ChangeAudited
  <2>8. QED
    BY <1>3, <2>2, <2>3, <2>4, <2>5, <2>7, MoveKinds DEF ChangeAudited
<1>4. ASSUME NEW x \in Writer
      PROVE  ChangeAudited(x)'
  <2>1. CASE \E w \in Writer : Move(w)
    BY <1>2, <1>3, <2>1, MovesAlone
  <2>2. CASE \E p \in Process : Crash(p)
    BY <1>2, <2>2, CrashEnds DEF ChangeAudited
  <2>3. CASE Person \/ UNCHANGED vars
    BY <1>2, <2>3, PersonAlone DEF vars
  <2>4. QED
    BY <2>1, <2>2, <2>3, StepKinds
<1>5. ASSUME NEW a \in applied'
      PROVE  Audited(a.locale, a.after.version, a.change.op)'
  <2>1. CASE a \in applied
    BY <1>1, <2>1 DEF AuditInv, AppliedIsAudited
  <2>2. CASE a \notin applied
    <3>1. PICK w \in Writer : WriteCurrent(w)
      BY <2>2, AppliedGrows
    <3>2. /\ a.locale = LocaleOf(w) /\ a.after = job[w].next
          /\ a.change = job[w].request.change
      BY <2>2, <3>1 DEF WriteCurrent
    <3>3. Audited(LocaleOf(w), job[w].next.version, job[w].request.change.op)
      BY <3>1 DEF AuditInv, ChangeAudited, WriteCurrent
    <3>4. QED
      BY <1>1, <3>2, <3>3
  <2>3. QED
    BY <2>1, <2>2
<1>6. AppliedIsAudited'
  BY <1>5 DEF AppliedIsAudited, Audited
<1>7. QED
  BY <1>4, <1>6 DEF AuditInv

\* No version goes live without its audit line (L206-208), whatever crashes,
\* fails or is torn, and whoever else writes to the folder.
THEOREM LiveVersionsAreAudited == Spec => []AppliedIsAudited
<1>1. AuditInv => AppliedIsAudited
  BY DEF AuditInv
<1>2. QED
  BY <1>1, TypeInvariant, InitAudit, AuditPreserved, PTL DEF Spec

-----------------------------------------------------------------------------
(* The plan of a write.                                                    *)

LEMMA PlanOutcome ==
  ASSUME TypeInv, NEW w \in Writer, NEW found, Plan(w, found)
  PROVE  /\ pc[w] = "reconcile"
         /\ pc'[w] = IF job'[w].seed = NoSeed THEN "snapshot" ELSE "seed"
         /\ job'[w].request = job[w].request
         /\ job'[w].seen = job[w].seen
         /\ job'[w].seed = SeedFor(LocaleOf(w), found, job[w].seen)
         /\ job'[w].next =
              Minted(LocaleOf(w), job[w].request.change, Basis(found, job[w].seen))
         /\ Accepts(LocaleOf(w), job[w].request.change, Basis(found, job[w].seen))
<1> DEFINE seed == SeedFor(LocaleOf(w), found, job[w].seen)
           next == Minted(LocaleOf(w), job[w].request.change, Basis(found, job[w].seen))
<1>1. pc \in [Writer -> {"idle", "waiting"} \union InGate] /\ job \in [Writer -> Job]
  BY DEF TypeInv, TypeOK
<1>2. /\ pc[w] = "reconcile"
      /\ Accepts(LocaleOf(w), job[w].request.change, Basis(found, job[w].seen))
      /\ job' = [job EXCEPT ![w].seed = seed, ![w].next = next]
      /\ pc' = [pc EXCEPT ![w] = IF seed = NoSeed THEN "snapshot" ELSE "seed"]
  BY DEF Plan, Goto
<1> HIDE DEF seed, next
<1>3. job'[w] = [job[w] EXCEPT !.seed = seed, !.next = next]
  BY <1>1, <1>2
<1>4. /\ job'[w].request = job[w].request /\ job'[w].seen = job[w].seen
      /\ job'[w].seed = seed /\ job'[w].next = next
  BY <1>1, <1>3 DEF Job
<1>5. pc'[w] = IF job'[w].seed = NoSeed THEN "snapshot" ELSE "seed"
  BY <1>1, <1>2, <1>4
<1>6. QED
  BY <1>2, <1>4, <1>5 DEF seed, next

LEMMA ResultIsPromised ==
  ASSUME TypeInv, NEW l \in Locale, NEW change \in Change, NEW basis \in Catalog,
         Accepts(l, change, basis)
  PROVE  Result(l, change, basis) \in Atomic!Results(change, basis.entries)
<1>1. CASE change.op = "set"
  BY <1>1 DEF Result, Atomic!Results
<1>2. CASE change.op = "delete"
  BY <1>2 DEF Result, Atomic!Results
<1>3. CASE change.op = "rollback"
  <2>1. Recorded(l, change.to) # {} /\ Recorded(l, change.to) \subseteq Snapshot
    BY <1>3 DEF Accepts, Recorded, TypeInv, TypeOK
  <2>2. (CHOOSE s \in Recorded(l, change.to) : TRUE).entries \in Entries
    BY <2>1 DEF Snapshot
  <2>3. QED
    BY <1>3, <2>2 DEF Result, Atomic!Results, Entries, Atomic!Entries
<1>4. QED
  BY <1>1, <1>2, <1>3 DEF Change

\* What Reconcile and the change compute from the file that was read.
LEMMA PlanFollows ==
  ASSUME TypeInv, PlanOK, NEW w \in Writer, NEW found \in SUBSET Snapshot, Plan(w, found)
  PROVE  PlanAt(pc'[w], job'[w])
<1> DEFINE l == LocaleOf(w)
           change == job[w].request.change
           seen == job[w].seen
           basis == Basis(found, seen)
           j == job'[w]
<1>1. /\ pc[w] = "reconcile"
      /\ j.request = job[w].request /\ j.seen = seen
      /\ j.seed = SeedFor(l, found, seen)
      /\ j.next = Minted(l, change, basis)
      /\ Accepts(l, change, basis)
  BY PlanOutcome
<1>2. l \in Locale /\ change \in Change /\ seen \in Catalog
  BY <1>1, MutationTypes DEF MutationStep
<1>3. /\ basis.version \in {seen.version, seen.version + 1}
      /\ basis.entries = seen.entries
      /\ ~Edited(found, seen) => basis.version = seen.version
      /\ basis \in Catalog
  BY <1>2 DEF Basis, Catalog, Version
<1>4. j.next.version = basis.version + 1 /\ j.next.entries = Result(l, change, basis)
  BY <1>1 DEF Minted
<1>5. j.seed # NoSeed => j.seed.version = basis.version /\ j.seed.entries = seen.entries
  BY <1>1 DEF SeedFor
<1>6. j.seed = NoSeed => basis.version = seen.version
  <2>1. l \in Locale /\ basis.version \in Version /\ seen.entries \in Entries
    BY <1>2, <1>3 DEF Catalog
  <2>2. [locale |-> l, version |-> basis.version,
         entries |-> seen.entries, action |-> "create"] \in Snapshot
    BY <2>1 DEF Snapshot, Action
  <2>3. j.seed = NoSeed => ~Edited(found, seen)
    BY <1>1, <2>2, SentinelAssumption DEF SeedFor
  <2>4. QED
    BY <1>3, <2>3
<1>7. j.next.entries \in Atomic!Results(j.request.change, j.seen.entries)
  BY <1>1, <1>2, <1>3, <1>4, ResultIsPromised
<1>8. j.request.ifMatch \in {AnyVersion, j.seen.version}
  BY <1>1 DEF PlanOK, PlanAt
<1>9. QED
  <2>1. j.seed = NoSeed => j.next.version = j.seen.version + 1
    BY <1>1, <1>4, <1>6
  <2>2. j.seed # NoSeed =>
          /\ j.seed.version \in {j.seen.version, j.seen.version + 1}
          /\ j.seed.entries = j.seen.entries
          /\ j.next.version = j.seed.version + 1
    BY <1>1, <1>3, <1>4, <1>5
  <2> HIDE DEF j
  <2>3. PlanAt(pc'[w], j)
    BY <1>7, <1>8, <2>1, <2>2 DEF PlanAt
  <2>4. QED
    BY <2>3 DEF j

\* w goes on with what it has.
LEMMA Proceeds ==
  ASSUME TypeInv, NEW w \in Writer
  PROVE  /\ Admit(w) =>
              pc[w] = "check" /\ pc'[w] = "reconcile" /\ job' = job
              /\ UNCHANGED <<current, history, applied>>
         /\ WriteSeed(w) /\ Recorded(job[w].seed.locale, job[w].seed.version) = {} =>
              pc[w] = "seed" /\ pc'[w] = "seedAudit" /\ job' = job
              /\ history' = history \union {job[w].seed} /\ UNCHANGED <<current, applied>>
         /\ AuditSeed(w) =>
              pc[w] = "seedAudit" /\ pc'[w] = "snapshot" /\ job' = job
              /\ UNCHANGED <<current, history, applied>>
         /\ WriteSnapshot(w) /\ Recorded(LocaleOf(w), job[w].next.version) = {} =>
              pc[w] = "snapshot" /\ pc'[w] = "audit" /\ job' = job
              /\ history' = history \union {NextSnapshot(w)} /\ UNCHANGED <<current, applied>>
         /\ AuditChange(w) =>
              pc[w] = "audit" /\ pc'[w] = "current" /\ job' = job
              /\ UNCHANGED <<current, history, applied>>
<1>1. pc \in [Writer -> {"idle", "waiting"} \union InGate]
  BY DEF TypeInv, TypeOK
<1>2. NextSnapshot(w).locale = LocaleOf(w) /\ NextSnapshot(w).version = job[w].next.version
  BY DEF NextSnapshot
<1>3. QED
  BY <1>1, <1>2 DEF Admit, WriteSeed, AuditSeed, WriteSnapshot, AuditChange, CreateSnapshot,
                    Goto, disk

LEMMA PlanPreserved == TypeInv /\ PlanOK /\ [Next]_vars => PlanOK'
<1> SUFFICES ASSUME TypeInv, PlanOK, [Next]_vars, NEW x \in Writer
             PROVE  PlanAt(pc'[x], job'[x])
  BY DEF PlanOK, PlanAt
<1>1. PlanAt(pc[x], job[x])
  BY DEF PlanOK
<1>2. CASE Move(x)
  <2>1. CASE ~Engaged(x)'
    BY <2>1 DEF Engaged, PlanAt, MutationStep, AfterPlan
  <2>2. CASE ReadCurrent(x)
    <3>1. pc'[x] = "check"
      BY <2>2 DEF ReadCurrent, Goto, TypeInv, TypeOK
    <3>2. QED
      BY <3>1 DEF PlanAt, AfterPlan
  <2>3. CASE Admit(x)
    <3>1. pc'[x] = "reconcile" /\ job' = job
      BY <2>3, Proceeds
    <3>2. job[x].request.ifMatch \in {AnyVersion, job[x].seen.version}
      BY <2>3 DEF Admit, Admissible
    <3>3. QED
      BY <3>1, <3>2 DEF PlanAt, AfterPlan
  <2>4. ASSUME NEW found \in {Recorded(LocaleOf(x), job[x].seen.version), {}}, Plan(x, found)
        PROVE  PlanAt(pc'[x], job'[x])
    <3>1. found \in SUBSET Snapshot
      BY DEF Recorded, TypeInv, TypeOK
    <3>2. QED
      BY <2>4, <3>1, PlanFollows
  <2>5. CASE pc[x] \in AfterPlan /\ pc'[x] \in AfterPlan /\ job' = job
    BY <1>1, <2>5 DEF PlanAt
  <2>6. QED
    BY <1>2, <2>1, <2>2, <2>3, <2>4, <2>5, MoveKinds, Proceeds DEF AfterPlan
<1>3. CASE pc'[x] = pc[x] /\ job'[x] = job[x]
  BY <1>1, <1>3
<1>4. CASE pc'[x] = "idle"
  BY <1>4 DEF PlanAt, AfterPlan
<1>5. QED
  BY <1>2, <1>3, <1>4, MovesAlone, CrashEnds, PersonAlone, StepKinds DEF vars

-----------------------------------------------------------------------------
(* History.                                                                *)

\* No snapshot is lost, and no version that has one gets a second.
Kept ==
  /\ history \subseteq history'
  /\ \A l, v : Recorded(l, v) # {} => Recorded(l, v)' = Recorded(l, v)

LEMMA CreateKeeps ==
  ASSUME NEW s, Recorded(s.locale, s.version) = {}, history' = history \union {s}
  PROVE  Kept /\ Recorded(s.locale, s.version)' = {s}
<1>1. ASSUME NEW l, NEW v, Recorded(l, v) # {}
      PROVE  Recorded(l, v)' = Recorded(l, v)
  <2>1. ~(s.locale = l /\ s.version = v)
    BY <1>1
  <2>2. QED
    BY <2>1 DEF Recorded
<1>2. Recorded(s.locale, s.version)' = {s}
  BY DEF Recorded
<1>3. QED
  BY <1>1, <1>2 DEF Kept

LEMMA SameKeeps ==
  ASSUME UNCHANGED history
  PROVE  Kept
  BY DEF Kept, Recorded

\* History only grows, until somebody removes an orphan.
LEMMA HistorySteps ==
  ASSUME TypeInv, [Next]_vars
  PROVE  Kept \/ \E l \in Locale : \E s \in history : RemoveOrphan(l, s)
<1>1. ASSUME NEW w \in Writer, Move(w)
      PROVE  Kept
  <2>1. NextSnapshot(w).locale = LocaleOf(w) /\ NextSnapshot(w).version = job[w].next.version
    BY DEF NextSnapshot
  <2>2. \/ UNCHANGED history
        \/ \E s \in {job[w].seed, NextSnapshot(w)} :
             Recorded(s.locale, s.version) = {} /\ history' = history \union {s}
    BY <1>1, <2>1, MoveKinds, Proceeds DEF WriteCurrent, ReadCurrent, Plan, disk
  <2>3. QED
    BY <2>2, CreateKeeps, SameKeeps
<1>2. ASSUME NEW p \in Process, Crash(p)
      PROVE  Kept
  BY <1>2, SameKeeps DEF Crash, disk
<1>3. Person => UNCHANGED history \/ \E l \in Locale : \E s \in history : RemoveOrphan(l, s)
  BY DEF Person, HandEdit, HandDrop, RestoreLatest
<1>4. UNCHANGED vars => Kept
  BY SameKeeps DEF vars, disk
<1>5. QED
  BY <1>1, <1>2, <1>3, <1>4, StepKinds, SameKeeps

\* A request that does not move keeps what it has written.
LEMMA WrittenKept ==
  ASSUME Kept, NEW x \in Writer, WrittenAt(x), pc'[x] = pc[x], job'[x] = job[x]
  PROVE  WrittenAt(x)'
<1>1. LocaleOf(x)' = LocaleOf(x) /\ NextSnapshot(x)' = NextSnapshot(x)
  BY DEF LocaleOf, NextSnapshot
<1>2. pc[x] = "seedAudit" => job[x].seed \in history'
  BY DEF Kept, WrittenAt
<1>3. BaseRecorded(x) => BaseRecorded(x)'
  <2>1. BaseRecorded(x) => Recorded(LocaleOf(x), job[x].next.version - 1) # {}
    BY DEF BaseRecorded
  <2>2. QED
    BY <1>1, <2>1 DEF Kept, BaseRecorded
<1>4. \A l, v : Recorded(l, v) = {NextSnapshot(x)} => Recorded(l, v)' = {NextSnapshot(x)}
  BY DEF Kept
<1>5. PICK l, v : l = LocaleOf(x) /\ v = job[x].next.version
  OBVIOUS
<1>6. Recorded(l, v)' = Recorded(LocaleOf(x), job[x].next.version)'
  BY <1>1, <1>5
<1>7. QED
  BY <1>1, <1>2, <1>3, <1>4, <1>5, <1>6 DEF WrittenAt

\* What a move puts on disk is what its next step needs there.
LEMMA WrittenMoves ==
  ASSUME TypeInv, PlanOK, NEW w \in Writer, WrittenAt(w), Move(w)
  PROVE  WrittenAt(w)'
<1>1. PlanAt(pc[w], job[w])
  BY DEF PlanOK
<1>2. CASE ~Engaged(w)'
  BY <1>2 DEF Engaged, WrittenAt, MutationStep
<1>3. CASE ReadCurrent(w)
  <2>1. pc'[w] = "check"
    BY <1>3 DEF ReadCurrent, Goto, TypeInv, TypeOK
  <2>2. QED
    BY <2>1 DEF WrittenAt
<1>4. CASE Admit(w)
  <2>1. pc'[w] = "reconcile"
    BY <1>4, Proceeds
  <2>2. QED
    BY <2>1 DEF WrittenAt
<1>5. ASSUME NEW found \in {Recorded(LocaleOf(w), job[w].seen.version), {}}, Plan(w, found)
      PROVE  WrittenAt(w)'
  <2> DEFINE l == LocaleOf(w)
             seen == job[w].seen
  <2>1. /\ pc'[w] = IF job'[w].seed = NoSeed THEN "snapshot" ELSE "seed"
        /\ job'[w].request = job[w].request
        /\ job'[w].seen = seen
        /\ job'[w].seed = SeedFor(l, found, seen)
        /\ pc[w] = "reconcile"
    BY <1>5, PlanOutcome
  <2>2. CASE job'[w].seed # NoSeed
    BY <2>1, <2>2 DEF WrittenAt
  <2>3. CASE job'[w].seed = NoSeed
    <3>1. found # {} /\ ~Edited(found, seen)
      <4>1. l \in Locale /\ seen \in Catalog
        BY <2>1, MutationTypes DEF MutationStep
      <4>2. Basis(found, seen).version \in Version /\ seen.entries \in Entries
        BY <4>1 DEF Basis, Catalog, Version
      <4>3. [locale |-> l, version |-> Basis(found, seen).version,
             entries |-> seen.entries, action |-> "create"] \in Snapshot
        BY <4>1, <4>2 DEF Snapshot, Action
      <4>4. QED
        BY <2>1, <2>3, <4>3, SentinelAssumption DEF SeedFor
    <3>2. PICK s \in Recorded(l, seen.version) : s.entries = seen.entries
      BY <3>1 DEF Edited
    <3>3. job'[w].next.version - 1 = seen.version
      <4>1. PlanAt(pc'[w], job'[w])
        <5>1. found \in SUBSET Snapshot
          BY DEF Recorded, TypeInv, TypeOK
        <5>2. QED
          BY <1>5, <5>1, PlanFollows
      <4>2. job'[w].next.version = seen.version + 1
        BY <2>1, <2>3, <4>1 DEF PlanAt, AfterPlan
      <4>3. seen \in Catalog
        BY <2>1, MutationTypes DEF MutationStep
      <4>4. QED
        BY <4>2, <4>3 DEF Catalog, Version
    <3>4. UNCHANGED history
      BY <1>5 DEF Plan, disk
    <3>5. BaseRecorded(w)'
      BY <2>1, <3>2, <3>3, <3>4 DEF BaseRecorded, Recorded, LocaleOf
    <3>6. QED
      BY <2>1, <2>3, <3>5 DEF WrittenAt
  <2>4. QED
    BY <2>2, <2>3
<1>6. CASE WriteSeed(w) /\ Recorded(job[w].seed.locale, job[w].seed.version) = {}
  <2>1. pc'[w] = "seedAudit" /\ job' = job /\ history' = history \union {job[w].seed}
    BY <1>6, Proceeds
  <2>2. QED
    BY <2>1 DEF WrittenAt
<1>7. CASE AuditSeed(w)
  <2>1. pc[w] = "seedAudit" /\ pc'[w] = "snapshot" /\ job' = job /\ history' = history
    BY <1>7, Proceeds
  <2>2. job[w].seed \in history /\ job[w].seed # NoSeed /\ job[w].seed.locale = LocaleOf(w)
    BY <2>1, MutationTypes, JobTypes DEF WrittenAt, MutationStep, JobAt
  <2>3. /\ job[w].seed.version = job[w].next.version - 1
        /\ job[w].seed.entries = job[w].seen.entries
    <3>1. /\ job[w].next.version = job[w].seed.version + 1
          /\ job[w].seed.entries = job[w].seen.entries
      BY <1>1, <2>1, <2>2 DEF PlanAt, AfterPlan
    <3>2. job[w].seed.version \in Nat
      BY <2>1, MutationTypes DEF MutationStep, Snapshot, Version
    <3>3. QED
      BY <3>1, <3>2
  <2>4. BaseRecorded(w)'
    BY <2>1, <2>2, <2>3 DEF BaseRecorded, Recorded, LocaleOf
  <2>5. QED
    BY <2>1, <2>4 DEF WrittenAt
<1>8. CASE WriteSnapshot(w) /\ Recorded(LocaleOf(w), job[w].next.version) = {}
  <2>1. /\ pc[w] = "snapshot" /\ pc'[w] = "audit" /\ job' = job
        /\ history' = history \union {NextSnapshot(w)}
    BY <1>8, Proceeds
  <2>2. NextSnapshot(w).locale = LocaleOf(w) /\ NextSnapshot(w).version = job[w].next.version
    BY DEF NextSnapshot
  <2>3. PICK l, v : l = LocaleOf(w) /\ v = job[w].next.version
    OBVIOUS
  <2>4. Kept /\ Recorded(l, v)' = {NextSnapshot(w)}
    BY <1>8, <2>1, <2>2, <2>3, CreateKeeps
  <2>5. LocaleOf(w)' = LocaleOf(w) /\ NextSnapshot(w)' = NextSnapshot(w)
    BY <2>1 DEF LocaleOf, NextSnapshot
  <2>6. Recorded(LocaleOf(w), job[w].next.version)' = {NextSnapshot(w)'}
    BY <2>1, <2>3, <2>4, <2>5
  <2>7. PICK s \in Recorded(l, v - 1) : s.entries = job[w].seen.entries
    BY <2>1, <2>3 DEF WrittenAt, BaseRecorded
  <2>8. s \in Recorded(l, v - 1)'
    BY <2>4, <2>7 DEF Kept, Recorded
  <2>9. BaseRecorded(w)'
    BY <2>1, <2>3, <2>5, <2>7, <2>8 DEF BaseRecorded
  <2>10. QED
    BY <2>1, <2>6, <2>9 DEF WrittenAt
<1>9. CASE AuditChange(w)
  <2>1. pc[w] = "audit" /\ pc'[w] = "current" /\ job' = job /\ history' = history
    BY <1>9, Proceeds
  <2>2. QED
    BY <2>1 DEF WrittenAt, BaseRecorded, Recorded, LocaleOf, NextSnapshot
<1>10. QED
  BY <1>2, <1>3, <1>4, <1>5, <1>6, <1>7, <1>8, <1>9, MoveKinds

\* An orphan is removed only while nobody works on its locale.
LEMMA OrphanWritten ==
  ASSUME TypeInv, WrittenSoFar, NEW l \in Locale, NEW s \in history, RemoveOrphan(l, s),
         NEW x \in Writer
  PROVE  WrittenAt(x)'
<1>1. /\ AtRest(l) /\ s.locale = l /\ history' = history \ {s}
      /\ pc' = pc /\ job' = job
  BY DEF RemoveOrphan, Latest
<1>2. CASE Engaged(x)
  <2>1. LocaleOf(x) # l
    BY <1>1, <1>2 DEF AtRest, Engaged
  <2>2. \A v : Recorded(LocaleOf(x), v)' = Recorded(LocaleOf(x), v)
    BY <1>1, <2>1 DEF Recorded, LocaleOf
  <2>3. pc[x] = "seedAudit" => job[x].seed.locale = LocaleOf(x)
    BY MutationTypes DEF MutationStep
  <2>4. WrittenAt(x)
    BY DEF WrittenSoFar
  <2>5. LocaleOf(x)' = LocaleOf(x) /\ NextSnapshot(x)' = NextSnapshot(x)
    BY <1>1 DEF LocaleOf, NextSnapshot
  <2>6. pc[x] = "seedAudit" => job[x].seed \in history'
    BY <1>1, <2>1, <2>3, <2>4 DEF WrittenAt
  <2>7. BaseRecorded(x) => BaseRecorded(x)'
    BY <1>1, <2>1 DEF BaseRecorded, Recorded, LocaleOf
  <2>8. Recorded(LocaleOf(x), job[x].next.version)' = Recorded(LocaleOf(x), job[x].next.version)
    BY <1>1, <2>1 DEF Recorded, LocaleOf
  <2>9. QED
    BY <1>1, <2>4, <2>5, <2>6, <2>7, <2>8 DEF WrittenAt
<1>3. CASE ~Engaged(x)
  BY <1>1, <1>3 DEF WrittenAt, Engaged, MutationStep
<1>4. QED
  BY <1>2, <1>3

LEMMA WrittenPreserved == TypeInv /\ PlanOK /\ WrittenSoFar /\ [Next]_vars => WrittenSoFar'
<1> SUFFICES ASSUME TypeInv, PlanOK, WrittenSoFar, [Next]_vars, NEW x \in Writer
             PROVE  WrittenAt(x)'
  BY DEF WrittenSoFar
<1>1. WrittenAt(x)
  BY DEF WrittenSoFar
<1>2. CASE Move(x)
  BY <1>1, <1>2, WrittenMoves
<1>3. CASE pc'[x] = "idle"
  BY <1>3 DEF WrittenAt
<1>4. CASE \E l \in Locale : \E s \in history : RemoveOrphan(l, s)
  BY <1>4, OrphanWritten
<1>5. CASE Kept /\ pc'[x] = pc[x] /\ job'[x] = job[x]
  BY <1>1, <1>5, WrittenKept
<1>6. QED
  BY <1>2, <1>3, <1>4, <1>5, HistorySteps, MovesAlone, CrashEnds, PersonAlone, StepKinds DEF vars

\* What AppliedIsRecorded says of one live version.
RecordedAt(a) ==
  /\ Recorded(a.locale, a.after.version) =
       {[locale |-> a.locale, version |-> a.after.version,
         entries |-> a.after.entries, action |-> a.change.op]}
  /\ \E s \in Recorded(a.locale, a.after.version - 1) : s.entries = a.before.entries

LEMMA AppliedPreserved ==
  TypeInv /\ WrittenSoFar /\ AppliedIsRecorded /\ [Next]_vars => AppliedIsRecorded'
<1> SUFFICES ASSUME TypeInv, WrittenSoFar, AppliedIsRecorded, [Next]_vars, NEW a \in applied'
             PROVE  RecordedAt(a)'
  BY DEF AppliedIsRecorded, RecordedAt, Recorded
<1>1. CASE a \in applied /\ Kept
  <2>1. RecordedAt(a)
    BY <1>1 DEF AppliedIsRecorded, RecordedAt
  <2>2. QED
    BY <1>1, <2>1 DEF RecordedAt, Kept
<1>2. ASSUME NEW l \in Locale, NEW s \in history, RemoveOrphan(l, s), a \in applied
      PROVE  RecordedAt(a)'
  <2>1. /\ Latest(l, s) /\ ~WentLive(s) /\ history' = history \ {s}
    BY <1>2 DEF RemoveOrphan
  <2>2. RecordedAt(a)
    BY <1>2 DEF AppliedIsRecorded, RecordedAt
  <2>3. s.locale = a.locale => s.version # a.after.version /\ s.version # a.after.version - 1
    <3>1. s.locale = a.locale => s.version # a.after.version
      BY <1>2, <2>1 DEF WentLive
    <3>2. PICK t \in history : t.locale = a.locale /\ t.version = a.after.version
      BY <2>2 DEF RecordedAt, Recorded
    <3>3. s.locale = a.locale => a.after.version <= s.version
      BY <2>1, <3>2 DEF Latest
    <3>4. a.after.version \in Nat /\ s.version \in Nat
      BY <1>2, <3>2 DEF TypeInv, TypeOK, Snapshot, Version
    <3>5. QED
      BY <3>1, <3>3, <3>4
  <2>4. \A v : v \in {a.after.version, a.after.version - 1} =>
          Recorded(a.locale, v)' = Recorded(a.locale, v)
    BY <2>1, <2>3 DEF Recorded
  <2>5. QED
    BY <2>2, <2>4 DEF RecordedAt
<1>3. CASE a \notin applied
  <2>1. PICK w \in Writer : WriteCurrent(w)
    BY <1>3, AppliedGrows
  <2>2. /\ a.locale = LocaleOf(w) /\ a.after = job[w].next /\ a.before = job[w].seen
        /\ a.change = job[w].request.change
        /\ history' = history
        /\ pc[w] = "current"
    BY <1>3, <2>1 DEF WriteCurrent
  <2>3. WrittenAt(w)
    BY DEF WrittenSoFar
  <2>4. RecordedAt(a)
    BY <2>2, <2>3 DEF WrittenAt, BaseRecorded, RecordedAt, NextSnapshot
  <2>5. QED
    BY <2>2, <2>4 DEF RecordedAt, Recorded
<1>4. QED
  BY <1>1, <1>2, <1>3, HistorySteps

LEMMA InitRecord == Init => RecordInv
<1> SUFFICES ASSUME Init PROVE RecordInv
  OBVIOUS
<1>1. \A w \in Writer : pc[w] = "idle"
  BY DEF Init
<1>2. PlanOK
  BY <1>1 DEF PlanOK, PlanAt, AfterPlan
<1>3. WrittenSoFar
  BY <1>1 DEF WrittenSoFar, WrittenAt
<1>4. AppliedIsRecorded
  BY DEF Init, AppliedIsRecorded
<1>5. QED
  BY <1>2, <1>3, <1>4 DEF RecordInv

LEMMA RecordPreserved == TypeInv /\ RecordInv /\ [Next]_vars => RecordInv'
  BY PlanPreserved, WrittenPreserved, AppliedPreserved DEF RecordInv

THEOREM RecordInvariant == Spec => []RecordInv
  BY TypeInvariant, InitRecord, RecordPreserved, PTL DEF Spec

\* A live version has exactly one snapshot, the one with its entries, and the
\* catalog it replaced is right below it, whatever crashes between two of the
\* writes of MutateAsync (L200-208), however many processes share the folder,
\* and even if people edit a file while it is being written.
THEOREM LiveVersionsAreRecorded == Spec => []AppliedIsRecorded
<1>1. RecordInv => AppliedIsRecorded
  BY DEF RecordInv
<1>2. QED
  BY <1>1, RecordInvariant, PTL
=============================================================================
