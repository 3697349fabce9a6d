---------------------------- MODULE I18nStoreInv ----------------------------
(***************************************************************************)
(* The inductive invariant behind the safety properties of I18nStore.      *)
(*                                                                         *)
(* Nothing orders two processes but the snapshot files: CreateJson refuses *)
(* to replace one.  A write that read version n must create the snapshot   *)
(* n + 1 (its own, or the seed of a hand-made edit) before it may touch    *)
(* the current file.  Whoever created n + 1 owns the locale until it has   *)
(* written the current file: everybody else who read n collides with the   *)
(* snapshot, and everybody who reads n from now on finds history ahead.    *)
(***************************************************************************)
EXTENDS I18nStore

AfterPlan == {"seed", "seedAudit", "snapshot", "audit", "current"}

\* The local variables of a request hold what its step needs.
JobAt(step, j) ==
  /\ step # "idle" => j.request \in Mutation \union SaveConfig
  /\ step \in MutationStep => j.request \in Mutation
  /\ step \in ConfigStep => j.request \in SaveConfig
  /\ step \in MutationStep \ {"read"} => j.seen \in Catalog
  /\ step \in AfterPlan =>
       /\ j.next \in Catalog
       /\ j.seed # NoSeed => j.seed.locale = j.request.locale
  /\ step \in {"seed", "seedAudit"} => j.seed # NoSeed

JobOK == \A w \in Writer : JobAt(pc[w], job[w])

TypeInv == TypeOK /\ JobOK

\* What was computed follows from what was read.
PlanAt(step, j) ==
  /\ step \in {"reconcile"} \union AfterPlan =>
       j.request.ifMatch \in {AnyVersion, j.seen.version}
  /\ step \in AfterPlan =>
       /\ j.seed = NoSeed => j.next.version = j.seen.version + 1
       /\ j.seed # NoSeed =>
            /\ j.seed.version \in {j.seen.version, j.seen.version + 1}
            /\ j.seed.entries = j.seen.entries
            /\ j.next.version = j.seed.version + 1
       /\ j.next.entries \in Atomic!Results(j.request.change, j.seen.entries)

PlanOK == \A w \in Writer : PlanAt(pc[w], job[w])

\* The version below the one w mints is in history, with what w started from.
BaseRecorded(w) ==
  \E s \in Recorded(LocaleOf(w), job[w].next.version - 1) : s.entries = job[w].seen.entries

\* The snapshots a write has put on disk so far.
WrittenAt(w) ==
  /\ pc[w] = "seedAudit" => job[w].seed \in history
  /\ pc[w] \in {"snapshot", "audit", "current"} => BaseRecorded(w)
  /\ pc[w] \in {"audit", "current"} =>
       Recorded(LocaleOf(w), job[w].next.version) = {NextSnapshot(w)}

WrittenSoFar == \A w \in Writer : WrittenAt(w)

RecordInv == PlanOK /\ WrittenSoFar /\ AppliedIsRecorded

\* The audit line precedes the current file.
ChangeAudited(w) ==
  pc[w] = "current" =>
    Audited(LocaleOf(w), job[w].next.version, job[w].request.change.op)

AuditInv == (\A w \in Writer : ChangeAudited(w)) /\ AppliedIsAudited

\* w has read the current file of its locale and still works from it.
Engaged(w) == pc[w] \in MutationStep \ {"read"}

\* w has created the snapshot right above the version it read.
Owns(w) ==
  \/ pc[w] \in {"audit", "current"}
  \/ /\ pc[w] \in {"seedAudit", "snapshot"}
     /\ job[w].seed # NoSeed
     /\ job[w].seed.version = job[w].seen.version + 1

\* Somebody has created the snapshot right above the version w read.
Taken(w) == Recorded(LocaleOf(w), job[w].seen.version + 1) # {}

\* The current file is the one w read; where people may save a file during a
\* write to it, it is still of the version w read.
AsRead(w) ==
  LET file == current[LocaleOf(w)]
  IN  /\ file # NoFile /\ file.version = job[w].seen.version
      /\ EditsRaceWrites \/ file = job[w].seen

\* What w read is still the current file, or somebody else came first and w
\* will collide; an owner's reading is the current file.
FreshAt(w) ==
  Engaged(w) =>
    /\ AsRead(w) \/ Taken(w)
    /\ Owns(w) => AsRead(w) /\ Taken(w)

\* A write that can still succeed works above every version that went live.
AboveAt(w) ==
  pc[w] \in {"reconcile"} \union AfterPlan /\ (Owns(w) \/ ~Taken(w)) =>
    \A a \in applied : a.locale = LocaleOf(w) => a.after.version <= job[w].seen.version

Fresh == \A w \in Writer : FreshAt(w)
AboveApplied == \A w \in Writer : AboveAt(w)

\* One owner per locale.
OneOwner ==
  \A w, x \in Writer : Owns(w) /\ Owns(x) /\ LocaleOf(w) = LocaleOf(x) => w = x

OwnerInv == Fresh /\ OneOwner /\ AboveApplied

\* Past its check, w finds history ahead only if the version it wants is taken:
\* snapshots are created without a gap.
NoGapAt(w) ==
  pc[w] \in {"reconcile"} \union AfterPlan /\ Ahead(LocaleOf(w), job[w].seen.version) => Taken(w)

\* What a rollback wants to make live is in history, below the version it
\* mints, unless it will collide.
RollbackAt(w) ==
  LET change == job[w].request.change
  IN  pc[w] \in AfterPlan /\ change.op = "rollback" =>
        /\ \E s \in Recorded(LocaleOf(w), change.to) : s.entries = job[w].next.entries
        /\ change.to < job[w].next.version \/ (Taken(w) /\ ~Owns(w))

RestoredAt(a) ==
  a.change.op = "rollback" =>
    /\ \E s \in Recorded(a.locale, a.change.to) : s.entries = a.after.entries
    /\ a.change.to < a.after.version

NoGap == \A w \in Writer : NoGapAt(w)
RollbackInv == NoGap /\ (\A w \in Writer : RollbackAt(w)) /\ (\A a \in applied : RestoredAt(a))

\* A step of the request that w serves, or a failure of it.
Move(w) ==
  Client(w) \/ Enter(w) \/ Step(w) \/ ReconcileUnreadable(w) \/ DiskFault(w) \/ TearAppend(w)

\* Of a process, either the permit is free or one writer holds it.
Holders(p) == {w \in Writer : Host[w] = p /\ pc[w] \in InGate}

GateAt(p) ==
  \/ permits[p] = 1 /\ Holders(p) = {}
  \/ permits[p] = 0 /\ \E w \in Writer : Holders(p) = {w}

GateInv == \A p \in Process : GateAt(p)

\* Without a fault, one process takes every write it has let in to its end: what
\* is latest in history went live, but for the snapshots of the write under way.
Settled(l) == \A s \in history : Latest(l, s) => WentLive(s)
AllBelow(l, v) == \A s \in history : s.locale = l => s.version < v

UnhurtAt(w) ==
  /\ pc[w] \in {"check", "reconcile"} => Settled(LocaleOf(w))
  /\ pc[w] = "reconcile" => AllBelow(LocaleOf(w), job[w].seen.version + 1)
  /\ pc[w] = "seed" => AllBelow(LocaleOf(w), job[w].seed.version)
  /\ pc[w] \in {"seedAudit", "snapshot"} => AllBelow(LocaleOf(w), job[w].next.version)
  /\ pc[w] \in {"audit", "current"} => AllBelow(LocaleOf(w), job[w].next.version + 1)

UnhurtInv ==
  spent.faults = 0 =>
    /\ \A l \in Locale : AtRest(l) => Settled(l)
    /\ \A w \in Writer : UnhurtAt(w)

IInv == TypeInv /\ RecordInv /\ AuditInv /\ OwnerInv /\ RollbackInv /\ GateInv
=============================================================================
