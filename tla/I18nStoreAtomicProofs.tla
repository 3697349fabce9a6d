------------------------ MODULE I18nStoreAtomicProofs ------------------------
(***************************************************************************)
(* Accepted writes of I18nStore are atomic: while people leave a file      *)
(* alone during a write to it, every accepted write replaces exactly the   *)
(* catalog it read, its version is above all earlier ones, and I18nStore   *)
(* implements AtomicCatalog, for any number of processes and locales.  A  *)
(* rollback restores what it names.  The semaphore of a process neither    *)
(* loses nor gains a permit, on any path out of MutateAsync and            *)
(* SaveConfigAsync; and one process leaves no locale locked out, nor a     *)
(* write half done, unless something fails.                                *)
(***************************************************************************)
EXTENDS I18nStoreRecordProofs, FiniteSetTheorems

-----------------------------------------------------------------------------
(* Who owns a locale.                                                      *)

LEMMA OwnersAreEngaged ==
  ASSUME NEW x \in Writer
  PROVE  /\ Owns(x) => Engaged(x)
         /\ (pc[x] \in {"reconcile"} \union AfterPlan) => Engaged(x)
  BY DEF Owns, Engaged, MutationStep, AfterPlan

\* Outside a mutation the invariant asks nothing of a request.
LEMMA Disengaged ==
  ASSUME NEW x \in Writer, ~Engaged(x)'
  PROVE  FreshAt(x)' /\ AboveAt(x)' /\ ~Owns(x)'
  BY DEF FreshAt, AboveAt, Owns, Engaged, MutationStep, AfterPlan

LEMMA TakenKept ==
  ASSUME NEW x \in Writer, Kept, Taken(x),
         job'[x].request = job[x].request, job'[x].seen = job[x].seen
  PROVE  Taken(x)'
<1>1. PICK l, v : l = LocaleOf(x) /\ v = job[x].seen.version + 1
  OBVIOUS
<1>2. Recorded(l, v) # {} /\ Recorded(l, v)' = Recorded(l, v)
  BY <1>1 DEF Taken, Kept
<1>3. LocaleOf(x)' = LocaleOf(x) /\ v = (job[x].seen.version + 1)'
  BY <1>1 DEF LocaleOf
<1>4. QED
  BY <1>1, <1>2, <1>3 DEF Taken

LEMMA AsReadKept ==
  ASSUME NEW x \in Writer, current'[LocaleOf(x)] = current[LocaleOf(x)],
         job'[x].request = job[x].request, job'[x].seen = job[x].seen
  PROVE  AsRead(x)' <=> AsRead(x)
<1>1. LocaleOf(x)' = LocaleOf(x)
  BY DEF LocaleOf
<1>2. QED
  BY <1>1 DEF AsRead

\* A request that does not move, on a locale that nobody writes.
LEMMA Stays ==
  ASSUME NEW x \in Writer, FreshAt(x), AboveAt(x),
         pc'[x] = pc[x], job'[x] = job[x], applied' = applied,
         Engaged(x) /\ AsRead(x) => AsRead(x)',
         Engaged(x) /\ Taken(x) => Taken(x)'
  PROVE  FreshAt(x)' /\ AboveAt(x)' /\ (Owns(x)' => Owns(x)) /\ LocaleOf(x)' = LocaleOf(x)
<1>1. LocaleOf(x)' = LocaleOf(x)
  BY DEF LocaleOf
<1>2. (Owns(x)' <=> Owns(x)) /\ (Engaged(x)' <=> Engaged(x))
  BY DEF Owns, Engaged
<1>3. FreshAt(x)'
  BY <1>1, <1>2 DEF FreshAt
<1>4. AboveAt(x)'
  BY <1>1, <1>2, OwnersAreEngaged DEF AboveAt
<1>5. QED
  BY <1>1, <1>2, <1>3, <1>4

\* While the snapshot above what w read is missing, nobody owns the locale.
LEMMA NobodyElse ==
  ASSUME OwnerInv, NEW w \in Writer, Engaged(w), ~Taken(w),
         NEW x \in Writer, Owns(x), LocaleOf(x) = LocaleOf(w)
  PROVE  FALSE
<1>1. AsRead(w)
  BY DEF OwnerInv, Fresh, FreshAt
<1>2. AsRead(x) /\ Taken(x)
  BY OwnersAreEngaged DEF OwnerInv, Fresh, FreshAt
<1>3. job[x].seen.version = job[w].seen.version
  BY <1>1, <1>2 DEF AsRead
<1>4. QED
  BY <1>2, <1>3 DEF Taken

-----------------------------------------------------------------------------
(* The steps of the request that moves.                                    *)

\* What a step that does not write the current file leaves behind for the
\* request that takes it: its reading is fresh, and it owns the locale only
\* if it already did or nobody could.
Moved(w) ==
  /\ FreshAt(w)'
  /\ AboveAt(w)'
  /\ Owns(w)' => Owns(w) \/ (Engaged(w) /\ ~Taken(w))
  /\ LocaleOf(w)' = LocaleOf(w)

LEMMA ReadMoves ==
  ASSUME TypeInv, NEW w \in Writer, ReadCurrent(w)
  PROVE  Moved(w)
<1>1. pc \in [Writer -> {"idle", "waiting"} \union InGate] /\ job \in [Writer -> Job]
  BY DEF TypeInv, TypeOK
<1>2. /\ pc'[w] = "check" /\ current' = current /\ current[LocaleOf(w)] # NoFile
      /\ job' = [job EXCEPT ![w].seen = current[LocaleOf(w)]]
  BY <1>1 DEF ReadCurrent, Goto, disk
<1>3. job'[w].request = job[w].request /\ job'[w].seen = current[LocaleOf(w)]
  BY <1>1, <1>2 DEF Job
<1>4. LocaleOf(w)' = LocaleOf(w)
  BY <1>3 DEF LocaleOf
<1>5. ~Owns(w)'
  BY <1>2 DEF Owns
<1>6. FreshAt(w)'
  BY <1>2, <1>3, <1>4, <1>5 DEF FreshAt, AsRead
<1>7. AboveAt(w)'
  BY <1>2 DEF AboveAt, AfterPlan
<1>8. QED
  BY <1>4, <1>5, <1>6, <1>7 DEF Moved

\* EnsureHistoryNotAhead is what keeps versions growing.
LEMMA AdmitMoves ==
  ASSUME TypeInv, RecordInv, OwnerInv, NEW w \in Writer, Admit(w)
  PROVE  Moved(w)
<1>1. /\ pc[w] = "check" /\ pc'[w] = "reconcile" /\ job' = job
      /\ UNCHANGED <<current, history, applied>>
  BY Proceeds
<1>2. Engaged(w) /\ LocaleOf(w)' = LocaleOf(w) /\ ~Owns(w) /\ ~Owns(w)' /\ (Taken(w)' <=> Taken(w))
  BY <1>1 DEF Engaged, MutationStep, LocaleOf, Owns, Taken, Recorded
<1>3. FreshAt(w)'
  BY <1>1, <1>2, AsReadKept DEF FreshAt, OwnerInv, Fresh
<1>4. ASSUME NEW a \in applied, a.locale = LocaleOf(w)
      PROVE  a.after.version <= job[w].seen.version
  <2>1. PICK s \in history : s.locale = a.locale /\ s.version = a.after.version
    BY DEF RecordInv, AppliedIsRecorded, Recorded
  <2>2. ~(s.version > job[w].seen.version)
    BY <1>4, <2>1 DEF Admit, Admissible, Ahead
  <2>3. s.version \in Nat
    BY DEF TypeInv, TypeOK, Snapshot, Version
  <2>4. job[w].seen.version \in Nat
    BY <1>1, MutationTypes DEF MutationStep, Catalog, Version
  <2>5. QED
    BY <2>1, <2>2, <2>3, <2>4
<1>5. AboveAt(w)'
  BY <1>1, <1>2, <1>4 DEF AboveAt
<1>6. QED
  BY <1>2, <1>3, <1>5 DEF Moved

LEMMA PlanMoves ==
  ASSUME TypeInv, OwnerInv, NEW w \in Writer, NEW found, Plan(w, found)
  PROVE  Moved(w)
<1>1. /\ pc[w] = "reconcile"
      /\ pc'[w] = IF job'[w].seed = NoSeed THEN "snapshot" ELSE "seed"
      /\ job'[w].request = job[w].request
      /\ job'[w].seen = job[w].seen
  BY PlanOutcome
<1>2. UNCHANGED <<current, history, applied>>
  BY DEF Plan, disk
<1>3. LocaleOf(w)' = LocaleOf(w) /\ ~Owns(w) /\ ~Owns(w)' /\ Engaged(w)
  BY <1>1 DEF LocaleOf, Owns, Engaged, MutationStep
<1>4. Taken(w)' <=> Taken(w)
  BY <1>1, <1>2 DEF Taken, Recorded, LocaleOf
<1>5. FreshAt(w)'
  BY <1>1, <1>2, <1>3, <1>4, AsReadKept DEF FreshAt, OwnerInv, Fresh
<1>6. AboveAt(w)'
  BY <1>1, <1>2, <1>3, <1>4 DEF AboveAt, OwnerInv, AboveApplied
<1>7. QED
  BY <1>3, <1>5, <1>6 DEF Moved

LEMMA AuditMoves ==
  ASSUME TypeInv, OwnerInv, NEW w \in Writer, AuditSeed(w) \/ AuditChange(w)
  PROVE  Moved(w)
<1>1. /\ \/ pc[w] = "seedAudit" /\ pc'[w] = "snapshot"
         \/ pc[w] = "audit" /\ pc'[w] = "current"
      /\ job' = job /\ UNCHANGED <<current, history, applied>>
  BY Proceeds
<1>2. LocaleOf(w)' = LocaleOf(w) /\ (Owns(w)' <=> Owns(w)) /\ Engaged(w)
  BY <1>1 DEF LocaleOf, Owns, Engaged, MutationStep
<1>3. Taken(w)' <=> Taken(w)
  BY <1>1 DEF Taken, Recorded, LocaleOf
<1>4. FreshAt(w)'
  BY <1>1, <1>2, <1>3, AsReadKept DEF FreshAt, OwnerInv, Fresh
<1>5. AboveAt(w)'
  BY <1>1, <1>2, <1>3 DEF AboveAt, OwnerInv, AboveApplied, AfterPlan
<1>6. QED
  BY <1>2, <1>4, <1>5 DEF Moved

\* A snapshot is created where there was none: right above the version that
\* was read it makes w the owner, elsewhere it changes nothing.
LEMMA CreateMoves ==
  ASSUME TypeInv, OwnerInv, NEW w \in Writer, pc[w] \in AfterPlan, pc'[w] \in AfterPlan,
         job' = job, UNCHANGED <<current, applied>>,
         NEW s, s.locale = LocaleOf(w), Recorded(s.locale, s.version) = {},
         history' = history \union {s},
         s.version = job[w].seen.version + 1 \/ (Owns(w)' => Owns(w))
  PROVE  Moved(w)
<1>1. Kept /\ Recorded(s.locale, s.version)' = {s}
  BY CreateKeeps
<1>2. LocaleOf(w)' = LocaleOf(w) /\ Engaged(w)
  BY OwnersAreEngaged DEF LocaleOf
<1>3. Taken(w) => Taken(w)'
  BY <1>1, TakenKept
<1>4. /\ AsRead(w)' \/ Taken(w)
      /\ Owns(w) => AsRead(w)' /\ Taken(w)
  BY <1>2, AsReadKept DEF OwnerInv, Fresh, FreshAt
<1>5. Owns(w) \/ ~Taken(w) =>
        \A a \in applied : a.locale = LocaleOf(w) => a.after.version <= job[w].seen.version
  BY DEF OwnerInv, AboveApplied, AboveAt
<1>6. CASE s.version = job[w].seen.version + 1
  <2>1. ~Taken(w)
    BY <1>6 DEF Taken
  <2>2. Taken(w)'
    BY <1>2, <1>6 DEF Taken, Recorded
  <2>3. FreshAt(w)'
    BY <1>2, <1>4, <2>1, <2>2 DEF FreshAt
  <2>4. AboveAt(w)'
    BY <1>2, <1>5, <2>1 DEF AboveAt
  <2>5. QED
    BY <1>2, <2>1, <2>3, <2>4 DEF Moved
<1>7. CASE Owns(w)' => Owns(w)
  <2>1. FreshAt(w)'
    BY <1>2, <1>3, <1>4, <1>7 DEF FreshAt
  <2>2. AboveAt(w)'
    BY <1>2, <1>3, <1>5, <1>7 DEF AboveAt
  <2>3. QED
    BY <1>2, <1>7, <2>1, <2>2 DEF Moved
<1>8. QED
  BY <1>6, <1>7

LEMMA WriteMoves ==
  ASSUME TypeInv, RecordInv, OwnerInv, NEW w \in Writer,
         \/ WriteSeed(w) /\ Recorded(job[w].seed.locale, job[w].seed.version) = {}
         \/ WriteSnapshot(w) /\ Recorded(LocaleOf(w), job[w].next.version) = {}
  PROVE  Moved(w)
<1>1. PlanAt(pc[w], job[w])
  BY DEF RecordInv, PlanOK
<1>2. CASE WriteSeed(w) /\ Recorded(job[w].seed.locale, job[w].seed.version) = {}
  <2>1. /\ pc[w] = "seed" /\ pc'[w] = "seedAudit" /\ job' = job
        /\ history' = history \union {job[w].seed} /\ UNCHANGED <<current, applied>>
    BY <1>2, Proceeds
  <2>2. job[w].seed.locale = LocaleOf(w)
    BY <2>1, MutationTypes DEF MutationStep
  <2>3. job[w].seed.version = job[w].seen.version + 1 \/ ~Owns(w)'
    BY <2>1 DEF Owns
  <2>4. QED
    BY <1>2, <2>1, <2>2, <2>3, CreateMoves DEF AfterPlan
<1>3. CASE WriteSnapshot(w) /\ Recorded(LocaleOf(w), job[w].next.version) = {}
  <2>1. /\ pc[w] = "snapshot" /\ pc'[w] = "audit" /\ job' = job
        /\ history' = history \union {NextSnapshot(w)} /\ UNCHANGED <<current, applied>>
    BY <1>3, Proceeds
  <2>2. NextSnapshot(w).locale = LocaleOf(w) /\ NextSnapshot(w).version = job[w].next.version
    BY DEF NextSnapshot
  <2>3. job[w].next.version = job[w].seen.version + 1 \/ Owns(w)
    BY <1>1, <2>1 DEF PlanAt, Owns, AfterPlan
  <2>4. QED
    BY <1>3, <2>1, <2>2, <2>3, CreateMoves DEF AfterPlan
<1>4. QED
  BY <1>2, <1>3

-----------------------------------------------------------------------------
(* The invariant.                                                          *)

\* A step that replaces no file and after which x, if it did not take the
\* step, sees at least the snapshots it saw.
LEMMA MovedKeepsOwners ==
  ASSUME TypeInv, OwnerInv, NEW w \in Writer, Move(w), Moved(w), Kept,
         UNCHANGED <<current, applied>>
  PROVE  OwnerInv'
<1>1. ASSUME NEW x \in Writer, x # w
      PROVE  FreshAt(x)' /\ AboveAt(x)' /\ (Owns(x)' => Owns(x)) /\ LocaleOf(x)' = LocaleOf(x)
  <2>1. pc'[x] = pc[x] /\ job'[x] = job[x]
    BY <1>1, MovesAlone
  <2>2. FreshAt(x) /\ AboveAt(x)
    BY DEF OwnerInv, Fresh, AboveApplied
  <2>3. Taken(x) => Taken(x)'
    BY <2>1, TakenKept
  <2>4. QED
    BY <2>1, <2>2, <2>3, AsReadKept, Stays
<1>2. Fresh' /\ AboveApplied'
  BY <1>1 DEF Moved, Fresh, AboveApplied
<1>3. ASSUME NEW x \in Writer, x # w, Owns(w)', Owns(x)', LocaleOf(w)' = LocaleOf(x)'
      PROVE  FALSE
  <2>1. Owns(x) /\ LocaleOf(x) = LocaleOf(w)
    BY <1>1, <1>3 DEF Moved
  <2>2. CASE Owns(w)
    BY <1>3, <2>1, <2>2 DEF OwnerInv, OneOwner
  <2>3. CASE Engaged(w) /\ ~Taken(w)
    BY <2>1, <2>3, NobodyElse
  <2>4. QED
    BY <1>3, <2>2, <2>3 DEF Moved
<1>4. ASSUME NEW x \in Writer, NEW y \in Writer, x # w, y # w,
             Owns(x)', Owns(y)', LocaleOf(x)' = LocaleOf(y)'
      PROVE  x = y
  BY <1>1, <1>4 DEF OwnerInv, OneOwner
<1>5. OneOwner'
  BY <1>3, <1>4 DEF OneOwner
<1>6. QED
  BY <1>2, <1>5 DEF OwnerInv

\* The write of the current file ends the ownership; whoever read the same
\* file is left with a snapshot in its way.
LEMMA LiveKeepsOwners ==
  ASSUME TypeInv, OwnerInv, NEW w \in Writer, WriteCurrent(w), ~Engaged(w)'
  PROVE  OwnerInv'
<1>1. /\ pc[w] = "current" /\ history' = history
      /\ current' = [current EXCEPT ![LocaleOf(w)] = job[w].next]
      /\ applied' = applied \union
           {[locale |-> LocaleOf(w), change |-> job[w].request.change,
             ifMatch |-> job[w].request.ifMatch,
             before |-> job[w].seen, after |-> job[w].next]}
  BY DEF WriteCurrent
<1>2. Engaged(w) /\ Owns(w) /\ LocaleOf(w) \in Locale
  BY <1>1, MutationTypes DEF Engaged, Owns, MutationStep
<1>3. AsRead(w) /\ Taken(w)
  BY <1>2 DEF OwnerInv, Fresh, FreshAt
<1>4. ASSUME NEW x \in Writer, x # w
      PROVE  FreshAt(x)' /\ AboveAt(x)' /\ (Owns(x)' => Owns(x)) /\ LocaleOf(x)' = LocaleOf(x)
  <2>1. pc'[x] = pc[x] /\ job'[x] = job[x]
    BY <1>4, MovesAlone DEF Move, Step
  <2>2. LocaleOf(x)' = LocaleOf(x) /\ (Owns(x)' <=> Owns(x)) /\ (Engaged(x)' <=> Engaged(x))
    BY <2>1 DEF LocaleOf, Owns, Engaged
  <2>3. Taken(x)' <=> Taken(x)
    BY <1>1, <2>1 DEF Taken, Recorded, LocaleOf
  <2>4. CASE Engaged(x) /\ LocaleOf(x) = LocaleOf(w)
    <3>1. ~Owns(x)
      BY <1>2, <1>4, <2>4 DEF OwnerInv, OneOwner
    <3>2. AsRead(x) \/ Taken(x)
      BY <2>4 DEF OwnerInv, Fresh, FreshAt
    <3>3. Taken(x)
      BY <1>3, <2>4, <3>2 DEF Taken, AsRead
    <3>4. QED
      BY <2>2, <2>3, <3>1, <3>3 DEF FreshAt, AboveAt
  <2>5. CASE Engaged(x) /\ LocaleOf(x) # LocaleOf(w)
    <3>1. current'[LocaleOf(x)] = current[LocaleOf(x)]
      <4>1. LocaleOf(x) \in Locale
        BY <2>5, MutationTypes DEF Engaged
      <4>2. QED
        BY <1>1, <2>5, <4>1 DEF TypeInv, TypeOK
    <3>2. FreshAt(x)'
      BY <2>1, <2>2, <2>3, <3>1, AsReadKept DEF FreshAt, OwnerInv, Fresh
    <3>3. AboveAt(x)'
      BY <1>1, <2>1, <2>2, <2>3, <2>5 DEF AboveAt, OwnerInv, AboveApplied
    <3>4. QED
      BY <2>2, <3>2, <3>3
  <2>6. CASE ~Engaged(x)
    BY <2>2, <2>6, Disengaged
  <2>7. QED
    BY <2>4, <2>5, <2>6
<1>5. FreshAt(w)' /\ AboveAt(w)' /\ ~Owns(w)'
  BY Disengaged
<1>6. Fresh' /\ AboveApplied'
  BY <1>4, <1>5 DEF Fresh, AboveApplied
<1>7. OneOwner'
  BY <1>4, <1>5 DEF OwnerInv, OneOwner
<1>8. QED
  BY <1>6, <1>7 DEF OwnerInv

\* Everything but a request's progress: nobody becomes an owner.
LEMMA StayKeepsOwners ==
  ASSUME OwnerInv,
         \A x \in Writer :
           FreshAt(x)' /\ AboveAt(x)' /\ (Owns(x)' => Owns(x) /\ LocaleOf(x)' = LocaleOf(x))
  PROVE  OwnerInv'
<1>1. Fresh' /\ AboveApplied'
  BY DEF Fresh, AboveApplied
<1>2. OneOwner'
  BY DEF OwnerInv, OneOwner
<1>3. QED
  BY <1>1, <1>2 DEF OwnerInv

\* People touch a locale that nobody is writing to, but for saving a file.
LEMMA PersonKeepsOwners ==
  ASSUME TypeInv, OwnerInv, Person
  PROVE  OwnerInv'
<1>1. PICK l \in Locale :
        /\ \/ AtRest(l)
           \/ /\ EditsRaceWrites /\ current[l] # NoFile /\ current'[l] # NoFile
              /\ current'[l].version = current[l].version /\ history' = history
        /\ \A m \in Locale : m # l => current'[m] = current[m]
        /\ history' = history \/ \E s \in history : s.locale = l /\ history' = history \ {s}
  <2>1. current \in [Locale -> Catalog \union {NoFile}]
    BY DEF TypeInv, TypeOK
  <2>2. ASSUME NEW l \in Locale, NEW entries \in Entries, HandEdit(l, entries)
        PROVE  /\ history' = history
               /\ \/ AtRest(l)
                  \/ /\ EditsRaceWrites /\ current[l] # NoFile /\ current'[l] # NoFile
                     /\ current'[l].version = current[l].version
               /\ \A m \in Locale : m # l => current'[m] = current[m]
    <3>1. current[l] \in Catalog /\ current' = [current EXCEPT ![l].entries = entries]
      BY <2>1, <2>2 DEF HandEdit
    <3>2. current'[l].version = current[l].version /\ current'[l] \in Catalog
      BY <2>1, <3>1 DEF Catalog
    <3>3. current'[l] # NoFile
      BY <3>2, SentinelAssumption
    <3>4. QED
      BY <2>1, <2>2, <3>1, <3>2, <3>3 DEF HandEdit
  <2>3. ASSUME NEW l \in Locale, NEW file, HandDrop(l, file)
        PROVE  /\ AtRest(l) /\ history' = history
               /\ \A m \in Locale : m # l => current'[m] = current[m]
    BY <2>1, <2>3 DEF HandDrop
  <2>4. ASSUME NEW l \in Locale, NEW s \in history, RemoveOrphan(l, s)
        PROVE  AtRest(l) /\ s.locale = l /\ history' = history \ {s} /\ current' = current
    BY <2>4 DEF RemoveOrphan, Latest
  <2>5. ASSUME NEW l \in Locale, NEW s \in history, RestoreLatest(l, s)
        PROVE  /\ AtRest(l) /\ history' = history
               /\ \A m \in Locale : m # l => current'[m] = current[m]
    BY <2>1, <2>5 DEF RestoreLatest
  <2>6. QED
    BY <2>2, <2>3, <2>4, <2>5 DEF Person
<1>2. pc' = pc /\ job' = job /\ applied' = applied
  BY PersonAlone
<1>3. ASSUME NEW x \in Writer
      PROVE  FreshAt(x)' /\ AboveAt(x)' /\ (Owns(x)' => Owns(x) /\ LocaleOf(x)' = LocaleOf(x))
  <2>1. ASSUME Engaged(x)
        PROVE  LocaleOf(x) \in Locale /\ (AtRest(l) => LocaleOf(x) # l)
    BY <1>1, <2>1, MutationTypes DEF AtRest, Engaged
  <2>2. Engaged(x) /\ AsRead(x) => AsRead(x)'
    <3>1. LocaleOf(x)' = LocaleOf(x) /\ job'[x] = job[x]
      BY <1>2 DEF LocaleOf
    <3>2. CASE Engaged(x) /\ LocaleOf(x) # l
      BY <1>1, <2>1, <3>1, <3>2, AsReadKept
    <3>3. CASE Engaged(x) /\ LocaleOf(x) = l
      BY <1>1, <2>1, <3>1, <3>3 DEF AsRead
    <3>4. QED
      BY <3>2, <3>3
  <2>3. Engaged(x) /\ Taken(x) => Taken(x)'
    <3>1. SUFFICES ASSUME Engaged(x), Taken(x) PROVE Taken(x)'
      OBVIOUS
    <3>2. PICK t \in history : t.locale = LocaleOf(x) /\ t.version = job[x].seen.version + 1
      BY <3>1 DEF Taken, Recorded
    <3>3. t \in history'
      BY <1>1, <2>1, <3>1, <3>2
    <3>4. QED
      BY <1>2, <3>2, <3>3 DEF Taken, Recorded, LocaleOf
  <2>4. FreshAt(x) /\ AboveAt(x)
    BY DEF OwnerInv, Fresh, AboveApplied
  <2>5. QED
    BY <1>2, <2>2, <2>3, <2>4, Stays
<1>4. QED
  BY <1>3, StayKeepsOwners

LEMMA OwnersPreserved == TypeInv /\ RecordInv /\ OwnerInv /\ [Next]_vars => OwnerInv'
<1> SUFFICES ASSUME TypeInv, RecordInv, OwnerInv, [Next]_vars PROVE OwnerInv'
  OBVIOUS
\* A request that goes on as it was, or ends, while the files stay.
<1>1. ASSUME UNCHANGED <<current, history, applied>>, NEW x \in Writer,
             ~Engaged(x)' \/ (pc'[x] = pc[x] /\ job'[x] = job[x])
      PROVE  FreshAt(x)' /\ AboveAt(x)' /\ (Owns(x)' => Owns(x) /\ LocaleOf(x)' = LocaleOf(x))
  <2>1. CASE ~Engaged(x)'
    BY <2>1, Disengaged
  <2>2. CASE pc'[x] = pc[x] /\ job'[x] = job[x]
    <3>1. Taken(x) => Taken(x)'
      BY <1>1, <2>2, SameKeeps, TakenKept
    <3>2. FreshAt(x) /\ AboveAt(x)
      BY DEF OwnerInv, Fresh, AboveApplied
    <3>3. QED
      BY <1>1, <2>2, <3>1, <3>2, AsReadKept, Stays
  <2>3. QED
    BY <1>1, <2>1, <2>2
<1>2. ASSUME NEW w \in Writer, Move(w)
      PROVE  OwnerInv'
  <2>1. CASE ~Engaged(w)' /\ UNCHANGED <<current, history, applied>>
    BY <1>1, <1>2, <2>1, MovesAlone, StayKeepsOwners
  <2>2. CASE WriteCurrent(w) /\ ~Engaged(w)'
    BY <2>2, LiveKeepsOwners
  <2>3. CASE ReadCurrent(w)
    <3>1. UNCHANGED <<current, history, applied>>
      BY <2>3 DEF ReadCurrent, disk
    <3>2. QED
      BY <1>2, <2>3, <3>1, ReadMoves, SameKeeps, MovedKeepsOwners
  <2>4. CASE Admit(w) \/ AuditSeed(w) \/ AuditChange(w)
    <3>1. UNCHANGED <<current, history, applied>>
      BY <2>4, Proceeds
    <3>2. Moved(w)
      BY <2>4, AdmitMoves, AuditMoves
    <3>3. QED
      BY <1>2, <3>1, <3>2, SameKeeps, MovedKeepsOwners
  <2>5. ASSUME NEW found, Plan(w, found)
        PROVE  OwnerInv'
    <3>1. UNCHANGED <<current, history, applied>>
      BY <2>5 DEF Plan, disk
    <3>2. QED
      BY <1>2, <2>5, <3>1, PlanMoves, SameKeeps, MovedKeepsOwners
  <2>6. CASE \/ WriteSeed(w) /\ Recorded(job[w].seed.locale, job[w].seed.version) = {}
             \/ WriteSnapshot(w) /\ Recorded(LocaleOf(w), job[w].next.version) = {}
    <3>1. Kept
      <4>1. ~(\E l \in Locale : \E s \in history : RemoveOrphan(l, s))
        BY <2>6, Proceeds DEF RemoveOrphan
      <4>2. QED
        BY <4>1, HistorySteps
    <3>2. UNCHANGED <<current, applied>>
      BY <2>6, Proceeds
    <3>3. Moved(w)
      BY <2>6, WriteMoves
    <3>4. QED
      BY <1>2, <3>1, <3>2, <3>3, MovedKeepsOwners
  <2>7. QED
    BY <1>2, <2>1, <2>2, <2>3, <2>4, <2>5, <2>6, MoveKinds
<1>3. ASSUME NEW p \in Process, Crash(p)
      PROVE  OwnerInv'
  <2>1. UNCHANGED <<current, history, applied>>
    BY <1>3 DEF Crash, disk
  <2>2. \A x \in Writer : ~Engaged(x)' \/ (pc'[x] = pc[x] /\ job'[x] = job[x])
    BY <1>3, CrashEnds DEF Engaged, MutationStep
  <2>3. QED
    BY <1>1, <2>1, <2>2, StayKeepsOwners
<1>4. CASE Person
  BY <1>4, PersonKeepsOwners
<1>5. CASE UNCHANGED vars
  BY <1>1, <1>5, StayKeepsOwners DEF vars, disk
<1>6. QED
  BY <1>2, <1>3, <1>4, <1>5, StepKinds

LEMMA InitOwners == Init => OwnerInv
<1> SUFFICES ASSUME Init PROVE OwnerInv
  OBVIOUS
<1>1. \A x \in Writer : pc[x] = "idle"
  BY DEF Init
<1>2. QED
  BY <1>1 DEF OwnerInv, Fresh, FreshAt, OneOwner, Owns, AboveApplied, AboveAt, Engaged,
              MutationStep, AfterPlan

LEMMA OwnerInvariant == Spec => []OwnerInv
<1>1. TypeInv /\ RecordInv /\ OwnerInv /\ [Next]_vars => OwnerInv'
  BY OwnersPreserved
<1>2. QED
  BY <1>1, TypeInvariant, RecordInvariant, InitOwners, PTL DEF Spec

-----------------------------------------------------------------------------
(* What follows.                                                           *)

\* The write of the current file, in terms of what it replaces.
LEMMA LiveStep ==
  ASSUME TypeInv, RecordInv, OwnerInv, ~EditsRaceWrites, NEW w \in Writer, WriteCurrent(w)
  PROVE  \E l \in Locale, change \in Change, ifMatch \in Named \union {AnyVersion},
            bump \in {1, 2} :
           \E entries \in Atomic!Results(change, current[l].entries) :
             LET after == [version |-> current[l].version + bump, entries |-> entries]
             IN  /\ current[l] # NoFile
                 /\ ifMatch \in {AnyVersion, current[l].version}
                 /\ current' = [current EXCEPT ![l] = after]
                 /\ applied' = applied \union
                      {[locale |-> l, change |-> change, ifMatch |-> ifMatch,
                        before |-> current[l], after |-> after]}
<1> DEFINE l == LocaleOf(w)
           seen == job[w].seen
           next == job[w].next
           change == job[w].request.change
           ifMatch == job[w].request.ifMatch
<1>1. /\ pc[w] = "current"
      /\ current' = [current EXCEPT ![l] = next]
      /\ applied' = applied \union
           {[locale |-> l, change |-> change, ifMatch |-> ifMatch,
             before |-> seen, after |-> next]}
  BY DEF WriteCurrent
<1>2. /\ l \in Locale /\ change \in Change /\ seen \in Catalog /\ next \in Catalog
      /\ job[w].request \in Mutation
  BY <1>1, MutationTypes DEF MutationStep, AfterPlan
<1>3. Engaged(w) /\ Owns(w)
  BY <1>1 DEF Engaged, Owns, MutationStep
<1>4. current[l] = seen
  BY <1>3 DEF OwnerInv, Fresh, FreshAt, AsRead
<1>5. PlanAt(pc[w], job[w])
  BY DEF RecordInv, PlanOK
<1>6. PICK bump \in {1, 2} : next.version = seen.version + bump
  <2>1. seen.version \in Nat
    BY <1>2 DEF Catalog, Version
  <2>2. next.version = seen.version + 1 \/ next.version = seen.version + 1 + 1
    BY <1>1, <1>5 DEF PlanAt, AfterPlan
  <2>3. QED
    BY <2>1, <2>2
<1>7. next = [version |-> seen.version + bump, entries |-> next.entries]
  BY <1>2, <1>6 DEF Catalog
<1>8. next.entries \in Atomic!Results(change, seen.entries)
  BY <1>1, <1>5 DEF PlanAt, AfterPlan
<1>9. ifMatch \in Named \union {AnyVersion} /\ ifMatch \in {AnyVersion, seen.version}
  BY <1>1, <1>2, <1>5 DEF PlanAt, AfterPlan, Mutation
<1>10. seen # NoFile
  BY <1>2, SentinelAssumption
<1> HIDE DEF l, seen, next, change, ifMatch
<1>11. QED
  BY <1>1, <1>2, <1>4, <1>6, <1>7, <1>8, <1>9, <1>10

\* What goes live is above everything that did.
LEMMA LiveAbove ==
  ASSUME TypeInv, RecordInv, OwnerInv, NEW w \in Writer, WriteCurrent(w),
         NEW b \in applied, b.locale = LocaleOf(w)
  PROVE  b.after.version < job[w].next.version
<1>1. pc[w] = "current" /\ Owns(w)
  BY DEF WriteCurrent, Owns
<1>2. job[w].seen \in Catalog
  BY <1>1, MutationTypes DEF MutationStep
<1>3. b.after.version <= job[w].seen.version
  BY <1>1 DEF OwnerInv, AboveApplied, AboveAt, AfterPlan
<1>4. b.after.version \in Nat /\ job[w].seen.version \in Nat
  BY <1>2 DEF TypeInv, TypeOK, Applied, Catalog, Version
<1>5. \/ job[w].next.version = job[w].seen.version + 1
      \/ job[w].next.version = job[w].seen.version + 1 + 1
  BY <1>1 DEF RecordInv, PlanOK, PlanAt, AfterPlan
<1>6. QED
  BY <1>3, <1>4, <1>5

\* No version number is answered twice or below an earlier one (L190, L219):
\* what EnsureHistoryNotAhead and CreateJson ensure together, even if people
\* edit a file while it is being written.
THEOREM LiveVersionsGrow == Spec => VersionsGrow
<1>1. ASSUME TypeInv, RecordInv, OwnerInv, [Next]_vars
      PROVE  [\A a \in applied' \ applied, b \in applied :
                a.locale = b.locale => b.after.version < a.after.version]_applied
  <2>1. ASSUME NEW w \in Writer, WriteCurrent(w),
               NEW a \in applied' \ applied, NEW b \in applied, a.locale = b.locale
        PROVE  b.after.version < a.after.version
    <3>1. a.locale = LocaleOf(w) /\ a.after = job[w].next
      BY <2>1 DEF WriteCurrent
    <3>2. QED
      BY <1>1, <2>1, <3>1, LiveAbove
  <2>2. QED
    BY <1>1, <2>1, AppliedGrows
<1>2. QED
  BY <1>1, TypeInvariant, RecordInvariant, OwnerInvariant, PTL DEF Spec, VersionsGrow

\* A step that makes nothing live leaves the files alone or is a person's.
LEMMA FileSteps ==
  ASSUME TypeInv, [Next]_vars, ~(\E w \in Writer : WriteCurrent(w))
  PROVE  \/ UNCHANGED <<current, applied>>
         \/ \E l \in Locale : current' = [current EXCEPT ![l] = current'[l]] /\ UNCHANGED applied
<1>1. current \in [Locale -> Catalog \union {NoFile}]
  BY DEF TypeInv, TypeOK
<1>2. ASSUME NEW w \in Writer, Move(w)
      PROVE  UNCHANGED <<current, applied>>
  BY <1>2, MoveKinds, Proceeds DEF ReadCurrent, Plan, disk
<1>3. ASSUME NEW p \in Process, Crash(p)
      PROVE  UNCHANGED <<current, applied>>
  BY <1>3 DEF Crash, disk
<1>4. ASSUME NEW l \in Locale, NEW entries, HandEdit(l, entries)
      PROVE  current' = [current EXCEPT ![l] = current'[l]] /\ UNCHANGED applied
  BY <1>1, <1>4 DEF HandEdit
<1>5. ASSUME NEW l \in Locale, NEW file, HandDrop(l, file)
      PROVE  current' = [current EXCEPT ![l] = current'[l]] /\ UNCHANGED applied
  BY <1>1, <1>5 DEF HandDrop
<1>6. ASSUME NEW l \in Locale, NEW s, RemoveOrphan(l, s)
      PROVE  UNCHANGED <<current, applied>>
  BY <1>6 DEF RemoveOrphan
<1>7. ASSUME NEW l \in Locale, NEW s, RestoreLatest(l, s)
      PROVE  current' = [current EXCEPT ![l] = current'[l]] /\ UNCHANGED applied
  BY <1>1, <1>7 DEF RestoreLatest
<1>8. CASE Person
  BY <1>4, <1>5, <1>6, <1>7, <1>8 DEF Person
<1>9. CASE UNCHANGED vars
  BY <1>9 DEF vars, disk
<1>10. QED
  BY <1>2, <1>3, <1>8, <1>9, StepKinds

\* An accepted write is one atomic, conditional replacement of the live
\* catalog: about nine disk accesses of MutateAsync (L178-216), in any number
\* of processes, with crashes and failures in between, are a step of
\* AtomicCatalog or none.
THEOREM StoreImplementsAtomicCatalog ==
  ASSUME ~EditsRaceWrites
  PROVE  Spec => WritesAreAtomic
<1>1. Init => Atomic!Init
  BY InitTypes DEF Init, Atomic!Init, TypeInv, TypeOK, Catalog, Version, Entries,
                   Atomic!Catalog, Atomic!Version, Atomic!Entries
<1>2. ASSUME TypeInv, TypeInv', RecordInv, OwnerInv, [Next]_vars
      PROVE  [Atomic!Next]_(Atomic!vars)
  <2>1. Change = Atomic!Change /\ Catalog = Atomic!Catalog
    BY DEF Change, Catalog, Version, Entries,
           Atomic!Change, Atomic!Catalog, Atomic!Version, Atomic!Entries
  <2>2. ASSUME NEW w \in Writer, WriteCurrent(w)
        PROVE  Atomic!Next
    <3>1. PICK l \in Locale, change \in Change, ifMatch \in Named \union {AnyVersion} :
            Atomic!Write(l, change, ifMatch)
      BY <1>2, <2>2, LiveStep DEF Atomic!Write
    <3>2. QED
      BY <2>1, <3>1 DEF Atomic!Next
  <2>3. CASE UNCHANGED <<current, applied>>
    BY <2>3 DEF Atomic!vars
  <2>4. ASSUME NEW l \in Locale, current' = [current EXCEPT ![l] = current'[l]],
               UNCHANGED applied
        PROVE  Atomic!Next
    <3>1. current'[l] \in Atomic!Catalog \union {NoFile}
      BY <1>2, <2>1 DEF TypeInv, TypeOK
    <3>2. Atomic!ReplaceFile(l)
      BY <2>4, <3>1 DEF Atomic!ReplaceFile
    <3>3. QED
      BY <3>2 DEF Atomic!Next
  <2>5. QED
    BY <1>2, <2>2, <2>3, <2>4, FileSteps
<1>3. QED
  BY <1>1, <1>2, TypeInvariant, RecordInvariant, OwnerInvariant, PTL
  DEF Spec, WritesAreAtomic, Atomic!Spec

-----------------------------------------------------------------------------
(* Rollbacks.                                                              *)

\* w creates a snapshot.
Creates(w) ==
  \/ WriteSeed(w) /\ Recorded(job[w].seed.locale, job[w].seed.version) = {}
  \/ WriteSnapshot(w) /\ Recorded(LocaleOf(w), job[w].next.version) = {}

LEMMA HistoryAdds ==
  ASSUME TypeInv, [Next]_vars
  PROVE  \/ UNCHANGED history
         \/ \E w \in Writer : Creates(w)
         \/ \E l \in Locale : \E s \in history : RemoveOrphan(l, s)
<1>1. ASSUME NEW w \in Writer, Move(w)
      PROVE  UNCHANGED history \/ Creates(w)
  BY <1>1, MoveKinds, Proceeds DEF Creates, WriteCurrent, ReadCurrent, Plan, disk
<1>2. ASSUME NEW p \in Process, Crash(p)
      PROVE  UNCHANGED history
  BY <1>2 DEF Crash, disk
<1>3. Person => UNCHANGED history \/ \E l \in Locale : \E s \in history : RemoveOrphan(l, s)
  BY DEF Person, HandEdit, HandDrop, RestoreLatest
<1>4. UNCHANGED vars => UNCHANGED history
  BY DEF vars, disk
<1>5. QED
  BY <1>1, <1>2, <1>3, <1>4, StepKinds

\* What w creates, for its own locale, right above a snapshot or what it read.
LEMMA CreatesWhat ==
  ASSUME TypeInv, RecordInv, NEW w \in Writer, Creates(w)
  PROVE  \E s \in Snapshot :
           /\ history' = history \union {s} /\ s.locale = LocaleOf(w)
           /\ Recorded(s.locale, s.version) = {}
           /\ job' = job /\ Engaged(w)
           /\ \/ s.version \in {job[w].seen.version, job[w].seen.version + 1}
              \/ Recorded(LocaleOf(w), s.version - 1) # {}
<1>1. PlanAt(pc[w], job[w]) /\ WrittenAt(w)
  BY DEF RecordInv, PlanOK, WrittenSoFar
<1>2. CASE WriteSeed(w) /\ Recorded(job[w].seed.locale, job[w].seed.version) = {}
  <2>1. pc[w] = "seed" /\ job' = job /\ history' = history \union {job[w].seed}
    BY <1>2, Proceeds
  <2>2. job[w].seed \in Snapshot /\ job[w].seed.locale = LocaleOf(w) /\ job[w].seed # NoSeed
    BY <2>1, MutationTypes, SentinelAssumption DEF MutationStep
  <2>3. job[w].seed.version \in {job[w].seen.version, job[w].seen.version + 1}
    BY <1>1, <2>1, <2>2 DEF PlanAt, AfterPlan
  <2>4. Engaged(w)
    BY <2>1 DEF Engaged, MutationStep
  <2>5. QED
    BY <1>2, <2>1, <2>2, <2>3, <2>4
<1>3. CASE WriteSnapshot(w) /\ Recorded(LocaleOf(w), job[w].next.version) = {}
  <2>1. pc[w] = "snapshot" /\ job' = job /\ history' = history \union {NextSnapshot(w)}
    BY <1>3, Proceeds
  <2>2. NextSnapshot(w) \in Snapshot
    BY <2>1, NextSnapshotType DEF AfterPlan
  <2>3. NextSnapshot(w).locale = LocaleOf(w) /\ NextSnapshot(w).version = job[w].next.version
    BY DEF NextSnapshot
  <2>4. Recorded(LocaleOf(w), job[w].next.version - 1) # {}
    BY <1>1, <2>1 DEF WrittenAt, BaseRecorded
  <2>5. Engaged(w)
    BY <2>1 DEF Engaged, MutationStep
  <2>6. QED
    BY <1>3, <2>1, <2>2, <2>3, <2>4, <2>5
<1>4. QED
  BY <1>2, <1>3 DEF Creates

\* A request that goes on while a snapshot is created, by itself or another.
LEMMA CreatesNoGap ==
  ASSUME TypeInv, RecordInv, OwnerInv, NEW w \in Writer, Creates(w),
         NEW x \in Writer, pc[x] \in {"reconcile"} \union AfterPlan, NoGapAt(x)
  PROVE  NoGapAt(x)'
<1>1. PICK s \in Snapshot :
        /\ history' = history \union {s} /\ s.locale = LocaleOf(w)
        /\ Recorded(s.locale, s.version) = {}
        /\ job' = job /\ Engaged(w)
        /\ \/ s.version \in {job[w].seen.version, job[w].seen.version + 1}
           \/ Recorded(LocaleOf(w), s.version - 1) # {}
  BY CreatesWhat
<1>2. Kept
  BY <1>1, CreateKeeps
<1>3. LocaleOf(x)' = LocaleOf(x) /\ (Taken(x) => Taken(x)') /\ Engaged(x)
  BY <1>1, <1>2, TakenKept, OwnersAreEngaged DEF LocaleOf
<1>4. /\ job[x].seen.version \in Nat /\ job[w].seen.version \in Nat /\ s.version \in Nat
      /\ \A t \in history : t.version \in Nat
  BY <1>1, <1>3, MutationTypes DEF Engaged, Catalog, Snapshot, Version, TypeInv, TypeOK
<1>5. SUFFICES ASSUME NEW t \in history', t.locale = LocaleOf(x), t.version > job[x].seen.version
               PROVE  Taken(x) \/ Taken(x)'
  BY <1>1, <1>3 DEF NoGapAt, Ahead
<1>6. CASE t \in history
  BY <1>5, <1>6 DEF NoGapAt, Ahead
<1>7. CASE t = s /\ t \notin history
  <2>1. CASE s.version = job[x].seen.version + 1
    BY <1>1, <1>3, <1>5, <1>7, <2>1 DEF Taken, Recorded
  <2>2. CASE Recorded(LocaleOf(w), s.version - 1) # {} /\ s.version # job[x].seen.version + 1
    <3>1. PICK b \in history : b.locale = LocaleOf(w) /\ b.version = s.version - 1
      BY <2>2 DEF Recorded
    <3>2. b.locale = LocaleOf(x) /\ b.version > job[x].seen.version
      BY <1>1, <1>4, <1>5, <1>7, <2>2, <3>1
    <3>3. QED
      BY <3>2 DEF NoGapAt, Ahead
  <2>3. CASE /\ s.version \in {job[w].seen.version, job[w].seen.version + 1}
             /\ s.version # job[x].seen.version + 1
    <3>1. job[w].seen.version > job[x].seen.version
      BY <1>4, <1>5, <1>7, <2>3
    <3>2. LocaleOf(w) = LocaleOf(x)
      BY <1>1, <1>5, <1>7
    <3>3. AsRead(x) \/ Taken(x)
      BY <1>3 DEF OwnerInv, Fresh, FreshAt
    <3>4. AsRead(w) \/ Taken(w)
      BY <1>1 DEF OwnerInv, Fresh, FreshAt
    <3>5. ~(AsRead(x) /\ AsRead(w))
      BY <1>4, <3>1, <3>2 DEF AsRead
    <3>6. ASSUME Taken(w) PROVE Ahead(LocaleOf(x), job[x].seen.version)
      <4>1. PICK b \in history : b.locale = LocaleOf(w) /\ b.version = job[w].seen.version + 1
        BY <3>6 DEF Taken, Recorded
      <4>2. QED
        BY <1>4, <3>1, <3>2, <4>1 DEF Ahead
    <3>7. QED
      BY <3>3, <3>4, <3>5, <3>6 DEF NoGapAt
  <2>4. QED
    BY <1>1, <2>1, <2>2, <2>3
<1>8. QED
  BY <1>1, <1>5, <1>6, <1>7

\* While an orphan of its locale is removed, nobody is engaged there.
LEMMA OrphanElsewhere ==
  ASSUME TypeInv, NEW l \in Locale, NEW s \in history, RemoveOrphan(l, s),
         NEW x \in Writer, Engaged(x)
  PROVE  /\ UNCHANGED <<pc, job>> /\ LocaleOf(x)' = LocaleOf(x)
         /\ \A v : Recorded(LocaleOf(x), v)' = Recorded(LocaleOf(x), v)
         /\ \A v : Ahead(LocaleOf(x), v)' <=> Ahead(LocaleOf(x), v)
         /\ (Taken(x)' <=> Taken(x)) /\ (Owns(x)' <=> Owns(x))
<1>1. /\ AtRest(l) /\ s.locale = l /\ history' = history \ {s}
      /\ pc' = pc /\ job' = job
  BY DEF RemoveOrphan, Latest
<1>2. LocaleOf(x) # l /\ LocaleOf(x)' = LocaleOf(x)
  BY <1>1 DEF AtRest, Engaged, LocaleOf
<1>3. \A v : Recorded(LocaleOf(x), v)' = Recorded(LocaleOf(x), v)
  BY <1>1, <1>2 DEF Recorded
<1>4. \A v : Ahead(LocaleOf(x), v)' <=> Ahead(LocaleOf(x), v)
  BY <1>1, <1>2 DEF Ahead
<1>5. Taken(x)' <=> Taken(x)
  BY <1>1, <1>2, <1>3 DEF Taken
<1>6. Owns(x)' <=> Owns(x)
  BY <1>1 DEF Owns
<1>7. QED
  BY <1>1, <1>2, <1>3, <1>4, <1>5, <1>6

LEMMA NoGapPreserved == TypeInv /\ RecordInv /\ OwnerInv /\ NoGap /\ [Next]_vars => NoGap'
<1> SUFFICES ASSUME TypeInv, RecordInv, OwnerInv, NoGap, [Next]_vars, NEW x \in Writer
             PROVE  NoGapAt(x)'
  BY DEF NoGap
<1>1. NoGapAt(x)
  BY DEF NoGap
<1>2. CASE ~Engaged(x)' \/ pc'[x] = "check"
  BY <1>2 DEF NoGapAt, Engaged, MutationStep, AfterPlan
<1>3. CASE \E w \in Writer : Creates(w)
  <2>1. PICK w \in Writer : Creates(w)
    BY <1>3
  <2>2. CASE pc[x] \in {"reconcile"} \union AfterPlan
    BY <1>1, <2>1, <2>2, CreatesNoGap
  <2>3. CASE pc[x] \notin {"reconcile"} \union AfterPlan
    <3>1. w # x
      BY <2>1, <2>3, Proceeds DEF Creates, AfterPlan
    <3>2. pc'[x] = pc[x]
      BY <2>1, <3>1, MovesAlone DEF Creates, Move, Step
    <3>3. QED
      BY <2>3, <3>2 DEF NoGapAt
  <2>4. QED
    BY <2>2, <2>3
<1>4. CASE UNCHANGED history /\ Move(x)
  <2>1. CASE Admit(x)
    <3>1. job' = job /\ UNCHANGED history /\ ~Ahead(LocaleOf(x), job[x].seen.version)
      BY <2>1, Proceeds DEF Admit, Admissible
    <3>2. QED
      BY <3>1 DEF NoGapAt, Ahead, LocaleOf
  <2>2. ASSUME NEW found, Plan(x, found) PROVE NoGapAt(x)'
    <3>1. pc[x] = "reconcile" /\ job'[x].request = job[x].request /\ job'[x].seen = job[x].seen
      BY <2>2, PlanOutcome
    <3>2. QED
      BY <1>1, <1>4, <3>1 DEF NoGapAt, Ahead, Taken, Recorded, LocaleOf
  <2>3. CASE AuditSeed(x) \/ AuditChange(x)
    <3>1. pc[x] \in AfterPlan /\ job' = job
      BY <2>3, Proceeds DEF AfterPlan
    <3>2. QED
      BY <1>1, <1>4, <3>1 DEF NoGapAt, Ahead, Taken, Recorded, LocaleOf
  <2>4. CASE ReadCurrent(x)
    <3>1. pc'[x] = "check"
      BY <2>4 DEF ReadCurrent, Goto, TypeInv, TypeOK
    <3>2. QED
      BY <1>2, <3>1
  <2>5. QED
    BY <1>2, <1>3, <1>4, <2>1, <2>2, <2>3, <2>4, MoveKinds DEF Creates
<1>5. CASE UNCHANGED history /\ pc'[x] = pc[x] /\ job'[x] = job[x]
  BY <1>1, <1>5 DEF NoGapAt, Ahead, Taken, Recorded, LocaleOf
<1>6. CASE pc'[x] = "idle"
  BY <1>6 DEF NoGapAt, AfterPlan
<1>7. CASE \E l \in Locale : \E s \in history : RemoveOrphan(l, s)
  <2>1. PICK l \in Locale, s \in history : RemoveOrphan(l, s)
    BY <1>7
  <2>2. CASE Engaged(x)
    BY <1>1, <2>1, <2>2, OrphanElsewhere DEF NoGapAt
  <2>3. CASE ~Engaged(x)
    BY <1>2, <2>1, <2>3 DEF RemoveOrphan, Engaged
  <2>4. QED
    BY <2>2, <2>3
<1>8. QED
  BY <1>3, <1>4, <1>5, <1>6, <1>7, HistoryAdds, MovesAlone, CrashEnds, PersonAlone, StepKinds DEF vars

\* What a plan would restore is in history; a version above the one that was
\* read is there only if the write is going to collide.
LEMMA PlanRestores ==
  ASSUME TypeInv, RecordInv, NoGap, NEW w \in Writer,
         NEW found \in {Recorded(LocaleOf(w), job[w].seen.version), {}}, Plan(w, found)
  PROVE  RollbackAt(w)'
<1> DEFINE l == LocaleOf(w)
           change == job[w].request.change
<1>1. /\ pc[w] = "reconcile"
      /\ pc'[w] = IF job'[w].seed = NoSeed THEN "snapshot" ELSE "seed"
      /\ job'[w].request = job[w].request /\ job'[w].seen = job[w].seen
      /\ job'[w].next = Minted(l, change, Basis(found, job[w].seen))
      /\ Accepts(l, change, Basis(found, job[w].seen))
  BY PlanOutcome
<1>2. UNCHANGED history /\ l' = l /\ change' = change
  BY <1>1 DEF Plan, disk, LocaleOf
<1>3. SUFFICES ASSUME change.op = "rollback"
               PROVE  /\ \E s \in Recorded(l, change.to) : s.entries = job'[w].next.entries
                      /\ change.to < job'[w].next.version \/ (Taken(w)' /\ ~Owns(w)')
  BY <1>2 DEF RollbackAt, Recorded
<1>4. Recorded(l, change.to) # {} /\ change.to \in Named
  BY <1>1, <1>3, MutationTypes DEF MutationStep, Accepts, Change
<1>5. \E s \in Recorded(l, change.to) : s.entries = job'[w].next.entries
  <2>1. job'[w].next.entries = (CHOOSE s \in Recorded(l, change.to) : TRUE).entries
    BY <1>1, <1>3 DEF Minted, Result
  <2>2. QED
    BY <1>4, <2>1
<1>6. job[w].seen.version \in Nat /\ change.to \in Nat
  BY <1>1, <1>4, MutationTypes, NamedAssumption DEF MutationStep, Catalog, Version
<1>7. CASE change.to > job[w].seen.version
  <2>1. Taken(w)
    BY <1>1, <1>4, <1>7 DEF NoGap, NoGapAt, Ahead, Recorded
  <2>2. Taken(w)'
    BY <1>1, <1>2, <2>1 DEF Taken, Recorded, LocaleOf
  <2>3. ~Owns(w)'
    BY <1>1 DEF Owns
  <2>4. QED
    BY <1>5, <2>2, <2>3
<1>8. CASE ~(change.to > job[w].seen.version)
  <2>1. PlanAt(pc'[w], job'[w])
    <3>1. found \in SUBSET Snapshot
      BY DEF Recorded, TypeInv, TypeOK
    <3>2. QED
      BY <3>1, PlanFollows DEF RecordInv
  <2>2. \/ job'[w].next.version = job[w].seen.version + 1
        \/ job'[w].next.version = job[w].seen.version + 1 + 1
    BY <1>1, <2>1 DEF PlanAt, AfterPlan
  <2>3. QED
    BY <1>5, <1>6, <1>8, <2>2
<1>9. QED
  BY <1>7, <1>8

\* A write that goes on keeps to its plan, and one that will collide does not
\* come past its own snapshot.
LEMMA RollbackKept ==
  ASSUME TypeInv, RecordInv, Kept, NEW x \in Writer, RollbackAt(x),
         pc[x] \in AfterPlan, job'[x] = job[x],
         \/ pc'[x] = pc[x]
         \/ Creates(x)
         \/ AuditSeed(x) \/ AuditChange(x)
  PROVE  RollbackAt(x)'
<1>1. LocaleOf(x)' = LocaleOf(x) /\ (Taken(x) => Taken(x)')
  BY TakenKept DEF LocaleOf
<1>2. SUFFICES ASSUME job[x].request.change.op = "rollback"
               PROVE  /\ \E s \in Recorded(LocaleOf(x), job[x].request.change.to)' :
                           s.entries = job[x].next.entries
                      /\ \/ job[x].request.change.to < job[x].next.version
                         \/ Taken(x)' /\ ~Owns(x)'
  BY <1>1 DEF RollbackAt
<1>3. PICK l, v : l = LocaleOf(x) /\ v = job[x].request.change.to
  OBVIOUS
<1>4. \E s \in Recorded(l, v) : s.entries = job[x].next.entries
  BY <1>2, <1>3 DEF RollbackAt
<1>5. Recorded(l, v)' = Recorded(l, v)
  BY <1>4 DEF Kept
<1>6. Recorded(l, v)' = Recorded(LocaleOf(x), job[x].request.change.to)'
  BY <1>1, <1>3
<1>7. ASSUME Taken(x), ~Owns(x)
      PROVE  ~Owns(x)'
  <2>1. CASE pc'[x] = pc[x] \/ AuditSeed(x) \/ AuditChange(x)
    BY <1>7, <2>1, Proceeds DEF Owns
  <2>2. CASE WriteSeed(x) /\ Recorded(job[x].seed.locale, job[x].seed.version) = {}
    <3>1. pc[x] = "seed" /\ pc'[x] = "seedAudit"
      BY <2>2, Proceeds
    <3>2. job[x].seed.locale = LocaleOf(x)
      BY <3>1, MutationTypes DEF MutationStep
    <3>3. job[x].seed.version # job[x].seen.version + 1
      BY <1>7, <2>2, <3>2 DEF Taken
    <3>4. QED
      BY <3>1, <3>3 DEF Owns
  <2>3. ASSUME WriteSnapshot(x), Recorded(LocaleOf(x), job[x].next.version) = {} PROVE FALSE
    <3>1. pc[x] = "snapshot"
      BY <2>3, Proceeds
    <3>2. PlanAt(pc[x], job[x])
      BY DEF RecordInv, PlanOK
    <3>3. job[x].seen.version \in Nat
      BY <3>1, MutationTypes DEF MutationStep, Catalog, Version
    <3>4. job[x].seed = NoSeed \/ job[x].seed.version # job[x].seen.version + 1
      BY <1>7, <3>1 DEF Owns
    <3>5. job[x].next.version = job[x].seen.version + 1
      BY <3>1, <3>2, <3>3, <3>4 DEF PlanAt, AfterPlan
    <3>6. QED
      BY <1>7, <2>3, <3>5 DEF Taken
  <2>4. QED
    BY <2>1, <2>2, <2>3 DEF Creates
<1>8. job[x].request.change.to < job[x].next.version \/ (Taken(x)' /\ ~Owns(x)')
  BY <1>1, <1>2, <1>7 DEF RollbackAt
<1>9. QED
  BY <1>4, <1>5, <1>6, <1>8

LEMMA RollbackPlansPreserved ==
  ASSUME TypeInv, RecordInv, RollbackInv, [Next]_vars, NEW x \in Writer
  PROVE  RollbackAt(x)'
<1>1. RollbackAt(x) /\ NoGap
  BY DEF RollbackInv
<1>2. CASE pc'[x] \notin AfterPlan
  BY <1>2 DEF RollbackAt
<1>3. CASE Kept /\ Move(x)
  <2>1. CASE ~Engaged(x)' \/ ReadCurrent(x) \/ Admit(x)
    <3>1. ReadCurrent(x) => pc'[x] = "check"
      BY DEF ReadCurrent, Goto, TypeInv, TypeOK
    <3>2. Admit(x) => pc'[x] = "reconcile"
      BY Proceeds
    <3>3. QED
      BY <1>2, <2>1, <3>1, <3>2 DEF Engaged, MutationStep, AfterPlan
  <2>2. ASSUME NEW found \in {Recorded(LocaleOf(x), job[x].seen.version), {}}, Plan(x, found)
        PROVE  RollbackAt(x)'
    BY <1>1, <2>2, PlanRestores
  <2>3. CASE Creates(x) \/ AuditSeed(x) \/ AuditChange(x)
    <3>1. pc[x] \in AfterPlan /\ job' = job
      BY <2>3, Proceeds DEF Creates, AfterPlan
    <3>2. QED
      BY <1>1, <1>3, <2>3, <3>1, RollbackKept
  <2>4. QED
    BY <1>3, <2>1, <2>2, <2>3, MoveKinds DEF Creates
<1>4. CASE Kept /\ pc'[x] = pc[x] /\ job'[x] = job[x]
  BY <1>1, <1>2, <1>4, RollbackKept
<1>5. CASE \E l \in Locale : \E s \in history : RemoveOrphan(l, s)
  <2>1. PICK l \in Locale, s \in history : RemoveOrphan(l, s)
    BY <1>5
  <2>2. pc' = pc /\ job' = job
    BY <2>1 DEF RemoveOrphan
  <2>3. CASE Engaged(x)
    BY <1>1, <2>1, <2>2, <2>3, OrphanElsewhere DEF RollbackAt
  <2>4. CASE ~Engaged(x)
    BY <1>2, <2>2, <2>4 DEF Engaged, MutationStep, AfterPlan
  <2>5. QED
    BY <2>3, <2>4
<1>6. CASE pc'[x] = "idle"
  BY <1>2, <1>6 DEF AfterPlan
<1>7. QED
  BY <1>3, <1>4, <1>5, <1>6, HistorySteps, MovesAlone, CrashEnds, PersonAlone, StepKinds DEF vars

\* What a rollback restored stays: it is below a version that went live.
LEMMA RestoredPreserved ==
  ASSUME TypeInv, RecordInv, RollbackInv, [Next]_vars, NEW a \in applied'
  PROVE  RestoredAt(a)'
<1>1. CASE a \in applied /\ Kept
  <2>1. RestoredAt(a)
    BY <1>1 DEF RollbackInv
  <2>2. QED
    BY <1>1, <2>1 DEF RestoredAt, Kept
<1>2. ASSUME NEW l \in Locale, NEW s \in history, RemoveOrphan(l, s), a \in applied
      PROVE  RestoredAt(a)'
  <2>1. Latest(l, s) /\ history' = history \ {s}
    BY <1>2 DEF RemoveOrphan
  <2>2. RestoredAt(a)
    BY <1>2 DEF RollbackInv
  <2>3. PICK t \in history : t.locale = a.locale /\ t.version = a.after.version
    BY <1>2 DEF RecordInv, AppliedIsRecorded, Recorded
  <2>4. s.locale = a.locale => a.after.version <= s.version
    BY <2>1, <2>3 DEF Latest
  <2>5. a.after.version \in Nat /\ s.version \in Nat /\ a \in Applied
    BY <1>2, <2>3 DEF TypeInv, TypeOK, Snapshot, Version
  <2>6. ASSUME a.change.op = "rollback" PROVE Recorded(a.locale, a.change.to)' = Recorded(a.locale, a.change.to)
    <3>1. a.change.to < a.after.version /\ a.change.to \in Nat
      <4>1. a.change.to \in Named
        BY <2>5, <2>6 DEF Applied, Change
      <4>2. QED
        BY <2>2, <2>6, <4>1, NamedAssumption DEF RestoredAt, Version
    <3>2. s.locale = a.locale => s.version # a.change.to
      BY <2>4, <2>5, <3>1
    <3>3. QED
      BY <2>1, <3>2 DEF Recorded
  <2>7. QED
    BY <2>2, <2>6 DEF RestoredAt
<1>3. CASE a \notin applied
  <2>1. PICK w \in Writer : WriteCurrent(w)
    BY <1>3, AppliedGrows
  <2>2. /\ a.locale = LocaleOf(w) /\ a.after = job[w].next
        /\ a.change = job[w].request.change
        /\ history' = history
        /\ pc[w] = "current"
    BY <1>3, <2>1 DEF WriteCurrent
  <2>3. RollbackAt(w) /\ Owns(w)
    BY <2>2 DEF RollbackInv, Owns
  <2>4. RestoredAt(a)
    BY <2>2, <2>3 DEF RollbackAt, RestoredAt, AfterPlan
  <2>5. QED
    BY <2>2, <2>4 DEF RestoredAt, Recorded
<1>4. QED
  BY <1>1, <1>2, <1>3, HistorySteps

LEMMA RollbackPreserved ==
  TypeInv /\ RecordInv /\ OwnerInv /\ RollbackInv /\ [Next]_vars => RollbackInv'
<1>1. RollbackInv => NoGap
  BY DEF RollbackInv
<1>2. QED
  BY <1>1, NoGapPreserved, RollbackPlansPreserved, RestoredPreserved DEF RollbackInv

LEMMA InitRollback == Init => RollbackInv
<1> SUFFICES ASSUME Init PROVE RollbackInv
  OBVIOUS
<1>1. \A w \in Writer : pc[w] = "idle"
  BY DEF Init
<1>2. QED
  BY <1>1 DEF Init, RollbackInv, NoGap, NoGapAt, RollbackAt, AfterPlan

LEMMA RollbackInvariant == Spec => []RollbackInv
  BY TypeInvariant, RecordInvariant, OwnerInvariant, InitRollback, RollbackPreserved, PTL DEF Spec

\* RollbackAsync L136-146: what a rollback makes live is the snapshot it names,
\* which then stays, although others may write to the history it has looked
\* into, in any number of processes, and people edit the files meanwhile.
THEOREM RollbacksRestore == Spec => []RollbackRestores
<1>1. RollbackInv => RollbackRestores
  BY DEF RollbackInv, RestoredAt, RollbackRestores
<1>2. QED
  BY <1>1, RollbackInvariant, PTL

-----------------------------------------------------------------------------
(* The gate.                                                               *)

\* With respect to the gate a move stays outside, enters, stays inside, or
\* leaves and releases.
LEMMA GateMoves ==
  ASSUME TypeInv, NEW w \in Writer, Move(w)
  PROVE  \/ pc[w] \notin InGate /\ pc'[w] \notin InGate /\ permits' = permits
         \/ /\ pc[w] \notin InGate /\ pc'[w] \in InGate
            /\ permits[Host[w]] > 0
            /\ permits' = [permits EXCEPT ![Host[w]] = @ - 1]
         \/ pc[w] \in InGate /\ pc'[w] \in InGate /\ permits' = permits
         \/ /\ pc[w] \in InGate /\ pc'[w] \notin InGate
            /\ permits' = [permits EXCEPT ![Host[w]] = @ + 1]
<1> USE DEF InGate, MutationStep, ConfigStep
<1>1. pc \in [Writer -> {"idle", "waiting"} \union InGate]
  BY DEF TypeInv, TypeOK
<1>2. ASSUME pc[w] \in InGate, Leave(w)
      PROVE  /\ pc'[w] \notin InGate
             /\ permits' = [permits EXCEPT ![Host[w]] = @ + 1]
  BY <1>1, <1>2 DEF Leave, Goto
<1>3. ASSUME NEW step \in InGate, Goto(w, step), UNCHANGED permits
      PROVE  pc'[w] \in InGate /\ permits' = permits
  BY <1>1, <1>3 DEF Goto
<1>4. CASE Client(w)
  BY <1>1, <1>4 DEF Client, Submit, Cancel, Goto
<1>5. CASE Enter(w)
  BY <1>1, <1>5 DEF Enter, Goto
<1>6. CASE RefuseUnknown(w) \/ RefuseStale(w) \/ WriteCurrent(w) \/ AuditConfig(w)
           \/ AuditBusy(w) \/ DiskFault(w) \/ TearAppend(w)
  <2>1. pc[w] \in InGate /\ Leave(w)
    BY <1>6 DEF RefuseUnknown, RefuseStale, WriteCurrent, AuditConfig, AuditBusy, AuditStep,
                DiskFault, TearAppend
  <2>2. QED
    BY <1>2, <2>1
<1>7. CASE ReadCurrent(w) \/ Admit(w) \/ AuditSeed(w) \/ AuditChange(w) \/ WriteConfig(w)
  <2>1. pc[w] \in InGate /\ permits' = permits
    BY <1>7 DEF ReadCurrent, Admit, AuditSeed, AuditChange, WriteConfig
  <2>2. \E step \in InGate : Goto(w, step)
    BY <1>7 DEF ReadCurrent, Admit, AuditSeed, AuditChange, WriteConfig
  <2>3. QED
    BY <1>3, <2>1, <2>2
<1>8. ASSUME NEW found, Plan(w, found)
      PROVE  pc[w] \in InGate /\ pc'[w] \in InGate /\ permits' = permits
  <2>1. pc[w] = "reconcile" /\ permits' = permits /\ \E step \in {"snapshot", "seed"} : Goto(w, step)
    BY <1>8 DEF Plan
  <2>2. QED
    BY <1>3, <2>1
<1>9. ASSUME NEW found, RefuseChange(w, found)
      PROVE  pc[w] \in InGate /\ Leave(w)
  BY <1>9 DEF RefuseChange
<1>10. CASE ReconcileAndApply(w) \/ ReconcileUnreadable(w)
  BY <1>2, <1>8, <1>9, <1>10 DEF ReconcileAndApply, ReconcileUnreadable
<1>11. ASSUME NEW s, NEW step \in InGate, CreateSnapshot(w, s, step)
       PROVE  Leave(w) \/ (Goto(w, step) /\ UNCHANGED permits)
  BY <1>11 DEF CreateSnapshot
<1>12. CASE WriteSeed(w) \/ WriteSnapshot(w)
  <2>1. pc[w] \in InGate
    BY <1>12 DEF WriteSeed, WriteSnapshot
  <2>2. Leave(w) \/ \E step \in InGate : Goto(w, step) /\ UNCHANGED permits
    BY <1>11, <1>12 DEF WriteSeed, WriteSnapshot
  <2>3. QED
    BY <1>2, <1>3, <2>1, <2>2
<1>13. CASE ValidateConfig(w)
  <2>1. pc[w] \in InGate
    BY <1>13 DEF ValidateConfig
  <2>2. Leave(w) \/ (Goto(w, "config") /\ UNCHANGED permits)
    BY <1>13 DEF ValidateConfig
  <2>3. QED
    BY <1>2, <1>3, <2>1, <2>2
<1>14. QED
  BY <1>4, <1>5, <1>6, <1>7, <1>10, <1>12, <1>13 DEF Move, Step

LEMMA InitGate == Init => GateInv
<1> SUFFICES ASSUME Init, NEW p \in Process PROVE GateAt(p)
  BY DEF GateInv
<1>1. Holders(p) = {}
  BY DEF Init, Holders, InGate, MutationStep, ConfigStep
<1>2. permits[p] = 1
  BY DEF Init
<1>3. QED
  BY <1>1, <1>2 DEF GateAt

LEMMA GatePreserved == TypeInv /\ GateInv /\ [Next]_vars => GateInv'
<1> SUFFICES ASSUME TypeInv, GateInv, [Next]_vars, NEW p \in Process PROVE GateAt(p)'
  BY DEF GateInv
<1>1. permits \in [Process -> Nat] /\ \A w \in Writer : Host[w] \in Process
  BY HostAssumption DEF TypeInv, TypeOK
<1>2. GateAt(p)
  BY DEF GateInv
<1>3. ASSUME permits'[p] = permits[p],
             \A x \in Writer : Host[x] = p => (pc'[x] \in InGate <=> pc[x] \in InGate)
      PROVE  GateAt(p)'
  <2>1. Holders(p)' = Holders(p)
    BY <1>3 DEF Holders
  <2>2. QED
    BY <1>2, <1>3, <2>1 DEF GateAt
<1>4. ASSUME NEW w \in Writer, Move(w)
      PROVE  GateAt(p)'
  <2>1. \A x \in Writer : x # w => pc'[x] = pc[x]
    BY <1>4, MovesAlone
  <2>2. CASE Host[w] # p
    <3>1. permits'[p] = permits[p]
      BY <1>1, <1>4, <2>2, GateMoves
    <3>2. \A x \in Writer : Host[x] = p => pc'[x] = pc[x]
      BY <2>1, <2>2
    <3>3. QED
      BY <1>3, <3>1, <3>2
  <2>3. CASE Host[w] = p /\ permits' = permits /\ (pc'[w] \in InGate <=> pc[w] \in InGate)
    BY <1>3, <2>1, <2>3
  <2>4. CASE /\ Host[w] = p /\ pc[w] \notin InGate /\ pc'[w] \in InGate
             /\ permits[p] > 0 /\ permits' = [permits EXCEPT ![p] = @ - 1]
    <3>1. permits[p] = 1 /\ Holders(p) = {}
      BY <1>2, <2>4 DEF GateAt
    <3>2. permits'[p] = 0
      BY <1>1, <2>4, <3>1
    <3>3. Holders(p)' = {w}
      BY <2>1, <2>4, <3>1 DEF Holders
    <3>4. QED
      BY <3>2, <3>3 DEF GateAt
  <2>5. CASE /\ Host[w] = p /\ pc[w] \in InGate /\ pc'[w] \notin InGate
             /\ permits' = [permits EXCEPT ![p] = @ + 1]
    <3>1. w \in Holders(p)
      BY <2>5 DEF Holders
    <3>2. permits[p] = 0 /\ Holders(p) = {w}
      BY <1>2, <3>1 DEF GateAt
    <3>3. permits'[p] = 1
      BY <1>1, <2>5, <3>2
    <3>4. Holders(p)' = {}
      BY <2>1, <2>5, <3>2 DEF Holders
    <3>5. QED
      BY <3>3, <3>4 DEF GateAt
  <2>6. QED
    BY <1>4, <2>2, <2>3, <2>4, <2>5, GateMoves
<1>5. ASSUME NEW q \in Process, Crash(q)
      PROVE  GateAt(p)'
  <2>1. /\ pc' = [x \in Writer |-> IF Host[x] = q THEN "idle" ELSE pc[x]]
        /\ permits' = [permits EXCEPT ![q] = 1]
    BY <1>5 DEF Crash
  <2>2. CASE p = q
    <3>1. Holders(p)' = {}
      BY <2>1, <2>2 DEF Holders, InGate, MutationStep, ConfigStep
    <3>2. permits'[p] = 1
      BY <1>1, <2>1, <2>2
    <3>3. QED
      BY <3>1, <3>2 DEF GateAt
  <2>3. CASE p # q
    BY <1>1, <1>3, <2>1, <2>3
  <2>4. QED
    BY <2>2, <2>3
<1>6. CASE Person \/ UNCHANGED vars
  BY <1>3, <1>6, PersonAlone DEF vars
<1>7. QED
  BY <1>4, <1>5, <1>6, StepKinds

LEMMA GateCounts == GateInv => GateIsMutex
<1> SUFFICES ASSUME GateInv, NEW p \in Process
             PROVE  permits[p] + Cardinality(Holders(p)) = 1
  BY DEF GateIsMutex, Holders
<1>1. CASE permits[p] = 1 /\ Holders(p) = {}
  <2>1. Cardinality(Holders(p)) = 0
    BY <1>1, FS_EmptySet
  <2>2. QED
    BY <1>1, <2>1
<1>2. ASSUME NEW w \in Writer, permits[p] = 0, Holders(p) = {w}
      PROVE  permits[p] + Cardinality(Holders(p)) = 1
  <2>1. Cardinality(Holders(p)) = 1
    BY <1>2, FS_Singleton
  <2>2. QED
    BY <1>2, <2>1
<1>3. QED
  BY <1>1, <1>2 DEF GateInv, GateAt

\* At most one mutation of a process is between its WaitAsync and its finally
\* block (L184-215, L152-173), and when none is, the gate is open: no refusal,
\* exception, torn append, cancelled wait or restart leaks a permit.
THEOREM GateNeverLeaks == Spec => []GateIsMutex
  BY TypeInvariant, InitGate, GatePreserved, GateCounts, PTL DEF Spec

\* The inductive invariant, whole: types, records, audit lines, owners,
\* rollbacks and the gate support each other (MutateAsync, L178-216).
THEOREM StoreInvariant == Spec => []IInv
<1>1. TypeInv /\ RecordInv /\ AuditInv /\ OwnerInv /\ RollbackInv /\ GateInv => IInv
  BY DEF IInv
<1>2. QED
  BY <1>1, TypeInvariant, RecordInvariant, OwnerInvariant, RollbackInvariant, InitAudit,
     AuditPreserved, InitGate, GatePreserved, PTL DEF Spec

-----------------------------------------------------------------------------
(* One process, without a fault.                                           *)

OneProcess == \A p, q \in Process : p = q

\* The gate lets one writer in.
LEMMA OneInside ==
  ASSUME TypeInv, GateInv, OneProcess, NEW w \in Writer, NEW x \in Writer,
         pc[w] \in InGate, pc[x] \in InGate
  PROVE  w = x
<1>1. Host[w] \in Process /\ Host[x] = Host[w]
  BY HostAssumption DEF OneProcess
<1>2. w \in Holders(Host[w]) /\ x \in Holders(Host[w])
  BY <1>1 DEF Holders
<1>3. QED
  BY <1>1, <1>2 DEF GateInv, GateAt

\* A step that is no fault, and after which there was none.
LEMMA FaultsCount ==
  ASSUME TypeInv, [Next]_vars, spent'.faults = 0
  PROVE  /\ spent.faults = 0
         /\ \A w \in Writer : ~ReconcileUnreadable(w) /\ ~DiskFault(w) /\ ~TearAppend(w)
         /\ \A p \in Process : ~Crash(p)
<1>1. spent \in [requests: Nat, faults: Nat, edits: Nat]
  BY DEF TypeInv, TypeOK
<1>2. ASSUME NEW limit, Spend("faults", limit)
      PROVE  FALSE
  BY <1>1, <1>2 DEF Spend
<1>3. ASSUME NEW limit, NEW kind \in {"requests", "edits"}, Spend(kind, limit)
      PROVE  spent.faults = 0
  BY <1>1, <1>3 DEF Spend
<1>4. /\ \A w \in Writer : ~ReconcileUnreadable(w) /\ ~DiskFault(w) /\ ~TearAppend(w)
      /\ \A p \in Process : ~Crash(p)
  BY <1>2 DEF ReconcileUnreadable, DiskFault, TearAppend, Crash
<1>5. ASSUME NEW w \in Writer, Client(w) \/ Enter(w)
      PROVE  spent.faults = 0
  BY <1>3, <1>5 DEF Client, Submit, Cancel, Enter
<1>6. ASSUME NEW w \in Writer, Step(w)
      PROVE  UNCHANGED spent
  <2>1. CASE RefuseUnknown(w) \/ ReadCurrent(w) \/ RefuseStale(w) \/ Admit(w) \/ ReconcileAndApply(w)
    BY <2>1 DEF RefuseUnknown, ReadCurrent, RefuseStale, Admit, ReconcileAndApply
  <2>2. CASE WriteSeed(w) \/ AuditSeed(w) \/ WriteSnapshot(w) \/ AuditChange(w) \/ WriteCurrent(w)
    BY <2>2 DEF WriteSeed, AuditSeed, WriteSnapshot, AuditChange, WriteCurrent
  <2>3. CASE ValidateConfig(w) \/ WriteConfig(w) \/ AuditConfig(w) \/ AuditBusy(w)
    BY <2>3 DEF ValidateConfig, WriteConfig, AuditConfig, AuditBusy
  <2>4. QED
    BY <1>6, <2>1, <2>2, <2>3 DEF Step
<1>7. CASE Person
  <2>1. ASSUME NEW l, NEW file, HandEdit(l, file) \/ HandDrop(l, file)
        PROVE  spent.faults = 0
    BY <1>3, <2>1 DEF HandEdit, HandDrop
  <2>2. ASSUME NEW l, NEW s, RemoveOrphan(l, s) \/ RestoreLatest(l, s)
        PROVE  UNCHANGED spent
    BY <2>2 DEF RemoveOrphan, RestoreLatest
  <2>3. QED
    BY <1>4, <1>7, <2>1, <2>2 DEF Person
<1>8. QED
  BY <1>4, <1>5, <1>6, <1>7 DEF Next, Fault, vars

\* A write of the one process that ends without a fault ends before its first
\* snapshot, or by going live.
LEMMA EndsWell ==
  ASSUME TypeInv, GateInv, OneProcess, [Next]_vars, spent'.faults = 0,
         NEW w \in Writer, UnhurtAt(w), Move(w), Engaged(w), ~Engaged(w)'
  PROVE  (pc[w] \in {"check", "reconcile"} /\ UNCHANGED <<history, applied>>) \/ WriteCurrent(w)
<1>1. pc \in [Writer -> {"idle", "waiting"} \union InGate]
  BY DEF TypeInv, TypeOK
<1>2. pc[w] \in {"check", "reconcile", "seed", "seedAudit", "snapshot", "audit", "current"}
  BY DEF Engaged, MutationStep
<1>3. ~ReconcileUnreadable(w) /\ ~DiskFault(w) /\ ~TearAppend(w)
  BY FaultsCount
<1>4. ~Client(w) /\ ~Enter(w)
  BY <1>2 DEF Client, Submit, Cancel, Enter
<1>5. ~AuditBusy(w)
  BY HostAssumption DEF AuditBusy, OneProcess
<1>6. CASE RefuseUnknown(w) \/ ReadCurrent(w) \/ ValidateConfig(w) \/ WriteConfig(w) \/ AuditConfig(w)
  BY <1>2, <1>6 DEF RefuseUnknown, ReadCurrent, ValidateConfig, WriteConfig, AuditConfig
<1>7. CASE RefuseStale(w) \/ Admit(w) \/ ReconcileAndApply(w)
  BY <1>7 DEF RefuseStale, Admit, ReconcileAndApply, Plan, RefuseChange, disk
<1>8. CASE AuditSeed(w) \/ AuditChange(w)
  <2>1. pc'[w] \in AfterPlan
    BY <1>8, Proceeds DEF AfterPlan
  <2>2. QED
    BY <2>1 DEF Engaged, AfterPlan, MutationStep
<1>9. CASE WriteSeed(w)
  <2>1. pc[w] = "seed"
    BY <1>9 DEF WriteSeed
  <2>2. job[w].seed \in Snapshot /\ job[w].seed.locale = LocaleOf(w)
    BY <2>1, MutationTypes DEF MutationStep
  <2>3. Recorded(job[w].seed.locale, job[w].seed.version) = {}
    BY <2>1, <2>2 DEF UnhurtAt, AllBelow, Recorded, Snapshot, Version
  <2>4. pc'[w] = "seedAudit"
    BY <1>9, <2>3, Proceeds
  <2>5. QED
    BY <2>4 DEF Engaged, MutationStep
<1>10. CASE WriteSnapshot(w)
  <2>1. pc[w] = "snapshot"
    BY <1>10 DEF WriteSnapshot
  <2>2. job[w].next \in Catalog
    BY <2>1, MutationTypes DEF MutationStep, AfterPlan
  <2>3. Recorded(LocaleOf(w), job[w].next.version) = {}
    BY <2>1, <2>2 DEF UnhurtAt, AllBelow, Recorded, Catalog, Version
  <2>4. pc'[w] = "audit"
    BY <1>10, <2>3, Proceeds
  <2>5. QED
    BY <2>4 DEF Engaged, MutationStep
<1>11. QED
  BY <1>3, <1>4, <1>5, <1>6, <1>7, <1>8, <1>9, <1>10 DEF Move, Step

\* What a write that goes on leaves behind for its next step.
LEMMA GoesOnWell ==
  ASSUME TypeInv, RecordInv, [Next]_vars, spent'.faults = 0, NEW w \in Writer, Move(w), UnhurtAt(w),
         pc[w] = "read" => Settled(LocaleOf(w))
  PROVE  UnhurtAt(w)'
<1>1. PlanAt(pc[w], job[w])
  BY DEF RecordInv, PlanOK
<1>2. \A s \in history : s.version \in Nat
  BY DEF TypeInv, TypeOK, Snapshot, Version
<1>3. CASE ~Engaged(w)'
  BY <1>3 DEF UnhurtAt, Engaged, MutationStep
<1>4. CASE ReadCurrent(w)
  <2>1. /\ pc[w] = "read" /\ pc'[w] = "check" /\ UNCHANGED <<history, applied>>
        /\ job'[w].request = job[w].request
    BY <1>4 DEF ReadCurrent, Goto, TypeInv, TypeOK, disk, Job
  <2>2. LocaleOf(w)' = LocaleOf(w)
    BY <2>1 DEF LocaleOf
  <2>3. Settled(LocaleOf(w))'
    BY <2>1, <2>2 DEF Settled, Latest, WentLive
  <2>4. QED
    BY <2>1, <2>3 DEF UnhurtAt
<1>5. CASE Admit(w)
  <2>1. /\ pc[w] = "check" /\ pc'[w] = "reconcile" /\ job' = job /\ UNCHANGED <<history, applied>>
        /\ ~Ahead(LocaleOf(w), job[w].seen.version)
    BY <1>5, Proceeds DEF Admit, Admissible
  <2>2. LocaleOf(w)' = LocaleOf(w) /\ job[w].seen.version \in Nat
    BY <2>1, MutationTypes DEF LocaleOf, MutationStep, Catalog, Version
  <2>3. Settled(LocaleOf(w))'
    BY <2>1, <2>2 DEF Settled, Latest, WentLive, UnhurtAt
  <2>4. AllBelow(LocaleOf(w), job[w].seen.version + 1)'
    BY <1>2, <2>1, <2>2 DEF AllBelow, Ahead
  <2>5. QED
    BY <2>1, <2>3, <2>4 DEF UnhurtAt
<1>6. ASSUME NEW found, Plan(w, found), found = Recorded(LocaleOf(w), job[w].seen.version)
      PROVE  UnhurtAt(w)'
  <2> DEFINE seen == job[w].seen
  <2>1. /\ pc[w] = "reconcile"
        /\ pc'[w] = IF job'[w].seed = NoSeed THEN "snapshot" ELSE "seed"
        /\ job'[w].request = job[w].request /\ job'[w].seen = seen
        /\ job'[w].seed = SeedFor(LocaleOf(w), found, seen)
        /\ job'[w].next = Minted(LocaleOf(w), job[w].request.change, Basis(found, seen))
    BY <1>6, PlanOutcome
  <2>2. LocaleOf(w)' = LocaleOf(w) /\ UNCHANGED history /\ seen \in Catalog
    BY <1>6, <2>1, MutationTypes DEF LocaleOf, MutationStep, Plan, disk
  <2>3. seen.version \in Nat /\ AllBelow(LocaleOf(w), seen.version + 1)
    BY <2>1, <2>2 DEF UnhurtAt, Catalog, Version
  <2>4. PlanAt(pc'[w], job'[w])
    <3>1. found \in SUBSET Snapshot
      BY <1>6 DEF Recorded, TypeInv, TypeOK
    <3>2. QED
      BY <1>6, <3>1, PlanFollows DEF RecordInv
  <2>5. CASE job'[w].seed = NoSeed
    <3>1. job'[w].next.version = seen.version + 1 /\ pc'[w] = "snapshot"
      BY <2>1, <2>4, <2>5 DEF PlanAt, AfterPlan
    <3>2. QED
      BY <2>2, <2>3, <3>1 DEF UnhurtAt, AllBelow
  <2>6. CASE job'[w].seed # NoSeed
    <3>1. /\ job'[w].seed.version = Basis(found, seen).version
          /\ found = {} \/ Edited(found, seen)
      BY <2>1, <2>6 DEF SeedFor
    <3>2. Edited(found, seen) => Basis(found, seen).version = seen.version + 1
      BY <2>2 DEF Basis, Catalog
    <3>3. ~Edited(found, seen) => Basis(found, seen).version = seen.version
      BY DEF Basis
    <3>4. found = {} => AllBelow(LocaleOf(w), seen.version)
      BY <1>2, <1>6, <2>3 DEF AllBelow, Recorded
    <3>5. AllBelow(LocaleOf(w), job'[w].seed.version)
      BY <2>3, <3>1, <3>2, <3>3, <3>4
    <3>6. pc'[w] = "seed"
      BY <2>1, <2>6
    <3>7. QED
      BY <2>2, <3>5, <3>6 DEF UnhurtAt, AllBelow
  <2>7. QED
    BY <2>5, <2>6
<1>7. CASE WriteSeed(w) /\ Recorded(job[w].seed.locale, job[w].seed.version) = {}
  <2>1. pc[w] = "seed" /\ pc'[w] = "seedAudit" /\ job' = job /\ history' = history \union {job[w].seed}
    BY <1>7, Proceeds
  <2>2. job[w].seed # NoSeed /\ job[w].seed \in Snapshot
    BY <2>1, MutationTypes, SentinelAssumption DEF MutationStep
  <2>3. job[w].next.version = job[w].seed.version + 1 /\ job[w].seed.version \in Nat
    BY <1>1, <2>1, <2>2 DEF PlanAt, AfterPlan, Snapshot, Version
  <2>4. AllBelow(LocaleOf(w), job[w].next.version)'
    BY <1>2, <2>1, <2>3 DEF UnhurtAt, AllBelow, LocaleOf
  <2>5. QED
    BY <2>1, <2>4 DEF UnhurtAt
<1>8. CASE AuditSeed(w) \/ AuditChange(w)
  <2>1. /\ \/ pc[w] = "seedAudit" /\ pc'[w] = "snapshot"
           \/ pc[w] = "audit" /\ pc'[w] = "current"
        /\ job' = job /\ UNCHANGED history
    BY <1>8, Proceeds
  <2>2. QED
    BY <2>1 DEF UnhurtAt, AllBelow, LocaleOf
<1>9. CASE WriteSnapshot(w) /\ Recorded(LocaleOf(w), job[w].next.version) = {}
  <2>1. pc[w] = "snapshot" /\ pc'[w] = "audit" /\ job' = job /\ history' = history \union {NextSnapshot(w)}
    BY <1>9, Proceeds
  <2>2. NextSnapshot(w).version = job[w].next.version /\ job[w].next.version \in Nat
    BY <2>1, MutationTypes DEF NextSnapshot, MutationStep, AfterPlan, Catalog, Version
  <2>3. AllBelow(LocaleOf(w), job[w].next.version + 1)'
    BY <1>2, <2>1, <2>2 DEF UnhurtAt, AllBelow, LocaleOf
  <2>4. QED
    BY <2>1, <2>3 DEF UnhurtAt
<1>10. ASSUME NEW found, Plan(w, found)
       PROVE  \/ ReconcileUnreadable(w)
              \/ found = Recorded(LocaleOf(w), job[w].seen.version)
              \/ \E f : Plan(w, f) /\ f = Recorded(LocaleOf(w), job[w].seen.version)
  <2>1. pc[w] = "reconcile"
    BY <1>10 DEF Plan
  <2>2. ~Client(w) /\ ~Enter(w) /\ ~DiskFault(w) /\ ~TearAppend(w)
    BY <2>1, FaultsCount DEF Client, Submit, Cancel, Enter
  <2>3. CASE Step(w)
    <3>1. ReconcileAndApply(w) \/ AuditBusy(w)
      BY <2>1, <2>3 DEF Step, RefuseUnknown, ReadCurrent, RefuseStale, Admit, WriteSeed, AuditSeed,
                        WriteSnapshot, AuditChange, WriteCurrent, ValidateConfig, WriteConfig, AuditConfig
    <3>2. ~Leave(w)
      <4>1. pc'[w] # "idle"
        BY <1>10, PlanOutcome
      <4>2. QED
        BY <4>1 DEF Leave, Goto, TypeInv, TypeOK
    <3>3. QED
      BY <3>1, <3>2 DEF ReconcileAndApply, RefuseChange, AuditBusy
  <2>4. QED
    BY <2>2, <2>3 DEF Move
<1>11. QED
  BY <1>3, <1>4, <1>5, <1>6, <1>7, <1>8, <1>9, <1>10, MoveKinds, FaultsCount

\* A request that does not move, while history and the live versions stay.
LEMMA StaysUnhurt ==
  ASSUME NEW x \in Writer, UnhurtAt(x), pc'[x] = pc[x], job'[x] = job[x],
         UNCHANGED <<history, applied>>
  PROVE  UnhurtAt(x)'
<1>1. LocaleOf(x)' = LocaleOf(x)
  BY DEF LocaleOf
<1>2. Settled(LocaleOf(x)) => Settled(LocaleOf(x))'
  BY <1>1 DEF Settled, Latest, WentLive
<1>3. QED
  BY <1>1, <1>2 DEF UnhurtAt, AllBelow

\* What was written to one locale settles or unsettles no other.
LEMMA StaysSettled ==
  ASSUME NEW l, Settled(l), applied \subseteq applied',
         \/ UNCHANGED history
         \/ \E s : s.locale # l /\ history' = history \union {s}
  PROVE  Settled(l)'
<1> SUFFICES ASSUME NEW s \in history', Latest(l, s)'
             PROVE  WentLive(s)'
  BY DEF Settled
<1>1. s \in history /\ history \subseteq history'
  BY DEF Latest
<1>2. Latest(l, s)
  BY <1>1 DEF Latest
<1>3. QED
  BY <1>1, <1>2 DEF Settled, WentLive

\* A write that goes on adds at most a snapshot of its own locale.
LEMMA GoesOn ==
  ASSUME TypeInv, NEW w \in Writer, Move(w), Engaged(w)'
  PROVE  /\ pc[w] \in InGate
         /\ LocaleOf(w)' = LocaleOf(w)
         /\ UNCHANGED applied
         /\ \/ UNCHANGED history
            \/ \E s : s.locale = LocaleOf(w) /\ history' = history \union {s}
<1>1. /\ job \in [Writer -> Job]
      /\ pc \in [Writer -> {"idle", "waiting"} \union InGate]
  BY DEF TypeInv, TypeOK
<1>2. NextSnapshot(w).locale = LocaleOf(w)
  BY DEF NextSnapshot
<1>3. CASE ReadCurrent(w)
  <2>1. /\ pc[w] = "read" /\ UNCHANGED <<history, applied>>
        /\ job' = [job EXCEPT ![w].seen = current[LocaleOf(w)]]
    BY <1>3 DEF ReadCurrent, disk
  <2>2. job'[w].request = job[w].request
    BY <1>1, <2>1 DEF Job
  <2>3. QED
    BY <2>1, <2>2 DEF LocaleOf, InGate, MutationStep
<1>4. ASSUME NEW found, Plan(w, found)
      PROVE  /\ pc[w] = "reconcile" /\ job'[w].request = job[w].request
             /\ UNCHANGED <<history, applied>>
  BY <1>4, PlanOutcome DEF Plan, disk
<1>5. CASE \E found : Plan(w, found)
  BY <1>4, <1>5 DEF LocaleOf, InGate, MutationStep
<1>6. CASE Admit(w) \/ AuditSeed(w) \/ AuditChange(w)
  BY <1>6, Proceeds DEF LocaleOf, InGate, MutationStep
<1>7. CASE WriteSeed(w) /\ Recorded(job[w].seed.locale, job[w].seed.version) = {}
  <2>1. pc[w] = "seed" /\ job' = job /\ UNCHANGED applied /\ history' = history \union {job[w].seed}
    BY <1>7, Proceeds
  <2>2. job[w].seed.locale = LocaleOf(w)
    BY <2>1, MutationTypes DEF MutationStep
  <2>3. QED
    BY <2>1, <2>2 DEF LocaleOf, InGate, MutationStep
<1>8. CASE WriteSnapshot(w) /\ Recorded(LocaleOf(w), job[w].next.version) = {}
  <2>1. /\ pc[w] = "snapshot" /\ job' = job /\ UNCHANGED applied
        /\ history' = history \union {NextSnapshot(w)}
    BY <1>8, Proceeds
  <2>2. QED
    BY <1>2, <2>1 DEF LocaleOf, InGate, MutationStep
<1>9. QED
  BY <1>3, <1>5, <1>6, <1>7, <1>8, MoveKinds

\* The version a write makes live is the latest of its locale.
LEMMA LiveIsLatest ==
  ASSUME TypeInv, RecordInv, NEW w \in Writer, UnhurtAt(w), WriteCurrent(w),
         NEW l, l = LocaleOf(w)
  PROVE  Settled(l)'
<1>1. pc[w] = "current" /\ UNCHANGED history /\ \E a \in applied' : a.locale = l /\ a.after = job[w].next
  <2> DEFINE live == [locale |-> LocaleOf(w), change |-> job[w].request.change,
                      ifMatch |-> job[w].request.ifMatch, before |-> job[w].seen, after |-> job[w].next]
  <2>1. pc[w] = "current" /\ UNCHANGED history /\ applied' = applied \union {live}
    BY DEF WriteCurrent
  <2>2. live.locale = l /\ live.after = job[w].next
    OBVIOUS
  <2> HIDE DEF live
  <2>3. QED
    BY <2>1, <2>2
<1>2. Recorded(l, job[w].next.version) = {NextSnapshot(w)}
  BY <1>1 DEF RecordInv, WrittenSoFar, WrittenAt
<1>3. /\ job[w].next.version \in Nat
      /\ \A s \in history : s.version \in Nat
  BY <1>1, MutationTypes DEF MutationStep, AfterPlan, Catalog, Version, TypeInv, TypeOK, Snapshot
<1>4. PICK t \in history : t.locale = l /\ t.version = job[w].next.version
  BY <1>2 DEF Recorded
<1>5. ASSUME NEW s \in history', Latest(l, s)'
      PROVE  WentLive(s)'
  <2>1. s \in history /\ s.locale = l /\ job[w].next.version <= s.version
    BY <1>1, <1>4, <1>5 DEF Latest
  <2>2. s.version < job[w].next.version + 1
    BY <1>1, <2>1 DEF UnhurtAt, AllBelow
  <2>3. s.version = job[w].next.version
    BY <1>3, <2>1, <2>2
  <2>4. QED
    BY <1>1, <2>1, <2>3 DEF WentLive
<1>6. QED
  BY <1>5 DEF Settled

\* A write of the one process leaves the locales at rest settled.
LEMMA MoveSettles ==
  ASSUME OneProcess, TypeInv, RecordInv, GateInv, [Next]_vars, spent'.faults = 0,
         \A l \in Locale : AtRest(l) => Settled(l), NEW w \in Writer, Move(w), UnhurtAt(w),
         NEW l \in Locale, AtRest(l)'
  PROVE  Settled(l)'
<1>1. \A x \in Writer : x # w => pc'[x] = pc[x] /\ job'[x] = job[x]
  BY MovesAlone
<1>2. \A x \in Writer : x # w /\ Engaged(x) => LocaleOf(x) # l
  BY <1>1 DEF AtRest, Engaged, LocaleOf
<1>3. ~Engaged(w) \/ LocaleOf(w) # l => Settled(l)
  BY <1>2 DEF AtRest, Engaged
<1>4. CASE Engaged(w)'
  <2>1. LocaleOf(w) # l
    BY <1>4, GoesOn DEF AtRest, Engaged
  <2>2. QED
    BY <1>3, <1>4, <2>1, GoesOn, StaysSettled
<1>5. CASE ~Engaged(w)' /\ ~Engaged(w)
  <2>1. UNCHANGED <<history, applied>>
    <3>1. ASSUME NEW found, Plan(w, found)
          PROVE  Engaged(w)
      BY <3>1 DEF Plan, Engaged, MutationStep
    <3>2. ReadCurrent(w) => Engaged(w)'
      BY DEF ReadCurrent, Goto, Engaged, MutationStep, TypeInv, TypeOK
    <3>3. WriteCurrent(w) \/ Admit(w) \/ WriteSeed(w) \/ AuditSeed(w) \/ WriteSnapshot(w) \/ AuditChange(w)
            => Engaged(w)
      BY DEF WriteCurrent, Admit, WriteSeed, AuditSeed, WriteSnapshot, AuditChange, Engaged, MutationStep
    <3>4. QED
      BY <1>5, <3>1, <3>2, <3>3, MoveKinds
  <2>2. QED
    BY <1>3, <1>5, <2>1, StaysSettled
<1>6. CASE ~Engaged(w)' /\ Engaged(w)
  <2>1. CASE pc[w] \in {"check", "reconcile"} /\ UNCHANGED <<history, applied>>
    <3>1. Settled(l)
      BY <1>3, <2>1 DEF UnhurtAt
    <3>2. QED
      BY <2>1, <3>1, StaysSettled
  <2>2. CASE WriteCurrent(w) /\ LocaleOf(w) = l
    BY <2>2, LiveIsLatest
  <2>3. CASE WriteCurrent(w) /\ LocaleOf(w) # l
    BY <1>3, <2>3, StaysSettled DEF WriteCurrent
  <2>4. QED
    BY <1>6, <2>1, <2>2, <2>3, EndsWell
<1>7. QED
  BY <1>4, <1>5, <1>6

LEMMA UnhurtPreserved ==
  ASSUME OneProcess, TypeInv, RecordInv, GateInv, UnhurtInv, [Next]_vars
  PROVE  UnhurtInv'
<1> SUFFICES ASSUME spent'.faults = 0
             PROVE  (\A l \in Locale : AtRest(l)' => Settled(l)') /\ (\A x \in Writer : UnhurtAt(x)')
  BY DEF UnhurtInv
<1>1. spent.faults = 0 /\ \A p \in Process : ~Crash(p)
  BY FaultsCount
<1>2. (\A l \in Locale : AtRest(l) => Settled(l)) /\ (\A x \in Writer : UnhurtAt(x))
  BY <1>1 DEF UnhurtInv
<1>3. ASSUME NEW w \in Writer, Move(w)
      PROVE  (\A l \in Locale : AtRest(l)' => Settled(l)') /\ (\A x \in Writer : UnhurtAt(x)')
  <2>1. \A x \in Writer : x # w => pc'[x] = pc[x] /\ job'[x] = job[x]
    BY <1>3, MovesAlone
  <2>2. \A l \in Locale : AtRest(l)' => Settled(l)'
    BY <1>2, <1>3, MoveSettles
  <2>3. CASE pc[w] \in InGate
    <3>1. ASSUME NEW x \in Writer, x # w
          PROVE  UnhurtAt(x)'
      <4>1. pc[x] \notin InGate
        BY <2>3, <3>1, OneInside
      <4>2. pc'[x] \notin InGate
        BY <2>1, <3>1, <4>1
      <4>3. QED
        BY <4>2 DEF UnhurtAt, InGate, MutationStep
    <3>2. pc[w] = "read" => Settled(LocaleOf(w))
      <4>1. ASSUME pc[w] = "read" PROVE LocaleOf(w) \in Locale /\ AtRest(LocaleOf(w))
        <5>1. LocaleOf(w) \in Locale
          BY <4>1, MutationTypes DEF MutationStep
        <5>2. \A x \in Writer : pc[x] \notin MutationStep \ {"read"}
          BY <2>3, <4>1, OneInside DEF InGate
        <5>3. QED
          BY <5>1, <5>2 DEF AtRest
      <4>2. QED
        BY <1>2, <4>1
    <3>3. UnhurtAt(w)'
      BY <1>2, <1>3, <3>2, GoesOnWell
    <3>4. QED
      BY <2>2, <3>1, <3>3
  <2>4. CASE pc[w] \notin InGate
    <3>1. Client(w) \/ Enter(w)
      BY <1>3, <2>4 DEF Move, Step, InGate, MutationStep, ConfigStep, RefuseUnknown, ReadCurrent,
           RefuseStale, Admit, ReconcileAndApply, Plan, RefuseChange, WriteSeed, AuditSeed,
           WriteSnapshot, AuditChange, WriteCurrent, ValidateConfig, WriteConfig, AuditConfig,
           AuditBusy, AuditStep, ReconcileUnreadable, DiskFault, TearAppend
    <3>2. UNCHANGED <<history, applied>>
      BY <3>1 DEF Client, Submit, Cancel, Enter, disk
    <3>3. ~Engaged(w)'
      BY <1>3, <2>4, GoesOn
    <3>4. UnhurtAt(w)'
      BY <3>3 DEF UnhurtAt, Engaged, MutationStep
    <3>5. \A x \in Writer : x # w => UnhurtAt(x)'
      BY <1>2, <2>1, <3>2, StaysUnhurt
    <3>6. QED
      BY <2>2, <3>4, <3>5
  <2>5. QED
    BY <2>3, <2>4
<1>4. ASSUME UNCHANGED <<pc, job, history, applied>>
      PROVE  (\A l \in Locale : AtRest(l)' => Settled(l)') /\ (\A x \in Writer : UnhurtAt(x)')
  <2>1. \A l \in Locale : AtRest(l)' => AtRest(l)
    BY <1>4 DEF AtRest, LocaleOf
  <2>2. QED
    BY <1>2, <1>4, <2>1, StaysUnhurt, StaysSettled
<1>5. CASE Person
  <2>1. ASSUME NEW l \in Locale, NEW s \in history, RemoveOrphan(l, s)
        PROVE  FALSE
    BY <1>2, <2>1 DEF RemoveOrphan, Settled
  <2>2. UNCHANGED history
    BY <1>5, <2>1 DEF Person, HandEdit, HandDrop, RestoreLatest
  <2>3. QED
    BY <1>4, <1>5, <2>2, PersonAlone
<1>6. CASE UNCHANGED vars
  BY <1>4, <1>6 DEF vars, disk
<1>7. QED
  BY <1>1, <1>3, <1>5, <1>6, StepKinds

LEMMA InitUnhurt == Init => UnhurtInv
  BY DEF Init, UnhurtInv, UnhurtAt, Settled

\* No lockout without a fault (MutateAsync L192-208): with one process serving
\* the folder, a locale that nobody is writing to refuses writes only after a
\* fault, or because a person put an older version back.
THEOREM LockoutsComeFromFaults ==
  ASSUME OneProcess
  PROVE  Spec => []LockoutNeedsAFault
<1>1. TypeInv /\ RecordInv /\ GateInv /\ UnhurtInv /\ [Next]_vars => UnhurtInv'
  BY UnhurtPreserved
<1>2. UnhurtInv => LockoutNeedsAFault
  BY DEF UnhurtInv, LockoutNeedsAFault, Settled
<1>3. QED
  BY <1>1, <1>2, TypeInvariant, RecordInvariant, InitGate, GatePreserved, InitUnhurt, PTL DEF Spec

\* No write is stopped half done by a snapshot in its way (CreateJson, called
\* at L203 and L206): with one process the gate is enough.
THEOREM GatePreventsCollisions ==
  ASSUME OneProcess
  PROVE  Spec => GateAvoidsCollisions
<1>1. TypeInv /\ RecordInv /\ GateInv /\ UnhurtInv /\ [Next]_vars => UnhurtInv'
  BY UnhurtPreserved
<1>2. ASSUME TypeInv, GateInv, UnhurtInv, [Next]_vars
      PROVE  [\A w \in Writer :
                pc[w] \in {"seed", "snapshot"} /\ pc'[w] = "idle" => spent'.faults > 0]_pc
  <2> SUFFICES ASSUME NEW w \in Writer, pc[w] \in {"seed", "snapshot"}, pc'[w] = "idle",
                      ~(spent'.faults > 0)
               PROVE  FALSE
    OBVIOUS
  <2>1. spent'.faults = 0
    <3>1. TypeInv'
      BY <1>2, TypesPreserved
    <3>2. QED
      BY <3>1 DEF TypeInv, TypeOK
  <2>2. spent.faults = 0 /\ \A p \in Process : ~Crash(p)
    BY <1>2, <2>1, FaultsCount
  <2>3. Move(w)
    BY <1>2, <2>2, StepKinds, PersonAlone, MovesAlone DEF vars
  <2>4. Engaged(w) /\ ~Engaged(w)'
    BY DEF Engaged, MutationStep
  <2>5. UnhurtAt(w)
    BY <1>2, <2>2 DEF UnhurtInv
  <2>6. WriteCurrent(w)
    BY <1>2, <2>1, <2>3, <2>4, <2>5, EndsWell
  <2>7. QED
    BY <2>6 DEF WriteCurrent
<1>3. QED
  BY <1>1, <1>2, TypeInvariant, RecordInvariant, InitGate, GatePreserved, InitUnhurt, PTL
     DEF Spec, GateAvoidsCollisions

=============================================================================
