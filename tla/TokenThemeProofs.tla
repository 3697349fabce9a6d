-------------------------- MODULE TokenThemeProofs --------------------------
(***************************************************************************)
(* Proofs about TokenTheme: transform() of design-tokens accepts the token *)
(* sets that are in order, and reads what their aliases mean.              *)
(***************************************************************************)
EXTENDS TokenTheme, TLAPS

-----------------------------------------------------------------------------
(* The layers of a mode, and what its aliases relate.                      *)

Layers(m) == set \in TokenSets /\ Base \in DOMAIN set /\ m \in DOMAIN set

LEMMA LayeredTokens ==
  ASSUME NEW m, Layers(m)
  PROVE  /\ DOMAIN Layered(m) \subseteq ThemePath
         /\ \A p \in DOMAIN Layered(m) :
              Layered(m)[p] # NoToken /\ Layered(m)[p].alias \in ThemePath \union {NoAlias}
         /\ \A p : Find(m, p) = IF p \in DOMAIN Layered(m) THEN Layered(m)[p] ELSE NoToken
BY TokenSetsAssumption DEF Layers, Layered, Find

LEMMA BaseLayer ==
  ASSUME Layers(Base)
  PROVE  \A p \in DOMAIN Layered(Base) : Layered(Base)[p] = set[Base][p]
BY DEF Layers, Layered

LEMMA AliasedTokens ==
  ASSUME NEW m, Layers(m)
  PROVE  \A p : p \in Aliased(m) <=> p \in DOMAIN Layered(m) /\ Alias(Layered(m)[p])
BY DEF Aliased

LEMMA ReachIsSmallest ==
  ASSUME NEW m, NEW p, NEW S \in SUBSET ThemePath, p \in S, AliasClosed(m, S)
  PROVE  Reach(m, p) \subseteq S
BY DEF Reach

LEMMA ReachIsClosed ==
  ASSUME NEW m, Layers(m), NEW p \in ThemePath
  PROVE  /\ p \in Reach(m, p)
         /\ \A q \in Reach(m, p) \intersect Aliased(m) : Layered(m)[q].alias \in Reach(m, p)
<1>1. p \in Reach(m, p)
  BY DEF Reach
<1>2. ASSUME NEW q \in Reach(m, p) \intersect Aliased(m)
      PROVE  Layered(m)[q].alias \in Reach(m, p)
  <2>1. Layered(m)[q].alias \in ThemePath
    BY <1>2, LayeredTokens, AliasedTokens DEF Alias
  <2>2. ASSUME NEW S \in SUBSET ThemePath, p \in S, AliasClosed(m, S)
        PROVE  Layered(m)[q].alias \in S
    BY <2>2, ReachIsSmallest DEF AliasClosed
  <2>3. QED
    BY <2>1, <2>2 DEF Reach
<1>3. QED
  BY <1>1, <1>2

-----------------------------------------------------------------------------
(* A chain of aliases, from the path p on.                                 *)

ChainFrom(m, p, c) ==
  /\ c \in Seq(ThemePath) /\ c # <<>> /\ c[1] = p
  /\ \A i \in 1 .. Len(c) : c[i] \in DOMAIN Layered(m) \intersect Reach(m, p)
  /\ \A i \in 1 .. Len(c) - 1 : c[i] \in Aliased(m) /\ Layered(m)[c[i]].alias = c[i + 1]
  /\ \A i, j \in 1 .. Len(c) : c[i] = c[j] => i = j

PathsIn(c) == {c[i] : i \in 1 .. Len(c)}
LastOf(c) == c[Len(c)]

LEMMA ChainFacts ==
  ASSUME NEW m, NEW p, NEW c, ChainFrom(m, p, c)
  PROVE  /\ Len(c) \in Nat /\ Len(c) >= 1 /\ DOMAIN c = 1 .. Len(c)
         /\ p \in PathsIn(c) /\ LastOf(c) \in PathsIn(c)
         /\ PathsIn(c) \subseteq ThemePath /\ PathsIn(c) \subseteq DOMAIN Layered(m)
         /\ PathsIn(c) \subseteq Reach(m, p)
         /\ \A q \in PathsIn(c) : q = LastOf(c) \/ (q \in Aliased(m) /\ Layered(m)[q].alias \in PathsIn(c))
<1>1. Len(c) \in Nat /\ Len(c) >= 1 /\ DOMAIN c = 1 .. Len(c) /\ \A i \in 1 .. Len(c) : c[i] \in ThemePath
  BY DEF ChainFrom
<1>2. p \in PathsIn(c) /\ LastOf(c) \in PathsIn(c)
  BY <1>1 DEF PathsIn, LastOf, ChainFrom
<1>3. PathsIn(c) \subseteq ThemePath /\ PathsIn(c) \subseteq DOMAIN Layered(m) /\ PathsIn(c) \subseteq Reach(m, p)
  BY <1>1 DEF PathsIn, ChainFrom
<1>4. ASSUME NEW q \in PathsIn(c), q # LastOf(c)
      PROVE  q \in Aliased(m) /\ Layered(m)[q].alias \in PathsIn(c)
  <2>1. PICK i \in 1 .. Len(c) : q = c[i]
    BY DEF PathsIn
  <2>2. i \in 1 .. Len(c) - 1 /\ i + 1 \in 1 .. Len(c)
    BY <1>1, <1>4, <2>1 DEF LastOf
  <2>3. q \in Aliased(m) /\ Layered(m)[q].alias = c[i + 1]
    BY <2>1, <2>2 DEF ChainFrom
  <2>4. QED
    BY <2>2, <2>3 DEF PathsIn
<1>5. QED
  BY <1>1, <1>2, <1>3, <1>4

LEMMA ChainBegins ==
  ASSUME NEW m, Layers(m), NEW p \in DOMAIN Layered(m)
  PROVE  ChainFrom(m, p, <<p>>)
<1>1. p \in ThemePath /\ p \in Reach(m, p)
  BY LayeredTokens, ReachIsClosed
<1>2. <<p>> \in Seq(ThemePath) /\ Len(<<p>>) = 1 /\ <<p>>[1] = p /\ <<p>> # <<>>
  BY <1>1
<1>3. QED
  BY <1>1, <1>2 DEF ChainFrom

LEMMA ChainGoesOn ==
  ASSUME NEW m, Layers(m), NEW p \in ThemePath, NEW c, ChainFrom(m, p, c), LastOf(c) \in Aliased(m),
         NEW target, target = Layered(m)[LastOf(c)].alias,
         target \notin PathsIn(c), target \in DOMAIN Layered(m)
  PROVE  ChainFrom(m, p, Append(c, target)) /\ LastOf(Append(c, target)) = target
<1> DEFINE d == Append(c, target)
<1>1. Len(c) \in Nat /\ Len(c) >= 1 /\ c \in Seq(ThemePath) /\ c[1] = p
  BY ChainFacts DEF ChainFrom
<1>2. target \in ThemePath /\ target \in Reach(m, p)
  BY ChainFacts, ReachIsClosed, LayeredTokens
<1>3. d \in Seq(ThemePath) /\ Len(d) = Len(c) + 1 /\ d[Len(c) + 1] = target
         /\ \A i \in 1 .. Len(c) : d[i] = c[i]
  BY <1>1, <1>2
<1>4. d # <<>> /\ d[1] = p
  BY <1>1, <1>3
<1>5. \A i \in 1 .. Len(d) : d[i] \in DOMAIN Layered(m) \intersect Reach(m, p)
  <2> TAKE i \in 1 .. Len(d)
  <2>1. CASE i \in 1 .. Len(c)
    BY <1>3, <2>1 DEF ChainFrom
  <2>2. CASE i = Len(c) + 1
    BY <1>2, <1>3, <2>2
  <2> QED BY <1>1, <1>3, <2>1, <2>2
<1>6. \A i \in 1 .. Len(d) - 1 : d[i] \in Aliased(m) /\ Layered(m)[d[i]].alias = d[i + 1]
  <2> TAKE i \in 1 .. Len(d) - 1
  <2>1. CASE i \in 1 .. Len(c) - 1
    BY <1>1, <1>3, <2>1 DEF ChainFrom
  <2>2. CASE i = Len(c)
    BY <1>1, <1>3, <2>2 DEF LastOf
  <2> QED BY <1>1, <1>3, <2>1, <2>2
<1>7. \A i, j \in 1 .. Len(d) : d[i] = d[j] => i = j
  <2>1. \A i \in 1 .. Len(c) : c[i] # target
    BY DEF PathsIn
  <2>2. \A i, j \in 1 .. Len(c) : d[i] = d[j] => i = j
    BY <1>3 DEF ChainFrom
  <2>3. \A i \in 1 .. Len(d) : i \in 1 .. Len(c) \/ i = Len(c) + 1
    BY <1>1, <1>3
  <2> QED BY <1>3, <2>1, <2>2, <2>3
<1>8. LastOf(d) = target
  BY <1>3 DEF LastOf
<1> HIDE DEF d
<1>9. ChainFrom(m, p, d)
  BY <1>3, <1>4, <1>5, <1>6, <1>7 DEF ChainFrom
<1> QED BY <1>8, <1>9 DEF d

-----------------------------------------------------------------------------
(* What is at the end of a chain.                                          *)

LEMMA EndsElements ==
  ASSUME NEW m, NEW p
  PROVE  \A t : t \in Ends(m, p) <=>
           \E q \in Reach(m, p) : q \in DOMAIN Layered(m) /\ q \notin Aliased(m) /\ t = Layered(m)[q]
BY DEF Ends

LEMMA NothingThere ==
  ASSUME NEW m, Layers(m), NEW p \in ThemePath, p \notin DOMAIN Layered(m)
  PROVE  Ends(m, p) = {}
<1>1. AliasClosed(m, {p})
  BY AliasedTokens DEF AliasClosed
<1>2. Reach(m, p) \subseteq {p}
  BY <1>1, ReachIsSmallest
<1>3. QED
  BY <1>2, EndsElements

LEMMA ConcreteEnd ==
  ASSUME NEW m, Layers(m), NEW p \in ThemePath, NEW c, ChainFrom(m, p, c), LastOf(c) \notin Aliased(m)
  PROVE  Ends(m, p) = {Layered(m)[LastOf(c)]}
<1>1. AliasClosed(m, PathsIn(c))
  BY ChainFacts DEF AliasClosed
<1>2. Reach(m, p) = PathsIn(c)
  <2>1. p \in PathsIn(c) /\ PathsIn(c) \in SUBSET ThemePath /\ PathsIn(c) \subseteq Reach(m, p)
    BY ChainFacts
  <2>2. Reach(m, p) \subseteq PathsIn(c)
    BY <1>1, <2>1, ReachIsSmallest
  <2>3. QED
    BY <2>1, <2>2
<1>3. \A q \in Reach(m, p) : q \in Aliased(m) \/ q = LastOf(c)
  BY <1>2, ChainFacts
<1>4. LastOf(c) \in Reach(m, p) /\ LastOf(c) \in DOMAIN Layered(m)
  BY <1>2, ChainFacts
<1>5. \A t \in Ends(m, p) : t = Layered(m)[LastOf(c)]
  BY <1>3, EndsElements
<1>6. Layered(m)[LastOf(c)] \in Ends(m, p)
  BY <1>4, EndsElements
<1>7. QED
  BY <1>5, <1>6

LEMMA CyclesHaveNoEnd ==
  ASSUME NEW m, Layers(m), NEW p \in ThemePath, NEW c, ChainFrom(m, p, c), LastOf(c) \in Aliased(m),
         Layered(m)[LastOf(c)].alias \in PathsIn(c)
  PROVE  Ends(m, p) = {}
<1>1. AliasClosed(m, PathsIn(c)) /\ PathsIn(c) \subseteq Aliased(m)
  BY ChainFacts DEF AliasClosed
<1>2. Reach(m, p) \subseteq PathsIn(c)
  BY <1>1, ChainFacts, ReachIsSmallest
<1>3. QED
  BY <1>1, <1>2, EndsElements

LEMMA BrokenChainsHaveNoEnd ==
  ASSUME NEW m, Layers(m), NEW p \in ThemePath, NEW c, ChainFrom(m, p, c), LastOf(c) \in Aliased(m),
         Layered(m)[LastOf(c)].alias \notin DOMAIN Layered(m)
  PROVE  Ends(m, p) = {}
<1> DEFINE target == Layered(m)[LastOf(c)].alias
<1>1. target \in ThemePath /\ target \notin Aliased(m)
  BY ChainFacts, LayeredTokens, AliasedTokens DEF Alias
<1>2. AliasClosed(m, PathsIn(c) \union {target})
  BY <1>1, ChainFacts DEF AliasClosed
<1>3. Reach(m, p) \subseteq PathsIn(c) \union {target}
  BY <1>1, <1>2, ChainFacts, ReachIsSmallest
<1>4. \A q \in PathsIn(c) : q \in Aliased(m)
  BY ChainFacts
<1>5. QED
  BY <1>3, <1>4, EndsElements

-----------------------------------------------------------------------------
(* The inductive invariant.                                                *)

\* A component colour that keeps the name of what it aliases.
Keeps(leaf) ==
  leaf.path \in Aliased(Base) /\ leaf.kind = "colorToken" /\ set[Base][leaf.path].alias \in ColorPaths

\* What a job is for, if the set is to be accepted.
Fitting(job) ==
  IF job.mode = Base /\ Keeps(job) THEN CheckType(set[Base][job.path], job.kind)
  ELSE Fits(job.mode, job.path, job.kind)

\* The value a job may end with.
Means(m, leaf, value) ==
  IF m = Base /\ Keeps(leaf) THEN value = [form |-> "name", id |-> set[Base][leaf.path].alias]
  ELSE \E token \in Ends(m, leaf.path) :
         value = token.value /\ (m = Base => Normalises(value, leaf.kind))

JobFor(m, leaf) == [mode |-> m, path |-> leaf.path, kind |-> leaf.kind]
Waits(m, leaf) == \E i \in DOMAIN jobs : jobs[i] = JobFor(m, leaf)
IsRead(m, leaf) ==
  /\ Fitting(JobFor(m, leaf))
  /\ <<m, leaf.path>> \in DOMAIN theme /\ Means(m, leaf, theme[<<m, leaf.path>>])

\* Every job is of a mode that is there, is read by its kind, and is one that
\* the schema asks for.
JobOK(job) ==
  /\ job = JobFor(job.mode, job)
  /\ job.mode \in DOMAIN set /\ job.path \in ThemePath
  /\ job.mode # Base => job.kind # "colorToken"
  /\ job.mode = Base => [path |-> job.path, kind |-> job.kind] \in LeavesOf(Component)
  /\ Acceptable => Fitting(job)
JobsInv ==
  /\ jobs \in Seq([mode : ModeName, path : ThemePath, kind : STRING])
  /\ \A i \in DOMAIN jobs : JobOK(jobs[i])

\* What has been taken from toRead waits or is read.
ReadInv ==
  /\ \A m \in ModesRead \ toRead :
       /\ m \in DOMAIN set
       /\ \A leaf \in LeavesOf(Palette) : Waits(m, leaf) \/ IsRead(m, leaf)
       /\ PathsOf(Contained) \cap DOMAIN Layered(m) # {} =>
            \A leaf \in LeavesOf(Contained) : Waits(m, leaf) \/ IsRead(m, leaf)
  /\ Base \notin toRead => \A leaf \in LeavesOf(Component) : Waits(Base, leaf) \/ IsRead(Base, leaf)

\* The walk is along the chain of aliases of its job.
WalkInv ==
  walk # NoWalk =>
    /\ jobs # <<>> /\ ~ (Job.mode = Base /\ Keeps(Job))
    /\ ChainFrom(Job.mode, Job.path, walk.chain)
    /\ walk = [at |-> Layered(Job.mode)[LastOf(walk.chain)], from |-> Layered(Job.mode)[Job.path],
               chain |-> walk.chain]

NamesInv ==
  \A leaf \in LeavesOf(Component) :
    leaf.kind = "colorToken" /\ Named(leaf) => theme[<<Base, leaf.path>>].id \in PalettePaths

ThemeInv ==
  /\ set \in TokenSets /\ toRead \subseteq ModesRead \union {Base}
  /\ outcome \in {"reading", "done"} => Base \in DOMAIN set /\ JobsInv /\ ReadInv
  /\ outcome = "reading" => WalkInv
  /\ outcome = "done" => jobs = <<>> /\ toRead = {} /\ NamesInv
  /\ outcome \notin {"reading", "done"} => ~ Acceptable


-----------------------------------------------------------------------------
(* The set does not change, and so nothing that is said about it alone.    *)

LEMMA SetStays ==
  ASSUME set' = set
  PROVE  /\ \A m : Layered(m)' = Layered(m) /\ Aliased(m)' = Aliased(m)
         /\ \A m, p : Reach(m, p)' = Reach(m, p) /\ Ends(m, p)' = Ends(m, p)
         /\ \A m, p, k : Fits(m, p, k)' <=> Fits(m, p, k)
         /\ \A leaf : (Keeps(leaf)' <=> Keeps(leaf)) /\ (FitsComponent(leaf)' <=> FitsComponent(leaf))
         /\ \A leaf : Fitting(leaf)' <=> Fitting(leaf)
         /\ \A m, leaf, value : Means(m, leaf, value)' <=> Means(m, leaf, value)
         /\ \A m, p, c : ChainFrom(m, p, c)' <=> ChainFrom(m, p, c)
         /\ Extra' = Extra /\ ModesRead' = ModesRead
         /\ Acceptable' <=> Acceptable
<1>1. ASSUME NEW m PROVE Layered(m)' = Layered(m)
  BY DEF Layered
<1>2. ASSUME NEW m PROVE Aliased(m)' = Aliased(m)
  BY <1>1 DEF Aliased
<1>3. ASSUME NEW m, NEW S PROVE AliasClosed(m, S)' <=> AliasClosed(m, S)
  BY <1>1, <1>2 DEF AliasClosed
<1>4. ASSUME NEW m, NEW p PROVE Reach(m, p)' = Reach(m, p)
  BY <1>3 DEF Reach
<1>5. ASSUME NEW m, NEW p PROVE Ends(m, p)' = Ends(m, p)
  BY <1>1, <1>2, <1>4 DEF Ends
<1>6. ASSUME NEW m, NEW p, NEW k PROVE Fits(m, p, k)' <=> Fits(m, p, k)
  BY <1>1, <1>5 DEF Fits
<1>7. ASSUME NEW leaf PROVE (Keeps(leaf)' <=> Keeps(leaf)) /\ (FitsComponent(leaf)' <=> FitsComponent(leaf))
  BY <1>2, <1>6 DEF Keeps, FitsComponent
<1>8. ASSUME NEW leaf PROVE Fitting(leaf)' <=> Fitting(leaf)
  BY <1>6, <1>7 DEF Fitting
<1>9. ASSUME NEW m, NEW leaf, NEW value PROVE Means(m, leaf, value)' <=> Means(m, leaf, value)
  BY <1>5, <1>7 DEF Means
<1>10. ASSUME NEW m, NEW p, NEW c PROVE ChainFrom(m, p, c)' <=> ChainFrom(m, p, c)
  BY <1>1, <1>2, <1>4 DEF ChainFrom
<1>11. Extra' = Extra /\ ModesRead' = ModesRead
  BY DEF Extra, ModesRead
<1>12. Acceptable' <=> Acceptable
  BY <1>1, <1>6, <1>7, <1>11 DEF Acceptable
<1>13. QED
  BY <1>1, <1>2, <1>4, <1>5, <1>6, <1>7, <1>8, <1>9, <1>10, <1>11, <1>12


LEMMA NothingElseChanges ==
  ASSUME set' = set, jobs' = jobs, theme' = theme, toRead' = toRead
  PROVE  (JobsInv => JobsInv') /\ (ReadInv => ReadInv') /\ (NamesInv => NamesInv') /\ Job' = Job
<1>1. \A leaf : JobOK(leaf) => JobOK(leaf)'
  BY SetStays DEF JobOK
<1>2. JobsInv => JobsInv'
  BY <1>1 DEF JobsInv
<1>3. \A m, leaf : (Waits(m, leaf)' <=> Waits(m, leaf)) /\ (IsRead(m, leaf)' <=> IsRead(m, leaf))
  BY SetStays DEF Waits, IsRead
<1>4. ReadInv => ReadInv'
  <2>1. \A m : Layered(m)' = Layered(m)
    BY SetStays
  <2>2. ModesRead' = ModesRead
    BY SetStays
  <2>3. QED
    BY <1>3, <2>1, <2>2 DEF ReadInv
<1>5. NamesInv => NamesInv'
  BY DEF NamesInv, Named
<1>6. QED
  BY <1>2, <1>4, <1>5 DEF Job

LEMMA RefusalPreserves ==
  ASSUME ThemeInv, ~ Acceptable, NEW error, error \notin {"reading", "done"}, Refuse(error)
  PROVE  ThemeInv'
<1>1. set' = set /\ toRead' = toRead /\ outcome' = error
  BY DEF Refuse
<1>2. ~ Acceptable' /\ ModesRead' = ModesRead
  BY <1>1, SetStays
<1>3. QED
  BY <1>1, <1>2 DEF ThemeInv

\* Where the walk goes is all that changes.
LEMMA WalkPreserves ==
  ASSUME ThemeInv, Reading, UNCHANGED <<set, toRead, jobs, theme, outcome>>,
         NEW c, ChainFrom(Job.mode, Job.path, c), ~ (Job.mode = Base /\ Keeps(Job)),
         walk' = [at |-> Layered(Job.mode)[LastOf(c)], from |-> Layered(Job.mode)[Job.path], chain |-> c]
  PROVE  ThemeInv'
<1>1. Base \in DOMAIN set /\ JobsInv /\ ReadInv /\ jobs # <<>> /\ outcome = "reading"
  BY DEF ThemeInv, Reading
<1>2. JobsInv' /\ ReadInv' /\ Job' = Job
  BY <1>1, NothingElseChanges
<1>3. WalkInv'
  <2>1. walk'.chain = c
    OBVIOUS
  <2>2. \A m : Layered(m)' = Layered(m)
    BY SetStays
  <2>3. ChainFrom(Job.mode, Job.path, walk.chain)'
    BY <1>2, <2>1, SetStays
  <2>4. ~ (Job.mode = Base /\ Keeps(Job))'
    BY <1>2, SetStays
  <2>5. QED
    BY <1>1, <1>2, <2>1, <2>2, <2>3, <2>4 DEF WalkInv
<1>4. ModesRead' = ModesRead
  BY SetStays
<1>5. QED
  BY <1>1, <1>2, <1>3, <1>4 DEF ThemeInv

LEMMA JobFacts ==
  ASSUME ThemeInv, Reading
  PROVE  /\ Layers(Job.mode) /\ Layers(Base) /\ Job.path \in ThemePath /\ JobOK(Job)
         /\ jobs \in Seq([mode : ModeName, path : ThemePath, kind : STRING]) /\ jobs # <<>>
         /\ Job = jobs[1] /\ 1 \in DOMAIN jobs
<1>1. set \in TokenSets /\ Base \in DOMAIN set /\ JobsInv /\ jobs # <<>>
  BY DEF ThemeInv, Reading
<1>2. jobs \in Seq([mode : ModeName, path : ThemePath, kind : STRING])
  BY <1>1 DEF JobsInv
<1>3. Job = jobs[1] /\ 1 \in DOMAIN jobs
  BY <1>1, <1>2 DEF Job
<1>4. JobOK(Job)
  BY <1>1, <1>3 DEF JobsInv
<1>5. QED
  BY <1>1, <1>2, <1>3, <1>4 DEF Layers, JobOK

-----------------------------------------------------------------------------
(* A job is done.                                                          *)

LEMMA ModesOfThemes == \A m \in ModesRead : m # Base
BY SchemaAssumption DEF ModesRead, Known, Extra

LEMMA GotPreserves ==
  ASSUME ThemeInv, Reading, NEW value, Got(value), Fitting(Job), Means(Job.mode, Job, value)
  PROVE  ThemeInv'
<1> DEFINE key == <<Job.mode, Job.path>>
<1>1. /\ JobsInv /\ ReadInv /\ JobOK(Job) /\ outcome = "reading"
      /\ jobs \in Seq([mode : ModeName, path : ThemePath, kind : STRING]) /\ jobs # <<>> /\ Job = jobs[1]
  BY JobFacts DEF ThemeInv, Reading
<1>2. /\ theme' = [k \in DOMAIN theme \union {key} |-> IF k = key THEN value ELSE theme[k]]
      /\ jobs' = Tail(jobs) /\ walk' = NoWalk /\ set' = set /\ toRead' = toRead /\ outcome' = outcome
  BY DEF Got
<1>3. /\ jobs' \in Seq([mode : ModeName, path : ThemePath, kind : STRING])
      /\ \A i \in DOMAIN jobs' : i + 1 \in DOMAIN jobs /\ jobs'[i] = jobs[i + 1]
      /\ \A i \in DOMAIN jobs : i = 1 \/ (i - 1 \in DOMAIN jobs' /\ jobs'[i - 1] = jobs[i])
  BY <1>1, <1>2
<1>4. JobsInv'
  <2>1. \A i \in DOMAIN jobs' : JobOK(jobs'[i])
    BY <1>1, <1>3 DEF JobsInv
  <2>2. \A job : JobOK(job) => JobOK(job)'
    BY <1>2, SetStays DEF JobOK
  <2>3. QED
    BY <1>3, <2>1, <2>2 DEF JobsInv
<1>5. ASSUME NEW m, NEW leaf, m # Base \/ leaf \in LeavesOf(Component), Waits(m, leaf) \/ IsRead(m, leaf)
      PROVE  (Waits(m, leaf) \/ IsRead(m, leaf))'
  <2>1. CASE Waits(m, leaf) /\ JobFor(m, leaf) # Job
    BY <1>1, <1>3, <2>1 DEF Waits
  <2>2. CASE JobFor(m, leaf) = Job
    <3>1. m = Job.mode /\ leaf.path = Job.path /\ leaf.kind = Job.kind
      BY <2>2 DEF JobFor
    <3>2. Means(m, leaf, value) /\ Fitting(JobFor(m, leaf))
      BY <2>2, <3>1 DEF Means, Keeps
    <3>3. key \in DOMAIN theme' /\ theme'[key] = value /\ key = <<m, leaf.path>>
      BY <1>2, <3>1
    <3>4. QED
      BY <1>2, <3>2, <3>3, SetStays DEF IsRead
  <2>3. CASE IsRead(m, leaf) /\ <<m, leaf.path>> # key
    <3>1. <<m, leaf.path>> \in DOMAIN theme' /\ theme'[<<m, leaf.path>>] = theme[<<m, leaf.path>>]
      BY <1>2, <2>3 DEF IsRead
    <3>2. QED
      BY <1>2, <2>3, <3>1, SetStays DEF IsRead
  <2>4. CASE IsRead(m, leaf) /\ <<m, leaf.path>> = key
    <3>1. m = Job.mode /\ leaf.path = Job.path
      BY <2>4
    <3>2. Means(m, leaf, value)
      <4>1. CASE m # Base
        BY <3>1, <4>1 DEF Means
      <4>2. CASE m = Base
        <5>1. leaf \in LeavesOf(Component) /\ [path |-> Job.path, kind |-> Job.kind] \in LeavesOf(Component)
          BY <1>1, <1>5, <3>1, <4>2 DEF JobOK
        <5>2. leaf = [path |-> Job.path, kind |-> Job.kind]
          BY <3>1, <5>1, SchemaAssumption DEF LeavesOf
        <5>3. leaf.kind = Job.kind
          BY <5>2
        <5>4. QED
          BY <3>1, <5>3 DEF Means, Keeps
      <4>3. QED
        BY <4>1, <4>2
    <3>3. key \in DOMAIN theme' /\ theme'[key] = value
      BY <1>2
    <3>4. QED
      BY <1>2, <2>4, <3>2, <3>3, SetStays DEF IsRead
  <2>5. QED
    BY <1>5, <2>1, <2>2, <2>3, <2>4
<1>6. ReadInv'
  <2>1. (\A m : Layered(m)' = Layered(m)) /\ ModesRead' = ModesRead /\ toRead' = toRead /\ set' = set
    BY <1>2, SetStays
  <2>2. \A m \in ModesRead \ toRead :
          /\ m \in DOMAIN set
          /\ \A leaf \in LeavesOf(Palette) : (Waits(m, leaf) \/ IsRead(m, leaf))'
          /\ PathsOf(Contained) \cap DOMAIN Layered(m) # {} =>
               \A leaf \in LeavesOf(Contained) : (Waits(m, leaf) \/ IsRead(m, leaf))'
    BY <1>1, <1>5, ModesOfThemes DEF ReadInv
  <2>3. Base \notin toRead => \A leaf \in LeavesOf(Component) : (Waits(Base, leaf) \/ IsRead(Base, leaf))'
    BY <1>1, <1>5 DEF ReadInv
  <2>4. QED
    BY <2>1, <2>2, <2>3 DEF ReadInv
<1>7. WalkInv' /\ ModesRead' = ModesRead
  BY <1>2, SetStays DEF WalkInv
<1>8. QED
  BY <1>1, <1>2, <1>4, <1>6, <1>7 DEF ThemeInv


-----------------------------------------------------------------------------
(* One lemma for each action.                                              *)

LEMMA UnfitJobs ==
  ASSUME ThemeInv, Reading, ~ Fitting(Job)
  PROVE  ~ Acceptable
BY JobFacts DEF JobOK

LEMMA ReadModePreserves ==
  ASSUME ThemeInv, ReadMode
  PROVE  ThemeInv'
<1>1. /\ set \in TokenSets /\ Base \in DOMAIN set /\ JobsInv /\ ReadInv /\ WalkInv
      /\ outcome = "reading" /\ jobs = <<>> /\ toRead \subseteq ModesRead \union {Base}
  BY DEF ThemeInv, ReadMode
<1>2. PICK mode \in toRead :
        IF mode \in DOMAIN set
        THEN /\ toRead' = toRead \ {mode} /\ jobs' = JobsOf(mode)
             /\ UNCHANGED <<set, walk, theme, outcome>>
        ELSE Refuse("mode missing")
  BY DEF ReadMode
<1>3. CASE mode \notin DOMAIN set
  <2>1. mode \in Known
    BY <1>1, <1>3 DEF ModesRead, Extra
  <2>2. ~ Acceptable
    BY <1>3, <2>1 DEF Acceptable
  <2>3. QED
    BY <1>2, <1>3, <2>2, RefusalPreserves
<1>4. CASE mode \in DOMAIN set
  <2>1. /\ toRead' = toRead \ {mode} /\ jobs' = JobsOf(mode)
        /\ set' = set /\ walk' = walk /\ theme' = theme /\ outcome' = outcome
    BY <1>2, <1>4
  <2>2. mode \in ModeName /\ Layers(mode)
    BY <1>1, <1>4, TokenSetsAssumption DEF Layers
  <2>3. walk = NoWalk
    BY <1>1 DEF WalkInv
  \* What was taken before is read, for nothing was waiting.
  <2>4. \A m, leaf : Waits(m, leaf) \/ IsRead(m, leaf) => IsRead(m, leaf)'
    BY <1>1, <2>1, SetStays DEF Waits, IsRead
  <2>5. (\A m : Layered(m)' = Layered(m)) /\ ModesRead' = ModesRead
    BY <2>1, SetStays
  <2>6. \A job : JobOK(job) => JobOK(job)'
    BY <2>1, SetStays DEF JobOK
  <2>7. ASSUME NEW table \in {Palette, Contained, Component}
        PROVE  /\ In(mode, table) \in Seq([mode : ModeName, path : ThemePath, kind : STRING])
               /\ DOMAIN In(mode, table) = DOMAIN table
               /\ \A i \in DOMAIN table : In(mode, table)[i] = JobFor(mode, table[i])
               /\ \A i \in DOMAIN table :
                    /\ table[i].path \in ThemePath
                    /\ table[i] = [path |-> table[i].path, kind |-> table[i].kind]
    <3> DEFINE leaves == [path : ThemePath, kind : STRING]
    <3>1. table \in Seq(leaves)
      BY SchemaAssumption
    <3> HIDE DEF leaves
    <3>2. DOMAIN table = 1 .. Len(table) /\ Len(table) \in Nat /\ \A i \in DOMAIN table : table[i] \in leaves
      BY <3>1
    <3> USE DEF leaves
    <3>3. \A i \in DOMAIN table : JobFor(mode, table[i]) \in [mode : ModeName, path : ThemePath, kind : STRING]
      BY <2>2, <3>2 DEF JobFor
    <3>4. In(mode, table) = [i \in 1 .. Len(table) |-> JobFor(mode, table[i])]
      BY <3>2 DEF In, JobFor
    <3>5. QED
      BY <3>2, <3>3, <3>4
  <2>8. CASE mode = Base
    <3>1. jobs' = In(Base, Component)
      BY <2>1, <2>8 DEF JobsOf
    <3>2. \A i \in DOMAIN Component : JobOK(JobFor(Base, Component[i]))
      <4> TAKE i \in DOMAIN Component
      <4>1. [path |-> JobFor(Base, Component[i]).path, kind |-> JobFor(Base, Component[i]).kind] = Component[i]
        BY <2>7 DEF JobFor
      <4>2. Component[i] \in LeavesOf(Component)
        BY DEF LeavesOf
      <4>3. Acceptable => FitsComponent(Component[i])
        BY <4>2 DEF Acceptable
      <4>4. FitsComponent(Component[i]) => Fitting(JobFor(Base, Component[i]))
        BY DEF FitsComponent, Fitting, Keeps, JobFor
      <4>5. QED
        BY <1>1, <2>7, <4>1, <4>2, <4>3, <4>4 DEF JobOK, JobFor
    <3>3. JobsInv'
      BY <2>6, <2>7, <2>8, <3>1, <3>2 DEF JobsInv
    <3>4. \A leaf \in LeavesOf(Component) : Waits(Base, leaf)'
      BY <2>7, <2>8, <3>1 DEF LeavesOf, Waits
    <3>5. ReadInv'
      BY <1>1, <2>1, <2>4, <2>5, <2>8, <3>4, ModesOfThemes DEF ReadInv
    <3>6. QED
      BY <1>1, <2>1, <2>3, <2>5, <3>3, <3>5 DEF ThemeInv, WalkInv
  <2>9. CASE mode # Base
    <3> DEFINE contained == ContainedJobs(mode)
    <3>1. mode \in ModesRead
      BY <1>1, <1>2, <2>9
    <3>2. jobs' = In(mode, Palette) \o contained
      BY <2>1, <2>9 DEF JobsOf, PaletteJobs
    <3>3. \A p : Find(mode, p) # NoToken <=> p \in DOMAIN Layered(mode)
      BY <2>2, LayeredTokens
    <3>4. contained = IF PathsOf(Contained) \cap DOMAIN Layered(mode) = {} THEN <<>> ELSE In(mode, Contained)
      BY <3>3 DEF ContainedJobs
    <3>5. ASSUME NEW table \in {Palette, Contained}, NEW i \in DOMAIN table,
                 Acceptable => Fits(mode, table[i].path, table[i].kind)
          PROVE  JobOK(JobFor(mode, table[i]))
      BY <1>4, <2>7, <2>9, <3>5, SchemaAssumption DEF JobOK, JobFor, Fitting
    <3>6. \A i \in DOMAIN Palette : JobOK(JobFor(mode, Palette[i]))
      BY <3>1, <3>5 DEF Acceptable, LeavesOf
    <3>7. PathsOf(Contained) \cap DOMAIN Layered(mode) # {} =>
            \A i \in DOMAIN Contained : JobOK(JobFor(mode, Contained[i]))
      BY <3>1, <3>5 DEF Acceptable, LeavesOf
    <3>8. \A i \in DOMAIN contained : \E j \in DOMAIN Contained :
            contained[i] = JobFor(mode, Contained[j]) /\ JobOK(contained[i])
      BY <2>7, <3>4, <3>7
    <3>9. contained \in Seq([mode : ModeName, path : ThemePath, kind : STRING])
      BY <2>7, <3>4
    <3> HIDE DEF contained
    <3>10. /\ jobs' \in Seq([mode : ModeName, path : ThemePath, kind : STRING])
           /\ \A i \in DOMAIN jobs' :
                \/ i \in DOMAIN Palette /\ jobs'[i] = JobFor(mode, Palette[i])
                \/ \E j \in DOMAIN contained : jobs'[i] = contained[j]
           /\ \A i \in DOMAIN Palette : i \in DOMAIN jobs' /\ jobs'[i] = JobFor(mode, Palette[i])
           /\ \A j \in DOMAIN contained : \E i \in DOMAIN jobs' : jobs'[i] = contained[j]
      <4> DEFINE front == In(mode, Palette)
      <4>1. front \in Seq([mode : ModeName, path : ThemePath, kind : STRING])
              /\ DOMAIN front = DOMAIN Palette /\ \A i \in DOMAIN Palette : front[i] = JobFor(mode, Palette[i])
        BY <2>7
      <4> HIDE DEF front
      <4>2. jobs' = front \o contained
        BY <3>2 DEF front
      <4>3. /\ jobs' \in Seq([mode : ModeName, path : ThemePath, kind : STRING])
            /\ Len(jobs') = Len(front) + Len(contained)
            /\ \A i \in 1 .. Len(front) : jobs'[i] = front[i]
            /\ \A i \in 1 .. Len(contained) : jobs'[Len(front) + i] = contained[i]
        BY <3>9, <4>1, <4>2
      <4>4. DOMAIN front = 1 .. Len(front) /\ DOMAIN contained = 1 .. Len(contained)
              /\ DOMAIN jobs' = 1 .. Len(jobs') /\ Len(front) \in Nat /\ Len(contained) \in Nat
        BY <3>9, <4>1, <4>3
      <4>5. ASSUME NEW i \in DOMAIN jobs', i \notin DOMAIN front
            PROVE  i - Len(front) \in DOMAIN contained /\ jobs'[i] = contained[i - Len(front)]
        <5>1. i - Len(front) \in 1 .. Len(contained) /\ Len(front) + (i - Len(front)) = i
          BY <4>3, <4>4, <4>5
        <5>2. QED
          BY <4>3, <4>4, <5>1
      <4>6. \A i \in DOMAIN Palette : i \in DOMAIN jobs' /\ jobs'[i] = JobFor(mode, Palette[i])
        BY <4>1, <4>3, <4>4
      <4>7. \A j \in DOMAIN contained : \E i \in DOMAIN jobs' : jobs'[i] = contained[j]
        <5> TAKE j \in DOMAIN contained
        <5>1. Len(front) + j \in DOMAIN jobs' /\ jobs'[Len(front) + j] = contained[j]
          BY <4>3, <4>4
        <5>2. QED
          BY <5>1
      <4>8. QED
        BY <4>1, <4>3, <4>5, <4>6, <4>7
    <3>11. JobsInv'
      BY <2>6, <3>6, <3>8, <3>10 DEF JobsInv
    <3>12. \A leaf \in LeavesOf(Palette) : Waits(mode, leaf)'
      BY <3>10 DEF LeavesOf, Waits
    <3>13. PathsOf(Contained) \cap DOMAIN Layered(mode) # {} => \A leaf \in LeavesOf(Contained) : Waits(mode, leaf)'
      <4> SUFFICES ASSUME PathsOf(Contained) \cap DOMAIN Layered(mode) # {}, NEW k \in DOMAIN Contained
                   PROVE  Waits(mode, Contained[k])'
        BY DEF LeavesOf
      <4>1. k \in DOMAIN contained /\ contained[k] = JobFor(mode, Contained[k])
        BY <2>7, <3>4
      <4>2. QED
        BY <3>10, <4>1 DEF Waits
    <3>14. ReadInv'
      <4>1. ASSUME NEW m \in ModesRead, m \notin toRead'
            PROVE  /\ m \in DOMAIN set
                   /\ \A leaf \in LeavesOf(Palette) : (Waits(m, leaf) \/ IsRead(m, leaf))'
                   /\ PathsOf(Contained) \cap DOMAIN Layered(m) # {} =>
                        \A leaf \in LeavesOf(Contained) : (Waits(m, leaf) \/ IsRead(m, leaf))'
        <5>1. CASE m = mode
          BY <1>4, <3>12, <3>13, <5>1
        <5>2. CASE m # mode
          BY <1>1, <2>1, <2>4, <4>1, <5>2 DEF ReadInv
        <5>3. QED
          BY <5>1, <5>2
      <4>2. Base \notin toRead' => \A leaf \in LeavesOf(Component) : (Waits(Base, leaf) \/ IsRead(Base, leaf))'
        BY <1>1, <2>1, <2>4, <2>9 DEF ReadInv
      <4>3. QED
        BY <2>1, <2>5, <4>1, <4>2 DEF ReadInv
    <3>15. QED
      BY <1>1, <2>1, <2>3, <2>5, <3>11, <3>14 DEF ThemeInv, WalkInv
  <2>10. QED
    BY <2>8, <2>9
<1>5. QED
  BY <1>3, <1>4


LEMMA LookUpPreserves ==
  ASSUME ThemeInv, LookUp
  PROVE  ThemeInv'
<1> DEFINE token == Find(Job.mode, Job.path)
<1> DEFINE byName == Job.kind = "colorToken" /\ token.alias \in ColorPaths
<1>1. Reading /\ walk = NoWalk
  BY DEF LookUp
<1>2. Layers(Job.mode) /\ Layers(Base) /\ Job.path \in ThemePath /\ JobOK(Job)
  BY <1>1, JobFacts
<1>3. token = IF Job.path \in DOMAIN Layered(Job.mode) THEN Layered(Job.mode)[Job.path] ELSE NoToken
  BY <1>2, LayeredTokens
<1>4. token = NoToken <=> Job.path \notin DOMAIN Layered(Job.mode)
  BY <1>2, <1>3, LayeredTokens
<1>5. Job.mode = Base /\ Keeps(Job) <=> token # NoToken /\ byName
  <2>1. Job.path \in Aliased(Base) <=> Job.path \in DOMAIN Layered(Base) /\ Layered(Base)[Job.path].alias # NoAlias
    BY <1>2, AliasedTokens DEF Alias
  <2>2. Job.path \in DOMAIN Layered(Base) => Layered(Base)[Job.path] = set[Base][Job.path]
    BY <1>2, BaseLayer
  <2>3. NoAlias \notin ColorPaths /\ (Job.mode # Base => Job.kind # "colorToken")
    BY <1>2, SchemaAssumption DEF JobOK
  <2>4. QED
    BY <1>3, <1>4, <2>1, <2>2, <2>3 DEF Keeps
<1>6. CASE token = NoToken
  <2>1. Ends(Job.mode, Job.path) = {}
    BY <1>2, <1>4, <1>6, NothingThere
  <2>2. ~ Fitting(Job)
    BY <1>5, <1>6, <2>1 DEF Fitting, Fits
  <2>3. Refuse("required token missing")
    BY <1>6 DEF LookUp
  <2>4. QED
    BY <1>1, <2>2, <2>3, UnfitJobs, RefusalPreserves
<1>7. CASE token # NoToken /\ byName
  <2>1. Job.mode = Base /\ Keeps(Job) /\ token = set[Base][Job.path]
    BY <1>2, <1>3, <1>4, <1>5, <1>7, BaseLayer
  <2>2. Fitting(Job) <=> CheckType(token, Job.kind)
    BY <2>1 DEF Fitting
  <2>3. IF CheckType(token, Job.kind) THEN Got([form |-> "name", id |-> token.alias]) ELSE Refuse("type")
    BY <1>7 DEF LookUp
  <2>4. Means(Job.mode, Job, [form |-> "name", id |-> token.alias])
    BY <2>1 DEF Means
  <2>5. QED
    BY <1>1, <2>2, <2>3, <2>4, GotPreserves, UnfitJobs, RefusalPreserves
<1>8. CASE token # NoToken /\ ~ byName
  <2>1. walk' = [at |-> token, from |-> token, chain |-> <<Job.path>>] /\ UNCHANGED <<set, toRead, jobs, theme, outcome>>
    BY <1>8 DEF LookUp
  <2>2. token = Layered(Job.mode)[Job.path] /\ Job.path \in DOMAIN Layered(Job.mode)
    BY <1>3, <1>4, <1>8
  <2>3. ChainFrom(Job.mode, Job.path, <<Job.path>>) /\ LastOf(<<Job.path>>) = Job.path
    BY <1>2, <2>2, ChainBegins DEF LastOf
  <2>4. ~ (Job.mode = Base /\ Keeps(Job))
    BY <1>5, <1>8
  <2> HIDE DEF token
  <2>5. QED
    BY <1>1, <2>1, <2>2, <2>3, <2>4, WalkPreserves
<1>9. QED
  BY <1>6, <1>7, <1>8

\* Where a walk is.
LEMMA WalkFacts ==
  ASSUME ThemeInv, Reading, walk # NoWalk
  PROVE  /\ Layers(Job.mode) /\ Job.path \in ThemePath
         /\ ~ (Job.mode = Base /\ Keeps(Job))
         /\ ChainFrom(Job.mode, Job.path, walk.chain)
         /\ walk = [at |-> Layered(Job.mode)[LastOf(walk.chain)], from |-> Layered(Job.mode)[Job.path],
                    chain |-> walk.chain]
         /\ Alias(walk.at) <=> LastOf(walk.chain) \in Aliased(Job.mode)
         /\ \A target : (\E i \in DOMAIN walk.chain : walk.chain[i] = target) <=> target \in PathsIn(walk.chain)
<1>1. Layers(Job.mode) /\ Job.path \in ThemePath
  BY JobFacts
<1>2. WalkInv
  BY DEF ThemeInv, Reading
<1>3. /\ ~ (Job.mode = Base /\ Keeps(Job))
      /\ ChainFrom(Job.mode, Job.path, walk.chain)
      /\ walk = [at |-> Layered(Job.mode)[LastOf(walk.chain)], from |-> Layered(Job.mode)[Job.path],
                 chain |-> walk.chain]
  BY <1>2 DEF WalkInv
<1>4. /\ DOMAIN walk.chain = 1 .. Len(walk.chain)
      /\ LastOf(walk.chain) \in PathsIn(walk.chain) /\ PathsIn(walk.chain) \subseteq DOMAIN Layered(Job.mode)
  BY <1>3, ChainFacts
<1>5. walk.at = Layered(Job.mode)[LastOf(walk.chain)]
  BY <1>3
<1>6. Alias(walk.at) <=> LastOf(walk.chain) \in Aliased(Job.mode)
  BY <1>1, <1>4, <1>5, AliasedTokens
<1>7. \A target : (\E i \in DOMAIN walk.chain : walk.chain[i] = target) <=> target \in PathsIn(walk.chain)
  BY <1>4 DEF PathsIn
<1>8. QED
  BY <1>1, <1>3, <1>6, <1>7

LEMMA FollowPreserves ==
  ASSUME ThemeInv, Follow
  PROVE  ThemeInv'
<1> DEFINE c == walk.chain
           target == walk.at.alias
           next == Find(Job.mode, target)
<1>1. Reading /\ walk # NoWalk /\ Alias(walk.at)
  BY DEF Follow
<1>2. /\ Layers(Job.mode) /\ Job.path \in ThemePath /\ ~ (Job.mode = Base /\ Keeps(Job))
      /\ ChainFrom(Job.mode, Job.path, c) /\ LastOf(c) \in Aliased(Job.mode)
      /\ walk = [at |-> Layered(Job.mode)[LastOf(c)], from |-> Layered(Job.mode)[Job.path], chain |-> c]
      /\ (\E i \in DOMAIN c : c[i] = target) <=> target \in PathsIn(c)
  BY <1>1, WalkFacts
<1>3. target = Layered(Job.mode)[LastOf(c)].alias
  BY <1>2
<1>4. /\ next = IF target \in DOMAIN Layered(Job.mode) THEN Layered(Job.mode)[target] ELSE NoToken
      /\ next = NoToken <=> target \notin DOMAIN Layered(Job.mode)
  BY <1>2, LayeredTokens
<1>5. Ends(Job.mode, Job.path) = {} => ~ Acceptable
  BY <1>1, <1>2, UnfitJobs DEF Fitting, Fits
<1>6. CASE target \in PathsIn(c)
  <2>1. Refuse("alias cycle")
    BY <1>2, <1>6 DEF Follow
  <2>2. Ends(Job.mode, Job.path) = {}
    BY <1>2, <1>3, <1>6, CyclesHaveNoEnd
  <2>3. QED
    BY <1>5, <2>1, <2>2, RefusalPreserves
<1>7. CASE target \notin PathsIn(c) /\ next = NoToken
  <2>1. Refuse("alias not found")
    BY <1>2, <1>7 DEF Follow
  <2>2. Ends(Job.mode, Job.path) = {}
    BY <1>2, <1>3, <1>4, <1>7, BrokenChainsHaveNoEnd
  <2>3. QED
    BY <1>5, <2>1, <2>2, RefusalPreserves
<1>8. CASE target \notin PathsIn(c) /\ next # NoToken
  <2>1. walk' = [walk EXCEPT !.at = next, !.chain = Append(@, target)] /\ UNCHANGED <<set, toRead, jobs, theme, outcome>>
    BY <1>2, <1>8 DEF Follow
  <2>2. ChainFrom(Job.mode, Job.path, Append(c, target)) /\ LastOf(Append(c, target)) = target
    BY <1>2, <1>3, <1>4, <1>8, ChainGoesOn
  <2>3. walk' = [at |-> next, from |-> Layered(Job.mode)[Job.path], chain |-> Append(c, target)]
    <3> DEFINE at == Layered(Job.mode)[LastOf(c)]
               from == Layered(Job.mode)[Job.path]
    <3>1. walk = [at |-> at, from |-> from, chain |-> c]
      BY <1>2
    <3>2. walk' = [[walk EXCEPT !.at = next] EXCEPT !.chain = Append(c, target)]
      BY <2>1
    <3> HIDE DEF at, from, c, target, next
    <3>3. walk' = [at |-> next, from |-> from, chain |-> Append(c, target)]
      BY <3>1, <3>2
    <3>4. QED
      BY <3>3 DEF from
  <2>4. next = Layered(Job.mode)[LastOf(Append(c, target))]
    BY <1>4, <1>8, <2>2
  <2> HIDE DEF c, target, next
  <2>5. QED
    BY <1>1, <1>2, <2>1, <2>2, <2>3, <2>4, WalkPreserves
<1>9. QED
  BY <1>6, <1>7, <1>8

LEMMA ResolvePreserves ==
  ASSUME ThemeInv, Resolve
  PROVE  ThemeInv'
<1> DEFINE fits == CheckType(walk.from, Job.kind) /\ CheckType(walk.at, Job.kind)
<1>1. Reading /\ walk # NoWalk /\ ~ Alias(walk.at)
  BY DEF Resolve
<1>2. /\ Layers(Job.mode) /\ Job.path \in ThemePath /\ ~ (Job.mode = Base /\ Keeps(Job))
      /\ ChainFrom(Job.mode, Job.path, walk.chain) /\ LastOf(walk.chain) \notin Aliased(Job.mode)
      /\ walk.at = Layered(Job.mode)[LastOf(walk.chain)] /\ walk.from = Layered(Job.mode)[Job.path]
  BY <1>1, WalkFacts
<1>3. Ends(Job.mode, Job.path) = {walk.at}
  BY <1>2, ConcreteEnd
<1>4. Fitting(Job) <=> fits /\ Normalises(walk.at.value, Job.kind)
  BY <1>2, <1>3 DEF Fitting, Fits
<1>5. CASE ~ fits
  <2>1. Refuse("type")
    BY <1>5 DEF Resolve
  <2>2. QED
    BY <1>1, <1>4, <1>5, <2>1, UnfitJobs, RefusalPreserves
<1>6. CASE fits /\ ~ Normalises(walk.at.value, Job.kind)
  <2>1. Refuse("value")
    BY <1>6 DEF Resolve
  <2>2. QED
    BY <1>1, <1>4, <1>6, <2>1, UnfitJobs, RefusalPreserves
<1>7. CASE fits /\ Normalises(walk.at.value, Job.kind)
  <2>1. Got(walk.at.value)
    BY <1>7 DEF Resolve
  <2>2. Means(Job.mode, Job, walk.at.value)
    BY <1>2, <1>3, <1>7 DEF Means
  <2>3. QED
    BY <1>1, <1>4, <1>7, <2>1, <2>2, GotPreserves
<1>8. QED
  BY <1>5, <1>6, <1>7


LEMMA CheckComponentsPreserves ==
  ASSUME ThemeInv, CheckComponents
  PROVE  ThemeInv'
<1>1. /\ set \in TokenSets /\ Base \in DOMAIN set /\ JobsInv /\ ReadInv
      /\ outcome = "reading" /\ jobs = <<>> /\ toRead = {}
  BY DEF ThemeInv, CheckComponents
<1>2. /\ outcome' = IF NamesInv THEN "done" ELSE "not a palette colour"
      /\ set' = set /\ toRead' = toRead /\ jobs' = jobs /\ walk' = walk /\ theme' = theme
  BY DEF CheckComponents, NamesInv, LeavesOf
<1>3. JobsInv' /\ ReadInv' /\ (NamesInv => NamesInv')
  BY <1>1, <1>2, NothingElseChanges
<1>4. ModesRead' = ModesRead /\ (Acceptable' <=> Acceptable)
  BY <1>2, SetStays
<1>5. CASE NamesInv
  BY <1>1, <1>2, <1>3, <1>4, <1>5 DEF ThemeInv
<1>6. CASE ~ NamesInv
  <2>1. PICK leaf \in LeavesOf(Component) :
          leaf.kind = "colorToken" /\ Named(leaf) /\ theme[<<Base, leaf.path>>].id \notin PalettePaths
    BY <1>6 DEF NamesInv
  <2>2. Means(Base, leaf, theme[<<Base, leaf.path>>])
    BY <1>1 DEF ReadInv, Waits, IsRead
  <2>3. Keeps(leaf)
    <3>1. ASSUME ~ Keeps(leaf) PROVE FALSE
      <4>1. Normalises(theme[<<Base, leaf.path>>], leaf.kind)
        BY <2>2, <3>1 DEF Means
      <4>2. theme[<<Base, leaf.path>>].form = "colour"
        BY <2>1, <4>1 DEF Normalises
      <4>3. QED
        BY <2>1, <4>2 DEF Named
    <3>2. QED
      BY <3>1
  <2>4. theme[<<Base, leaf.path>>].id = set[Base][leaf.path].alias
    BY <2>2, <2>3 DEF Means
  <2>5. ~ FitsComponent(leaf)
    BY <2>1, <2>3, <2>4 DEF FitsComponent, Keeps
  <2>6. ~ Acceptable
    BY <2>5 DEF Acceptable
  <2>7. QED
    BY <1>1, <1>2, <1>4, <1>6, <2>6 DEF ThemeInv
<1>7. QED
  BY <1>5, <1>6

LEMMA ThemeStarts == ThemeInit => ThemeInv
<1> SUFFICES ASSUME ThemeInit PROVE ThemeInv
  OBVIOUS
<1>1. set \in TokenSets /\ jobs = <<>> /\ walk = NoWalk
  BY DEF ThemeInit
<1>2. CASE Base \in DOMAIN set
  <2>1. outcome = "reading" /\ toRead = ModesRead \union {Base}
    BY <1>2 DEF ThemeInit, ModesRead
  <2>2. JobsInv /\ ReadInv /\ WalkInv
    BY <1>1, <2>1 DEF JobsInv, ReadInv, WalkInv
  <2>3. QED
    BY <1>1, <1>2, <2>1, <2>2 DEF ThemeInv
<1>3. CASE Base \notin DOMAIN set
  <2>1. outcome = "mode missing" /\ toRead = {} /\ ~ Acceptable
    BY <1>3 DEF ThemeInit, Acceptable
  <2>2. QED
    BY <1>1, <2>1 DEF ThemeInv
<1>4. QED
  BY <1>2, <1>3

LEMMA ThemeInvIsInductive == ThemeInv /\ [ThemeNext]_themeVars => ThemeInv'
<1> SUFFICES ASSUME ThemeInv, [ThemeNext]_themeVars PROVE ThemeInv'
  OBVIOUS
<1>1. CASE ReadMode
  BY <1>1, ReadModePreserves
<1>2. CASE LookUp
  BY <1>2, LookUpPreserves
<1>3. CASE Follow
  BY <1>3, FollowPreserves
<1>4. CASE Resolve
  BY <1>4, ResolvePreserves
<1>5. CASE CheckComponents
  BY <1>5, CheckComponentsPreserves
<1>6. CASE UNCHANGED themeVars
  <2>1. set' = set /\ toRead' = toRead /\ jobs' = jobs /\ walk' = walk /\ theme' = theme /\ outcome' = outcome
    BY <1>6 DEF themeVars
  <2>2. ModesRead' = ModesRead /\ (Acceptable' <=> Acceptable)
    BY <2>1, SetStays
  <2>3. Job' = Job /\ (JobsInv => JobsInv') /\ (ReadInv => ReadInv') /\ (NamesInv => NamesInv')
    BY <2>1, NothingElseChanges
  <2>4. WalkInv => WalkInv'
    <3>1. \A m : Layered(m)' = Layered(m)
      BY <2>1, SetStays
    <3>2. ChainFrom(Job.mode, Job.path, walk.chain)' <=> ChainFrom(Job.mode, Job.path, walk.chain)
      BY <2>1, <2>3, SetStays
    <3>3. Keeps(Job)' <=> Keeps(Job)
      BY <2>1, <2>3, SetStays
    <3>4. QED
      BY <2>1, <2>3, <3>1, <3>2, <3>3 DEF WalkInv
  <2>5. QED
    BY <2>1, <2>2, <2>3, <2>4 DEF ThemeInv
<1>7. QED
  BY <1>1, <1>2, <1>3, <1>4, <1>5, <1>6 DEF ThemeNext

LEMMA ThemeInvariant == ThemeSpec => []ThemeInv
BY ThemeStarts, ThemeInvIsInductive, PTL DEF ThemeSpec

\* While it is under way, the walk is along the chain of its job.
LEMMA WalkingIsOnAChain == ThemeInv /\ outcome = "reading" => ThemeTypeOK
<1> SUFFICES ASSUME ThemeInv, outcome = "reading", walk # NoWalk
             PROVE  /\ \A i, j \in DOMAIN walk.chain : walk.chain[i] = walk.chain[j] => i = j
                    /\ walk.at = Find(Job.mode, walk.chain[Len(walk.chain)])
  BY DEF ThemeTypeOK
<1>1. jobs # <<>> /\ ChainFrom(Job.mode, Job.path, walk.chain)
        /\ walk.at = Layered(Job.mode)[LastOf(walk.chain)]
  BY DEF ThemeInv, WalkInv
<1>2. Layers(Job.mode)
  BY <1>1, JobFacts DEF Reading
<1>3. LastOf(walk.chain) \in DOMAIN Layered(Job.mode) /\ DOMAIN walk.chain = 1 .. Len(walk.chain)
  BY <1>1, ChainFacts
<1>4. walk.at = Find(Job.mode, LastOf(walk.chain))
  BY <1>1, <1>2, <1>3, LayeredTokens
<1>5. QED
  BY <1>1, <1>3, <1>4 DEF ChainFrom, LastOf

LEMMA ThemeTypeStep == ThemeInv /\ ThemeTypeOK /\ [ThemeNext]_themeVars => ThemeTypeOK'
<1> SUFFICES ASSUME ThemeInv, ThemeTypeOK, [ThemeNext]_themeVars PROVE ThemeTypeOK'
  OBVIOUS
<1>1. ThemeInv'
  BY ThemeInvIsInductive
<1>2. CASE (outcome = "reading")'
  BY <1>1, <1>2, WalkingIsOnAChain, PTL
<1>3. CASE UNCHANGED <<set, jobs, walk>>
  BY <1>3 DEF ThemeTypeOK, Job, Find
<1>4. CASE outcome' # "reading" /\ ~ UNCHANGED <<set, jobs, walk>>
  BY <1>4 DEF ThemeNext, ReadMode, LookUp, Follow, Resolve, CheckComponents, Refuse, Got, Reading, themeVars
<1>5. QED
  BY <1>2, <1>3, <1>4

LEMMA ThemeTypeInit == ThemeInit => ThemeTypeOK
BY DEF ThemeInit, ThemeTypeOK

\* cascade.ts, followAliases: whatever the aliases of a token set, no walk
\* passes a path twice, and it stands at the token its last path names.
THEOREM WalksNeverCircle == ThemeSpec => []ThemeTypeOK
BY ThemeStarts, ThemeInvIsInductive, ThemeTypeInit, ThemeTypeStep, PTL DEF ThemeSpec

-----------------------------------------------------------------------------
(* What follows.                                                           *)

\* What a done transform has read.
LEMMA DoneIsRead ==
  ASSUME ThemeInv, outcome = "done"
  PROVE  /\ {Base} \union ModesRead \subseteq DOMAIN set /\ NamesInv
         /\ \A m \in ModesRead : \A leaf \in LeavesOf(Palette) : IsRead(m, leaf)
         /\ \A m \in ModesRead : PathsOf(Contained) \cap DOMAIN Layered(m) # {} =>
              \A leaf \in LeavesOf(Contained) : IsRead(m, leaf)
         /\ \A leaf \in LeavesOf(Component) : IsRead(Base, leaf)
BY DEF ThemeInv, ReadInv, Waits

LEMMA ReadPalettes ==
  ASSUME NEW m \in ModesRead, NEW leaf, IsRead(m, leaf)
  PROVE  /\ Fits(m, leaf.path, leaf.kind)
         /\ \E token \in Ends(m, leaf.path) : theme[<<m, leaf.path>>] = token.value
<1>1. m # Base
  BY ModesOfThemes
<1>2. Fitting(JobFor(m, leaf)) /\ Means(m, leaf, theme[<<m, leaf.path>>])
  BY DEF IsRead
<1>3. QED
  BY <1>1, <1>2 DEF Fitting, JobFor, Means

LEMMA NamedComponents ==
  ASSUME NEW leaf, leaf.kind = "colorToken", IsRead(Base, leaf)
  PROVE  /\ Named(leaf) <=> Keeps(leaf)
         /\ Keeps(leaf) => /\ theme[<<Base, leaf.path>>].id = set[Base][leaf.path].alias
                           /\ CheckType(set[Base][leaf.path], leaf.kind)
         /\ ~ Keeps(leaf) => Fits(Base, leaf.path, leaf.kind)
<1>1. Fitting(JobFor(Base, leaf)) /\ Means(Base, leaf, theme[<<Base, leaf.path>>])
  BY DEF IsRead
<1>2. Keeps(JobFor(Base, leaf)) <=> Keeps(leaf)
  BY DEF Keeps, JobFor
<1>3. CASE Keeps(leaf)
  BY <1>1, <1>2, <1>3 DEF Fitting, Means, Named, JobFor
<1>4. CASE ~ Keeps(leaf)
  <2>1. Normalises(theme[<<Base, leaf.path>>], leaf.kind)
    BY <1>1, <1>4 DEF Means
  <2>2. theme[<<Base, leaf.path>>].form = "colour"
    BY <2>1 DEF Normalises
  <2>3. QED
    BY <1>1, <1>2, <1>4, <2>2 DEF Fitting, Named, JobFor
<1>5. QED
  BY <1>3, <1>4

LEMMA DoneIsAcceptable ==
  ASSUME ThemeInv, outcome = "done"
  PROVE  Acceptable
<1>1. ASSUME NEW leaf \in LeavesOf(Component)
      PROVE  FitsComponent(leaf)
  <2>1. IsRead(Base, leaf)
    BY DoneIsRead
  <2>2. CASE Keeps(leaf)
    <3>1. leaf.kind = "colorToken"
      BY <2>2 DEF Keeps
    <3>2. set[Base][leaf.path].alias \in PalettePaths /\ CheckType(set[Base][leaf.path], leaf.kind)
      BY <2>1, <2>2, <3>1, NamedComponents, DoneIsRead DEF NamesInv
    <3>3. QED
      BY <2>2, <3>2 DEF FitsComponent, Keeps
  <2>3. CASE ~ Keeps(leaf)
    <3>1. Fits(Base, leaf.path, leaf.kind)
      BY <2>1, <2>3 DEF IsRead, Fitting, JobFor, Keeps
    <3>2. QED
      BY <2>3, <3>1 DEF FitsComponent, Keeps
  <2>4. QED
    BY <2>2, <2>3
<1>2. {Base} \union Known \subseteq DOMAIN set
  BY DoneIsRead DEF ModesRead
<1>3. \A m \in ModesRead :
        /\ \A leaf \in LeavesOf(Palette) : Fits(m, leaf.path, leaf.kind)
        /\ PathsOf(Contained) \cap DOMAIN Layered(m) # {} =>
             \A leaf \in LeavesOf(Contained) : Fits(m, leaf.path, leaf.kind)
  BY DoneIsRead, ReadPalettes
<1>4. QED
  BY <1>1, <1>2, <1>3 DEF Acceptable

\* For any schema, any modes, and any token sets, whatever cycles and dead ends
\* their aliases have: transform (theme.ts, cascade.ts, normalise.ts), which
\* follows aliases one by one and stops at the first error, accepts exactly the
\* sets in which everything is in order, and what it read for a palette path is
\* the token at the end of its aliases.
THEOREM TransformIsRight == ThemeSpec => []TransformIsReference
<1>1. ASSUME ThemeInv PROVE TransformIsReference
  <2>1. outcome \notin {"reading", "done"} => ~ Acceptable
    BY <1>1 DEF ThemeInv
  <2>2. CASE outcome = "done"
    <3>1. Acceptable
      BY <1>1, <2>2, DoneIsAcceptable
    <3>2. \A m \in ModesRead : \A leaf \in LeavesOf(Palette) :
            \E token \in Ends(m, leaf.path) : theme[<<m, leaf.path>>] = token.value
      BY <1>1, <2>2, DoneIsRead, ReadPalettes
    <3>3. QED
      BY <2>2, <3>1, <3>2 DEF TransformIsReference
  <2>3. CASE outcome # "done"
    BY <2>1, <2>3 DEF TransformIsReference
  <2>4. QED
    BY <2>2, <2>3
<1>2. QED
  BY <1>1, ThemeInvariant, PTL

\* A component colour that was bound by name, once, is in every mode of the
\* theme what its alias means there (palettePath.ts L25-31, flatten.ts L14-24).
THEOREM ComponentsAreOfTheMode == ThemeSpec => []ComponentsFollowTheMode
<1>1. ASSUME ThemeInv PROVE ComponentsFollowTheMode
  <2> SUFFICES ASSUME outcome = "done", NEW leaf \in LeavesOf(Component), NEW m \in Known,
                      leaf.kind = "colorToken", Named(leaf), theme[<<Base, leaf.path>>].id \in PathsOf(Palette)
               PROVE  \E token \in Ends(m, set[Base][leaf.path].alias) : Emitted(m, leaf.path) = token.value
    BY DEF ComponentsFollowTheMode
  <2> DEFINE path == set[Base][leaf.path].alias
  <2>1. theme[<<Base, leaf.path>>].id = path
    BY <1>1, DoneIsRead, NamedComponents
  <2>2. PICK colour \in LeavesOf(Palette) : colour.path = path
    BY <2>1 DEF PathsOf, LeavesOf
  <2>3. m \in ModesRead
    BY DEF ModesRead
  <2>4. \E token \in Ends(m, colour.path) : theme[<<m, colour.path>>] = token.value
    BY <1>1, <2>3, DoneIsRead, ReadPalettes
  <2>5. Emitted(m, leaf.path) = theme[<<m, path>>]
    BY <2>1 DEF Emitted, Named
  <2>6. QED
    BY <2>2, <2>4, <2>5
<1>2. QED
  BY <1>1, ThemeInvariant, PTL

=============================================================================
