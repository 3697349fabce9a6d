------------------------- MODULE ImportAttribution --------------------------
(***************************************************************************)
(* importGraph.ts: which components answer for what a module reads.  For   *)
(* every source file the import graph is walked backwards, from a module   *)
(* to those that import it, up to the first components (or the theme       *)
(* entry) on each way: a work list, and a set of what was seen.            *)
(***************************************************************************)
EXTENDS Naturals, Sequences, FiniteSets

CONSTANTS
  Module,    \* modules of the package, and what else its sources import
  Graphs,    \* the import graphs: functions from source files to what they import
  Terminals, \* terminalModulesOf: components the index exports, and the theme entry
  Nobody     \* no module

ASSUME GraphsAssumption ==
  /\ \A g \in Graphs : DOMAIN g \subseteq Module /\ \A f \in DOMAIN g : g[f] \subseteq Module
  /\ Nobody \notin Module /\ IsFiniteSet(Module)

VARIABLES
  imports,    \* imports[f]: what the file of module f imports
  module,     \* the module that is being attributed
  queue,      \* the work list
  seen, reached,
  attributed  \* attributed[f]: the answers so far

walkVars == <<imports, module, queue, seen, reached, attributed>>

Files == DOMAIN imports
Elements(s) == {s[i] : i \in DOMAIN s}

\* importersOf
Importers(target) == {f \in Files : target \in imports[f]}

\* A list of a set, in any order, nothing twice.
Lists(set) == {s \in [1 .. Cardinality(set) -> set] : Elements(s) = set}

WalkInit ==
  /\ imports \in Graphs
  /\ module = Nobody /\ queue = <<>> /\ seen = {} /\ reached = {}
  /\ attributed = <<>>

\* Mutant: the sets outlive the call.
AskWithOldSets(f) ==
  /\ module = Nobody /\ f \in Files \ DOMAIN attributed
  /\ module' = f /\ queue' = <<f>>
  /\ UNCHANGED <<imports, seen, reached, attributed>>

\* buildTokenUsage asks for the attribution of a file.
Ask(f) ==
  /\ module = Nobody /\ f \in Files \ DOMAIN attributed
  /\ module' = f /\ queue' = <<f>> /\ seen' = {} /\ reached' = {}
  /\ UNCHANGED <<imports, attributed>>

Skip ==
  /\ queue # <<>> /\ Head(queue) \in seen
  /\ queue' = Tail(queue)
  /\ UNCHANGED <<imports, module, seen, reached, attributed>>

\* A component answers for what it reaches; the walk does not go through it.
Stop ==
  /\ queue # <<>> /\ Head(queue) \notin seen /\ Head(queue) \in Terminals
  /\ queue' = Tail(queue)
  /\ seen' = seen \union {Head(queue)}
  /\ reached' = reached \union {Head(queue)}
  /\ UNCHANGED <<imports, module, attributed>>

\* Mutant: a module on the way answers as well.
ClimbReaching ==
  /\ queue # <<>> /\ Head(queue) \notin seen /\ Head(queue) \notin Terminals
  /\ \E more \in Lists(Importers(Head(queue))) : queue' = Tail(queue) \o more
  /\ seen' = seen \union {Head(queue)}
  /\ reached' = IF Importers(Head(queue)) = {} THEN reached \union {Head(queue)} ELSE reached
  /\ UNCHANGED <<imports, module, attributed>>

\* Mutant: nothing is remembered of what was seen.
ClimbForgetful ==
  /\ queue # <<>> /\ Head(queue) \notin seen /\ Head(queue) \notin Terminals
  /\ \E more \in Lists(Importers(Head(queue))) : queue' = Tail(queue) \o more
  /\ UNCHANGED <<imports, module, seen, reached, attributed>>

Climb ==
  /\ queue # <<>> /\ Head(queue) \notin seen /\ Head(queue) \notin Terminals
  /\ \E more \in Lists(Importers(Head(queue))) : queue' = Tail(queue) \o more
  /\ seen' = seen \union {Head(queue)}
  /\ UNCHANGED <<imports, module, reached, attributed>>

Answer ==
  /\ module # Nobody /\ queue = <<>>
  /\ attributed' = [f \in DOMAIN attributed \union {module} |->
                      IF f # module THEN attributed[f] ELSE IF reached # {} THEN reached ELSE {module}]
  /\ module' = Nobody
  /\ UNCHANGED <<imports, queue, seen, reached>>

WalkNext == (\E f \in Files : Ask(f)) \/ Skip \/ Stop \/ Climb \/ Answer

\* One synchronous computation.
WalkSpec == WalkInit /\ [][WalkNext]_walkVars /\ WF_walkVars(WalkNext)

-----------------------------------------------------------------------------
(* The reference: no work list, but what every set that is closed under    *)
(* "is imported by", short of the components, has to hold.                 *)

Closed(S) == \A m \in S \ Terminals : Importers(m) \subseteq S

Above(f) == {m \in Module : \A S \in SUBSET Module : f \in S /\ Closed(S) => m \in S}

Owners(f) == IF Above(f) \cap Terminals # {} THEN Above(f) \cap Terminals ELSE {f}

-----------------------------------------------------------------------------

\* Everything has its type; only components are reached, and each only once.
WalkTypeOK ==
  /\ imports \in Graphs
  /\ module \in Files \union {Nobody}
  /\ queue \in Seq(Module)
  /\ seen \subseteq Module /\ reached \subseteq seen \cap Terminals
  /\ DOMAIN attributed \subseteq Files
  /\ module = Nobody => queue = <<>>

\* attributionOf (importGraph.ts L43-63): with any cycles among the imports,
\* a module's tokens are credited to exactly those components that reach it
\* through modules that are not components, and to itself when there are none.
AttributionIsReachability ==
  \A f \in DOMAIN attributed : attributed[f] = Owners(f)

\* The work list runs dry for every file, whatever cycles the imports have.
EveryFileIsAttributed == <>(DOMAIN attributed = Files)

=============================================================================
