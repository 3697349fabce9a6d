---------------------------- MODULE AtomicCatalog ----------------------------
(***************************************************************************)
(* What the translations store promises a client, with every file, lock,   *)
(* snapshot and process forgotten: a locale has one live catalog, and an   *)
(* accepted write replaces it in ONE step that reads the catalog it        *)
(* replaces.  A write that names a version (If-Match) is accepted only     *)
(* while that version is the live one.  People may also replace a catalog  *)
(* file outside the API, at any time.                                      *)
(*                                                                         *)
(* I18nStore implements this specification in about nine disk accesses     *)
(* per write, from any number of processes.                                *)
(***************************************************************************)
EXTENDS Naturals

CONSTANTS
  Locale,     \* locale codes
  Key,        \* translation keys
  Value,      \* translated texts
  NoValue,    \* a key that a catalog does not have
  NoFile,     \* a locale without a (readable) catalog file
  Named,      \* the version numbers that a client or an editor may name
  AnyVersion  \* a request without If-Match

VARIABLES
  live,       \* live[l]: the catalog a reader of l is answered with
  applied     \* every write that went live, with the catalog it replaced

vars == <<live, applied>>

Version == Nat \ {0}
Entries == [Key -> Value \union {NoValue}]
Catalog == [version: Version, entries: Entries]

Change ==
  [op: {"set"}, key: Key, value: Value]
    \union [op: {"delete"}, key: Key]
    \union [op: {"rollback"}, to: Named]

\* What a change may turn the entries of a catalog into.  A rollback restores
\* older entries; which ones is history's business, not the live catalog's.
Results(change, entries) ==
  CASE change.op = "set" -> {[entries EXCEPT ![change.key] = change.value]}
    [] change.op = "delete" -> {[entries EXCEPT ![change.key] = NoValue]}
    [] change.op = "rollback" -> Entries

Init ==
  /\ live \in [Locale -> Catalog \union {NoFile}]
  /\ applied = {}

\* An accepted write: read, check, compute and replace, indivisibly.  The
\* version moves by two when a catalog edited by hand is first given a
\* version of its own.
Write(l, change, ifMatch) ==
  /\ live[l] # NoFile
  /\ ifMatch \in {AnyVersion, live[l].version}
  /\ \E bump \in {1, 2}, entries \in Results(change, live[l].entries) :
       LET after == [version |-> live[l].version + bump, entries |-> entries]
       IN  /\ live' = [live EXCEPT ![l] = after]
           /\ applied' = applied \union
                {[locale |-> l, change |-> change, ifMatch |-> ifMatch,
                  before |-> live[l], after |-> after]}

\* A catalog file dropped, edited or removed by a person.
ReplaceFile(l) ==
  /\ live'[l] \in Catalog \union {NoFile}
  /\ live' = [live EXCEPT ![l] = live'[l]]
  /\ UNCHANGED applied

Next ==
  \E l \in Locale :
    \/ \E change \in Change, ifMatch \in Named \union {AnyVersion} : Write(l, change, ifMatch)
    \/ ReplaceFile(l)

Spec == Init /\ [][Next]_vars
=============================================================================
