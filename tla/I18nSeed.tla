------------------------------ MODULE I18nSeed ------------------------------
(***************************************************************************)
(* EnsureSeeded of I18nSeed.cs: replicas of the API that start over one    *)
(* shared folder copy the catalogs their image bundles, unless the folder  *)
(* holds a catalog already.  A replica looks for catalogs once, then goes  *)
(* through the bundled files in the order the file system lists them; it   *)
(* looks for each file before it copies it, and a copy first creates the   *)
(* file and then fills it.  Other replicas, crashes, full disks, people    *)
(* and writes through the API come in between.                             *)
(***************************************************************************)
EXTENDS FiniteSets

CONSTANTS
  Process,   \* the replicas
  File,      \* the names of *.json files in the folder
  Seed,      \* those that the image bundles, _config.json among them
  CatalogOf  \* those named after a locale code: the catalogs

ASSUME FilesAssumption == Seed \subseteq File /\ CatalogOf \subseteq File

VARIABLES
  files,   \* files[f]: what the folder holds under this name
  at,      \* at[p]: where replica p is in its start
  todo,    \* todo[p]: the bundled files that p's loop has not done
  target,  \* target[p]: the file that p's loop is at
  upset    \* observer: what has disturbed the start over an empty folder

seedVars == <<files, at, todo, target, upset>>

Content == {"missing", "partial", "shipped", "edited"}
Disturbance == {"catalog", "person", "fault", "crash"}

SeedTypeOK ==
  /\ files \in [File -> Content]
  /\ at \in [Process -> {"down", "next", "copy", "fill", "up"}]
  /\ todo \in [Process -> SUBSET Seed]
  /\ target \in [Process -> Seed \union {"none"}]
  /\ upset \subseteq Disturbance
  /\ \A p \in Process : at[p] \in {"copy", "fill"} => target[p] \in todo[p]

Missing == {f \in Seed : files[f] = "missing"}

\* By its name only: an empty or torn catalog counts, _config.json does not.
HasCatalog == \E f \in CatalogOf : files[f] # "missing"

Filling(f) == \E p \in Process : at[p] = "fill" /\ target[p] = f

\* Wherever p's start ends, its loop and what it was at are gone.
LeaveAs(p, where) ==
  /\ at' = [at EXCEPT ![p] = where]
  /\ todo' = [todo EXCEPT ![p] = {}]
  /\ target' = [target EXCEPT ![p] = "none"]

-----------------------------------------------------------------------------

\* A share as it was created, or as it was left: everything on it is precious.
SeedInit ==
  /\ files \in [File -> {"missing", "edited"}]
  /\ at = [p \in Process |-> "down"]
  /\ todo = [p \in Process |-> {}]
  /\ target = [p \in Process |-> "none"]
  /\ upset = IF HasCatalog THEN {"catalog"} ELSE {}

Start(p) ==
  /\ at[p] = "down"
  /\ IF HasCatalog
     THEN LeaveAs(p, "up")
     ELSE /\ at' = [at EXCEPT ![p] = "next"]
          /\ todo' = [todo EXCEPT ![p] = Seed]
          /\ UNCHANGED target
  /\ UNCHANGED <<files, upset>>

\* Mutant: an existing target ends the loop (break in place of continue).
LookOrStop(p, f) ==
  /\ at[p] = "next"
  /\ f \in todo[p]
  /\ IF files[f] # "missing"
     THEN LeaveAs(p, "up")
     ELSE /\ at' = [at EXCEPT ![p] = "copy"]
          /\ target' = [target EXCEPT ![p] = f]
          /\ UNCHANGED todo
  /\ UNCHANGED <<files, upset>>

Look(p, f) ==
  /\ at[p] = "next"
  /\ f \in todo[p]
  /\ IF files[f] # "missing"
     THEN todo' = [todo EXCEPT ![p] = @ \ {f}] /\ UNCHANGED <<at, target>>
     ELSE /\ at' = [at EXCEPT ![p] = "copy"]
          /\ target' = [target EXCEPT ![p] = f]
          /\ UNCHANGED todo
  /\ UNCHANGED <<files, upset>>

\* Mutant: File.Copy(source, target, overwrite: true).
CopyOver(p) ==
  /\ at[p] = "copy"
  /\ files' = [files EXCEPT ![target[p]] = "partial"]
  /\ at' = [at EXCEPT ![p] = "fill"]
  /\ UNCHANGED <<todo, target, upset>>

\* File.Copy throws if the target has come into being since it was looked for;
\* Program.SeedTranslations logs it and the replica starts without the rest.
Copy(p) ==
  /\ at[p] = "copy"
  /\ IF files[target[p]] # "missing"
     THEN LeaveAs(p, "up") /\ UNCHANGED files
     ELSE /\ files' = [files EXCEPT ![target[p]] = "partial"]
          /\ at' = [at EXCEPT ![p] = "fill"]
          /\ UNCHANGED <<todo, target>>
  /\ UNCHANGED upset

Fill(p) ==
  /\ at[p] = "fill"
  /\ files' = [files EXCEPT ![target[p]] = "shipped"]
  /\ at' = [at EXCEPT ![p] = "next"]
  /\ todo' = [todo EXCEPT ![p] = @ \ {target[p]}]
  /\ target' = [target EXCEPT ![p] = "none"]
  /\ UNCHANGED upset

Finish(p) ==
  /\ at[p] = "next"
  /\ todo[p] = {}
  /\ LeaveAs(p, "up")
  /\ UNCHANGED <<files, upset>>

\* The disk refuses the copy or its contents: logged, and the replica starts.
CopyFails(p) ==
  /\ at[p] \in {"copy", "fill"}
  /\ LeaveAs(p, "up")
  /\ upset' = upset \union {"fault"}
  /\ UNCHANGED files

\* A replica dies in the middle of its start, or is replaced later.
Crash(p) ==
  /\ at[p] # "down"
  /\ LeaveAs(p, "down")
  /\ upset' = IF at[p] = "up" THEN upset ELSE upset \union {"crash"}
  /\ UNCHANGED files

\* A write through the API of a replica that is up; a torn file is no catalog.
Edit(f) ==
  /\ \E p \in Process : at[p] = "up"
  /\ files[f] \in {"shipped", "edited"}
  /\ files' = [files EXCEPT ![f] = "edited"]
  /\ UNCHANGED <<at, todo, target, upset>>

\* A person drops or removes a file, but not one that is being copied.
DropFile(f) ==
  /\ ~Filling(f)
  /\ files' = [files EXCEPT ![f] = "edited"]
  /\ upset' = upset \union {"person"}
  /\ UNCHANGED <<at, todo, target>>

RemoveFile(f) ==
  /\ ~Filling(f)
  /\ files' = [files EXCEPT ![f] = "missing"]
  /\ upset' = upset \union {"person"}
  /\ UNCHANGED <<at, todo, target>>

SeedNext ==
  \/ \E p \in Process :
       Start(p) \/ (\E f \in Seed : Look(p, f)) \/ Copy(p) \/ Fill(p) \/ Finish(p)
         \/ CopyFails(p) \/ Crash(p)
  \/ \E f \in File : Edit(f) \/ DropFile(f) \/ RemoveFile(f)

SeedSpec == SeedInit /\ [][SeedNext]_seedVars

-----------------------------------------------------------------------------
(* Properties.                                                             *)

AllUp == \A p \in Process : at[p] = "up"

\* "A folder that already holds a catalog is never touched, so edits made
\* through the API survive every restart" (I18nSeed.cs L3): a replica that has
\* seen an empty folder is still at work when another one serves writes, and
\* it must not replace what they or people have made.
SeedsNeverOverwrite ==
  [][\A f \in File : files[f] = "edited" => files'[f] \in {"edited", "missing"}]_seedVars

\* However many replicas start at once over a share without catalogs, and
\* although each gives up at the first file that another one got to before it,
\* one of them reaches the end: when all are up, everything bundled is there.
FreshShareIsPopulated ==
  AllUp /\ Process # {} /\ upset = {} =>
    \A f \in Seed : files[f] \in {"shipped", "edited"}

\* "a fresh share starts populated" (docs/deployment.md L260-261), also when a
\* replica had to start twice.
PopulatedAfterRestart ==
  AllUp /\ upset \subseteq {"crash"} => Missing = {}
=============================================================================
