----------------------------- MODULE TokenStudio -----------------------------
(***************************************************************************)
(* The token studio of the proof of concept: edits of the committed export *)
(* in the browser, gated by the engine of the sync, and saved through the  *)
(* development server into exports/studio, file by file, for the sync to   *)
(* release.  Requests to the server may overtake each other; the server    *)
(* may be stopped, also between two files.                                 *)
(***************************************************************************)
EXTENDS TokenExport, Integers

CONSTANTS
  Committed,   \* COMMITTED: the export the page was built with
  Edits,       \* the edits a designer may make: [file, path, value]
  Transforms,  \* exports that transform() accepts
  Luminance,   \* value -> relative luminance x 10000, or Translucent
  Pairs,       \* CONTRAST_PAIRS: [foreground, background, minimum], the minimum x 100
  Translucent, Unwritten,
  MaxStudioSaves, MaxEdits, MaxStops

ASSUME StudioAssumption ==
  /\ Committed \in Transforms /\ Committed = [f \in File |-> Committed[f]]
  /\ Luminance \in [Value -> Nat \union {Translucent}]
  /\ Pairs \subseteq [foreground : Path, background : Path, minimum : Nat]

VARIABLES
  studio,   \* whether it is open
  edited,   \* files: the export as it is edited
  saved,    \* the answer shown below the buttons, or Nothing
  posts,    \* under way: [id, files, answered, heard]
  posted,   \* history: the exports that were ever sent
  writing,  \* the server: [id, files, left] of the post it writes, or Nothing
  exports,  \* exports/studio: file -> content
  torn,     \* a stop left a save half written, and none was completed since
  edits, saves, stops

studioVars == <<studio, edited, saved, posts, posted, writing, exports, torn, edits, saves, stops>>

-----------------------------------------------------------------------------
(* contrast.ts                                                             *)

\* contrastRatio, x 100: rounded to two decimals.  Nothing can be said of a
\* translucent colour.
ContrastRatio(foreground, background) ==
  LET first == Luminance[foreground] + 500
      second == Luminance[background] + 500
      lighter == IF first >= second THEN first ELSE second
      darker == IF first >= second THEN second ELSE first
  IN  (200 * lighter + darker) \div (2 * darker)

Opaque(palette, pair) ==
  Translucent \notin {Luminance[palette[pair.foreground]], Luminance[palette[pair.background]]}

CheckContrast(palette) ==
  {pair \in Pairs : Opaque(palette, pair)
                      /\ ContrastRatio(palette[pair.foreground], palette[pair.background]) < pair.minimum}

-----------------------------------------------------------------------------

\* build: the theme that transform makes of the files, or the reason it throws.
Build(files) == files \in Transforms

\* A palette of a mode, as the cascade reads it.
PaletteOf(files, m) ==
  [p \in Path |-> (CHOOSE t \in Tokens(files) :
                     t.path = p /\ t.mode = IF At(Tokens(files), m, p) = {} THEN "base" ELSE m).value]

\* transform() throws when a theme lacks a colour, so what it accepts has both
\* colours of every pair in every mode.
ASSUME TransformsAssumption ==
  \A files \in Transforms, m \in Mode \ {"base"}, pair \in Pairs :
    {PaletteOf(files, m)[pair.foreground], PaletteOf(files, m)[pair.background]} \subseteq Value

Findings(files) ==
  IF Build(files) THEN UNION {CheckContrast(PaletteOf(files, m)) : m \in {n \in Mode : n # "base"}} ELSE {}

\* withValue: one $value replaced.
WithValue(files, edit) == [files EXCEPT ![edit.file][edit.path].value = edit.value]

StudioInit ==
  /\ studio = FALSE /\ edited = Committed /\ saved = Nothing
  /\ posts = {} /\ posted = {} /\ writing = Nothing
  /\ exports = [f \in File |-> Unwritten] /\ torn = FALSE
  /\ edits = 0 /\ saves = 0 /\ stops = 0

\* App: the studio is mounted anew each time, with the committed files; one
\* that is closed does not hear its answers.
Toggle ==
  /\ studio' = ~ studio
  /\ edited' = Committed /\ saved' = Nothing
  /\ posts' = {[p EXCEPT !.heard = FALSE] : p \in posts}
  /\ UNCHANGED <<posted, writing, exports, torn, edits, saves, stops>>

Edit(edit) ==
  /\ studio /\ edits < MaxEdits
  /\ edited' = WithValue(edited, edit) /\ edits' = edits + 1
  /\ UNCHANGED <<studio, saved, posts, posted, writing, exports, torn, saves, stops>>

Reset ==
  /\ studio /\ Diff(Committed, edited) # {}
  /\ edited' = Committed
  /\ UNCHANGED <<studio, saved, posts, posted, writing, exports, torn, edits, saves, stops>>

\* The button: disabled unless the files build, differ, and nothing is found.
Savable(files) == Build(files) /\ Diff(Committed, files) # {} /\ Findings(files) = {}

SaveStudio ==
  /\ studio /\ Savable(edited) /\ saves < MaxStudioSaves
  /\ posts' = posts \union {[id |-> saves + 1, files |-> edited, answered |-> FALSE, heard |-> TRUE]}
  /\ posted' = posted \union {edited}
  /\ saves' = saves + 1
  /\ UNCHANGED <<studio, edited, saved, writing, exports, torn, edits, stops>>

\* The body has arrived; its files are written in one turn of the event loop.
Receive(post) ==
  /\ ~ post.answered /\ writing = Nothing
  /\ writing' = [id |-> post.id, files |-> post.files, left |-> File]
  /\ UNCHANGED <<studio, edited, saved, posts, posted, exports, torn, edits, saves, stops>>

Write(f) ==
  /\ writing # Nothing /\ f \in writing.left
  /\ exports' = [exports EXCEPT ![f] = writing.files[f]]
  /\ writing' = [writing EXCEPT !.left = @ \ {f}]
  /\ torn' = TRUE
  /\ UNCHANGED <<studio, edited, saved, posts, posted, edits, saves, stops>>

WithAnswer(p) == IF p.id = writing.id THEN [p EXCEPT !.answered = TRUE] ELSE p

\* Mutant: the writes are not waited for.
RespondEarly ==
  /\ writing # Nothing
  /\ posts' = {WithAnswer(p) : p \in posts}
  /\ writing' = Nothing /\ torn' = FALSE
  /\ UNCHANGED <<studio, edited, saved, posted, exports, edits, saves, stops>>

\* response.end
Respond ==
  /\ writing # Nothing /\ writing.left = {}
  /\ posts' = {WithAnswer(p) : p \in posts}
  /\ writing' = Nothing /\ torn' = FALSE
  /\ UNCHANGED <<studio, edited, saved, posted, exports, edits, saves, stops>>

\* The server stops and is started again; its requests fail, and save() does
\* not catch that.
Stopped ==
  /\ stops < MaxStops /\ stops' = stops + 1
  /\ posts' = {p \in posts : p.answered} /\ writing' = Nothing
  /\ UNCHANGED <<studio, edited, saved, posted, exports, torn, edits, saves>>

\* The text of an answer, whatever was edited or saved since.
Answered(post) ==
  /\ post.answered
  /\ saved' = IF post.heard THEN post.id ELSE saved
  /\ posts' = posts \ {post}
  /\ UNCHANGED <<studio, edited, posted, writing, exports, torn, edits, saves, stops>>

StudioNext ==
  \/ Toggle \/ Reset \/ SaveStudio \/ Respond \/ Stopped
  \/ \E edit \in Edits : Edit(edit)
  \/ \E post \in posts : Receive(post) \/ Answered(post)
  \/ \E f \in File : Write(f)

StudioSpec == StudioInit /\ [][StudioNext]_studioVars

-----------------------------------------------------------------------------

\* What is written is of a post that waits for its answer.
StudioTypeOK ==
  /\ studio \in BOOLEAN /\ torn \in BOOLEAN
  /\ saved \in (1 .. saves) \union {Nothing}
  /\ \A p \in posts : p.id \in 1 .. saves /\ p.answered \in BOOLEAN /\ p.heard \in BOOLEAN /\ p.files \in posted
  /\ writing # Nothing =>
       /\ writing.left \subseteq File
       /\ \E p \in posts : p.id = writing.id /\ p.files = writing.files /\ ~ p.answered

\* TokenStudio.tsx L91, vite.config.ts L25-28: what lies in exports/studio,
\* unless a stop cut a save short, is an export that the sync's gates let
\* pass: one save as a whole, however many were under way, that builds,
\* changes something, and whose pairs have their contrast, but for the
\* rounding of the ratio (by half of a hundredth).  After a stop files of two
\* saves may lie side by side (the sync would read them as one export), but
\* each of them is as some save had it.
ExportsAreGated ==
  /\ \A f \in File : exports[f] # Unwritten => \E files \in posted : exports[f] = files[f]
  /\ ~ torn /\ (\E f \in File : exports[f] # Unwritten) =>
       /\ exports \in posted
       /\ Build(exports) /\ Diff(Committed, exports) # {}
       /\ \A m \in Mode \ {"base"}, pair \in Pairs :
            LET palette == PaletteOf(exports, m)
                frontLum == Luminance[palette[pair.foreground]] + 500
                backLum == Luminance[palette[pair.background]] + 500
            IN  Opaque(palette, pair) =>
                  \/ 200 * frontLum >= (2 * pair.minimum - 1) * backLum
                  \/ 200 * backLum >= (2 * pair.minimum - 1) * frontLum

=============================================================================
