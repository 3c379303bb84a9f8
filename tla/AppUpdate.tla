------------------------------ MODULE AppUpdate ------------------------------
(* How a tab of the client is brought up to date (apps/web/src/pwa/update): a *)
(* worker that waits or a backend that no longer supports the build is        *)
(* detected, the draft in the storage of the browser is migrated once, the    *)
(* prompt is shown when the moment is safe, and its button reloads the page.  *)
(* The composer is what it does with its record: type, store after a while,   *)
(* and store when the page hides.  No feature holds the gate, so that a       *)
(* moment is unsafe when the page is hidden or somebody has just typed.       *)
EXTENDS Naturals

CONSTANTS Texts, NoText,   \* what can be typed; a draft nobody has written in
          NoRecord

ASSUME NoTextIsText == NoText \in Texts

Kinds == {"none", "available", "required"}

\* A record of the store carries a version once it was migrated.
StoredDrafts == [words : Texts, version : {0, 1}]
ASSUME NoRecordIsApart == NoRecord \notin StoredDrafts

VARIABLES
  browser,   \* the registration of the service worker
  page,      \* the flow of the page that is loaded
  mark,      \* UPDATE_ACCEPTED_KEY in the storage of the session
  draft, late,   \* the record of the composer, and whether its text waits to be stored
  kept, held     \* the record in the store, and the one a migration has read

updateVars == <<browser, page, mark, draft, late, kept, held>>

\* What was typed, whether the page was loaded through the prompt, whether a
\* worker was found since, and whether a tab died with what was typed.
VARIABLES typed, agreed, renewed, died
updateHistory == <<typed, agreed, renewed, died>>

Browsers == [active : BOOLEAN, installing : BOOLEAN, waiting : BOOLEAN]
Pages == [controlled : BOOLEAN, watching : BOOLEAN, detected : BOOLEAN, unsupported : BOOLEAN,
          accepted : BOOLEAN, visible : BOOLEAN, settled : BOOLEAN,
          prepared : {"no", "running", "yes"}, awaiting : Kinds, prompt : Kinds, leaving : BOOLEAN]

FreshPage(controlled, accepted) ==
  [controlled |-> controlled, watching |-> FALSE, detected |-> FALSE, unsupported |-> FALSE,
   accepted |-> accepted, visible |-> TRUE, settled |-> TRUE,
   prepared |-> "no", awaiting |-> "none", prompt |-> "none", leaving |-> FALSE]

UpdateTypeOK ==
  /\ browser \in Browsers /\ page \in Pages /\ mark \in BOOLEAN
  /\ draft \in StoredDrafts /\ late \in BOOLEAN
  /\ kept \in StoredDrafts /\ held \in StoredDrafts \union {NoRecord}
  /\ typed \in Texts /\ agreed \in BOOLEAN /\ renewed \in BOOLEAN /\ died \in BOOLEAN

UpdateInit ==
  /\ browser \in [active : BOOLEAN, installing : {FALSE}, waiting : {FALSE}]
  /\ page = FreshPage(browser.active, FALSE) /\ mark = FALSE
  /\ draft = [words |-> NoText, version |-> 0] /\ kept = draft /\ late = FALSE /\ held = NoRecord
  /\ typed = NoText /\ agreed = FALSE /\ renewed = FALSE /\ died = FALSE

(******************************************************************************)
(* Detection.  What the detector says is an episode: one that ends makes the  *)
(* next one new.                                                              *)
(******************************************************************************)
Sink(waits) ==
  page' = [page EXCEPT !.detected = waits,
                       !.accepted = @ /\ (waits \/ ~page.detected)]

ResolveDetector ==
  /\ ~page.watching
  /\ page' = [page EXCEPT !.watching = TRUE]
  /\ UNCHANGED <<browser, mark, draft, late, kept, held, updateHistory>>

UpdateFound ==
  /\ ~browser.installing
  /\ browser' = [browser EXCEPT !.installing = TRUE]
  /\ IF page.watching THEN Sink(FALSE) ELSE UNCHANGED page
  /\ renewed' = TRUE
  /\ UNCHANGED <<mark, draft, late, kept, held, typed, agreed, died>>

\* The first worker becomes the active one, and the page stays without it.  A
\* listener that still finds the worker installing is told that it waits.
WorkerInstalls ==
  /\ browser.installing
  /\ browser' = [active |-> TRUE, installing |-> FALSE, waiting |-> browser.active]
  /\ \/ UNCHANGED page
     \/ page.watching /\ Sink(page.controlled)
  /\ UNCHANGED <<mark, draft, late, kept, held, updateHistory>>

InstallFails ==
  /\ browser.installing
  /\ browser' = [browser EXCEPT !.installing = FALSE]
  /\ UNCHANGED <<page, mark, draft, late, kept, held, updateHistory>>

PollDetector ==
  /\ page.watching
  /\ browser.waiting /\ page.controlled
  /\ Sink(TRUE)
  /\ UNCHANGED <<browser, mark, draft, late, kept, held, updateHistory>>

(******************************************************************************)
(* Evaluation: which prompt, whether now, and the migration before the first. *)
(******************************************************************************)
\* A fault: the tab forgets that it agreed.
AsksAgain(p) ==
  IF p.unsupported THEN "required"
  ELSE IF p.detected THEN "available" ELSE "none"

Wanted(p) ==
  IF p.unsupported THEN "required"
  ELSE IF p.detected /\ ~p.accepted THEN "available" ELSE "none"

Safe(p) == p.visible /\ p.settled

Evaluated(p) ==
  IF Wanted(p) = "none" \/ ~Safe(p) THEN [p EXCEPT !.prompt = "none"]
  ELSE IF p.prepared = "yes" THEN [p EXCEPT !.prompt = Wanted(p)]
  ELSE [p EXCEPT !.prepared = "running", !.awaiting = Wanted(p)]

\* The answer of the backend ends a poll; one that cannot be read is no answer.
PollHandshake ==
  /\ \E answer \in {"newer", "supported", "unavailable"} :
       page' = Evaluated([page EXCEPT !.unsupported = (answer = "newer")])
  /\ UNCHANGED <<browser, mark, draft, late, kept, held, updateHistory>>

\* A record is read in one transaction and written in another; one that is
\* current, or a store that cannot be read, ends the migration at once.
Prepares == page.prepared = "running"
PrepareDone == page' = [page EXCEPT !.prepared = "yes", !.prompt = page.awaiting, !.awaiting = "none"]

ReadRecord ==
  /\ Prepares /\ held = NoRecord
  /\ \/ kept.version = 0 /\ held' = kept /\ UNCHANGED page
     \/ PrepareDone /\ UNCHANGED held
  /\ UNCHANGED <<browser, mark, draft, late, kept, updateHistory>>

WriteRecord ==
  /\ Prepares /\ held # NoRecord
  /\ \/ kept' = [held EXCEPT !.version = 1]
     \/ UNCHANGED kept
  /\ held' = NoRecord /\ PrepareDone
  /\ UNCHANGED <<browser, mark, draft, late, updateHistory>>

(******************************************************************************)
(* The composer, and what becomes of the page.                                *)
(******************************************************************************)
TypeText(w) ==
  /\ draft' = [draft EXCEPT !.words = w] /\ late' = TRUE
  /\ page' = [page EXCEPT !.settled = FALSE]
  /\ typed' = w /\ died' = FALSE
  /\ UNCHANGED <<browser, mark, kept, held, agreed, renewed>>

StoreText ==
  /\ late /\ late' = FALSE
  /\ kept' = draft
  /\ UNCHANGED <<browser, page, mark, draft, held, updateHistory>>

InputSettles ==
  /\ ~page.settled
  /\ page' = [page EXCEPT !.settled = TRUE]
  /\ UNCHANGED <<browser, mark, draft, late, kept, held, updateHistory>>

\* A fault: only text that waits to be stored is stored.
OnlyLagging == IF late THEN draft ELSE kept

Flushed == draft

Hides ==
  /\ page' = [page EXCEPT !.visible = ~@]
  /\ kept' = (IF page.visible THEN Flushed ELSE kept)
  /\ late' = (late /\ ~page.visible)
  /\ UNCHANGED <<browser, mark, draft, held, updateHistory>>

\* The button: flush, mark, and reload after the store had its time.  What the
\* button waits for is there since before the prompt was.
PerformUpdate ==
  /\ page.prompt # "none"
  /\ kept' = Flushed /\ late' = FALSE
  /\ mark' = TRUE
  /\ page' = [page EXCEPT !.leaving = TRUE]
  /\ UNCHANGED <<browser, draft, held, updateHistory>>

\* Whatever unloads a page, the page after it takes the mark and the draft.
Loads(record) ==
  /\ page' = FreshPage(browser.active, mark) /\ mark' = FALSE
  /\ draft' = record /\ late' = FALSE /\ held' = NoRecord
  /\ agreed' = page.leaving /\ renewed' = FALSE

Reload ==
  /\ kept' = Flushed
  /\ Loads(Flushed)
  /\ UNCHANGED <<browser, typed, died>>

TabDies ==
  /\ Loads(kept)
  /\ died' = (kept.words # typed)
  /\ UNCHANGED <<browser, kept, typed>>

\* The last tab closes: the mark goes with it and the waiting worker takes over,
\* unless the browser does not let go of the old one.
TabCloses ==
  /\ kept' = Flushed /\ draft' = Flushed /\ late' = FALSE /\ held' = NoRecord
  /\ \/ browser' = [browser EXCEPT !.waiting = FALSE]
     \/ UNCHANGED browser
  /\ page' = FreshPage(browser.active, FALSE) /\ mark' = FALSE
  /\ agreed' = FALSE /\ renewed' = FALSE
  /\ UNCHANGED <<typed, died>>

UpdateNext ==
  \/ ResolveDetector \/ UpdateFound \/ WorkerInstalls \/ InstallFails
  \/ PollDetector \/ PollHandshake \/ ReadRecord \/ WriteRecord
  \/ \E w \in Texts : TypeText(w)
  \/ StoreText \/ InputSettles \/ Hides
  \/ PerformUpdate \/ Reload \/ TabDies \/ TabCloses

UpdateSpec == UpdateInit /\ [][UpdateNext]_<<updateVars, updateHistory>>

(******************************************************************************)
(* Properties.                                                                *)
(******************************************************************************)
(* Unless its tab died, the draft of a page has the words that were typed     *)
(* last, though a migration may have put older ones into the store under it   *)
(* (updateCopy.availableBody, the flush of the composer).                     *)
WordsComeBack == died \/ draft.words = typed

(* A page that was reloaded through the prompt does not ask for the same      *)
(* worker again: only one that was found since can be offered                 *)
(* (UPDATE_ACCEPTED_KEY).                                                     *)
AcceptedIsNotAskedAgain == agreed /\ ~renewed => page.prompt # "available"

(* The prompt promises that the draft comes back: no page shows it before the *)
(* migration of the store has ended (runPrepareOnce).                         *)
PreparedBeforePrompt == page.prompt # "none" => page.prepared = "yes" /\ held = NoRecord

(******************************************************************************)
(* The inductive invariant.                                                   *)
(******************************************************************************)
UpdateInv ==
  /\ page.detected => page.controlled
  /\ page.leaving => mark
  /\ agreed /\ ~renewed => page.accepted
  /\ page.accepted => page.prompt # "available" /\ page.awaiting # "available"
  /\ PreparedBeforePrompt
  /\ page.prepared # "running" => held = NoRecord /\ page.awaiting = "none"
  /\ WordsComeBack
=============================================================================
