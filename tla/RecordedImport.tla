----------------------------- MODULE RecordedImport -----------------------------
(***************************************************************************)
(* The page src/components/RecordedResourceImport.tsx: two file boxes, and  *)
(* an import that reads one file after the other with                       *)
(* readResourceImportFile and hands both texts to importResourceRecording.  *)
(*                                                                         *)
(* An activation of startImport is a slot.  It awaits a FileReader or the   *)
(* digests of the two texts; what follows is run to the next await before   *)
(* any other task, so each such stretch is one step.  ticket is compared    *)
(* only with generation.current: an activation keeps whether it still       *)
(* matches, beside its signal.  Handlers act on what React has drawn: an    *)
(* event handler draws what it set, an activation's results are drawn later.*)
(***************************************************************************)
EXTENDS Naturals

CONSTANTS
  Files,       \* files the user may choose
  NoFile,      \* an empty box
  Importable,  \* pairs of files importResourceRecording accepts
  MaxImports   \* bound: activations that have not ended

Boxes == {1, 2}
Pairs == [Boxes -> Files]
NoPair == [b \in Boxes |-> NoFile]

ASSUME ImportAssumption ==
  /\ NoFile \notin Files
  /\ Importable \subseteq Pairs
  /\ MaxImports \in Nat

Slots == 1..MaxImports

VARIABLES
  mounted,  \* the page is open
  files,    \* useState(files)
  busy,     \* useState(busy)
  error,    \* useState(error)
  result,   \* useState(result): the files of the recording, NoPair for null
  active,   \* the activation whose controller active.current holds, 0 for null
  imports,  \* activations of startImport
  drawn     \* busy and result as the page on the screen has them

importVars == <<mounted, files, busy, error, result, active, imports, drawn>>

Choices == [Boxes -> Files \cup {NoFile}]
Activations == [stage : {"idle", "reading", "hashing"}, box : Boxes, files : Choices,
                aborted : BOOLEAN, current : BOOLEAN]
NoImport == [stage |-> "idle", box |-> 1, files |-> NoPair, aborted |-> FALSE, current |-> FALSE]

\* Every variable of the page keeps its type; a recording shown is one that
\* importResourceRecording accepted.
ImportTypeOK ==
  /\ mounted \in BOOLEAN /\ busy \in BOOLEAN /\ error \in BOOLEAN
  /\ files \in Choices
  /\ result \in Importable \cup {NoPair}
  /\ active \in 0..MaxImports
  /\ imports \in [Slots -> Activations]
  /\ drawn \in [busy : BOOLEAN, result : Importable \cup {NoPair}]

ImportInit ==
  /\ mounted = TRUE
  /\ files = NoPair /\ busy = FALSE /\ error = FALSE /\ result = NoPair
  /\ active = 0
  /\ imports = [s \in Slots |-> NoImport]
  /\ drawn = [busy |-> FALSE, result |-> NoPair]

(***************************************************************************)
(* clearPending: generation.current++, then the controller aborts.          *)
(***************************************************************************)
\* An aborted reader stops at once and its activation returns; digests go on.
Stopped(i) == IF i.stage = "reading" THEN NoImport ELSE [i EXCEPT !.aborted = TRUE, !.current = FALSE]

Abandoned == [s \in Slots |->
  IF s = active THEN Stopped(imports[s]) ELSE [imports[s] EXCEPT !.current = FALSE]]

\* The page after clearPending, with its boxes as given.
Cleared(boxes) ==
  /\ files' = boxes
  /\ busy' = FALSE /\ error' = FALSE /\ result' = NoPair
  /\ active' = 0
  /\ imports' = Abandoned
  /\ drawn' = [busy |-> FALSE, result |-> NoPair]

Choose(b, f) == mounted /\ Cleared([files EXCEPT ![b] = f]) /\ UNCHANGED mounted

Cancel == mounted /\ drawn.busy /\ Cleared(files) /\ UNCHANGED mounted

Reset == mounted /\ Cleared(NoPair) /\ UNCHANGED mounted

\* The effect's cleanup; the state of the page is gone with it.
Leave == mounted /\ Cleared(NoPair) /\ mounted' = FALSE

Enter == ~mounted /\ mounted' = TRUE /\ UNCHANGED <<files, busy, error, result, active, imports, drawn>>

StartImport ==
  /\ mounted /\ ~drawn.busy
  /\ \A b \in Boxes : files[b] # NoFile
  /\ \E s \in Slots :
       /\ imports[s].stage = "idle"
       /\ active' = s
       /\ imports' = [Abandoned EXCEPT ![s] =
            [stage |-> "reading", box |-> 1, files |-> files, aborted |-> FALSE, current |-> TRUE]]
  /\ busy' = TRUE /\ error' = FALSE /\ result' = NoPair
  /\ drawn' = [busy |-> TRUE, result |-> NoPair]
  /\ UNCHANGED <<mounted, files>>

(***************************************************************************)
(* The rest of startImport.                                                 *)
(***************************************************************************)
\* Faulty variant: setting the state whatever happened in between.
EndUnchecked(s, accepted) ==
  LET i == imports[s] IN
  /\ result' = IF accepted THEN i.files ELSE result
  /\ error' = IF accepted THEN error ELSE TRUE
  /\ active' = IF i.current THEN 0 ELSE active
  /\ busy' = IF i.current THEN FALSE ELSE busy
  /\ imports' = [imports EXCEPT ![s] = NoImport]
  /\ UNCHANGED <<mounted, files, drawn>>

\* Faulty variant: a catch block that returns before setBusy.
EndOnSuccess(s, accepted) ==
  LET i == imports[s]
      heard == ~i.aborted /\ i.current
  IN
  /\ result' = IF heard /\ accepted THEN i.files ELSE result
  /\ error' = IF heard /\ ~accepted THEN TRUE ELSE error
  /\ active' = IF i.current THEN 0 ELSE active
  /\ busy' = IF i.current /\ accepted THEN FALSE ELSE busy
  /\ imports' = [imports EXCEPT ![s] = NoImport]
  /\ UNCHANGED <<mounted, files, drawn>>

\* The checks of signal and ticket, and the finally block.
End(s, accepted) ==
  LET i == imports[s]
      heard == ~i.aborted /\ i.current
  IN
  /\ result' = IF heard /\ accepted THEN i.files ELSE result
  /\ error' = IF heard /\ ~accepted THEN TRUE ELSE error
  /\ active' = IF i.current THEN 0 ELSE active
  /\ busy' = IF i.current THEN FALSE ELSE busy
  /\ imports' = [imports EXCEPT ![s] = NoImport]
  /\ UNCHANGED <<mounted, files, drawn>>

\* onload: the next file, or importResourceRecording up to its digests.
Loaded(s) ==
  /\ imports[s].stage = "reading"
  /\ imports' = [imports EXCEPT ![s] =
       IF @.box = 1 THEN [@ EXCEPT !.box = 2] ELSE [@ EXCEPT !.stage = "hashing"]]
  /\ UNCHANGED <<mounted, files, busy, error, result, active, drawn>>

\* onerror, a size, an encoding or a line that is refused before any digest.
ReadRefused(s) == imports[s].stage = "reading" /\ End(s, FALSE)

\* An aborted import fails here, after the digests.
Hashed(s) ==
  /\ imports[s].stage = "hashing"
  /\ End(s, ~imports[s].aborted /\ imports[s].files \in Importable)

Pending == drawn # [busy |-> busy, result |-> result]

\* React draws what an activation has set.
Draw ==
  /\ Pending
  /\ drawn' = [busy |-> busy, result |-> result]
  /\ UNCHANGED <<mounted, files, busy, error, result, active, imports>>

PageEvent ==
  \/ \E b \in Boxes, f \in Files \cup {NoFile} : Choose(b, f)
  \/ Cancel \/ Reset \/ Leave \/ StartImport

Activity == \E s \in Slots : Loaded(s) \/ ReadRefused(s) \/ Hashed(s)

ImportNext == PageEvent \/ Enter \/ Activity \/ Draw

ImportSpec == ImportInit /\ [][ImportNext]_importVars

\* A FileReader ends in an event of its own, and digests are computed.
ImportFairness ==
  \A s \in Slots : WF_importVars(Loaded(s) \/ ReadRefused(s) \/ Hashed(s))

ImportFairSpec == ImportSpec /\ ImportFairness

(***************************************************************************)
(* Properties.                                                              *)
(***************************************************************************)
\* Never more than one live FileReader, and that one reads for the import the
\* page shows as running, from the files in its boxes: the page is busy exactly
\* while active.current is the controller of an import that was neither aborted
\* nor superseded, and no other activation can still be heard.
OneReader ==
  /\ busy <=> active # 0
  /\ busy => imports[active].stage # "idle" /\ imports[active].files = files
  /\ \A s \in Slots :
       /\ imports[s].stage = "reading" => s = active
       /\ imports[s].current <=> s = active
       /\ imports[s].current => ~imports[s].aborted

\* A recording on the screen is of the files in the boxes: also one that waits
\* to be drawn was not overtaken by another choice.
ShownIsChosen ==
  /\ result # NoPair => result = files /\ ~busy /\ ~error
  /\ drawn.result # NoPair => drawn.result = result
  /\ busy => drawn.busy /\ ~error
  /\ ~mounted => ~busy /\ result = NoPair

\* The inductive invariant behind both.
ImportInv == ImportTypeOK /\ OneReader /\ ShownIsChosen

\* The page never stays busy for ever.
BusyEnds == busy ~> ~busy

Phase ==
  IF busy THEN "working" ELSE IF error THEN "refused"
  ELSE IF result # NoPair THEN "shown" ELSE "empty"

Promise == INSTANCE FileImport WITH choice <- files, phase <- Phase, shown <- result

\* The page keeps the promise of FileImport, although an aborted import lingers
\* in its digests while the next one runs.
ImplementsFileImport == Promise!Spec

=============================================================================
