---------------------------- MODULE EditorSession ----------------------------
(***************************************************************************)
(* One tab of the workflow editor: which version it shows, its unsaved     *)
(* draft, the recovery snapshots in the browser's storage, saving, and the *)
(* refetches that replace the workflow under it.                           *)
(*                                                                         *)
(* A draft is the set of edits it contains; a version is what was saved.   *)
(* Version n is the n-th of esVersions. The page knows the first esKnown   *)
(* of them. esSel is the selected version; 0, or one the page does not     *)
(* know yet, selects none. What the graph of a draft is, and undo, is in   *)
(* WorkflowDraft.                                                          *)
(***************************************************************************)
EXTENDS Naturals, Sequences, FiniteSets, SequencesExt

CONSTANTS EsMaxEdits, EsMaxVersions, EsMaxReloads

ASSUME EsAssumption == {EsMaxEdits, EsMaxVersions, EsMaxReloads} \subseteq Nat

VARIABLES esVersions,    \* the server's versions
          esReadOnly,    \* the draft is one of a version that is not the latest
          esChanged,     \* the workflow's row changed since the page read it
          esKnown, esSel, esDraft,
          esDraftDirty, esFormDirty, esState,
          esTimer,       \* the autosave that is due: its slot and its draft
          esSnap,        \* the snapshot in each slot
          esOffer,       \* the snapshot that the recovery dialog shows
          esSave,        \* the save that waits for its answer
          esEdits, esReloads,
          esDropped,     \* edits that the user threw away, or that a crash took
          esOvertaken    \* a refetch or a restore replaced unsaved edits, or the version
                         \* under a snapshot that was being offered

esVars == <<esVersions, esReadOnly, esChanged, esKnown, esSel, esDraft, esDraftDirty, esFormDirty, esState, esTimer,
            esSnap, esOffer, esSave, esEdits, esReloads, esDropped, esOvertaken>>

EsNothing == {0}                       \* no snapshot, no draft
EsEdit(n) == n                         \* the n-th edit of this tab
EsTheirs(v) == EsMaxEdits + v          \* the edit that another user saved as version v
EsSaveStates == {"clean", "dirty", "saving", "saved", "save_error", "recovered"}

EsShown(sel, known) == sel \in 1..known
EsBase(sel, known) == IF EsShown(sel, known) THEN sel ELSE known
EsEditable(sel, known) == EsShown(sel, known) => sel = known

EsUnsaved == esDraftDirty \/ esFormDirty \/ esState = "recovered"
EsAll(versions) == UNION Range(versions)
EsOnlyHere == esDraft \ EsAll(esVersions)

\* autosaveKey: user, organization and workflow are fixed here.
EsSlot(sel, known) == EsBase(sel, known)

\* The autosave effect: armed anew whenever the draft or the identity changes.
EsArm(on, sel, known, draft) ==
  esTimer' = IF on THEN [slot |-> EsSlot(sel, known), draft |-> draft]
             ELSE [slot |-> 0, draft |-> EsNothing]

\* loadDraftSnapshot: the one under the key, which says whose it is.
EsFound(sel, known, snap) == snap[EsSlot(sel, known)]

\* The recovery effect, for the version that is now shown. It runs with the
\* draft of before and again with the new one; nothing closes the dialog.
EsLook(sel, known, snap) ==
  LET found == EsFound(sel, known, snap)
  IN  esOffer' = IF (~esReadOnly \/ EsEditable(sel, known)) /\ found # EsNothing THEN found ELSE esOffer

-----------------------------------------------------------------------------
(* The user. *)

\* An edit on the canvas, or one in a field, which the form marks as well.
EsChange ==
  /\ esEdits < EsMaxEdits /\ ~esReadOnly /\ esOffer = EsNothing
  /\ esEdits' = esEdits + 1 /\ esDraft' = esDraft \cup {EsEdit(esEdits + 1)}
  /\ esDraftDirty' = TRUE /\ esFormDirty' \in {esFormDirty, TRUE}
  /\ esState' = IF esState = "recovered" THEN "recovered" ELSE "dirty"
  /\ EsArm(TRUE, esSel, esKnown, esDraft')
  /\ UNCHANGED <<esVersions, esReadOnly, esChanged, esKnown, esSel, esSnap, esOffer, esSave, esReloads, esDropped, esOvertaken>>

\* initialDraft changed: history and form start again from the version.
EsReset(sel, known, versions) ==
  /\ esDraft' = versions[EsBase(sel, known)]
  /\ esReadOnly' = ~EsEditable(sel, known)
  /\ esDraftDirty' = FALSE /\ esFormDirty' = FALSE /\ esState' = "clean"
  /\ EsArm(FALSE, sel, known, {})

EsStays(sel, known) ==
  EsBase(sel, known) = EsBase(esSel, esKnown) /\ EsEditable(sel, known) = EsEditable(esSel, esKnown)

EsShow(sel, state, snap) ==
  /\ esSel' = sel /\ EsLook(sel, esKnown, snap)
  /\ IF EsStays(sel, esKnown)
     THEN /\ EsArm(EsUnsaved /\ ~esReadOnly, sel, esKnown, esDraft) /\ esState' = state
          /\ UNCHANGED <<esReadOnly, esDraft, esDraftDirty, esFormDirty>>
     ELSE EsReset(sel, esKnown, esVersions)

\* selectVersion, which asks before it discards.
EsSelect(sel) ==
  /\ sel # esSel /\ esOffer = EsNothing
  /\ esDropped' = esDropped \cup (IF EsUnsaved THEN EsOnlyHere ELSE {})
  /\ EsShow(sel, esState, esSnap)
  /\ UNCHANGED <<esVersions, esChanged, esKnown, esSnap, esSave, esEdits, esReloads, esOvertaken>>

\* The form is reset but stays marked when a field had been edited.
EsDiscardDraft ==
  /\ EsEditable(esSel, esKnown) /\ EsUnsaved /\ esSave.draft = EsNothing /\ esOffer = EsNothing
  /\ esDropped' = esDropped \cup EsOnlyHere
  /\ esDraft' = esVersions[EsBase(esSel, esKnown)] /\ esDraftDirty' = FALSE /\ esState' = "clean"
  /\ esSnap' = [esSnap EXCEPT ![EsSlot(esSel, esKnown)] = EsNothing]
  /\ EsArm(esFormDirty, esSel, esKnown, esDraft')
  /\ UNCHANGED <<esVersions, esReadOnly, esChanged, esKnown, esSel, esFormDirty, esOffer, esSave, esEdits, esReloads, esOvertaken>>

EsRestore ==
  /\ esOffer # EsNothing
  /\ esOvertaken' = (esOvertaken \/ EsOnlyHere \ esOffer # {})
  /\ esReadOnly' = FALSE
  /\ esDraft' = esOffer /\ esDraftDirty' \in {TRUE, esOffer # esVersions[EsBase(esSel, esKnown)]}
  /\ esState' = "recovered" /\ esOffer' = EsNothing
  /\ EsArm(TRUE, esSel, esKnown, esOffer)
  /\ UNCHANGED <<esVersions, esChanged, esKnown, esSel, esFormDirty, esSnap, esSave, esEdits, esReloads, esDropped>>

EsDiscardSnapshot ==
  /\ esOffer # EsNothing
  /\ esDropped' = esDropped \cup esOffer /\ esOffer' = EsNothing
  /\ esSnap' = [esSnap EXCEPT ![EsSlot(esSel, esKnown)] = EsNothing]
  /\ UNCHANGED <<esVersions, esReadOnly, esChanged, esKnown, esSel, esDraft, esDraftDirty, esFormDirty, esState, esTimer,
                 esSave, esEdits, esReloads, esOvertaken>>

\* The tab is closed, or dies, and the workflow is opened again.
EsReload ==
  /\ esReloads < EsMaxReloads /\ esReloads' = esReloads + 1
  /\ LET known == Len(esVersions)
     IN  \E sel \in {known} \cup (1..known \cap {esSel}) :   \* the version in the address, if any
           /\ esKnown' = known /\ esSel' = sel /\ esChanged' = FALSE
           /\ EsReset(sel, known, esVersions)
           /\ esOffer' = IF sel = known THEN EsFound(sel, known, esSnap) ELSE EsNothing
  /\ esSave' = [esSave EXCEPT !.draft = EsNothing]
  /\ esDropped' = esDropped \cup (EsOnlyHere \ UNION Range(esSnap)) \cup esSave.draft
  /\ UNCHANGED <<esVersions, esSnap, esEdits, esOvertaken>>

-----------------------------------------------------------------------------
(* Saving. *)

\* submit: the form becomes the draft, marked, and is sent.
EsSubmit ==
  /\ EsEditable(esSel, esKnown) /\ esSave.draft = EsNothing /\ Len(esVersions) < EsMaxVersions /\ esOffer = EsNothing
  /\ esSave' = [draft |-> esDraft, slot |-> EsSlot(esSel, esKnown), version |-> 0]
  /\ esDraftDirty' = TRUE /\ esState' = "saving" /\ EsArm(TRUE, esSel, esKnown, esDraft)
  /\ UNCHANGED <<esVersions, esReadOnly, esChanged, esKnown, esSel, esDraft, esFormDirty, esSnap, esOffer, esEdits, esReloads,
                 esDropped, esOvertaken>>

EsCommit ==
  /\ esSave.draft # EsNothing /\ esSave.version = 0 /\ Len(esVersions) < EsMaxVersions
  /\ esVersions' = Append(esVersions, esSave.draft)
  /\ esSave' = [esSave EXCEPT !.version = Len(esVersions) + 1]
  /\ UNCHANGED <<esReadOnly, esChanged, esKnown, esSel, esDraft, esDraftDirty, esFormDirty, esState, esTimer, esSnap, esOffer,
                 esEdits, esReloads, esDropped, esOvertaken>>

EsAnswer ==
  /\ esSave.draft # EsNothing /\ esSave.version # 0
  /\ esSnap' = [esSnap EXCEPT ![esSave.slot] = EsNothing]
  /\ esSave' = [esSave EXCEPT !.draft = EsNothing]
  /\ EsShow(esSave.version, "saved", esSnap')
  /\ esOvertaken' = (esOvertaken \/ (~EsStays(esSave.version, esKnown) /\ (EsOnlyHere # {} \/ esOffer # EsNothing)))
  /\ UNCHANGED <<esVersions, esChanged, esKnown, esEdits, esReloads, esDropped>>

\* The request failed, or its answer was lost after the commit.
EsSaveFails ==
  /\ esSave.draft # EsNothing /\ esSave' = [esSave EXCEPT !.draft = EsNothing]
  /\ esState' = "save_error"
  /\ UNCHANGED <<esVersions, esReadOnly, esChanged, esKnown, esSel, esDraft, esDraftDirty, esFormDirty, esTimer, esSnap, esOffer,
                 esEdits, esReloads, esDropped, esOvertaken>>

-----------------------------------------------------------------------------
(* Timers, other users and refetches. *)

EsAutosave ==
  /\ esTimer.draft # EsNothing
  /\ esSnap' = [esSnap EXCEPT ![esTimer.slot] = esTimer.draft]
  /\ esTimer' = [slot |-> 0, draft |-> EsNothing]
  /\ UNCHANGED <<esVersions, esReadOnly, esChanged, esKnown, esSel, esDraft, esDraftDirty, esFormDirty, esState, esOffer, esSave,
                 esEdits, esReloads, esDropped, esOvertaken>>

\* Somebody saves a version, or one is published (also from this tab).
EsOther ==
  /\ \/ Len(esVersions) < EsMaxVersions /\ esVersions' = Append(esVersions, Last(esVersions) \cup {EsTheirs(Len(esVersions) + 1)}) /\ esChanged' = esChanged
     \/ ~esChanged /\ esChanged' = TRUE /\ esVersions' = esVersions
  /\ UNCHANGED <<esReadOnly, esKnown, esSel, esDraft, esDraftDirty, esFormDirty, esState, esTimer, esSnap, esOffer, esSave, esEdits,
                 esReloads, esDropped, esOvertaken>>

\* The workflow query answers with something new: initialDraft is made again.
EsRefetch ==
  /\ esChanged \/ esKnown < Len(esVersions)
  /\ esKnown' = Len(esVersions) /\ esChanged' = FALSE
  /\ EsReset(esSel, Len(esVersions), esVersions)
  /\ IF esKnown = Len(esVersions) THEN esOffer' = esOffer ELSE EsLook(esSel, Len(esVersions), esSnap)
  /\ esOvertaken' = (esOvertaken \/ EsOnlyHere # {} \/ (esOffer # EsNothing /\ esKnown < Len(esVersions)))
  /\ UNCHANGED <<esVersions, esSel, esSnap, esSave, esEdits, esReloads, esDropped>>

-----------------------------------------------------------------------------
EsInit ==
  /\ esVersions = <<{}>> /\ esReadOnly = FALSE /\ esChanged = FALSE /\ esKnown = 1 /\ esSel = 1 /\ esDraft = {}
  /\ esDraftDirty = FALSE /\ esFormDirty = FALSE /\ esState = "clean"
  /\ esTimer = [slot |-> 0, draft |-> EsNothing] /\ esSnap = [v \in 1..EsMaxVersions |-> EsNothing]
  /\ esOffer = EsNothing /\ esSave = [draft |-> EsNothing, slot |-> 0, version |-> 0]
  /\ esEdits = 0 /\ esReloads = 0 /\ esDropped = {} /\ esOvertaken = FALSE

EsNext == \/ EsChange \/ EsDiscardDraft \/ EsRestore \/ EsDiscardSnapshot \/ EsReload
          \/ \E sel \in 0..esKnown : EsSelect(sel)
          \/ EsSubmit \/ EsCommit \/ EsAnswer \/ EsSaveFails
          \/ EsAutosave \/ EsOther \/ EsRefetch

EsSpec == EsInit /\ [][EsNext]_esVars

-----------------------------------------------------------------------------
\* Types.
EsTypeOK ==
  /\ \A v \in Range(esVersions) : v \subseteq 1..(EsMaxEdits + EsMaxVersions)
  /\ esKnown \in 1..Len(esVersions) /\ esSel \in 0..Len(esVersions) /\ esDraft \subseteq 1..(EsMaxEdits + EsMaxVersions)
  /\ esState \in EsSaveStates /\ esTimer.slot \in 0..EsMaxVersions
  /\ esReadOnly => ~EsUnsaved /\ esTimer.draft = EsNothing

\* docs/flow-control.md:41: what was edited is in the draft, in a version, in
\* a save under way or in a recovery snapshot, until the user throws it away;
\* a failed save or a lost answer takes nothing. (Where a refetch replaces
\* the draft under unsaved edits, workflow-editor.tsx:83, they may be gone.)
EsNothingLost ==
  ~esOvertaken =>
    1..esEdits \subseteq esDraft \cup EsAll(esVersions) \cup (esSave.draft \ {0}) \cup esDropped
                         \cup UNION Range(esSnap)

\* workflow-editor.tsx:432, "No local changes.": a tab that says so shows
\* exactly what the version it shows holds.
EsCleanMeansSaved == ~EsUnsaved => esDraft = esVersions[EsBase(esSel, esKnown)]

\* docs/flow-control.md:41, snapshots are kept by base version: a restored
\* draft contains what the version it continues contains.
EsRestoredFits == esState = "recovered" /\ ~esOvertaken => esVersions[EsBase(esSel, esKnown)] \subseteq esDraft
=============================================================================
