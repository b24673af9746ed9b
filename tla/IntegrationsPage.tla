-------------------------- MODULE IntegrationsPage --------------------------
(***************************************************************************)
(* The editor of integration files, ui-react/src/pages/Integrations.tsx,   *)
(* and the file endpoints of core/api.py behind it.  The user goes on      *)
(* typing, opens other files, deletes files and leaves the page while      *)
(* requests are under way, and answers arrive in any order.                *)
(*                                                                         *)
(* A text is the file its buffer was loaded from and the number of the     *)
(* last edit.  Left out: sources of an integration, display names,         *)
(* presets, and the diagnostics of the editor itself: every text is valid. *)
(***************************************************************************)
EXTENDS Naturals, FiniteSets

CONSTANTS
    Files,
    NoFile,
    FirstFiles,         \* bound: the files there may be at first
    MaxPageEvents,      \* bound: operations of the user
    MaxReloadFailures   \* bound: reloads of the configuration that fail

ASSUME FileAssumption == NoFile \notin Files /\ FirstFiles \subseteq SUBSET Files
ASSUME PageBounds == MaxPageEvents \in Nat /\ MaxReloadFailures \in Nat

VARIABLES
    files,          \* backend: the text of every file
    selectedFile,   \* store: outlives the page
    content,        \* the text in the editor
    originalContent,
    saving,
    blocked,        \* files with an error of the backend: no saving
    initialLoaded,  \* hasInitialLoaded
    pageCalls,      \* requests under way
    pageEvents,
    reloadFailures,
    overlapped,     \* history: two requests for one file were under way
    outlived        \* history: a load was under way when the page was left

editor == <<content, originalContent, saving, blocked, initialLoaded>>
pageHistory == <<overlapped, outlived>>
pageVars == <<files, selectedFile, editor, pageCalls, pageEvents, reloadFailures,
              pageHistory>>

Texts == [of : Files \cup {NoFile}, edit : 0..MaxPageEvents]
Blank == [of |-> NoFile, edit |-> 0]
NotThere == [of |-> NoFile, edit |-> MaxPageEvents + 1]

\* The page is opened; the file selected last time is selected still.
PageInit ==
    /\ \E there \in FirstFiles :
          files = [f \in Files |-> IF f \in there THEN [of |-> f, edit |-> 0] ELSE NotThere]
    /\ selectedFile \in {f \in Files : files[f] # NotThere} \cup {NoFile}
    /\ content = Blank /\ originalContent = Blank
    /\ saving = FALSE /\ blocked = {} /\ initialLoaded = FALSE
    /\ pageCalls = {}
    /\ pageEvents = 0 /\ reloadFailures = 0
    /\ overlapped = FALSE /\ outlived = FALSE

PageEvent == pageEvents < MaxPageEvents /\ pageEvents' = pageEvents + 1

\* live tells that the page it was made from is still open, selected that the
\* file to delete was selected.
PageCall(op, f, text) ==
    [op |-> op, file |-> f, text |-> text, at |-> "sent", live |-> TRUE,
     selected |-> op = "delete" /\ f = selectedFile]

\* The request is about its file, and no reload of the configuration yet.
AboutFile(c) == c.at \in {"sent", "ok", "failed"}

Sends(call, calls) ==
    /\ pageCalls' = calls \cup {call}
    /\ overlapped' = (overlapped \/ \E c \in calls : c.file = call.file /\ AboutFile(c))

Dirty == selectedFile # NoFile /\ content # originalContent

\* selectedHasBlockingErrors
Blocking == selectedFile \in blocked

\* mapBackendDiagnostics: the backend names no file, so that the error is one of
\* the file that was saved or reloaded.
Diagnosed(f) == blocked \cup {f}

\* clearBackendDiagnosticsForFile
Cleared(f) == blocked \ {f}

-----------------------------------------------------------------------------
(***************************************************************************)
(* The user.                                                               *)
(***************************************************************************)
\* A click on a file, unsaved changes or not; it is selected when it has been
\* loaded.
OpenFile(f) ==
    /\ PageEvent
    /\ Sends(PageCall("load", f, Blank), pageCalls)
    /\ UNCHANGED <<files, selectedFile, editor, reloadFailures, outlived>>

\* The effect that loads the selected file once the list is there
InitialLoad ==
    /\ selectedFile # NoFile /\ ~initialLoaded
    /\ files[selectedFile] # NotThere
    /\ initialLoaded' = TRUE
    /\ Sends(PageCall("load", selectedFile, Blank), pageCalls)
    /\ UNCHANGED <<files, selectedFile, content, originalContent, saving, blocked,
                   pageEvents, reloadFailures, outlived>>

Type ==
    /\ selectedFile # NoFile
    /\ PageEvent
    /\ content' = [content EXCEPT !.edit = pageEvents + 1]
    /\ UNCHANGED <<files, selectedFile, originalContent, saving, blocked,
                   initialLoaded, pageCalls, reloadFailures, pageHistory>>

\* handleSave, by the button or by its key, which does not look at saving
HandleSave(byKey) ==
    /\ Dirty /\ ~Blocking
    /\ byKey \/ ~saving
    /\ PageEvent
    /\ saving' = TRUE
    /\ Sends(PageCall("save", selectedFile, content), pageCalls)
    /\ UNCHANGED <<files, selectedFile, content, originalContent, blocked,
                   initialLoaded, reloadFailures, outlived>>

\* handleReloadFile: the file, then the configuration
HandleReloadFile ==
    /\ selectedFile # NoFile
    /\ PageEvent
    /\ Sends(PageCall("reloadFile", selectedFile, Blank), pageCalls)
    /\ UNCHANGED <<files, selectedFile, editor, reloadFailures, outlived>>

HandleCreateIntegration(f) ==
    /\ PageEvent
    /\ Sends(PageCall("create", f, [of |-> f, edit |-> 0]), pageCalls)
    /\ UNCHANGED <<files, selectedFile, editor, reloadFailures, outlived>>

HandleDeleteIntegration(f) ==
    /\ PageEvent
    /\ Sends(PageCall("delete", f, Blank), pageCalls)
    /\ UNCHANGED <<files, selectedFile, editor, reloadFailures, outlived>>

\* The user leaves the page, a change that is not saved notwithstanding
\* (RouteInterceptor asks), and comes back.
LeavePage ==
    /\ PageEvent
    /\ content' = Blank /\ originalContent' = Blank
    /\ saving' = FALSE /\ blocked' = {} /\ initialLoaded' = FALSE
    /\ pageCalls' = {[c EXCEPT !.live = FALSE] : c \in pageCalls}
    /\ outlived' = (outlived \/ \E c \in pageCalls : c.op # "save")
    /\ UNCHANGED <<files, selectedFile, reloadFailures, overlapped>>

-----------------------------------------------------------------------------
(***************************************************************************)
(* The backend.                                                            *)
(***************************************************************************)
\* get_, update_, create_ and delete_integration_file: a file that is not
\* there is not read, written or deleted, one that is there is not created.
Refused(c) == (c.op = "create") = (files[c.file] # NotThere)

FilesHandle(c) ==
    /\ c \in pageCalls /\ c.at = "sent"
    /\ files' =
          IF Refused(c) THEN files
          ELSE CASE c.op \in {"save", "create"} -> [files EXCEPT ![c.file] = c.text]
                 [] c.op = "delete" -> [files EXCEPT ![c.file] = NotThere]
                 [] OTHER -> files
    /\ pageCalls' = (pageCalls \ {c}) \cup
          {IF Refused(c) THEN [c EXCEPT !.at = "failed"]
           ELSE IF c.op \in {"load", "reloadFile"} THEN [c EXCEPT !.at = "ok", !.text = files[c.file]]
           ELSE [c EXCEPT !.at = "ok"]}
    /\ UNCHANGED <<selectedFile, editor, pageEvents, reloadFailures, pageHistory>>

\* reload_config, which may fail, or not be reached
ReloadConfig(c, works) ==
    /\ c \in pageCalls /\ c.at = "reloading"
    /\ reloadFailures' = IF works THEN reloadFailures ELSE reloadFailures + 1
    /\ reloadFailures' <= MaxReloadFailures
    /\ pageCalls' = (pageCalls \ {c}) \cup
          {[c EXCEPT !.at = IF works THEN "reloaded" ELSE "notReloaded"]}
    /\ UNCHANGED <<files, selectedFile, editor, pageEvents, pageHistory>>

-----------------------------------------------------------------------------
(***************************************************************************)
(* The answers.  A page that was left is not changed by them any more, but *)
(* the selected file is.                                                   *)
(***************************************************************************)
\* The configuration is reloaded after it.
Reloading(c) == [c EXCEPT !.at = "reloading", !.text = Blank]

\* loadIntegrationContent after its await; handleReloadFile goes on with or
\* without the file.
LoadArrives(c) ==
    /\ c \in pageCalls /\ c.op \in {"load", "reloadFile"} /\ c.at \in {"ok", "failed"}
    /\ selectedFile' = IF c.at = "ok" THEN c.file ELSE selectedFile
    /\ IF c.at = "ok" /\ c.live
       THEN content' = c.text /\ originalContent' = c.text
       ELSE UNCHANGED <<content, originalContent>>
    /\ pageCalls' = (pageCalls \ {c}) \cup
          (IF c.op = "reloadFile" THEN {Reloading(c)} ELSE {})
    /\ UNCHANGED <<files, saving, blocked, initialLoaded, pageEvents, reloadFailures,
                   pageHistory>>

\* Mutant of SavedAs: what is in the editor now counts as saved.
SavedAs_Now(c) == content

\* What the handler was called with counts as saved.
SavedAs(c) == c.text

\* handleSave after its first await
SaveArrives(c) ==
    /\ c \in pageCalls /\ c.op = "save" /\ c.at \in {"ok", "failed"}
    /\ originalContent' = IF c.at = "ok" /\ c.live THEN SavedAs(c) ELSE originalContent
    /\ saving' = (saving /\ (c.at = "ok" \/ ~c.live))
    /\ pageCalls' = (pageCalls \ {c}) \cup (IF c.at = "ok" THEN {Reloading(c)} ELSE {})
    /\ UNCHANGED <<files, selectedFile, content, blocked, initialLoaded, pageEvents,
                   reloadFailures, pageHistory>>

\* The end of handleSave and handleReloadFile: a reload that failed is an error
\* of the file, until a reload succeeds.
ReloadArrives(c) ==
    /\ c \in pageCalls /\ c.op # "create" /\ c.at \in {"reloaded", "notReloaded"}
    /\ blocked' = IF ~c.live THEN blocked
                  ELSE IF c.at = "reloaded" THEN Cleared(c.file) ELSE Diagnosed(c.file)
    /\ saving' = (saving /\ ~(c.live /\ c.op = "save"))
    /\ pageCalls' = pageCalls \ {c}
    /\ UNCHANGED <<files, selectedFile, content, originalContent, initialLoaded,
                   pageEvents, reloadFailures, pageHistory>>

\* handleCreateIntegration: with the configuration reloaded the new file is
\* loaded.
CreateArrives(c) ==
    LET calls == pageCalls \ {c} IN
    /\ c \in pageCalls /\ c.op = "create" /\ c.at \notin {"sent", "reloading"}
    /\ CASE c.at = "ok" -> pageCalls' = calls \cup {Reloading(c)} /\ overlapped' = overlapped
         [] c.at = "reloaded" -> Sends([c EXCEPT !.op = "load", !.at = "sent"], calls)
         [] OTHER -> pageCalls' = calls /\ overlapped' = overlapped
    /\ UNCHANGED <<files, selectedFile, editor, pageEvents, reloadFailures, outlived>>

\* handleDeleteIntegration knows the file that was selected when it began.
DeleteArrives(c) ==
    /\ c \in pageCalls /\ c.op = "delete" /\ c.at \in {"ok", "failed"}
    /\ IF c.at = "ok" /\ c.selected
       THEN /\ selectedFile' = NoFile
            /\ content' = IF c.live THEN Blank ELSE content
       ELSE UNCHANGED <<selectedFile, content>>
    /\ blocked' = IF c.at = "ok" /\ c.live THEN Cleared(c.file) ELSE blocked
    /\ pageCalls' = pageCalls \ {c}
    /\ UNCHANGED <<files, originalContent, saving, initialLoaded, pageEvents,
                   reloadFailures, pageHistory>>

PageNext ==
    \/ \E f \in Files :
          OpenFile(f) \/ HandleCreateIntegration(f) \/ HandleDeleteIntegration(f)
    \/ InitialLoad \/ Type \/ HandleReloadFile \/ LeavePage
    \/ \E byKey \in BOOLEAN : HandleSave(byKey)
    \/ \E c \in pageCalls :
          \/ FilesHandle(c)
          \/ \E works \in BOOLEAN : ReloadConfig(c, works)
          \/ LoadArrives(c) \/ SaveArrives(c) \/ ReloadArrives(c)
          \/ CreateArrives(c) \/ DeleteArrives(c)

PageSpec == PageInit /\ [][PageNext]_pageVars

-----------------------------------------------------------------------------
PageTypeOK ==
    /\ \A f \in Files : files[f] \in Texts \cup {NotThere}
    /\ selectedFile \in Files \cup {NoFile}
    /\ {content, originalContent} \subseteq Texts
    /\ blocked \subseteq Files
    /\ {saving, initialLoaded, overlapped, outlived} \subseteq BOOLEAN
    /\ \A c \in pageCalls :
          c.file \in Files /\ (AboutFile(c) \/ c.at \in {"reloading", "reloaded", "notReloaded"})

\* The text of one file never becomes the text of another
NoFileCrossed == \A f \in Files : files[f].of \in {f, NoFile}

\* and a text the page takes for saved is the text of its file.
SavedIsStored ==
    selectedFile # NoFile /\ content # Blank /\ ~Dirty =>
        \/ files[selectedFile] = content
        \/ \E c \in pageCalls : c.file = selectedFile /\ AboutFile(c)

\* Typing, saving, opening, creating and deleting in any order, the editor
\* never mixes up two files and never hides a change that is not saved.  What
\* breaks it is excluded by name: two requests under way for one file, and a
\* load that outlives the page it was made from.
EditorKeepsFiles == ~overlapped /\ ~outlived => NoFileCrossed /\ SavedIsStored

=============================================================================
