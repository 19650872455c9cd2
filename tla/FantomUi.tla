------------------------------ MODULE FantomUi -----------------------------
(***************************************************************************)
(* The screens: src/ui_helpers.c and src/ui_basic_flows_bagl.c for the     *)
(* Nano devices, src/ui_basic_flows_nbgl.c for Stax.  A screen operator    *)
(* fixes everything but ctx and seen; its caller sets those.               *)
(***************************************************************************)
EXTENDS FantomState

\* ASSERT(io_state == IO_EXPECT_NONE || io_state == IO_EXPECT_UI) of every screen.
UiAllowed(k) == k.io \in {"NONE", "UI"}

\* What every screen of an instruction leaves alone, or sets alike.
OpenScreen(name, k) ==
    /\ screen' = name
    /\ modal' = FALSE
    /\ currentIns' = k.ins
    /\ sent' = NoReply
    /\ UNCHANGED <<mode, locked>>

-----------------------------------------------------------------------------
(* BAGL.  displayState is cleared, filled, guarded; io_state becomes UI. *)

\* Mutant: the callback counts as run already.
MutCallbackInit(confirm, reject) ==
    [state |-> "RUN", confirm |-> confirm, reject |-> reject]

\* ui_CallbackInit
CallbackInit(confirm, reject) ==
    [state |-> "NOT_RUN", confirm |-> confirm, reject |-> reject]

\* Mutant: the text of the last screen stays in the buffer.
MutDisplayState(guard, cb, text) ==
    [guard |-> guard, state |-> cb.state, confirm |-> cb.confirm, reject |-> cb.reject,
     text |-> IF display.text = {} THEN text ELSE display.text]

DisplayState(guard, cb, text) ==
    [guard |-> guard, state |-> cb.state, confirm |-> cb.confirm, reject |-> cb.reject,
     text |-> text]

ui_displayPaginatedText(text, callback, k) ==
    /\ display' = DisplayState("PAGINATED_TEXT", CallbackInit(callback, "NULL"), text)
    /\ io_state' = "UI"
    /\ OpenScreen("text", k)

ui_displayPrompt(text, confirm, k) ==
    /\ display' = DisplayState("PROMPT",
                               CallbackInit(confirm, "ui_respondWithUserReject"), text)
    /\ io_state' = "UI"
    /\ OpenScreen("prompt", k)

-----------------------------------------------------------------------------
(* NBGL.  The callbacks are static variables; io_state is left as it is.   *)
(* text is what the pages show, all of them together.                      *)

\* Mutant: the text of the last page stays.
MutPageKeepsText(name, text, confirm, k) ==
    /\ display' = [k.display EXCEPT !.confirm = confirm,
                                    !.reject = "ui_respondWithUserReject",
                                    !.text = IF @ = {} THEN text ELSE @]
    /\ io_state' = k.io
    /\ OpenScreen(name, k)

\* Mutant: the callback to continue with is not stored.
MutPageWithoutCallback(name, text, confirm, k) ==
    /\ display' = [k.display EXCEPT !.confirm = "NULL",
                                    !.reject = "ui_respondWithUserReject",
                                    !.text = text]
    /\ io_state' = k.io
    /\ OpenScreen(name, k)

NbglPage(name, text, confirm, k) ==
    /\ display' = [k.display EXCEPT !.confirm = confirm,
                                    !.reject = "ui_respondWithUserReject",
                                    !.text = text]
    /\ io_state' = k.io
    /\ OpenScreen(name, k)

ui_displayWarning(text, confirm, k)    == NbglPage("warning", text, confirm, k)
ui_reviewStart(text, confirm, k)       == NbglPage("reviewStart", text, confirm, k)
ui_verifyAddress(text, confirm, k)     == NbglPage("verifyStart", text, confirm, k)

(***************************************************************************)
(* The page that asks for the export of a key shows header and path in one *)
(* text of 40 bytes, terminator included.  "Derivation Path" and the line  *)
(* break leave room for 23 characters; what is left of the path is cut.    *)
(***************************************************************************)
EXPORT_PATH_LENGTH == 23
ExportPath(c) == Item(IF PathStrLen(c.path) <= EXPORT_PATH_LENGTH THEN "path" ELSE "cutPath", c)
ui_exportKeyConfirm(c, confirm, k) ==
    NbglPage("exportKey", {ExportPath(c), Item("export", c)}, confirm, k)

\* Mutant: the contract alert is skipped.
MutReviewDisplay(text, confirm, contract_warning, k) == NbglPage("review", text, confirm, k)

ui_reviewDisplay(text, confirm, contract_warning, k) ==
    NbglPage(IF contract_warning THEN "contractWarning" ELSE "review", text, confirm, k)

\* The part of display.text the current page shows.
PageText ==
    CASE screen = "contractWarning" -> {i \in display.text : i.what = "contract"}
      [] screen = "review"          -> {i \in display.text : i.what # "contract"}
      [] screen = "verifyStart"     -> {}
      [] OTHER                      -> display.text

-----------------------------------------------------------------------------
(* Both builds *)

\* ui_displayBusy, called after a response: no callback is left to run.
ui_displayBusy(k) ==
    /\ screen' = "busy"
    /\ modal' = FALSE
    /\ display' = IF Build = "BAGL" THEN ClearedDisplay ELSE [k.display EXCEPT !.text = {}]
    /\ currentIns' = k.ins
    /\ UNCHANGED <<mode, locked>>

\* Mutant: NBGL leaves the page of the instruction on display.
MutFinishInstruction(k) ==
    /\ display' = k.display
    /\ UNCHANGED <<mode, locked>>
    /\ IF Build = "BAGL"
       THEN ui_idle
       ELSE /\ currentIns' = k.ins
            /\ screen' = screen
            /\ modal' = FALSE

\* The end of an instruction's last step.  BAGL goes idle at once; NBGL leaves
\* that to the status page a review ends with, and shows nothing otherwise.
FinishInstruction(k) ==
    /\ display' = k.display
    /\ UNCHANGED <<mode, locked>>
    /\ IF Build = "BAGL"
       THEN ui_idle
       ELSE /\ currentIns' = k.ins
            /\ screen' = IF k.callback THEN "status" ELSE screen
            /\ modal' = FALSE

\* Mutant: the idle screen is shown, the instruction stays in progress.
MutRespondWithUserReject(k) ==
    /\ io_send_buf(Error("ERR_REJECTED_BY_USER"))
    /\ display' = k.display
    /\ currentIns' = k.ins
    /\ screen' = "idle"
    /\ modal' = FALSE
    /\ UNCHANGED <<mode, locked>>

\* ui_respondWithUserReject; NBGL shows a status page after it.
ui_respondWithUserReject(k) ==
    /\ io_send_buf(Error("ERR_REJECTED_BY_USER"))
    /\ FinishInstruction(k)
============================================================================
