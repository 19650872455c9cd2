---------------------------- MODULE FantomState ----------------------------
(***************************************************************************)
(* The globals of the application (src/io.c, src/state.c, src/state.h, the *)
(* contexts of the three instructions, the display state of                *)
(* src/ui_helpers.c and the static callbacks of                            *)
(* src/ui_basic_flows_nbgl.c), and the few ways a piece of code can end:   *)
(* it answers the host, it fails with a status word, or it crashes.        *)
(*                                                                         *)
(* The application is sequential: it blocks only in io_exchange, waiting   *)
(* for the next request of the host or the next action of the user.        *)
(* Everything between two such points is one step of the model.            *)
(***************************************************************************)
EXTENDS Policy

CONSTANTS
    Build,      \* "BAGL" (Nano devices, two buttons) or "NBGL" (Stax, touch screen)
    Paths,      \* the derivation paths the host asks for
    Txs         \* the transactions the host may stream

ASSUME BuildAssumption == Build \in {"BAGL", "NBGL"}
ASSUME PathsAssumption == Paths \subseteq Path

(***************************************************************************)
(* A transaction is an identity and what the application tells apart:      *)
(*   ours - its V field carries the Fantom chain id                        *)
(*   call - its data looks like a contract call                            *)
(*   fmt  - which formatted field does not fit its buffer, "ok" if none    *)
(* The same records name what a SHA3 context has absorbed: nothing, part   *)
(* of a transaction, a whole one, or something else (a public key or the   *)
(* text of an address; src/address_utils.c uses the same context).         *)
(***************************************************************************)
Special(id) == [id |-> id, ours |-> FALSE, call |-> FALSE, fmt |-> "ok"]
NoTx        == Special("none")
PartialTx   == Special("partial")
OtherData   == Special("other")

ASSUME TxsAssumption ==
    /\ \A t \in Txs : /\ DOMAIN t = {"id", "ours", "call", "fmt"}
                      /\ t.ours \in BOOLEAN /\ t.call \in BOOLEAN
                      /\ t.fmt \in {"ok", "amount", "fee"}
    /\ {NoTx, PartialTx, OtherData} \cap Txs = {}

Hashed == Txs \cup {NoTx, PartialTx, OtherData}

VERSION  == "INS_VERSION"
GET_KEY  == "INS_GET_KEY"
GET_ADDR == "INS_GET_ADDR"
SIGN_TX  == "INS_SIGN_TX"
Instructions == {VERSION, GET_KEY, GET_ADDR, SIGN_TX}

VARIABLES
    mode,        \* "running", or why the application no longer runs
    locked,      \* the device waits for its PIN
    io_state,    \* IO_EXPECT_IO, IO_EXPECT_UI, IO_EXPECT_NONE (without the prefix)
    currentIns,  \* the instruction in progress
    ctx,         \* instructionState, the union of the instructions' contexts
    screen,      \* the UX flow (BAGL) or the page (NBGL) that is on display
    modal,       \* NBGL: "Reject transaction?" lies over the page
    display,     \* displayState (BAGL); its text and the static callbacks (NBGL)
    sent,        \* history: the response the last step sent, NoReply if none
    seen         \* history: what the user has acknowledged in this instruction

vars == <<mode, locked, io_state, currentIns, ctx, screen, modal, display, sent, seen>>

-----------------------------------------------------------------------------
(* The instruction contexts *)

Stages == {"NONE", "INIT", "COLLECT", "FINALIZE", "DONE"}

UiSteps ==
    {"NONE", "WARNING", "DISPLAY_PATH", "ADDRESS", "CONFIRM", "RESPOND", "INVALID",
     "INIT_WARNING", "INIT_CONFIRM", "INIT_RESPOND", "INIT_INVALID",
     "TX_RECIPIENT", "TX_SENDER", "TX_AMOUNT", "TX_FEE", "TX_CONTRACT_CALL",
     "TX_CONFIRM", "TX_RESPOND", "TX_INVALID"}

\* The container of a path has room for BIP32_MAX_PATH_LENGTH elements.
StoredPaths == {p \in Paths : Len(p) <= BIP32_MAX_PATH_LENGTH} \cup {<<>>}

(***************************************************************************)
(* instructionState is a union, but it is cleared before every new         *)
(* instruction, so fields of two members are never mixed: one record holds *)
(* the fields of all three.  responseReady says whether the member's own   *)
(* RESPONSE_READY_TAG is set.  signature is the digest that was signed.    *)
(***************************************************************************)
Context ==
    [stage : Stages, uiStep : UiSteps, responseReady : BOOLEAN,
     path : StoredPaths, isShowAddress : BOOLEAN, isShowPath : BOOLEAN,
     sha3 : Hashed, tx : Txs \cup {NoTx}, signature : Hashed]

ClearedContext ==
    [stage |-> "NONE", uiStep |-> "NONE", responseReady |-> FALSE,
     path |-> <<>>, isShowAddress |-> FALSE, isShowPath |-> FALSE,
     sha3 |-> NoTx, tx |-> NoTx, signature |-> NoTx]

-----------------------------------------------------------------------------
(* Screens and what they show *)

Subjects ==
    {"warning", "start", "path", "address", "export",
     "recipient", "sender", "amount", "fee", "contract", "confirm", "cutPath"}

\* Something the user is shown, with the path and the transaction it is about.
Item(what, c) == [what |-> what, path |-> c.path, tx |-> c.tx]
Items == [what : Subjects, path : StoredPaths, tx : Txs \cup {NoTx}]

ConfirmCallbacks ==
    {"runGetPublicKeyUIStep", "runGetAddressUIStep",
     "runSignTransactionInitUIStep", "runSignTransactionUIStep"}

Display ==
    [guard : {"NONE", "PAGINATED_TEXT", "PROMPT"}, state : {"NOT_RUN", "RUN"},
     confirm : ConfirmCallbacks \cup {"NULL"},
     reject : {"ui_respondWithUserReject", "NULL"}, text : SUBSET Items]

ClearedDisplay ==
    [guard |-> "NONE", state |-> "NOT_RUN", confirm |-> "NULL", reject |-> "NULL",
     text |-> {}]

BaglScreens == {"idle", "busy", "text", "prompt"}
NbglScreens ==
    {"idle", "busy", "warning", "reviewStart", "contractWarning", "review",
     "verifyStart", "verifyAddress", "exportKey", "status"}

-----------------------------------------------------------------------------
(* Responses *)

SUCCESS == "SUCCESS"
Errors ==
    {"ERR_BAD_REQUEST_HEADER", "ERR_UNKNOWN_CLA", "ERR_UNKNOWN_INS", "ERR_INVALID_STATE",
     "ERR_INVALID_PARAMETERS", "ERR_INVALID_DATA", "ERR_REJECTED_BY_USER",
     "ERR_REJECTED_BY_POLICY", "ERR_DEVICE_LOCKED"}

Kinds == {"none", "version", "key", "address", "stage", "signature"}

Reply(code, kind, c) ==
    [code |-> code, kind |-> kind, path |-> c.path, digest |-> c.signature, stage |-> c.stage]
Answer(kind, c) == Reply(SUCCESS, kind, c)
Error(e)        == Reply(e, "none", ClearedContext)
NoReply         == Reply("NONE", "none", ClearedContext)

Replies ==
    [code : Errors \cup {SUCCESS, "NONE"}, kind : Kinds, path : StoredPaths,
     digest : Hashed, stage : Stages]

-----------------------------------------------------------------------------
(* How a piece of code ends.  k describes the call: the globals as they    *)
(* are when the code runs, and whether it runs as a callback of the UI.    *)

\* Mutant: io_state is not reset before the handler is called.
MutHandlerCall(ins) == [io |-> "IO", ins |-> ins, display |-> display, callback |-> FALSE]

\* Called by the main loop, which has just set io_state to IO_EXPECT_NONE.
HandlerCall(ins) == [io |-> "NONE", ins |-> ins, display |-> display, callback |-> FALSE]

\* ui_callbackConfirm, ui_callbackReject: the state is RUN before the callback runs.
CallbackCall ==
    [io |-> io_state, ins |-> currentIns, callback |-> TRUE,
     display |-> IF Build = "BAGL" THEN [display EXCEPT !.state = "RUN"] ELSE display]

\* Mutant: the screen stays.
MutUiIdle == currentIns' = "NONE" /\ screen' = screen /\ modal' = FALSE

\* ui_idle: no instruction is in progress, the idle screen replaces any other.
\* displayState and the context keep what they held.
ui_idle ==
    /\ currentIns' = "NONE"
    /\ screen' = "idle"
    /\ modal' = FALSE

\* io_send_buf: after a response only the host may act.
io_send_buf(reply) ==
    /\ sent' = reply
    /\ io_state' = "IO"

\* Mutant: the instruction stays in progress.
MutFail(e) ==
    /\ io_send_buf(Error(e))
    /\ UNCHANGED <<mode, locked, currentIns, screen, modal, display>>

\* CATCH_OTHER of the main loop: the status word goes to the host, then idle.
Fail(e) ==
    /\ io_send_buf(Error(e))
    /\ ui_idle
    /\ UNCHANGED <<mode, locked, display>>

\* A failed ASSERT, or an exception nobody can pass on, resets the device.
Crash(why) ==
    /\ mode' = why
    /\ sent' = NoReply
    /\ UNCHANGED <<locked, io_state, currentIns, screen, modal, display>>

\* TRY_CATCH_UI turns what a BAGL callback throws into a reset; NBGL callbacks
\* have no such frame, so the exception reaches the main loop.
Throw(e, k) ==
    IF k.callback /\ Build = "BAGL" THEN Crash("crashed") ELSE Fail(e)
============================================================================
