------------------------- MODULE FantomCorrectness -------------------------
(***************************************************************************)
(* What makes the application correct.  Invariants about `sent` speak of   *)
(* the step that has just been taken: it sent that response.               *)
(***************************************************************************)
EXTENDS FantomApp

\* Every variable has its type, and the screens are those of the build.
TypeOK ==
    /\ mode \in {"running", "asserted", "crashed", "exited"}
    /\ locked \in BOOLEAN
    /\ io_state \in {"IO", "UI", "NONE"}
    /\ currentIns \in Instructions \cup {"NONE"}
    /\ ctx \in Context
    /\ screen \in IF Build = "BAGL" THEN BaglScreens ELSE NbglScreens
    /\ modal \in BOOLEAN
    /\ display \in Display
    /\ sent \in Replies
    /\ seen \subseteq Items

-----------------------------------------------------------------------------
(* Consent *)

\* The user has acknowledged a screen that showed `what` of path and tx.
Acknowledged(what, path, tx) == [what |-> what, path |-> path, tx |-> tx] \in seen

ReviewOf(tx) ==
    {"recipient", "sender", "amount", "fee", "confirm"}
        \cup (IF tx.call THEN {"contract"} ELSE {})

\* No signature leaves the device unless the user has agreed to start a transaction
\* for that very path, was warned if the path is unusual, and has then acknowledged
\* every field of the transaction the device holds, the contract alert included
\* (handleSignTxInit, handleSignTxFinalize and the two UI step functions).
SignatureReviewed ==
    sent.kind = "signature" =>
        /\ ctx.tx \in Txs
        /\ ctx.tx.ours
        /\ \A what \in ReviewOf(ctx.tx) : Acknowledged(what, sent.path, ctx.tx)
        /\ Acknowledged("start", sent.path, NoTx)
        /\ policyForSignTxInit(sent.path) = "WARN"
               => Acknowledged("warning", sent.path, NoTx)

\* The digest a signature is made of is that of the transaction that was streamed
\* and shown, although the SHA3 state is also used to derive and format addresses.
SignatureCoversReviewedTx ==
    sent.kind = "signature" => sent.digest = ctx.tx

\* A public key leaves the device only after the user has agreed to the export for its
\* path, as much as is shown of it, and the warning when the policy asks for one.
KeyExportConfirmed ==
    sent.kind = "key" =>
        /\ \E what \in {"path", "cutPath"} : Acknowledged(what, sent.path, NoTx)
        /\ Acknowledged("export", sent.path, NoTx)
        /\ policyForGetPublicKey(sent.path) = "WARN"
               => Acknowledged("warning", sent.path, NoTx)

\* The same, and the user has read the path of the key as a whole: two keys that are
\* exported are never asked for with the same words.
KeyExportApproved ==
    /\ KeyExportConfirmed
    /\ sent.kind = "key" => Acknowledged("path", sent.path, NoTx)

\* An address the host asked to have shown was acknowledged by the user; one for an
\* unusual path was preceded by the warning and by the path or the address itself.
AddressApproved ==
    sent.kind = "address" =>
        /\ ctx.isShowAddress => Acknowledged("address", sent.path, NoTx)
        /\ policyForGetAddress(sent.path, ctx.isShowAddress) = "WARN"
               => /\ Acknowledged("warning", sent.path, NoTx)
                  /\ Acknowledged("path", sent.path, NoTx)

-----------------------------------------------------------------------------
(* The host's turn and the user's turn *)

InteractiveScreens == (BaglScreens \cup NbglScreens) \ {"idle", "busy", "status"}

\* The callback of a screen of the instruction in progress.
CallbackOf(ins, stage) ==
    CASE ins = GET_KEY                       -> "runGetPublicKeyUIStep"
      [] ins = GET_ADDR                      -> "runGetAddressUIStep"
      [] ins = SIGN_TX /\ stage = "INIT"     -> "runSignTransactionInitUIStep"
      [] ins = SIGN_TX /\ stage = "FINALIZE" -> "runSignTransactionUIStep"
      [] OTHER                               -> "NULL"

\* A button press on the screen that is shown will be heard.
CallbackIsLive ==
    /\ display.confirm = CallbackOf(currentIns, ctx.stage)
    /\ display.confirm # "NULL"
    /\ display.state = "NOT_RUN"
    /\ Build = "BAGL" => display.guard = FlowGuard
    /\ screen = "prompt" \/ Build = "NBGL" => display.reject = "ui_respondWithUserReject"

\* It is the user's turn exactly while a screen with a live callback of the
\* instruction in progress is shown: the application never waits for a user who has
\* nothing to press, and no screen of an instruction outlives its answer.
UserTurnIsAnswerable ==
    Running =>
        /\ io_state # "IO" <=> screen \in InteractiveScreens
        /\ io_state # "IO" => CallbackIsLive
        /\ modal => screen \in AsksTwice

\* What is on display while the user decides is about the path and the transaction
\* the next step will use.
DisplayedIsCurrent ==
    Running /\ io_state # "IO" =>
        /\ display.text # {}
        /\ \A i \in display.text : i.path = ctx.path /\ i.tx = ctx.tx

\* A step of the user's answers the host only if a request is open (the callback
\* state of ui_callback_t exists "so that no bug can fire both callbacks").
UserAnswersOpenRequest ==
    [][User /\ sent'.code # "NONE" => io_state # "IO"]_vars

-----------------------------------------------------------------------------
(* The life of an instruction *)

\* Any error ends the instruction in progress (errors.h: "any error will reset
\* multi-step instruction processing").
ErrorEndsInstruction ==
    sent.code \in Errors => currentIns = "NONE"

\* The same, but for the rejection by the user.
OtherErrorEndsInstruction ==
    sent.code \in Errors \ {"ERR_REJECTED_BY_USER"} => currentIns = "NONE"

\* The idle screen means no instruction is in progress, the busy screen that a
\* transaction is being collected: the host can tell from its own record of the
\* answers which requests will be accepted.
ScreenTellsInstruction ==
    Running =>
        /\ screen = "idle" => currentIns = "NONE"
        /\ screen = "busy" => /\ currentIns = SIGN_TX
                              /\ ctx.stage \in {"COLLECT", "FINALIZE"}
                              /\ io_state = "IO"

\* The device resets itself only for a path that is too long for a key to be derived
\* or for the path to be written on the screen, or, on a Nano, for a transaction with
\* an amount or fee that cannot be formatted; every other ASSERT of the handlers and
\* of the screens holds.
ResetIsExplained ==
    /\ mode = "asserted" => ~PathPrints(ctx.path, PATH_BUFFER)
    /\ mode = "crashed" => Build = "BAGL" /\ ctx.tx.fmt # "ok"

-----------------------------------------------------------------------------
(* What signing promises *)

SigningInProgress == Running /\ currentIns = SIGN_TX

SigningPhase ==
    IF ~SigningInProgress THEN "idle"
    ELSE CASE ctx.stage = "INIT"    -> "asked"
           [] ctx.stage = "COLLECT" -> "loading"
           [] ctx.stage = "FINALIZE" /\ io_state = "IO" -> "loaded"
           [] ctx.stage = "FINALIZE" /\ io_state # "IO" -> "review"
           [] OTHER -> "idle"

\* A transaction of the promise, or the lack of one.
Held(t) == IF t = NoTx THEN <<>> ELSE <<t>>

Promise == INSTANCE SigningProtocol WITH
    Paths    <- Paths,
    Txs      <- {Held(t) : t \in Txs},
    Signable <- {Held(t) : t \in {u \in Txs : u.ours}},
    None     <- <<>>,
    phase    <- SigningPhase,
    path     <- IF SigningInProgress /\ ctx.stage # "NONE" THEN ctx.path ELSE <<>>,
    tx       <- IF SigningInProgress THEN Held(ctx.tx) ELSE <<>>,
    released <- IF sent.kind = "signature" THEN <<sent.path, Held(sent.digest)>> ELSE <<>>

\* The application keeps the promise of SigningProtocol: whatever is signed, is the
\* transaction that was loaded and put to the user, for the path the user agreed to.
KeepsPromise == Promise!PSpec

-----------------------------------------------------------------------------
(* Progress *)

\* io_exchange delivers every event of the user's: who keeps pressing confirm, and
\* unlocking the device, gets through; a status page times out by itself.
FairSpec ==
    /\ Spec
    /\ WF_vars(Unlock)
    /\ SF_vars(ButtonConfirm)
    /\ SF_vars(TouchConfirm \/ TouchRejectForGood)
    /\ SF_vars(ReturnHome)

\* Every request is answered in the end, or the device resets.
RequestsAreAnswered ==
    Running /\ io_state # "IO" ~> io_state = "IO" \/ ~Running

\* A status page gives way to another screen, so the next instruction can start.
StatusPageEnds ==
    screen = "status" ~> screen # "status" \/ ~Running
============================================================================
