----------------------------- MODULE FantomApp -----------------------------
(***************************************************************************)
(* The application: the main loop (src/main.c), its four instruction       *)
(* handlers (src/get_version.c, src/get_pub_key.c, src/get_address.c,      *)
(* src/get_tx_sign.c) and the user's actions on the screens they open.     *)
(*                                                                         *)
(* c is always the context a piece of code works on, k the call it runs in *)
(* (see FantomState).  The transaction stream is abstracted to its verdict *)
(* on a block: more to come, a whole transaction, or a fault.              *)
(***************************************************************************)
EXTENDS FantomUi

PATH_BUFFER == IF Build = "BAGL" THEN 100 ELSE 200

-----------------------------------------------------------------------------
(* Get Public Key *)

\* The assertions of runGetPublicKeyUIStep and of what it calls.
PublicKeyStepAsserts(c, k) ==
    CASE c.uiStep = "WARNING"      -> ~UiAllowed(k)
      [] c.uiStep = "DISPLAY_PATH" -> ~UiAllowed(k) \/ ~PathPrints(c.path, PATH_BUFFER)
      [] c.uiStep = "CONFIRM"      -> ~UiAllowed(k) \/ Build = "NBGL"
      [] c.uiStep = "RESPOND"      -> ~c.responseReady
      [] OTHER                     -> TRUE

PublicKeyWarning(c, k) ==
    /\ c.uiStep = "WARNING"
    /\ IF Build = "BAGL"
       THEN ui_displayPaginatedText({Item("warning", c)}, "runGetPublicKeyUIStep", k)
       ELSE ui_displayWarning({Item("warning", c)}, "runGetPublicKeyUIStep", k)
    /\ ctx' = [c EXCEPT !.uiStep = "DISPLAY_PATH"]

PublicKeyPath(c, k) ==
    /\ c.uiStep = "DISPLAY_PATH"
    /\ IF Build = "BAGL"
       THEN /\ ui_displayPaginatedText({Item("path", c)}, "runGetPublicKeyUIStep", k)
            /\ ctx' = [c EXCEPT !.uiStep = "CONFIRM"]
       ELSE /\ ui_exportKeyConfirm(c, "runGetPublicKeyUIStep", k)
            /\ ctx' = [c EXCEPT !.uiStep = "RESPOND"]

PublicKeyConfirm(c, k) ==
    /\ c.uiStep = "CONFIRM"
    /\ ui_displayPrompt({Item("export", c)}, "runGetPublicKeyUIStep", k)
    /\ ctx' = [c EXCEPT !.uiStep = "RESPOND"]

PublicKeyRespond(c, k) ==
    /\ c.uiStep = "RESPOND"
    /\ io_send_buf(Answer("key", c))
    /\ FinishInstruction(k)
    /\ ctx' = [c EXCEPT !.uiStep = "INVALID"]

runGetPublicKeyUIStep(c, k) ==
    IF PublicKeyStepAsserts(c, k)
    THEN Crash("asserted") /\ ctx' = c
    ELSE \/ PublicKeyWarning(c, k)
         \/ PublicKeyPath(c, k)
         \/ PublicKeyConfirm(c, k)
         \/ PublicKeyRespond(c, k)

\* Mutant: the warning is never shown.
MutPublicKeyFirstStep(path) == "DISPLAY_PATH"

\* Where the screens of the instruction start.
PublicKeyFirstStep(path) ==
    IF policyForGetPublicKey(path) = "WARN" THEN "WARNING" ELSE "DISPLAY_PATH"

\* The first check a request fails, in the handler's order; "NONE" if it passes all.
PublicKeyRefusal(p1, p2, wire) ==
    IF p1 # 0 \/ p2 # 0 THEN "ERR_INVALID_PARAMETERS"
    ELSE IF ~ParsesFromWire(wire) THEN "ERR_INVALID_DATA"
    ELSE IF policyForGetPublicKey(wire.path) = "DENY" THEN "ERR_REJECTED_BY_POLICY"
    ELSE "NONE"

handleGetPublicKey(c, p1, p2, wire) ==
    LET refusal == PublicKeyRefusal(p1, p2, wire)
        ready   == [c EXCEPT !.responseReady = TRUE, !.path = wire.path,
                             !.uiStep = PublicKeyFirstStep(wire.path)]
    IN  \/ /\ refusal # "NONE"
           /\ Fail(refusal)
           /\ ctx' = c
        \/ /\ refusal = "NONE"
           /\ ~KeyDerivable(wire.path)
           /\ Crash("asserted")
           /\ ctx' = [c EXCEPT !.responseReady = FALSE, !.path = wire.path]
        \/ /\ refusal = "NONE"
           /\ KeyDerivable(wire.path)
           /\ runGetPublicKeyUIStep(ready, HandlerCall(GET_KEY))

-----------------------------------------------------------------------------
(* Get Address *)

P1_RETURN_ADDRESS  == 1
P1_DISPLAY_ADDRESS == 2

AddressStepAsserts(c, k) ==
    CASE c.uiStep = "WARNING" -> ~UiAllowed(k)
      [] c.uiStep = "DISPLAY_PATH" /\ Build = "BAGL" ->
             ~UiAllowed(k) \/ ~PathPrints(c.path, PATH_BUFFER)
      [] c.uiStep = "ADDRESS" /\ Build = "BAGL" -> ~UiAllowed(k)
      [] c.uiStep = "CONFIRM" ->
             \/ ~UiAllowed(k)
             \/ Build = "NBGL" /\ ~PathPrints(c.path, PATH_BUFFER)
      [] c.uiStep = "RESPOND" -> ~c.responseReady
      [] OTHER -> TRUE

AddressWarning(c, k) ==
    /\ c.uiStep = "WARNING"
    /\ IF Build = "BAGL"
       THEN /\ ui_displayPaginatedText({Item("warning", c)}, "runGetAddressUIStep", k)
            /\ ctx' = [c EXCEPT !.uiStep = "DISPLAY_PATH"]
       ELSE /\ ui_displayWarning({Item("warning", c)}, "runGetAddressUIStep", k)
            /\ ctx' = [c EXCEPT !.isShowPath = TRUE, !.uiStep = "CONFIRM"]

AddressPath(c, k) ==
    /\ c.uiStep = "DISPLAY_PATH"
    /\ ui_displayPaginatedText({Item("path", c)}, "runGetAddressUIStep", k)
    /\ ctx' = [c EXCEPT !.uiStep = IF c.isShowAddress THEN "ADDRESS" ELSE "CONFIRM"]

AddressShow(c, k) ==
    /\ c.uiStep = "ADDRESS"
    /\ ui_displayPaginatedText({Item("address", c)}, "runGetAddressUIStep", k)
    /\ ctx' = [c EXCEPT !.uiStep = "RESPOND"]

\* Mutant: the path is shown only when the address is not.
MutVerifyText(c) ==
    IF c.isShowAddress THEN {Item("address", c)} ELSE {Item("path", c)}

\* What displayAddress shows of the two fields ui_verifyAddress is given.
VerifyText(c) ==
    (IF c.isShowAddress THEN {Item("address", c)} ELSE {})
        \cup (IF c.isShowPath \/ ~c.isShowAddress THEN {Item("path", c)} ELSE {})

AddressConfirm(c, k) ==
    /\ c.uiStep = "CONFIRM"
    /\ IF Build = "BAGL"
       THEN ui_displayPrompt({Item("export", c)}, "runGetAddressUIStep", k)
       ELSE ui_verifyAddress(VerifyText(c), "runGetAddressUIStep", k)
    /\ ctx' = [c EXCEPT !.uiStep = "RESPOND"]

AddressRespond(c, k) ==
    /\ c.uiStep = "RESPOND"
    /\ io_send_buf(Answer("address", c))
    /\ FinishInstruction(k)
    /\ ctx' = [c EXCEPT !.uiStep = "INVALID"]

runGetAddressUIStep(c, k) ==
    IF AddressStepAsserts(c, k)
    THEN Crash("asserted") /\ ctx' = c
    ELSE \/ AddressWarning(c, k)
         \/ AddressPath(c, k)
         \/ AddressShow(c, k)
         \/ AddressConfirm(c, k)
         \/ AddressRespond(c, k)

\* Mutant: an unusual path is treated like any other.
MutAddressFirstStep(path, show) ==
    IF ~show THEN "RESPOND" ELSE IF Build = "BAGL" THEN "ADDRESS" ELSE "CONFIRM"

AddressFirstStep(path, show) ==
    CASE policyForGetAddress(path, show) = "WARN"   -> "WARNING"
      [] policyForGetAddress(path, show) = "PROMPT" ->
             IF Build = "BAGL" /\ show THEN "ADDRESS" ELSE "CONFIRM"
      [] OTHER                                      -> "RESPOND"

AddressRefusal(p1, p2, wire) ==
    IF p1 \notin {P1_RETURN_ADDRESS, P1_DISPLAY_ADDRESS} \/ p2 # 0
    THEN "ERR_INVALID_PARAMETERS"
    ELSE IF ~ParsesFromWire(wire) THEN "ERR_INVALID_DATA"
    ELSE IF policyForGetAddress(wire.path, p1 = P1_DISPLAY_ADDRESS) = "DENY"
    THEN "ERR_REJECTED_BY_POLICY"
    ELSE "NONE"

\* deriveAddress hashes the public key in the context's SHA3 state.
handleGetAddress(c, p1, p2, wire) ==
    LET refusal == AddressRefusal(p1, p2, wire)
        show    == p1 = P1_DISPLAY_ADDRESS
        asked   == [c EXCEPT !.responseReady = FALSE, !.path = wire.path,
                             !.isShowAddress = show]
        ready   == [asked EXCEPT !.responseReady = TRUE, !.sha3 = OtherData,
                                 !.uiStep = AddressFirstStep(wire.path, show)]
    IN  \/ /\ refusal # "NONE"
           /\ Fail(refusal)
           /\ ctx' = c
        \/ /\ refusal = "NONE"
           /\ ~KeyDerivable(wire.path)
           /\ Crash("asserted")
           /\ ctx' = asked
        \/ /\ refusal = "NONE"
           /\ KeyDerivable(wire.path)
           /\ runGetAddressUIStep(ready, HandlerCall(GET_ADDR))

-----------------------------------------------------------------------------
(* Sign Transaction: the first block *)

P1_NEW_TRANSACTION == 0
P1_STREAM_DATA     == 1
P1_GET_SIGNATURE   == 128

SignInitStepAsserts(c, k) ==
    CASE c.uiStep \in {"INIT_WARNING", "INIT_CONFIRM"} -> ~UiAllowed(k)
      [] c.uiStep = "INIT_RESPOND"                     -> FALSE
      [] OTHER                                         -> TRUE

SignInitWarning(c, k) ==
    /\ c.uiStep = "INIT_WARNING"
    /\ IF Build = "BAGL"
       THEN ui_displayPaginatedText({Item("warning", c)}, "runSignTransactionInitUIStep", k)
       ELSE ui_displayWarning({Item("warning", c)}, "runSignTransactionInitUIStep", k)
    /\ ctx' = [c EXCEPT !.uiStep = "INIT_CONFIRM"]

SignInitConfirm(c, k) ==
    /\ c.uiStep = "INIT_CONFIRM"
    /\ IF Build = "BAGL"
       THEN ui_displayPrompt({Item("start", c)}, "runSignTransactionInitUIStep", k)
       ELSE ui_reviewStart({Item("start", c)}, "runSignTransactionInitUIStep", k)
    /\ ctx' = [c EXCEPT !.uiStep = "INIT_RESPOND"]

\* Mutant: the stage is not switched.
MutSignInitRespond(c, k) ==
    /\ c.uiStep = "INIT_RESPOND"
    /\ io_send_buf(Answer("none", c))
    /\ ui_displayBusy(k)
    /\ ctx' = [c EXCEPT !.uiStep = "INIT_INVALID"]

SignInitRespond(c, k) ==
    /\ c.uiStep = "INIT_RESPOND"
    /\ io_send_buf(Answer("none", c))
    /\ ui_displayBusy(k)
    /\ ctx' = [c EXCEPT !.stage = "COLLECT", !.uiStep = "INIT_INVALID"]

runSignTransactionInitUIStep(c, k) ==
    \/ /\ c.stage # "INIT"
       /\ Throw("ERR_INVALID_STATE", k)
       /\ ctx' = c
    \/ /\ c.stage = "INIT"
       /\ SignInitStepAsserts(c, k)
       /\ Crash("asserted")
       /\ ctx' = c
    \/ /\ c.stage = "INIT"
       /\ ~SignInitStepAsserts(c, k)
       /\ \/ SignInitWarning(c, k)
          \/ SignInitConfirm(c, k)
          \/ SignInitRespond(c, k)

SignInitFirstStep(path) ==
    IF policyForSignTxInit(path) = "WARN" THEN "INIT_WARNING" ELSE "INIT_CONFIRM"

SignInitRefusal(c, p2, wire) ==
    IF c.stage # "NONE" THEN "ERR_INVALID_STATE"
    ELSE IF p2 # 0 THEN "ERR_INVALID_PARAMETERS"
    ELSE IF ~ParsesFromWire(wire) THEN "ERR_INVALID_DATA"
    ELSE IF policyForSignTxInit(wire.path) = "DENY" THEN "ERR_REJECTED_BY_POLICY"
    ELSE "NONE"

\* txStreamInit starts the stream and a fresh SHA3 state.
handleSignTxInit(c, p2, wire) ==
    LET refusal == SignInitRefusal(c, p2, wire)
        started == [c EXCEPT !.stage = "INIT", !.responseReady = FALSE, !.sha3 = NoTx,
                             !.path = wire.path, !.uiStep = SignInitFirstStep(wire.path)]
    IN  \/ /\ refusal # "NONE"
           /\ Fail(refusal)
           /\ ctx' = c
        \/ /\ refusal = "NONE"
           /\ runSignTransactionInitUIStep(started, HandlerCall(SIGN_TX))

-----------------------------------------------------------------------------
(* Sign Transaction: the blocks that carry the transaction *)

SignCollectRefusal(c, p2, wire) ==
    IF c.stage # "COLLECT" THEN "ERR_INVALID_STATE"
    ELSE IF p2 # 0 THEN "ERR_INVALID_PARAMETERS"
    ELSE IF wire.size = 0 THEN "ERR_INVALID_DATA"
    ELSE "NONE"

\* What the block leaves in the context when the stream wants more.
StreamProcessing(c) == [c EXCEPT !.sha3 = PartialTx]

\* The stream has read the whole of transaction t; the fields of t are known.
StreamFinished(c, t) == [c EXCEPT !.stage = "FINALIZE", !.tx = t, !.sha3 = t]

\* The answer tells the host the stage the block has led to.
CollectAnswer(after) ==
    /\ io_send_buf(Answer("stage", after))
    /\ ui_displayBusy(HandlerCall(SIGN_TX))
    /\ ctx' = after

handleSignTxCollect(c, p2, wire) ==
    LET refusal == SignCollectRefusal(c, p2, wire)
    IN  \/ /\ refusal # "NONE"
           /\ Fail(refusal)
           /\ ctx' = c
        \/ /\ refusal = "NONE"
           /\ CollectAnswer(StreamProcessing(c))
        \/ /\ refusal = "NONE"
           /\ \E t \in Txs : CollectAnswer(StreamFinished(c, t))
        \/ /\ refusal = "NONE"          \* TX_STREAM_FAULT
           /\ Fail("ERR_INVALID_DATA")
           /\ ctx' = c

-----------------------------------------------------------------------------
(* Sign Transaction: the last block *)

\* Fields are formatted when they are about to be shown; the exception that a
\* field which does not fit raises.
SignStepThrows(c) ==
    CASE Build = "BAGL" /\ c.uiStep = "TX_AMOUNT"    -> c.tx.fmt = "amount"
      [] Build = "BAGL" /\ c.uiStep = "TX_FEE"       -> c.tx.fmt = "fee"
      [] Build = "NBGL" /\ c.uiStep = "TX_RECIPIENT" -> c.tx.fmt # "ok"
      [] c.uiStep = "TX_RESPOND"                     -> ~c.responseReady
      [] OTHER                                       -> FALSE

SignScreens ==
    IF Build = "BAGL"
    THEN {"TX_RECIPIENT", "TX_SENDER", "TX_AMOUNT", "TX_FEE", "TX_CONTRACT_CALL", "TX_CONFIRM"}
    ELSE {"TX_RECIPIENT"}

SignStepAsserts(c, k) ==
    IF c.uiStep \in SignScreens THEN ~UiAllowed(k) ELSE c.uiStep # "TX_RESPOND"

\* A BAGL screen of the review and the step its confirmation leads to.
ReviewScreen(step, what, next, c, k) ==
    /\ Build = "BAGL"
    /\ c.uiStep = step
    /\ ui_displayPaginatedText({Item(what, c)}, "runSignTransactionUIStep", k)
    /\ ctx' = [c EXCEPT !.uiStep = next]

\* Mutant: the contract alert is skipped.
MutAfterFee(c) == "TX_CONFIRM"

AfterFee(c) == IF c.tx.call THEN "TX_CONTRACT_CALL" ELSE "TX_CONFIRM"

SignRecipient(c, k) == ReviewScreen("TX_RECIPIENT", "recipient", "TX_SENDER", c, k)
SignSender(c, k)    == ReviewScreen("TX_SENDER", "sender", "TX_AMOUNT", c, k)
SignAmount(c, k)    == ReviewScreen("TX_AMOUNT", "amount", "TX_FEE", c, k)
SignFee(c, k)       == ReviewScreen("TX_FEE", "fee", AfterFee(c), c, k)
SignContract(c, k)  == ReviewScreen("TX_CONTRACT_CALL", "contract", "TX_CONFIRM", c, k)

SignConfirm(c, k) ==
    /\ Build = "BAGL"
    /\ c.uiStep = "TX_CONFIRM"
    /\ ui_displayPrompt({Item("confirm", c)}, "runSignTransactionUIStep", k)
    /\ ctx' = [c EXCEPT !.uiStep = "TX_RESPOND"]

\* NBGL shows the whole transaction, and the question, on the pages of one review.
ReviewText(c) ==
    {Item(what, c) : what \in {"recipient", "sender", "amount", "fee", "confirm"}}
        \cup (IF c.tx.call THEN {Item("contract", c)} ELSE {})

SignReview(c, k) ==
    /\ Build = "NBGL"
    /\ c.uiStep = "TX_RECIPIENT"
    /\ ui_reviewDisplay(ReviewText(c), "runSignTransactionUIStep", c.tx.call, k)
    /\ ctx' = [c EXCEPT !.uiStep = "TX_RESPOND"]

SignRespond(c, k) ==
    /\ c.uiStep = "TX_RESPOND"
    /\ io_send_buf(Answer("signature", c))
    /\ FinishInstruction(k)
    /\ ctx' = [c EXCEPT !.stage = "DONE", !.uiStep = "TX_INVALID"]

SignStep(c, k) ==
    \/ SignRecipient(c, k)
    \/ SignSender(c, k)
    \/ SignAmount(c, k)
    \/ SignFee(c, k)
    \/ SignContract(c, k)
    \/ SignConfirm(c, k)
    \/ SignReview(c, k)
    \/ SignRespond(c, k)

runSignTransactionUIStep(c, k) ==
    \/ /\ c.stage # "FINALIZE"
       /\ Throw("ERR_INVALID_STATE", k)
       /\ ctx' = c
    \/ /\ c.stage = "FINALIZE"
       /\ SignStepThrows(c)
       /\ Throw("ERR_INVALID_DATA", k)
       /\ ctx' = c
    \/ /\ c.stage = "FINALIZE"
       /\ ~SignStepThrows(c)
       /\ SignStepAsserts(c, k)
       /\ Crash("asserted")
       /\ ctx' = c
    \/ /\ c.stage = "FINALIZE"
       /\ ~SignStepThrows(c)
       /\ ~SignStepAsserts(c, k)
       /\ SignStep(c, k)

SignFinalizeRefusal(c, p2, wire) ==
    IF c.stage # "FINALIZE" THEN "ERR_INVALID_STATE"
    ELSE IF p2 # 0 THEN "ERR_INVALID_PARAMETERS"
    ELSE IF wire.size # 0 THEN "ERR_INVALID_DATA"
    ELSE IF ~c.tx.ours THEN "ERR_INVALID_DATA"
    ELSE "NONE"

\* Mutant: the digest is taken after the sender's address was derived.
MutSignDigest(c) ==
    [c EXCEPT !.signature = OtherData, !.sha3 = OtherData, !.responseReady = TRUE,
              !.uiStep = "TX_RECIPIENT"]

\* The digest is taken from the SHA3 state first; txGetSignature then derives the
\* sender's address with the same state, and signs the digest.
SignDigest(c) ==
    [c EXCEPT !.signature = c.sha3, !.sha3 = OtherData, !.responseReady = TRUE,
              !.uiStep = "TX_RECIPIENT"]

FinalizeCall == [HandlerCall(SIGN_TX) EXCEPT !.io = "UI"]

handleSignTxFinalize(c, p2, wire) ==
    LET refusal == SignFinalizeRefusal(c, p2, wire)
    IN  \/ /\ refusal # "NONE"
           /\ Fail(refusal)
           /\ ctx' = c
        \/ /\ refusal = "NONE"
           /\ ~KeyDerivable(c.path)
           /\ Crash("asserted")
           /\ ctx' = c
        \/ /\ refusal = "NONE"
           /\ KeyDerivable(c.path)
           /\ runSignTransactionUIStep(SignDigest(c), FinalizeCall)

handleSignTransaction(c, p1, p2, wire) ==
    \/ p1 = P1_NEW_TRANSACTION /\ handleSignTxInit(c, p2, wire)
    \/ p1 = P1_STREAM_DATA /\ handleSignTxCollect(c, p2, wire)
    \/ p1 = P1_GET_SIGNATURE /\ handleSignTxFinalize(c, p2, wire)
    \/ /\ p1 \notin {P1_NEW_TRANSACTION, P1_STREAM_DATA, P1_GET_SIGNATURE}
       /\ Fail("ERR_INVALID_PARAMETERS")
       /\ ctx' = c

-----------------------------------------------------------------------------
(* Get Version *)

VersionRefusal(p1, p2, wire) ==
    IF p1 # 0 \/ p2 # 0 THEN "ERR_INVALID_PARAMETERS"
    ELSE IF wire.size # 0 THEN "ERR_INVALID_DATA"
    ELSE "NONE"

handleGetVersion(c, p1, p2, wire) ==
    LET refusal == VersionRefusal(p1, p2, wire)
    IN  /\ ctx' = c
        /\ \/ /\ refusal # "NONE"
              /\ Fail(refusal)
           \/ /\ refusal = "NONE"
              /\ io_send_buf(Answer("version", c))
              /\ ui_idle
              /\ UNCHANGED <<mode, locked, display>>

-----------------------------------------------------------------------------
(* The main loop: one action per way a request can go *)

\* A request whose payload is longer or shorter than the path it announces is
\* one byte off; a request without payload has size 0.
Wires ==
    {Wire(0, <<>>)}
        \cup {Wire(ExactSize(p) + d, p) : p \in Paths, d \in {-1, 0, 1}}

P1s == {P1_NEW_TRANSACTION, P1_RETURN_ADDRESS, P1_DISPLAY_ADDRESS, P1_GET_SIGNATURE}
P2s == {0, 1}

Running == mode = "running"

\* A request arrives while the application waits for the user.
RefuseUnexpected ==
    /\ Running
    /\ io_state # "IO"
    /\ Fail("ERR_INVALID_STATE")
    /\ seen' = {}
    /\ UNCHANGED ctx

\* The device is locked, or the header is malformed.
RefuseHeader ==
    /\ Running
    /\ io_state = "IO"
    /\ \E e \in IF locked THEN {"ERR_DEVICE_LOCKED"}
                ELSE {"ERR_BAD_REQUEST_HEADER", "ERR_UNKNOWN_CLA", "ERR_UNKNOWN_INS"} :
           Fail(e)
    /\ seen' = {}
    /\ UNCHANGED ctx

\* Another instruction is in progress.
RefuseOtherInstruction ==
    /\ Running
    /\ io_state = "IO"
    /\ ~locked
    /\ currentIns # "NONE"
    /\ \E ins \in Instructions \ {currentIns} : Fail("ERR_INVALID_STATE")
    /\ seen' = {}
    /\ UNCHANGED ctx

\* The main loop passes a request for ins to its handler, which works on c: the
\* cleared context if this starts a new instruction.
Dispatch(ins) ==
    /\ Running
    /\ io_state = "IO"
    /\ ~locked
    /\ currentIns \in {"NONE", ins}

HandlerContext == IF currentIns = "NONE" THEN ClearedContext ELSE ctx

GetVersion ==
    /\ Dispatch(VERSION)
    /\ \E p1 \in P1s, p2 \in P2s, wire \in Wires :
           handleGetVersion(HandlerContext, p1, p2, wire)
    /\ seen' = {}

GetPublicKey ==
    /\ Dispatch(GET_KEY)
    /\ \E p1 \in P1s, p2 \in P2s, wire \in Wires :
           handleGetPublicKey(HandlerContext, p1, p2, wire)
    /\ seen' = {}

GetAddress ==
    /\ Dispatch(GET_ADDR)
    /\ \E p1 \in P1s, p2 \in P2s, wire \in Wires :
           handleGetAddress(HandlerContext, p1, p2, wire)
    /\ seen' = {}

\* What the user acknowledged of the start of a transaction counts until its end;
\* a request for the signature asks for the review anew.
SignTransaction ==
    /\ Dispatch(SIGN_TX)
    /\ \E p1 \in P1s, p2 \in P2s, wire \in Wires :
           handleSignTransaction(HandlerContext, p1, p2, wire)
    /\ seen' = IF currentIns = "NONE" THEN {} ELSE {i \in seen : i.tx = NoTx}

-----------------------------------------------------------------------------
(* The user *)

\* The device shows its own screen while it is locked.
UserActs == Running /\ ~locked

RunCallback(fn, k) ==
    \/ fn = "runGetPublicKeyUIStep" /\ runGetPublicKeyUIStep(ctx, k)
    \/ fn = "runGetAddressUIStep" /\ runGetAddressUIStep(ctx, k)
    \/ fn = "runSignTransactionInitUIStep" /\ runSignTransactionInitUIStep(ctx, k)
    \/ fn = "runSignTransactionUIStep" /\ runSignTransactionUIStep(ctx, k)

\* The guard a BAGL flow expects to find in displayState.
FlowGuard == IF screen = "text" THEN "PAGINATED_TEXT" ELSE "PROMPT"

GuardFails ==
    /\ display.guard # FlowGuard
    /\ Crash("asserted")
    /\ UNCHANGED <<ctx, seen>>

\* Both buttons on a text, or on the question of a prompt.  A callback that is
\* not there, or has run, is ignored.
ButtonConfirm ==
    /\ Build = "BAGL"
    /\ UserActs
    /\ screen \in {"text", "prompt"}
    /\ \/ GuardFails
       \/ /\ display.guard = FlowGuard
          /\ display.state = "NOT_RUN"
          /\ RunCallback(display.confirm, CallbackCall)
          /\ seen' = seen \cup display.text

ButtonReject ==
    /\ Build = "BAGL"
    /\ UserActs
    /\ screen = "prompt"
    /\ \/ GuardFails
       \/ /\ display.guard = FlowGuard
          /\ display.state = "NOT_RUN"
          /\ display.reject = "ui_respondWithUserReject"
          /\ ui_respondWithUserReject(CallbackCall)
          /\ UNCHANGED <<ctx, seen>>

\* NBGL: the page is replaced by the next page of the same use case.
TurnPage(to) ==
    /\ screen' = to
    /\ sent' = NoReply
    /\ UNCHANGED <<mode, locked, io_state, currentIns, ctx, modal, display>>

TouchConfirm ==
    /\ Build = "NBGL"
    /\ UserActs
    /\ ~modal
    /\ seen' = seen \cup PageText
    /\ \/ /\ screen \in {"warning", "reviewStart", "review", "verifyAddress", "exportKey"}
          /\ RunCallback(display.confirm, CallbackCall)
       \/ screen = "verifyStart" /\ TurnPage("verifyAddress")
       \/ screen = "contractWarning" /\ TurnPage("review")

\* rejectAndDisplayIdleMenu
RejectAndDisplayIdleMenu ==
    /\ ui_respondWithUserReject(CallbackCall)
    /\ UNCHANGED <<ctx, seen>>

\* Pages that ask "Reject transaction?" before they give up.
AsksTwice == {"reviewStart", "review"}

TouchReject ==
    /\ Build = "NBGL"
    /\ UserActs
    /\ ~modal
    /\ screen \in {"warning", "contractWarning", "verifyStart", "verifyAddress", "exportKey"}
    /\ RejectAndDisplayIdleMenu

SetModal(open) ==
    /\ modal' = open
    /\ sent' = NoReply
    /\ UNCHANGED <<mode, locked, io_state, currentIns, ctx, screen, display, seen>>

TouchRejectReview ==
    /\ Build = "NBGL"
    /\ UserActs
    /\ ~modal
    /\ screen \in AsksTwice
    /\ SetModal(TRUE)

TouchGoBack ==
    /\ Build = "NBGL"
    /\ UserActs
    /\ modal
    /\ SetModal(FALSE)

TouchRejectForGood ==
    /\ Build = "NBGL"
    /\ UserActs
    /\ modal
    /\ RejectAndDisplayIdleMenu

\* Mutant: the status page stays.
MutReturnHome ==
    /\ Build = "NBGL"
    /\ UserActs
    /\ screen = "idle"
    /\ ui_idle
    /\ sent' = NoReply
    /\ UNCHANGED <<mode, locked, io_state, ctx, display, seen>>

\* The status page is touched or times out; or the user leaves the information
\* page of the NBGL home screen.  Both call ui_idle.
ReturnHome ==
    /\ Build = "NBGL"
    /\ UserActs
    /\ screen \in {"status", "idle"}
    /\ ui_idle
    /\ sent' = NoReply
    /\ UNCHANGED <<mode, locked, io_state, ctx, display, seen>>

Quit ==
    /\ UserActs
    /\ screen = "idle"
    /\ Crash("exited")
    /\ UNCHANGED <<ctx, seen>>

-----------------------------------------------------------------------------
(* The device *)

Lock ==
    /\ Running
    /\ ~locked
    /\ locked' = TRUE
    /\ sent' = NoReply
    /\ UNCHANGED <<mode, io_state, currentIns, ctx, screen, modal, display, seen>>

Unlock ==
    /\ Running
    /\ locked
    /\ locked' = FALSE
    /\ sent' = NoReply
    /\ UNCHANGED <<mode, io_state, currentIns, ctx, screen, modal, display, seen>>

\* USB power is lost (io_event), or an empty request arrives: EXCEPTION_IO_RESET
\* reaches main, which starts the main loop again; memory keeps its contents.
IoReset ==
    /\ Running
    /\ ui_idle
    /\ io_state' = "IO"
    /\ sent' = NoReply
    /\ UNCHANGED <<mode, locked, ctx, display, seen>>

\* main, entered after a reset or from the dashboard.
Boot ==
    /\ mode' = "running"
    /\ locked' = FALSE
    /\ ui_idle
    /\ io_state' = "IO"
    /\ ctx' = ClearedContext
    /\ display' = ClearedDisplay
    /\ sent' = NoReply
    /\ seen' = {}

Restart == ~Running /\ Boot

Init ==
    /\ mode = "running"
    /\ locked = FALSE
    /\ currentIns = "NONE"
    /\ screen = "idle"
    /\ modal = FALSE
    /\ io_state = "IO"
    /\ ctx = ClearedContext
    /\ display = ClearedDisplay
    /\ sent = NoReply
    /\ seen = {}

Host ==
    RefuseUnexpected \/ RefuseHeader \/ RefuseOtherInstruction
        \/ GetVersion \/ GetPublicKey \/ GetAddress \/ SignTransaction

User ==
    ButtonConfirm \/ ButtonReject \/ TouchConfirm \/ TouchReject \/ TouchRejectReview
        \/ TouchGoBack \/ TouchRejectForGood \/ ReturnHome \/ Quit

Device == Lock \/ Unlock \/ IoReset \/ Restart

Next == Host \/ User \/ Device

Spec == Init /\ [][Next]_vars
============================================================================
