---------------------------- MODULE FantomProofs ----------------------------
(***************************************************************************)
(* For every build, every set of paths and every set of transactions: the  *)
(* application's types, and that an error ends the instruction in          *)
(* progress.  Both are proved with one invariant, because both say how a   *)
(* step may end; everything but ctx and seen is left to the operators of   *)
(* FantomState and FantomUi, so each of those has a lemma of its own.      *)
(***************************************************************************)
EXTENDS FantomCorrectness, TLAPS

IoStates == {"IO", "UI", "NONE"}
Modes    == {"running", "asserted", "crashed", "exited"}
InsType  == Instructions \cup {"NONE"}
Screens  == IF Build = "BAGL" THEN BaglScreens ELSE NbglScreens

\* The calls a piece of code runs in.
Calls == [io : IoStates, ins : InsType, display : Display, callback : BOOLEAN]

\* How a step may end, but for ctx and seen.
Ended ==
    /\ mode \in Modes
    /\ locked \in BOOLEAN
    /\ io_state \in IoStates
    /\ currentIns \in InsType
    /\ screen \in Screens
    /\ modal \in BOOLEAN
    /\ display \in Display
    /\ sent \in Replies
    /\ sent.code \in Errors =>
           \/ currentIns = "NONE"
           \/ Build = "NBGL" /\ sent.code = "ERR_REJECTED_BY_USER"

FantomInv == Ended /\ ctx \in Context /\ seen \subseteq Items

-----------------------------------------------------------------------------
(* Values *)

LEMMA ClearedIsContext == ClearedContext \in Context
<1>1. <<>> \in StoredPaths
  BY DEF StoredPaths
<1>2. NoTx \in Hashed
  BY DEF Hashed
<1>3. QED
  BY <1>1, <1>2 DEF ClearedContext, Context, Stages, UiSteps

LEMMA ClearedIsDisplay == ClearedDisplay \in Display
  BY DEF ClearedDisplay, Display

LEMMA ItemsAreTyped ==
    ASSUME NEW c \in Context, NEW what \in Subjects
    PROVE  Item(what, c) \in Items
  BY DEF Item, Items, Context

LEMMA RepliesAreTyped ==
    ASSUME NEW c \in Context, NEW code \in Errors \cup {SUCCESS, "NONE"}, NEW kind \in Kinds
    PROVE  Reply(code, kind, c) \in Replies /\ Reply(code, kind, c).code = code
  BY DEF Reply, Replies, Context

\* A path that a handler stores fits its container.
LEMMA ParsedIsStored ==
    ASSUME NEW wire \in Wires, ParsesFromWire(wire)
    PROVE  wire.path \in StoredPaths
<1>1. wire.announced <= BIP32_MAX_PATH_LENGTH
  BY DEF ParsesFromWire
<1>2. CASE wire = Wire(0, <<>>)
  BY <1>2 DEF Wire, StoredPaths
<1>3. ASSUME NEW p \in Paths, NEW d \in {-1, 0, 1}, wire = Wire(ExactSize(p) + d, p)
      PROVE  wire.path \in StoredPaths
  <2>1. wire.path = p /\ wire.announced = Len(p)
    BY <1>3 DEF Wire
  <2>2. QED
    BY <1>1, <2>1 DEF StoredPaths
<1>4. QED
  BY <1>2, <1>3 DEF Wires

-----------------------------------------------------------------------------
(* Calls *)

LEMMA HandlerCallIsCall ==
    ASSUME Ended, NEW ins \in Instructions
    PROVE  HandlerCall(ins) \in Calls
  BY DEF Ended, HandlerCall, Calls, IoStates, InsType

LEMMA FinalizeCallIsCall ==
    ASSUME Ended
    PROVE  FinalizeCall \in Calls
  BY DEF Ended, HandlerCall, FinalizeCall, Calls, IoStates, InsType, Instructions

LEMMA CallbackCallIsCall ==
    ASSUME Ended
    PROVE  CallbackCall \in Calls
<1>1. [display EXCEPT !.state = "RUN"] \in Display
  BY DEF Ended, Display
<1>2. QED
  BY <1>1 DEF Ended, CallbackCall, Calls

-----------------------------------------------------------------------------
(* How a piece of code ends *)

LEMMA FailEnds ==
    ASSUME Ended, NEW e \in Errors, Fail(e)
    PROVE  Ended'
<1>1. Error(e) \in Replies
  BY ClearedIsContext, RepliesAreTyped DEF Error, Kinds
<1>2. QED
  BY <1>1 DEF Ended, Fail, io_send_buf, ui_idle, IoStates, InsType, Screens, BaglScreens,
     NbglScreens

LEMMA NoReplyIsTyped == NoReply \in Replies /\ NoReply.code \notin Errors
<1>1. NoReply \in Replies /\ NoReply.code = "NONE"
  BY ClearedIsContext, RepliesAreTyped DEF NoReply, Kinds
<1>2. QED
  BY <1>1 DEF Errors

LEMMA CrashEnds ==
    ASSUME Ended, NEW why \in Modes, Crash(why)
    PROVE  Ended'
  BY NoReplyIsTyped DEF Ended, Crash

LEMMA ThrowEnds ==
    ASSUME Ended, NEW e \in Errors, NEW k, Throw(e, k)
    PROVE  Ended'
  BY FailEnds, CrashEnds DEF Throw, Modes

-----------------------------------------------------------------------------
(* Screens *)

LEMMA OpenScreenEnds ==
    ASSUME Ended, NEW k \in Calls, NEW name \in Screens, OpenScreen(name, k),
           display' \in Display, io_state' \in IoStates
    PROVE  Ended'
  BY NoReplyIsTyped DEF Ended, OpenScreen, Calls, Screens

LEMMA DisplayStateIsDisplay ==
    ASSUME NEW guard \in {"PAGINATED_TEXT", "PROMPT"}, NEW confirm \in ConfirmCallbacks,
           NEW reject \in {"ui_respondWithUserReject", "NULL"}, NEW text \in SUBSET Items
    PROVE  DisplayState(guard, CallbackInit(confirm, reject), text) \in Display
  BY DEF DisplayState, CallbackInit, Display

LEMMA PaginatedTextEnds ==
    ASSUME Ended, Build = "BAGL", NEW k \in Calls, NEW text \in SUBSET Items,
           NEW callback \in ConfirmCallbacks, ui_displayPaginatedText(text, callback, k)
    PROVE  Ended'
<1>1. display' \in Display
  BY DisplayStateIsDisplay DEF ui_displayPaginatedText
<1>2. "text" \in Screens
  BY DEF Screens, BaglScreens
<1>3. QED
  BY <1>1, <1>2, OpenScreenEnds DEF ui_displayPaginatedText, IoStates

LEMMA PromptEnds ==
    ASSUME Ended, Build = "BAGL", NEW k \in Calls, NEW text \in SUBSET Items,
           NEW callback \in ConfirmCallbacks, ui_displayPrompt(text, callback, k)
    PROVE  Ended'
<1>1. display' \in Display
  BY DisplayStateIsDisplay DEF ui_displayPrompt
<1>2. "prompt" \in Screens
  BY DEF Screens, BaglScreens
<1>3. QED
  BY <1>1, <1>2, OpenScreenEnds DEF ui_displayPrompt, IoStates

LEMMA NbglPageEnds ==
    ASSUME Ended, Build = "NBGL", NEW k \in Calls, NEW name \in NbglScreens,
           NEW text \in SUBSET Items, NEW confirm \in ConfirmCallbacks,
           NbglPage(name, text, confirm, k)
    PROVE  Ended'
<1>1. k.display \in Display /\ k.io \in IoStates
  BY DEF Calls
<1>2. display' \in Display
  BY <1>1 DEF NbglPage, Display
<1>3. name \in Screens
  BY DEF Screens
<1>4. QED
  BY <1>1, <1>2, <1>3, OpenScreenEnds DEF NbglPage

\* The last step of an instruction, after a response.
LEMMA FinishEnds ==
    ASSUME Ended, NEW k \in Calls, NEW reply \in Replies, io_send_buf(reply),
           FinishInstruction(k),
           reply.code \in Errors => reply.code = "ERR_REJECTED_BY_USER"
    PROVE  Ended'
<1>1. /\ mode' \in Modes /\ locked' \in BOOLEAN /\ display' \in Display
      /\ io_state' \in IoStates /\ sent' = reply
  BY DEF Ended, FinishInstruction, io_send_buf, Calls, IoStates
<1>2. CASE Build = "BAGL"
  BY <1>1, <1>2 DEF Ended, FinishInstruction, ui_idle, InsType, Screens, BaglScreens
<1>3. CASE Build # "BAGL"
  <2>1. Build = "NBGL"
    BY <1>3, BuildAssumption
  <2>2. currentIns' \in InsType /\ modal' \in BOOLEAN /\ screen' \in Screens
    BY <2>1 DEF Ended, FinishInstruction, Calls, Screens, NbglScreens
  <2>3. QED
    BY <1>1, <2>1, <2>2 DEF Ended
<1>4. QED
  BY <1>2, <1>3

LEMMA BusyEnds ==
    ASSUME Ended, NEW k \in Calls, NEW reply \in Replies, io_send_buf(reply),
           ui_displayBusy(k), reply.code \notin Errors
    PROVE  Ended'
<1>1. display' \in Display
  <2>1. k.display \in Display
    BY DEF Calls
  <2>2. [k.display EXCEPT !.text = {}] \in Display
    BY <2>1 DEF Display
  <2>3. QED
    BY <2>2, ClearedIsDisplay DEF ui_displayBusy
<1>2. /\ screen' \in Screens /\ currentIns' \in InsType /\ modal' \in BOOLEAN
  BY DEF ui_displayBusy, Screens, BaglScreens, NbglScreens, Calls
<1>3. QED
  BY <1>1, <1>2 DEF Ended, ui_displayBusy, io_send_buf, IoStates

LEMMA UserRejectEnds ==
    ASSUME Ended, NEW k \in Calls, ui_respondWithUserReject(k)
    PROVE  Ended'
<1>1. /\ Error("ERR_REJECTED_BY_USER") \in Replies
      /\ Error("ERR_REJECTED_BY_USER").code = "ERR_REJECTED_BY_USER"
  <2>1. "ERR_REJECTED_BY_USER" \in Errors
    BY DEF Errors
  <2>2. QED
    BY <2>1, ClearedIsContext, RepliesAreTyped DEF Error, Kinds
<1>2. QED
  BY <1>1, FinishEnds DEF ui_respondWithUserReject

-----------------------------------------------------------------------------
(* Get Public Key *)

\* A response that is no error.
LEMMA AnswersAreTyped ==
    ASSUME NEW c \in Context, NEW kind \in Kinds
    PROVE  Answer(kind, c) \in Replies /\ Answer(kind, c).code \notin Errors
<1>1. Answer(kind, c) \in Replies /\ Answer(kind, c).code = SUCCESS
  BY RepliesAreTyped DEF Answer
<1>2. QED
  BY <1>1 DEF SUCCESS, Errors

LEMMA PublicKeyStepEnds ==
    ASSUME Ended, NEW c \in Context, NEW k \in Calls, runGetPublicKeyUIStep(c, k)
    PROVE  Ended' /\ ctx' \in Context
<1>1. CASE Crash("asserted") /\ ctx' = c
  BY <1>1, CrashEnds DEF Modes
<1>2. "runGetPublicKeyUIStep" \in ConfirmCallbacks
  BY DEF ConfirmCallbacks
<1>3. /\ {Item("warning", c)} \in SUBSET Items
      /\ {Item("path", c)} \in SUBSET Items
      /\ {Item("export", c)} \in SUBSET Items
      /\ {ExportPath(c), Item("export", c)} \in SUBSET Items
  BY ItemsAreTyped DEF Subjects, ExportPath
<1>4. \A step \in UiSteps : [c EXCEPT !.uiStep = step] \in Context
  BY DEF Context
<1>5. CASE PublicKeyWarning(c, k)
  <2>1. ctx' \in Context
    BY <1>4, <1>5 DEF PublicKeyWarning, UiSteps
  <2>2. QED
    BY <1>2, <1>3, <1>5, <2>1, PaginatedTextEnds, NbglPageEnds, BuildAssumption
    DEF PublicKeyWarning, ui_displayWarning, NbglScreens
<1>6. CASE PublicKeyPath(c, k)
  <2>1. ctx' \in Context
    BY <1>4, <1>6 DEF PublicKeyPath, UiSteps
  <2>2. QED
    BY <1>2, <1>3, <1>6, <2>1, PaginatedTextEnds, NbglPageEnds, BuildAssumption
    DEF PublicKeyPath, ui_exportKeyConfirm, NbglScreens
<1>7. CASE PublicKeyConfirm(c, k) /\ ~PublicKeyStepAsserts(c, k)
  <2>1. ctx' \in Context
    BY <1>4, <1>7 DEF PublicKeyConfirm, UiSteps
  <2>2. Build = "BAGL"
    BY <1>7, BuildAssumption DEF PublicKeyConfirm, PublicKeyStepAsserts
  <2>3. QED
    BY <1>2, <1>3, <1>7, <2>1, <2>2, PromptEnds DEF PublicKeyConfirm
<1>8. CASE PublicKeyRespond(c, k)
  <2>1. ctx' \in Context
    BY <1>4, <1>8 DEF PublicKeyRespond, UiSteps
  <2>2. QED
    BY <1>8, <2>1, AnswersAreTyped, FinishEnds DEF PublicKeyRespond, Kinds
<1>9. QED
  BY <1>1, <1>5, <1>6, <1>7, <1>8 DEF runGetPublicKeyUIStep

LEMMA RefusalsAreErrors ==
    /\ {"ERR_INVALID_PARAMETERS", "ERR_INVALID_DATA", "ERR_INVALID_STATE",
        "ERR_REJECTED_BY_POLICY", "ERR_DEVICE_LOCKED", "ERR_BAD_REQUEST_HEADER",
        "ERR_UNKNOWN_CLA", "ERR_UNKNOWN_INS"} \subseteq Errors
  BY DEF Errors

\* The stored path, and the first step, of a request that is accepted.
LEMMA PublicKeyHandlerEnds ==
    ASSUME Ended, NEW c \in Context, NEW p1, NEW p2, NEW wire \in Wires,
           handleGetPublicKey(c, p1, p2, wire)
    PROVE  Ended' /\ ctx' \in Context
<1> DEFINE refusal == PublicKeyRefusal(p1, p2, wire)
           ready   == [c EXCEPT !.responseReady = TRUE, !.path = wire.path,
                                !.uiStep = PublicKeyFirstStep(wire.path)]
<1>1. CASE refusal # "NONE" /\ Fail(refusal) /\ ctx' = c
  <2>1. refusal \in Errors
    BY <1>1, RefusalsAreErrors DEF PublicKeyRefusal
  <2>2. QED
    BY <1>1, <2>1, FailEnds
<1>2. refusal = "NONE" => wire.path \in StoredPaths
  BY ParsedIsStored DEF PublicKeyRefusal
<1>3. CASE /\ refusal = "NONE"
           /\ Crash("asserted")
           /\ ctx' = [c EXCEPT !.responseReady = FALSE, !.path = wire.path]
  <2>1. ctx' \in Context
    BY <1>2, <1>3 DEF Context
  <2>2. QED
    BY <1>3, <2>1, CrashEnds DEF Modes
<1>4. CASE refusal = "NONE" /\ runGetPublicKeyUIStep(ready, HandlerCall(GET_KEY))
  <2>1. PublicKeyFirstStep(wire.path) \in UiSteps
    BY DEF PublicKeyFirstStep, UiSteps
  <2>2. ready \in Context
    BY <1>2, <1>4, <2>1 DEF Context
  <2>3. HandlerCall(GET_KEY) \in Calls
    BY HandlerCallIsCall DEF Instructions
  <2> HIDE DEF ready
  <2>4. QED
    BY <1>4, <2>2, <2>3, PublicKeyStepEnds
<1>5. QED
  BY <1>1, <1>3, <1>4, Zenon DEF handleGetPublicKey

-----------------------------------------------------------------------------
(* Get Address *)

LEMMA AddressStepEnds ==
    ASSUME Ended, NEW c \in Context, NEW k \in Calls, runGetAddressUIStep(c, k)
    PROVE  Ended' /\ ctx' \in Context
<1>1. CASE Crash("asserted") /\ ctx' = c
  BY <1>1, CrashEnds DEF Modes
<1>2. "runGetAddressUIStep" \in ConfirmCallbacks
  BY DEF ConfirmCallbacks
<1>3. /\ {Item("warning", c)} \in SUBSET Items
      /\ {Item("path", c)} \in SUBSET Items
      /\ {Item("address", c)} \in SUBSET Items
      /\ {Item("export", c)} \in SUBSET Items
      /\ VerifyText(c) \in SUBSET Items
  BY ItemsAreTyped DEF Subjects, VerifyText
<1>4. \A step \in UiSteps : [c EXCEPT !.uiStep = step] \in Context
  BY DEF Context
<1>5. CASE AddressWarning(c, k)
  <2>1. [c EXCEPT !.isShowPath = TRUE, !.uiStep = "CONFIRM"] \in Context
    BY DEF Context, UiSteps
  <2>2. ctx' \in Context
    BY <1>4, <1>5, <2>1 DEF AddressWarning, UiSteps
  <2>3. QED
    BY <1>2, <1>3, <1>5, <2>2, PaginatedTextEnds, NbglPageEnds, BuildAssumption
    DEF AddressWarning, ui_displayWarning, NbglScreens
<1>6. CASE AddressPath(c, k) /\ ~AddressStepAsserts(c, k)
  <2>1. ctx' \in Context
    BY <1>4, <1>6 DEF AddressPath, UiSteps
  <2>2. Build = "BAGL"
    BY <1>6, BuildAssumption DEF AddressPath, AddressStepAsserts
  <2>3. QED
    BY <1>2, <1>3, <1>6, <2>1, <2>2, PaginatedTextEnds DEF AddressPath
<1>7. CASE AddressShow(c, k) /\ ~AddressStepAsserts(c, k)
  <2>1. ctx' \in Context
    BY <1>4, <1>7 DEF AddressShow, UiSteps
  <2>2. Build = "BAGL"
    BY <1>7, BuildAssumption DEF AddressShow, AddressStepAsserts
  <2>3. QED
    BY <1>2, <1>3, <1>7, <2>1, <2>2, PaginatedTextEnds DEF AddressShow
<1>8. CASE AddressConfirm(c, k)
  <2>1. ctx' \in Context
    BY <1>4, <1>8 DEF AddressConfirm, UiSteps
  <2>2. QED
    BY <1>2, <1>3, <1>8, <2>1, PromptEnds, NbglPageEnds, BuildAssumption
    DEF AddressConfirm, ui_verifyAddress, NbglScreens
<1>9. CASE AddressRespond(c, k)
  <2>1. ctx' \in Context
    BY <1>4, <1>9 DEF AddressRespond, UiSteps
  <2>2. QED
    BY <1>9, <2>1, AnswersAreTyped, FinishEnds DEF AddressRespond, Kinds
<1>10. QED
  BY <1>1, <1>5, <1>6, <1>7, <1>8, <1>9 DEF runGetAddressUIStep

LEMMA AddressHandlerEnds ==
    ASSUME Ended, NEW c \in Context, NEW p1, NEW p2, NEW wire \in Wires,
           handleGetAddress(c, p1, p2, wire)
    PROVE  Ended' /\ ctx' \in Context
<1> DEFINE refusal == AddressRefusal(p1, p2, wire)
           show    == p1 = P1_DISPLAY_ADDRESS
           asked   == [c EXCEPT !.responseReady = FALSE, !.path = wire.path,
                                !.isShowAddress = show]
           ready   == [asked EXCEPT !.responseReady = TRUE, !.sha3 = OtherData,
                                    !.uiStep = AddressFirstStep(wire.path, show)]
<1>1. CASE refusal # "NONE" /\ Fail(refusal) /\ ctx' = c
  <2>1. refusal \in Errors
    BY <1>1, RefusalsAreErrors DEF AddressRefusal
  <2>2. QED
    BY <1>1, <2>1, FailEnds
<1>2. refusal = "NONE" => asked \in Context
  <2>1. refusal = "NONE" => wire.path \in StoredPaths
    BY ParsedIsStored DEF AddressRefusal
  <2>2. show \in BOOLEAN
    OBVIOUS
  <2> HIDE DEF show
  <2>3. QED
    BY <2>1, <2>2 DEF Context
<1>3. CASE refusal = "NONE" /\ Crash("asserted") /\ ctx' = asked
  BY <1>2, <1>3, CrashEnds DEF Modes
<1>4. CASE refusal = "NONE" /\ runGetAddressUIStep(ready, HandlerCall(GET_ADDR))
  <2>1. AddressFirstStep(wire.path, show) \in UiSteps
    BY DEF AddressFirstStep, UiSteps
  <2>2. OtherData \in Hashed
    BY DEF Hashed
  <2>3. ready \in Context
    <3> HIDE DEF asked, show
    <3>1. QED
      BY <1>2, <1>4, <2>1, <2>2 DEF Context
  <2>4. HandlerCall(GET_ADDR) \in Calls
    BY HandlerCallIsCall DEF Instructions
  <2> HIDE DEF ready
  <2>5. QED
    BY <1>4, <2>3, <2>4, AddressStepEnds
<1>5. QED
  BY <1>1, <1>3, <1>4, Zenon DEF handleGetAddress

-----------------------------------------------------------------------------
(* Sign Transaction *)

LEMMA SignInitStepEnds ==
    ASSUME Ended, NEW c \in Context, NEW k \in Calls, runSignTransactionInitUIStep(c, k)
    PROVE  Ended' /\ ctx' \in Context
<1>1. CASE Throw("ERR_INVALID_STATE", k) /\ ctx' = c
  BY <1>1, ThrowEnds, RefusalsAreErrors
<1>2. CASE Crash("asserted") /\ ctx' = c
  BY <1>2, CrashEnds DEF Modes
<1>3. "runSignTransactionInitUIStep" \in ConfirmCallbacks
  BY DEF ConfirmCallbacks
<1>4. {Item("warning", c)} \in SUBSET Items /\ {Item("start", c)} \in SUBSET Items
  BY ItemsAreTyped DEF Subjects
<1>5. \A step \in UiSteps : [c EXCEPT !.uiStep = step] \in Context
  BY DEF Context
<1>6. CASE SignInitWarning(c, k)
  <2>1. ctx' \in Context
    BY <1>5, <1>6 DEF SignInitWarning, UiSteps
  <2>2. QED
    BY <1>3, <1>4, <1>6, <2>1, PaginatedTextEnds, NbglPageEnds, BuildAssumption
    DEF SignInitWarning, ui_displayWarning, NbglScreens
<1>7. CASE SignInitConfirm(c, k)
  <2>1. ctx' \in Context
    BY <1>5, <1>7 DEF SignInitConfirm, UiSteps
  <2>2. QED
    BY <1>3, <1>4, <1>7, <2>1, PromptEnds, NbglPageEnds, BuildAssumption
    DEF SignInitConfirm, ui_reviewStart, NbglScreens
<1>8. CASE SignInitRespond(c, k)
  <2>1. ctx' \in Context
    BY <1>8 DEF SignInitRespond, Context, UiSteps, Stages
  <2>2. QED
    BY <1>8, <2>1, AnswersAreTyped, BusyEnds DEF SignInitRespond, Kinds
<1>9. QED
  BY <1>1, <1>2, <1>6, <1>7, <1>8 DEF runSignTransactionInitUIStep

LEMMA SignInitHandlerEnds ==
    ASSUME Ended, NEW c \in Context, NEW p2, NEW wire \in Wires, handleSignTxInit(c, p2, wire)
    PROVE  Ended' /\ ctx' \in Context
<1> DEFINE refusal == SignInitRefusal(c, p2, wire)
           started == [c EXCEPT !.stage = "INIT", !.responseReady = FALSE, !.sha3 = NoTx,
                                !.path = wire.path, !.uiStep = SignInitFirstStep(wire.path)]
<1>1. CASE refusal # "NONE" /\ Fail(refusal) /\ ctx' = c
  <2>1. refusal \in Errors
    BY <1>1, RefusalsAreErrors DEF SignInitRefusal
  <2>2. QED
    BY <1>1, <2>1, FailEnds
<1>2. CASE refusal = "NONE" /\ runSignTransactionInitUIStep(started, HandlerCall(SIGN_TX))
  <2>1. wire.path \in StoredPaths
    BY <1>2, ParsedIsStored DEF SignInitRefusal
  <2>2. SignInitFirstStep(wire.path) \in UiSteps
    BY DEF SignInitFirstStep, UiSteps
  <2>3. NoTx \in Hashed /\ "INIT" \in Stages
    BY DEF Hashed, Stages
  <2>4. started \in Context
    BY <2>1, <2>2, <2>3 DEF Context
  <2>5. HandlerCall(SIGN_TX) \in Calls
    BY HandlerCallIsCall DEF Instructions
  <2> HIDE DEF started
  <2>6. QED
    BY <1>2, <2>4, <2>5, SignInitStepEnds
<1>3. QED
  BY <1>1, <1>2, Zenon DEF handleSignTxInit

LEMMA CollectHandlerEnds ==
    ASSUME Ended, NEW c \in Context, NEW p2, NEW wire \in Wires,
           handleSignTxCollect(c, p2, wire)
    PROVE  Ended' /\ ctx' \in Context
<1> DEFINE refusal == SignCollectRefusal(c, p2, wire)
<1>1. CASE refusal # "NONE" /\ Fail(refusal) /\ ctx' = c
  <2>1. refusal \in Errors
    BY <1>1, RefusalsAreErrors DEF SignCollectRefusal
  <2>2. QED
    BY <1>1, <2>1, FailEnds
<1>2. ASSUME NEW after \in Context, CollectAnswer(after)
      PROVE  Ended' /\ ctx' \in Context
  <2>1. HandlerCall(SIGN_TX) \in Calls
    BY HandlerCallIsCall DEF Instructions
  <2>2. QED
    BY <1>2, <2>1, AnswersAreTyped, BusyEnds DEF CollectAnswer, Kinds
<1>3. StreamProcessing(c) \in Context
  BY DEF StreamProcessing, Context, Hashed
<1>4. \A t \in Txs : StreamFinished(c, t) \in Context
  BY DEF StreamFinished, Context, Hashed, Stages
<1>5. CASE Fail("ERR_INVALID_DATA") /\ ctx' = c
  BY <1>5, FailEnds, RefusalsAreErrors
<1>6. QED
  BY <1>1, <1>2, <1>3, <1>4, <1>5, Zenon DEF handleSignTxCollect

\* One screen of the review, in either build.
LEMMA ReviewStepEnds ==
    ASSUME Ended, NEW c \in Context, NEW k \in Calls, SignStep(c, k)
    PROVE  Ended' /\ ctx' \in Context
<1>1. "runSignTransactionUIStep" \in ConfirmCallbacks
  BY DEF ConfirmCallbacks
<1>2. \A step \in UiSteps : [c EXCEPT !.uiStep = step] \in Context
  BY DEF Context
<1>3. \A what \in Subjects : {Item(what, c)} \in SUBSET Items
  BY ItemsAreTyped
<1>4. ReviewText(c) \in SUBSET Items
  <2>1. {"recipient", "sender", "amount", "fee", "confirm", "contract"} \subseteq Subjects
    BY DEF Subjects
  <2>2. QED
    BY <2>1, ItemsAreTyped DEF ReviewText
<1>5. ASSUME NEW step, NEW what \in Subjects, NEW next \in UiSteps,
             ReviewScreen(step, what, next, c, k)
      PROVE  Ended' /\ ctx' \in Context
  <2>1. {Item(what, c)} \in SUBSET Items
    BY <1>3
  <2>2. ctx' \in Context
    BY <1>2, <1>5 DEF ReviewScreen
  <2>3. QED
    BY <1>1, <1>5, <2>1, <2>2, PaginatedTextEnds DEF ReviewScreen
<1>6. CASE SignRecipient(c, k) \/ SignSender(c, k) \/ SignAmount(c, k) \/ SignContract(c, k)
  <2>1. {"recipient", "sender", "amount", "contract"} \subseteq Subjects
    BY DEF Subjects
  <2>2. {"TX_SENDER", "TX_AMOUNT", "TX_FEE", "TX_CONFIRM"} \subseteq UiSteps
    BY DEF UiSteps
  <2>3. QED
    BY <1>5, <1>6, <2>1, <2>2 DEF SignRecipient, SignSender, SignAmount, SignContract
<1>7. CASE SignFee(c, k)
  <2>1. "fee" \in Subjects /\ AfterFee(c) \in UiSteps
    BY DEF Subjects, AfterFee, UiSteps
  <2>2. QED
    BY <1>5, <1>7, <2>1 DEF SignFee
<1>8. CASE SignConfirm(c, k)
  <2>1. ctx' \in Context
    BY <1>2, <1>8 DEF SignConfirm, UiSteps
  <2>2. {Item("confirm", c)} \in SUBSET Items
    BY <1>3 DEF Subjects
  <2>3. QED
    BY <1>1, <1>8, <2>1, <2>2, PromptEnds DEF SignConfirm
<1>9. CASE SignReview(c, k)
  <2>1. ctx' \in Context
    BY <1>2, <1>9 DEF SignReview, UiSteps
  <2>2. QED
    BY <1>1, <1>4, <1>9, <2>1, NbglPageEnds DEF SignReview, ui_reviewDisplay, NbglScreens
<1>10. CASE SignRespond(c, k)
  <2>1. ctx' \in Context
    BY <1>10 DEF SignRespond, Context, UiSteps, Stages
  <2>2. QED
    BY <1>10, <2>1, AnswersAreTyped, FinishEnds DEF SignRespond, Kinds
<1>11. QED
  BY <1>6, <1>7, <1>8, <1>9, <1>10 DEF SignStep

LEMMA SignStepEnds ==
    ASSUME Ended, NEW c \in Context, NEW k \in Calls, runSignTransactionUIStep(c, k)
    PROVE  Ended' /\ ctx' \in Context
<1>1. CASE (Throw("ERR_INVALID_STATE", k) \/ Throw("ERR_INVALID_DATA", k)) /\ ctx' = c
  BY <1>1, ThrowEnds, RefusalsAreErrors
<1>2. CASE Crash("asserted") /\ ctx' = c
  BY <1>2, CrashEnds DEF Modes
<1>3. CASE SignStep(c, k)
  BY <1>3, ReviewStepEnds
<1>4. QED
  BY <1>1, <1>2, <1>3 DEF runSignTransactionUIStep

LEMMA FinalizeHandlerEnds ==
    ASSUME Ended, NEW c \in Context, NEW p2, NEW wire \in Wires,
           handleSignTxFinalize(c, p2, wire)
    PROVE  Ended' /\ ctx' \in Context
<1> DEFINE refusal == SignFinalizeRefusal(c, p2, wire)
<1>1. CASE refusal # "NONE" /\ Fail(refusal) /\ ctx' = c
  <2>1. refusal \in Errors
    BY <1>1, RefusalsAreErrors DEF SignFinalizeRefusal
  <2>2. QED
    BY <1>1, <2>1, FailEnds
<1>2. CASE Crash("asserted") /\ ctx' = c
  BY <1>2, CrashEnds DEF Modes
<1>3. CASE runSignTransactionUIStep(SignDigest(c), FinalizeCall)
  <2>1. SignDigest(c) \in Context
    BY DEF SignDigest, Context, Hashed, UiSteps
  <2>2. QED
    BY <1>3, <2>1, FinalizeCallIsCall, SignStepEnds
<1>4. QED
  BY <1>1, <1>2, <1>3, Zenon DEF handleSignTxFinalize

LEMMA SignHandlerEnds ==
    ASSUME Ended, NEW c \in Context, NEW p1, NEW p2, NEW wire \in Wires,
           handleSignTransaction(c, p1, p2, wire)
    PROVE  Ended' /\ ctx' \in Context
<1>1. CASE handleSignTxInit(c, p2, wire)
  BY <1>1, SignInitHandlerEnds
<1>2. CASE handleSignTxCollect(c, p2, wire)
  BY <1>2, CollectHandlerEnds
<1>3. CASE handleSignTxFinalize(c, p2, wire)
  BY <1>3, FinalizeHandlerEnds
<1>4. CASE Fail("ERR_INVALID_PARAMETERS") /\ ctx' = c
  BY <1>4, FailEnds, RefusalsAreErrors
<1>5. QED
  BY <1>1, <1>2, <1>3, <1>4, Zenon DEF handleSignTransaction

-----------------------------------------------------------------------------
(* Get Version *)

LEMMA VersionHandlerEnds ==
    ASSUME Ended, NEW c \in Context, NEW p1, NEW p2, NEW wire \in Wires,
           handleGetVersion(c, p1, p2, wire)
    PROVE  Ended' /\ ctx' \in Context
<1> DEFINE refusal == VersionRefusal(p1, p2, wire)
<1>1. CASE refusal # "NONE" /\ Fail(refusal) /\ ctx' = c
  <2>1. refusal \in Errors
    BY <1>1, RefusalsAreErrors DEF VersionRefusal
  <2>2. QED
    BY <1>1, <2>1, FailEnds
<1>2. CASE /\ io_send_buf(Answer("version", c))
           /\ ui_idle
           /\ UNCHANGED <<mode, locked, display>>
           /\ ctx' = c
  <2>1. Answer("version", c) \in Replies /\ Answer("version", c).code \notin Errors
    BY AnswersAreTyped DEF Kinds
  <2>2. QED
    BY <1>2, <2>1
    DEF Ended, io_send_buf, ui_idle, IoStates, InsType, Screens, BaglScreens, NbglScreens
<1>3. QED
  BY <1>1, <1>2, Zenon DEF handleGetVersion

-----------------------------------------------------------------------------
(* The user *)

LEMMA CallbackEnds ==
    ASSUME FantomInv, NEW fn, NEW k \in Calls, RunCallback(fn, k)
    PROVE  Ended' /\ ctx' \in Context
  BY PublicKeyStepEnds, AddressStepEnds, SignInitStepEnds, SignStepEnds
  DEF RunCallback, FantomInv

LEMMA GuardFailsEnds ==
    ASSUME FantomInv, GuardFails
    PROVE  FantomInv'
  BY CrashEnds DEF GuardFails, FantomInv, Modes

LEMMA RejectionEnds ==
    ASSUME FantomInv, ui_respondWithUserReject(CallbackCall), UNCHANGED <<ctx, seen>>
    PROVE  FantomInv'
  BY UserRejectEnds, CallbackCallIsCall DEF FantomInv

\* A step of the pages that sends nothing and runs nothing of the instruction's.
LEMMA PageStepEnds ==
    ASSUME FantomInv, sent' = NoReply, mode' \in Modes, locked' \in BOOLEAN,
           io_state' \in IoStates, currentIns' \in InsType, screen' \in Screens,
           modal' \in BOOLEAN, display' \in Display, ctx' \in Context, seen' \subseteq Items
    PROVE  FantomInv'
  BY NoReplyIsTyped DEF FantomInv, Ended

LEMMA ShownIsTyped ==
    ASSUME FantomInv
    PROVE  display.text \subseteq Items /\ PageText \subseteq Items
<1>1. display.text \subseteq Items
  BY DEF FantomInv, Ended, Display
<1>2. PageText \subseteq display.text
  BY DEF PageText
<1>3. QED
  BY <1>1, <1>2

LEMMA UserKeepsInv ==
    ASSUME FantomInv, User
    PROVE  FantomInv'
<1>1. /\ Ended /\ ctx \in Context /\ seen \subseteq Items
      /\ mode \in Modes /\ locked \in BOOLEAN /\ io_state \in IoStates
      /\ currentIns \in InsType /\ screen \in Screens /\ modal \in BOOLEAN
      /\ display \in Display
  BY DEF FantomInv, Ended
<1>2. CASE ButtonConfirm
  <2>1. CASE GuardFails
    BY <2>1, GuardFailsEnds
  <2>2. CASE RunCallback(display.confirm, CallbackCall) /\ seen' = seen \cup display.text
    BY <1>1, <2>2, CallbackEnds, CallbackCallIsCall, ShownIsTyped DEF FantomInv
  <2>3. QED
    BY <1>2, <2>1, <2>2 DEF ButtonConfirm
<1>3. CASE ButtonReject
  BY <1>3, GuardFailsEnds, RejectionEnds DEF ButtonReject
<1>4. CASE TouchConfirm
  <2>1. Build = "NBGL" /\ seen' = seen \cup PageText
    BY <1>4 DEF TouchConfirm
  <2>2. seen' \subseteq Items
    BY <1>1, <2>1, ShownIsTyped
  <2>3. CASE RunCallback(display.confirm, CallbackCall)
    BY <1>1, <2>2, <2>3, CallbackEnds, CallbackCallIsCall DEF FantomInv
  <2>4. CASE TurnPage("verifyAddress") \/ TurnPage("review")
    <3>1. {"verifyAddress", "review"} \subseteq Screens
      BY <2>1 DEF Screens, NbglScreens
    <3>2. QED
      BY <1>1, <2>2, <2>4, <3>1, PageStepEnds DEF TurnPage
  <2>5. QED
    BY <1>4, <2>3, <2>4 DEF TouchConfirm
<1>5. CASE TouchReject
  BY <1>5, RejectionEnds DEF TouchReject, RejectAndDisplayIdleMenu
<1>6. CASE TouchRejectReview
  BY <1>1, <1>6, PageStepEnds DEF TouchRejectReview, SetModal
<1>7. CASE TouchGoBack
  BY <1>1, <1>7, PageStepEnds DEF TouchGoBack, SetModal
<1>8. CASE TouchRejectForGood
  BY <1>8, RejectionEnds DEF TouchRejectForGood, RejectAndDisplayIdleMenu
<1>9. CASE ReturnHome
  BY <1>1, <1>9, PageStepEnds
  DEF ReturnHome, ui_idle, InsType, Screens, BaglScreens, NbglScreens
<1>10. CASE Quit
  BY <1>1, <1>10, CrashEnds DEF Quit, Modes, FantomInv
<1>11. QED
  BY <1>2, <1>3, <1>4, <1>5, <1>6, <1>7, <1>8, <1>9, <1>10 DEF User

-----------------------------------------------------------------------------
(* The host and the device *)

LEMMA HostKeepsInv ==
    ASSUME FantomInv, Host
    PROVE  FantomInv'
<1>1. Ended /\ ctx \in Context /\ seen \subseteq Items /\ HandlerContext \in Context
  BY ClearedIsContext DEF FantomInv, HandlerContext
<1>2. CASE RefuseUnexpected
  BY <1>1, <1>2, FailEnds, RefusalsAreErrors DEF RefuseUnexpected, FantomInv
<1>3. CASE RefuseHeader
  <2>1. PICK e \in {"ERR_DEVICE_LOCKED", "ERR_BAD_REQUEST_HEADER", "ERR_UNKNOWN_CLA",
                    "ERR_UNKNOWN_INS"} : Fail(e)
    BY <1>3 DEF RefuseHeader
  <2>2. QED
    BY <1>1, <1>3, <2>1, FailEnds, RefusalsAreErrors DEF RefuseHeader, FantomInv
<1>4. CASE RefuseOtherInstruction
  BY <1>1, <1>4, FailEnds, RefusalsAreErrors DEF RefuseOtherInstruction, FantomInv
<1>5. CASE GetVersion
  BY <1>1, <1>5, VersionHandlerEnds DEF GetVersion, FantomInv
<1>6. CASE GetPublicKey
  BY <1>1, <1>6, PublicKeyHandlerEnds DEF GetPublicKey, FantomInv
<1>7. CASE GetAddress
  BY <1>1, <1>7, AddressHandlerEnds DEF GetAddress, FantomInv
<1>8. CASE SignTransaction
  <2>1. seen' \subseteq Items
    BY <1>1, <1>8 DEF SignTransaction
  <2>2. QED
    BY <1>1, <1>8, <2>1, SignHandlerEnds DEF SignTransaction, FantomInv
<1>9. QED
  BY <1>2, <1>3, <1>4, <1>5, <1>6, <1>7, <1>8 DEF Host

LEMMA IdleIsTyped == "NONE" \in InsType /\ "idle" \in Screens
  BY DEF InsType, Screens, BaglScreens, NbglScreens

LEMMA DeviceKeepsInv ==
    ASSUME FantomInv, Device
    PROVE  FantomInv'
<1>1. /\ ctx \in Context /\ seen \subseteq Items
      /\ mode \in Modes /\ locked \in BOOLEAN /\ io_state \in IoStates
      /\ currentIns \in InsType /\ screen \in Screens /\ modal \in BOOLEAN
      /\ display \in Display
  BY DEF FantomInv, Ended
<1>2. CASE Lock
  BY <1>1, <1>2, PageStepEnds DEF Lock
<1>3. CASE Unlock
  BY <1>1, <1>3, PageStepEnds DEF Unlock
<1>4. CASE IoReset
  BY <1>1, <1>4, IdleIsTyped, PageStepEnds DEF IoReset, ui_idle, IoStates
<1>5. CASE Restart
  BY <1>5, IdleIsTyped, ClearedIsContext, ClearedIsDisplay, PageStepEnds
  DEF Restart, Boot, ui_idle, IoStates, Modes
<1>6. QED
  BY <1>2, <1>3, <1>4, <1>5 DEF Device

-----------------------------------------------------------------------------
(* The invariant *)

LEMMA FantomInvInit == Init => FantomInv
  BY IdleIsTyped, ClearedIsContext, ClearedIsDisplay, NoReplyIsTyped
  DEF Init, FantomInv, Ended, IoStates, Modes

LEMMA FantomInvNext == FantomInv /\ [Next]_vars => FantomInv'
<1>1. FantomInv /\ UNCHANGED vars => FantomInv'
  BY DEF FantomInv, Ended, vars
<1>2. QED
  BY <1>1, HostKeepsInv, UserKeepsInv, DeviceKeepsInv DEF Next

LEMMA FantomInvHolds == Spec => []FantomInv
  BY FantomInvInit, FantomInvNext, PTL DEF Spec

-----------------------------------------------------------------------------
(* The theorems *)

\* Whatever the host asks and whatever the user does, the globals of the application
\* (state.h, io.c, ui_helpers.c) keep their types, and no build shows a screen of the
\* other.
THEOREM ApplicationIsTyped == Spec => []TypeOK
<1>1. FantomInv => TypeOK
  BY DEF FantomInv, Ended, TypeOK, Modes, IoStates, InsType, Screens
<1>2. QED
  BY <1>1, FantomInvHolds, PTL

\* Every error that the application itself decides on ends the instruction in progress
\* (CATCH_OTHER of the main loop, for whatever a handler or an NBGL callback throws).
THEOREM OtherErrorsEndInstructions == Spec => []OtherErrorEndsInstruction
<1>1. FantomInv => OtherErrorEndsInstruction
  BY DEF FantomInv, Ended, OtherErrorEndsInstruction
<1>2. QED
  BY <1>1, FantomInvHolds, PTL

\* On a Nano every error does, the rejection by the user included (errors.h).
THEOREM ErrorsEndInstructionsOnNano ==
    ASSUME Build = "BAGL"
    PROVE  Spec => []ErrorEndsInstruction
<1>1. FantomInv => ErrorEndsInstruction
  BY DEF FantomInv, Ended, ErrorEndsInstruction
<1>2. QED
  BY <1>1, FantomInvHolds, PTL
============================================================================
