--------------------------- MODULE ConsentProofs ----------------------------
(***************************************************************************)
(* For every build, every set of paths and every set of transactions: what *)
(* leaves the device was agreed to, a user who is asked can answer, and    *)
(* what is on display is what the next step will use.                      *)
(*                                                                         *)
(* None of these is inductive alone.  A response is sent by the step that  *)
(* ctx.uiStep names, so the invariant has to say, for each step, what the  *)
(* user has acknowledged by the time its callback runs (the ...Agreed      *)
(* operators); and that a callback is only ever run for the step that its  *)
(* screen was opened for, which is UserTurn and HostTurn.                  *)
(***************************************************************************)
EXTENDS FantomProofs

Told(S, what, c) == Item(what, c) \in S

\* The consent to start a transaction, given before there was one.
StartTold(S, c) ==
    /\ Item("start", [c EXCEPT !.tx = NoTx]) \in S
    /\ policyForSignTxInit(c.path) = "WARN" => Item("warning", [c EXCEPT !.tx = NoTx]) \in S

\* What holds of c and of the acknowledged items S when the step c.uiStep is run.
KeyAgreed(S, c) ==
    /\ c.uiStep \in {"WARNING", "DISPLAY_PATH", "CONFIRM", "RESPOND"}
    /\ c.responseReady
    /\ c.tx = NoTx
    /\ Build = "NBGL" => c.uiStep # "CONFIRM"
    /\ policyForGetPublicKey(c.path) = "WARN" /\ c.uiStep # "WARNING" => Told(S, "warning", c)
    /\ c.uiStep \in {"CONFIRM", "RESPOND"} =>
           Told(S, "path", c) \/ (Build = "NBGL" /\ Told(S, "cutPath", c))
    /\ c.uiStep = "RESPOND" => Told(S, "export", c)

AddressAgreed(S, c) ==
    LET warned == policyForGetAddress(c.path, c.isShowAddress) = "WARN"
    IN  /\ c.uiStep \in {"WARNING", "DISPLAY_PATH", "ADDRESS", "CONFIRM", "RESPOND"}
        /\ c.responseReady
        /\ c.tx = NoTx
        /\ Build = "NBGL" => c.uiStep \in {"WARNING", "CONFIRM", "RESPOND"}
        /\ Build = "BAGL" /\ c.uiStep = "CONFIRM" => ~c.isShowAddress
        /\ warned /\ c.uiStep # "WARNING" => Told(S, "warning", c)
        /\ warned /\ Build = "BAGL" /\ c.uiStep \notin {"WARNING", "DISPLAY_PATH"}
               => Told(S, "path", c)
        /\ warned /\ Build = "NBGL" /\ c.uiStep = "CONFIRM" => c.isShowPath
        /\ warned /\ Build = "NBGL" /\ c.uiStep = "RESPOND" => Told(S, "path", c)
        /\ c.uiStep = "RESPOND" /\ c.isShowAddress => Told(S, "address", c)

StartAgreed(S, c) ==
    /\ c.uiStep \in {"INIT_WARNING", "INIT_CONFIRM", "INIT_RESPOND"}
    /\ c.tx = NoTx
    /\ policyForSignTxInit(c.path) = "WARN" /\ c.uiStep # "INIT_WARNING"
           => Told(S, "warning", c)
    /\ c.uiStep = "INIT_RESPOND" => Told(S, "start", c)

\* The steps of the review by the field that has been acknowledged before them.
After(what) ==
    CASE what = "recipient" -> {"TX_SENDER", "TX_AMOUNT", "TX_FEE", "TX_CONTRACT_CALL",
                                "TX_CONFIRM", "TX_RESPOND"}
      [] what = "sender"    -> {"TX_AMOUNT", "TX_FEE", "TX_CONTRACT_CALL", "TX_CONFIRM",
                                "TX_RESPOND"}
      [] what = "amount"    -> {"TX_FEE", "TX_CONTRACT_CALL", "TX_CONFIRM", "TX_RESPOND"}
      [] what = "fee"       -> {"TX_CONTRACT_CALL", "TX_CONFIRM", "TX_RESPOND"}
      [] what = "contract"  -> {"TX_CONFIRM", "TX_RESPOND"}
      [] what = "confirm"   -> {"TX_RESPOND"}

ReviewAgreed(S, c) ==
    /\ c.uiStep \in {"TX_RECIPIENT"} \cup After("recipient")
    /\ c.responseReady
    /\ c.tx \in Txs
    /\ c.tx.ours
    /\ Build = "NBGL" => c.uiStep \in {"TX_RECIPIENT", "TX_RESPOND"}
    /\ Build = "BAGL" => c.signature = c.tx
    /\ \A what \in ReviewOf(c.tx) : c.uiStep \in After(what) => Told(S, what, c)

Agreed(S, ins, c) ==
    \/ ins = GET_KEY /\ KeyAgreed(S, c)
    \/ ins = GET_ADDR /\ AddressAgreed(S, c)
    \/ ins = SIGN_TX /\ c.stage = "INIT" /\ StartAgreed(S, c)
    \/ ins = SIGN_TX /\ c.stage = "FINALIZE" /\ ReviewAgreed(S, c)

-----------------------------------------------------------------------------
(* The invariant *)

\* What the confirmation of the screen on display, and of the pages that follow it in
\* the same use case, adds to seen.
Pending == IF screen = "review" THEN PageText ELSE display.text

\* The context of the instruction ins in progress, whoever's turn it is.
ContextFits(S, ins, c) ==
    /\ ins \in {GET_KEY, GET_ADDR} => c.tx = NoTx
    /\ ins = SIGN_TX =>
           /\ c.stage \in {"NONE", "INIT", "COLLECT"} => c.tx = NoTx
           /\ c.stage = "FINALIZE" => c.tx \in Txs
           /\ c.stage \in {"COLLECT", "FINALIZE"} => StartTold(S, c)

HostTurn ==
    /\ screen \notin InteractiveScreens
    /\ ~modal
    /\ screen = "busy" => currentIns = SIGN_TX /\ ctx.stage \in {"COLLECT", "FINALIZE"}
    /\ Build = "BAGL" /\ screen = "idle" => currentIns = "NONE"
    /\ Build = "BAGL" /\ currentIns = SIGN_TX /\ ctx.stage = "FINALIZE" => ctx.sha3 = ctx.tx

UserTurn ==
    /\ screen \in InteractiveScreens
    /\ CallbackIsLive
    /\ modal => screen \in AsksTwice
    /\ display.text # {}
    /\ \A i \in display.text : i.path = ctx.path /\ i.tx = ctx.tx
    /\ Agreed(seen \cup Pending, currentIns, ctx)

\* What the last response has told the host, the user agreed to.
Consented ==
    /\ SignatureReviewed
    /\ KeyExportConfirmed
    /\ AddressApproved
    /\ Build = "BAGL" => KeyExportApproved /\ SignatureCoversReviewedTx

TurnsFit ==
    Running =>
        /\ ContextFits(seen, currentIns, ctx)
        /\ io_state = "IO" => HostTurn
        /\ io_state # "IO" => UserTurn

ConsentInv ==
    /\ Build = "NBGL" => display.state = "NOT_RUN"
    /\ TurnsFit
    /\ Consented
    /\ ResetIsExplained

-----------------------------------------------------------------------------
(* Endings that need no consent *)

\* A response that carries neither key nor address nor signature.
LEMMA PlainReplyConsents ==
    ASSUME sent'.kind \notin {"signature", "key", "address"}
    PROVE  Consented'
  BY DEF Consented, SignatureReviewed, KeyExportConfirmed, KeyExportApproved, AddressApproved,
     SignatureCoversReviewedTx

LEMMA NoReplyIsPlain == NoReply.kind = "none" /\ NoReply.code = "NONE"
  BY DEF NoReply, Reply

LEMMA ErrorIsPlain == \A e : Error(e).kind = "none" /\ Error(e).code = e
  BY DEF Error, Reply

\* After Fail it is the host's turn, and no instruction is in progress.
LEMMA FailConsents ==
    ASSUME Running, ConsentInv, NEW e, Fail(e)
    PROVE  ConsentInv'
<1>1. /\ mode' = "running" /\ io_state' = "IO" /\ currentIns' = "NONE" /\ screen' = "idle"
      /\ modal' = FALSE /\ display' = display /\ sent' = Error(e)
  BY DEF Running, Fail, io_send_buf, ui_idle
<1>2. Consented'
  BY <1>1, ErrorIsPlain, PlainReplyConsents
<1>3. HostTurn' /\ ContextFits(seen, currentIns, ctx)'
  BY <1>1 DEF HostTurn, ContextFits, InteractiveScreens, GET_KEY, GET_ADDR, SIGN_TX
<1>4. ResetIsExplained'
  BY <1>1 DEF ResetIsExplained
<1>5. QED
  BY <1>1, <1>2, <1>3, <1>4 DEF ConsentInv, TurnsFit

\* A reset is all there is to explain of a step that ends in one.
LEMMA CrashConsents ==
    ASSUME ConsentInv, NEW why \in {"asserted", "crashed", "exited"}, Crash(why),
           why = "asserted" => ~PathPrints(ctx'.path, PATH_BUFFER),
           why = "crashed" => Build = "BAGL" /\ ctx'.tx.fmt # "ok"
    PROVE  ConsentInv'
<1>1. mode' = why /\ display' = display /\ sent' = NoReply
  BY DEF Crash
<1>2. Consented'
  BY <1>1, NoReplyIsPlain, PlainReplyConsents
<1>3. ResetIsExplained' /\ TurnsFit'
  BY <1>1 DEF ResetIsExplained, TurnsFit, Running
<1>4. QED
  BY <1>1, <1>2, <1>3 DEF ConsentInv

-----------------------------------------------------------------------------
(* Screens *)

\* A screen that asks the user: what it shows, and what its confirmation runs.
Opened(text, confirm, k) ==
    /\ mode' = mode
    /\ sent' = NoReply
    /\ currentIns' = k.ins
    /\ io_state' # "IO"
    /\ screen' \in InteractiveScreens
    /\ ~modal'
    /\ display'.text = text
    /\ display'.confirm = confirm
    /\ display'.state = "NOT_RUN"
    /\ Build = "BAGL" => display'.guard = FlowGuard'
    /\ screen' = "prompt" \/ Build = "NBGL" => display'.reject = "ui_respondWithUserReject"
    /\ Pending' = text

LEMMA PaginatedTextOpens ==
    ASSUME Build = "BAGL", NEW text, NEW confirm, NEW k,
           ui_displayPaginatedText(text, confirm, k)
    PROVE  Opened(text, confirm, k)
  BY DEF ui_displayPaginatedText, OpenScreen, DisplayState, CallbackInit, Opened, FlowGuard,
     Pending, InteractiveScreens, BaglScreens

LEMMA PromptOpens ==
    ASSUME Build = "BAGL", NEW text, NEW confirm, NEW k,
           ui_displayPrompt(text, confirm, k)
    PROVE  Opened(text, confirm, k)
  BY DEF ui_displayPrompt, OpenScreen, DisplayState, CallbackInit, Opened, FlowGuard,
     Pending, InteractiveScreens, BaglScreens

\* A review whose first page is the review itself has nothing on the page before it.
LEMMA PageOpens ==
    ASSUME Build = "NBGL", NEW text, NEW confirm, NEW k \in Calls, UiAllowed(k),
           k.display.state = "NOT_RUN", NEW name \in NbglScreens \cap InteractiveScreens,
           NbglPage(name, text, confirm, k),
           name = "review" => \A i \in text : i.what # "contract"
    PROVE  Opened(text, confirm, k)
<1>1. k.display \in Display
  BY DEF Calls
<1>2. /\ display'.text = text /\ display'.confirm = confirm /\ display'.state = "NOT_RUN"
      /\ display'.reject = "ui_respondWithUserReject"
  BY <1>1 DEF NbglPage, Display
<1>3. /\ mode' = mode /\ sent' = NoReply /\ currentIns' = k.ins /\ screen' = name
      /\ ~modal' /\ io_state' = k.io
  BY DEF NbglPage, OpenScreen
<1>4. Pending' = text
  <2>1. CASE name # "review"
    BY <1>2, <1>3, <2>1 DEF Pending
  <2>2. CASE name = "review"
    <3>1. Pending' = {i \in text : i.what # "contract"}
      BY <1>2, <1>3, <2>2 DEF Pending, PageText
    <3>2. QED
      BY <2>2, <3>1
  <2>3. QED
    BY <2>1, <2>2
<1>5. QED
  BY <1>2, <1>3, <1>4 DEF Opened, UiAllowed

\* Opening a screen hands the turn to the user, for a step that is agreed to once the
\* screen is confirmed.
LEMMA OpenedConsents ==
    ASSUME Running, NEW c, NEW k, NEW text, NEW confirm, Opened(text, confirm, k), ctx' = c,
           confirm = CallbackOf(k.ins, c.stage), confirm # "NULL",
           text # {}, \A i \in text : i.path = c.path /\ i.tx = c.tx,
           ContextFits(seen', k.ins, c),
           Agreed(seen' \cup text, k.ins, c)
    PROVE  ConsentInv'
<1>1. Consented'
  BY NoReplyIsPlain, PlainReplyConsents DEF Opened
<1>2. ResetIsExplained'
  BY DEF ResetIsExplained, Opened, Running
<1>3. CallbackIsLive'
  BY DEF CallbackIsLive, Opened
<1>4. ContextFits(seen, currentIns, ctx)'
  BY DEF Opened
<1>5. UserTurn'
  BY <1>3 DEF UserTurn, Opened
<1>6. QED
  BY <1>1, <1>2, <1>4, <1>5 DEF ConsentInv, TurnsFit, Opened

-----------------------------------------------------------------------------
(* Get Public Key *)

LEMMA ItemsTell == \A what, c : Item(what, c).path = c.path /\ Item(what, c).tx = c.tx
  BY DEF Item

LEMMA CallbacksAreThose ==
    /\ \A stage : CallbackOf(GET_KEY, stage) = "runGetPublicKeyUIStep"
    /\ \A stage : CallbackOf(GET_ADDR, stage) = "runGetAddressUIStep"
    /\ CallbackOf(SIGN_TX, "INIT") = "runSignTransactionInitUIStep"
    /\ CallbackOf(SIGN_TX, "FINALIZE") = "runSignTransactionUIStep"
  BY DEF CallbackOf, GET_KEY, GET_ADDR, SIGN_TX

\* An instruction's last step answers the host; what c holds of the instruction stays
\* in the context.
LEMMA FinishRests ==
    ASSUME Running, FantomInv, NEW c, NEW k \in Calls, NEW reply, io_send_buf(reply),
           FinishInstruction(k), ctx'.tx = c.tx, ctx'.stage = c.stage \/ ctx'.stage = "DONE",
           ctx'.path = c.path, ContextFits(seen', k.ins, c),
           ~k.callback => screen \notin InteractiveScreens \cup {"busy"},
           Build = "NBGL" => k.display.state = "NOT_RUN", Consented'
    PROVE  ConsentInv'
<1>1. /\ mode' = mode /\ sent' = reply /\ io_state' = "IO" /\ display' = k.display /\ ~modal'
  BY DEF FinishInstruction, io_send_buf, ui_idle
<1>2. ResetIsExplained'
  BY <1>1 DEF ResetIsExplained, Running
<1>3. CASE Build = "BAGL"
  <2>1. screen' = "idle" /\ currentIns' = "NONE"
    BY <1>3 DEF FinishInstruction, ui_idle
  <2>2. HostTurn' /\ ContextFits(seen, currentIns, ctx)'
    BY <1>1, <2>1 DEF HostTurn, ContextFits, InteractiveScreens, GET_KEY, GET_ADDR, SIGN_TX
  <2>3. QED
    BY <1>1, <1>2, <1>3, <2>2 DEF ConsentInv, TurnsFit
<1>4. CASE Build = "NBGL"
  <2>1. /\ screen' = IF k.callback THEN "status" ELSE screen
        /\ currentIns' = k.ins
    BY <1>4 DEF FinishInstruction
  <2>2. screen' \notin InteractiveScreens \cup {"busy"}
    BY <2>1 DEF InteractiveScreens
  <2>3. HostTurn'
    BY <1>1, <1>4, <2>2 DEF HostTurn
  <2>4. ContextFits(seen, currentIns, ctx)'
    BY <2>1 DEF ContextFits, StartTold, Item
  <2>5. QED
    BY <1>1, <1>2, <1>4, <2>3, <2>4 DEF ConsentInv, TurnsFit
<1>5. QED
  BY <1>3, <1>4, BuildAssumption

\* A key is sent by RESPOND only, after all its consents.
LEMMA KeyReplyConsents ==
    ASSUME NEW c \in Context, c.uiStep = "RESPOND", KeyAgreed(seen', c),
           sent' = Answer("key", c)
    PROVE  Consented'
<1>1. sent'.kind = "key" /\ sent'.path = c.path
  BY DEF Answer, Reply
<1>2. KeyExportConfirmed'
  BY <1>1 DEF KeyAgreed, Told, Item, KeyExportConfirmed, Acknowledged
<1>3. Build = "BAGL" => KeyExportApproved'
  BY <1>1, <1>2 DEF KeyAgreed, Told, Item, KeyExportApproved, Acknowledged
<1>4. QED
  BY <1>1, <1>2, <1>3
  DEF Consented, SignatureReviewed, AddressApproved, SignatureCoversReviewedTx

LEMMA PublicKeyStepConsents ==
    ASSUME Running, FantomInv, ConsentInv, NEW c \in Context, NEW k \in Calls,
           k.ins = GET_KEY, UiAllowed(k), KeyAgreed(seen', c),
           Build = "NBGL" => k.display.state = "NOT_RUN",
           ~k.callback => screen \notin InteractiveScreens \cup {"busy"},
           runGetPublicKeyUIStep(c, k)
    PROVE  ConsentInv'
<1> DEFINE next(step) == [c EXCEPT !.uiStep = step]
<1>1. \A step : /\ next(step).uiStep = step /\ next(step).path = c.path
                /\ next(step).tx = c.tx /\ next(step).responseReady = c.responseReady
                /\ next(step).stage = c.stage
  BY DEF Context
<1>2. ContextFits(seen', GET_KEY, c) /\ \A step : ContextFits(seen', GET_KEY, next(step))
  BY <1>1 DEF KeyAgreed, ContextFits, GET_KEY, SIGN_TX
<1>3. \A step : CallbackOf(GET_KEY, next(step).stage) = "runGetPublicKeyUIStep"
  BY CallbacksAreThose
<1> HIDE DEF next
<1>4. ASSUME NEW text, NEW step, Opened(text, "runGetPublicKeyUIStep", k),
             ctx' = next(step), text # {}, \A i \in text : i.path = c.path /\ i.tx = c.tx,
             KeyAgreed(seen' \cup text, next(step))
      PROVE  ConsentInv'
  <2>1. Agreed(seen' \cup text, k.ins, next(step)) /\ ContextFits(seen', k.ins, next(step))
    BY <1>2, <1>4 DEF Agreed
  <2>2. "runGetPublicKeyUIStep" = CallbackOf(k.ins, next(step).stage)
    BY <1>3
  <2>3. \A i \in text : i.path = next(step).path /\ i.tx = next(step).tx
    BY <1>1, <1>4
  <2>4. QED
    BY <1>4, <2>1, <2>2, <2>3, OpenedConsents
<1>5. CASE Crash("asserted") /\ ctx' = c /\ PublicKeyStepAsserts(c, k)
  <2>1. ~PathPrints(ctx'.path, PATH_BUFFER)
    BY <1>5, BuildAssumption DEF PublicKeyStepAsserts, KeyAgreed
  <2>2. QED
    BY <1>5, <2>1, CrashConsents
<1>6. CASE PublicKeyWarning(c, k)
  <2>1. Opened({Item("warning", c)}, "runGetPublicKeyUIStep", k)
    BY <1>6, PaginatedTextOpens, PageOpens, BuildAssumption
    DEF PublicKeyWarning, ui_displayWarning, NbglScreens, InteractiveScreens
  <2>2. ctx' = next("DISPLAY_PATH")
    BY <1>6 DEF PublicKeyWarning, next
  <2>3. KeyAgreed(seen' \cup {Item("warning", c)}, next("DISPLAY_PATH"))
    BY <1>1 DEF KeyAgreed, Told, Item
  <2>4. QED
    BY <1>4, <2>1, <2>2, <2>3, ItemsTell
<1>7. CASE PublicKeyPath(c, k) /\ Build = "BAGL"
  <2>1. Opened({Item("path", c)}, "runGetPublicKeyUIStep", k)
    BY <1>7, PaginatedTextOpens DEF PublicKeyPath
  <2>2. ctx' = next("CONFIRM")
    BY <1>7 DEF PublicKeyPath, next
  <2>3. KeyAgreed(seen' \cup {Item("path", c)}, next("CONFIRM"))
    BY <1>1, <1>7 DEF KeyAgreed, Told, Item, PublicKeyPath
  <2>4. QED
    BY <1>4, <2>1, <2>2, <2>3, ItemsTell
<1>8. CASE PublicKeyPath(c, k) /\ Build = "NBGL"
  <2> DEFINE text == {ExportPath(c), Item("export", c)}
  <2>1. Opened(text, "runGetPublicKeyUIStep", k)
    BY <1>8, PageOpens DEF PublicKeyPath, ui_exportKeyConfirm, NbglScreens, InteractiveScreens
  <2>2. ctx' = next("RESPOND")
    BY <1>8 DEF PublicKeyPath, next
  <2>3. KeyAgreed(seen' \cup text, next("RESPOND"))
    BY <1>1, <1>8 DEF KeyAgreed, Told, Item, PublicKeyPath, ExportPath
  <2>4. QED
    BY <1>4, <2>1, <2>2, <2>3, ItemsTell DEF ExportPath
<1>9. CASE PublicKeyConfirm(c, k)
  <2>1. Build = "BAGL"
    BY <1>9, BuildAssumption DEF PublicKeyConfirm, KeyAgreed
  <2>2. Opened({Item("export", c)}, "runGetPublicKeyUIStep", k)
    BY <1>9, <2>1, PromptOpens DEF PublicKeyConfirm
  <2>3. ctx' = next("RESPOND")
    BY <1>9 DEF PublicKeyConfirm, next
  <2>4. KeyAgreed(seen' \cup {Item("export", c)}, next("RESPOND"))
    BY <1>1, <1>9, <2>1 DEF KeyAgreed, Told, Item, PublicKeyConfirm
  <2>5. QED
    BY <1>4, <2>2, <2>3, <2>4, ItemsTell
<1>10. CASE PublicKeyRespond(c, k)
  <2>1. Consented'
    BY <1>10, KeyReplyConsents DEF PublicKeyRespond, io_send_buf
  <2>2. ctx' = next("INVALID")
    BY <1>10 DEF PublicKeyRespond, next
  <2>3. QED
    BY <1>1, <1>2, <1>10, <2>1, <2>2, FinishRests DEF PublicKeyRespond
<1>11. QED
  BY <1>5, <1>6, <1>7, <1>8, <1>9, <1>10, BuildAssumption DEF runGetPublicKeyUIStep

-----------------------------------------------------------------------------
(* Get Address *)

\* An address is sent by RESPOND only, after its consents, if the request needs any.
LEMMA AddressReplyConsents ==
    ASSUME NEW c \in Context, c.uiStep = "RESPOND", AddressAgreed(seen', c),
           sent' = Answer("address", c), ctx'.isShowAddress = c.isShowAddress
    PROVE  Consented'
<1>1. sent'.kind = "address" /\ sent'.path = c.path
  BY DEF Answer, Reply
<1>2. AddressApproved'
  BY <1>1, BuildAssumption DEF AddressAgreed, Told, Item, AddressApproved, Acknowledged
<1>3. QED
  BY <1>1, <1>2
  DEF Consented, SignatureReviewed, KeyExportConfirmed, KeyExportApproved,
      SignatureCoversReviewedTx

LEMMA AddressStepConsents ==
    ASSUME Running, FantomInv, ConsentInv, NEW c \in Context, NEW k \in Calls,
           k.ins = GET_ADDR, UiAllowed(k), AddressAgreed(seen', c),
           Build = "NBGL" => k.display.state = "NOT_RUN",
           ~k.callback => screen \notin InteractiveScreens \cup {"busy"},
           runGetAddressUIStep(c, k)
    PROVE  ConsentInv'
<1> DEFINE next(step) == [c EXCEPT !.uiStep = step]
           SameButStep(d, step) ==
               /\ d.uiStep = step /\ d.path = c.path /\ d.tx = c.tx
               /\ d.responseReady = c.responseReady /\ d.stage = c.stage
               /\ d.isShowAddress = c.isShowAddress
<1>1. \A step : SameButStep(next(step), step) /\ next(step).isShowPath = c.isShowPath
  BY DEF Context
<1> HIDE DEF next
<1>2. ContextFits(seen', GET_ADDR, c)
  BY DEF AddressAgreed, ContextFits, GET_ADDR, SIGN_TX
<1>3. ASSUME NEW text, NEW step, NEW d, Opened(text, "runGetAddressUIStep", k), ctx' = d,
             SameButStep(d, step), text # {}, \A i \in text : i.path = c.path /\ i.tx = c.tx,
             AddressAgreed(seen' \cup text, d)
      PROVE  ConsentInv'
  <2>1. Agreed(seen' \cup text, k.ins, d)
    BY <1>3 DEF Agreed
  <2>2. ContextFits(seen', k.ins, d)
    BY <1>3 DEF AddressAgreed, ContextFits, GET_ADDR, SIGN_TX
  <2>3. "runGetAddressUIStep" = CallbackOf(k.ins, d.stage)
    BY CallbacksAreThose
  <2>4. \A i \in text : i.path = d.path /\ i.tx = d.tx
    BY <1>3
  <2>5. QED
    BY <1>3, <2>1, <2>2, <2>3, <2>4, OpenedConsents
<1>4. CASE Crash("asserted") /\ ctx' = c /\ AddressStepAsserts(c, k)
  <2>1. ~PathPrints(ctx'.path, PATH_BUFFER)
    BY <1>4, BuildAssumption DEF AddressStepAsserts, AddressAgreed
  <2>2. QED
    BY <1>4, <2>1, CrashConsents
<1>5. CASE AddressWarning(c, k) /\ Build = "BAGL"
  <2>1. Opened({Item("warning", c)}, "runGetAddressUIStep", k)
    BY <1>5, PaginatedTextOpens DEF AddressWarning
  <2>2. ctx' = next("DISPLAY_PATH")
    BY <1>5 DEF AddressWarning, next
  <2>3. AddressAgreed(seen' \cup {Item("warning", c)}, next("DISPLAY_PATH"))
    BY <1>1, <1>5 DEF AddressAgreed, Told, Item
  <2>4. QED
    BY <1>1, <1>3, <2>1, <2>2, <2>3, ItemsTell
<1>6. CASE AddressWarning(c, k) /\ Build = "NBGL"
  <2> DEFINE d == [c EXCEPT !.isShowPath = TRUE, !.uiStep = "CONFIRM"]
  <2>1. SameButStep(d, "CONFIRM") /\ d.isShowPath
    BY DEF Context
  <2>2. Opened({Item("warning", c)}, "runGetAddressUIStep", k)
    BY <1>6, PageOpens
    DEF AddressWarning, ui_displayWarning, NbglScreens, InteractiveScreens
  <2>3. ctx' = d
    BY <1>6 DEF AddressWarning
  <2> HIDE DEF d
  <2>4. AddressAgreed(seen' \cup {Item("warning", c)}, d)
    BY <1>6, <2>1 DEF AddressAgreed, Told, Item
  <2>5. QED
    BY <1>3, <2>1, <2>2, <2>3, <2>4, ItemsTell
<1>7. CASE AddressPath(c, k)
  <2> DEFINE step == IF c.isShowAddress THEN "ADDRESS" ELSE "CONFIRM"
  <2>1. Build = "BAGL"
    BY <1>7, BuildAssumption DEF AddressPath, AddressAgreed
  <2>2. Opened({Item("path", c)}, "runGetAddressUIStep", k)
    BY <1>7, <2>1, PaginatedTextOpens DEF AddressPath
  <2>3. ctx' = next(step)
    BY <1>7 DEF AddressPath, next
  <2>4. AddressAgreed(seen' \cup {Item("path", c)}, next(step))
    BY <1>1, <1>7, <2>1 DEF AddressAgreed, AddressPath, Told, Item
  <2> HIDE DEF step
  <2>5. QED
    BY <1>1, <1>3, <2>2, <2>3, <2>4, ItemsTell
<1>8. CASE AddressShow(c, k)
  <2>1. Build = "BAGL"
    BY <1>8, BuildAssumption DEF AddressShow, AddressAgreed
  <2>2. Opened({Item("address", c)}, "runGetAddressUIStep", k)
    BY <1>8, <2>1, PaginatedTextOpens DEF AddressShow
  <2>3. ctx' = next("RESPOND")
    BY <1>8 DEF AddressShow, next
  <2>4. AddressAgreed(seen' \cup {Item("address", c)}, next("RESPOND"))
    BY <1>1, <1>8, <2>1 DEF AddressAgreed, AddressShow, Told, Item
  <2>5. QED
    BY <1>1, <1>3, <2>2, <2>3, <2>4, ItemsTell
<1>9. CASE AddressConfirm(c, k) /\ Build = "BAGL"
  <2>1. Opened({Item("export", c)}, "runGetAddressUIStep", k)
    BY <1>9, PromptOpens DEF AddressConfirm
  <2>2. ctx' = next("RESPOND")
    BY <1>9 DEF AddressConfirm, next
  <2>3. AddressAgreed(seen' \cup {Item("export", c)}, next("RESPOND"))
    BY <1>1, <1>9 DEF AddressAgreed, AddressConfirm, Told, Item
  <2>4. QED
    BY <1>1, <1>3, <2>1, <2>2, <2>3, ItemsTell
<1>10. CASE AddressConfirm(c, k) /\ Build = "NBGL"
  <2>1. Opened(VerifyText(c), "runGetAddressUIStep", k)
    BY <1>10, PageOpens DEF AddressConfirm, ui_verifyAddress, NbglScreens, InteractiveScreens
  <2>2. ctx' = next("RESPOND")
    BY <1>10 DEF AddressConfirm, next
  <2>3. AddressAgreed(seen' \cup VerifyText(c), next("RESPOND"))
    BY <1>1, <1>10 DEF AddressAgreed, AddressConfirm, Told, Item, VerifyText
  <2>4. VerifyText(c) # {} /\ \A i \in VerifyText(c) : i.path = c.path /\ i.tx = c.tx
    BY ItemsTell DEF VerifyText
  <2>5. QED
    BY <1>1, <1>3, <2>1, <2>2, <2>3, <2>4
<1>11. CASE AddressRespond(c, k)
  <2>1. ctx' = next("INVALID")
    BY <1>11 DEF AddressRespond, next
  <2>2. Consented'
    BY <1>1, <1>11, <2>1, AddressReplyConsents DEF AddressRespond, io_send_buf
  <2>3. QED
    BY <1>1, <1>2, <1>11, <2>1, <2>2, FinishRests DEF AddressRespond
<1>12. QED
  BY <1>4, <1>5, <1>6, <1>7, <1>8, <1>9, <1>10, <1>11, BuildAssumption
  DEF runGetAddressUIStep

-----------------------------------------------------------------------------
(* Sign Transaction: the consent to start, and the blocks of the transaction *)

\* A plain answer in the middle of a transaction leaves the busy screen to the host.
LEMMA BusyRests ==
    ASSUME Running, NEW k, NEW reply, io_send_buf(reply), ui_displayBusy(k),
           k.ins = SIGN_TX, Build = "NBGL" => k.display \in Display /\ k.display.state = "NOT_RUN",
           reply.kind \notin {"signature", "key", "address"},
           ctx'.stage \in {"COLLECT", "FINALIZE"}, ContextFits(seen', SIGN_TX, ctx'),
           ctx'.stage = "FINALIZE" => ctx'.sha3 = ctx'.tx
    PROVE  ConsentInv'
<1>1. /\ mode' = mode /\ sent' = reply /\ io_state' = "IO" /\ screen' = "busy" /\ ~modal'
      /\ currentIns' = SIGN_TX
  BY DEF ui_displayBusy, io_send_buf
<1>2. Build = "NBGL" => display'.state = "NOT_RUN"
  BY DEF ui_displayBusy, Display
<1>3. Consented'
  BY <1>1, PlainReplyConsents
<1>4. HostTurn'
  BY <1>1 DEF HostTurn, InteractiveScreens
<1>5. QED
  BY <1>1, <1>2, <1>3, <1>4 DEF ConsentInv, TurnsFit, ResetIsExplained, Running

LEMMA SignInitStepConsents ==
    ASSUME Running, FantomInv, ConsentInv, NEW c \in Context, NEW k \in Calls,
           k.ins = SIGN_TX, UiAllowed(k), c.stage = "INIT", StartAgreed(seen', c),
           Build = "NBGL" => k.display.state = "NOT_RUN",
           runSignTransactionInitUIStep(c, k)
    PROVE  ConsentInv'
<1> DEFINE next(step) == [c EXCEPT !.uiStep = step]
<1>1. \A step : /\ next(step).uiStep = step /\ next(step).path = c.path
                /\ next(step).tx = c.tx /\ next(step).stage = c.stage
  BY DEF Context
<1> HIDE DEF next
<1>2. ASSUME NEW text, NEW step, Opened(text, "runSignTransactionInitUIStep", k),
             ctx' = next(step), text # {}, \A i \in text : i.path = c.path /\ i.tx = c.tx,
             StartAgreed(seen' \cup text, next(step))
      PROVE  ConsentInv'
  <2>1. Agreed(seen' \cup text, k.ins, next(step))
    BY <1>1, <1>2 DEF Agreed
  <2>2. ContextFits(seen', k.ins, next(step))
    BY <1>1, <1>2 DEF StartAgreed, ContextFits, GET_KEY, GET_ADDR, SIGN_TX
  <2>3. "runSignTransactionInitUIStep" = CallbackOf(k.ins, next(step).stage)
    BY <1>1, CallbacksAreThose
  <2>4. \A i \in text : i.path = next(step).path /\ i.tx = next(step).tx
    BY <1>1, <1>2
  <2>5. QED
    BY <1>2, <2>1, <2>2, <2>3, <2>4, OpenedConsents
<1>3. ~SignInitStepAsserts(c, k)
  BY DEF SignInitStepAsserts, StartAgreed
<1>4. CASE SignInitWarning(c, k)
  <2>1. Opened({Item("warning", c)}, "runSignTransactionInitUIStep", k)
    BY <1>4, PaginatedTextOpens, PageOpens, BuildAssumption
    DEF SignInitWarning, ui_displayWarning, NbglScreens, InteractiveScreens
  <2>2. ctx' = next("INIT_CONFIRM")
    BY <1>4 DEF SignInitWarning, next
  <2>3. StartAgreed(seen' \cup {Item("warning", c)}, next("INIT_CONFIRM"))
    BY <1>1 DEF StartAgreed, Told, Item
  <2>4. QED
    BY <1>2, <2>1, <2>2, <2>3, ItemsTell
<1>5. CASE SignInitConfirm(c, k)
  <2>1. Opened({Item("start", c)}, "runSignTransactionInitUIStep", k)
    BY <1>5, PromptOpens, PageOpens, BuildAssumption
    DEF SignInitConfirm, ui_reviewStart, NbglScreens, InteractiveScreens
  <2>2. ctx' = next("INIT_RESPOND")
    BY <1>5 DEF SignInitConfirm, next
  <2>3. StartAgreed(seen' \cup {Item("start", c)}, next("INIT_RESPOND"))
    BY <1>1, <1>5 DEF StartAgreed, SignInitConfirm, Told, Item
  <2>4. QED
    BY <1>2, <2>1, <2>2, <2>3, ItemsTell
<1>6. CASE SignInitRespond(c, k)
  <2>1. ctx'.stage = "COLLECT" /\ ctx'.tx = c.tx /\ ctx'.path = c.path
    BY <1>6 DEF SignInitRespond, Context
  <2>2. StartTold(seen', ctx')
    BY <1>6, <2>1 DEF StartTold, StartAgreed, SignInitRespond, Told, Item, Context
  <2>3. ContextFits(seen', SIGN_TX, ctx')
    BY <2>1, <2>2 DEF ContextFits, StartAgreed, GET_KEY, GET_ADDR, SIGN_TX
  <2>4. Answer("none", c).kind = "none" /\ k.display \in Display
    BY DEF Answer, Reply, Calls
  <2>5. QED
    BY <1>6, <2>1, <2>3, <2>4, BusyRests DEF SignInitRespond
<1>7. QED
  BY <1>3, <1>4, <1>5, <1>6 DEF runSignTransactionInitUIStep

-----------------------------------------------------------------------------
(* Sign Transaction: the review *)

\* A signature is sent by TX_RESPOND only, after every field and the start.
LEMMA SignatureConsents ==
    ASSUME NEW c \in Context, c.uiStep = "TX_RESPOND", ReviewAgreed(seen', c),
           StartTold(seen', c), sent' = Answer("signature", c), ctx'.tx = c.tx
    PROVE  Consented'
<1>1. sent'.kind = "signature" /\ sent'.path = c.path /\ sent'.digest = c.signature
  BY DEF Answer, Reply
<1>2. \A what \in ReviewOf(c.tx) : c.uiStep \in After(what)
  BY DEF ReviewOf, After
<1>3. \A what \in ReviewOf(c.tx) : Told(seen', what, c)
  BY <1>2 DEF ReviewAgreed
<1>4. /\ Acknowledged("start", c.path, NoTx)'
      /\ policyForSignTxInit(c.path) = "WARN" => Acknowledged("warning", c.path, NoTx)'
  BY DEF StartTold, Item, Acknowledged, Context
<1>5. SignatureReviewed'
  BY <1>1, <1>3, <1>4 DEF SignatureReviewed, ReviewAgreed, Told, Item, Acknowledged
<1>6. Build = "BAGL" => SignatureCoversReviewedTx'
  BY <1>1 DEF SignatureCoversReviewedTx, ReviewAgreed
<1>7. QED
  BY <1>1, <1>5, <1>6 DEF Consented, KeyExportConfirmed, KeyExportApproved, AddressApproved

LEMMA ReviewStepConsents ==
    ASSUME Running, FantomInv, ConsentInv, NEW c \in Context, NEW k \in Calls,
           k.ins = SIGN_TX, UiAllowed(k), c.stage = "FINALIZE", ReviewAgreed(seen', c),
           StartTold(seen', c), Build = "NBGL" => k.display.state = "NOT_RUN",
           ~k.callback => c.uiStep = "TX_RECIPIENT",
           SignStep(c, k)
    PROVE  ConsentInv'
<1> DEFINE next(step) == [c EXCEPT !.uiStep = step]
<1>1. \A step : /\ next(step).uiStep = step /\ next(step).path = c.path
                /\ next(step).tx = c.tx /\ next(step).stage = c.stage
                /\ next(step).responseReady = c.responseReady
                /\ next(step).signature = c.signature
                /\ StartTold(seen', next(step))
  BY DEF Context, StartTold, Item
<1> HIDE DEF next
<1>2. ContextFits(seen', SIGN_TX, c)
  BY DEF ReviewAgreed, ContextFits, GET_KEY, GET_ADDR, SIGN_TX
<1>3. ASSUME NEW text, NEW step, Opened(text, "runSignTransactionUIStep", k),
             ctx' = next(step), text # {}, \A i \in text : i.path = c.path /\ i.tx = c.tx,
             ReviewAgreed(seen' \cup text, next(step))
      PROVE  ConsentInv'
  <2>1. Agreed(seen' \cup text, k.ins, next(step))
    BY <1>1, <1>3 DEF Agreed
  <2>2. ContextFits(seen', k.ins, next(step))
    BY <1>1, <1>3 DEF ReviewAgreed, ContextFits, GET_KEY, GET_ADDR, SIGN_TX
  <2>3. "runSignTransactionUIStep" = CallbackOf(k.ins, next(step).stage)
    BY <1>1, CallbacksAreThose
  <2>4. \A i \in text : i.path = next(step).path /\ i.tx = next(step).tx
    BY <1>1, <1>3
  <2>5. QED
    BY <1>3, <2>1, <2>2, <2>3, <2>4, OpenedConsents
<1>4. ASSUME NEW step, NEW what, NEW to, ReviewScreen(step, what, to, c, k),
             to \in After("recipient"),
             \A w \in ReviewOf(c.tx) : to \in After(w) => step \in After(w) \/ w = what
      PROVE  ConsentInv'
  <2>1. /\ Build = "BAGL" /\ c.uiStep = step /\ ctx' = next(to)
        /\ Opened({Item(what, c)}, "runSignTransactionUIStep", k)
    BY <1>4, PaginatedTextOpens DEF ReviewScreen, next
  <2>2. \A w \in ReviewOf(c.tx) :
            to \in After(w) => Told(seen' \cup {Item(what, c)}, w, next(to))
    BY <1>1, <1>4, <2>1 DEF ReviewAgreed, Told, Item
  <2>3. ReviewAgreed(seen' \cup {Item(what, c)}, next(to))
    BY <1>1, <1>4, <2>1, <2>2 DEF ReviewAgreed
  <2>4. QED
    BY <1>3, <2>1, <2>3, ItemsTell
<1>5. CASE SignRecipient(c, k)
  BY <1>4, <1>5 DEF SignRecipient, After, ReviewOf
<1>6. CASE SignSender(c, k)
  BY <1>4, <1>6 DEF SignSender, After, ReviewOf
<1>7. CASE SignAmount(c, k)
  BY <1>4, <1>7 DEF SignAmount, After, ReviewOf
<1>8. CASE SignFee(c, k)
  BY <1>4, <1>8 DEF SignFee, AfterFee, After, ReviewOf
<1>9. CASE SignContract(c, k)
  BY <1>4, <1>9 DEF SignContract, After, ReviewOf
<1>10. CASE SignConfirm(c, k)
  <2>1. /\ Build = "BAGL" /\ c.uiStep = "TX_CONFIRM" /\ ctx' = next("TX_RESPOND")
        /\ Opened({Item("confirm", c)}, "runSignTransactionUIStep", k)
    BY <1>10, PromptOpens DEF SignConfirm, next
  <2>2. \A w \in ReviewOf(c.tx) : c.uiStep \in After(w) \/ w = "confirm"
    BY <2>1 DEF After, ReviewOf
  <2>3. \A w \in ReviewOf(c.tx) :
            Told(seen' \cup {Item("confirm", c)}, w, next("TX_RESPOND"))
    BY <1>1, <2>2 DEF ReviewAgreed, Told, Item
  <2>4. ReviewAgreed(seen' \cup {Item("confirm", c)}, next("TX_RESPOND"))
    BY <1>1, <2>1, <2>3 DEF ReviewAgreed, After
  <2>5. QED
    BY <1>3, <2>1, <2>4, ItemsTell
<1>11. CASE SignReview(c, k)
  <2>1. /\ Build = "NBGL" /\ ctx' = next("TX_RESPOND")
        /\ Opened(ReviewText(c), "runSignTransactionUIStep", k)
    <3>1. ~c.tx.call => \A i \in ReviewText(c) : i.what # "contract"
      BY DEF ReviewText, Item
    <3>2. QED
      BY <1>11, <3>1, PageOpens
      DEF SignReview, ui_reviewDisplay, next, NbglScreens, InteractiveScreens
  <2>2. \A w \in ReviewOf(c.tx) : Told(seen' \cup ReviewText(c), w, next("TX_RESPOND"))
    BY <1>1 DEF ReviewOf, ReviewText, Told, Item
  <2>3. ReviewAgreed(seen' \cup ReviewText(c), next("TX_RESPOND"))
    BY <1>1, <2>1, <2>2 DEF ReviewAgreed, After
  <2>4. ReviewText(c) # {} /\ \A i \in ReviewText(c) : i.path = c.path /\ i.tx = c.tx
    BY ItemsTell DEF ReviewText
  <2>5. QED
    BY <1>3, <2>1, <2>3, <2>4
<1>12. CASE SignRespond(c, k)
  <2>1. c.uiStep = "TX_RESPOND" /\ k.callback
    BY <1>12 DEF SignRespond, Calls
  <2>2. ctx'.tx = c.tx /\ ctx'.path = c.path /\ ctx'.stage = "DONE"
    BY <1>12 DEF SignRespond, Context
  <2>3. Consented'
    BY <1>12, <2>1, <2>2, SignatureConsents DEF SignRespond, io_send_buf
  <2>4. QED
    BY <1>2, <1>12, <2>1, <2>2, <2>3, FinishRests DEF SignRespond
<1>13. QED
  BY <1>5, <1>6, <1>7, <1>8, <1>9, <1>10, <1>11, <1>12 DEF SignStep

LEMMA SignStepConsents ==
    ASSUME Running, FantomInv, ConsentInv, NEW c \in Context, NEW k \in Calls,
           k.ins = SIGN_TX, UiAllowed(k), c.stage = "FINALIZE", ReviewAgreed(seen', c),
           StartTold(seen', c), Build = "NBGL" => k.display.state = "NOT_RUN",
           ~k.callback => c.uiStep = "TX_RECIPIENT",
           runSignTransactionUIStep(c, k)
    PROVE  ConsentInv'
<1>1. CASE SignStepThrows(c) /\ Throw("ERR_INVALID_DATA", k) /\ ctx' = c
  <2>1. c.tx.fmt # "ok"
    BY <1>1 DEF SignStepThrows, ReviewAgreed
  <2>2. QED
    BY <1>1, <2>1, FailConsents, CrashConsents DEF Throw
<1>2. ~SignStepAsserts(c, k)
  BY BuildAssumption DEF SignStepAsserts, SignScreens, ReviewAgreed, After
<1>3. CASE SignStep(c, k)
  BY <1>3, ReviewStepConsents
<1>4. QED
  BY <1>1, <1>2, <1>3 DEF runSignTransactionUIStep

-----------------------------------------------------------------------------
(* The host *)

\* What a handler finds: the turn is the host's, and the context that of ins or cleared.
LEMMA HandlerFinds ==
    ASSUME FantomInv, ConsentInv, NEW ins \in {GET_KEY, GET_ADDR, SIGN_TX}, Dispatch(ins)
    PROVE  /\ Running
           /\ HandlerContext \in Context
           /\ ins # SIGN_TX => HandlerContext.tx = NoTx
           /\ screen \notin InteractiveScreens
           /\ ins # SIGN_TX => screen # "busy"
           /\ HandlerCall(ins) \in Calls /\ HandlerCall(ins).ins = ins
           /\ UiAllowed(HandlerCall(ins)) /\ ~HandlerCall(ins).callback
           /\ HandlerCall(ins).display = display
           /\ Build = "NBGL" => display.state = "NOT_RUN"
<1>1. Running /\ HostTurn /\ ContextFits(seen, currentIns, ctx) /\ currentIns \in {"NONE", ins}
  BY DEF ConsentInv, TurnsFit, Dispatch
<1>2. HandlerContext \in Context
  BY ClearedIsContext DEF HandlerContext, FantomInv
<1>3. ins # SIGN_TX => HandlerContext.tx = NoTx
  BY <1>1 DEF HandlerContext, ContextFits, ClearedContext, GET_KEY, GET_ADDR
<1>4. ins # SIGN_TX => screen # "busy"
  BY <1>1 DEF HostTurn, GET_KEY, GET_ADDR, SIGN_TX
<1>5. HandlerCall(ins) \in Calls
  BY HandlerCallIsCall DEF FantomInv, Instructions
<1>6. QED
  BY <1>1, <1>2, <1>3, <1>4, <1>5 DEF HandlerCall, UiAllowed, HostTurn, ConsentInv

\* A path no key can be derived for cannot be written either.
LEMMA UnderivableIsUnprintable ==
    ASSUME NEW path, ~KeyDerivable(path)
    PROVE  ~PathPrints(path, PATH_BUFFER)
  BY DEF KeyDerivable, PathPrints

LEMMA GetPublicKeyConsents ==
    ASSUME FantomInv, ConsentInv, GetPublicKey
    PROVE  ConsentInv'
<1> DEFINE c == HandlerContext
<1>1. PICK p1 \in P1s, p2 \in P2s, wire \in Wires : handleGetPublicKey(c, p1, p2, wire)
  BY DEF GetPublicKey
<1> DEFINE ready == [c EXCEPT !.responseReady = TRUE, !.path = wire.path,
                              !.uiStep = PublicKeyFirstStep(wire.path)]
<1>2. Dispatch(GET_KEY) /\ seen' = {}
  BY DEF GetPublicKey
<1>3. CASE \E e : Fail(e)
  BY <1>2, <1>3, FailConsents DEF Dispatch
<1>4. CASE /\ ~KeyDerivable(wire.path)
           /\ Crash("asserted")
           /\ ctx' = [c EXCEPT !.responseReady = FALSE, !.path = wire.path]
  <2>1. ctx'.path = wire.path
    BY <1>2, <1>4, HandlerFinds DEF Context
  <2>2. QED
    BY <1>4, <2>1, UnderivableIsUnprintable, CrashConsents
<1>5. CASE /\ PublicKeyRefusal(p1, p2, wire) = "NONE"
           /\ runGetPublicKeyUIStep(ready, HandlerCall(GET_KEY))
  <2>1. c \in Context /\ c.tx = NoTx
    BY <1>2, HandlerFinds DEF GET_KEY, SIGN_TX
  <2>2. ready \in Context
    <3>1. wire.path \in StoredPaths
      BY <1>5, ParsedIsStored DEF PublicKeyRefusal
    <3>2. PublicKeyFirstStep(wire.path) \in UiSteps
      BY DEF PublicKeyFirstStep, UiSteps
    <3>3. QED
      BY <2>1, <3>1, <3>2 DEF Context
  <2>3. KeyAgreed(seen', ready)
    BY <2>1 DEF KeyAgreed, PublicKeyFirstStep, Context
  <2> HIDE DEF ready, c
  <2>4. QED
    BY <1>2, <1>5, <2>2, <2>3, HandlerFinds, PublicKeyStepConsents DEF GET_KEY, SIGN_TX
<1>6. QED
  BY <1>1, <1>3, <1>4, <1>5, Zenon DEF handleGetPublicKey

LEMMA GetAddressConsents ==
    ASSUME FantomInv, ConsentInv, GetAddress
    PROVE  ConsentInv'
<1> DEFINE c == HandlerContext
<1>1. PICK p1 \in P1s, p2 \in P2s, wire \in Wires : handleGetAddress(c, p1, p2, wire)
  BY DEF GetAddress
<1> DEFINE show  == p1 = P1_DISPLAY_ADDRESS
           asked == [c EXCEPT !.responseReady = FALSE, !.path = wire.path,
                              !.isShowAddress = show]
           ready == [asked EXCEPT !.responseReady = TRUE, !.sha3 = OtherData,
                                  !.uiStep = AddressFirstStep(wire.path, show)]
<1>2. Dispatch(GET_ADDR) /\ seen' = {}
  BY DEF GetAddress
<1>3. CASE \E e : Fail(e)
  BY <1>2, <1>3, FailConsents DEF Dispatch
<1>4. c \in Context /\ c.tx = NoTx
  BY <1>2, HandlerFinds DEF GET_ADDR, SIGN_TX
<1>5. CASE ~KeyDerivable(wire.path) /\ Crash("asserted") /\ ctx' = asked
  <2>1. ctx'.path = wire.path
    BY <1>4, <1>5 DEF Context
  <2>2. QED
    BY <1>5, <2>1, UnderivableIsUnprintable, CrashConsents
<1>6. CASE /\ AddressRefusal(p1, p2, wire) = "NONE"
           /\ runGetAddressUIStep(ready, HandlerCall(GET_ADDR))
  <2>1. show \in BOOLEAN /\ OtherData \in Hashed
    BY DEF Hashed
  <2>2. wire.path \in StoredPaths
    BY <1>6, ParsedIsStored DEF AddressRefusal
  <2>3. AddressFirstStep(wire.path, show) \in UiSteps
    BY DEF AddressFirstStep, UiSteps
  <2> HIDE DEF show, c
  <2>4. asked \in Context
    BY <1>4, <2>1, <2>2 DEF Context
  <2>5. ready \in Context
    BY <2>1, <2>2, <2>3, <2>4 DEF Context
  <2>6. /\ ready.path = wire.path /\ ready.isShowAddress = show /\ ready.responseReady
        /\ ready.uiStep = AddressFirstStep(wire.path, show) /\ ready.tx = NoTx
    BY <1>4 DEF Context
  <2> HIDE DEF asked, ready
  <2>7. policyForGetAddress(wire.path, show) # "DENY"
    BY <1>6 DEF AddressRefusal, show
  <2>8. AddressAgreed(seen', ready)
    BY <2>1, <2>6, <2>7, BuildAssumption
    DEF AddressAgreed, AddressFirstStep, policyForGetAddress
  <2>9. QED
    BY <1>2, <1>6, <2>5, <2>8, HandlerFinds, AddressStepConsents DEF GET_ADDR, SIGN_TX
<1>7. QED
  BY <1>1, <1>3, <1>5, <1>6, Zenon DEF handleGetAddress

\* What the user agreed to of the start is kept for the requests that follow.
LEMMA SigningFinds ==
    ASSUME FantomInv, ConsentInv, SignTransaction
    PROVE  /\ ContextFits(seen', SIGN_TX, HandlerContext)
           /\ HandlerContext.stage = "FINALIZE" /\ Build = "BAGL"
                  => HandlerContext.sha3 = HandlerContext.tx
<1>1. /\ Running /\ HostTurn /\ ContextFits(seen, currentIns, ctx)
      /\ currentIns \in {"NONE", SIGN_TX}
      /\ seen' = IF currentIns = "NONE" THEN {} ELSE {i \in seen : i.tx = NoTx}
  BY DEF SignTransaction, Dispatch, ConsentInv, TurnsFit
<1>2. CASE currentIns = "NONE"
  BY <1>2 DEF HandlerContext, ClearedContext, ContextFits, GET_KEY, GET_ADDR, SIGN_TX
<1>3. CASE currentIns = SIGN_TX
  <2>1. HandlerContext = ctx /\ seen' = {i \in seen : i.tx = NoTx}
    BY <1>1, <1>3 DEF HandlerContext, SIGN_TX
  <2>2. ASSUME StartTold(seen, ctx)
        PROVE  StartTold(seen', ctx)
    BY <2>1, <2>2 DEF StartTold, Item, FantomInv, Context
  <2>3. QED
    BY <1>1, <1>3, <2>1, <2>2 DEF ContextFits, HostTurn
<1>4. QED
  BY <1>1, <1>2, <1>3

LEMMA SignInitHandlerConsents ==
    ASSUME FantomInv, ConsentInv, SignTransaction, NEW p2, NEW wire \in Wires,
           handleSignTxInit(HandlerContext, p2, wire)
    PROVE  ConsentInv'
<1> DEFINE c       == HandlerContext
           started == [c EXCEPT !.stage = "INIT", !.responseReady = FALSE, !.sha3 = NoTx,
                                !.path = wire.path, !.uiStep = SignInitFirstStep(wire.path)]
<1>1. Dispatch(SIGN_TX)
  BY DEF SignTransaction
<1>2. CASE \E e : Fail(e)
  BY <1>1, <1>2, FailConsents DEF Dispatch
<1>3. CASE /\ SignInitRefusal(c, p2, wire) = "NONE"
           /\ runSignTransactionInitUIStep(started, HandlerCall(SIGN_TX))
  <2>1. c \in Context
    BY <1>1, HandlerFinds
  <2>2. c.stage = "NONE" /\ c.tx = NoTx
    BY <1>3, SigningFinds DEF SignInitRefusal, ContextFits, SIGN_TX
  <2>3. wire.path \in StoredPaths
    BY <1>3, ParsedIsStored DEF SignInitRefusal
  <2> HIDE DEF c
  <2>4. started \in Context
    <3>1. NoTx \in Hashed /\ "INIT" \in Stages /\ SignInitFirstStep(wire.path) \in UiSteps
      BY DEF Hashed, Stages, UiSteps, SignInitFirstStep
    <3>2. QED
      BY <2>1, <2>3, <3>1 DEF Context
  <2>5. started.stage = "INIT" /\ StartAgreed(seen', started)
    BY <2>1, <2>2 DEF StartAgreed, SignInitFirstStep, Context
  <2> HIDE DEF started
  <2>6. QED
    BY <1>1, <1>3, <2>4, <2>5, HandlerFinds, SignInitStepConsents
<1>4. QED
  BY <1>2, <1>3, Zenon DEF handleSignTxInit

LEMMA CollectHandlerConsents ==
    ASSUME FantomInv, ConsentInv, SignTransaction, NEW p2, NEW wire \in Wires,
           handleSignTxCollect(HandlerContext, p2, wire)
    PROVE  ConsentInv'
<1> DEFINE c == HandlerContext
<1>1. Dispatch(SIGN_TX)
  BY DEF SignTransaction
<1>2. CASE \E e : Fail(e)
  BY <1>1, <1>2, FailConsents DEF Dispatch
<1>3. c \in Context /\ ContextFits(seen', SIGN_TX, c)
  BY <1>1, HandlerFinds, SigningFinds
<1>4. ASSUME NEW after, CollectAnswer(after), after.stage \in {"COLLECT", "FINALIZE"},
             ContextFits(seen', SIGN_TX, after),
             after.stage = "FINALIZE" => after.sha3 = after.tx
      PROVE  ConsentInv'
  <2>1. HandlerCall(SIGN_TX).display \in Display
    BY <1>1, HandlerFinds DEF FantomInv, Ended
  <2>2. Answer("stage", after).kind = "stage"
    BY DEF Answer, Reply
  <2>3. QED
    BY <1>1, <1>4, <2>1, <2>2, HandlerFinds, BusyRests DEF CollectAnswer
<1> HIDE DEF c
<1>5. CASE SignCollectRefusal(c, p2, wire) = "NONE" /\ CollectAnswer(StreamProcessing(c))
  <2>1. c.stage = "COLLECT"
    BY <1>5 DEF SignCollectRefusal
  <2>2. /\ StreamProcessing(c).stage = "COLLECT"
        /\ ContextFits(seen', SIGN_TX, StreamProcessing(c))
    BY <1>3, <2>1 DEF StreamProcessing, Context, ContextFits, StartTold, Item
  <2>3. QED
    BY <1>4, <1>5, <2>2
<1>6. CASE /\ SignCollectRefusal(c, p2, wire) = "NONE"
           /\ \E t \in Txs : CollectAnswer(StreamFinished(c, t))
  <2>1. PICK t \in Txs : CollectAnswer(StreamFinished(c, t))
    BY <1>6
  <2>2. c.stage = "COLLECT"
    BY <1>6 DEF SignCollectRefusal
  <2> DEFINE d == StreamFinished(c, t)
  <2>3. d.stage = "FINALIZE" /\ d.sha3 = t /\ d.tx = t /\ d.path = c.path
    BY <1>3 DEF StreamFinished, Context
  <2>4. StartTold(seen', c)
    BY <1>3, <2>2 DEF ContextFits
  <2>5. StartTold(seen', d)
    BY <1>3, <2>4 DEF StartTold, Item, StreamFinished, Context
  <2> HIDE DEF d
  <2>6. ContextFits(seen', SIGN_TX, d)
    BY <2>3, <2>5 DEF ContextFits, GET_KEY, GET_ADDR, SIGN_TX
  <2>7. CollectAnswer(d)
    BY <2>1 DEF d
  <2>8. QED
    BY <1>4, <2>3, <2>6, <2>7
<1>7. QED
  BY <1>2, <1>5, <1>6, Zenon DEF handleSignTxCollect, c

LEMMA FinalizeHandlerConsents ==
    ASSUME FantomInv, ConsentInv, SignTransaction, NEW p2, NEW wire \in Wires,
           handleSignTxFinalize(HandlerContext, p2, wire)
    PROVE  ConsentInv'
<1> DEFINE c == HandlerContext
           d == SignDigest(c)
<1>1. Dispatch(SIGN_TX)
  BY DEF SignTransaction
<1>2. CASE \E e : Fail(e)
  BY <1>1, <1>2, FailConsents DEF Dispatch
<1>3. c \in Context /\ ContextFits(seen', SIGN_TX, c)
  BY <1>1, HandlerFinds, SigningFinds
<1>4. CASE ~KeyDerivable(c.path) /\ Crash("asserted") /\ ctx' = c
  BY <1>4, UnderivableIsUnprintable, CrashConsents
<1>5. CASE /\ SignFinalizeRefusal(c, p2, wire) = "NONE"
           /\ runSignTransactionUIStep(d, FinalizeCall)
  <2>1. c.stage = "FINALIZE" /\ c.tx.ours
    BY <1>5 DEF SignFinalizeRefusal
  <2>2. c.tx \in Txs /\ StartTold(seen', c) /\ (Build = "BAGL" => c.sha3 = c.tx)
    BY <1>3, <2>1, SigningFinds DEF ContextFits
  <2>3. d \in Context
    BY <1>3 DEF SignDigest, Context, Hashed, UiSteps
  <2>4. /\ d.stage = "FINALIZE" /\ d.tx = c.tx /\ d.signature = c.sha3
        /\ d.responseReady /\ d.uiStep = "TX_RECIPIENT" /\ StartTold(seen', d)
    BY <1>3, <2>1, <2>2 DEF SignDigest, Context, StartTold, Item
  <2>5. ReviewAgreed(seen', d)
    BY <2>1, <2>2, <2>4 DEF ReviewAgreed, After, ReviewOf
  <2>6. /\ FinalizeCall \in Calls /\ FinalizeCall.ins = SIGN_TX /\ UiAllowed(FinalizeCall)
        /\ FinalizeCall.display = display
    BY FinalizeCallIsCall DEF FantomInv, FinalizeCall, HandlerCall, UiAllowed
  <2> HIDE DEF c, d
  <2>7. QED
    BY <1>1, <1>5, <2>3, <2>4, <2>5, <2>6, HandlerFinds, SignStepConsents
<1>6. QED
  BY <1>2, <1>4, <1>5, Zenon DEF handleSignTxFinalize

LEMMA SignTransactionConsents ==
    ASSUME FantomInv, ConsentInv, SignTransaction
    PROVE  ConsentInv'
<1>1. PICK p1 \in P1s, p2 \in P2s, wire \in Wires :
          handleSignTransaction(HandlerContext, p1, p2, wire)
  BY DEF SignTransaction
<1>2. CASE \E e : Fail(e)
  BY <1>2, FailConsents DEF SignTransaction, Dispatch
<1>3. QED
  BY <1>1, <1>2, SignInitHandlerConsents, CollectHandlerConsents, FinalizeHandlerConsents,
     Zenon
  DEF handleSignTransaction

LEMMA GetVersionConsents ==
    ASSUME FantomInv, ConsentInv, GetVersion
    PROVE  ConsentInv'
<1>1. PICK p1 \in P1s, p2 \in P2s, wire \in Wires :
          handleGetVersion(HandlerContext, p1, p2, wire)
  BY DEF GetVersion
<1>2. CASE \E e : Fail(e)
  BY <1>2, FailConsents DEF GetVersion, Dispatch
<1>3. CASE /\ io_send_buf(Answer("version", HandlerContext))
           /\ ui_idle
           /\ UNCHANGED <<mode, locked, display>>
  <2>1. sent'.kind = "version"
    BY <1>3 DEF io_send_buf, Answer, Reply
  <2>2. Consented'
    BY <2>1, PlainReplyConsents
  <2>3. HostTurn' /\ ContextFits(seen, currentIns, ctx)'
    BY <1>3 DEF HostTurn, ContextFits, ui_idle, InteractiveScreens, GET_KEY, GET_ADDR, SIGN_TX
  <2>4. mode' = mode /\ io_state' = "IO" /\ display' = display /\ Running
    BY <1>3 DEF io_send_buf, GetVersion, Dispatch
  <2>5. QED
    BY <2>2, <2>3, <2>4 DEF ConsentInv, TurnsFit, ResetIsExplained, Running
<1>4. QED
  BY <1>1, <1>2, <1>3, Zenon DEF handleGetVersion

LEMMA HostConsents ==
    ASSUME FantomInv, ConsentInv, Host
    PROVE  ConsentInv'
<1>1. ASSUME NEW e, Running, Fail(e) PROVE ConsentInv'
  BY <1>1, FailConsents
<1>2. CASE RefuseUnexpected
  BY <1>1, <1>2 DEF RefuseUnexpected
<1>3. CASE RefuseHeader
  BY <1>1, <1>3 DEF RefuseHeader
<1>4. CASE RefuseOtherInstruction
  BY <1>1, <1>4 DEF RefuseOtherInstruction
<1>5. QED
  BY <1>2, <1>3, <1>4, GetVersionConsents, GetPublicKeyConsents, GetAddressConsents,
     SignTransactionConsents
  DEF Host

-----------------------------------------------------------------------------
(* The user *)

\* The callback of the screen on display runs for the step that its screen was opened
\* for, once the user has acknowledged it.
LEMMA CallbackConsents ==
    ASSUME FantomInv, ConsentInv, Running, io_state # "IO",
           RunCallback(display.confirm, CallbackCall), seen' = seen \cup Pending
    PROVE  ConsentInv'
<1> DEFINE k == CallbackCall
<1>1. UserTurn /\ ContextFits(seen, currentIns, ctx) /\ ctx \in Context
  BY DEF ConsentInv, TurnsFit, FantomInv
<1>2. /\ k \in Calls /\ k.ins = currentIns /\ UiAllowed(k) /\ k.callback
      /\ Build = "NBGL" => k.display.state = "NOT_RUN"
  BY CallbackCallIsCall DEF FantomInv, CallbackCall, UiAllowed, ConsentInv, Ended, IoStates
<1>3. Agreed(seen', currentIns, ctx) /\ display.confirm = CallbackOf(currentIns, ctx.stage)
  BY <1>1 DEF UserTurn, CallbackIsLive
<1> HIDE DEF k
<1>4. CASE currentIns = GET_KEY /\ KeyAgreed(seen', ctx)
  <2>1. runGetPublicKeyUIStep(ctx, k)
    BY <1>3, <1>4, CallbacksAreThose DEF RunCallback, k
  <2>2. QED
    BY <1>1, <1>2, <1>4, <2>1, PublicKeyStepConsents
<1>5. CASE currentIns = GET_ADDR /\ AddressAgreed(seen', ctx)
  <2>1. runGetAddressUIStep(ctx, k)
    BY <1>3, <1>5, CallbacksAreThose DEF RunCallback, k
  <2>2. QED
    BY <1>1, <1>2, <1>5, <2>1, AddressStepConsents
<1>6. CASE currentIns = SIGN_TX /\ ctx.stage = "INIT" /\ StartAgreed(seen', ctx)
  <2>1. runSignTransactionInitUIStep(ctx, k)
    BY <1>3, <1>6, CallbacksAreThose DEF RunCallback, k
  <2>2. QED
    BY <1>1, <1>2, <1>6, <2>1, SignInitStepConsents
<1>7. CASE currentIns = SIGN_TX /\ ctx.stage = "FINALIZE" /\ ReviewAgreed(seen', ctx)
  <2>1. runSignTransactionUIStep(ctx, k)
    BY <1>3, <1>7, CallbacksAreThose DEF RunCallback, k
  <2>2. StartTold(seen', ctx)
    BY <1>1, <1>7 DEF ContextFits, StartTold
  <2>3. QED
    BY <1>1, <1>2, <1>7, <2>1, <2>2, SignStepConsents
<1>8. QED
  BY <1>3, <1>4, <1>5, <1>6, <1>7 DEF Agreed

\* No screen asks for anything at the host's turn.
LEMMA ScreenTellsTurn ==
    ASSUME ConsentInv, Running, screen \in InteractiveScreens \/ modal
    PROVE  io_state # "IO" /\ UserTurn
  BY DEF ConsentInv, TurnsFit, HostTurn

LEMMA RejectionConsents ==
    ASSUME FantomInv, ConsentInv, Running, io_state # "IO",
           ui_respondWithUserReject(CallbackCall), UNCHANGED <<ctx, seen>>
    PROVE  ConsentInv'
<1> DEFINE k == CallbackCall
<1>1. UserTurn /\ ContextFits(seen, currentIns, ctx)
  BY DEF ConsentInv, TurnsFit
<1>2. /\ k \in Calls /\ k.ins = currentIns /\ k.callback
      /\ Build = "NBGL" => k.display.state = "NOT_RUN"
  BY CallbackCallIsCall DEF FantomInv, CallbackCall, ConsentInv
<1> HIDE DEF k
<1>3. io_send_buf(Error("ERR_REJECTED_BY_USER")) /\ FinishInstruction(k)
  BY DEF ui_respondWithUserReject, k
<1>4. Consented'
  BY <1>3, ErrorIsPlain, PlainReplyConsents DEF io_send_buf
<1>5. QED
  BY <1>1, <1>2, <1>3, <1>4, FinishRests

\* Pages of one use case differ in what they show, not in what they lead to.
LEMMA TurnPageConsents ==
    ASSUME FantomInv, ConsentInv, Running, ~modal, seen' = seen \cup PageText,
           \/ screen = "verifyStart" /\ TurnPage("verifyAddress")
           \/ screen = "contractWarning" /\ TurnPage("review"),
           Build = "NBGL"
    PROVE  ConsentInv'
<1>1. io_state # "IO" /\ UserTurn /\ ContextFits(seen, currentIns, ctx)
  <2>1. screen \in InteractiveScreens
    BY DEF InteractiveScreens, NbglScreens
  <2>2. QED
    BY <2>1, ScreenTellsTurn DEF ConsentInv, TurnsFit
<1>2. /\ sent' = NoReply /\ screen' \in {"verifyAddress", "review"}
      /\ UNCHANGED <<mode, locked, io_state, currentIns, ctx, modal, display>>
  BY DEF TurnPage
<1>3. (seen \cup Pending)' = seen \cup Pending
  BY <1>2 DEF Pending, PageText, TurnPage
<1>4. Consented'
  BY <1>2, NoReplyIsPlain, PlainReplyConsents
<1>5. CallbackIsLive'
  BY <1>1, <1>2 DEF UserTurn, CallbackIsLive
<1>6. UserTurn'
  BY <1>1, <1>2, <1>3, <1>5 DEF UserTurn, InteractiveScreens, NbglScreens
<1>7. ContextFits(seen, currentIns, ctx)'
  BY <1>1, <1>2 DEF ContextFits, StartTold
<1>8. QED
  BY <1>1, <1>2, <1>4, <1>6, <1>7 DEF ConsentInv, TurnsFit, ResetIsExplained, Running

\* Steps that leave the screen, and all that bears on it, as they were.
LEMMA SameScreenConsents ==
    ASSUME FantomInv, ConsentInv, sent' = NoReply,
           UNCHANGED <<mode, io_state, currentIns, ctx, screen, display, seen>>,
           modal' => modal \/ screen \in AsksTwice
    PROVE  ConsentInv'
<1>1. Consented'
  BY NoReplyIsPlain, PlainReplyConsents
<1>2. ASSUME Running, io_state = "IO"
      PROVE  HostTurn' /\ ContextFits(seen, currentIns, ctx)'
  <2>1. HostTurn /\ ContextFits(seen, currentIns, ctx)
    BY <1>2 DEF ConsentInv, TurnsFit
  <2>2. screen \notin AsksTwice
    BY <2>1 DEF HostTurn, InteractiveScreens, NbglScreens, AsksTwice
  <2>3. QED
    BY <2>1, <2>2 DEF HostTurn, ContextFits, StartTold
<1>3. ASSUME Running, io_state # "IO"
      PROVE  UserTurn' /\ ContextFits(seen, currentIns, ctx)'
  <2>1. UserTurn /\ ContextFits(seen, currentIns, ctx)
    BY <1>3 DEF ConsentInv, TurnsFit
  <2>2. (seen \cup Pending)' = seen \cup Pending
    BY DEF Pending, PageText
  <2>3. CallbackIsLive'
    BY <2>1 DEF UserTurn, CallbackIsLive, FlowGuard
  <2>4. QED
    BY <2>1, <2>2, <2>3 DEF UserTurn, ContextFits, StartTold
<1>4. QED
  BY <1>1, <1>2, <1>3 DEF ConsentInv, TurnsFit, ResetIsExplained, Running

LEMMA ButtonConfirmConsents ==
    ASSUME FantomInv, ConsentInv, ButtonConfirm
    PROVE  ConsentInv'
<1>1. io_state # "IO" /\ UserTurn /\ Running
  BY ScreenTellsTurn DEF ButtonConfirm, UserActs, InteractiveScreens, BaglScreens
<1>2. display.guard = FlowGuard
  BY <1>1 DEF UserTurn, CallbackIsLive, ButtonConfirm
<1>3. RunCallback(display.confirm, CallbackCall) /\ seen' = seen \cup Pending
  BY <1>2 DEF ButtonConfirm, GuardFails, Pending
<1>4. QED
  BY <1>1, <1>3, CallbackConsents

LEMMA ButtonRejectConsents ==
    ASSUME FantomInv, ConsentInv, ButtonReject
    PROVE  ConsentInv'
<1>1. io_state # "IO" /\ UserTurn /\ Running
  BY ScreenTellsTurn DEF ButtonReject, UserActs, InteractiveScreens, BaglScreens
<1>2. display.guard = FlowGuard
  BY <1>1 DEF UserTurn, CallbackIsLive, ButtonReject
<1>3. QED
  BY <1>1, <1>2, RejectionConsents DEF ButtonReject, GuardFails

LEMMA TouchConfirmConsents ==
    ASSUME FantomInv, ConsentInv, TouchConfirm
    PROVE  ConsentInv'
<1>1. Build = "NBGL" /\ Running /\ ~modal /\ seen' = seen \cup PageText
  BY DEF TouchConfirm, UserActs
<1>2. CASE /\ screen \in {"warning", "reviewStart", "review", "verifyAddress", "exportKey"}
           /\ RunCallback(display.confirm, CallbackCall)
  <2>1. io_state # "IO"
    BY <1>1, <1>2, ScreenTellsTurn DEF InteractiveScreens, NbglScreens
  <2>2. PageText = Pending
    BY <1>2 DEF PageText, Pending
  <2>3. QED
    BY <1>1, <1>2, <2>1, <2>2, CallbackConsents
<1>3. QED
  BY <1>1, <1>2, TurnPageConsents DEF TouchConfirm

\* ui_idle and the silence of the device: nothing is left to agree to.
LEMMA IdleConsents ==
    ASSUME ConsentInv, mode' = "running", ui_idle, io_state' = "IO", sent' = NoReply,
           display'.state = "NOT_RUN" \/ Build = "BAGL"
    PROVE  ConsentInv'
<1>1. Consented'
  BY NoReplyIsPlain, PlainReplyConsents
<1>2. HostTurn' /\ ContextFits(seen, currentIns, ctx)'
  BY DEF HostTurn, ContextFits, ui_idle, InteractiveScreens, GET_KEY, GET_ADDR, SIGN_TX
<1>3. QED
  BY <1>1, <1>2, BuildAssumption DEF ConsentInv, TurnsFit, ResetIsExplained, Running

LEMMA UserConsents ==
    ASSUME FantomInv, ConsentInv, User
    PROVE  ConsentInv'
<1>1. Running
  BY DEF User, UserActs, ButtonConfirm, ButtonReject, TouchConfirm, TouchReject,
     TouchRejectReview, TouchGoBack, TouchRejectForGood, ReturnHome, Quit
<1>2. CASE TouchReject
  <2>1. screen \in InteractiveScreens
    BY <1>2 DEF TouchReject, InteractiveScreens, NbglScreens
  <2>2. QED
    BY <1>1, <1>2, <2>1, ScreenTellsTurn, RejectionConsents
    DEF TouchReject, RejectAndDisplayIdleMenu
<1>3. CASE TouchRejectForGood
  BY <1>1, <1>3, ScreenTellsTurn, RejectionConsents
  DEF TouchRejectForGood, RejectAndDisplayIdleMenu
<1>4. CASE TouchRejectReview
  BY <1>4, SameScreenConsents DEF TouchRejectReview, SetModal
<1>5. CASE TouchGoBack
  BY <1>5, SameScreenConsents DEF TouchGoBack, SetModal
<1>6. CASE ReturnHome
  <2>1. io_state = "IO"
    BY <1>1, <1>6 DEF ReturnHome, ConsentInv, TurnsFit, UserTurn, InteractiveScreens
  <2>2. QED
    BY <1>1, <1>6, <2>1, IdleConsents DEF ReturnHome, Running, ConsentInv
<1>7. CASE Quit
  BY <1>7, CrashConsents DEF Quit
<1>8. QED
  BY <1>2, <1>3, <1>4, <1>5, <1>6, <1>7, ButtonConfirmConsents, ButtonRejectConsents,
     TouchConfirmConsents
  DEF User

-----------------------------------------------------------------------------
(* The device, and the invariant *)

LEMMA DeviceConsents ==
    ASSUME FantomInv, ConsentInv, Device
    PROVE  ConsentInv'
<1>1. CASE Lock
  BY <1>1, SameScreenConsents DEF Lock
<1>2. CASE Unlock
  BY <1>2, SameScreenConsents DEF Unlock
<1>3. CASE IoReset
  BY <1>3, IdleConsents, BuildAssumption DEF IoReset, Running, ConsentInv
<1>4. CASE Restart
  BY <1>4, IdleConsents DEF Restart, Boot, ClearedDisplay
<1>5. QED
  BY <1>1, <1>2, <1>3, <1>4 DEF Device

LEMMA ConsentInvInit == Init => ConsentInv
<1> SUFFICES ASSUME Init PROVE ConsentInv
  OBVIOUS
<1>1. Consented
  BY NoReplyIsPlain
  DEF Init, Consented, SignatureReviewed, KeyExportConfirmed, KeyExportApproved,
      AddressApproved, SignatureCoversReviewedTx
<1>2. HostTurn /\ ContextFits(seen, currentIns, ctx)
  BY DEF Init, HostTurn, ContextFits, InteractiveScreens, GET_KEY, GET_ADDR, SIGN_TX
<1>3. QED
  BY <1>1, <1>2 DEF Init, ConsentInv, TurnsFit, ResetIsExplained, ClearedDisplay

LEMMA ConsentInvStutters == ConsentInv /\ UNCHANGED vars => ConsentInv'
<1> SUFFICES ASSUME ConsentInv, UNCHANGED vars PROVE ConsentInv'
  OBVIOUS
<1> USE DEF vars
<1>1. Consented'
  BY DEF ConsentInv, Consented, SignatureReviewed, KeyExportConfirmed, KeyExportApproved,
     AddressApproved, SignatureCoversReviewedTx, Acknowledged
<1>2. (seen \cup Pending)' = seen \cup Pending
  BY DEF Pending, PageText
<1>3. UserTurn => UserTurn'
  BY <1>2 DEF UserTurn, CallbackIsLive, FlowGuard
<1>4. HostTurn => HostTurn'
  BY DEF HostTurn
<1>5. ContextFits(seen, currentIns, ctx)' <=> ContextFits(seen, currentIns, ctx)
  BY DEF ContextFits, StartTold
<1>6. QED
  BY <1>1, <1>3, <1>4, <1>5 DEF ConsentInv, TurnsFit, ResetIsExplained, Running

LEMMA ConsentInvNext == FantomInv /\ ConsentInv /\ [Next]_vars => ConsentInv'
  BY HostConsents, UserConsents, DeviceConsents, ConsentInvStutters DEF Next

LEMMA ConsentInvHolds == Spec => [](FantomInv /\ ConsentInv)
<1>1. Init => FantomInv /\ ConsentInv
  BY FantomInvInit, ConsentInvInit
<1>2. (FantomInv /\ ConsentInv) /\ [Next]_vars => (FantomInv /\ ConsentInv)'
  BY FantomInvNext, ConsentInvNext
<1>3. QED
  BY <1>1, <1>2, PTL DEF Spec

-----------------------------------------------------------------------------
(* The theorems *)

\* Whatever the host asks and the user does, no signature leaves the device unless the
\* user has agreed to the start for its path and acknowledged every field of the
\* transaction it holds (get_tx_sign.c).
THEOREM SignaturesAreReviewed == Spec => []SignatureReviewed
<1>1. ConsentInv => SignatureReviewed
  BY DEF ConsentInv, Consented
<1>2. QED
  BY <1>1, ConsentInvHolds, PTL

\* On a Nano the digest that is signed is that of the reviewed transaction, although the
\* SHA3 state is reused for addresses (txGetSignature).  Stax can sign another: see the
\* run stale_review.
THEOREM SignaturesCoverReviewOnNano ==
    ASSUME Build = "BAGL"
    PROVE  Spec => []SignatureCoversReviewedTx
<1>1. ConsentInv => SignatureCoversReviewedTx
  BY DEF ConsentInv, Consented
<1>2. QED
  BY <1>1, ConsentInvHolds, PTL

\* No public key leaves the device unless the user has agreed to its export
\* (runGetPublicKeyUIStep).
THEOREM KeyExportsAreConfirmed == Spec => []KeyExportConfirmed
<1>1. ConsentInv => KeyExportConfirmed
  BY DEF ConsentInv, Consented
<1>2. QED
  BY <1>1, ConsentInvHolds, PTL

\* On a Nano the user has then read the whole path.  Stax cuts it: see the run
\* key_path_cut.
THEOREM KeyExportsAreApprovedOnNano ==
    ASSUME Build = "BAGL"
    PROVE  Spec => []KeyExportApproved
<1>1. ConsentInv => KeyExportApproved
  BY DEF ConsentInv, Consented
<1>2. QED
  BY <1>1, ConsentInvHolds, PTL

\* No address is returned for show, or for an unusual path, unless the user has
\* acknowledged it, or the path with its warning (runGetAddressUIStep).
THEOREM AddressesAreApproved == Spec => []AddressApproved
<1>1. ConsentInv => AddressApproved
  BY DEF ConsentInv, Consented
<1>2. QED
  BY <1>1, ConsentInvHolds, PTL

\* The application waits for the user exactly while a screen with a live callback of the
\* instruction in progress is on display (io_state, ui_callback_t, the static callbacks
\* of ui_basic_flows_nbgl.c).
THEOREM UserTurnsAreAnswerable == Spec => []UserTurnIsAnswerable
<1>1. ConsentInv => UserTurnIsAnswerable
  BY DEF ConsentInv, TurnsFit, HostTurn, UserTurn, UserTurnIsAnswerable
<1>2. QED
  BY <1>1, ConsentInvHolds, PTL

\* What is on display while the user decides is about the path and the transaction that
\* the next step works on.
THEOREM DisplaysAreCurrent == Spec => []DisplayedIsCurrent
<1>1. ConsentInv => DisplayedIsCurrent
  BY DEF ConsentInv, TurnsFit, UserTurn, DisplayedIsCurrent
<1>2. QED
  BY <1>1, ConsentInvHolds, PTL

\* On a Nano the idle and the busy screen tell which instruction is in progress.
THEOREM ScreensTellInstructionOnNano ==
    ASSUME Build = "BAGL"
    PROVE  Spec => []ScreenTellsInstruction
<1>1. ConsentInv => ScreenTellsInstruction
  BY DEF ConsentInv, TurnsFit, HostTurn, UserTurn, ScreenTellsInstruction,
     InteractiveScreens
<1>2. QED
  BY <1>1, ConsentInvHolds, PTL

\* Of all the assertions of the handlers and screens, only those on a path or a field
\* that does not fit can fail.
THEOREM ResetsAreExplained == Spec => []ResetIsExplained
<1>1. ConsentInv => ResetIsExplained
  BY DEF ConsentInv
<1>2. QED
  BY <1>1, ConsentInvHolds, PTL

\* No action of the user's answers the host twice, or unasked (ui_callback_t).
THEOREM UserAnswersOnlyOpenRequests == Spec => UserAnswersOpenRequest
<1>1. ConsentInv /\ User /\ sent'.code # "NONE" => io_state # "IO"
  <2> SUFFICES ASSUME ConsentInv, User, io_state = "IO"
               PROVE  sent'.code = "NONE"
    OBVIOUS
  <2>1. Running => screen \notin InteractiveScreens /\ ~modal
    BY DEF ConsentInv, TurnsFit, HostTurn
  <2>2. ReturnHome \/ Quit
    BY <2>1
    DEF User, UserActs, ButtonConfirm, ButtonReject, TouchConfirm, TouchReject,
        TouchRejectReview, TouchGoBack, TouchRejectForGood, InteractiveScreens, BaglScreens,
        NbglScreens, AsksTwice
  <2>3. QED
    BY <2>2, NoReplyIsPlain DEF ReturnHome, Quit, Crash
<1>2. QED
  BY <1>1, ConsentInvHolds, PTL DEF UserAnswersOpenRequest

-----------------------------------------------------------------------------
(***************************************************************************)
(* On a Nano the application implements SigningProtocol: every step of it  *)
(* is, under the mapping of FantomCorrectness, a step of the promise.      *)
(*                                                                         *)
(* Most steps end the process or leave it where it is.  The others are     *)
(* found by the turn: by ConsentInv, a handler that runs with SIGN_TX in   *)
(* progress finds a transaction that is being collected or is complete,    *)
(* and a callback finds the stage its screen was opened for.               *)
(***************************************************************************)

ThePath == IF SigningInProgress /\ ctx.stage # "NONE" THEN ctx.path ELSE <<>>
TheTx   == IF SigningInProgress THEN Held(ctx.tx) ELSE <<>>

\* A step that ends, or is no part of, signing.
LEMMA EndsAbandon ==
    ASSUME ~SigningInProgress', sent'.kind # "signature"
    PROVE  Promise!PNext
<1>1. Promise!Abandon
  BY DEF Promise!Abandon, SigningPhase
<1>2. QED
  BY <1>1 DEF Promise!PNext

\* A step that leaves signing where it is.
LEMMA SamePhaseProceeds ==
    ASSUME SigningPhase' = SigningPhase, ThePath' = ThePath, TheTx' = TheTx,
           sent'.kind # "signature"
    PROVE  Promise!PNext
<1>1. Promise!Proceed
  BY DEF Promise!Proceed, ThePath, TheTx
<1>2. QED
  BY <1>1 DEF Promise!PNext

-----------------------------------------------------------------------------
(* What signing looks like from outside, now and after a step *)

LEMMA PhaseNow ==
    /\ ~SigningInProgress => SigningPhase = "idle" /\ ThePath = <<>> /\ TheTx = <<>>
    /\ SigningInProgress /\ ctx.stage # "NONE" => ThePath = ctx.path /\ TheTx = Held(ctx.tx)
    /\ SigningInProgress /\ ctx.stage = "INIT" => SigningPhase = "asked"
    /\ SigningInProgress /\ ctx.stage = "COLLECT" => SigningPhase = "loading"
    /\ SigningInProgress /\ ctx.stage = "FINALIZE" =>
           SigningPhase = IF io_state = "IO" THEN "loaded" ELSE "review"
  BY DEF SigningPhase, ThePath, TheTx

LEMMA PhaseNext ==
    /\ ~SigningInProgress' => SigningPhase' = "idle" /\ ThePath' = <<>> /\ TheTx' = <<>>
    /\ SigningInProgress' /\ ctx'.stage # "NONE" =>
           ThePath' = ctx'.path /\ TheTx' = Held(ctx'.tx)
    /\ SigningInProgress' /\ ctx'.stage = "INIT" => SigningPhase' = "asked"
    /\ SigningInProgress' /\ ctx'.stage = "COLLECT" => SigningPhase' = "loading"
    /\ SigningInProgress' /\ ctx'.stage = "FINALIZE" =>
           SigningPhase' = IF io_state' = "IO" THEN "loaded" ELSE "review"
  BY DEF SigningPhase, ThePath, TheTx

\* A transaction that is held differs from none.
LEMMA HeldTells == Held(NoTx) = <<>> /\ \A t \in Txs : Held(t) = <<t>>
  BY TxsAssumption DEF Held

\* At the host's turn signing has at least got to the blocks of the transaction.
LEMMA HandlerFindsBlocks ==
    ASSUME Build = "BAGL", FantomInv, ConsentInv, Dispatch(SIGN_TX)
    PROVE  IF SigningInProgress
           THEN HandlerContext = ctx /\ ctx.stage \in {"COLLECT", "FINALIZE"}
           ELSE HandlerContext = ClearedContext
<1>1. Running /\ HostTurn /\ currentIns \in {"NONE", SIGN_TX} /\ screen \in BaglScreens
  BY DEF ConsentInv, TurnsFit, Dispatch, FantomInv, Ended, Screens
<1>2. screen \in {"idle", "busy"}
  BY <1>1 DEF HostTurn, InteractiveScreens, BaglScreens
<1>3. QED
  BY <1>1, <1>2 DEF HostTurn, HandlerContext, SigningInProgress, SIGN_TX

LEMMA FailAbandons ==
    ASSUME NEW e, Fail(e)
    PROVE  Promise!PNext
<1>1. currentIns' = "NONE" /\ sent'.kind = "none"
  BY ErrorIsPlain DEF Fail, io_send_buf, ui_idle
<1>2. QED
  BY <1>1, EndsAbandon DEF SigningInProgress, SIGN_TX

LEMMA CrashAbandons ==
    ASSUME NEW why \in {"asserted", "crashed", "exited"}, Crash(why)
    PROVE  Promise!PNext
<1>1. mode' = why /\ sent'.kind = "none"
  BY NoReplyIsPlain DEF Crash
<1>2. QED
  BY <1>1, EndsAbandon DEF SigningInProgress, Running

-----------------------------------------------------------------------------
(* The steps of the other instructions *)

\* A screen of another instruction.
LEMMA OtherScreenAbandons ==
    ASSUME NEW text, NEW confirm, NEW k, Opened(text, confirm, k), k.ins # SIGN_TX
    PROVE  Promise!PNext
  BY EndsAbandon, NoReplyIsPlain DEF Opened, SigningInProgress

LEMMA OtherAnswerAbandons ==
    ASSUME Build = "BAGL", NEW k, NEW c, NEW kind, kind # "signature",
           io_send_buf(Answer(kind, c)), FinishInstruction(k)
    PROVE  Promise!PNext
<1>1. currentIns' = "NONE" /\ sent'.kind = kind
  BY DEF FinishInstruction, ui_idle, io_send_buf, Answer, Reply
<1>2. QED
  BY <1>1, EndsAbandon DEF SigningInProgress, SIGN_TX

LEMMA PublicKeyStepAbandons ==
    ASSUME Build = "BAGL", NEW c, NEW k, k.ins = GET_KEY, runGetPublicKeyUIStep(c, k)
    PROVE  Promise!PNext
<1>1. k.ins # SIGN_TX
  BY DEF GET_KEY, SIGN_TX
<1>2. CASE PublicKeyWarning(c, k)
  BY <1>1, <1>2, PaginatedTextOpens, OtherScreenAbandons DEF PublicKeyWarning
<1>3. CASE PublicKeyPath(c, k)
  BY <1>1, <1>3, PaginatedTextOpens, OtherScreenAbandons DEF PublicKeyPath
<1>4. CASE PublicKeyConfirm(c, k)
  BY <1>1, <1>4, PromptOpens, OtherScreenAbandons DEF PublicKeyConfirm
<1>5. CASE PublicKeyRespond(c, k)
  BY <1>5, OtherAnswerAbandons DEF PublicKeyRespond
<1>6. QED
  BY <1>2, <1>3, <1>4, <1>5, CrashAbandons DEF runGetPublicKeyUIStep

LEMMA AddressStepAbandons ==
    ASSUME Build = "BAGL", NEW c, NEW k, k.ins = GET_ADDR, runGetAddressUIStep(c, k)
    PROVE  Promise!PNext
<1>1. k.ins # SIGN_TX
  BY DEF GET_ADDR, SIGN_TX
<1>2. CASE AddressWarning(c, k)
  BY <1>1, <1>2, PaginatedTextOpens, OtherScreenAbandons DEF AddressWarning
<1>3. CASE AddressPath(c, k)
  BY <1>1, <1>3, PaginatedTextOpens, OtherScreenAbandons DEF AddressPath
<1>4. CASE AddressShow(c, k)
  BY <1>1, <1>4, PaginatedTextOpens, OtherScreenAbandons DEF AddressShow
<1>5. CASE AddressConfirm(c, k)
  BY <1>1, <1>5, PromptOpens, OtherScreenAbandons DEF AddressConfirm
<1>6. CASE AddressRespond(c, k)
  BY <1>6, OtherAnswerAbandons DEF AddressRespond
<1>7. QED
  BY <1>2, <1>3, <1>4, <1>5, <1>6, CrashAbandons DEF runGetAddressUIStep

-----------------------------------------------------------------------------
(* The steps of Sign Transaction *)

\* A screen of the instruction in answer to the user: the process stays where it is.
LEMMA NextScreenProceeds ==
    ASSUME Running, currentIns = SIGN_TX, io_state # "IO", ctx.stage \in {"INIT", "FINALIZE"},
           NEW text, NEW confirm, NEW k, Opened(text, confirm, k), k.ins = SIGN_TX,
           ctx'.stage = ctx.stage, ctx'.path = ctx.path, ctx'.tx = ctx.tx
    PROVE  Promise!PNext
<1>1. SigningInProgress /\ SigningInProgress'
  BY DEF SigningInProgress, Opened, Running
<1>2. io_state' # "IO" /\ sent'.kind # "signature"
  BY NoReplyIsPlain DEF Opened
<1>3. SigningPhase' = SigningPhase /\ ThePath' = ThePath /\ TheTx' = TheTx
  BY <1>1, <1>2, PhaseNow, PhaseNext
<1>4. QED
  BY <1>2, <1>3, SamePhaseProceeds

LEMMA StartCallbackKeepsPromise ==
    ASSUME Build = "BAGL", Running, currentIns = SIGN_TX, io_state # "IO",
           ctx \in Context, ctx.stage = "INIT", NEW k, k.ins = SIGN_TX,
           runSignTransactionInitUIStep(ctx, k)
    PROVE  Promise!PNext
<1>1. \A step : LET d == [ctx EXCEPT !.uiStep = step]
                IN  d.stage = ctx.stage /\ d.path = ctx.path /\ d.tx = ctx.tx
  BY DEF Context
<1>2. CASE SignInitWarning(ctx, k)
  BY <1>1, <1>2, PaginatedTextOpens, NextScreenProceeds DEF SignInitWarning
<1>3. CASE SignInitConfirm(ctx, k)
  BY <1>1, <1>3, PromptOpens, NextScreenProceeds DEF SignInitConfirm
<1>4. CASE SignInitRespond(ctx, k)
  <2>1. /\ SigningInProgress /\ SigningInProgress' /\ sent'.kind = "none"
        /\ ctx'.stage = "COLLECT" /\ ctx'.path = ctx.path /\ ctx'.tx = ctx.tx
    BY <1>4 DEF SignInitRespond, ui_displayBusy, io_send_buf, Answer, Reply, Context,
       SigningInProgress, Running
  <2>2. Promise!Agree
    BY <2>1, PhaseNow, PhaseNext DEF Promise!Agree, ThePath, TheTx
  <2>3. QED
    BY <2>2 DEF Promise!PNext
<1>5. QED
  BY <1>2, <1>3, <1>4, CrashAbandons DEF runSignTransactionInitUIStep

\* The signature that the last step of the review sends is for the path and the
\* transaction of the process.
LEMMA SignRespondReleases ==
    ASSUME Build = "BAGL", Running, currentIns = SIGN_TX, io_state # "IO",
           ctx.stage = "FINALIZE", ctx.signature = ctx.tx, NEW k, SignRespond(ctx, k)
    PROVE  Promise!PNext
<1>1. /\ sent'.kind = "signature" /\ sent'.path = ctx.path /\ sent'.digest = ctx.tx
      /\ ~SigningInProgress'
  BY DEF SignRespond, FinishInstruction, ui_idle, io_send_buf, Answer, Reply,
     SigningInProgress, SIGN_TX
<1>2. SigningInProgress
  BY DEF SigningInProgress
<1>3. Promise!Release
  <2>1. SigningPhase = "review" /\ ThePath = ctx.path /\ TheTx = Held(ctx.tx)
    BY <1>2, PhaseNow
  <2>2. SigningPhase' = "idle" /\ ThePath' = <<>> /\ TheTx' = <<>>
    BY <1>1, PhaseNext
  <2>3. QED
    BY <1>1, <2>1, <2>2 DEF Promise!Release, ThePath, TheTx, Held
<1>4. QED
  BY <1>3 DEF Promise!PNext

LEMMA ReviewCallbackKeepsPromise ==
    ASSUME Build = "BAGL", Running, currentIns = SIGN_TX, io_state # "IO",
           ctx \in Context, ctx.stage = "FINALIZE", ctx.signature = ctx.tx,
           NEW k, k.ins = SIGN_TX, k.callback, runSignTransactionUIStep(ctx, k)
    PROVE  Promise!PNext
<1>1. \A step : LET d == [ctx EXCEPT !.uiStep = step]
                IN  d.stage = ctx.stage /\ d.path = ctx.path /\ d.tx = ctx.tx
  BY DEF Context
<1>2. ASSUME NEW step, NEW what, NEW next, ReviewScreen(step, what, next, ctx, k)
      PROVE  Promise!PNext
  BY <1>1, <1>2, PaginatedTextOpens, NextScreenProceeds DEF ReviewScreen
<1>3. CASE SignConfirm(ctx, k)
  BY <1>1, <1>3, PromptOpens, NextScreenProceeds DEF SignConfirm
<1>4. CASE SignStep(ctx, k)
  BY <1>2, <1>3, <1>4, SignRespondReleases
  DEF SignStep, SignRecipient, SignSender, SignAmount, SignFee, SignContract, SignReview
<1>5. QED
  BY <1>4, CrashAbandons DEF runSignTransactionUIStep, Throw

\* The first block asks for a path the host has named.
LEMMA StartHandlerKeepsPromise ==
    ASSUME Build = "BAGL", FantomInv, ConsentInv, SignTransaction, NEW p2,
           NEW wire \in Wires, handleSignTxInit(HandlerContext, p2, wire)
    PROVE  Promise!PNext
<1> DEFINE c       == HandlerContext
           started == [c EXCEPT !.stage = "INIT", !.responseReady = FALSE, !.sha3 = NoTx,
                                !.path = wire.path, !.uiStep = SignInitFirstStep(wire.path)]
           k       == HandlerCall(SIGN_TX)
<1>1. CASE \E e : Fail(e)
  BY <1>1, FailAbandons
<1>2. CASE SignInitRefusal(c, p2, wire) = "NONE" /\ runSignTransactionInitUIStep(started, k)
  <2>1. Dispatch(SIGN_TX) /\ c.stage = "NONE"
    BY <1>2 DEF SignTransaction, SignInitRefusal
  <2>2. ~SigningInProgress /\ c = ClearedContext
    BY <2>1, HandlerFindsBlocks
  <2>3. /\ started.stage = "INIT" /\ started.path = wire.path /\ started.tx = NoTx
        /\ started.uiStep \in {"INIT_WARNING", "INIT_CONFIRM"}
    BY <2>2 DEF ClearedContext, SignInitFirstStep
  <2>4. k.ins = SIGN_TX /\ Running
    BY <2>1 DEF HandlerCall, Dispatch
  <2> HIDE DEF c
  <2>5. \A step : LET d == [started EXCEPT !.uiStep = step]
                  IN  d.stage = "INIT" /\ d.path = wire.path /\ d.tx = NoTx
    BY <2>2 DEF ClearedContext
  <2> HIDE DEF started, k
  <2>6. ASSUME NEW text, NEW confirm, NEW step, Opened(text, confirm, k),
               ctx' = [started EXCEPT !.uiStep = step]
        PROVE  Promise!PNext
    <3>1. SigningInProgress' /\ ctx'.stage = "INIT" /\ ctx'.path = wire.path /\ ctx'.tx = NoTx
      BY <2>4, <2>5, <2>6 DEF SigningInProgress, Running, Opened
    <3>2. wire.path \in Paths
      BY <1>2 DEF SignInitRefusal, ParsesFromWire, Wires, Wire
    <3>3. SigningPhase = "idle" /\ SigningPhase' = "asked"
      BY <2>2, <3>1, PhaseNow, PhaseNext
    <3>4. ThePath' = wire.path /\ TheTx' = <<>>
      BY <3>1, PhaseNext, HeldTells
    <3>5. sent'.kind = "none"
      BY <2>6, NoReplyIsPlain DEF Opened
    <3>6. Promise!Ask(wire.path)
      BY <3>3, <3>4, <3>5 DEF Promise!Ask, ThePath, TheTx
    <3>7. QED
      BY <3>2, <3>6 DEF Promise!PNext
  <2>7. CASE SignInitWarning(started, k)
    BY <2>6, <2>7, PaginatedTextOpens DEF SignInitWarning
  <2>8. CASE SignInitConfirm(started, k)
    BY <2>6, <2>8, PromptOpens DEF SignInitConfirm
  <2>9. QED
    BY <1>2, <2>3, <2>7, <2>8, CrashAbandons
    DEF runSignTransactionInitUIStep, SignInitRespond
<1>3. QED
  BY <1>1, <1>2, Zenon DEF handleSignTxInit

LEMMA CollectHandlerKeepsPromise ==
    ASSUME Build = "BAGL", FantomInv, ConsentInv, SignTransaction, NEW p2,
           NEW wire \in Wires, handleSignTxCollect(HandlerContext, p2, wire)
    PROVE  Promise!PNext
<1> DEFINE c == HandlerContext
<1>1. CASE \E e : Fail(e)
  BY <1>1, FailAbandons
<1>2. CASE SignCollectRefusal(c, p2, wire) = "NONE" /\ \E after : CollectAnswer(after)
  <2>1. Dispatch(SIGN_TX) /\ c.stage = "COLLECT"
    BY <1>2 DEF SignTransaction, SignCollectRefusal
  <2>2. SigningInProgress /\ c = ctx /\ ctx \in Context /\ ctx.stage = "COLLECT"
    BY <2>1, HandlerFindsBlocks DEF ClearedContext, FantomInv
  <2>3. SigningPhase = "loading" /\ ThePath = ctx.path /\ TheTx = Held(ctx.tx)
    BY <2>2, PhaseNow
  <2>4. ASSUME NEW after, CollectAnswer(after)
        PROVE  /\ SigningInProgress' /\ ctx' = after /\ sent'.kind = "stage"
               /\ io_state' = "IO"
    BY <2>1, <2>4 DEF CollectAnswer, io_send_buf, ui_displayBusy, HandlerCall, Answer, Reply,
       SigningInProgress, Dispatch, Running
  <2> HIDE DEF c
  <2>5. CASE CollectAnswer(StreamProcessing(c))
    <3>1. LET d == StreamProcessing(c)
          IN  d.stage = "COLLECT" /\ d.path = ctx.path /\ d.tx = ctx.tx
      BY <2>2 DEF StreamProcessing, Context
    <3>2. SigningPhase' = "loading" /\ ThePath' = ctx.path /\ TheTx' = Held(ctx.tx)
      BY <2>4, <2>5, <3>1, PhaseNext
    <3>3. QED
      BY <2>3, <2>4, <2>5, <3>2, SamePhaseProceeds
  <2>6. CASE \E t \in Txs : CollectAnswer(StreamFinished(c, t))
    <3>1. PICK t \in Txs : CollectAnswer(StreamFinished(c, t))
      BY <2>6
    <3>2. LET d == StreamFinished(c, t)
          IN  d.stage = "FINALIZE" /\ d.path = ctx.path /\ d.tx = t
      BY <2>2 DEF StreamFinished, Context
    <3>3. SigningPhase' = "loaded" /\ ThePath' = ctx.path /\ TheTx' = Held(t)
      BY <2>4, <3>1, <3>2, PhaseNext
    <3>4. sent'.kind = "stage"
      BY <2>4, <3>1
    <3>5. Promise!Load(Held(t))
      BY <2>3, <3>3, <3>4 DEF Promise!Load, ThePath, TheTx
    <3>6. QED
      BY <3>5 DEF Promise!PNext
  <2>7. CASE \E e : Fail(e)
    BY <2>7, FailAbandons
  <2>8. QED
    BY <2>5, <2>6, <2>7, Zenon DEF handleSignTxCollect, c
<1>3. QED
  BY <1>1, <1>2, Zenon DEF handleSignTxCollect

LEMMA FinalizeHandlerKeepsPromise ==
    ASSUME Build = "BAGL", FantomInv, ConsentInv, SignTransaction, NEW p2,
           NEW wire \in Wires, handleSignTxFinalize(HandlerContext, p2, wire)
    PROVE  Promise!PNext
<1> DEFINE c == HandlerContext
           d == SignDigest(c)
           k == FinalizeCall
<1>1. CASE \E e : Fail(e)
  BY <1>1, FailAbandons
<1>2. CASE Crash("asserted")
  BY <1>2, CrashAbandons
<1>3. CASE SignFinalizeRefusal(c, p2, wire) = "NONE" /\ runSignTransactionUIStep(d, k)
  <2>1. Dispatch(SIGN_TX) /\ c.stage = "FINALIZE" /\ c.tx.ours
    BY <1>3 DEF SignTransaction, SignFinalizeRefusal
  <2>2. SigningInProgress /\ c = ctx /\ ctx \in Context /\ ctx.stage = "FINALIZE"
    BY <2>1, HandlerFindsBlocks DEF ClearedContext, FantomInv
  <2>3. ctx.tx \in Txs /\ ctx.tx.ours
    BY <2>1, <2>2 DEF SigningInProgress, ConsentInv, TurnsFit, ContextFits
  <2>4. io_state = "IO" /\ Running
    BY <2>1 DEF Dispatch
  <2>5. k.ins = SIGN_TX
    BY DEF FinalizeCall, HandlerCall
  <2> HIDE DEF c, k
  <2>6. /\ d.uiStep = "TX_RECIPIENT"
        /\ \A step : LET e == [d EXCEPT !.uiStep = step]
                     IN  e.stage = "FINALIZE" /\ e.path = ctx.path /\ e.tx = ctx.tx
    BY <2>2 DEF SignDigest, Context
  <2> HIDE DEF d
  <2>7. ASSUME SignRecipient(d, k)
        PROVE  Promise!PNext
    <3>1. /\ Opened({Item("recipient", d)}, "runSignTransactionUIStep", k)
          /\ ctx' = [d EXCEPT !.uiStep = "TX_SENDER"]
      BY <2>7, PaginatedTextOpens DEF SignRecipient, ReviewScreen
    <3>2. /\ SigningInProgress' /\ ctx'.stage = "FINALIZE" /\ ctx'.path = ctx.path
          /\ ctx'.tx = ctx.tx /\ io_state' # "IO" /\ sent'.kind = "none"
      BY <2>4, <2>5, <2>6, <3>1, NoReplyIsPlain DEF SigningInProgress, Running, Opened
    <3>3. /\ SigningPhase = "loaded" /\ SigningPhase' = "review"
          /\ ThePath' = ThePath /\ TheTx' = TheTx /\ TheTx = Held(ctx.tx)
      BY <2>2, <2>4, <3>2, PhaseNow, PhaseNext
    <3>4. Promise!Review
      BY <2>3, <3>2, <3>3 DEF Promise!Review, ThePath, TheTx
    <3>5. QED
      BY <3>4 DEF Promise!PNext
  <2>8. SignStep(d, k) => SignRecipient(d, k)
    BY <2>6 DEF SignStep, SignSender, SignAmount, SignFee, SignContract, SignConfirm,
       SignReview, SignRespond, ReviewScreen
  <2>9. QED
    BY <1>3, <2>7, <2>8, CrashAbandons, FailAbandons DEF runSignTransactionUIStep, Throw
<1>4. QED
  BY <1>1, <1>2, <1>3, Zenon DEF handleSignTxFinalize

-----------------------------------------------------------------------------
(* The steps of the host, the user and the device *)

LEMMA HostKeepsPromise ==
    ASSUME Build = "BAGL", FantomInv, ConsentInv, Host
    PROVE  Promise!PNext
<1>1. CASE \E e : Fail(e)
  BY <1>1, FailAbandons
<1>2. CASE GetVersion
  <2>1. PICK p1 \in P1s, p2 \in P2s, wire \in Wires :
            handleGetVersion(HandlerContext, p1, p2, wire)
    BY <1>2 DEF GetVersion
  <2>2. CASE io_send_buf(Answer("version", HandlerContext)) /\ ui_idle
    BY <2>2, EndsAbandon
    DEF io_send_buf, ui_idle, Answer, Reply, SigningInProgress, SIGN_TX
  <2>3. QED
    BY <1>1, <2>1, <2>2, Zenon DEF handleGetVersion
<1>3. CASE GetPublicKey
  <2>1. PICK p1 \in P1s, p2 \in P2s, wire \in Wires :
            handleGetPublicKey(HandlerContext, p1, p2, wire)
    BY <1>3 DEF GetPublicKey
  <2>2. HandlerCall(GET_KEY).ins = GET_KEY
    BY DEF HandlerCall
  <2>3. ASSUME NEW c, runGetPublicKeyUIStep(c, HandlerCall(GET_KEY)) PROVE Promise!PNext
    BY <2>2, <2>3, PublicKeyStepAbandons
  <2>4. ASSUME Crash("asserted") PROVE Promise!PNext
    BY <2>4, CrashAbandons
  <2>5. QED
    BY <1>1, <2>1, <2>3, <2>4, Zenon DEF handleGetPublicKey
<1>4. CASE GetAddress
  <2>1. PICK p1 \in P1s, p2 \in P2s, wire \in Wires :
            handleGetAddress(HandlerContext, p1, p2, wire)
    BY <1>4 DEF GetAddress
  <2>2. HandlerCall(GET_ADDR).ins = GET_ADDR
    BY DEF HandlerCall
  <2>3. ASSUME NEW c, runGetAddressUIStep(c, HandlerCall(GET_ADDR)) PROVE Promise!PNext
    BY <2>2, <2>3, AddressStepAbandons
  <2>4. ASSUME Crash("asserted") PROVE Promise!PNext
    BY <2>4, CrashAbandons
  <2>5. QED
    BY <1>1, <2>1, <2>3, <2>4, Zenon DEF handleGetAddress
<1>5. CASE SignTransaction
  <2>1. PICK p1 \in P1s, p2 \in P2s, wire \in Wires :
            handleSignTransaction(HandlerContext, p1, p2, wire)
    BY <1>5 DEF SignTransaction
  <2>2. QED
    BY <1>1, <1>5, <2>1, StartHandlerKeepsPromise, CollectHandlerKeepsPromise,
       FinalizeHandlerKeepsPromise, Zenon
    DEF handleSignTransaction
<1>6. QED
  BY <1>1, <1>2, <1>3, <1>4, <1>5
  DEF Host, RefuseUnexpected, RefuseHeader, RefuseOtherInstruction

\* The callback of a screen runs in the phase its screen was opened in.
LEMMA ButtonConfirmKeepsPromise ==
    ASSUME Build = "BAGL", FantomInv, ConsentInv, ButtonConfirm
    PROVE  Promise!PNext
<1> DEFINE k == CallbackCall
<1>1. io_state # "IO" /\ UserTurn /\ Running /\ ctx \in Context
  BY ScreenTellsTurn
  DEF ButtonConfirm, UserActs, InteractiveScreens, BaglScreens, FantomInv
<1>2. display.guard = FlowGuard /\ display.confirm = CallbackOf(currentIns, ctx.stage)
  BY <1>1 DEF UserTurn, CallbackIsLive, ButtonConfirm
<1>3. RunCallback(display.confirm, k)
  BY <1>2 DEF ButtonConfirm, GuardFails
<1>4. k.ins = currentIns /\ k.callback
  BY DEF CallbackCall
<1> HIDE DEF k
<1>5. CASE currentIns = GET_KEY
  BY <1>2, <1>3, <1>4, <1>5, CallbacksAreThose, PublicKeyStepAbandons DEF RunCallback
<1>6. CASE currentIns = GET_ADDR
  BY <1>2, <1>3, <1>4, <1>6, CallbacksAreThose, AddressStepAbandons DEF RunCallback
<1>7. CASE currentIns = SIGN_TX /\ ctx.stage = "INIT"
  BY <1>1, <1>2, <1>3, <1>4, <1>7, CallbacksAreThose, StartCallbackKeepsPromise
  DEF RunCallback
<1>8. CASE currentIns = SIGN_TX /\ ctx.stage = "FINALIZE" /\ ctx.signature = ctx.tx
  BY <1>1, <1>2, <1>3, <1>4, <1>8, CallbacksAreThose, ReviewCallbackKeepsPromise
  DEF RunCallback
<1>9. QED
  BY <1>1, <1>5, <1>6, <1>7, <1>8 DEF UserTurn, Agreed, ReviewAgreed

LEMMA UserKeepsPromise ==
    ASSUME Build = "BAGL", FantomInv, ConsentInv, User
    PROVE  Promise!PNext
<1>1. CASE ButtonReject
  <2>1. CASE GuardFails
    BY <2>1, CrashAbandons DEF GuardFails
  <2>2. CASE ui_respondWithUserReject(CallbackCall)
    <3>1. currentIns' = "NONE" /\ sent'.kind = "none"
      BY <2>2, ErrorIsPlain
      DEF ui_respondWithUserReject, io_send_buf, FinishInstruction, ui_idle
    <3>2. QED
      BY <3>1, EndsAbandon DEF SigningInProgress, SIGN_TX
  <2>3. QED
    BY <1>1, <2>1, <2>2 DEF ButtonReject
<1>2. CASE Quit
  BY <1>2, CrashAbandons DEF Quit
<1>3. QED
  BY <1>1, <1>2, ButtonConfirmKeepsPromise
  DEF User, TouchConfirm, TouchReject, TouchRejectReview, TouchGoBack, TouchRejectForGood,
      ReturnHome

LEMMA StutterKeepsPromise ==
    ASSUME UNCHANGED <<mode, io_state, currentIns, ctx>>, sent' = NoReply
    PROVE  Promise!PNext
  BY SamePhaseProceeds, NoReplyIsPlain
  DEF SigningPhase, ThePath, TheTx, SigningInProgress, Running

LEMMA DeviceKeepsPromise ==
    ASSUME Device
    PROVE  Promise!PNext
<1>1. CASE Lock \/ Unlock
  BY <1>1, StutterKeepsPromise DEF Lock, Unlock
<1>2. CASE IoReset \/ Restart
  <2>1. currentIns' = "NONE" /\ sent' = NoReply
    BY <1>2 DEF IoReset, Restart, Boot, ui_idle
  <2>2. QED
    BY <2>1, EndsAbandon, NoReplyIsPlain DEF SigningInProgress, SIGN_TX
<1>3. QED
  BY <1>1, <1>2 DEF Device

LEMMA InitKeepsPromise == Init => Promise!PInit
  BY NoReplyIsPlain DEF Init, Promise!PInit, SigningPhase, SigningInProgress, SIGN_TX

LEMMA UnchangedKeepsPromise == UNCHANGED vars => UNCHANGED Promise!pvars
  BY DEF vars, Promise!pvars, SigningPhase, SigningInProgress, Running

\* On a Nano the application keeps its promise about signing: whatever the order of
\* requests, buttons, errors and resets, a signature is released once, for the path the
\* user agreed to and the transaction that was loaded for it and reviewed
\* (get_tx_sign.c with the main loop).  On Stax it does not: see the run stale_review.
THEOREM NanoKeepsPromise ==
    ASSUME Build = "BAGL"
    PROVE  Spec => KeepsPromise
<1>1. (FantomInv /\ ConsentInv) /\ [Next]_vars => [Promise!PNext]_(Promise!pvars)
  BY HostKeepsPromise, UserKeepsPromise, DeviceKeepsPromise, UnchangedKeepsPromise DEF Next
<1>2. Spec => [](FantomInv /\ ConsentInv)
  BY ConsentInvHolds
<1>3. QED
  BY <1>1, <1>2, InitKeepsPromise, PTL DEF Spec, KeepsPromise, Promise!PSpec
=============================================================================
