# The Fantom application for Ledger devices: a verification project

TLA+ models of the application in this repository, TLC runs over small instances of
them, and theorems checked by TLAPS. The application signs Fantom transactions on a
Nano (two buttons, the *BAGL* build) or a Stax (touch screen, the *NBGL* build). What
has to be right is that nothing is signed or exported unless the user has seen and
acknowledged exactly that, that the host and the user can never get the device into a
state nobody can leave, and that what is hashed is what was shown.

## 1. The system

### 1.1 Parts

| part | state it keeps | operations | what makes it correct |
|---|---|---|---|
| main loop, I/O (`main.c`, `io.c`, `handlers.c`, `state.c`) | `io_state`, `currentIns`, the union `instructionState`, the device's PIN lock | one request or one user event per turn; exception handler; reset on USB loss | an error or a reset leaves no half-finished instruction; host and user take turns |
| Get Version (`get_version.c`) | none | one request, one answer | is never in the way of another instruction |
| Get Public Key (`get_pub_key.c`) | path, UI step, response tag | policy, warning, path, export question, answer | the key leaves only with the user's consent for its path |
| Get Address (`get_address.c`) | path, what to show, UI step, response tag | policy, warning, path, address, answer | an address the host asked to have shown was shown |
| Sign Transaction (`get_tx_sign.c`) | stage, UI step, path, SHA3 state, transaction, stream, signature | new transaction, data block, get signature; two chains of UI steps | consent, load, review, one signature, in this order and about one transaction |
| screens, Nano (`ui_helpers.c`, `ui_basic_flows_bagl.c`) | `displayState`: guard, one-shot callback, text | text, prompt, busy, idle; confirm and reject | a press runs the callback of the screen that is shown, once |
| screens, Stax (`ui_basic_flows_nbgl.c`) | static callbacks, page contents | warning, review, address and key pages, rejection, status page | the same, with callbacks that outlive their instruction |
| paths and policies (`bip44.c`, `policy.c`) | none | parse, classify, decide | unusual paths are warned of; the three instructions agree |
| transaction stream (`tx_stream.c`, `rlp_utils.c`) | field, position, header buffer, block, SHA3 state | one block: headers, fields, copy, hash | independent of how the host cuts the message; fields shown are bytes hashed |
| transaction values (`transaction.c`) | a buffer of digits per call; the signature's container in the context | V, amount, fee, signature | the text is the number and stays in its buffer; the response holds the signature's numbers |
| 256 bit integers (`uint256.c`) | none | from bytes, compare, add, subtract, multiply, divide, to digits | they agree with arithmetic |
| keys and addresses (`derive_key.c`, `address_utils.c`) | uses the caller's SHA3 state | derive, hash, checksum casing, export of a key | the caller's hash is not disturbed before it is used; a text has its own checksum; an exported key tells its point |

### 1.2 How they interact

The host sends requests; the main loop checks them in a fixed order (is it the host's
turn, is the device locked, header, class, instruction, is another instruction in
progress) and calls a handler. The handler decides by a policy, then either answers or
opens a screen and sets `io_state` to `IO_EXPECT_UI`. A user's press calls the
callback of the screen from inside the event handler of `io_exchange`; the callback is
the next UI step, which opens the next screen or answers. Everything is shared: the
instruction contexts live in one union, the screens share one buffer, and the SHA3
state of the transaction is also the one used to derive the sender's address.

### 1.3 What is hard

- Requests arrive while a screen is open; presses arrive after a request has closed it.
- The stages of a transaction can be called in any order, repeatedly.
- A callback runs while the display state it belongs to is being replaced.
- On Stax an instruction is over for the host before it is over for the application: a
  status page ends it later, and requests may come in between.
- The power of USB goes away at any time; `main` starts its loop again with old memory.
- A path passes one length check and fails a later one, in an assertion.
- A block of the transaction ends anywhere: within a header, after it, within a field.
- A byte below 0x80 is header and value at once; it is read twice and hashed once.
- Numbers of 256 bits are written by hand over words of 64: carries across halves and
  columns, an aligned division, digits in a buffer they may not fit.
- The conversions write into buffers, on the stack and in the context, that may hold
  something else already: a value shorter than its container leaves the rest.

Each is listed in `PROJECT.json` under `hazards` at the line where it bites, with the
properties that would notice.

## 2. The modules

    Bip44 <- Policy <- FantomState <- FantomUi <- FantomApp <- FantomCorrectness <- MCFantom
                    \                                          |     \- FantomProofs <- ConsentProofs
                     \- PathRequests <- MCPathRequests         SigningProtocol (abstract)
                                     \- PathRequestsProofs
    Rlp <- TxStream <- TxStreamCorrectness <- MCTxStream
                                           \- TxStreamProofs <- TxStreamReadingProofs
    Numerals <- Uint256 <- Amounts --\
            \                         Conversions <- MCValues
             \- Encodings -----------/         \
    NumeralsProofs <- Uint256Proofs <----------- ConversionsProofs

(`A <- B`: B extends A. `FantomCorrectness` instantiates `SigningProtocol`. Each module of
proofs also extends the module it is about: `NumeralsProofs` extends `Numerals`,
`Uint256Proofs` `Uint256`, `ConversionsProofs` `Conversions`.)

| module | models | correspondence |
|---|---|---|
| `Bip44` | `bip44.c`, the assertions on paths in `derive_key.c` | an element is a record of index and hardened bit; each predicate is one operator of the same name; `PathPrints` is the outcome of writing a path into a buffer of a given size, by the length of its text |
| `Policy` | `policy.c` | one operator per policy, its cases in the order of the code |
| `FantomState` | the globals; how code ends | `io_send_buf`, `ui_idle`, `Fail` (the exception handler), `Crash` (a failed `ASSERT`), `Throw` |
| `FantomUi` | `ui_helpers.c`, both `ui_basic_flows_*.c` | one operator per screen function; `display` is `displayState` on a Nano, the static callbacks and contents on Stax |
| `FantomApp` | `main.c`, `io.c`, the four instructions | `Host`: one action per way the main loop treats a request; `User`: one action per thing the user can do; `Device`: lock, unlock, reset, restart |
| `FantomCorrectness` | properties | invariants, action properties, refinement mapping, fairness |
| `SigningProtocol` | what signing promises, abstractly | ask, agree, load, review, release, abandon |
| `PathRequests` | a path growing element by element | properties of the policies over all paths |
| `Rlp`, `TxStream` | `rlp_utils.c`, `tx_stream.c` | `txStreamInit` begins a message, `txStreamProcess` takes a block of any size, `txStreamParse` is one turn of the loop over it |
| `TxStreamCorrectness` | properties | a declarative reading of a whole message, against which the parser is compared |
| `Numerals` | nothing of its own | powers, and the number that digits denote, as recursive functions; the provers know nothing of `^`, and can reason about these |
| `Uint256` | `uint256.c` but for the loop over digits | one operator per function, of the same name; a number is a pair of halves, a word a natural number below `Word`, and every sum on words is taken modulo `Word` |
| `Amounts` | `txGetFormattedAmount`, `txGetFormattedFee`, `adjustDecimals`, `uint256ToString` | one action per call, per turn of the loop over digits, per way out of it, and for the placement of the point |
| `Encodings` | `addressFormatStr`, `txGetSignature` from the encoded signature on, `extractRawPublicKey`, `deriveExtendedPublicKey` | one action per function; what it made, and of what, is the state |
| `Conversions` | the two together, one conversion at a time | the application is sequential |

`PROJECT.json`, under `map`, gives for every definition the lines it stands for.

### 2.1 Decisions that shape the model

*Steps.* The application is sequential and blocks only in `io_exchange`. All code
between two waits, callbacks and the exception handler included, is one step. Requests,
presses, locks and resets interleave between steps, in every order.

*History.* `sent` is the response of the last step and `seen` what the user has
acknowledged since the instruction began. No guard reads them.

*Data.* A path is a sequence of elements. A transaction is a record of what the code
tells apart: its identity, whether its V names the Fantom chain, whether it looks like
a contract call, and which of amount and fee cannot be formatted. A SHA3 state is
named by what it has absorbed: nothing, a part, a transaction, something else. In
`FantomApp` a data block has a verdict (more to come, done, fault); `TxStream` models
how the verdict comes about. An APDU is its instruction, P1, P2 and whether its data
has the size the handler asks for.

*Union.* `instructionState` is cleared before a new instruction, so one record with the
fields of all three members stands for it. After an instruction ends its contents stay,
as in the code, until the next one clears them. What a refused request writes into the
union before it fails is left out for the same reason: the error ends the instruction,
and the union is cleared before it is read again.

*Resets.* A failed assertion stops the model in mode `asserted` with the state as it
was; an exception in a BAGL callback, which `TRY_CATCH_UI` turns into a reset, in
`crashed`. `Restart` enters `main` afresh. `IoReset` is the loss of USB power or the
reset exception: the loop starts again with memory as it was. A reset that arrives while a
response is being sent gives the same states and has no action of its own.

*External.* The SDK is modelled from how the code uses it: a new flow or page replaces
the old one, the dialog that lies over a Stax page included; a status page ends by a
touch or by its timer; while the device is locked it shows its own screen and the
application's screen gets no presses.

*Bytes.* In `TxStream` a message is a sequence of bytes and a copied field the sequence
of positions its bytes came from, so that a shifted or doubled byte is visible. Lengths
stay below 2^31. Writing V past its buffer makes the status `UNDEFINED`, which no step
leaves.

*Words.* The size of a word, of a byte and of every buffer is a parameter of
`Uint256`, `Amounts` and `Encodings`. A number keeps its width: sums, products, shifts
wrap where they do in C. The names keep the 64, 128 and 256 of the code.

*Characters.* The text of an amount is a sequence of digits and a point; that of an
address a sequence of hexadecimal digits, each folded to a capital or not. The hash is a
constant operator from texts to digits. What is on the stack before a function writes there is
any of several contents.

*Who calls.* `FantomApp` knows of a conversion whether it succeeds and what it does to
the SHA3 state; `Conversions` has what comes out. They meet in the transaction's record
of which of amount and fee do not fit.

## 3. The runs

| run | question | bounds |
|---|---|---|
| `bagl` | Nano: consent, turns, end of instructions, the signing protocol, progress | 8 paths, 5 transactions; all request, press, lock, reset interleavings |
| `nbgl` | Stax: the same where it holds, status pages | same |
| `stream` | hashing, fields, verdict and termination of the parser, for every cutting | one plain transaction and every message that differs from it in one item, in its envelope or by its end |
| `policies` | silent addresses, agreement, monotony | paths of up to 6 elements from 9 |
| `values` | amounts, fees, addresses, signatures and keys as they leave the device | words of 2 bits, numbers of 8; every field of 0 to 8 bytes of one bit; 256 prices by 10 volumes; base 3, 2 decimals, buffers of 5, 6 and 12; addresses of up to 4 digits out of 4; signatures and points of 2 bytes of 2 bits, all of them |
| `stale_review`, `key_path_cut`, `unusual_change`, `overlong_v`, `fee_carry`, `text_terminator`, `short_address` | a statement of the documentation or of a comment that the code does not keep | the instance of the component |

Why the bounds are enough. Paths enter `FantomApp` only through the policies, through
equality, and through four limits of length (of the container, of the text
buffers, of the key page on Stax); `MCPaths` has one path for each
combination of verdicts that occurs and one on each side of each limit. Transactions enter
through four features; `MCTxs` has one for each outcome of the review. Two different
transactions and two different paths are enough to confuse one with another. No counter
or history grows, so the state graph is complete: runs are not cut off. In
`policies` the elements stand on both sides of every boundary in the code, and no
policy tells apart paths longer than five elements. In `stream` the parser handles each item
on its own and carries only the field's number, the position and the buffer to the
next, so one unusual item at a time, in every field, in every cutting, meets each of
its branches. The messages with an overlong V are in the run
`overlong_v`, not in `stream`: the behaviour after the overflow is undefined.

In `values` the sizes keep the relations of the code: a number has four words and a word
an integral number of bytes; a digit product of two half words has two halves, each
column of 3, 5 and 7 of them overflows its word (in `mul128` a sum of 3 half words fits a
word, as it does at 64 bits); the base is less than a word; the buffer of the digits (5)
is shorter than the longest number (6 digits in base 3); of the callers' buffers one
(6, as 40 on a Nano) refuses texts that the digits allow and one (12) does not; there are numbers with
fewer, as many and more digits than decimal places. Every number of 8 bits is written, and
every difference and quotient that this meets is computed. In `Encodings` a digit of an
address is or is not a letter, a byte has its top bit or not, a number of a signature is
encoded with one byte too few, exactly, and one too many.

`policies` alone does not check for deadlock: a path that has its full length
does not grow further. Everywhere else some step is always possible; in
`TxStream` the host may begin another message when a message is over.

### 3.1 What the properties say

`SignatureReviewed`, `KeyExportApproved` and `AddressApproved` relate a response to
what the user has acknowledged, across all the screens of the instruction
(`KeyExportConfirmed` is what holds on Stax, where the path may have been cut);
`SignatureCoversReviewedTx` relates the digest to the transaction although the hash
state is reused; `DisplayedIsCurrent` relates the text on display to the context the
next step uses. `UserTurnIsAnswerable` says when it is the user's turn and that the
screen's callback is alive and belongs to the instruction and stage in progress: no
deadlock between a host told to wait and a user with nothing to press.
`UserAnswersOpenRequest` says the user's steps answer no request twice.
`ErrorEndsInstruction` and `OtherErrorEndsInstruction` are the reset on errors, with
and without the user's rejection. `ScreenTellsInstruction` ties the idle and busy
screens to what is in progress (Nano). `ResetIsExplained` lists all the reasons for which
an assertion can fail: all others hold. `KeepsPromise` is refinement: the whole Nano
application implements `SigningProtocol`.

`HashedOnceInOrder`, `AllIsHashed` and `FieldsAreThoseHashed` compare what was hashed and
copied with a declarative reading of the whole message. `VerdictIsOfTheBytes` says which
of the three answers a block gets from that reading of the bytes sent so far: finished if
they begin with a transaction, a fault if a header among them is too long, of the wrong
kind or announces too much for its field (`IsMalformed`), more wanted otherwise.

`SilentIsStandard` says which paths get an address without a question, `PoliciesAgree`
how the verdicts of the instructions relate, `ScrutinyGrows` that no policy is milder
with a longer path.

`NumberIsThatOfTheFields` relates the number to the bytes on the wire: equal for an
amount, the product for a fee, but for the carry of finding 1. `TextDenotesNumber` reads
the text back: it stands for the number, and no other text does. `PayableIsShown` says
for which numbers a review may be broken off, `TextFitsItsBuffer` that nothing is
written behind a buffer, the trailing zeroes that are taken off again
included. `AddressTextVerifies` is what a reader of the text checks;
`SignatureIsDecoded` decodes what an encoder made, for every length of its numbers: their
bytes are at the right ends of the containers, whatever these held, and a cleared
container holds the number. In front of a short number in a container that was not cleared
an old signature shows through, and of that the property says nothing; the container is
cleared when a transaction begins, and only a repeated last block (finding 4) meets one
that is not. `KeyTellsPoint` is what a client can recover from an exported key. It is not
the point: for a Y with its top bit set, the parity of X is lost.

`UnusualChangeIsWarned` (finding 7) uses BIP44's own criterion, a change element that is 0 or
1 (`HasBip44Change`), not the function `bip44_hasValidChangeType`, which is satisfied
by every element.

### 3.2 Progress and fairness

- `SF(ButtonConfirm)`, `SF(TouchConfirm \/ TouchRejectForGood)`: the user who is asked
  keeps answering. `io_exchange` delivers every event, so an action that is offered
  again and again is taken in the end; a weak form is not enough because the device may lock
  in between, which disables it. On Stax a user who opens the rejection dialog either
  rejects or goes back, and does not do the latter for ever.
- `WF(Unlock)`: the user unlocks the device.
- `SF(ReturnHome)`: the status page has a timer of its own.
- `WF(txStreamParse)`: the parser's loop is a loop of sequential code.

Nothing is assumed of the host. With these, `RequestsAreAnswered`, `StatusPageEnds`
and `BlockIsAnswered` hold.

## 4. The proofs

The theorems hold for every set of paths and transactions, both builds, all messages.
Assumptions on the constants, checked by TLC on the instances:

- `BuildAssumption`, `PathsAssumption`, `TxsAssumption`: the build is one of two, paths
  are paths, transactions are records that differ from the three special hash contents;
- `MessagesAssumption`: messages are sequences of bytes;
- `ElementsAssumption`, `MaxLengthAssumption`: path elements are elements, the bound on
  the length is a number;
- `HalfAssumption`, `BitsAssumption`: a word has two halves, each some number of bits, and
  is cut into whole bytes;
- `SizesAssumption`, `FieldsAssumption`, `EncodingsAssumption`: sizes are numbers, fields are
  sequences of at most 32 bytes;
- `RoomAssumption`: the buffer of every caller has room for an amount below one FTM with
  all its places. The code has buffers of 40 and 200 bytes and 18 places; with 21 bytes
  and less every amount below one FTM would be refused.

Induction is done in the open. `NumeralsProofs` takes the least element of a set of
counterexamples (`Induction`, from the library's theorem that the numbers are well
founded); and a recursive function is unfolded by naming a table that satisfies its
equation (`TableExists`), since only then does its `CHOOSE` choose one. `Power` and
`Denoted` get their laws in this way once: what digits denote is below the power, is the
number they were taken from, and is put together from that of parts.

`FantomProofs`. The steps of the application write all the globals, through operators that
call each other; a preservation proof per conjunct would repeat the whole call
tree. `Ended` therefore states once what holds after any step, but for the context and
what was seen: every global has its type, and a response that is an error comes with no
instruction in progress, or is the rejection by a Stax user. `FantomInv` adds the types
of `ctx` and `seen`. Each way for code to end (`io_send_buf` with `ui_idle`, `Fail`,
`Crash`, `Throw`) and each screen has a lemma, each UI step and handler is a combination
of those, and the step theorem has one case per action of `Next`. Theorems:
`ApplicationIsTyped`, `OtherErrorsEndInstructions`, and, for the Nano only,
`ErrorsEndInstructionsOnNano`; on Stax the latter is false.

`ConsentProofs`. What leaves the device was agreed to. No such property is inductive: the
response is sent by the step that `ctx.uiStep` names, long after the questions were put.
`ConsentInv` therefore says for each UI step what the user has acknowledged by the time its callback
runs (`KeyAgreed`, `AddressAgreed`, `StartAgreed`, `ReviewAgreed`), counting what the
screen on display is about to add (`Pending`); that a callback is only ever run for the
step its screen was opened for, because the screen, the callback behind it, the
instruction and the stage belong together while the user has the word (`UserTurn`) and no
screen that asks is open while the host has it (`HostTurn`); and that the context of a
signature has a transaction exactly from the stage FINALIZE on (`ContextFits`). TLC
checked it first, on both builds. One lemma per way to open a screen, to reply and to
end, one per UI step and per handler, one case per action.

Theorems for both builds: `SignaturesAreReviewed`, `KeyExportsAreConfirmed`,
`AddressesAreApproved`, `UserTurnsAreAnswerable`, `DisplaysAreCurrent`,
`ResetsAreExplained`, and the action property `UserAnswersOnlyOpenRequests`. For the Nano
only: `SignaturesCoverReviewOnNano` and `KeyExportsAreApprovedOnNano`, which Stax violates
(the runs `stale_review` and `key_path_cut`), and `ScreensTellInstructionOnNano`.

`NanoKeepsPromise` is the refinement: every step of the Nano is one of `SigningProtocol`
under the mapping of `FantomCorrectness`, or a stutter. Steps of the other
instructions, errors and resets abandon what was begun; for those of a signature the
phase is found from stage and turn, and that the digest released is that of the
transaction held from `ConsentInv`.

`TxStreamProofs`. That every byte is hashed once follows only from where the parser
believes it stands. `StreamInv` says:
the pointer into the block and the bytes left of it add up to what was received
(`Consistent`); between two turns of the loop exactly the bytes before the pointer have
been hashed, as 1, 2, 3, ... (`Sound`); once the header of a field is complete, the same
holds, or the pointer stands on a byte that is its own header and is the last byte
hashed (`Begun`, used within a turn); after a fault or an overflow what was hashed is
still a beginning of the message (`Failed`); and nothing of a block is left while the
host has the word. One lemma per kind of turn of the loop: a header byte, a header
complete, a self-encoded byte, a copy, the end of a field, an exhausted block.
Theorems: `StreamIsTyped`, `BytesAreHashedOnceInOrder`, `AllSentIsHashed`.

`TxStreamReadingProofs`. The parser, which sees a block at a time, finds what a reading of
the whole message finds (`FieldStarts`, recursive over the fields). `ReadingInv` adds to
`StreamInv` where in the message the parser is: the current field starts where the
reference says, the header read so far is the bytes there (`InHeader`) or what was decoded
is what they encode (`InPayload`), and of this field and each before it exactly its own
bytes have been copied (`PastFields`); after a fault a header that is to blame has been
received (`MalformedBy`). It was checked with TLC on both sets of messages first.
`FieldsShownAreThoseHashed` follows at once. For `VerdictsAreOfTheBytes` what is known of
the message has to be told of the bytes sent: a header or an item reads the same in a
beginning of the message that has all of it (`HeadersOfPart`, `ItemsOfPart`), so the fields
have the same places in it as far as they are reached (`PlacesOfPart`), and it is malformed
exactly if `MalformedBy` holds (`MalformedOfPart`). While more is wanted, the parser is
within the current field, the fields before it have been accepted, those behind
it are still to come, and its own header is incomplete or accepted (`WaitingIsWithin`,
`WaitingIsNotMalformed`).

`PathRequestsProofs`. The policies' properties for paths of any length:
`SilentForStandardPaths`, `PoliciesNeverDisagree`, and the action property
`MoreElementsMoreScrutiny`, from the invariant that the path is a sequence of elements.
`ChangeCheckIsVacuous`: `bip44_hasValidChangeType` accepts every path with a fourth element.

`Uint256Proofs`. For words of any size `gt256`, `add256` and `minus256` are comparison,
sum and difference of the numbers, modulo 2^256: `GreaterIsGreater`, `SumIsModular`,
`DifferenceIsModular`. The argument is the same at both levels: a sum of digits is short
by the base exactly if it is less than one of its operands (`WordSum`,
`WordDifference`), so the carry into the next digit is right, and what is lost at the
top is a multiple of the modulus (`Carried`, `Remainder`).

`ProductIsModularButForCarry` says what `mul256` returns, the defect included: `mul128` of two words
is exact (`ProductOfWords`, by halves); the ten products of words are placed in columns
whose weights they have (`ColumnsPlaced`); and the result is the product up to a multiple of
2^256, but for the carry of the column of weight 2^64, which is added at 2^192 instead of
2^128. It is the finding `fee_carry` in closed form: the error is a function of that carry
alone. `ConvertedIsOnWire`: `uint256ConvertBE` returns the number that the bytes on the
wire denote, however many there are.

`DivisionIsExact`: `divMod256` leaves the quotient and the remainder, for every divisor but
zero (for zero the code does not return; nobody calls it so). The loop keeps
`div * r + mod = l`, with `adder` the power of two `copyD` is the divisor times, `mod`
less than the double of `copyD`, and only higher bits in `div` (`DivisionInv`); so the `|` into the quotient adds
(`Or256Is`), the subtraction borrows nothing, and as many turns as the numbers differ in
bits, and one more, leave less than the divisor. That the first shift loses nothing and
reaches the dividend follows from `bits256` being the least power of two above the
number (`BitsAre`, `BitsAlign`). Shifts are proved case by case as the code distinguishes
them, by a whole word, by less and by more (`PairMoved`, `Shift256Is`).

`ConversionsProofs`. `NumberIsOnTheWire`: the number that is written is the one on the
wire, and for a fee the product unless the carry above exists; it does not if one of the
factors fits in a word (`WordsHaveNoCarry`). `SignaturesAreDecoded`: an encoded number has
exactly its digits, a sign byte where the first of them needs one, and no zero in front
(`DerHasDigits`), so wherever the lengths put the two values, each is found and placed at
the right end of its container (`ValueIsPlaced`), which is the number only if the container
was cleared. `TextStaysInItsBuffer`: the buffers of the digits and the caller's
are not overrun, for every size, by the invariant `BuffersInv` (the digits have room
after every turn; a text is shown only if the caller's buffer was found
`Adjustable`) and the lemma `SpreadFits` (what is written is shorter than what is asked
for). `WholeAddressTextVerifies`, for every hash function, and `ExportedKeyTellsPoint`,
for coordinates of any size, hold of what each call makes.

`AmountsAreTyped`, `TextsDenoteNumbers` and `PayableAmountsAreShown` follow the number to the
screen. `WritingInv` says that the number is what is left of it, times the power of the
digits written, plus what these denote (`NumberSplits`); that something is left while the
loop runs, and nothing after it, so that the last digit is not zero (`DigitsAreDue`); and
what the text was made from (`TextIsMade`). TLC checked it on `MCValues` first. For the
text, `Spread` puts the point between the digits (`PointPut`), or between zeroes and all
of them; `Trimmed` takes only zeroes from the end, and the point if it comes to it
(`TrimmedIsLaidOut`); what remains is read as the same digits again (`LaidOutReads`). A
number that is refused has more digits than `tmp` has places, or too many for the
caller's buffer, and its first digit is not zero (`RefusedIsLarge`). `ScreensTellTheWire` joins
this with `NumberIsOnTheWire`: the text of an amount stands for the bytes the host sent, that
of a fee for the product of two fields of less than 2^64.

Only model-checked: the liveness properties `RequestsAreAnswered`, `StatusPageEnds` and
`BlockIsAnswered`, because fairness and `ENABLED` are beyond the prover. Every other property of a
run that passes is stated by a theorem, for both builds or for the one that has it.

## 5. Findings

Seven runs find a statement of the documentation or of a comment not kept by the code;
`PROJECT.json` quotes the lines.

1. `fee_carry`: in a product of 256 bit numbers the carry of the column of weight 2^64
   is added at 2^192 instead of 2^128. The fee on the screen is then not the product of price
   and volume: for a price of 2^64+2^63 and a volume of 2^64-1 (in wei and units of
   gas) it has 58 digits instead of 39, which the buffer refuses, and the review breaks
   off. That is the usual outcome; a wrong number is shown if the sum at 2^192 wraps to
   one that fits. With price and volume below 2^64 there is no such carry.
2. `text_terminator`: a number of exactly 40 digits passes the check against the buffer
   of 40 bytes, and its terminator is written behind it.
3. `short_address`: the checksum of a recipient of 1 to 19 bytes, which the stream
   accepts, is computed over bytes of the stack that were never written.
4. `stale_review` (Stax): after the user has rejected a transaction the stage stays
   FINALIZE until the status page ends. If the last request is repeated meanwhile, the
   transaction is put to the user again, but its SHA3 state has been used for the
   sender's address, and what is signed after a second, positive, review is not the transaction's
   digest. The documentation says a rejection ends the process.
5. `key_path_cut` (Stax): the page that asks for the export of a key has room for 23
   characters of the path and cuts the rest. For the path `m/44'/60'/0'/0/1000000000`,
   which the policy does not warn of, the user is asked about
   `/44'/60'/0'/0/100000000`, another valid path.
6. `overlong_v`: V is checked against the size of a 256 bit integer; its buffer has
   four bytes.
7. `unusual_change`: the policy for addresses asks whether there is a change element, not
   whether it is 0 or 1, against its comment. `bip44_hasValidChangeType`, which nobody
   calls, would not help: see below.

Noticed, without a run of their own:

- `bip44_getChangeType` (`bip44.c:104`) returns a `bool`, so that the element is 0 or 1 by
  the time `bip44_hasValidChangeType`, "implements check for valid chain type", compares
  it: the check passes for every path that has the element (`ChangeCheckIsVacuous`);
- on Stax a rejection leaves the instruction in progress until the status page ends,
  against "any error will reset multi-step instruction processing" in `errors.h`
  (`OtherErrorEndsInstruction` is what holds, `ErrorEndsInstruction` holds on a Nano
  only);
- paths of ten elements are documented and parsed, and then fail an assertion in the
  derivation of the key (`ResetIsExplained` lists it);
- a request during the display of an address is answered, and ends the display, against
  `cmd_get_address.md`;
- on Stax an address returned without a question leaves `currentIns` set on the idle
  screen, so Get Version, documented as "safe to call at any time", is refused;
- on a Nano an address is shown on a screen with no way to reject;
- the length the envelope announces is never compared with the fields that follow;
- on Stax the text shown after a warning was rejected is that of an earlier instruction;
- a fee of 2^256 and more is shown modulo 2^256.

## 6. Not modelled

- `divMod128` and `readUint256BE` have no caller; `bits128` enters through `bits256`.
- Layout, scrolling and paging within a text, the version and information pages: no
  effect on the state.
- Cryptography: a key is a function of its path, a signature of key and digest, a hash
  a function of its text.
- Lengths of 2^31 and more, which no message that can be sent has.
- `fuzzing/`, `tests/`, glyphs: not part of the application.

## 7. Plan

Done: paths and policies; the application in both builds with its abstract protocol;
the stream; the numbers and what leaves the device. Proved: types, what a user agreed to,
the end of instructions on errors, the refinement for the Nano; that every byte is
hashed and shown as it was read, however it was cut; the policies; 256 bit sums,
differences, products, quotients and what is read from the wire; the text of amounts,
their buffers, addresses, keys and signatures.

Next, in this order:

1. Composition: a data block of `FantomApp` given by `TxStream` instead of a verdict, to
   check that an exception in the middle of a block ends the instruction.
2. The text of the status page on Stax as part of `display`, for the text of a rejection.
