# libpcsc-cpp in TLA+

A verification development for [libpcsc-cpp](../src), a C++ wrapper around the
PC/SC smart card API: modules that model the library together with the resource
manager it calls, configurations that TLC checks them with, and theorems that
TLAPS checks. Paths such as `SmartCard.cpp:245` are relative to the repository
(`src/`, `include/`, `tests/`).

## The system

| Component | State | Operations | Talks to |
|---|---|---|---|
| Resource manager (pcscd, Winscard; external) | contexts, handles, one transaction per reader | `SCard*` | card, every program |
| `Context` (`Context.hpp`) | `contextHandle` | establish, release | resource manager |
| `listReaders()` (`listReaders.cpp`) | none; makes a `Context` and its `Reader`s | list names (length, then contents), get states | `Context`, resource manager |
| `Reader` (`Reader.cpp`, `pcsc-cpp.hpp:255-288`) | name, ATR and status at the time of the listing, a share in the `Context` | `connectToCard`, `statusString` | `SmartCard` |
| `SmartCard`, `CardImpl` (`SmartCard.cpp`) | `cardHandle`, protocol, features, `transactionInProgress` | connect, disconnect, `beginTransaction`, `transmit`, `transmitCTL` | resource manager, card |
| `TransactionGuard` (`SmartCard.cpp:245-260`) | references to its card and to the card's flag | constructor, destructor | `CardImpl` |
| Chained responses (`SmartCard.cpp:123-140, 192-243`) | the parts of an answer, on the C++ stack | `transmitBytes`, `toResponse`, `getMoreResponseData` | card |
| PIN pad (`SmartCard.cpp:86-121, 142-180`) | the reader's features, of the time of the connect; the entry on the reader | `readerHasPinPad`, `transmitCTL` | reader, and through it user and card |
| File reading (`utils.cpp:89-174`) | none | `transmitApduWithExpectedResponse`, `readDataLengthFromAsn1`, `readBinary` | `SmartCard` |
| APDUs (`pcsc-cpp.hpp:54-205`, `utils.cpp:54-104`) | none | `fromBytes`, `toBytes`, comparing a response with the expected one | card |
| Error mapping (`SCardCall.hpp`) | none | result code to exception | - |
| Reader status (`Reader.cpp`, `flag_set.hpp`) | a set of flags | from the resource manager's word, to text | - |

The library has no threads of its own. What makes it hard is everything that
shares the resource manager and the card with it: other programs that use the
same reader, cards that are reset, removed and inserted, a service that is
restarted, calls that fail where the library cannot report it (in destructors),
a wait without a timeout in `SCardBeginTransaction`, and C++ objects whose
lifetimes decide when the service is called.

What makes the components correct:

- *Context, Reader*: a context is released once, when its last user is gone, and
  nobody loses a handle before; nothing is left with the service.
- *SmartCard, TransactionGuard*: while the library lets a program transmit, the
  program has the card's transaction; a guard gives it back; others are left
  alone; who waits gets its turn.
- *Chained responses*: the caller gets the whole answer to its command, in order,
  with nobody else's bytes in it and with the status the card gave.
- *listReaders*: the list is a listing that existed, whatever is plugged in or
  out meanwhile.
- *File reading*: the bytes are those of the file, or an exception.
- *PIN pad*: the reader is asked for what the caller asked for, a PIN entry costs
  at most one try, and what is returned is the answer to this very entry.
- *APDUs*: the card reads in the bytes what was meant, and the caller is told
  exactly what came back when it is not what was expected.

## Modules

| Module | What it is |
|---|---|
| `ResourceManager` | The external service: one operator per `SCard*` function the core calls, and the events behind the library's back. |
| `CardSession` | The core. Programs ("clients") with their `Context`, `Reader`s, `SmartCard` and guards, over `ResourceManager`. |
| `ExclusiveCard` | What a transaction promises, with nothing of how it is kept. `CardSession` implements it. |
| `ResponseChain` | One call of `transmitBytes()` with its recursion, against an arbitrary card. |
| `ReaderListing` | `listReaders()` while readers, cards and the service come and go. |
| `ReadBinary` | `readDataLengthFromAsn1()` and `readBinary()` against a card whose answers may be short. |
| `PinPad` | The features of a reader and `transmitCTL()`, against a reader on which the user's entry goes on by itself. |
| `Apdu` | `CommandApdu` and `ResponseApdu` with their encodings, and how a card reads a command. No state. |
| `ApduExchange` | `transmitApduWithExpectedResponse()`: make or parse a command, send it, compare what comes back. Uses `Apdu`. |
| `Errors` | Result codes to exceptions, exceptions to the handlers that catch them. Used by `ReaderListing` and `PinPad`. |
| `FlagSet`, `ReaderStatus` | What the library uses of `flag_set`; the status of a `Reader` from a 32-bit word to text. Used by `ReaderListing`. |
| `CardSessionProofs`, `OwnershipProofs` | Theorems about `CardSession`: transactions and the refinement; contexts, handles and leaks. |
| `ResponseChainProofs`, `ReaderListingProofs`, `ReadBinaryProofs`, `PinPadProofs`, `ApduProofs` | Theorems about these modules (`ApduProofs`: about `ApduExchange`). |
| `SharedLemmas` | What several proofs need: induction over the natural numbers, sequences, the encoding of commands. |
| `MCCardSession`, `MCReaderListing`, `MCPinPad`, `MCApduExchange` | Symmetry sets and instances for TLC. |

### ResourceManager

`context`, `handle`, `lock`, `inserted` and `answering` are the service's
contexts, its card handles (with the context and reader each belongs to, and
whether the card was reset or removed since), the transaction of each reader
(holding handle and nesting depth), the presence of cards, and to whom a card
still owes parts of an answer. The assumptions about the service are those the
library makes: a transaction nests for its handle and shuts out all others;
releasing a context closes its handles; closing a handle ends its transaction; a
reset or removed card makes its handles useless (the library never reconnects).
Where implementations differ the model allows both: whether the transaction of
a removed card's handle ends at once or with the handle, and whether
`SCardEndTransaction` on such a handle does anything. Handle and context values
are not given out again while an object still holds them. Any call may fail
without a reason and without an effect; `MaxFaults` bounds the failures whose
effect a model can see (a failed destructor call, a failed
`SCardBeginTransaction`). `ForeignTransmit` is a program that uses neither the
library nor transactions.

### CardSession

A step is what a client does up to and including one call of the service, so
every other program, and the card, can act between any two calls. A function
whose only call fails throws and changes nothing: that is a stuttering step.

| Action | Code |
|---|---|
| `EstablishContext`, `EnumerateReaders`, `EnumerateNothing` | `listReaders()` with `Context()` and, if nothing shares it, `~Context()` |
| `DropReader` | a `Reader` goes; with the last one `~Context()` |
| `ConnectCard`, `ConstructCard`, `RejectProtocol` | `connectToCard()`, `CardImpl()`, `SmartCard()`; unwinding after an unknown protocol |
| `DestroyCard` | `~SmartCard()`, `~CardImpl()` |
| `BeginTransaction`, `BeginGranted`, `BeginRefused`, `BeginFailed` | `beginTransaction()`: the call blocks, then `TransactionGuard()` or an exception |
| `EndTransaction` | `~TransactionGuard()` |
| `TransmitCommand`, `GetResponse`, `ChainBroken` | `transmit()` and the calls of `getMoreResponseData()` |

A client is single-threaded, lists readers and connects to one card at a time,
and destroys its guards before its card, innermost first. With
`ReadersOutliveCard` it keeps a `Reader` while it has a card, which the library
needs but does not say.

### ResponseChain

The recursion is a stack of frames, each with the part of the answer its
`getMoreResponseData()` holds; the k-th part is the number k. The card replies
with any status at any time, announces a rest of any length in `Lengths`, and
any call may fail.

### ReaderListing

| Action | Code |
|---|---|
| `BeginListing` | `Context()`: `Established`, `NotEstablished` (the call fails) or `EstablishedNull` (it succeeds with a null handle, and the constructor throws), all before the `try` |
| `AskForLength`, `FillBuffer` | the two calls of `populateReaderNames()` |
| `GetStates` | `getReaderNamePointerList()`, `SCardGetStatusChange` and the making of `Reader`s |
| `Fail`, `Leave` | what an unsuccessful call leads to, with the `catch` of `listReaders()` and the end of the `Context` |
| `PlugIn`, `PlugOut`, `ChangeCard`, `ServiceStops`, `ServiceStarts` | the world (external) |

The buffer is kept as names and `\0`s, so a list that became shorter or longer
between the calls is what it is in the code. `SCardGetStatusChange` may fail for a
reader that has gone, as unknown or as unavailable, or may report it as unknown:
implementations differ. `SCARD_E_READER_UNAVAILABLE` for one reader that has gone
counts as there being no readers at all (`SCardCall.hpp:62`), and then
`listReaders()` returns none although others are there.

`contextValid` says whether the service knows the `Context` of the listing. A
service that stops forgets it, and one that starts again does not get to know it:
what is left of the listing is refused (`Refusals`), with
`SCARD_E_INVALID_HANDLE`, `SCARD_F_COMM_ERROR` or, while the service is down, the
two results that mean so. The next listing makes a `Context` of its own.

Of the world it is remembered what was there since the call began
(`seenPlugged`, `seenCards`) and what kinds of trouble there were
(`seenChanges`): a reader came or went, the service was down, a context had a
null handle.

The status of a reader is a word of state bits under a 16-bit event count. What
the resource manager has to say (`Report`) and how it says it (`SCARD_STATE`,
`DwEventState`, the values of `winscard.h`) are external; `READER_STATUS_MAP` is
the table of the library, and that the two fit is nothing the model takes for
granted. `BitsAreEnumerators` is what the table would be if the enumerators were
the numbers of the bits, which they are not, since `UNAWARE` comes first. The
flags are a `FlagSet` and `StatusString` the text, as a sequence of names and
commas. A word of 0, which becomes `UNAWARE`, is none that
`SCardGetStatusChange` reports, since it always tells what is in a reader.

### PinPad

| Action | Code |
|---|---|
| `ConnectCard` | the feature request of `CardImpl()` and the parsing of its answer |
| `ToggleTransaction` | a guard is made or destroyed between calls |
| `TransmitCTL` | `transmitCTL()` up to its first control call: checks, the PIN structure, the choice of the feature |
| `BeginEntry`, `VerifyDirectly`, `ControlFails` | the first control call, VERIFY_PIN_START or VERIFY_PIN_DIRECT |
| `FinishEntry`, `FinishFails` | the second one, VERIFY_PIN_FINISH |
| `Respond` | `toResponse()` |
| `EntryEnds`, `EntryAborts` | the user types, gives up, takes the card out; the reader's timer runs out |

The request and the answers are sequences of bytes, since their offsets are what
can be wrong. The host is little-endian: on a big-endian one the value of a
feature, put together with its least significant byte first and then swapped by
`ntohl()`, which does nothing there, is wrong. A value is four bytes long;
a longer one, which the specification does not know, would be shifted out of the
word. A reader that announces FINISH announces START. An entry may outlive the
call that began it, when FINISH fails or is not there, and the reader may accept
or refuse another one meanwhile. That START and FINISH are not disturbed by
another program is the transaction's matter, and `CardSession`'s.

### Apdu and ApduExchange

| Action | Code |
|---|---|
| `MakeCommand` | a caller fills in a `CommandApdu` |
| `ParseCommand` | `CommandApdu::fromBytes()`, with or without `useLe` |
| `Transmit` | `CommandApdu::toBytes()` in `transmit()` |
| `CardAnswers` | the card reads the bytes and replies (external) |
| `Compare` | `ResponseApdu::fromBytes()`, `toResponse()` and the comparison of `transmitApduWithExpectedResponse()` with its error text |

`CardReads` is the reference: how ISO/IEC 7816-4 divides the bytes of a short
command. A card that replies 61 or 6C belongs to `ResponseChain`. The overload
of `transmitApduWithExpectedResponse()` for bytes parses them without Le; a
command that has one must be parsed with it, or its Le becomes the last data
byte, which is why `BytesReachCard` is about bytes that are parsed as what they
are.

### ReadBinary

`ReadHeader` is all of `readDataLengthFromAsn1()`, `ReadBlock` one turn of the
loop of `readBinary()`, `Finish` the check after it. A caller brings a length
of its own (`ReadOwnLength`) or the one of the header. The bytes are abstracted
to how many they are and whether they are the first of the file; P1, P2 and Le
have the width they have in the code. An answer may be short by any of
`Shortfalls`, down to nothing, as after an error status that `transmit()` lets
through; cards that send more than Le asks for are not considered. Indexing
beyond the end of a vector may yield any of `HeaderBytes`.

## Runs

| Run | Question | Bounds |
|---|---|---|
| `session` | do flags, guards, transactions, answers and ownership agree, and does `CardSession` implement `ExclusiveCard`? | 2 clients, 1 reader, 3 handles, 3 contexts, 2 nested guards, 2 further parts of an answer, 1 fault, 2 card events, 1 restart |
| `shared_context` | does a card keep its handle while a `Reader` shares the context? | 2 clients, 2 readers, no fault, 1 card event, 1 restart, `ReadersOutliveCard` |
| `liveness` | does `beginTransaction()` return? | 2 clients, 1 reader, no nesting, 1 fault, 2 card events |
| `response_chain` | is the answer whole, do errors surface, does the recursion end? | up to 5 replies, 2 lengths |
| `reader_listing` | is the list true, does every outcome have a cause, does it catch up, does the text tell the status? | 3 readers with names of two lengths, 2 cards, 4 reports, 3 events |
| `read_binary` | are the bytes the file, are offsets and Le in range? | lengths 0, 1, 256, 700, 33100 and those of headers up to 3718, blocks 100, 255, 256, 300, answers 0 or 200 bytes short |
| `pin_pad` | is one PIN entry one try, and the answer its own; does the call return? | 7 lists of features, commands with 0, 8 and 256 bytes of data, 3 calls, 2 faults |
| `apdu_exchange` | does the card read what was meant, does the caller learn what came? | data of 0, 1, 2, 254, 255, 256 bytes, Le 0, 1, 255, 256, 257 and unused; parsed bytes of 1 to 9 and 259 to 262; 14 replies, 4 expectations |
| `nested_guards` | *(violated)* does `transmit()` refuse only outside a transaction? | 2 nested guards |
| `returned_card` | *(violated)* does a card answer after its `Reader`s are gone? | 1 client |
| `masked_status` | *(violated)* does the caller see the status the card ended with? | 2 replies |
| `short_header` | *(violated)* is a length taken from bytes that were sent? | as above |

Two clients and one reader are what contention needs; the third handle and
context are there because a fault may leak one. Two events allow a card to be
removed and another inserted under a waiting program. Two further parts let
another program act before, between and after GET RESPONSEs.

`session` and `liveness` do not check for deadlock, since the
system may really stop: if `SCardDisconnect` fails while the handle has a
transaction, the destructor ignores it, and every program that then waits for
that card waits for ever, the program that lost the handle included.
`LeaksOnlyByFaults` bounds such losses, and `BeginReturns` excepts them.
`response_chain`, `masked_status`, `read_binary`, `short_header` and
`apdu_exchange` end with the call they model, `pin_pad` with its third. In
`reader_listing` three events let a reader go and another come in one call, with
a card in it, or the service stop and start around a reader's coming; the third
reader keeps the list from becoming empty. Between them its four reports have every state bit, and
event counts of 0, 1 and 3. In `read_binary` a block of 256 makes Le 00, one of 300 makes it
44, a length of 33100 leaves the 15 bits of an offset and one of 700 does not
divide by any block; a block length of 0, with which the loop never ends, is
in no run but in the theorems. In `pin_pad` the lists of features are: none,
DIRECT, START and FINISH, all three among others and in another order, START
without FINISH, MODIFY only, and DIRECT twice; three calls let the second meet
the entry of a first whose FINISH failed, and the third see what the second left
behind. In `apdu_exchange` the lengths are those on both sides of every one at
which an encoding changes or ends.

### Properties

- `FlagMeansTransaction`, `GuardHoldsCard`: the one Boolean that `transmit()`
  looks at, the guards alive and the service's transaction agree, in every
  interleaving and after every failure.
- `ChainNotInterleaved`: between a command and its GET RESPONSEs no other command
  reaches the card.
- `LeaksOnlyByFaults`: what no object will give back costs one failed destructor
  call each.
- `OthersUndisturbed`: a step of one program changes neither handle nor
  transaction nor pending answer of another.
- `LiveCardHasHandle`: only a restart of the service closes the handle of a card
  whose program keeps a `Reader`.
- `BeginReturns`: a wait ends, also when a guard could not end its transaction,
  because the disconnect of its card does.
- `ImplementsExclusiveCard`: the refinement. The owner of a card is the holder of
  its transaction, the dialogue the pending answer; disconnecting and releasing
  map to `Release`, events to `Interrupt`, nested guards to stuttering.
- `WholeAnswer`, `CallerNeverSees61`, `AsksForWhatIsAnnounced`,
  `NothingBadIsJoined`, `Terminates`: see `ResponseChain`.
- `ListIsSnapshot`: three answers are put together to a list that was true at one
  moment of the call, with each reader once.
- `OutcomeHasCause`: however a listing ends, there is a cause for it since it
  began. "Service not running" needs a service that was down, a plain `ScardError`
  a reader that came or went, a lost or a null context, and an empty list a moment
  without readers or a reader that went.
- `AtrIsOfThisReader`: state and ATR come by position, and from the right one.
- `CatchesUp`: a caller that goes on listing has the readers that stay.
- `ReturnsTheFile`: although no status and no single answer is checked, the
  final count tells whether the bytes are the file.
- `NeverAhead`: Le cut to a byte never asks for more than the block.
- `HeaderLengthAddressable`: the limits on a header's length keep offsets within
  what READ BINARY has for them; a caller's own length may leave it.
- `StatusStringTells`: the text of a status names exactly the states that the
  resource manager reported of this reader, and they were so during the call.
- `FeaturesAsAnnounced`, `PinPadMeansEntry`: the features are those that the
  reader announced, in whatever order, and `readerHasPinPad()` says yes only if
  `transmitCTL()` has a way to ask for a PIN.
- `RequestReadsAsMeant`: the reader finds the PIN lengths, the language and the
  command at the offsets where the specification has them.
- `OneTryPerCall`, `AnswerIsOfThisCall`, `EntryIsReported`, `CallReturns`: no
  failure of a control call makes the library ask the card again or take the
  answer of an earlier entry for its own, and the call ends.
- `CardUnderstands`, `BytesReachCard`: no length that fits in its field is taken
  for another; bytes that are parsed and encoded again are the same.
- `ReturnedMeansExpected`, `ErrorShowsDifference`: returned means that exactly the
  expected bytes came, and the exception shows bytes that differ.

### Fairness

`liveness` assumes that a call in progress returns (weak fairness), that a
program leaves every scope it has entered, though it may go on for any time
before (strong fairness of each nesting level of `EndTransaction`, and of
`DestroyCard`: a program may open and close guards for ever, or transmit for
ever, and still be disposed to leave), and that the service grants a free
transaction at last to who keeps waiting (strong fairness of `BeginGranted`:
other programs may take it in between). Nothing is assumed of the environment,
of failing calls, or of a program's entering a scope. In `response_chain` the
calls of one `transmit()` follow each other and the card replies. In
`reader_listing` the resource manager answers and the caller lists again; that
the service runs in the end is a premise of `CatchesUp`. In `pin_pad` control
calls come back and the reader ends an entry, by the timer that the request sets.

## Findings

- `nested_guards`: `~TransactionGuard` clears the card's only flag
  (`SmartCard.cpp:254`), so after an inner guard `transmit()` throws "Call
  SmartCard::transmit() inside a transaction" inside the outer guard's
  transaction.
- `returned_card`: `SmartCard` does not share in the context it was connected
  through (`SmartCard.cpp:262-264`). `tests/mock/test-connect-to-card-transmit-apdus.cpp`
  uses a card whose `Reader`s are gone; a service that closes the handles of a
  released context does not let it.
- `masked_status`: the status of a chained answer is always 9000
  (`SmartCard.cpp:240-241`), also when the card ended it with an error that
  `toResponse()` lets through for the caller to see.
- `short_header`: `readDataLengthFromAsn1()` uses `data[0]` to `data[3]` of an
  answer of any length (`utils.cpp:116-134`).

## Proofs

Every safety property of the passing runs, action properties and the refinement
included, is also a theorem: for any sets of clients, readers, handles, contexts,
cards, commands, replies and lists of features, and for any bounds. The
assumptions are the named ones of the modules: `Null` is none of the values, the
bounds are natural numbers, bytes are bytes, the readers are finitely many.
The runs of `CardSession`, `ResponseChain`, `ReaderListing` and `PinPad` check the
inductive invariants too (`SessionInv`, `ChainInv`, `ListingInv`, `PadInv`); their
types are part of them.

**CardSession, transactions.** `CardSessionProofs` proves that `IInv` is invariant,
and from it `TypeOK`, `GuardHoldsCard`, `FlagMeansTransaction` and
`ChainNotInterleaved`. `GuardHoldsCard` is not inductive alone. That a lock is not taken away by another
client's `EndTransaction` or `DestroyCard` needs that no two cards have the same
handle (`HandlesOwned`); that a lock is where the handle says it is needs that a
handle in use has a reader (also `HandlesOwned`); that `BeginGranted` stays within
`MaxGuards`, and that a constructor's unwinding frees no guarded handle, needs
what each call in progress says of the objects (`CallsMatchObjects`). `IInv` is
the conjunction. The proof sorts the steps: quiet ones that touch neither handle
nor transaction nor answer (`QuietStep`), closing ones, after which whoever
relied on a transaction that went has a closed handle (`ClosingStep`), and the
rest one by one. `ChainNotInterleaved` follows from two facts that exclude each
other: who transmits has the transaction, and who is fetching an answer has it.

**CardSession implements ExclusiveCard.** `Refinement` maps the initial states and
every step. There is a lemma for each way in which a step maps: most steps of a
client stutter, nested guards among them (`Stutters`); closing handles gives up
their cards (`ClosingReleases`); the service's grant is `Acquire`, a command
`Command`, a GET RESPONSE `Continue`; resets, removals and restarts are `Interrupt`
(`Interrupts`), and a foreign program is the `Outsider`. `IInv` says in each case
whose transaction it is.

**CardSession, ownership.** `OwnershipProofs` proves `SessionInv`, `OthersUndisturbed`,
`LiveCardHasHandle` and `LeaksOnlyByFaults`. That releasing a context does not
close somebody else's handle needs that no two listings share a context and that a
handle in use has a context that nobody else will release (`ContextsOwned`); that
it does not close the program's own card needs that there is a context as long as
there are `Reader`s, and with `ReadersOutliveCard`, which `LiveCardsHaveHandles`
assumes, a `Reader` as long as there is a card (`ReadersShareContext`);
`WithinBounds` says that a restart that happened stays counted.
`LeaksOnlyByFaults` counts: a step leaks at most one handle or one context, and
only with a fault spent (`OneThingLeaks`), and constructors that throw leak
nothing (`NothingLeaks`). The sets of handles may be infinite, but what leaked is
finite, since each leak was paid for (`LeaksInv`).

**ResponseChain.** `ChainInv` says of the recursion what a reader of the code has to
see: frame i holds just the part i, what is being returned is everything from its
frame on (`PartsInv`), every reply but the last announced more (`RepliesInv`), and
was asked for it. Since what `transmitBytes()` returns is never 61, the loop of
`getMoreResponseData()` never goes round twice. `UnwindKeepsChain` is the step that
puts a part in front; `WholeAnswer` is `ChainInv` when no frame is left.

**ReadBinary.** `ReadBinaryProofs` proves `TypeOK`, `NeverAhead` and `ReturnsTheFile`
for any lengths, blocks (empty ones included) and shortfalls. The invariant `ReadInv`
adds what the loop keeps (`CounterInv`: offset and counter add up to the length)
and what makes the final count conclusive (`BytesInv`): as long as as many bytes
have come as the offset says, they are in place. An answer that is too short
leaves them behind the offset, and since no answer is longer than its block
(`WantedFits`) they never catch up, so that the count is short in the end.
`HeaderLengthAddressable` needs only that a header's length stays what was accepted
(`HeaderInv`).

**ReaderListing.** `ListingInv` adds to the properties that the history has what is
there now, and that a set of readers it has seen is a subset or a superset of
those that are there unless one came or went (`SeenInv`); that a call in progress
has lost its `Context` only if the service was down (`ContextInv`); what a call in
progress knows - the length of the buffer is the room for a set of readers that
was there during the call, the names are a list of such a set (`CallInv`) - and
that every status is that of a report that was true (`ReportsInv`). `OutcomeHasCause`
comes from it by the results of the three calls (`NamesResultHasCause`,
`ListResultHasCause`, `StateResultHasCause`): a buffer that is too small means that
the readers are not those that it was made for, an unknown or unavailable reader
that one went, and a refusal that the `Context` is gone. `NamesInBuffer` finds the names before the first empty
one in a buffer with any number of `\0`s at its end. `ReportInWord` shows that the
bit of a state is set in the word of a report if and only if the report has the
state, for every event count, and `StatusOfReport` that the library's table makes
the same states of it. The sum of `RoomFor` and the text of `StatusString` are
folds, which are recursive functions on the subsets of a finite set: that they
exist and what they are is shown by induction over the size of the subsets
(`SumExists`, `TextExists`), and what the text names by induction over the
enumerators (`TextOfFirst`).

**PinPad.** `PadInv` has a part for each way in which calls and entries overlap: what
the SmartCard knows of its reader and that a control call has a feature to ask
with (`CardInv`); an entry left behind belongs to an earlier call, and the card has
heard nothing of one that goes on (`EntryInv`), which is why `OneTryPerCall` and
`AnswerIsOfThisCall` survive a FINISH that fails; without FINISH there is no answer
to take for one (`ResponseInv`); and while nothing fails an entry exists only while
FINISH waits for it (`QuietInv`), which is `EntryIsReported`. Two of the properties
are about bytes: `FeaturesOfAnnouncement` shows that the parser finds in the
announcement of any list of features, in any order and however often, each with its
control code (`ParsedTlv` is one TLV, `AnnounceIsChunks` where each of them lies), and
`RequestMeans` that the reader finds PIN lengths, language and command at the
offsets of the specification.

**ApduExchange.** `ApduProofs` proves `CardUnderstands`, `BytesReachCard`,
`ReturnedMeansExpected`, `ErrorShowsDifference` and `TypeOK` for any commands, byte
strings, replies and expectations. `FourParts` says where header, Lc, data and Le lie in their
concatenation, and `CardReadsParts` that a card divides the bytes at the same
places, since each length is told by the byte before it (`Framed`); the cast of Le
to a byte loses nothing, since 0 and 256 mean the same (`Cast`). The invariant
`ExchangeInv` adds to the types that the card has the bytes of a command that
did not throw and that only a finished call has an outcome. That hexadecimal
digits, the parts of a response and a parsed command give back the same bytes
are `HexRoundTrip`, `ResponseRoundTrip` and `CommandRoundTrip`; the last one has a
case for each of the four forms of a command.

The recursive functions in these proofs (the parser of features, the folds) are
reasoned about without an induction theorem that takes a predicate: `SetInduction`
states induction over the natural numbers for a set of numbers, and follows from
the well-foundedness of inclusion between finite sets.

Only model-checked: liveness (`BeginReturns`, `Terminates`, `CatchesUp`,
`CallReturns`), which is out of the prover's reach. The four violated properties are
runs only: a counterexample is all there is to show.

## Not modelled

Two extensions would be worth having: `CardSession` with several cards in one
program, and the Boolean part of liveness as safety, that what a waiting program
waits for is held by a program that is able to give it back.

Left out for good: the operators of `flag_set` that nothing in the library calls
(`&=`, `|=`, `&`, `|`, `~`, `flip`, `reset`, `count`, the conversions and the
output to a stream), with START alone what becomes of the entry that
`transmitCTL()` leaves on the reader (`EntryIsReported` leaves such readers out), the wording of error texts (`int2hexstr()`,
`removeAbsolutePathPrefix()`, the THROW macros), `magic_enum`, which gives the
enumerators' names at compile time, build files. A program with several SmartCards at once can deadlock on its own or with
another in `SCardBeginTransaction`; the library has no order of locks to check,
and the model's clients have one card. A guard that outlives its SmartCard is
undefined behaviour and not a state of a legal program.
