# A verification project for rp2350-hid-bridge-cpp

The library drives a HID bridge (an RP2350 board that plays keyboard and mouse)
over a serial port. Applications call a C++ class or a C API; below them one
class, `HidBridgeCore`, owns the port, a heartbeat thread and the protocol. This
directory holds TLA+ modules of that program, the TLC configurations that check
them, and proofs for TLAPS.

Run in this directory: `tlc -config X.cfg MCModule.tla` for a run of
`PROJECT.json`, `tlapm M_proofs.tla` for the proofs.

Source files below are named by their last part: `serial.hpp` is
`src/include/rp2350_hid_bridge/serial.hpp`, `c_api.cpp` is `src/src/c_api.cpp`.

## 1. Inventory

| Component | Where | State | Operations | Talks to |
|---|---|---|---|---|
| `HidBridgeCore` | serial.hpp | `opened_`, `closing_`, `generation_`, `session_`, `active_commands_`, `sequence_`, `heartbeat_stop_`, four mutexes, the heartbeat thread | open, close, commands, run_script, is_open | transport (shared by all threads), device (messages) |
| session data | serial.hpp | receive buffer, batch duration | one per connection, reset by open | used by the command that owns the command mutex |
| transport | serial.hpp | the port handle | open, set_dtr, write, read, cancel_read, close | called by callers, heartbeat and closer at once |
| C API handle | c_api.cpp, session_state.hpp | reference count, `faulted`; per thread the last error | create, retain, release, open, commands | owns one core |
| `HidSession` | client.cpp | a pointer to a handle, options | create lazily, open, close, move, commands | C API |
| frame codec, parser | protocol.hpp, serial.hpp | none of its own | encode, decode, resynchronise | session data |
| script language | script.hpp, keys.hpp | none | parse, convert to packets | run_script |
| deadlines | serial.hpp | reads the batch duration | response_timeout | read loop |
| port discovery, ABI | port_discovery.cpp, c_api.cpp | none | enumerate, describe | the operating system |

How they interact: any number of application threads call one core. A command
takes `command_mutex_` for its whole exchange, `write_mutex_` for one write, and
`state_mutex_` for moments; it waits for the device with no lock but the first.
The heartbeat thread writes through the same `write_mutex_`. `close()` takes no
command mutex: it invalidates the generation, cancels the pending read, writes
`STOP_ALL`, joins the heartbeat, waits until no command is active, and closes
the port. `open()` holds `state_mutex_` all the while.

What is hard: the interleavings of `close()` with commands, scripts, the
heartbeat, a second `close()` and a later `open()`; failures in the middle of
`open()`; responses that arrive late, twice or never; sequence numbers that wrap;
the faulted flag of a handle against calls already under way; the last release;
who owns a handle after a failed open or a move, and whose error is thrown; frames
that are cut, damaged or nested in a stream that is read in pieces.

What makes each component correct:

* core: nothing is written after the `STOP_ALL` of `close()`; nobody uses a port
  that is not that of their own generation; failed opens and finished closes
  leave nothing; scripts are exclusive; close, calls and heartbeats make progress;
* exchange: a response answers its own request, a retry repeats its number, an
  exchange ends;
* handle: it is deleted once, after its last use, with its connection shut; a
  fault ends the connection it happened on, and stays ended;
* script: the device executes whole segments, in order and once; it is not left in
  an open batch once the cleanup was answered; an invalid script sends nothing;
* deadlines: the one of `BATCH_END` covers the batch the device has collected, and
  none overflows;
* parser: it finds what one scan of the whole stream finds, however the stream is
  cut into reads, no request waits or gives up while a whole answer to it could be
  decoded, and the buffer stays bounded;
* client: a handle has one owner, an exception has the text of its own failure, a
  faulted handle is shut;
* script language: exactly the documented texts are accepted, as the words they say.

## 2. Modules

| Module | Models | Checked by | Proved in |
|---|---|---|---|
| `Connection` | what the core promises about a connection's lifetime | in `MCBridgeCore`, `MCSessionHandle` | `Connection_proofs` |
| `BridgeCore` | `HidBridgeCore` at the grain of its mutexes | `MCBridgeCore` | `BridgeCore_proofs` |
| `Exchange` | one request/response exchange after another, over a bad link | `MCExchange` | `Exchange_proofs` |
| `FrameParser` | the receive buffer byte by byte | `MCFrameParser` | `FrameParser_proofs` |
| `SessionHandle` | the C API handle, over `Connection` | `MCSessionHandle` | `SessionHandle_proofs` |
| `Client` | `HidSession`, and the C API as it sees it | `MCClient` | `Client_proofs` |
| `Deadlines` | durations and response deadlines | `MCScript` | `Script_proofs` |
| `Transaction` | what `run_script` promises about a script | in `MCScript` | `Script_proofs` |
| `Script` | script transactions and the device's batch, over `Deadlines` | `MCScript` | `Script_proofs` |
| `ScriptText` | the script language and its scanner | `MCScriptText` | `ScriptText_proofs` |

### Connection

An abstract gate. A connection has an epoch that grows with every opening and
closing. A thread takes a ticket (reads the generation), may enter only an open
connection of that epoch (`begin_active_command`), and leaves. `Drain` and `Shut`
are the two ends of `close()`. The heartbeat is the worker that comes with `Open`
and leaves while the connection drains. `BridgeCore` implements this module, and
`SessionHandle` uses it for its core.

### BridgeCore

`pc[p]` says where a thread is. Each action is one critical section, one
transport call, or the step between two of them; the order of the steps and
every early return and catch clause is that of the code.

* A section of `state_mutex_` without a transport call is one step, guarded by
  `StateFree`. `open()` keeps the mutex through its transport calls, so it has a
  variable (`stateMutex`) and four steps.
* `Valid(p)` is the test of `require_session` and `begin_active_command`. It is
  made where the code makes it: on entry, under the write lock, at the top of the
  read loop, after a read, at the end of a BUSY wait, before success. What the
  thread does next is a step of its own, so the test may be stale when it does.
* A transport call succeeds or throws. A read brings bytes, throws, or returns
  empty at its deadline or because `cancel_read` ended it. `cancel_read` is
  `CancelIoEx`: it ends the reads that are pending, and has no effect on a later
  one.
* What the device answers is not modelled here: a decoding finds nothing, the
  acknowledgement, BUSY or anything else. `Exchange` has the frames. Where a command's
  data make the code throw, the model lets it: `encode_frame` in `Begin`, and
  `script_command_to_packet` between two exchanges of a script in `RejectLine`.
* A call is a command, or a script of 1 to `ScriptLength` exchanges under one
  command lock, followed by one `STOP_ALL` exchange if one of them failed.
* `open()` on an open or closing core and `close()` on one that is not open
  change nothing; they are no steps. `session_` is set and reset together with
  `opened_` and has no variable.

`Callers`, `Retries` and `ScriptLength` are parameters. `MaxGeneration` is a
bound on the guard of `OpenStart`, only there to keep the instances finite.

### Exchange

The thread that owns the command mutex, the receive buffer, and the two
directions of the link as bounded queues of whole frames. Frames are lost (also
because the link is full, or because a damaged frame fails its checksum), late,
and repeated by retries; the device answers each frame it gets in any way or not
at all, may complain under number 0, and its old answers may survive a `close()`
and reach the next session, for which the receive buffer is new but `sequence_`
goes on. Each request has an identity that no frame of the real protocol carries;
only properties read it. `close()` ends the exchange and sends a `STOP_ALL` with a
number of its own.

### FrameParser

`read_response` and `try_decode_response` over a stream of bytes. The buffer is kept
as all the bytes of the session (`received`) and how many were erased (`head`), so
that a property can compare what the parser did with a scan of everything. `Skip`,
`Decode` and `Wait` are the ways through the loop of `try_decode_response`: erase one
byte, take a frame, return `nullopt`. The frame format is a parameter: the two magic
bytes, the size of the header, what it says of the length, and whether the checksum
fits. The instance has a format of four header bytes, up to five of payload and a
one-byte checksum; `Encode` is `encode_frame` in it. `since` is a history: where the
buffer began when `read_response` was called. `AnswersOnlyHidden` asks with it for every
answer that this call could have returned, and `Skip`, `Decode`, `Wait` and `Read` together
have to keep it. `Exchange` takes frames as decoded once they were received; by
`AnswersOnlyHidden` that is so except for an answer inside another frame, and finding 4 is
the case that matters.

### SessionHandle

References, the `faulted` flag and the core behind it. The test of the flag, the
call, the setting of the flag and the closing of the core are separate steps, as
in `call_session`. A second `close()` returns at once (`CloseSkip`). The
destructor that the last release runs is the close path again, then `Delete`.
The API's contract is part of the model: a thread uses the handle only while it
owns a reference. `is_open`, the error text and the argument checks change nothing
shared and are left out.

### Client

`HidSession`: objects that own a handle or none, and threads inside their member
functions. The C functions are steps of their own where another thread can come
between: creation and the storing of the pointer, the test of the faulted flag, the
call, the flag, the closing, the setting of the thread's error text, the release
after a failed `open()`, and `check_status`, which reads the text back. An object that
was moved from may have lost its port name, and creation then refuses its options.
The contract is that of INTEGRATION.md section 10: commands may join one another
on an object; opening, closing, moving and destroying are done alone; and an
object is shared between threads only once it has its handle. `close()` of the core
is one step here; `SessionHandle` and `BridgeCore` have its parts.

### Transaction, Deadlines, Script

`Transaction` is a script as its author sees it, without frames, answers or retries. A
call either is rejected at once, when the script does not parse, or the device executes
its segments one after the other, each in one step or not at all (`Execute`). `run_script`
returns only when every line was executed; a call may fail at any moment, and then the
device may still execute what comes next, as the `BATCH_END` of the failed exchange may
be on its way, until the `STOP_ALL` of the cleanup was answered (`Clean`). `Script` is shown
to implement it: its variables of the same names are the abstract state.

`Deadlines` has the arithmetic of `known_duration_ms`, `response_timeout` and
`record_completed_command`. A command is a record of its type and an amount
(milliseconds, characters, or the larger of |dx| and |dy|); `MaxMs` stands for
`UINT32_MAX`.

`Script` is `run_script` with one action per line collected, per exchange begun,
per frame written, per answer taken. `stage` is the exchange that the call is at
(`begin`, `body`, `end` of a batch; `stop`; `cleanup`, the `STOP_ALL` of the catch
clause; `command`, a method of its own), `pc` where that exchange is. `Throw` is an
exception, `Succeed` what follows an acknowledgement. The errors strike where they
do in the code: a malformed line before anything is sent, a character that is not
ASCII when the line is converted (`RejectText`), a text that is too long when the
frame is encoded and its number used up (`RejectLength`), a port or session that
fails at any moment (`Break`). `BridgeCore` and `Exchange` are taken as given: one
call at a time, and answers only for the exchange that waits for them, so a number
is never used twice.

The device is external. It collects a batch and executes it at `BATCH_END`, whole and in
one step, or refuses it whole (see "What the script properties rest on" below). It refuses
what it likes, says BUSY without doing anything, and answers a repeated number as
before without executing it again. The last is what the retries of the library rely
on (README.md, "协议 v2 可靠性"); the repository has no firmware to check it against.
That a `STOP_ALL` in a batch may be answered by a NACK is how the tests' device
behaves. The lease does not expire: the heartbeat of an open session keeps it.
`collected` and `executed` are the lines of the current call that the device has in its
batch and has executed. They are a history that only properties read: nothing that the
client or the device does depends on them, and they start empty with each call.

What the script properties rest on. That the device executes a batch atomically is an
assumption about its firmware, and not a result. `WholeSegments`, `KeepsPromise` and their
theorems (`SegmentsAreWhole`, `ScriptKeepsPromise`) say that the library neither splits,
repeats nor reorders segments, provided that the device takes each one whole. The
repository has no firmware to check this against, and its list of NACK codes
(serial.hpp:597-609) has some that a device could send in the middle of a batch: 4 (HID
write failure), 5 (transport failure) and 16 (cancelled). With a device that stops halfway
through a batch, "whole" has to be read as "whole or refused halfway"; the library learns
nothing of how far it came, sends its `STOP_ALL` and throws.

One thing the model shows and no property states: after a script whose cleanup got
no answer, the device may still collect, and a command of its own is then
acknowledged without being executed. INTEGRATION.md section 7 tells applications to
send another `stop_all()`.

### ScriptText

`parse_script` with one action per branch of the loop of `split_words`, and
`parse_script_line` at the end of each line. A text is a sequence of symbols: the
characters the scanner looks at, and runs of other characters that mean one thing
(a keyword, a number, a key). The reference definition has no scanner. A cut of a text
is a set of places where pieces begin, each a blank, a newline, a bare word, a quoted
word or a comment (`IsPiece`, `Cuts`); a quote is closed by the first quote before which
stands an even number of backslashes (`Escaped`). The words of a line are those of its
pieces in their order (`WordsOf`), and a cut is `Good` if the words of every line are a
form of the documented table, or none. `ParsesTheLanguage` says that a text is parsed
exactly if it has a good cut; then it has no other, and the commands are what it says
(`Reading`). What the accepted lines become is the subject of `Script`.

Two limits of that comparison. `IsNumber`, `IsCombo` and `IsButton`, which say what word is
a number in a range, a combination or a button, are used by the scanner's side and by the
reference: the cutting into words, the quoting and the forms of the lines are checked
against something independent, these three are not. And where the table of INTEGRATION.md
(line 325) shows an argument in quotes, `Forms` takes any word, as the code does: a
quoted word and a bare one that say the same are the same to the parser.

A definition marked "Mutant" is a faulty variant of the one below it. The runs
replace one by the other to see that each property can fail; nothing else uses it.

## 3. Runs

| Run | Instance | Shows |
|---|---|---|
| `core_safety` | 3 callers, 1 retry, scripts of 2, up to 3 generations before the last open | the seven safety properties and the refinement of `Connection` |
| `core_progress` | 2 callers, the same otherwise | `close()` ends, every call returns, the heartbeat flows |
| `core_preempt` | 2 callers, no retry | finding 1 |
| `exchange` | 4 requests over 2 sequence numbers, 2 frames each way, 1 retry | responses are not confused, numbers name requests, every exchange ends |
| `frame_stream` | 9 pieces, up to 13 bytes, reads of 1 or 2 | the parser is exact for every cut, passes by an answer only inside another frame, its buffer bounded |
| `frame_stall` | short frames and a header whose rest is lost | finding 4 |
| `handle_safety` | 3 threads with up to one reference each | lifetime of the handle, closing on a fault, the last release deletes |
| `handle_silent` | 2 threads | finding 2 |
| `client` | 2 threads, 2 objects, 2 handles | one owner per handle, own errors, faulted is shut |
| `script_transaction` | 2 calls, of 7 scripts and 2 commands, 1 retry, 2 frames on the link | whole segments, completion, cleanup, the deadline of `BATCH_END`, one exchange after the other, the refinement of `Transaction` |
| `script_rejected` | 1 call, no retry | finding 3 |
| `script_text` | texts of up to 6 symbols, and longer lines of words | the language is parsed, as its only cut says, and nothing else |

Why the bounds are enough. Three callers let one close, one be inside a call and
one open again or queue behind. `MaxGeneration = 3` allows an open, its close and
an open after it (generations 1, 2, 3), with failed openings in between, which is
what a stale generation needs to meet a new connection. One retry distinguishes
the first attempt, a later one and the last. Scripts of two exchanges have a gap
between exchanges. In `Exchange`, two sequence numbers wrap within four requests;
the full wrap is part of the run, and `AnswerIsOwn` says exactly when it matters.
A thread that owns two references acts like two threads with one each, so one
reference per thread is enough. In `Script`, two calls let the frames and the batch
of a failed call meet the next one; the scripts have a segment of two, a stop before,
between and after segments, every kind of error, and a wait as long as a deadline
can be. In `FrameParser`, 13 bytes hold a frame with a frame inside it (10), or a cut
frame with a whole one behind it; reads of at most 2 bytes cut every frame at every
place; the proofs have the rest. Two objects, two handles and two threads are what
`Client` needs for a move, a leak (a live handle that nobody points to keeps the port
from the other) and a foreign error. In `ScriptText`, six symbols hold a quoted word
with an escape between two others, and a newline in any place; every list of up to
three keywords is among the longer lines.
`CHECK_DEADLOCK FALSE` is used where the system may really stop: after the bounded
number of requests or epochs, when the handle has been deleted, or when a text has
been parsed.

Fairness. `FairSpec` of `BridgeCore` assumes that a started call and the heartbeat
thread run when they can, that deadlines pass, and that transport calls return
(reads and writes have COM timeouts). It assumes nothing of the application, which
need not make a call, and nothing of the device. `CloseCompletes` needs no more: once
the generation has moved on, every other thread fails its next test and goes away, so
even unfair mutexes are free at last. `CallsReturn` and `HeartbeatFlows` assume in
their statements `FairLocks` as well, strong fairness per thread: a mutex that is
released again and again is acquired at last. The standard does not promise that of
`std::mutex`, the library relies on it; without it a caller can starve behind others
that keep calling. `FairSpec` of `Exchange` is weak fairness of the thread and the
clock. `FairSpec` of `SessionHandle` is that of the threads inside a call or a release.

## 4. Findings

1. `close()` may wait for a whole response deadline. `cancel_read` ends the reads
   that are pending. A command between its `ensure_generation` (serial.hpp:511) and
   its `ReadFile` (serial.hpp:525) at that moment blocks afterwards, up to 60.5
   seconds for `wait_ms(60000)`. The documentation and a test say that `close()`
   ends the read; the test's transport remembers the cancellation, Windows does not.
2. A faulted handle can be open. `session_open` may have passed the check of the
   flag before another thread's call faulted the handle and closed it; it then
   opens it again. All later calls are refused, and the heartbeat keeps the
   device's lease until the last release.
3. An invalid script can be half executed. `run_script` parses all lines first but
   converts them while it sends. A text that is too long or not ASCII throws
   `invalid_argument` when `BATCH_BEGIN`, the lines before it and whole segments
   were sent; INTEGRATION.md:337 says arguments are parsed before sending.
4. A whole answer in the receive buffer may not be taken. When a response loses its
   end on the line, its header claims up to 240 bytes that do not come, and
   `try_decode_response` waits for them (serial.hpp:553): the answer to the retry
   counts as its payload. The command times out on every attempt unless enough bytes
   arrive, and a C API session is then faulted. README.md:196 says that the parser
   skips invalid frames; it promises no time for it, so the words can be read more
   loosely than the property that fails. `AnswersOnlyHidden` says that this is the only
   way to miss an answer, other than one inside a whole frame, and `BufferBounded` how
   far it can go: the parser gets past the header once a longest frame has come.

Noticed while modelling, without a run:

* `response_timeout` gives a key tap 508 ms and a click 520 ms when `timeout_ms` is
  small; INTEGRATION.md:136 and README.md:198 promise an ordinary command a second.
* INTEGRATION.md section 9 says that an invalid key, button or text throws
  `std::invalid_argument`. `HidSession` throws `TimeoutError` or `std::runtime_error`
  only (client.cpp:83-86); the C API has two failure codes.
* `ensure_created` takes no lock. README.md:214 lets several threads submit commands
  to a session; if none of them has created it, two may, and one handle is leaked.
* A carriage return is an ordinary character: each line of a script with CRLF ends
  in one, and a line like `stop` is rejected. A quoted word may be a keyword, `""` is
  an empty word, and white space may lead a quoted number.

## 5. Proofs

`Connection_proofs`: types and `NobodyInAnotherEpoch`, with no assumption. The inductive
invariant is `Gate`: each user inside has the ticket that the connection admits
(`Admitting`: the epoch of the open connection, one less while it drains, none when it is
closed). `GateMeaning` shows that it says the same as the types and the property together.
`UsersKeepGate` is the part where users come and go and the connection stays as it is,
`ConnectionKeepsGate` the part where the connection changes.

`BridgeCore_proofs`: for any callers, retries, script length and number of
connections (`CoreAssumption`), the seven safety properties of `core_safety` and
the refinement of `Connection`. None of them is inductive. `Inv` strengthens them:

* `LocksOwned` ties each mutex to the program counters of its owner, so that two
  threads are never in sections of one mutex;
* `OneCloser`: `closing_` is set exactly while one thread is inside `close()`;
  without it, two closers could each undo what the other waits for;
* `ActiveCounted`: `active_commands_` is 1 exactly while a thread is inside the
  guard (there is never a second one: the guard is made under `command_mutex_`),
  and that thread's generation is the open one or the one being closed; after the
  wait in `close()` there is none;
* `HeartbeatLives`: from `open()` to the join in `close()` there is a heartbeat
  thread of the current or closing generation, and the stop flag is clear while
  the core is open;
* `PortHeld`: whose connection the port is at each stage of `open()` and `close()`;
* `NoFrameAfterStop` itself: `STOP_ALL` is written under the write lock, after
  which every other writer fails its test under that lock.

There is one lemma per operation, one step per action. TLC checks `Inv` cheaply
before the prover does. `Implements` then maps every step to a step of the gate
or a stutter: `OpenSpawn` to `Open` or `FailedOpen`, `Call` to `Take`, `Begin` to
`Enter`, `Finish` to `Leave`, `CloseStart` to `Drain`, `CloseJoin` to the worker's
`Leave`, `CloseDone` to `Shut`; `Inv` supplies that nobody is inside by then.

`Script_proofs`: `response_timeout` is in `timeout_ms .. UINT32_MAX` for every command
(`TimeoutInRange`); types; `DeadlineCoversBatch`; `CleanedMeansQuiet`. Assumptions:
the scripts and commands are sequences and members of `Line`, the other constants
natural numbers. `DeadlineCoversBatch` compares what the client has added up with what
the device has, at a moment when frames are on the way. `Inv` says why they agree:

* `LinkInOrder`: the numbers of the frames on the link grow, from that of the last
  exchange the device has carried out to that of the current one;
* `AnswerIsVerdict`: an ACK or NACK tells what the device did about this exchange, so
  taking it means that the device is done with everything before;
* `BatchAccounted`: between two exchanges of a batch the client's account is at least
  the device's; while one is under way, the account with or without its command is,
  according to whether the device has carried it out; and no older frame that could
  change anything is left;
* `DeadlineSet`: the deadline was computed from this account.

`CleanupSettled` extends it by the state of the device during and after the cleanup.
`TypeOK` of `Script` needs `StageShape`, which ties the stages to their data.

`FrameParser_proofs`: for every frame format in which the header states a length that
is a natural number (`FormatAssumption`), every stream and every cut into reads
(`LinkAssumption`), the types, `ScansFromTheLeft`, `AnswersOnlyHidden` and
`BufferBounded`. `ScansFromTheLeft`
speaks of all the bytes that have come, and more keep coming: a position that is not
decodable now may become so. Hence the invariant says of each erased byte that it lies
in a decoded frame or was `Refuted` by bytes that are already there (`Accounted`); a
refusal is final, because `received` only grows at its end. `FramesWhole` and
`FramesApart` say that the decoded frames stay decodable and do not overlap, and
`WaitsForOneFrame` that a thread that waits has less than one frame in the buffer,
from which the bound follows. `NoneReturned` says that a call under way has decoded no
answer since it began, and `WaitsForTheRest` what a thread that waits has at the front: a
piece of a header, or a header and less than its frame. With `Accounted` for what is
erased, and these two for the rest, `AnswersOnlyHidden` follows. The lemmas on growth state that the header, the length
and the frame at a position do not change when bytes are appended.

The second part of `Script_proofs` has `WholeSegments` and `CompletedMeansDone`. Neither
is inductive: what the device will have executed depends on the frames that a failed
exchange left on the link. `SegmentInv` extends `Inv` by an account of the call. A script is the lines behind it (`Base` of them), its segment, and
its rest (`CutInLines`).

* The device has executed what is behind, or what is behind and the segment.
* `StageReached`: what it has done when the call is at a stage and the current frame is
  not yet carried out; `Batched(n)` says that its open batch is the first n lines of the
  segment.
* `ExchangeReached`: what it has done once the current frame was carried out, and that
  during an exchange no other frame of the call is unseen. An acknowledgement, which by
  `AnswerIsVerdict` is the device's word on this exchange, leads from here to the next
  stage.
* `UnseenReady` is what makes it hold after a failure: each frame that the device has not
  seen finds it `Ready`, a `BATCH_END` for instance with the whole segment collected; and
  behind an unseen frame only `STOP_ALL`s come, since every exchange before it was
  acknowledged. So it does not matter whether the frame of the failed exchange comes
  before the `STOP_ALL`, or never.

A command of its own (`CommandCall`) is one frame, and is executed once at most; an
older call's frames change nothing that the history of this call records.

The last part of `Script_proofs` is the refinement of `Transaction` (`ScriptKeepsPromise`).
`OutcomeInv` adds to `SegmentInv` and `CleanupSettled` how a call ends: an outcome is noted
exactly when the stage says so, a script that does not parse has put no frame on the link
(`OutcomeShape`). A step of the device that carries out a `BATCH_END` or a command of its
own is `Execute`, because the invariant gives that what was executed before is all that
stands before the segment, and that the batch is all of the segment (`BatchExecutes`,
`CommandExecutes`); every other frame is a stutter. `Throw`, `Succeed` and the loop map to
`Fail`, `Complete`, `Acknowledge`, `Clean` or a stutter. The assumption on `Commands` says
that a command of its own is not a line that failed to parse: it comes from a method, not
from text.

`NothingOvertakes` is an action property: a call that goes on to its next exchange leaves
nothing on the way that the device has not seen. `Acknowledged` adds to `OutcomeInv` that
between two exchanges the device's last word was the acknowledgement of the one before;
by `LinkInOrder` every frame on the link then repeats it.

`Exchange_proofs`: for any retries, any modulus of at least two, and any bounds
(`ExchangeAssumption`): types, `AnswerIsOwn` and `NumberNamesRequest`. The properties compare identities that the protocol does
not carry with numbers that wrap. `Numbered` relates them: the number of a request is its
identity modulo a round, in `1 .. SequenceModulus - 1`. `Inv` says that `sequence_` is the
number of the next identity, that every frame on the link and in the buffer has the
number of its identity (`FramesKnown`), and that the current request is the youngest
(`CurrentIsLast`). Equal numbers then mean equal identities or a whole round between
them.

`SessionHandle_proofs`: for any threads, references per thread and number of
connections (`HandleAssumption`): types, `NoUseAfterDelete`, `DeletedMeansShut`,
`FaultEndsItsConnection`, and `NothingAfterDelete`: no step at all
is possible once the handle was deleted. `references` is an integer and the threads'
references are a function, so `Inv` counts tokens, one for each reference that a thread
owns: `references = Cardinality(Tokens)`. Hence the thread that brings it to zero owned
the only one, and as every call keeps the reference it was made with (`UsersOwn`), it is
alone (`DeleterAlone`). `CoreIsUsed` ties the users of the connection to the calls, and
`FaultsEnd` follows a fault from the call that met it to the end of its close.

`Client_proofs`: for any objects, handles and threads (`ClientAssumption`): types,
`HandleHasOneOwner`, `ErrorIsOwn` and `FaultedIsShut`. `PointersLive`, `LiveIsKept` and
`OneKeeper` say that handles and their keepers correspond, where a thread between
creation and the storing of the pointer is a keeper. `ObjectsShared` is what the contract
of INTEGRATION.md section 10 leaves of sharing, `CallsHold` that a thread in a C function
has in hand what its object points to, `ErrorsAgree` that the thread's error text is that
of its own call until it is read, and `OpensUnfaulted` that no open of a faulted handle is
on its way.

`ScriptText_proofs`: for any texts over any symbols (`TextAssumption`), the types, by
which the scanner never looks behind its text; that `Accepted`, which follows
`parse_script_line`, is for every line the same as `Documented`, which follows the table
(`AcceptedIsDocumented`); and `ParsesTheLanguage`. The scanner sees one symbol at a time,
the reference the whole text, so the invariant says which part of a cut has been seen
(`ReadSoFar`): there is a place `h` up to `pos` and a set of places before it such that

* they cut the symbols before `h` into pieces (`Pieced`), and every cut of the text begins
  with these and goes on at `h` (`Forced`). A piece has one end (`OnePiece`), so both carry
  over to the next piece (`NextCut`);
* `words` are those of the line before `h`, `commands` those of the lines before, all
  documented (`Reached`, `NextPiece`, `NextLine`);
* from `h` to `pos` there is nothing, a part of a bare word, or a part of a quoted word in
  which no quote is unescaped, and `current` is what it stands for (`InPiece`).

At the end of the text the pieces are the only cut (`AtTheEnd`). A scanner that rejects has
found either that no piece can begin at `h`, where every cut has one (`QuoteNotClosed`,
`QuoteInWord`, `NoCut`), or a line that is not documented in any cut, because all begin
alike (`BadLine`). `EscapedNext` relates the scanner, which takes a backslash together with
the symbol behind it, to the reference, which counts backslashes; `OrderMore` says what
numbers in their order become when a greater one is added. The reference is written without sorting or filtering
of sequences (`InOrder` takes the place of a number from its rank), since what those do for
every input would take an induction over data.

Only model-checked: liveness (`CloseCompletes`, `CallsReturn`, `HeartbeatFlows`,
`ExchangeEnds`, `ReleasedIsDeleted`), which rests on fairness and `ENABLED` and is out of
the prover's reach here. Every other property of a passing run is a theorem. The four
findings are counterexamples of TLC.

## 6. Not modelled, and the plan

Not modelled: the table of key codes and the polynomial of the checksum, which TLA+
could only repeat; the payload helpers of protocol.hpp; port discovery, the ABI
description and the examples (no state); the copying of payloads into C buffers; the
Win32 calls below the transport; the device's firmware beyond what it may answer; the
Windows I/O manager, which for a synchronous handle may delay a write while a read is
pending; two first commands on one `HidSession` at once, and destruction of the core
during a call, which the documentation forbids.

What could follow: the conversion of a script line into its payload (script.hpp, keys.hpp)
between `ScriptText` and `Script`, which today meet in the type of a line; action
properties of `Script` about the cleanup (after a failure only `STOP_ALL` is sent) from
`OutcomeInv`; and one exchange of `BridgeCore` replaced by `Exchange`, whose
composition is an argument of this file (section 2) and not of a module.
