# Verification of the Printer Emulator

This project models, checks and proves the behaviour of the Printer Emulator:
Linux software that takes the place of the printer module on the RS-485 line of
a 1022 diverter. Paths below are relative to the repository.

## The system

| Part | Source | State it keeps | Operations |
| --- | --- | --- | --- |
| Parser | `Printer-Emulator/parser.c` | `header_state`, `buffer`, `buffer_len`, `status`, `hst_is_first`, `is_snapshot`, four data files | one handler per state, called once per received byte; `parse_open`, `parse_close` |
| Engine loop | `Printer-Emulator/main.c` | `control`, `trigger1`, `trigger2`, `isRunning` | take triggers, take one client message, block in `read()`, parse what came |
| Requests | `control_receive_msg`, `Printer-Emulator/utils.c` | the `control` bits | map a client message to request bits and an immediate reply |
| Message services | `Common/message_services.c` | a server queue, a queue per client, `client_mq_server` | create, send (blocking), receive, remove |
| PE-Console | `PE-Console/main.c` | `isBreak`, `isLogMode` | send a request per key, poll for answers, quit, exit the engine |
| PE-Control | `PE-Control/main.c` | `response_complete`, `exit_value` | send one request, block until it is completed |
| Options and start | `Printer-Emulator/main.c` | `options`, the directories | check the options, make directories, open the port, choose a block |
| Unit test, capture | `Printer-Emulator/main.c`, `DumpHex` | the chunk being joined, the capture file | replay a recorded dump; write one |
| Serial port, file names | `Printer-Emulator/utils.c` | none | termios, `strftime` |
| Terminal | `PE-Console/client_utils.c` | the terminal's old settings | raw mode, `kbhit`, `getch` |
| Service | `Target/printem.service` | none | restart the engine two seconds after it ended |

The 1022 is the master of the line and not part of the repository. It polls the
printer module once per cycle with `98 90`; the module has one 50 ms slot to
answer with its status byte and, if it wants something, a letter: `R` report,
`I` history, `T` log mode (and the first history record), `H` next history
record, `L` next log record. The letter and the log bit of the status decide
what the 1022 puts in front of its next display records.

Interaction:

- A client puts a request into the server queue. The loop takes at most one per
  `read()`, raises a request bit and `MESSAGE_SRC`, and confirms at once. The
  parser finds the bit at the next poll, clears it, sends the letter, and tells
  the client of the completion when the session is through (report, history) or
  has been asked for (log mode).
- The 1022's panel raises the same bits through `@R`, `@H`, `@L`; the signals
  USR1 and USR2 raise the log mode bits.
- Queues belong to the kernel: the engine's, behind a well-known key, outlives a
  death and is found again by the next life; only an exit request removes it. A
  client makes a private queue and names it in each request; the engine keeps
  one address, that of the latest message.
- All communication inside the engine is through `control`, `header_state` and
  `status`. One `MESSAGE_SRC` bit and one `client_mq_server` stand for all
  clients.

What is hard: requests may arrive between any two bytes; the parser decides on
what it read several bytes earlier and on the old contents of `buffer`; the log
toggle is decided when a request is taken and carried out polls later; a report
or history interrupts log mode; several file pointers follow the sessions;
opens fail; the process dies and is restarted with nothing, over the queue it
left; a `msgsnd` waits on a full queue, on both sides; clients come, are killed
and leave queues behind; a capture breaks off inside a line.

What makes each part correct:

- Parser: no write behind `buffer`, nothing comes of what is read in front of
  it; files open exactly during their session; log bit up exactly in log mode; a
  dump ends on `;end` and only then.
- Engine and requests: every request is served once, in the code's order; every
  debt is paid once and to a true completion; nothing is owed without a cause.
- With the 1022: both are in the same session; polls are answered in their
  slot; a file that is closed holds the whole dump; requests and dumps end, but
  behind a request the 1022 did not hear.
- Queues and clients: the engine has an address for what it owes; requests are
  taken, or gone with their queue; the engine waits for good only for a console
  that was killed or itself waits; a control leaves with a confirmation and a
  completion; no queue is left in the kernel by a client that succeeded.
- Start, unit test and capture: a block that runs is the one announced; only
  the live block has a parser that answers; what was captured is replayed as it
  was heard, in whole datagrams.

## Modules

| Module | Models | Correspondence |
| --- | --- | --- |
| `Parser` | `parser.c`, all of it but printing | One action per handler, same name. `buffer` keeps old cells when `buffer_len` is reset, as the code reads some of them. `logmode` is the one bit of `status` that changes; `f_open` the file pointers that are not NULL; `tx`, `wrote`, `told` what the latest step sent to the line, wrote to a file, told the client. `fault` is how a handler ended the process: a NULL stream or a write behind `buffer`. |
| `Session` | what clients are promised | Abstract: which session runs, requests, a debt, a completion, and whether there is a process. No bytes. Requests and debts are forgotten only by the step with which the process ends. |
| `Engine` | `main.c`'s live loop, `control_receive_msg`, signals, exit, death, restart | `LoopHead(m)` is one round up to the return of `read()`, `Receive(b)` one byte parsed. `loop` says where the round is: `read()` returns one byte or more, so between two bytes the head runs once or not at all. In passive mode `main` has no such loop; the same bytes then come from the unit test, in chunks, and there are no requests. |
| `MCEngine` | a line of protocol tokens for TLC | Bytes come in short sequences (tokens) in any order, broken off anywhere by the loop. |
| `Link` | `Engine` on the line of a 1022 | The 1022 is external: frames, slots and answers as `parser.c` expects them and the recordings in `Printer-Emulator/Captures` show them. Bytes are buffered between the two; an answer outside the slot is not heard. `saved` is what the engine's dump file holds, without the `98` in front of each record. |
| `MCLink` | a display record as recorded, shortened, and short dumps | |
| `Queues` | `message_services.c` over the kernel's queues | One operator per function: what it does to the queues. `key` is the id behind `MSG_QUEUE_KEY`, `exists` the private queues, `answers` what they hold. Ids are not used again. |
| `Server` | the engine at its queue | `mode`, `logging`, `asked`, `owed`, `notice` are those of `Session`, and `BeginDump`, `EndDump`, `SwitchLog`, `PassBytes` its actions; new are the round of the loop (`phase`), `msg_send_to_client` as a step that may wait, exit, death, restart over an old queue. |
| `ClientPrograms` | `PE-Console/main.c`, `PE-Control/main.c` | One process per client, run once. A `msgsnd` is a step of its own. `heard` is what a control was answered. |
| `Service` | the composition of the three | each step is one of the engine or of one client |
| `Startup` | `main.c` around its blocks | `TakeOption`, `Check`, `Directories`, `OpenPort`; `Announced` is the check's conditions, `Block` those of the blocks, as `main.c` writes them out separately. |
| `Recording` | capture block, `DumpHex`, unit test block, the file between them | A line of the file is a marker or up to 16 cells. `heard` is what the latest capture has read, for the properties. `Killed` leaves any prefix of what was printed, a cut cell included. `ReadLine` is `sscanf` and the chunker; `parsed` the calls of `parse_header`. |
| `MCRecording` | datagrams and files for TLC | |
| `EngineProofs`, `PromiseProofs` | | theorems about `Engine` |
| `LinkProofs`, `DumpProofs` | | theorems about `Link` |
| `ServiceProofs`, `AnswerProofs` | | theorems about `Service` |
| `RecordingProofs` | | theorems about `Recording` |
| `SequenceFacts` | | what proofs use of numbers and sequences: induction, recursion, `FlattenSeq`, regrouping |

`Engine` is shown to implement `Session` through the mapping `Promise`: the mode
is the group `header_state` is in, the requests are the request bits, the debt
is `MESSAGE_SRC`. `Link` composes `Engine` with the 1022. `Service` stands on the
other side of `Session`: its engine takes its protocol steps from there, so that
nothing is shown of them in `Service`, and what is shown of the queues holds for
an engine as `Engine` is. There all requests come from clients: the panel and
other printer modules are in `Engine`.

Left out everywhere: `printf`, `DEBUG_DUMP`, file names, the content of
`s_msg.rsp` behind its first words. `HST_Data` compares `buffer[buffer_len - 5]`
first, behind a short record a cell in front of `buffer`: what it finds there is
a choice of either outcome (`MarkAt(oob)`); the read itself has no effect in the
model. `rewind`, `fwrite` and `fclose` of NULL
end the process. `unique_filename` failing and `fopen` failing are the same:
the pointer stays NULL.

Definitions named `X_Something` directly in front of `X` and marked *Mutant* are
plausible mistakes in `X`. No specification uses them. For each property of a
passing run one of them, put in the place of `X`, makes the run fail; that shows
that the property depends on the code.

## Runs

| Run | Configuration | Question |
| --- | --- | --- |
| `engine_dump` | `EngineDump` | Reports and histories of an active engine, requests at any byte: `TypeOK`, `LookBackIsHarmless`, `NoNullStream`, `SessionEndsOnMark` |
| `engine_log` | `EngineLog` | Log mode of an active engine, switched by client and panel: `LogBitFollowsLogMode`, `DebtIsBacked`, `OffRequestFits`, `LogRecordIsFresh` |
| `engine_passive` | `EnginePassive` | Sessions overheard by a passive parser: `FilesFollowSessions`, `LookBackIsHarmless`, `KeepsPromise` |
| `engine_control` | `EngineControl` | Requests and both signals, failing opens on the target, exit, death and restart anywhere: `FilesFollowSessions`, `KeepsPromise` |
| `link` | `Link` | With a 1022 whose display records are as recorded: both in step (`EngineFollowsMaster`, `LogRequestsFit`, `AnswersInSlot`), `DumpIsWhole`, `NoFault`, `CompletionIsTrue`, `LogModeResumes`; and requests are served, dumps end and clients are told, but where an answer was not heard (`RequestServedInStep`, `DumpsEndInStep`, `ClientToldInStep`) |
| `service` | `Service` | Engine, a console, a control, queues of two, killed and restarted: `AddressKnown`, `ControlNeverHolds`, `ConfirmedFirst`, `LeftBehind`, `EngineMovesOn`, `RequestsTaken`, `ControlReturns` |
| `recording` | `Recording` | Three lives with any options, captures that break off and their replay: `BlockIsFit`, `NothingReordered`, `RoundTrip`, `WholeDatagrams`, `SixLinesFit` |
| `client_left_waiting` | `ClientLeftWaiting` | violated, see below |
| `readings_stale` | `ReadingsStale` | violated, see below |
| `history_no_file` | `HistoryNoFile` | violated, see below |
| `wrong_completion` | `WrongCompletion` | violated, see below |
| `passive_no_block` | `PassiveNoBlock` | violated, see below |

`engine_*` assume no order on the line: noise, broken frames and frames in the
wrong mode are among the behaviours, put together from the tokens of `MCEngine`.
That the same holds for every byte sequence is what the proofs show. One
property depends on the tokens: `LogRecordIsFresh` supposes that no other
printer module answers on the line, so the tokens of `engine_log` hold no `T`.
`Session` has no run of its own: `KeepsPromise`, `CompletionIsTrue` and
`LogModeResumes` check it through the engine. The runs of `Link` assume a 1022
that keeps its protocol, which is what the
properties that relate both sides need. `service` assumes nothing of clients:
any key at any time, a kill at any step. A property is checked in one `engine_*`
run or two, where it can be disturbed; the proofs cover all of them.

### Bounds

- `BufSize` is 5 or 6 in `engine_*` and 24 in the runs of `Link`, 256 in the
  source. Five bytes are the longest record a handler starts with, six the
  shortest record with `98` and `;end`. Small buffers make the overrun of an
  unbounded line a matter of few bytes; it ends the behaviour as a death of the
  process.
- `Tokens` hold every byte value some handler compares in the mode of the run;
  bytes no handler compares behave alike, and are represented where one matters.
- `Lag` (2 in `link`, 1 in the violated runs): bytes sent and not yet read. With
  more, the engine may be a whole slot late and its log-off answer is missed;
  the 50 ms budget of the protocol excludes that, the model has no clock.
- `Requests_Max`, `Presses_Max` (2 and 1): requests and panel directives of a
  behaviour. Two requests are enough for a second one to meet every stage of the
  session of the first; a history that waits behind reports for ever needs
  requests without end and is out of reach. `DisplayCounts` {1, 2}: display
  records in a frame without a payload, of which the recordings have one, five,
  six or eight. `PayloadCounts` {1, 2} in `link`, {1} elsewhere: display records
  in a frame with a payload, of which the recordings never have more than one.
- A report has two records and a history three, the last one ending in `;end`:
  one that is first, one between, one last.
- `Cap` is 2 messages in `service`; the kernel's 16384 bytes hold 64. Two is the
  least at which a control can be confirmed and told of a completion without
  being scheduled in between (`ControlsHoldNothing` needs that), and small
  enough for both queues to fill.
- `Keys_Max` (3): with `CLIENT_INIT`, a console sends four messages, so that both
  its own queue and the engine's can fill. The keys are `l`, `x`, `q`: a switch,
  an exit and a leave, and the control asks for a report or is called wrongly.
  Two ways to wait for good are in reach of the code and of these bounds, and
  TLC finds either if `Held` is taken out of `EngineMovesOn`: a console with its
  answers unread is blocked in `msgsnd` on the engine's full queue while the
  engine is blocked on the console's; and a console is killed with its queue
  full. `EngineMovesOn` says there is no other way. With 64 messages in each
  queue the first takes about a hundred keys without a pause (a held key, pasted
  text), as the console reads answers only while no key is hit.
- `Killable` are console and control, at any point. A killed control holds
  nobody up, which is `ControlNeverHolds`.
- `service` and the runs of `Recording` do not look for deadlocks: in the first
  the engine may wait for good for a killed console when nobody else is left to
  move, in the others the lives of the process come to an end.
- `Deaths_Max` (1): a death, over a queue with requests, and an exit.
- `Lives_Max` (3): a capture, its replay, and a life between or behind them that
  must leave the recording and what is said of it alone. The ramdisk may be lost
  in between, and the file may come from elsewhere (`Files`): six full lines in
  a row, seven lines, a line with no cell.
- `Datagrams` have 1, 14, 15, 16 and 18 bytes, one below, at and above what
  joins lines, and one with a 00 byte; `Reads_Max` (2) gives two neighbours.

### Fairness

`LinkFairSpec` asks weak fairness of the 1022's steps (it cycles as long as it
is powered; a slot ends), of `Deliver` and of the head of the loop without a
request (the process is scheduled, and `read()` returns when bytes are there).
Nothing is asked of clients, panel or signals. `SlotOver` waits until the engine
has read all that was sent: this is where the 50 ms budget is assumed.
`EngineControl` has deaths and `Link` has none, as a liveness claim needs a
process that stays.

`FairSpec` of `Service` asks weak fairness of a round of the engine's loop
(`Round`): the process is scheduled, `read()` returns as the 1022 never goes
quiet, systemd restarts the process. And of `BeginDump` and `SwitchLog`, each: a
pending request is spent at the next `90` that is taken for a poll, heard or not.
Nothing is asked of `EndDump`: that the 1022 has heard the request is not
guaranteed (`client_left_waiting`), so a dump may run for ever, and
`ControlReturns` says so. And of a client's own steps once it has been started.
Nothing is asked of keys, kills, starts or deaths. A `msgsnd` on a full queue is
a step that is not enabled, so that who waits there waits until somebody reads.

### What the violations show

- `client_left_waiting`: `SS_Pause` takes any `90` in steady state for a poll,
  and in steady state the display record is read in `SS_PAUSE` too. Every
  recorded display record ends `1D 90 7D`. The engine then answers inside the
  record, where nobody listens. If a report request is pending, it is spent on
  that answer, the engine cycles through the report handlers over ordinary
  frames, and the client is never told. `ClientToldInStep` of `link` says that
  nothing else keeps a client waiting: the engine is then out of step with the
  1022 for good (`OutOfStep`).
- `readings_stale`: the handlers that refresh `readings.txt` are not reached
  again in active steady state.
- `history_no_file`: `HST_Data` closes a history file without testing that there
  is one.
- `wrong_completion`: two controls, a report and a history. The engine keeps one
  address and one `MESSAGE_SRC`. The first completion goes to the control that
  spoke last, which takes it for its own and ends with success, its queue gone;
  the other one is told nothing any more and waits for good. What is kept in
  that case is `ConfirmedFirst` and, of waiting, `ControlReturns`: a control
  waits for good only if the engine has heard of somebody else, died or exited,
  is held by a full queue, or is in a dump without end.
- `passive_no_block`: `printem -d -p`, which the help offers for parsing
  passively to stdout, passes the check and is announced ("Running Passively with
  Dump to Stdout"), and then no block runs: the live one asks for `ACTIVE_MODE`.
  The program opens the port and ends. `BlockIsFit` is about the blocks that do
  run.

## Proofs

The theorems about `Engine` hold for every set of bytes and messages, every
`BufSize` from 5 on, both modes, with and without deaths, and (but for the one
that says so) with and without failing opens. They rest on `ParserAssumption` and
`EngineAssumption` only, and never on the tokens of the runs. Those about `Link`
hold for all display records, dumps, log records and panel letters that
`DisplayAssumption` and `LinkAssumption` allow, every `Lag` and any number of
requests and frames. Those about `Service` hold for all sets of clients, every
capacity, any number of keys and deaths (`QueuesAssumption`,
`ClientsAssumption`, `ServiceAssumption`), those about `Recording` for all
datagrams, files and lives (`StartupAssumption`, `RecordingAssumption`). None
needs fairness.

What is assumed of the 1022 was read off `Printer-Emulator/Captures` and off
what `parser.c` compares. In every recorded frame a display record starts with
`91` and holds neither a `98` nor a second `91`; a `90` in it is its last byte
but one, with no `0D` behind it; a payload holds none of the three; the only
other `90` is the poll, behind a `98`; only the last record of a dump ends in
`;end`. With recorded displays (`1D 90 7D` at the end) the condition on `Lag` is
`Lag <= 3`: an answer to that `90` is written before the frame is through.
`FramesFit` asks that the longest frame leave room for the five bytes of an
answer. In the recordings a display record has 27 bytes; a frame without a
payload has 226 bytes at most, eight display records; one with a payload has 74,
the payload 44; the frame that ends with a late `;wait` has 232. With the five,
237 of the 256 bytes of `BufSize`. `MCLink` has TLC evaluate the assumptions and
`FramesFit` on the instances of the runs.

| Theorem | States |
| --- | --- |
| `EngineProofs!TypeCorrect` | `Spec => []TypeOK`, with `buffer_len` never above `BufSize` |
| `EngineProofs!FilesAreSessions` | `Spec => []FilesFollowSessions` |
| `EngineProofs!LogBitIsLogMode` | `Spec => []LogBitFollowsLogMode` |
| `EngineProofs!DebtBacked` | `Spec => []DebtIsBacked` |
| `EngineProofs!OffRequestsFit` | `Spec => []OffRequestFits` |
| `EngineProofs!NoNull` | `Spec => []NoNullStream`, if `fopen` never fails |
| `EngineProofs!LooksBackInVain` | `Spec => []LookBackIsHarmless` |
| `EngineProofs!EndsOnMark` | `Spec => SessionEndsOnMark` |
| `EngineProofs!LogRecordsFresh` | `Spec /\ AloneInSlot => []LogRecordIsFresh`, `AloneInSlot`: no other module begins log mode in the engine's slot |
| `PromiseProofs!Implements` | `Spec => KeepsPromise`: `Engine` implements `Session` |
| `PromiseProofs!CompletionsAreTrue` | `Spec => []CompletionIsTrue` |
| `PromiseProofs!LogModeComesBack` | `Spec => LogModeResumes` |
| `LinkProofs!LinkIsEngine` | `LinkSpec => Spec`: each theorem about `Engine` holds with a 1022 on the line |
| `LinkProofs!LinkCompletionsAreTrue`, `LinkLogModeComesBack` | two of them, which `link` checks |
| `LinkProofs!LineInvariant` | `LinkSpec => []LineInv`, the invariant behind the five that follow it |
| `LinkProofs!MasterFollowed` | `LinkSpec => []EngineFollowsMaster` |
| `LinkProofs!LinkRequestsFit` | `LinkSpec => []LogRequestsFit` |
| `LinkProofs!LinkAnswersInSlot` | `LinkSpec => AnswersInSlot` |
| `LinkProofs!LinkAloneInSlot`, `LinkRecordsFresh` | `LinkSpec => AloneInSlot`, and so `LinkSpec => []LogRecordIsFresh` |
| `DumpProofs!FramesFitBuffer` | `LinkSpec => []NoFault`, if `FramesFit` and `fopen` never fails |
| `DumpProofs!DumpsAreWhole` | `LinkSpec => DumpIsWhole` |
| `ServiceProofs!ServiceTypes` | `Spec => []TypeOK` of `Service` |
| `AnswerProofs!AddressIsKnown` | `Spec => []AddressKnown` |
| `AnswerProofs!ConfirmationFirst` | `Spec => []ConfirmedFirst` |
| `AnswerProofs!OnlyFailuresLeft` | `Spec => []LeftBehind` |
| `AnswerProofs!ControlsHoldNothing` | `Spec => [](Cap >= 2 => ControlNeverHolds)` |
| `RecordingProofs!RecordingTypes` | `Spec => []TypeOK` of `Recording` |
| `RecordingProofs!BlockFits` | `Spec => []BlockIsFit` |
| `RecordingProofs!ReplayKeepsOrder` | `Spec => []NothingReordered` |
| `RecordingProofs!SixLinesDo` | `Spec => SixLinesFit` |
| `RecordingProofs!RecordedIsReplayed` | `Spec => []RoundTrip` |
| `RecordingProofs!DatagramsAreWhole` | `Spec => WholeDatagrams` |

The argument:

- `TypeOK` is inductive as it stands. One lemma for each thing handlers share
  (`FillType`, `PushType`, `AnswerType`, ...), one for each group of handlers.
- `IInv` of `EngineProofs` is the invariant behind the files, the log bit and
  the debts. Two parts are not among the properties: `ListensOnly` (the handlers
  that only listen are entered by an engine that only listens), needed where
  `LOG_Printer` drops the log bit without a request, and `DownIsSteady`, needed
  for the restart. The parts depend on each other: the log file is closed where
  the log bit falls, and the log bit is up only where the log file can be open.
  What the record holds plays no part, so `Fill` and `Push` stay closed.
- `LooksBackInVain` rests on `RecordBegun`, which is inductive together with
  `TypeOK`: each reset leaves what the next handler looks back at, and a record
  of `HST_Data` starts with `98`. That handler has no test of the length and
  compares `buffer[buffer_len - 5]` first, so behind a record below five bytes
  the cells in front of the buffer are read. It is harmless (`MarkNeedsFive`),
  whatever they hold: for such a record to be taken for the end mark the `98` it
  starts with would have to be one of the five bytes `;end` and carriage return.
  With the files invariant this gives `EndsOnMark`.
- `NoNull` carries `NullFree`: `readings.txt` stays open as long as the process
  lives. `history_no_file` shows that without its hypothesis it is false.
- `Implements` maps each handler's step to one step of `Session` or to a stutter
  (`PassStep`, `AskStep`, `ServedStep`, `FinishStep`, ...: one lemma for each
  abstract action). `IInv` is needed in log mode only: `StopLog` of `Session`
  wants the log bit up, and what is overheard there wants a passive engine. The
  last two theorems of `PromiseProofs` follow from `Session` alone.
- `OffRequestsFit` follows from the same `IInv`: the bit is raised only with a
  look at the log bit, and every handler that drops the one clears the other.
- `LogRecordsFresh` carries `FreshInv`: log mode begins with an answer or an
  echo in the buffer, whose cells 1 and 2 hold no byte `LOG_Data` looks for, and
  each byte of the record that overwrites one is looked at with the next. What
  another module's `T` would leave there the code does not restrict, hence the
  hypothesis `AloneInSlot`. Log mode begun that way needs a second printer module
  on the line; with a 1022 and no other module there is none
  (`LinkAloneInSlot`).
- `LinkIsEngine` maps each step of `Link` to one of `Engine` or a stutter, the
  state being the same, so `IInv` and `RecordBegun` hold on the line.
- `LineInv` has three parts. `StreamInv` is about the bytes sent and not read
  (`Stream`): in them a `90` is the poll, the last byte, or stands in a display
  record far enough from its end, with a `98` and no carriage return behind it;
  a record that ends in `98` is followed by the poll only at the end of the
  frame. `EarInv`: what is heard in the slot is one answer, sent when the stream
  was empty. `ModeInv` relates the session of the 1022 to the handler in charge.
  One case of it is not obvious: the engine may be in a history, log bit down,
  while the 1022 is in log mode (its `T` was spent on a `90` inside a display
  record); no end mark is in the record or on its way then (`Quiet`), and the
  1022 never begins a session the engine is not in. `MasterFollowed`,
  `LinkAloneInSlot` and, with the two conditions on the requests (`FitInv`),
  `LinkRequestsFit` follow.
- `FramesFitBuffer` carries `RoomInv`: what the buffer holds and what is left of
  the frame fit `BufSize` together, and unless that is five bytes or fewer the
  byte that ends the record is still to come (`Due`). So a frame that arrives
  finds an answer in the buffer and nothing else, with one exception: the engine
  came up inside a display record, and what it read of that is still there. It
  skips to the next `91`, which stands early enough in any frame (`Waiting`).
  The frames are those of `Frames`. Without the bound on frames the handlers
  write behind the buffer (they have no test); with a failing `fopen` they use
  NULL streams, as `history_no_file` shows.
- `DumpsAreWhole` carries `DumpInv`. While the 1022 runs a dump (`Running`), `k`
  records are sent; one of them may be ahead of the engine, as a frame not yet
  read, or in part in the buffer (`Ahead`); the file and what is ahead make the
  first `k` records (`WrittenUp`). Behind the last one the 1022 has left the dump
  and the engine has not (`Ending`); at all other times no end mark can reach
  the handler (`Quiet`). The file is closed on the end mark, that is in `Ending`
  with the last record in the buffer. No hypothesis on `fopen` is needed: a
  missing stream ends the process, and `Closed` does not count that.
- `LinkAnswersInSlot` follows from `LineInv`: in the stream a `90` behind a `98`
  is the poll, the stream's last byte, so whoever answers it has read all that
  was sent. Every handler but `SS_Pause` answers behind a `98` only. What
  `SS_Pause` makes of the other `90` is the subject of `client_left_waiting`.
- `IInv` of `AnswerProofs` says for each client what it may have been sent. A
  client the engine has not heard of (`QuietUnheard`) has no answer and no
  request in the queue; that is why the queue of a client that failed stays
  empty, and the address is never lost to one that never spoke. For a control:
  at most one request of its own is ever in the queue (`AsksOnce`), its first
  answer confirms that request and there are two at most, heard or not
  (`InOrder`), and while the engine's answers go to it, what is still to be sent
  is what is missing (`Addressed`). That count is what makes `ControlNeverHolds`
  true from `Cap` 2 on; with `Cap` 1 a killed control would hold the engine.
  `Notices` ties the completion being sent to `Session`'s `notice`. Steps of
  other clients leave all of it alone (`OtherOK`), so that each step is proved
  for one client only.
- `BlockFits`: the conditions of the check and of the blocks agree on all 64 sets
  of options, the passive dump excepted, which no block takes up
  (`CheckFitsBlock`); `TARGET`, which is added in between, is no part of either
  (`TargetIsNoMode`).
- The theorems about `Recording` speak of concatenations of any length. The
  library's induction theorems take an operator and cannot be used;
  `InductionOver` states induction for a set of numbers, which is enough, and
  `FlattenIs` gives `FlattenSeq` as a function defined by recursion. `RecInv` is
  the type invariant with the length of the lines; `ChunkInv` bounds the chunk
  being joined by sixteen bytes for each full line in a row (`SixLinesDo`);
  `KeptInv` says that a capture has printed what it has heard, and that the file
  it left is the first part of that, possibly with a cut cell
  (`RecordedIsReplayed`, `DatagramsAreWhole`).

Model-checked only: liveness, which this prover cannot state (it has no rule for
`ENABLED` and so none for fairness): `RequestServedInStep`, `ClientToldInStep`
and `DumpsEndInStep` of `link`, `EngineMovesOn`, `RequestsTaken` and
`ControlReturns` of `service`. Every invariant and every action property of a
passing run is stated by a theorem; the properties of the violated runs are
false and have none.

## Where the development stands

1. `Parser`, `Session`, `Engine`, `Link`: done, with the theorems above.
2. Message services and clients over `Session`: done.
3. Options, start, capture and replay: done.
4. Proofs for 2 and 3, and of what `Link` says of both sides: done. The
   hypotheses that remain are those of `NoNull`, `LogRecordsFresh` and
   `FramesFitBuffer`; each is needed, as said above.

Not modelled:

- The clock: the 50 ms slot, `usleep`, `RestartSec`, the five seconds of the
  snapshot timer (which is a choice). `Link` bounds lateness by `Lag` instead.
- Termios settings of line and terminal, `setserial`, priorities, the wording of
  messages and file names: no state the properties could be about.
- `SIGUSR1` and `SIGUSR2` while a `msgsnd` waits (it returns `EINTR` and the
  answer is lost): test signals, and the queue has to be full.
- Limits on the number of queues (`MSGMNI`), and ids that the kernel gives
  again: `AddressKnown` is why the engine itself does not depend on them.
- `read()` that fails: in the capture its -1 is given to `DumpHex` as a size.
- Answers that `message_services.h` names and nothing sends
  (`SERVER_REQUEST_FAILURE`, `SERVER_ACTION_FAILURE`, `SERVER_RESET`),
  `msg_create_client_mq_ftok`, and code under `#if 0`.
- `isLogMode` of the clients: `strcmp(rsp, "logmode")` matches none of the
  answers, so it keeps its first value, and it is only printed.
- `make`, `install_printem.sh`, and of the service unit all but `Restart=always`.

Observed while modelling, with no text that says otherwise: a 00 byte on the
line ends its line in the replay, so `00 44 98` in test file 12 is lost
(`main.c:404`); a recording whose last line is full is not parsed to its end
(`main.c:434`).
