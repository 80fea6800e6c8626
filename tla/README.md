# Verification of inverter-tools

TLA+ models of *inverter-tools*, a daemon (`inverterd`) and a command line tool
(`inverterctl`) that control Voltronic P18 inverters over USB or RS232, with the
TLC configurations that check them on small instances and TLAPS proofs of their
main properties for all instances. Paths are relative to the repository root.

## 1. The system

`inverterd` lets several TCP clients use one inverter. The inverter is on a
half-duplex link: it takes one command frame, and answers it, maybe late, maybe
never, maybe with noise. README.md:11-13 states the purpose: to be used "in
multi-user or multi-threaded scenarios, where there may be more than one
simultaneous request to device, to avoid errors or device lockups".

    clients --TCP--> Server::start --creates--> Connection, one thread each
                       |                          | processRequest
                 shutdownCaught <--limit-- Server::executeCommand  (client_mutex_, cache_)
                       ^                          | Client::execute
                  SIGTERM/SIGINT            Device::run --> USB / serial / pseudo --> inverter

| Component | Source (`src/src/`) | State | Operations | Hard part | Correct if |
|---|---|---|---|---|---|
| command executor | `server/server.cc` 123-173 | `client_mutex_`, `cache_`, `endExecutionTime_`, `deviceErrorCounter_` | `executeCommand` | threads, cache validity, failures half way, late answers | each client gets the answer to its own request, not older than what had ended when it asked; the pause is kept; the mutex comes back |
| connection lifecycle | `server/server.cc` 24-121, `server/connection.cc` 34-136, `server/signal.cc` | `connections_`, `thread_`, heap blocks, `shutdownCaught` | accept loop, constructor and destructor, add/remove, signal handler | a thread that starts in a constructor and deletes the object; nothing wakes accept | the registry is exact, no object is used after it is freed, connections and the process end |
| request reader | `server/connection.cc` 54-106, 149-247 | the 2048-byte buffer, `options_` | `readLoop`, `processRequest` | framing of a byte stream | one line, one request, one response |
| device I/O | `voltronic/device.cc` | `timeStarted_`, `timeout_`, flags | `run`, `send`, `recv`, two loops | deadline, partial reads and writes, return codes | an answer is whole and in time, buffers are not overrun |
| backends | `voltronic/{usb,serial,pseudo}_device.cc` | handle | `read`, `write` | report size, blocking time | what `device.cc` relies on |
| CRC | `voltronic/crc.cc` | none | `crc_calculate` | reserved bytes | no reserved byte, equals CRC-16/XMODEM otherwise |
| command input | `p18/commands.cc`, `defines.cc`, `util.cc` | none | `validate_input` | conversions and casts | only what the inverter documents is let through |
| client encoding | `p18/client.cc` | none | `execute`, `packArguments` | header length, field widths | frames have the length they declare |
| response decoding | `p18/response.cc`, `types.h` | raw bytes | `validate`, `unpack` | lengths of untrusted data | bad answers are refused, not misread |
| daemon options and start-up | `inverterd.cc` | the locals of `main` | getopt loop, opening the device, `Server::start` | which exceptions are caught, settings of another library | options mean what the help says |
| inverterctl | `inverterctl.cc` | the locals of `main` | options, words, one command, its result | as above, and the tables that it shares with the protocol | what is asked is sent, what is sent is shown, failures end in an exit status |
| formatter | `formatter/` | none | `operator<<` | enumerations without a text | every value can be shown |
| logging, testserial, unit file | | none | | | not modelled: output, a manual test, configuration |

The executor, the connections and the daemon's threads are concurrent. What lies around
them is sequential and is hard for another reason: `validate_input` turns words into
indices, `packArguments` gives the indices widths and places, `unpack` reads them by size
and place, and `operator<<` turns them into words again, in four tables of four files,
over libraries that throw (`std::stoul`), convert silently (casts to `u16`, float to `int`)
or take anything (`"nan"`).

The components meet in four places: threads call `executeCommand` under
`client_mutex_`; they register and unregister under `threads_mutex_`; workers and
the signal handler write `shutdownCaught`, which main reads; and consecutive
executions share the link, where an earlier one may have left something.

## 2. Modules

| Module | What it is |
|---|---|
| `CommandService` | abstract specification: what a client of `exec` is promised, without mutex, cache, pause or link |
| `CommandExecutor` | `executeCommand` down to the frames and answers on the link; says how it implements `CommandService` |
| `MCCommandExecutor` | small instances of it: one get command, two set commands |
| `CommandExecutorProofs`, `CommandServiceProofs` | its theorems, and the refinement |
| `ConnectionLifecycle` | accept loop, connections, registry, shutdown |
| `MCConnectionLifecycle`, `ConnectionLifecycleProofs` | its instances and its theorems |
| `RequestReader`, `MCRequestReader`, `RequestReaderProofs` | from the bytes a client sends to requests, its instances and its theorems |
| `DeviceIO`, `MCDeviceIO`, `DeviceIOProofs` | `Device::run` over partial reads and writes of the USB and serial devices, its instances and its theorems |
| `CommandInput` | operators: `validate_input`, the arguments of all 41 commands |
| `CommandFrame` | operators: `Client::execute` and `packArguments`, the frame of a command |
| `Crc` | operators: `crc_calculate`, and CRC-16/XMODEM one bit at a time as its reference |
| `Responses` | operators: `validate`, `unpack` and the formatters of every response class |
| `Programs`, `MCPrograms` | both programs from their command line to what they show, over the four modules above; its instances |
| `AnswersProofs`, `FramesProofs`, `ProgramsProofs` | its theorems, one on top of the other: types, crashes and own answers; frames, command lines and settings; answers to other commands, the port and the CRC |

### CommandExecutor

A thread goes `idle -> waiting -> sleeping -> writing -> reading -> replying`.
One action is one stretch of `executeCommand` between two points where another
thread, the device or the clock can make a difference; what runs under
`client_mutex_` and touches nothing outside is one action.

| Action | Code |
|---|---|
| `Ask`, `Reply` | `processRequest` calls `executeCommand` and sends the result (`connection.cc` 206-246) |
| `CacheHit` | lock, valid entry, return (`server.cc` 124-131) |
| `CacheMiss` | lock, erase the entry, compute the pause (124-142) |
| `Begin`, `Write` | `Device::run` takes the time, `send` writes the frame (`device.cc` 53-113) |
| `Succeed` | answer read, validated, unpacked; cached; counters (`server.cc` 144-157) |
| `RefuseAnswer` | bad CRC, `validate()` false, parse errors: read and dropped (158-173) |
| `PackFails` | `std::out_of_range` of `packArguments`: nothing is written (`client.cc` 43, 159) |
| `Overflow` | `std::overflow_error` of `readLoop`: the rest of the answer stays (`device.cc` 172-173) |
| `GiveUp` | `TimeoutError` in `writeLoop`, `run` or `readLoop` (`device.cc` 58, 108, 169) |
| `DeviceFails` | `DeviceError`: counter, limit, `shutdownCaught` (`server.cc` 158-163) |
| `DeviceTakes` | the inverter (external) takes a frame, carries it out or not, answers or not |
| `Signal`, `Tick` | signal handler (which may cut `usleep` short); the clock |

Frames and answers are records that remember the execution (`run`) they were made
by, which the properties use and the code cannot see. `Acceptable` is what
`validate()` and `unpack()` tell apart: a set command takes any `^1` or `^0`, a
get command takes data that parses in its own form. Serial reads may return bytes
of several answers at once; what follows the first `\r` is dropped (`TakeAnswer`).
Noise is an answer that is refused or does not come; noise that makes a `\r` inside
an answer, which would leave its tail on the link, is left out.

`asked`, `runs`, `latest`, `lastEnd`, `abandoned` and `lastSet` are history. They
appear in no guard of a step of the server: `runs` numbers executions, `asked`
bounds the instance, `abandoned` records that some execution gave up on an answer
(`GiveUp`, `Overflow`, `DeviceFails`). Several properties hold only until then, and the run
`exec_late` shows why.

### ConnectionLifecycle

`main` runs through `checking, accepting, assigning, detaching, adding, leaving`,
the thread of a connection through `reading, processing, sending, closing, removing,
freeing, free`. A `Connection` lives in a heap block that malloc may hand out
again once it is free. Where main touches a block that the thread has freed
(`Touch`, `AddConnection`) the outcome is a choice: nothing, or the end of the
process. `handle` is `thread_`: destroying it joinable calls `std::terminate`.
`process` tells the ends apart: `exited` by `main`, `misused` by a step on a freed object or a joinable
`thread_`, `terminated` by an exception that nobody catches, `killed` by a signal. Exceptions
end it in two ways: `NoResources` is what `new Connection`, `std::thread` (`connection.cc` 40) and
`emplace_back` throw in main, and nothing up to `main()` catches; `RequestFails` is what
escapes from the thread, e.g. out of the handler that reports an error (`connection.cc` 236-243), when
the refused word is not UTF-8 and a json format is on, or the endless `operator<<` of `types.h` 9.
Requests that a client has sent wait in its socket (`pending`) and are served after it has closed.
A signal may be delivered to any thread and interrupts only that thread's call.

### RequestReader

One connection, between `recv` and `executeCommand`. The buffer is an array that
all requests of the connection share: `Receive` stores what `recv` returned, writes
the NUL where the code writes it (`rcvd` bytes *behind* the data) and searches the C
string for CRLF; `Process` takes the C string, splits it as `strtok_r` does, and
leaves the NULs that the code leaves. A client may send any byte, a NUL as well, which ends the C
string: `Text` is what `strstr` and `processRequest` see. What the buffer held at first is one of
`Garbage`. A word is one byte; `v 1` is so in the code too. `done` and `sent` are
histories of bytes (`done` those that were in the buffer when it was processed, also the ones
behind a NUL), `regular` says that the client's lines have arrived whole and one
at a time. The terminator of a `recv` larger than half the buffer would fall
outside it; the instances have `BufSize > 2 * MaxBytes`, and the module says nothing
about it.

### DeviceIO

`Write` and `Read` are one turn of `writeLoop` and `readLoop`, with the check of the
deadline and the room; `WriteReport`, `ReadReport`, `WriteBytes`, `ReadBytes` say what
each backend may take and return. The deadline is a Boolean that may become true in any
backend call. A byte is known by the run and the place in its frame or answer,
and the CRC is taken to tell a whole answer from anything else. A negative return of
libserialport, which the code takes for a size, leads to the stage `"undefined"`,
where the model stops. `FrameInOrder`, `AnswersApart` and `CleanExchange` are what
`CommandExecutor` relies on when it writes a frame and takes an answer in one step each,
and leaves the exchange on the link only when it gives up.

### Programs

One process, `inverterctl` or `inverterd`, and the inverter, with one request in
progress at a time. `stage` goes `options -> words -> open -> (start -> serve ->) execute
-> answer -> read`, and to `exit`, or back to `serve`.

| Action | Code |
|---|---|
| `TakeOption` | one round of the getopt loop (`inverterctl.cc` 276-413, `inverterd.cc` 111-241) with the check of its argument and what is caught |
| `TakeWords` | what is left of the line: the command and `validate_input`, or none |
| `OpenDevice`, `Start` | the constructors of the devices, `Server::start` up to its loop |
| `Execute`, `ShutDown` | an `exec` request of a connection, the end of the loop |
| `Send` | `Client::execute` up to the frame (`Frame`, `Packs`) |
| `DeviceFails`, `AnswerRaw`, `Answer` | what `Device::run` brings, or throws (`std::overflow_error` of `readLoop` among it); the pseudo device's canned answer |
| `Read` | CRC, `validate`, `unpack`, `operator<<`, and who catches what they throw |

Data. An argument is a record of what the code asks of a text: which word it is, its
size, whether it is digits, what `std::stoul` and `std::stof` make of it (a number,
nothing, or out of range) and the two parts around a colon; numbers keep their low 32
bits and how often they wrap. A field of a frame is its meant width, the size it gets
and its number. An answer to a get command is the length it declares and the sizes and
numbers of its items; the answer to a set command is its bytes, CRC and all, so that noise may
change any of them. `inverter` is the inverter (external): the answers to the commands
that show settings, which an accepted set command changes at the place the protocol
gives it (`Applied`).

The options come before the words: the rearrangement of `argv` by GNU `getopt_long` is
not modelled, an option it does not know ends the loop as in the code. Values that only
other modules use (time-outs, limits, names of devices) are checked and not kept.
`Sized` classes read an answer by its items; `CurrentTime`, the generated energies and
`SerialNumber` read at fixed places, and `ProtocolID` and `WorkingMode` the first two
characters: what they find outside of a short answer is a choice (`ReadBehind`: shown, not a number,
a value without a text, or bytes that JSON cannot have). The texts of the inverter's own answers are
taken to be ASCII.

## 3. Runs

| Run | Instance | Checks |
|---|---|---|
| `exec_cache` | 2 threads, one get command with 2 argument vectors, cache timeout 1, device timeout 1, clock to 3, 3 requests | `TypeOK`, `CacheIsLatest`, `NeverOlder`, `CacheValidity`, `OwnAnswer`, `ExecutorInv`, refinement `ImplementsService` |
| `exec_link` | 2 threads, a get and two set commands, error limit 2, 2 requests | `OneOnTheLink`, `ErrorLimit`, `FreshSetIsInForce` |
| `exec_pacing` | 2 threads, one set command, delay 3, device timeout 2, 2 requests | `PauseInv`, `PausesAfterSuccess`, `MutexReleased` (liveness) |
| `exec_late` | 1 thread, one get command with 2 argument vectors | `AnswerIsToThisCommand`: **violated** |
| `exec_delay` | 1 thread, delay 2, device timeout 1 | `DelayBetweenCommands`: **violated** |
| `exec_setcached` | 1 thread, two set commands, 3 requests | `AcceptedSetIsInForce`: **violated** |
| `lifecycle` | 2 heap blocks, 2 sockets, backlog 1, 1 request waiting in a socket | `TypeOK`, `AtMostOneLate`, `RegistryIsExact`, `MisuseOnlyByRace`, `LifecycleInv`, and liveness `ConnectionsEnd`, `ShutdownTakesEffect` |
| `reader` | lines `v 1`, `format table`, ` format  json` with more blanks, `format x`, `exec x`, an unknown one, one with a NUL in it, an unfinished one and EOT, 12 bytes in all, clean or used stack | `TypeOK`, `NothingLost`, `NoLineHeldBack`, `RegularFraming`, `FormatInForce` |
| `reader_lines` | two lines `v 1` | `RequestIsComplete`: **violated** |
| `reader_eot` | `v 1` and EOT | `EotCloses`: **violated** |
| `device_io` | USB and serial, reports of 2 bytes, a frame of 3, answers of 3 and 6 for a buffer of 4, 3 runs | `TypeOK`, `FrameInOrder`, `AnswersApart`, `CleanExchange` |
| `programs` | 3007 command lines: every option alone and after another one, every command with arguments at and around each limit, every format; 29 requests to the daemon, 2 in a row; answers of each command to itself and to each other one, garbled ones, and any one byte of a set command's answer changed | `TypeOK`, `AcceptsDocumented`, `FrameInPlace`, `SettingIsShown`, `NoiseIsRefused`, `CrcIsSound`, `OwnAnswersShown`, `MisreadKnown`, `ReadsInside`, `CrashesKnown`, `PortAsDocumented` |

Bounds. Two threads are enough for one to queue behind the other and to find what
the other left; the third request of `exec_cache` is the one that meets the outcome
of the two others, or a late answer of the first. The clock (`MaxTime`) goes far
enough for an entry to expire, a deadline to pass and a pause to end, and goes on
past the bound while a thread waits for it. A cache timeout of 0 means "same
millisecond", as in the code. `MaxRequests` bounds the history and `MaxBacklog` the
waiting clients, `MaxPending` the requests that wait in a socket. `lifecycle` has two blocks so that one may be reused while the
other lives; in `reader` two lines fit, most with two bytes to spare, so that a second
line meets what the first has left in every split; in `device_io` a frame and an
answer end in the middle of a report and one answer overflows the buffer, and the third
run meets what two have left. `exec_link` has as many errors as its limit, and an
error before a success. In `programs` the arguments are the neighbours of each limit in the
code (years 1999 to 2100, days 0 to 32, voltages a hundredth beside the ends, numbers that
are in range only after a wrap, parts of times of one, two and three digits) and the samples of `pseudo_device.cc` serve as answers;
two requests are enough to see what the first leaves behind, as nothing but `inverter` and the
format of a connection is kept. Noise changes the answers to one command
(`Noisy`), since all set commands read theirs alike. The socket limit of `lifecycle` is reached when both blocks are in use. `exec_cache` and
`exec_link` use symmetry of the threads, and check no liveness. Deadlock is
checked in every run; the actions `Quiescent` and `Ended` stand for the states where the instance has
nothing left to do.

Fairness. `exec_pacing`: the clock goes on, and a thread that can go on by itself
does (`Begin`, `Write`, `GiveUp`). Nothing is assumed of the inverter, of clients
or of the order in which `std::mutex` lets threads in; so what is claimed is that
the mutex is given back, not that each thread gets it. `lifecycle`: threads that
can run do, `executeCommand` returns (which is what `MutexReleased` is about, and
is not so with `--timeout 0`), `send` does not block for ever once the client is
gone, and, for the end of the process only, clients keep connecting: `accept` is not
woken by the flag, so without one more client the process stays. `reader`, `device_io` and
`programs` check safety and state no fairness.

### What the violations say

* `exec_late`. `Device::run` and `readLoop` throw `TimeoutError` and leave the
  answer on the link. The next execution reads it, and the server caches it under
  the new arguments. The comment at `device.cc` 59-62 describes the cause
  ("otherwise we may get invalid response next time"); the run shows that the
  response is valid in form and wrong in content, so no check catches it, e.g. the
  energy of one day reported for another.
* `exec_delay`. The help text (`inverterd.cc` 34) says "Delay between commands in
  ms"; the delay counts from the last *successful* command (`server.cc` 146). A
  device that times out gets commands without a pause.
* `exec_setcached`. `PROTOCOL.md` 21-22 says `exec` "runs a command". A set command
  with the arguments of its last success is answered from the cache for a second,
  even if another set command changed the setting in between: it is not run, and
  the client is told `ok`.
* `reader_lines`. `PROTOCOL.md` 7 says a request is a line that ends with `\r\n`. If
  the second of two equal lines is split between `\r` and `\n`, the search finds the `\n`
  of the first one behind it: the request is processed at once, and the `\n` that comes
  later becomes the start of the next one, which is refused. Requests that arrive
  together are taken for one.
* `reader_eot`. `PROTOCOL.md` 24 says that EOT closes the connection. It does only as
  the first byte that arrives after a response.

Other things met while modelling, with no run of their own. Where `programs` has an
exception for one of them, it is named in the comment of the property.

* The help text prints the lines of `--cache-timeout` and `--delay` mixed up
  (`inverterd.cc` 32-35).
* The daemon that stops at the device error limit exits with status 0, so the unit's
  `Restart=on-failure` leaves it stopped. `inverterctl` exits with 1 after a success and
  with 0 after a failure it catches (`inverterctl.cc` 506).
* Every valid value of `--serial-data-bits` is refused and every other one taken
  (`inverterd.cc` 200, `inverterctl.cc` 381); libserialport then refuses it, so a serial port always has eight
  bits (`PortAsDocumented`).
* A serial device never throws `DeviceError` after it is open, so the device error limit
  does not apply to it. Neither time-outs nor refused answers count, and a limit of 0 acts
  as 1.
* `getoptError` is set and not read: an unknown option ends the loop and the rest of the
  line is taken for words. `--port 70000` listens on another port (`htons` of the low 16
  bits).
* `std::out_of_range` (a number too large for `std::stoul`) is caught by nobody in the
  options and in `inverterctl`: the process aborts. `std::invalid_argument` out of an
  answer with letters in its length does the same to `inverterctl` (`CrashesKnown`).
* `operator<<` of an enumeration calls itself for a value it has no text for, until the
  stack is full; a new firmware or a garbled answer that passes the CRC ends the daemon for all its
  connections.
* The upper end 58.4 of the battery's charge voltage, which the usage text names
  (`inverterctl.cc` 133-134), is refused: a float is compared with a double. So is a year outside of
  2000 to 2099, where the usage text says no more than `<YYYY>`. `Documented` includes both, `Refused`
  names them, and `AcceptsDocumented` says that nothing else that is documented is refused. `nan`
  passes the checks of both voltage commands and is sent as whatever its conversion gives. Machine IDs
  are sent as they were given, `05` or `5x` included (`FrameInPlace`).
* An answer is not marked with its command. `GetACChargeTimeBucket` and
  `GetACSupplyTimeBucket` have the same shape, so the late answer to one is shown as the
  other; the classes that read at fixed places take almost any (`MisreadKnown`).
* More is taken than is documented. A time is `hh:mm` in the usage text; `7:5`, `007:5`, `7x:00` and
  `65543:05` are taken for 07:05, 07:05, 07:00 and 07:05, since each part goes through `std::stoul` and a
  cast to `u16`; `<mm>` may be `7`, a voltage `50x` or `nan`. `Tolerated` says what is taken,
  `Documented` is the part of it that is written as the usage text has it (`AsWritten`).
* A NUL that a client sends ends the request: what was received behind it is dropped, and a CRLF
  behind it is not seen until the client sends more or closes (`NothingLost`, `NoLineHeldBack`).
* An answer that does not end within the buffer throws `std::overflow_error`, which `inverterd` answers
  with `err` and `inverterctl` does not catch (`CrashesKnown`).

## 4. Proofs

TLAPS proves, for every set of threads, commands and arguments, every limit,
timeout, delay, buffer and input, and without the bounds playing a part:

| Theorem | States |
|---|---|
| `TypeCorrect` | `Spec => []TypeOK` |
| `MutualExclusion` | two threads are never both past the lock |
| `CacheCoherence`, `ReadsAreMonotonic`, `ValidWhenAsked` | `CacheIsLatest`, `NeverOlder`, `CacheValidity` |
| `HalfDuplex`, `AnswersAreOwn`, `FreshSets` | `OneOnTheLink`, `OwnAnswer`, `FreshSetIsInForce` |
| `Pacing` | `PausesAfterSuccess` |
| `LimitKept` | `ErrorLimit` |
| `ExecutorIsSafe`, `SleepsLongEnough` | `ExecutorInv`, `PauseInv` |
| `Refinement` | `Spec => ImplementsService` |
| `LifecycleTypes`, `OneLateClient`, `ExactRegistry`, `NoOtherMisuse`, `LifecycleIsSafe` | the invariants of `ConnectionLifecycle` |
| `ReaderTypes`, `BytesInOrder`, `LinesAreHandedOver`, `LinesAreRequests`, `LastFormatHolds` | `TypeOK`, `NothingLost`, `NoLineHeldBack`, `RegularFraming`, `FormatInForce` of `RequestReader` |
| `DeviceTypes`, `FrameWritten`, `AnswersKeptApart`, `CleanExchanges` | `TypeOK`, `FrameInOrder`, `AnswersApart`, `CleanExchange` of `DeviceIO` |
| `OpenedPort` | `PortAsDocumented`, for any command lines, requests, answers and noise |
| `ProgramTypes`, `CrashesAreKnown`, `OwnAnswersAreShown`, `FieldsAreInPlace` | `TypeOK`, `CrashesKnown`, `OwnAnswersShown`, `FrameInPlace` of `Programs`, for any command lines, requests and answers |
| `LinesAreDocumented`, `SettingsAreShown` | `AcceptsDocumented`, `SettingIsShown` of `Programs`, for any command lines and earlier settings |
| `MisreadOnlyTwins`, `ReadsStayInside` | `MisreadKnown`, `ReadsInside` of `Programs`, for any answers and noise |
| `NoReservedByte` | the two bytes sent for any remainder of 16 bits are none of `(`, CR, LF |

Assumptions: those named in the modules (`CommandsAssumption`,
`SettingsAssumption`, `NoneAssumption`, `BlocksAssumption`, `LimitsAssumption`,
`BufferAssumption`, `InputsAssumption`, `BackendsAssumption`, `SizesAssumption`,
`WordsAssumption`, `AnswersAssumption`), which
TLC evaluates in each run. They give the constants their types; none speaks of a behaviour.
`WordsAssumption` includes what is true of any text: one of digits is not empty, and its number has no
more digits than the text.
`AnswersAssumption` says what the inverter is taken to be: one that the program can read
as it is switched on (`PowerOn`) and in the answers that no setting changes, and whose answer to
one command is made the way that command's class reads it. Where that class is not particular,
`Written` is: the text of a one-item answer has no comma in it, and a list of currents has
three digits for each. `MisreadOnlyTwins` needs both, to tell such answers from others. What set commands
make of its settings is left to the theorem.

Argument. `CacheIsLatest` and the others are not inductive by themselves.
`ExecutorInv` adds that the holder of the mutex is the thread in the critical
section (`MutexInv`), that the command it executes has no entry (`ErasedInv`), that
only a thread that replies holds a response (`ReplyInv`), and that executions are
numbered in the order in which they end and no time is in the future (`RunsInv`).
Without `ErasedInv` a failed execution could leave an older entry behind; without
`RunsInv` a hit could not be compared with what had ended when the request was made.
`ErrorLimit` is inductive beside `MutexInv`: an error ends one more execution and adds one
to the count, a success files its response under the last execution and begins the count again. `LinkInv` rests on
`ExecutorInv`: as one thread is at the device, what is on the link is its
frame or its answer, until `abandoned`. `PauseInv` relates the sleeper's wake-up time
to the end of the last success. The refinement uses all of them: a hit maps to
`AnswerFromLatest` because the entry *is* the latest outcome, an execution counts as
done when the mutex is given back, and other steps are stutters.

`MisuseOnlyByRace` does not say that the daemon ends by the race only: `NoResources`, `RequestFails` and
`BrokenPipe` end it too, as steps of their own. It says that none but the race touches a freed object or
destroys a joinable `thread_`. In `ConnectionLifecycle` the registry invariant needs `HandleInv` (a living object is
joinable only between assignment and detach), `RaceInv` (an object gone while main
still makes it has raced) and `PointersInv` (one pointer left behind at most), and
`OneLateClient` needs that nobody is in accept after the late client (`LateInv`).

In `RequestReader` everything rests on where `readLoop` puts its NULs. `BufferInv` says
that one is behind the bytes of a request when it is handed over;
so the C string that the search and `processRequest` take is the bytes that have
arrived, up to the first NUL the client itself has sent, whatever the array held before. With it
`SentInv` accounts for each byte of the client: taken for a request, in the buffer or on its way. `RegularInv` says that a client that sends a line
at a time finds the buffer empty, which `RegularFraming` needs, since what a search may
find *behind* the new bytes is the only thing that earlier requests can do to later ones
(`reader_lines`). A NUL that falls outside of the array changes nothing in the model; the theorems
say nothing about memory there.

In `DeviceIO` all bytes come and go in units of a report (USB) or a byte (serial).
`WriteInv`: the loop has written whole units of the frame, and the counter says how
many. `LineInv`: what waits to be read is made of answers one behind the other
(`Chained`), it never ends inside one (`Complete`), and no unit begins with padding
(`Aligned`). Without `Aligned` a report could bring the end of one answer and the start of
the next, which is what `AnswersApart` denies. `ReadInv`: while `readLoop` goes on, the next
byte on the line is the next one of the same answer. `CleanInv`: before the first exception
the link carries the current exchange and nothing else, so what has been read, what waits and the
padding add up to the answer to this frame. That bytes with consecutive numbers
belong to one answer is an argument by induction; it is made with the least counterexample (`Least`),
which needs no operator as a parameter.

In `Programs` the argument follows the options. `OptionsInv` says what the loop leaves:
documented speeds, stop bits and parities, because each check refuses what is not, but data bits
that are eight or *no* number a port has. `PortInv` adds that a serial device is open only
with bits a port takes; the two leave eight. The CRC's theorem needs that an
increment does not carry (`Increments`), and that no successor of a reserved byte
is reserved.

`IInv` of `AnswersProofs` follows a request through both programs. `Order` says what a stage leaves:
a process that goes on has not returned, what is sent is a command or raw. `Asked`: the arguments of a
request are what `validate_input` has let through and rewritten (`Packable`: an index is one of its
table, a number of digits is a natural one), and the words of `inverterctl` are those of its
command line. `FrameInv`: the frame is made of such arguments. `InverterOK`: the settings stay
readable. That step is where four tables have to agree, the words `validate_input` allows, the places
`packArguments` gives them, the items the classes read and the texts of `operator<<`; a frame that is
accepted changes only items that are no enumeration, or to a value with a text (`SlotsAreFine`),
and such a change keeps an answer readable (`RewritesIsReadable`). `AnswerInv`: an answer to
the command in progress is then readable, so `Read` ends in `shown`. An exception that is not caught
comes from a check of a word (`ChecksAreFine`, `OptionCheckMeans`) or from `std::stoi` in `packArguments`,
which both find the number too large already in the word that was given
(`WrapsAreHuge`); from an answer that overflows the buffer of `readLoop`, which `inverterctl` does not
catch; or from an answer that is not the inverter's own.

`FramesProofs` puts on top of it that a frame that is kept is the one of the command and its
arguments (`FrameOfRequest`), and goes through the commands one lemma each: the limit that a check
sets (999, 31, 5839 hundredths of a volt, a table of at most nine words) is below the power
of ten that the width in `packArguments` allows (`WidthBounds`). An ID is the exception because
its check looks at its number and `packArguments` sends its text.

`LinesAreDocumented` needs to know that the word `inverterctl` goes on with is the first of
its line and its arguments the others, after the check (`CommandOfLine`, which also says
that a line without options is decided by `validate_input` alone). Then each kind of check is compared with
the usage text: dates with the calendar of the century (`DatesAsDocumented`), voltages, times, words. The
theorem has two halves: what is documented and not `Refused` is taken, and what is taken is `Tolerated`
and not `Refused`. Without `Refused` TLC refutes the first, with a line of 58.4 V.
`SettingsAreShown` follows an accepted frame through `Applied` into the settings and
compares what `RatedInformation`, the flags and the time buckets show with the words of the line, one lemma for each
kind of field (`VoltagesAreShown`, `NumbersAreShown`, `ChoicesAreShown`, `FlagIsShown`,
`TimesAreShown`). `Settled` is what `SettingIsShown` then says of an inverter; it is made by the
step that takes the frame (`AppliedSettles`) and no other step changes it together with
the answer that said yes.

`MisreadOnlyTwins` gives each class that knows its sizes how an answer it takes begins (`LayoutsAre`):
no two begin alike but the two time buckets (`LooksDiffer`), none is one item or a list of
currents, which is what `Written` is for. `AnswerIs` says that an answer to a get command
is one that the class of *that* command reads, and, when another command shows it, that the sizes of
its items were right for that one as well. `ReadsStayInside` follows from the same
invariant: an answer that its own class reads has what the class reads (`ReadsFollow`), and
of another one only the classes with fixed places, or of two characters, read more than there is.

`LastFormatHolds` rests on `RegularFraming`: a request of a regular client is one line.
`TokenOfLine` says what `strtok_r` and the cut at the CRLF leave of each word of a line; so
`processRequest` sets the format exactly for the lines whose words are `format` and a name
(`AskedIsAsking`, `AskingIsAsked`). What has been processed is whole lines (`Whole`), and one
more line is the only new line of it (`LinesOfJoined`), so the last line that asks
is that one or the one before.

`LinkInv` and the inductive invariants of `RequestReader`, `DeviceIO` and `Programs` are proved and not
the property of a run: the runs check what they imply.

Only model-checked:

* of `Programs`: `CrcIsSound` compares two ways to compute a CRC for every answer, which needs
  induction over data; `NoiseIsRefused` is the error detection of the CRC, for which TLC
  tries every byte in every place;
* the liveness properties (`MutexReleased`, `ConnectionsEnd`, `ShutdownTakesEffect`), as
  liveness under fairness and ENABLED are out of the prover's reach.

Only proved: the argument of `--port` between 2^31 and 2^32, which `std::stoi` throws on
(`OptionCheck`), is beyond the integers of TLC; `CrashesAreKnown` covers it.

What some properties do not say:

* `FreshSetIsInForce` is about `ok`: a client that is told `timeout` may find its set command carried
  out, at once or later (`DeviceTakes`).
* `ConnectionsEnd` and `ShutdownTakesEffect` hold of a process that has ended in any way; that it
  ends wrongly is for `MisuseOnlyByRace` and `RegistryIsExact`.
* `OwnAnswersShown` rests on `AnswersAssumption` for the get commands that show no setting; it says
  something of the four that do, after any accepted set commands.
* `ReadsInside` is about which class reads behind the bytes that came. A declared length below 5
  wraps, and `validate` refuses the answer (`ValidateGet`); nothing is read by that length, so no
  property turns on it.

## 5. Not modelled, and what is left

Not modelled:

* wording and layout of responses, usage texts, logs and hex dumps, JSON syntax: no
  property is about them; of the formatter, only which values have a text is modelled;
* `testserial.cc`, a manual test of a port; the unit file and the build;
* `usleep` with more than 32 bits of microseconds (a `--delay` of 4295 s or more): the
  clock of `CommandExecutor` is in coarse units;
* memory outside of a buffer: after a `recv` of more than half of the buffer of a
  connection, after a negative return of libserialport, and behind a short answer the
  models stop or choose;
* what detached threads touch between `~Server` and the end of the process, which is
  undefined; `ConnectionLifecycle` ends the process in one step;
* the permutation of `argv` by `getopt_long`, abbreviated long options, locales.

Nothing that the provers can reach is known to be left: what only TLC checks is
listed at the end of section 4.

The runs with a violation stay as they are: each shows one disagreement with the
documents.

`PROJECT.json` lists the hazards the properties are aimed at, with the line where
each bites; a hazard without a property says why.
