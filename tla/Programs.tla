------------------------------ MODULE Programs ------------------------------
(***************************************************************************)
(* inverterctl and inverterd from their command line to what they show: the*)
(* options, the arguments of a command, the frame that is sent, the answer *)
(* as it is read, and how each failure ends.  CommandInput, CommandFrame,  *)
(* Crc and Responses are the operators; this module puts them in the order *)
(* in which the two mains, executeCommand and the connection call them.    *)
(*                                                                         *)
(* One request is in progress at a time: CommandExecutor models several    *)
(* threads, the cache and late answers, RequestReader the bytes of a       *)
(* connection, DeviceIO partial reads and writes.                          *)
(***************************************************************************)
EXTENDS CommandFrame, Crc, Responses

CONSTANTS
    CommandLines,   \* [program, options, words]: what the programs get
    Requests,       \* `exec` requests: a sequence of words
    OwnAnswers,     \* per get command, the answers the inverter has for it
    OtherAnswers,   \* answers read as the answer to a command they do not fit
    Noise,          \* what a byte of an answer may be changed into
    Noisy,          \* the set commands whose answers noise may change
    PowerOn,        \* what the inverter is set to at the start
    MaxRequests     \* bound: requests to one inverterd

None == "none"

\* The words and the options that the programs get.
AllTexts == UNION {Range(l.words) : l \in CommandLines}
            \union UNION {Range(words) : words \in Requests}
AllOptions == UNION {Range(l.options) : l \in CommandLines}
ASSUME WordsAssumption ==
    /\ \A l \in CommandLines : /\ l.program \in {"inverterctl", "inverterd"}
                               /\ l.options \in Seq(AllOptions)
                               /\ l.words \in Seq(AllTexts)
    /\ Requests \subseteq Seq(AllTexts) \ {<<>>}
    /\ \A t \in AllTexts : IsText(t)
    /\ \A option \in AllOptions : IsText(option.argument)
    /\ MaxRequests \in Nat

\* The answers to the commands that show settings, and the inverter's own
\* answer to any command is one the program knows how to read.  When it is read
\* as the answer to another one, what its own class does not look at matters as
\* well: one item has no comma in it, and a current has three digits.
Settings == {"GetRatedInformation", "GetFlagsAndStatuses",
             "GetACChargeTimeBucket", "GetACSupplyTimeBucket"}
Answers == [declared : Int, items : Seq([size : Nat, value : Int])]
OneItem == {"GetProtocolID", "GetCurrentTime", "GetTotalGenerated",
            "GetYearGenerated", "GetMonthGenerated", "GetDayGenerated",
            "GetSerialNumber", "GetWorkingMode"}
Currents == {"GetAllowedChargeCurrents", "GetAllowedACChargeCurrents"}
Written(c, items) ==
    /\ c \in OneItem => Len(items) = 1
    /\ c \in Currents => \A i \in DOMAIN items : items[i].size = 3
ASSUME AnswersAssumption ==
    /\ PowerOn \in [Settings -> Answers]
    /\ \A c \in Settings : Readable(Layouts[c], PowerOn[c])
    /\ \A c \in GetCommands \ Settings : \A a \in OwnAnswers[c] :
          Readable(Layouts[c], a)
    /\ \A a \in OwnAnswers["PseudoDevice"] :
          a \in Answers /\ Readable(Layouts["GetGeneralStatus"], a)
    /\ \A a \in OtherAnswers :
          /\ a.of # None
          /\ a.of \in GetCommands => /\ a.data \in Answers
                                     /\ Readable(Layouts[a.of], a.data)
                                     /\ Written(a.of, a.data.items)

Running == -1
Aborted == 134          \* as a shell shows it
NoFrame == [kind |-> None, length |-> 0, code |-> None, fields |-> <<>>]
NoAnswer == [of |-> None, data |-> NoData, said |-> 0, bytes |-> <<>>]

VARIABLES
    line,           \* argv
    at,             \* getopt_long's optind among the options
    config,         \* the locals of main that options set
    stage,
    command,        \* commandType
    arguments,      \* of validate_input
    frame,
    answer,         \* of which command it is, and its data; of a set command,
                    \* what the inverter said, and the bytes that came
    inverter,       \* its answers to the get commands that show settings
    end,            \* how the last request ended
    exit,           \* how the process ended
    served          \* requests to inverterd so far

vars == <<line, at, config, stage, command, arguments, frame, answer,
          inverter, end, exit, served>>
request == <<command, arguments, frame, answer>>

Defaults ==
    [action |-> "command", format |-> "table", formatChanged |-> FALSE,
     device |-> "usb", baud |-> 2400, bits |-> 8, stop |-> "1",
     parity |-> "none", port |-> 8305]

Init ==
    /\ line \in CommandLines
    /\ at = 1
    /\ config = Defaults
    /\ stage = "options"
    /\ command = None /\ arguments = <<>>
    /\ frame = NoFrame /\ answer = NoAnswer
    /\ inverter = PowerOn
    /\ end = None /\ exit = Running /\ served = 0

Ctl == line.program = "inverterctl"

\* The process ends: main returns n, or nothing catches what was thrown.
Return(n) == stage' = "exit" /\ exit' = n
Abort == stage' = "exit" /\ exit' = Aborted

-----------------------------------------------------------------------------
(* Options. *)

BaudRates == {110, 300, 1200, 2400, 4800, 9600, 19200, 38400, 57600, 115200}
StopBits == {"1", "1.5", "2"}
Parities == {"none", "odd", "even", "mark", "space"}
DeviceTypes == {"usb", "serial", "pseudo"}

Shared == {"verbose", "timeout", "device", "usb-vendor-id", "usb-device-id",
           "usb-path", "serial-name", "serial-baud-rate", "serial-data-bits",
           "serial-stop-bits", "serial-parity", "help"}
LongOptions == [inverterctl |-> Shared \union {"raw", "format"},
                inverterd |-> Shared \union {"cache-timeout", "delay",
                                  "device-error-limit", "host", "port"}]

\* Mutant of IsSerialBaudRateValid: any number will do.
IsAnyBaudRate(n) == n > 0
IsSerialBaudRateValid(n) == n \in BaudRates
IsSerialDataBitsValid(n) == n \in 5..8
MaxInt == 2147483647            \* of std::stoi

\* The check of an option.  That of the data bits is the wrong way round.
OptionCheck(option, t) ==
    CASE option = "format" -> Require(t.word \in Formats)
      [] option = "device" -> Require(t.word \in DeviceTypes)
      [] option = "raw" -> Require(t.size <= 128)
      [] option \in {"timeout", "cache-timeout", "delay",
                     "device-error-limit"} -> Found(t.whole)
      [] option \in {"usb-vendor-id", "usb-device-id"} ->
            Require(t.size = 4 /\ (t.digits \/ t.word = "hex"))
      [] option = "serial-baud-rate" ->
            FirstOf(<<Found(t.whole), Require(IsSerialBaudRateValid(t.value))>>)
      [] option = "serial-data-bits" ->
            FirstOf(<<Found(t.whole),
                      Require(~ IsSerialDataBitsValid(t.value))>>)
      [] option = "serial-stop-bits" -> Require(t.word \in StopBits)
      [] option = "serial-parity" -> Require(t.word \in Parities)
      [] option = "port" ->
            FirstOf(<<Found(t.whole),
                      IF t.wraps = 0 /\ t.value <= MaxInt
                      THEN "accepted" ELSE "thrown">>)
      [] OTHER -> "accepted"

OptionEffect(option, t) ==
    CASE option = "help" -> [config EXCEPT !.action = "help"]
      [] option = "raw" -> [config EXCEPT !.action = "raw"]
      [] option = "format" -> [config EXCEPT !.format = t.word,
                                             !.formatChanged = TRUE]
      [] option = "device" -> [config EXCEPT !.device = t.word]
      [] option = "serial-baud-rate" -> [config EXCEPT !.baud = t.value]
      [] option = "serial-data-bits" -> [config EXCEPT !.bits = t.value]
      [] option = "serial-stop-bits" -> [config EXCEPT !.stop = t.word]
      [] option = "serial-parity" -> [config EXCEPT !.parity = t.word]
      [] option = "port" -> [config EXCEPT !.port = t.value]
      [] OTHER -> config

\* One round of the loop over getopt_long.  An option it does not know, or
\* one without its argument, ends the loop, and what follows is taken for
\* words; getoptError is set and not used.  Only std::invalid_argument is
\* caught.
TakeOption ==
    /\ stage = "options" /\ at <= Len(line.options)
    /\ LET option == line.options[at].name
           t == line.options[at].argument
           verdict == OptionCheck(option, t)
       IN /\ at' = at + 1
          /\ \/ /\ option \notin LongOptions[line.program]
                /\ stage' = "words"
                /\ UNCHANGED <<config, exit>>
             \/ /\ option = "help" /\ ~ Ctl      \* usage() does not return
                /\ Return(1)
                /\ UNCHANGED config
             \/ /\ option \in LongOptions[line.program]
                /\ option = "help" => Ctl
                /\ \/ verdict = "accepted" /\ config' = OptionEffect(option, t)
                        /\ UNCHANGED <<stage, exit>>
                   \/ verdict = "refused" /\ Return(1) /\ UNCHANGED config
                   \/ verdict = "thrown" /\ Abort /\ UNCHANGED config
    /\ UNCHANGED <<line, request, inverter, end, served>>

-----------------------------------------------------------------------------
(* The words that are left: a command and its arguments for inverterctl,   *)
(* none for inverterd.                                                     *)

Rest == [i \in 1..(Len(line.options) - at + 1) |-> Word("--option")]
            \o line.words

\* validate_input, and what becomes of what it throws.
Take(words) ==
    LET c == words[1].word
        verdict == IF c \notin Commands THEN "refused"
                   ELSE ValidateInput(line.program, c, Tail(words))
    IN /\ frame' = NoFrame /\ answer' = NoAnswer
       /\ \/ /\ verdict = "accepted"
             /\ command' = c
             /\ arguments' = Rewritten(c, SubSeq(Tail(words), 1,
                                                 ArgumentCount(c)))
             /\ stage' = IF Ctl THEN "open" ELSE "execute"
             /\ end' = None
             /\ UNCHANGED exit
          \/ /\ verdict # "accepted"
             /\ command' = None /\ arguments' = <<>>
             /\ end' = verdict
             /\ \/ Ctl /\ verdict = "refused" /\ Return(1)
                \/ Ctl /\ verdict = "thrown" /\ Abort
                \/ ~ Ctl /\ UNCHANGED <<stage, exit>>

TakeWords ==
    /\ \/ stage = "words"
       \/ stage = "options" /\ at > Len(line.options)
    /\ \/ /\ Ctl /\ config.action = "command" /\ Rest # <<>>
          /\ Take(Rest)
       \/ /\ \/ config.action = "help"
             \/ Ctl /\ config.action = "command" /\ Rest = <<>>
             \/ config.action = "raw" /\ (config.formatChanged \/ Rest # <<>>)
             \/ ~ Ctl /\ Rest # <<>>
          /\ Return(1)
          /\ UNCHANGED <<request, end>>
       \/ /\ config.action = "raw" => ~ config.formatChanged
          /\ config.action = "raw" \/ ~ Ctl
          /\ Rest = <<>>
          /\ stage' = "open"
          /\ UNCHANGED <<request, end, exit>>
    /\ UNCHANGED <<line, at, config, inverter, served>>

-----------------------------------------------------------------------------
(* The device and the socket. *)

\* The settings a serial port takes; DeviceError is thrown for any other.
Configurable(bits) == bits \in 5..8
\* Whose constructors throw DeviceError when the device is not there.
MayBeMissing(device) == device # "pseudo"

OpenDevice ==
    /\ stage = "open"
    /\ \/ /\ config.device = "serial" => Configurable(config.bits)
          /\ stage' = IF Ctl THEN "execute" ELSE "start"
          /\ UNCHANGED <<end, exit>>
       \/ /\ MayBeMissing(config.device)
          /\ end' = "device error"
          /\ Return(IF Ctl THEN 0 ELSE 1)
    /\ UNCHANGED <<line, at, config, request, inverter, served>>

\* Server::start up to its loop.  Nothing catches a ServerError.
Start ==
    /\ stage = "start"
    /\ \/ /\ config' = [config EXCEPT !.port = @ % 65536]       \* htons
          /\ stage' = "serve"
          /\ UNCHANGED exit
       \/ Abort /\ UNCHANGED config
    /\ UNCHANGED <<line, at, request, inverter, end, served>>

\* An `exec` request of a connection; the command and its arguments are
\* checked before the device is asked, and every std::exception is caught.
Execute(words) ==
    /\ stage = "serve" /\ served < MaxRequests
    /\ served' = served + 1
    /\ Take(words)
    /\ UNCHANGED <<line, at, config, inverter>>

ShutDown ==
    /\ stage = "serve"
    /\ Return(0)
    /\ UNCHANGED <<line, at, config, request, inverter, end, served>>

-----------------------------------------------------------------------------
(* Client::execute and what catches what it throws. *)

Shown == {"shown", "succeeded", "declined"}
\* Mutant of Caught: one of the four is forgotten.
CaughtWithoutTimeout == {"device error", "invalid data", "invalid response"}
Caught == {"device error", "timeout", "invalid data", "invalid response"}
Ends == Shown \union
            {"device error", "timeout", "invalid data", "invalid response",
             "invalid argument", "out of range", "overflow", "not UTF-8",
             "endless"}
Fatal == {"endless"} \union (IF Ctl THEN Ends \ (Shown \union Caught) ELSE {})

\* inverterctl catches four kinds of error and returns `success ? 1 : 0`; a
\* connection answers err to anything that derives from std::exception.
EndsWith(e) ==
    /\ end' = e
    /\ \/ Ctl /\ e \in Shown /\ Return(1)
       \/ Ctl /\ e \in Caught /\ Return(0)
       \/ e \in Fatal /\ Abort
       \/ ~ Ctl /\ e \notin Fatal /\ stage' = "serve" /\ UNCHANGED exit

Send ==
    /\ stage = "execute"
    /\ \/ /\ config.action = "raw"
          /\ stage' = "answer"
          /\ UNCHANGED <<frame, end, exit>>
       \/ /\ config.action # "raw" /\ Packs(command, arguments)
          /\ \E junk \in Junk : frame' = Frame(command, arguments, junk)
          /\ stage' = "answer"
          /\ UNCHANGED <<end, exit>>
       \/ /\ config.action # "raw" /\ ~ Packs(command, arguments)
          /\ EndsWith("out of range")
          /\ UNCHANGED frame
    /\ UNCHANGED <<line, at, config, command, arguments, answer, inverter,
                   served>>

\* USBDevice and SerialDevice fail, nothing is answered in time, what is read is
\* too short or has a wrong CRC, or fills the buffer without a '\r' in it, for
\* which readLoop throws std::overflow_error.
DeviceFails ==
    /\ stage = "answer" /\ config.device # "pseudo"
    /\ \E e \in {"device error", "timeout", "invalid data", "overflow"} : EndsWith(e)
    /\ UNCHANGED <<line, at, config, request, inverter, served>>

\* --raw: what is read is printed, whatever it is.
AnswerRaw ==
    /\ stage = "answer" /\ config.action = "raw"
    /\ EndsWith("shown")
    /\ UNCHANGED <<line, at, config, request, inverter, served>>

(* The inverter: it answers a get command, or as if to another command; it *)
(* takes the settings of a frame whose fields are where it looks for them, *)
(* or refuses them.                                                        *)

\* The items of the rated information that a set command's fields go to.
Slots ==
    [F |-> {<<1, 4>>}, V |-> {<<1, 3>>}, POP |-> {<<1, 18>>},
     PCP |-> {<<3, 19>>}, PSP |-> {<<1, 24>>}, PGR |-> {<<1, 17>>},
     PBT |-> {<<1, 14>>}, POPM |-> {<<3, 23>>}, MCHGC |-> {<<3, 16>>},
     MUCHGC |-> {<<3, 15>>}, MCHGV |-> {<<1, 12>>, <<3, 13>>},
     BUCD |-> {<<1, 9>>, <<3, 10>>}, PSDV |-> {<<1, 11>>}]

Set(items, i, value) == [items EXCEPT ![i].value = value]
Clock(f, i) == 100 * f.fields[i].value + f.fields[i + 1].value

\* What the fields of f say of item i.
Sent(f, i) == {(IF f.code = "F" THEN 10 ELSE 1) * f.fields[slot[1]].value :
                  slot \in {s \in Slots[f.code] : s[2] = i}}

Applied(f) ==
    CASE f.code \in DOMAIN Slots ->
            [inverter EXCEPT !.GetRatedInformation.items =
                [i \in DOMAIN @ |->
                    IF Sent(f, i) = {} THEN @[i]
                    ELSE Item(@[i].size, CHOOSE value \in Sent(f, i) : TRUE)]]
      [] f.code = "P" ->
            [inverter EXCEPT !.GetFlagsAndStatuses.items =
                Set(@, f.fields[2].value + 1, f.fields[1].value)]
      [] f.code = "ACCT" ->
            [inverter EXCEPT !.GetACChargeTimeBucket.items =
                Set(Set(@, 1, Clock(f, 1)), 2, Clock(f, 4))]
      [] f.code = "ACLT" ->
            [inverter EXCEPT !.GetACSupplyTimeBucket.items =
                Set(Set(@, 1, Clock(f, 1)), 2, Clock(f, 4))]
      [] OTHER -> inverter

InPlace(f) == \A i \in DOMAIN f.fields : f.fields[i].size = f.fields[i].width

Data(c, data) == [NoAnswer EXCEPT !.of = c, !.data = data]

\* The answer to a set command: "^1", "^0", or another command's "^D"; the CRC
\* and CR.  Noise may change one byte.
Yes == 49
No == 48
D == 68
CR == 13
Reply(says) == LET data == <<Caret, says>>
               IN data \o CrcWrite(Calculate(data)) \o <<CR>>
Changed(bytes) == {bytes} \union
    (IF command \in Noisy
     THEN {[bytes EXCEPT ![i] = b] : i \in DOMAIN bytes, b \in Noise} ELSE {})

OwnAnswer(c) == IF c \in DOMAIN inverter THEN {inverter[c]} ELSE OwnAnswers[c]

Answer ==
    /\ stage = "answer" /\ config.action # "raw"
    /\ stage' = "read"
    /\ \/ /\ config.device = "pseudo"
          /\ \E a \in OwnAnswers["PseudoDevice"] :
                answer' = [Data("GetGeneralStatus", a)
                           EXCEPT !.bytes = Reply(D)]
          /\ UNCHANGED inverter
       \/ /\ config.device # "pseudo" /\ command \in GetCommands
          /\ answer' \in {Data(command, a) : a \in OwnAnswer(command)}
                           \union OtherAnswers
          /\ UNCHANGED inverter
       \/ /\ config.device # "pseudo" /\ command \in SetCommands
          /\ \E says \in {Yes, No, D} :
                /\ says = Yes => InPlace(frame)
                /\ inverter' = IF says = Yes THEN Applied(frame) ELSE inverter
                /\ \E bytes \in Changed(Reply(says)) :
                      answer' = [NoAnswer EXCEPT !.said = says, !.bytes = bytes]
    /\ UNCHANGED <<line, at, config, command, arguments, frame, end, exit,
                   served>>

\* Mutant of ReadSet: the CRC is not compared.
ReadSetUnchecked(bytes) ==
    LET size == Min({i \in DOMAIN bytes : bytes[i] = CR})
        data == SubSeq(bytes, 1, size - 3)
    IN IF CR \notin Range(bytes) THEN "timeout"
       ELSE IF size < 3 THEN "invalid data"
       ELSE IF ValidateSet(data) = "refused" THEN "invalid response"
       ELSE IF Accepted(data) THEN "succeeded" ELSE "declined"
\* Device::recv of an answer to a set command, and SetResponse.
ReadSet(bytes) ==
    LET size == Min({i \in DOMAIN bytes : bytes[i] = CR})
        data == SubSeq(bytes, 1, size - 3)
    IN IF CR \notin Range(bytes) THEN "timeout"
       ELSE IF size < 3 THEN "invalid data"
       ELSE IF CrcRead(SubSeq(bytes, size - 2, size - 1)) # Calculate(data)
            THEN "invalid data"
       ELSE IF ValidateSet(data) = "refused" THEN "invalid response"
       ELSE IF Accepted(data) THEN "succeeded" ELSE "declined"

\* What may come of bytes read behind the answer, in a buffer that is larger:
\* they are numbers or not, of an enumeration or not, a text that JSON can have
\* or not.
ReadBehind(layout, format) ==
    {"shown", "invalid argument"}
    \union (IF DOMAIN layout.enums # {} /\ WritesText(format)
            THEN {"endless"} ELSE {})
    \union (IF layout.form = "counted" /\ format \in {"json", "simple-json"}
            THEN {"not UTF-8"} ELSE {})

\* validate, unpack and format of an answer to a get command.
ReadGet(data, format) ==
    LET layout == Layouts[command]
        valid == ValidateGet(data)
        unpacked == Unpack(layout, data)
    IN IF valid # "valid"
       THEN IF valid = "refused" THEN {"invalid response"}
                                 ELSE {"invalid argument"}
       ELSE CASE unpacked = "refused" -> {"invalid response"}
              [] unpacked = "invalid_argument" -> {"invalid argument"}
              [] unpacked = "outside" -> ReadBehind(layout, format)
              [] unpacked = "unpacked" ->
                    {IF Displays(layout, data.items, format)
                     THEN "shown" ELSE "endless"}

\* A connection of inverterd has its own format.
Read ==
    /\ stage = "read"
    /\ \/ /\ command \in SetCommands
          /\ EndsWith(ReadSet(answer.bytes))
       \/ /\ command \in GetCommands
          /\ \E format \in IF Ctl THEN {config.format} ELSE Formats :
                \E e \in ReadGet(answer.data, format) : EndsWith(e)
    /\ UNCHANGED <<line, at, config, request, inverter, served>>

Ended == stage = "exit" /\ UNCHANGED vars

Next == \/ TakeOption \/ TakeWords \/ OpenDevice \/ Start
        \/ \E words \in Requests : Execute(words)
        \/ ShutDown \/ Send \/ DeviceFails \/ AnswerRaw \/ Answer \/ Read
        \/ Ended

Spec == Init /\ [][Next]_vars

-----------------------------------------------------------------------------
(* What should hold *)

\* The type invariant.
TypeOK ==
    /\ line.program \in DOMAIN LongOptions
    /\ at \in 1..(Len(line.options) + 1)
    /\ config.action \in {"command", "raw", "help"}
    /\ config.format \in Formats /\ config.device \in DeviceTypes
    /\ stage \in {"options", "words", "open", "start", "serve", "execute",
                  "answer", "read", "exit"}
    /\ command \in Commands \union {None}
    /\ \A i \in DOMAIN frame.fields :
            frame.fields[i].value >= 0 \/ frame.fields[i] \in Junk
    /\ frame.kind \in {"P", "S", None}
    /\ end \in Ends \union Verdicts \union {None}
    /\ exit \in {0, 1, Aborted, Running}
    /\ served \in 0..MaxRequests

(* What usage() says of the arguments of a command, and the calendar. *)

Leap(y) == y % 4 = 0 /\ (y % 100 = 0 => y % 400 = 0)
DaysOf(y, m) == CASE m = 2 -> IF Leap(y) THEN 29 ELSE 28
                  [] m \in {4, 6, 9, 11} -> 30
                  [] OTHER -> 31
\* <yyyy>, <yyyy> <mm>, or <yyyy> <mm> <dd>, of which the last two may have a
\* digit less.
Short(t) == t.digits /\ t.size <= 2
Calendar(a) ==
    /\ a[1].digits /\ a[1].size = 4
    /\ Len(a) > 1 => Short(a[2]) /\ a[2].value \in 1..12
    /\ Len(a) > 2 =>
        Short(a[3]) /\ a[3].value \in 1..DaysOf(a[1].value, a[2].value)
OnTheClock(h, m) == h.digits /\ m.digits /\ h.value < 24 /\ m.value < 60

Usage ==
    [SetOutputSourcePriority |->
        [SUB |-> "Solar-Utility-Battery", SBU |-> "Solar-Battery-Utility"],
     SetChargeSourcePriority |->
        [SF |-> "Solar-First", SU |-> "Solar-and-Utility", S |-> "Solar-only"],
     SetSolarPowerPriority |->
        [BLU |-> "Battery-Load-Utility", LBU |-> "Load-Battery-Utility"],
     SetACInputVoltageRange |-> [APPLIANCE |-> "Appliance", UPS |-> "USP"],
     SetBatteryType |-> [AGM |-> "AGM", FLOODED |-> "Flooded", USER |-> "User"],
     SetOutputMode |->
        [S |-> "Single output", P |-> "Parallel output"]]
OutputPhase == <<"Phase 1 of 3-phase output", "Phase 2 of 3-phase output",
                 "Phase 3 of 3-phase">>
UsageOfFlags ==
    [BUZZ |-> "buzzer", OLBP |-> "overload_bypass",
     LCDE |-> "escape_to_default_screen_after_1min_timeout",
     OLRS |-> "overload_restart", OTRS |-> "over_temp_restart",
     BLON |-> "backlight_on", FTCR |-> "fault_code_record",
     ALRM |-> "alarm_on_on_primary_source_interrupt"]

\* The commands with the ID of a machine, of which the usage text says no more.
TakesId == {"SetBatteryMaxChargeCurrent", "SetBatteryMaxACChargeCurrent",
            "SetChargeSourcePriority", "SetOutputMode"}

WithUsage == {"GetYearGenerated", "GetMonthGenerated", "GetDayGenerated",
    "SetDateTime", "SetACSupply", "SetFlag", "SetBatteryMaxChargeVoltage",
    "SetACOutputFreq", "SetBatteryCutOffVoltage", "SetACChargeTimeBucket",
    "SetACSupplyTimeBucket"} \union (DOMAIN Usage \ TakesId)

\* "nan", and a part of a time that is more than digits or that a cast to
\* unsigned short changes.
Plain(part) == /\ part.digits /\ part.whole = "number"
               /\ part.wraps = 0 /\ part.value < 65536
Odd(t) == \/ t.volts = NaN
          \/ t.clock # <<>> /\ \E i \in 1..2 : ~ Plain(t.clock[i])

GetsOfDate == {"GetYearGenerated", "GetMonthGenerated", "GetDayGenerated"}
Dated == GetsOfDate \union {"SetDateTime"}
Buckets == {"SetACChargeTimeBucket", "SetACSupplyTimeBucket"}
Ranged == {"SetBatteryMaxChargeVoltage", "SetBatteryCutOffVoltage"}

\* What the usage text asks for, its numbers written in any way the program puts
\* up with: "7" or "007" for 07, "50x" for 50, and what Odd names.
Tolerated(c, a) ==
    CASE c \in GetsOfDate -> Calendar(a)
      [] c = "SetDateTime" ->
            /\ Calendar(SubSeq(a, 1, 3))
            /\ \A i \in 4..6 : Short(a[i])
            /\ OnTheClock(a[4], a[5]) /\ OnTheClock(a[4], a[6])
      [] c \in Buckets ->
            \A t \in Range(a) :
                /\ t.clock # <<>>
                /\ (\A i \in 1..2 : Plain(t.clock[i]))
                        => OnTheClock(t.clock[1], t.clock[2])
      [] c = "SetACSupply" -> a[1] \in {Numeral(0), Numeral(1)}
      [] c = "SetFlag" -> /\ a[1].word \in DOMAIN UsageOfFlags \union {"MTYP"}
                          /\ a[2] \in {Numeral(0), Numeral(1)}
      [] c = "SetACOutputFreq" -> a[1] \in {Numeral(50), Numeral(60)}
      [] c = "SetBatteryMaxChargeVoltage" ->
            \A t \in Range(a) : /\ t.real = "number"
                                /\ t.volts \in 4800..5840 \union {NaN}
      [] c = "SetBatteryCutOffVoltage" ->
            a[1].real = "number" /\ a[1].volts \in 4000..4800 \union {NaN}
      [] OTHER -> a[Len(a)] \in {Word(w) : w \in DOMAIN Usage[c]}

\* The numbers are written as the usage text has them: <mm> and the like with
\* two digits, hh:mm, and voltages as nothing but a number.
AsWritten(c, a) ==
    /\ c \in Dated => \A i \in 2..Len(a) : a[i].size = 2
    /\ c \in Buckets =>
        \A t \in Range(a) : \A i \in 1..2 : Plain(t.clock[i]) /\ t.clock[i].size = 2
    /\ c \in Ranged => \A t \in Range(a) : t.word = ANumber /\ t.volts # NaN
Documented(c, a) == Tolerated(c, a) /\ AsWritten(c, a)

\* What is documented and refused all the same: the upper end of "48.0 ~ 58.4",
\* because 58.4f is a little more than 58.4, and years outside of the century.
Refused(c, a) ==
    \/ c = "SetBatteryMaxChargeVoltage" /\ \E t \in Range(a) : t.volts = 5840
    \/ c \in Dated /\ a[1].value \notin 2000..2099

\* inverterctl goes on with a command whose arguments are what its usage text
\* asks for, dates that exist among it, but for the two that Refused names; and
\* with no others than those, written in a way that Tolerated names.
AcceptsDocumented ==
    LET c == line.words[1].word
        a == Tail(line.words)
        complete == Len(a) = ArgumentCount(c)
    IN (/\ Ctl /\ line.options = <<>> /\ stage \notin {"options", "words"}
        /\ line.words # <<>> /\ c \in WithUsage)
       => /\ complete /\ Documented(c, a) /\ ~ Refused(c, a) => command = c
          /\ command = c => complete /\ Tolerated(c, a) /\ ~ Refused(c, a)

\* A command that was accepted is sent with every field as wide as the place the
\* protocol has for it, and with the right length: nothing a user may ask for
\* moves the fields behind it.  Not so for "nan" and for a machine ID that is
\* not one digit, which is sent as it was given.
FrameInPlace ==
    frame # NoFrame =>
        \/ /\ InPlace(frame)
           /\ frame.length = 3 + Len(frame.code)
                + Total([i \in DOMAIN frame.fields |-> frame.fields[i].width])
        \/ \E t \in Range(arguments) : t.volts = NaN
        \/ command \in TakesId /\ arguments[1].size # 1

Near(x, y) == x - y \in -5..5

Meant(c, a) ==
    CASE c = "SetACOutputFreq" -> {<<"ac_output_rating_freq", 100 * a[1].value>>}
      [] c = "SetACOutputVoltage" ->
            {<<"ac_output_rating_voltage", 100 * a[1].value>>}
      [] c = "SetBatteryMaxChargeVoltage" ->
            {<<"battery_bulk_voltage", a[1].volts>>,
             <<"battery_float_voltage", a[2].volts>>}
      [] c = "SetBatteryChargeThresholds" ->
            {<<"battery_recharge_voltage", a[1].volts>>,
             <<"battery_redischarge_voltage", a[2].volts>>}
      [] c = "SetBatteryCutOffVoltage" ->
            {<<"battery_under_voltage", a[1].volts>>}
      [] c = "SetBatteryMaxChargeCurrent" ->
            {<<"max_charge_current", 100 * a[2].value>>}
      [] c = "SetBatteryMaxACChargeCurrent" ->
            {<<"max_ac_charge_current", 100 * a[2].value>>}
      [] OTHER -> {}

LineOf == [SetOutputSourcePriority |-> "output_source_priority",
           SetChargeSourcePriority |-> "charge_source_priority",
           SetSolarPowerPriority |-> "solar_power_priority",
           SetACInputVoltageRange |-> "input_voltage_range",
           SetBatteryType |-> "battery_type", SetOutputMode |-> "output_mode"]
ChoiceMeant(c, t) == IF t.digits THEN OutputPhase[t.value] ELSE Usage[c][t.word]

\* When the inverter takes what inverterctl sends, get-rated, get-flags and
\* get-ac-*-time then show what the user asked for, in the words of the usage
\* text and within the tenth of a volt the protocol has: the indices, widths and
\* places of the sending side and of the reading side agree.
SettingIsShown ==
    LET a == Tail(line.words)
        rated == inverter.GetRatedInformation.items
    IN (Ctl /\ answer.said = Yes /\ \A t \in Range(a) : ~ Odd(t)) =>
        /\ \A m \in Meant(command, a) : Near(RatedShown(m[1], rated), m[2])
        /\ command \in DOMAIN LineOf =>
            RatedShown(LineOf[command], rated) = ChoiceMeant(command, a[Len(a)])
        /\ (command = "SetFlag" /\ a[1].word \in DOMAIN UsageOfFlags) =>
            (FlagShown(UsageOfFlags[a[1].word],
                       inverter.GetFlagsAndStatuses.items) <=> a[2].value = 1)
        /\ command \in Buckets =>
            LET shown == inverter[IF command = "SetACChargeTimeBucket"
                                  THEN "GetACChargeTimeBucket"
                                  ELSE "GetACSupplyTimeBucket"].items
            IN \A i \in 1..2 :
                shown[i] = Item(4, 100 * a[i].clock[1].value
                                    + a[i].clock[2].value)

\* An answer to a set command that noise has changed in one byte is never taken
\* for an answer: neither for success nor for a refusal.
NoiseIsRefused ==
    (command \in SetCommands /\ end \in Shown) =>
        /\ answer.bytes = Reply(answer.said)
        /\ end = IF answer.said = Yes THEN "succeeded" ELSE "declined"

\* The CRC by nibbles is the remainder of CRC-16/XMODEM, and its two bytes never
\* end a frame early or begin one.
CrcIsSound ==
    \A n \in 0..(Len(answer.bytes) - 1) :
        LET head == SubSeq(answer.bytes, 1, n)
            crc == Calculate(head)
        IN /\ crc = Unreserved(Number(Remainder(head)))
           /\ Range(CrcWrite(crc)) \cap {40, 10, CR} = {}

\* Whatever the inverter is set to, its own answer to a command is unpacked and
\* shown, in each format.
OwnAnswersShown ==
    (command \in GetCommands /\ answer.of = command /\ end # None)
        => end = "shown"

\* An answer to another command (late, see CommandExecutor, or the pseudo
\* device's) is refused by every class that knows the sizes of its items, except
\* that the two time buckets have the same.
Sized(c) == Layouts[c].form = "list" /\ Layouts[c].sizes # <<>>
Twins == {"GetACChargeTimeBucket", "GetACSupplyTimeBucket"}
MisreadKnown ==
    (answer.of \in GetCommands \ {command} /\ end = "shown" /\ Sized(command))
        => {answer.of, command} = Twins

\* Only CurrentTime, the generated energies and SerialNumber read outside of an
\* answer, the classes of two characters when there are not even two, and none
\* of them outside of its own.
ReadsInside ==
    (/\ command \in GetCommands /\ answer # NoAnswer
     /\ ValidateGet(answer.data) = "valid"
     /\ Unpack(Layouts[command], answer.data) = "outside")
        => /\ answer.of # command
           /\ \/ Layouts[command] \in {CurrentTime, TotalGenerated, SerialNumber}
              \/ /\ Layouts[command] \in {ProtocolID, WorkingMode}
                 /\ DataSize(answer.data) < 2

Huge(t) == \/ t.whole = "too much" \/ t.real = "too much"
           \/ t.wraps > 0 \/ t.value > MaxInt
           \/ t.clock # <<>> /\ \E i \in 1..2 : t.clock[i].whole = "too much"
                                                \/ t.clock[i].wraps > 0

\* inverterctl aborts only on a number that is too large, on an answer that does
\* not end within the buffer, or on one that is not the inverter's own; inverterd
\* never aborts because of the words of an exec request, and not for any answer
\* that can be read and shown.
CrashesKnown ==
    exit = Aborted =>
        \/ \E t \in {line.options[i].argument : i \in DOMAIN line.options}
                       \union Range(line.words) : Huge(t)
        \/ ~ Ctl /\ served = 0
        \/ Ctl /\ end = "overflow"
        \/ end \in Fatal /\ answer.of \notin {None, command}

\* A serial port that was opened has the settings the usage text offers; and
\* always eight data bits, because the check of --serial-data-bits refuses
\* exactly the numbers a port can have.
PortAsDocumented ==
    (config.device = "serial"
        /\ stage \notin {"options", "words", "open", "exit"}) =>
        /\ config.baud \in {110, 300, 1200, 2400, 4800, 9600, 19200, 38400,
                            57600, 115200}
        /\ config.bits = 8
        /\ config.stop \in {"1", "1.5", "2"}
        /\ config.parity \in {"none", "odd", "even", "mark", "space"}
=============================================================================
