------------------------------ MODULE DeviceIO ------------------------------
(***************************************************************************)
(* Device::run down to the calls of the backend: writeLoop over what write *)
(* takes, readLoop over what read returns, the deadline, and what one run  *)
(* leaves on the link for the next.                                        *)
(*                                                                         *)
(* A byte is known by the run and the place in its frame or answer; the    *)
(* last one of each is '\r', and USB reports are filled up with place 0.   *)
(***************************************************************************)
EXTENDS Integers, Sequences

CONSTANTS
    Backends,       \* of "usb" and "serial"
    ReportSize,     \* HID_REPORT_SIZE
    FrameSize,      \* dataLen of send
    AnswerSizes,    \* lengths of answers, '\r' included
    BufSize,        \* the buffer of Client::runOnDevice
    Timed,          \* timeout_ # 0
    MaxRuns         \* bound: calls of run

ASSUME BackendsAssumption ==
    Backends \subseteq {"usb", "serial"} /\ Timed \in BOOLEAN
ASSUME SizesAssumption ==
    /\ ReportSize \in Nat \ {0} /\ FrameSize \in Nat \ {0}
    /\ BufSize \in Nat \ {0} /\ MaxRuns \in Nat
    /\ AnswerSizes \subseteq Nat \ {0}

VARIABLES
    backend,        \* the class of the device
    stage,          \* "idle", "writing", "reading"; "undefined" after a
                    \* negative return value was taken for a size
    run,            \* calls of run so far
    expired,        \* getTimeLeft() is 0
    data,           \* where writeLoop's pointer is: bytes before it
    bytesLeft,
    bufSize,        \* room left for readLoop
    result,         \* how the last run ended: "none", "answer" or an exception
    wire,           \* bytes on their way to the inverter
    line,           \* bytes on their way to the host
    \* history
    written,        \* bytes given to the backend in this run
    got,            \* bytes readLoop has looked at in this run
    left            \* some run has left part of an exchange on the link

link == <<wire, line>>
vars == <<backend, stage, run, expired, data, bytesLeft, bufSize, result, link, written,
          got, left>>

Byte(r, i, n) == [run |-> r, place |-> i, last |-> i = n]
Frame(r) == [i \in 1 .. FrameSize |-> Byte(r, i, FrameSize)]
Padding(r, n) == [i \in 1 .. n |-> Byte(r, 0, 1)]
\* What fills n bytes up to a whole number of reports.
Filled(n) ==
    IF backend = "usb" THEN (ReportSize - (n % ReportSize)) % ReportSize ELSE 0
Smaller(m, n) == IF m < n THEN m ELSE n

Init ==
    /\ backend \in Backends
    /\ stage = "idle"
    /\ run = 0
    /\ expired = FALSE
    /\ data = 0
    /\ bytesLeft = 0
    /\ bufSize = 0
    /\ result = "none"
    /\ wire = <<>>
    /\ line = <<>>
    /\ written = <<>>
    /\ got = <<>>
    /\ left = FALSE

----------------------------------------------------------------------------
(* Device::run *)

Run ==
    /\ stage = "idle"
    /\ run < MaxRuns
    /\ stage' = "writing"
    /\ run' = run + 1
    /\ expired' = FALSE
    /\ data' = 0
    /\ bytesLeft' = FrameSize
    /\ bufSize' = BufSize
    /\ written' = <<>>
    /\ got' = <<>>
    /\ UNCHANGED <<backend, result, link, left>>

\* The run ends with an exception that leaves the exchange unfinished.
Abandon(exception) ==
    /\ stage' = "idle"
    /\ result' = exception
    /\ left' = TRUE

\* The deadline may pass during a call of the backend.
TimePasses == expired' \in {expired, Timed}

\* Mutant of Advance: the rest is written from the start.
Stay(k) == data' = data
\* data = &data[bytesWritten]
Advance(k) == data' = data + k

\* A call of write(data, bytesLeft) that takes k bytes and returns n.
Write(k, n) ==
    /\ stage = "writing"
    /\ TimePasses
    /\ LET taken == SubSeq(Frame(run), data + 1, data + k)
                        \o Padding(run, n - k)
       IN written' = written \o taken /\ wire' = wire \o taken
    /\ bytesLeft' = bytesLeft - n
    /\ IF bytesLeft' <= 0
       THEN /\ IF expired' THEN Abandon("TimeoutError")
                           ELSE stage' = "reading" /\ UNCHANGED <<result, left>>
            /\ UNCHANGED data
       ELSE /\ IF expired' THEN Abandon("TimeoutError")
                           ELSE UNCHANGED <<stage, result, left>>
            /\ Advance(n)
    /\ UNCHANGED <<backend, run, bufSize, line, got>>

\* hid_write sends one report, whatever is left to be written.
WriteReport ==
    /\ backend = "usb"
    /\ Write(Smaller(bytesLeft, ReportSize), ReportSize)

\* sp_blocking_write takes what it can in the time that is left.
WriteBytes ==
    /\ backend = "serial"
    /\ \E k \in 0 .. bytesLeft :
          /\ k = bytesLeft \/ Timed
          /\ Write(k, k)

\* Mutant of FirstLast: only the last byte of what read returned is looked at.
LastLast(chunk) ==
    {i \in 1 .. Len(chunk) : i = Len(chunk) /\ chunk[i].last}
\* Another one: the pointer is advanced before the byte is looked at.
NextLast(chunk) ==
    {i \in 1 .. Len(chunk) - 1 :
        chunk[i + 1].last /\ \A j \in 1 .. i : ~chunk[j].last}
\* Where readLoop finds a '\r'.
FirstLast(chunk) ==
    {i \in 1 .. Len(chunk) :
        chunk[i].last /\ \A j \in 1 .. i - 1 : ~chunk[j].last}

\* Mutant of OutOfRoom: the check is left out.
RoomNotChecked(room) == FALSE
\* bufSize <= 0
OutOfRoom(room) == room <= 0

\* What recv accepts.  The CRC is taken to tell.
IsAnswer(s) ==
    \A i \in 1 .. Len(s) : s[i].place = i /\ s[i].run = s[1].run

\* A call of read(buf, bufSize) that takes n bytes off the line and returns the
\* first k of them.  Behind the first '\r' nothing is looked at.
Read(k, n) ==
    /\ stage = "reading"
    /\ TimePasses
    /\ line' = SubSeq(line, n + 1, Len(line))
    /\ LET chunk == SubSeq(line, 1, k)
           end == FirstLast(chunk)
       IN IF end # {}
          THEN \E i \in end :
                /\ got' = got \o SubSeq(chunk, 1, i)
                /\ bufSize' = bufSize - i + 1
                /\ stage' = "idle"
                /\ result' = IF IsAnswer(got') THEN "answer" ELSE "InvalidDataError"
                /\ UNCHANGED left
          ELSE /\ got' = got \o chunk
               /\ bufSize' = bufSize - k
               /\ IF expired' THEN Abandon("TimeoutError")
                  ELSE IF OutOfRoom(bufSize') THEN Abandon("overflow_error")
                  ELSE UNCHANGED <<stage, result, left>>
    /\ UNCHANGED <<backend, run, data, bytesLeft, wire, written>>

\* hid_read_timeout returns one report, cut to what fits, or nothing in time.
ReadReport ==
    /\ backend = "usb"
    /\ \/ line # <<>> /\ Read(Smaller(ReportSize, bufSize), ReportSize)
       \/ Timed /\ Read(0, 0)

\* sp_blocking_read_next returns what there is, or nothing in time.
ReadBytes ==
    /\ backend = "serial"
    /\ \/ \E k \in 1 .. Smaller(Len(line), bufSize) : Read(k, k)
       \/ Timed /\ Read(0, 0)

\* A backend call fails.  The USB device throws DeviceError; the serial device
\* returns a negative number, which the loops take for a huge size.
Fail ==
    /\ stage \in {"writing", "reading"}
    /\ IF backend = "usb"
       THEN Abandon("DeviceError")
       ELSE stage' = "undefined" /\ UNCHANGED <<result, left>>
    /\ UNCHANGED <<backend, run, expired, data, bytesLeft, bufSize, link, written, got>>

----------------------------------------------------------------------------
(* The inverter (external) takes the bytes up to a '\r'.  It answers a whole  *)
(* frame, and may answer what it cannot read, or not at all.                  *)
InverterTakes ==
    /\ \E i \in 1 .. Len(wire) :
          /\ wire[i].last
          /\ \A j \in 1 .. i - 1 : ~wire[j].last
          /\ wire' = SubSeq(wire, i + 1 + Filled(FrameSize), Len(wire))
          /\ \/ UNCHANGED line
             \/ \E n \in AnswerSizes :
                   line' = line
                      \o [j \in 1 .. n |-> Byte(wire[i].run, j, n)]
                      \o Padding(wire[i].run, Filled(n))
    /\ UNCHANGED <<backend, stage, run, expired, data, bytesLeft, bufSize, result,
                   written, got, left>>

\* All runs of the bounded instance are over, or all that follows is undefined.
Ended ==
    /\ stage = "undefined" \/ (stage = "idle" /\ run = MaxRuns)
    /\ UNCHANGED vars

Next ==
    \/ Run
    \/ WriteReport \/ WriteBytes
    \/ ReadReport \/ ReadBytes
    \/ Fail
    \/ InverterTakes
    \/ Ended

Spec == Init /\ [][Next]_vars

----------------------------------------------------------------------------
(* What should hold *)

FrameByte == [run : Nat, place : Nat, last : BOOLEAN]

\* Every variable keeps its type, and readLoop calls read only with room left.
TypeOK ==
    /\ backend \in Backends
    /\ stage \in {"idle", "writing", "reading", "undefined"}
    /\ run \in Nat
    /\ expired \in BOOLEAN
    /\ data \in Nat
    /\ bytesLeft \in Int
    /\ bufSize \in 0 .. BufSize
    /\ stage = "reading" => bufSize > 0
    /\ result \in {"none", "answer", "InvalidDataError", "TimeoutError",
                   "DeviceError", "overflow_error"}
    /\ wire \in Seq(FrameByte)
    /\ line \in Seq(FrameByte)
    /\ written \in Seq(FrameByte)
    /\ got \in Seq(FrameByte)
    /\ left \in BOOLEAN

\* However the backend splits the writes, recv starts only after the frame has
\* been written once, in order and whole, with nothing but the zeros of its last
\* report behind it.
FrameInOrder ==
    stage = "reading" => written = Frame(run) \o Padding(run, Filled(FrameSize))

\* However the reads split the line, and whatever earlier runs have left on it,
\* a run never puts together bytes of two answers: what it reads is a piece of
\* one, without gaps.  So what it takes for an answer is one, whole.
AnswersApart ==
    \A i \in 1 .. Len(got) - 1 :
        /\ got[i + 1].run = got[i].run
        /\ got[i + 1].place = got[i].place + 1

\* As long as no run has ended with an exception, each returns the whole answer
\* to its own frame and leaves the link empty, USB padding included.
CleanExchange ==
    stage = "idle" /\ ~left =>
        /\ link = <<<<>>, <<>>>>
        /\ got # <<>> => got[1].run = run /\ IsAnswer(got) /\ got[Len(got)].last
        /\ result \in {"none", "answer"}

=============================================================================
