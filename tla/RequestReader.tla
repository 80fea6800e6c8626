--------------------------- MODULE RequestReader ---------------------------
(***************************************************************************)
(* One connection between the bytes its client sends and the requests the  *)
(* server makes of them: Connection::run, readLoop and processRequest.     *)
(*                                                                         *)
(* recv returns any part of what was sent.  The buffer is one array for    *)
(* all requests of the connection: what earlier requests left in it, and   *)
(* the NUL bytes that strtok_r and processRequest write into it, stay.     *)
(* A NUL that the client sends is a byte like any other to recv and the    *)
(* end of the string to strstr, strtok_r and std::string.                  *)
(* A word is one byte here.                                                *)
(***************************************************************************)
EXTENDS Integers, Sequences, FiniteSets

CONSTANTS
    Inputs,         \* what a client may send: lines, an EOT, a part of a line
    Garbage,        \* what the uninitialised buffer may hold
    BufSize,        \* bufSize
    MaxBytes        \* bound: bytes the client sends

SP == "SP"
CR == "CR"
LF == "LF"
NUL == "NUL"
EOT == "EOT"
Bytes ==
    {SP, CR, LF, NUL, EOT, "v", "format", "exec", "raw", "1", "json", "table", "x"}
Index == 1 .. BufSize
Formats == {"json", "table"}

ASSUME BufferAssumption == BufSize \in Nat /\ BufSize > 1
ASSUME InputsAssumption ==
    /\ Inputs \subseteq Seq(Bytes) \ {<<>>}
    /\ Garbage \subseteq [Index -> Bytes] /\ Garbage # {}
    /\ MaxBytes \in Nat

VARIABLES
    stage,          \* where run() is
    stream,         \* sent, not received
    open,           \* the client may send more
    buf,
    readed,         \* bytes of the request in buf
    options_,       \* its format; its version can only be 1
    reply,          \* status of the last response, "none" before the first
    \* history
    sent,           \* bytes the client has sent
    done,           \* bytes that were in buf for processRequest
    regular         \* so far every recv returned one whole line, or one EOT

vars == <<stage, stream, open, buf, readed, options_, reply, sent, done,
          regular>>

Init ==
    /\ stage = "receiving"
    /\ stream = <<>>
    /\ open = TRUE
    /\ buf \in Garbage
    /\ readed = 0
    /\ options_ = "json"
    /\ reply = "none"
    /\ sent = <<>>
    /\ done = <<>>
    /\ regular = TRUE

Received == SubSeq(buf, 1, readed)
\* The C string that begins with s: what strstr, strtok_r and the like see of it.
Text(s) ==
    LET end == CHOOSE i \in 1 .. Len(s) + 1 :
                  /\ i = Len(s) + 1 \/ s[i] = NUL
                  /\ \A j \in 1 .. i - 1 : s[j] # NUL
    IN SubSeq(s, 1, end - 1)
Request == Text(buf)

HasCRLF(s) == \E i \in 1 .. Len(s) - 1 : s[i] = CR /\ s[i + 1] = LF

Has(s, byte) == \E i \in 1 .. Len(s) : s[i] = byte

\* A line of the protocol: it ends with its only CRLF and has no EOT and no NUL.
IsLine(s) ==
    /\ ~Has(s, EOT)
    /\ ~Has(s, NUL)
    /\ HasCRLF(s)
    /\ ~HasCRLF(SubSeq(s, 1, Len(s) - 1))

----------------------------------------------------------------------------
(* The client *)

Send ==
    /\ open
    /\ \E input \in Inputs :
          /\ Len(sent) + Len(input) <= MaxBytes
          /\ stream' = stream \o input
          /\ sent' = sent \o input
    /\ UNCHANGED <<stage, open, buf, readed, options_, reply, done, regular>>

Finish ==
    /\ open
    /\ open' = FALSE
    /\ UNCHANGED <<stage, stream, buf, readed, options_, reply, sent, done,
                   regular>>

----------------------------------------------------------------------------
(* readLoop *)

\* Mutant of Found: only what this recv returned is searched.
FoundInChunk(b) ==
    \E i \in readed + 1 .. BufSize - 1 :
        /\ b[i] = CR /\ b[i + 1] = LF
        /\ \A j \in readed + 1 .. i : b[j] # NUL

\* strstr(buf, "\r\n"): a CRLF before the first NUL, received or not.
Found(b) ==
    \E i \in 1 .. BufSize - 1 :
        /\ b[i] = CR /\ b[i + 1] = LF
        /\ \A j \in 1 .. i : b[j] # NUL

\* Mutant of Stored: bufptr is not advanced.
StoredAtStart(chunk) ==
    [i \in Index |-> IF i <= Len(chunk) THEN chunk[i] ELSE buf[i]]

\* recv(sock_, bufptr, ...)
Stored(chunk) ==
    [i \in Index |-> IF i \in readed + 1 .. readed + Len(chunk)
                     THEN chunk[i - readed] ELSE buf[i]]

\* bufptr += rcvd; bufptr[rcvd] = '\0'.
Terminated(chunk) ==
    [Stored(chunk) EXCEPT ![readed + 2 * Len(chunk) + 1] = NUL]

\* Mutant of Return: the request is not terminated.
ReturnOpen(b, n) ==
    /\ buf' = b
    /\ stage' = IF b[1] = EOT THEN "closed" ELSE "processing"

\* readLoop returns n bytes b: buf[rcvd] = '\0', and an EOT at the start ends
\* the connection.
Return(b, n) ==
    /\ buf' = [b EXCEPT ![n + 1] = NUL]
    /\ stage' = IF b[1] = EOT THEN "closed" ELSE "processing"

\* recv returns the first k bytes of the stream.  The loop goes on unless they
\* begin with EOT, the buffer is full, or a CRLF is found.
Receive ==
    /\ stage = "receiving"
    /\ \E k \in 1 .. Len(stream) :
          /\ readed + k <= BufSize - 1
          /\ LET chunk == SubSeq(stream, 1, k)
                 b == IF Head(chunk) = EOT THEN Stored(chunk)
                                           ELSE Terminated(chunk)
             IN /\ IF \/ Head(chunk) = EOT
                      \/ readed + k = BufSize - 1
                      \/ Found(b)
                   THEN Return(b, readed + k)
                   ELSE buf' = b /\ UNCHANGED stage
                /\ regular' = (regular /\ readed = 0
                                 /\ (chunk = <<EOT>> \/ IsLine(chunk)))
          /\ readed' = readed + k
          /\ stream' = SubSeq(stream, k + 1, Len(stream))
    /\ UNCHANGED <<open, options_, reply, sent, done>>

\* recv returns 0: what has been read is the request, if anything has.
ReceiveEnd ==
    /\ stage = "receiving"
    /\ stream = <<>>
    /\ ~open
    /\ IF readed = 0
       THEN stage' = "closed" /\ UNCHANGED buf
       ELSE Return(buf, readed)
    /\ UNCHANGED <<stream, open, readed, options_, reply, sent, done, regular>>

\* recv returns -1: the client has reset the connection, or a signal came.
ReceiveFails ==
    /\ stage = "receiving"
    /\ stage' = "closed"
    /\ UNCHANGED <<stream, open, buf, readed, options_, reply, sent, done,
                   regular>>

----------------------------------------------------------------------------
(* processRequest *)

Starts(s) == {i \in 1 .. Len(s) : s[i] # SP /\ (i = 1 \/ s[i - 1] = SP)}
\* Where the token that starts at i ends: at the next space or the end.
End(s, i) ==
    CHOOSE j \in i + 1 .. Len(s) + 1 :
        /\ j = Len(s) + 1 \/ s[j] = SP
        /\ \A l \in i .. j - 1 : s[l] # SP
\* Mutant of Cut: the CRLF stays in the token.
Uncut(s, i) == End(s, i)

\* The CR of its first CRLF, or End.
Cut(s, i) ==
    CHOOSE j \in i .. End(s, i) :
        /\ j = End(s, i) \/ (j + 1 < End(s, i) /\ s[j] = CR /\ s[j + 1] = LF)
        /\ \A l \in i .. j - 1 : ~(l + 1 < End(s, i) /\ s[l] = CR /\ s[l + 1] = LF)
Token(s, i) == SubSeq(s, i, Cut(s, i) - 1)

FirstStart(s) == CHOOSE i \in Starts(s) : \A j \in Starts(s) : i <= j
RequestTypes == {<<"v">>, <<"format">>, <<"exec">>, <<"raw">>}
Known(s) == Starts(s) # {} /\ Token(s, FirstStart(s)) \in RequestTypes
\* An unknown first word ends the loop over the tokens.
Visited(s) == IF Known(s) \/ Starts(s) = {} THEN Starts(s) ELSE {FirstStart(s)}
\* The other tokens, but for those of which nothing is left.
ArgumentStarts(s) == {i \in Starts(s) \ {FirstStart(s)} : Token(s, i) # <<>>}
Arguments(s) == {Token(s, i) : i \in ArgumentStarts(s)}
ArgumentCount(s) == Cardinality(ArgumentStarts(s))

\* Mutant of FormatsIn: a word that names no format is taken for one.
WordsIn(s) == {Head(a) : a \in Arguments(s)}
\* The formats that format_from_string finds in the arguments.
FormatsIn(s) == {f \in Formats : <<f>> \in Arguments(s)}

\* The buffer after it: strtok_r has ended each token it visited with a NUL,
\* and the CR of a CRLF in it is one too.
Scrubbed(s) ==
    [i \in Index |->
        IF \E j \in Visited(s) : i \in {End(s, j), Cut(s, j)}
        THEN NUL ELSE buf[i]]

\* The new options_ and the status of the response that the request s may
\* lead to.  std::stoul reads the digits at the start; an unset `type` makes
\* any of the cases, or none, of the switch.
Outcomes(s) ==
    LET err == {[status |-> "err", options |-> options_]}
        ok(o) == {[status |-> "ok", options |-> o]}
        word == IF Starts(s) = {} THEN <<>> ELSE Token(s, FirstStart(s))
        one == ArgumentCount(s) = 1
    IN CASE word = <<"v">> /\ one /\ \E a \in Arguments(s) : Head(a) = "1" ->
                ok(options_)
         [] word = <<"format">> /\ one /\ FormatsIn(s) # {} ->
                ok(CHOOSE f \in FormatsIn(s) : TRUE)
         [] word = <<"exec">> /\ ArgumentCount(s) >= 1 -> ok(options_) \union err
         [] Starts(s) = {} -> ok(options_) \union err
         [] OTHER -> err

\* Process the request and send the response; if that fails the connection
\* ends.  Bytes behind a NUL are in the buffer and not in the request.  (A word
\* that is not UTF-8 may end the process: RequestFails of ConnectionLifecycle.)
Process ==
    /\ stage = "processing"
    /\ \E outcome \in Outcomes(Request) :
          /\ options_' = outcome.options
          /\ reply' = outcome.status
    /\ buf' = Scrubbed(Request)
    /\ done' = done \o Received
    /\ readed' = 0
    /\ stage' \in {"receiving", "closed"}
    /\ UNCHANGED <<stream, open, sent, regular>>

Ended == stage = "closed" /\ UNCHANGED vars

Next ==
    \/ Send \/ Finish
    \/ Receive \/ ReceiveEnd \/ ReceiveFails
    \/ Process
    \/ Ended

Spec == Init /\ [][Next]_vars

----------------------------------------------------------------------------
(* What should hold *)

\* Every variable keeps its type, and a request fits into the buffer.
TypeOK ==
    /\ stage \in {"receiving", "processing", "closed"}
    /\ stream \in Seq(Bytes)
    /\ open \in BOOLEAN
    /\ buf \in [Index -> Bytes]
    /\ readed \in 0 .. BufSize - 1
    /\ options_ \in Formats
    /\ reply \in {"none", "ok", "err"}
    /\ sent \in Seq(Bytes)
    /\ done \in Seq(Bytes)
    /\ regular \in BOOLEAN

\* However the bytes arrive, each one comes into the buffer once and in the
\* order sent, for one request, and the request is all of its bytes up to the
\* first NUL among them: nothing of what earlier requests left in the buffer is
\* handed over, and only what follows a NUL is lost.
NothingLost ==
    /\ stage \in {"receiving", "processing"} => sent = done \o Received \o stream
    /\ stage = "processing" => Request = Text(Received)

\* A line that has been received is not held back: readLoop does not call recv
\* again with a CRLF in what it has, wherever the bytes were split, unless a NUL
\* came before the CRLF.
NoLineHeldBack == stage = "receiving" => ~HasCRLF(Text(Received))

\* A client whose lines arrive one by one and whole has one request made of
\* each, and its EOT makes none, whatever the buffer held before.
RegularFraming ==
    regular /\ stage = "processing" => IsLine(Request)

\* The line l asks for the format f: `format` and f are its words.
AsksFor(l, f) ==
    \E p, q \in 1 .. Len(l) - 2 :
        /\ p + 1 < q /\ l[p] = "format" /\ l[q] = f
        /\ \A i \in 1 .. Len(l) - 2 : i \in {p, q} \/ l[i] = SP

\* A line of s begins at i and asks for f.
LineAt(s, i, j) ==
    /\ i = 1 \/ (i > 2 /\ s[i - 2] = CR /\ s[i - 1] = LF)
    /\ IsLine(SubSeq(s, i, j))
AsksAt(s, i, f) ==
    \E j \in i .. Len(s) : LineAt(s, i, j) /\ AsksFor(SubSeq(s, i, j), f)

\* No line of s from the i-th byte on asks for a format.
NoneAsks(s, i) == \A k \in i .. Len(s), g \in Formats : ~AsksAt(s, k, g)

\* Such a client has its responses in the format it last asked for, whatever
\* else it sent and whichever of its requests were refused in between.
FormatInForce ==
    regular /\ stage = "receiving" =>
        \/ options_ = "json" /\ NoneAsks(done, 1)
        \/ \E i \in 1 .. Len(done) :
              AsksAt(done, i, options_) /\ NoneAsks(done, i + 1)

----------------------------------------------------------------------------
(* What the documentation says, which the code does not do *)

\* A request is handed over when its line has come, "\r\n" included.
RequestIsComplete == stage = "processing" => HasCRLF(Request)

\* An EOT closes the connection: it is never part of a request.
EotCloses == stage = "processing" => ~Has(Request, EOT)

=============================================================================
