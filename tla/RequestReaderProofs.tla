------------------------ MODULE RequestReaderProofs ------------------------
(***************************************************************************)
(* RequestReader's safety invariants, for every input, every buffer size   *)
(* and whatever the uninitialised buffer holds.                            *)
(***************************************************************************)
EXTENDS RequestReader, SequenceTheorems, FiniteSetTheorems, TLAPS

\* A request that is handed over has a NUL behind it.
BufferInv == stage = "processing" => buf[readed + 1] = NUL

\* What the client has sent is accounted for, whatever the stage.
SentInv == stage # "closed" => sent = done \o Received \o stream

\* Between two requests of a regular client nothing is in the buffer, and what
\* it has in the buffer when it is processed is a line.
RegularInv ==
    /\ regular /\ stage = "receiving" => readed = 0
    /\ regular /\ stage = "processing" => IsLine(Received)

IInv == TypeOK /\ BufferInv /\ SentInv /\ NoLineHeldBack /\ RegularInv

----------------------------------------------------------------------------
(* The buffer *)

\* An array of BufSize bytes is a sequence.
LEMMA BufferIsSequence ==
    ASSUME NEW b \in [Index -> Bytes]
    PROVE  b \in Seq(Bytes) /\ Len(b) = BufSize
  BY BufferAssumption DEF Index

\* The first n bytes of a buffer are a sequence of bytes.
LEMMA Prefix ==
    ASSUME NEW b \in [Index -> Bytes], NEW n \in 0 .. BufSize - 1
    PROVE  /\ SubSeq(b, 1, n) \in Seq(Bytes)
           /\ Len(SubSeq(b, 1, n)) = n
           /\ \A i \in 1 .. n : SubSeq(b, 1, n)[i] = b[i]
  <1>1. \A i \in 1 .. n : b[i] \in Bytes
    BY BufferAssumption DEF Index
  <1> QED
    BY <1>1, SubSeqProperties, BufferAssumption

\* Four pieces of the client's bytes, put together in another order.
LEMMA Regroup ==
    \A p, q, r, t \in Seq(Bytes) : (p \o q) \o (r \o t) = (p \o (q \o r)) \o t
  <1> TAKE p, q, r, t \in Seq(Bytes)
  <1>1. p \o q \in Seq(Bytes) /\ q \o r \in Seq(Bytes)
    BY ConcatProperties
  <1>2. (p \o q) \o (r \o t) = ((p \o q) \o r) \o t
    BY <1>1, ConcatAssociative, SMTT(30)
  <1>3. (p \o q) \o r = p \o (q \o r)
    BY ConcatAssociative
  <1> QED
    BY <1>2, <1>3

\* A buffer that repeats the first m bytes of another one and goes on with the
\* sequence s begins with both.
LEMMA PrefixGrows ==
    ASSUME NEW b \in [Index -> Bytes], NEW c \in [Index -> Bytes],
           NEW m \in 0 .. BufSize - 1, NEW s \in Seq(Bytes),
           m + Len(s) <= BufSize - 1,
           \A i \in 1 .. m : c[i] = b[i],
           \A i \in 1 .. Len(s) : c[m + i] = s[i]
    PROVE  SubSeq(c, 1, m + Len(s)) = SubSeq(b, 1, m) \o s
  <1> DEFINE p == SubSeq(b, 1, m)
             q == SubSeq(c, 1, m + Len(s))
  <1>0. m \in Nat /\ Len(s) \in Nat /\ m + Len(s) \in 0 .. BufSize - 1
    BY LenProperties, BufferAssumption
  <1>1. p \in Seq(Bytes) /\ Len(p) = m /\ \A i \in 1 .. m : p[i] = b[i]
    BY Prefix
  <1>2. /\ q \in Seq(Bytes) /\ Len(q) = m + Len(s)
        /\ \A i \in 1 .. m + Len(s) : q[i] = c[i]
    BY <1>0, Prefix
  <1> HIDE DEF p, q
  <1>3. /\ p \o s \in Seq(Bytes) /\ Len(p \o s) = m + Len(s)
        /\ \A i \in 1 .. m + Len(s) :
              (p \o s)[i] = IF i <= m THEN p[i] ELSE s[i - m]
    <2>1. /\ p \o s \in Seq(Bytes) /\ Len(p \o s) = Len(p) + Len(s)
          /\ \A i \in 1 .. Len(p) + Len(s) :
                (p \o s)[i] = IF i <= Len(p) THEN p[i] ELSE s[i - Len(p)]
      BY <1>1, ConcatProperties
    <2> QED
      BY <1>1, <2>1
  <1>4. ASSUME NEW i \in 1 .. m + Len(s) PROVE q[i] = (p \o s)[i]
    <2>1. CASE i <= m
      <3>1. i \in 1 .. m
        BY <1>0, <2>1
      <3>2. q[i] = b[i] /\ p[i] = b[i]
        BY <1>1, <1>2, <3>1
      <3> QED
        BY <1>3, <2>1, <3>2
    <2>2. CASE i > m
      <3>1. i - m \in 1 .. Len(s) /\ i = m + (i - m)
        BY <1>0, <2>2
      <3>2. q[i] = s[i - m]
        BY <1>2, <3>1
      <3>3. ~(i <= m)
        BY <1>0, <2>2
      <3> QED
        BY <1>3, <3>2, <3>3
    <2>3. i <= m \/ i > m
      BY <1>0
    <2> QED
      BY <2>1, <2>2, <2>3
  <1>5. q = p \o s
    BY <1>2, <1>3, <1>4, SeqEqual
  <1> QED
    BY <1>5 DEF p, q

\* A set of numbers has a least one.
LEMMA LeastOf ==
    ASSUME NEW T \in SUBSET Nat, T # {}
    PROVE  \E x \in T : \A y \in T : x <= y
  <1> DEFINE L == {p \in Nat \X Nat : p[1] < p[2]}
  <1>1. IsWellFoundedOn(L, Nat)
    BY NatLessThanWellFounded DEF OpToRel
  <1>2. \A x, y \in Nat : y < x => <<y, x>> \in L
    OBVIOUS
  <1> HIDE DEF L
  <1>3. PICK x \in T : \A y \in T : ~ (<<y, x>> \in L)
    BY <1>1, WFMin
  <1>4. ASSUME NEW y \in T PROVE x <= y
    <2>1. x \in Nat /\ y \in Nat
      OBVIOUS
    <2>2. y < x => <<y, x>> \in L
      BY <1>2, <2>1
    <2> QED
      BY <1>3, <2>1, <2>2
  <1> QED
    BY <1>4

\* The first NUL of a sequence, or its end.
TextEnd(s, e) ==
    /\ e \in 1 .. Len(s) + 1
    /\ e = Len(s) + 1 \/ s[e] = NUL
    /\ \A j \in 1 .. e - 1 : s[j] # NUL

\* There is one,
LEMMA TextEnds ==
    ASSUME NEW s \in Seq(Bytes)
    PROVE  \E e : TextEnd(s, e)
  <1> DEFINE T == {e \in 1 .. Len(s) + 1 : e = Len(s) + 1 \/ s[e] = NUL}
  <1>1. Len(s) \in Nat
    BY LenProperties
  <1>2. T \in SUBSET Nat /\ T # {}
    <2>1. Len(s) + 1 \in T
      BY <1>1
    <2> QED
      BY <1>1, <2>1
  <1>3. PICK e \in T : \A y \in T : e <= y
    <2> HIDE DEF T
    <2> QED
      BY <1>2, LeastOf
  <1>4. ASSUME NEW j \in 1 .. e - 1 PROVE s[j] # NUL
    <2>1. j \notin T
      BY <1>1, <1>3
    <2>2. j \in 1 .. Len(s) + 1
      BY <1>1, <1>3
    <2> QED
      BY <2>1, <2>2
  <1> QED
    BY <1>3, <1>4 DEF TextEnd

\* and the text is what comes before it.
LEMMA TextIs ==
    ASSUME NEW s \in Seq(Bytes), NEW e, TextEnd(s, e)
    PROVE  /\ Text(s) = SubSeq(s, 1, e - 1)
           /\ Text(s) \in Seq(Bytes) /\ Len(Text(s)) = e - 1
           /\ \A j \in 1 .. e - 1 : Text(s)[j] = s[j]
  <1> DEFINE First(i) == /\ i = Len(s) + 1 \/ s[i] = NUL
                         /\ \A j \in 1 .. i - 1 : s[j] # NUL
             end == CHOOSE i \in 1 .. Len(s) + 1 : First(i)
  <1>1. Len(s) \in Nat /\ e \in 1 .. Len(s) + 1 /\ First(e)
    BY LenProperties DEF TextEnd
  <1>2. ASSUME NEW i \in 1 .. Len(s) + 1, First(i) PROVE i = e
    <2>1. ASSUME i < e PROVE FALSE
      <3>1. i \in 1 .. e - 1 /\ i # Len(s) + 1
        BY <1>1, <2>1
      <3> QED
        BY <1>1, <1>2, <3>1
    <2>2. ASSUME e < i PROVE FALSE
      <3>1. e \in 1 .. i - 1 /\ e # Len(s) + 1
        BY <1>1, <2>2
      <3> QED
        BY <1>1, <1>2, <3>1
    <2> QED
      BY <1>1, <2>1, <2>2
  <1>3. Text(s) = SubSeq(s, 1, end - 1)
    BY DEF Text
  <1>4. end = e
    <2> HIDE DEF First
    <2> QED
      BY <1>1, <1>2
  <1> HIDE DEF end, First
  <1>5. Text(s) = SubSeq(s, 1, e - 1)
    BY <1>3, <1>4
  <1>6. \A j \in 1 .. e - 1 : s[j] \in Bytes
    BY <1>1, ElementOfSeq
  <1>7. /\ SubSeq(s, 1, e - 1) \in Seq(Bytes)
        /\ Len(SubSeq(s, 1, e - 1)) = e - 1
        /\ \A j \in 1 .. e - 1 : SubSeq(s, 1, e - 1)[j] = s[j]
    BY <1>1, <1>6, SubSeqProperties
  <1> QED
    BY <1>5, <1>7

\* All of it if there is no NUL.
LEMMA TextOfAll ==
    ASSUME NEW s \in Seq(Bytes), ~Has(s, NUL)
    PROVE  Text(s) = s
  <1>1. Len(s) \in Nat
    BY LenProperties
  <1>2. TextEnd(s, Len(s) + 1)
    BY <1>1 DEF TextEnd, Has
  <1>3. Text(s) = SubSeq(s, 1, Len(s))
    BY <1>1, <1>2, TextIs
  <1> QED
    BY <1>3, SubSeqFull

\* What has been received is a sequence of bytes.
LEMMA ReceivedIs ==
    ASSUME TypeOK
    PROVE  /\ Received \in Seq(Bytes) /\ Len(Received) = readed
           /\ \A i \in 1 .. readed : Received[i] = buf[i]
  BY Prefix DEF TypeOK, Received

\* The C string of a buffer that BufferInv describes is the text of what was
\* received.
LEMMA RequestIsText ==
    ASSUME TypeOK, BufferInv, stage = "processing"
    PROVE  Request = Text(Received)
  <1>1. /\ buf \in Seq(Bytes) /\ Len(buf) = BufSize
        /\ readed \in 0 .. BufSize - 1 /\ BufSize \in Nat
    BY BufferIsSequence, BufferAssumption DEF TypeOK
  <1>2. /\ Received \in Seq(Bytes) /\ Len(Received) = readed
        /\ \A i \in 1 .. readed : Received[i] = buf[i]
    BY ReceivedIs
  <1>3. buf[readed + 1] = NUL
    BY DEF BufferInv
  <1>4. PICK e : TextEnd(Received, e)
    BY <1>2, TextEnds
  <1>5. e \in 1 .. readed + 1
    BY <1>2, <1>4 DEF TextEnd
  <1>6. TextEnd(buf, e)
    <2>1. e \in 1 .. BufSize + 1
      BY <1>1, <1>5
    <2>2. buf[e] = NUL
      <3>1. CASE e = readed + 1
        BY <1>3, <3>1
      <3>2. CASE e # readed + 1
        <4>1. e \in 1 .. readed
          BY <1>1, <1>5, <3>2
        <4> QED
          BY <1>2, <1>4, <3>2, <4>1 DEF TextEnd
      <3> QED
        BY <3>1, <3>2
    <2>3. ASSUME NEW j \in 1 .. e - 1 PROVE buf[j] # NUL
      <3>1. j \in 1 .. readed
        BY <1>1, <1>5
      <3> QED
        BY <1>2, <1>4, <3>1 DEF TextEnd
    <2> QED
      BY <1>1, <2>1, <2>2, <2>3 DEF TextEnd
  <1>7. /\ Text(buf) \in Seq(Bytes) /\ Len(Text(buf)) = e - 1
        /\ \A j \in 1 .. e - 1 : Text(buf)[j] = buf[j]
    BY <1>1, <1>6, TextIs
  <1>8. /\ Text(Received) \in Seq(Bytes) /\ Len(Text(Received)) = e - 1
        /\ \A j \in 1 .. e - 1 : Text(Received)[j] = Received[j]
    BY <1>2, <1>4, TextIs
  <1>9. \A j \in 1 .. e - 1 : j \in 1 .. readed
    BY <1>1, <1>5
  <1>10. Text(buf) = Text(Received)
    BY <1>2, <1>7, <1>8, <1>9, SeqEqual
  <1> QED
    BY <1>10 DEF Request

----------------------------------------------------------------------------
(* One recv *)

Taken(k) == SubSeq(stream, 1, k)
RecvStores(k, b) ==
    /\ Taken(k) \in Seq(Bytes) /\ Len(Taken(k)) = k
    /\ Head(Taken(k)) = Taken(k)[1]
    /\ stream = Taken(k) \o SubSeq(stream, k + 1, Len(stream))
    /\ SubSeq(stream, k + 1, Len(stream)) \in Seq(Bytes)
    /\ b \in [Index -> Bytes]
    /\ \A i \in 1 .. readed : b[i] = buf[i]
    /\ \A i \in 1 .. k : b[readed + i] = Taken(k)[i]

\* What the buffer holds after recv has stored a chunk in it and its NUL has
\* been written: the old bytes, then the chunk.
LEMMA AfterRecv ==
    ASSUME TypeOK, BufferInv, stage = "receiving",
           NEW k \in 1 .. Len(stream), readed + k <= BufSize - 1,
           NEW b \in {Stored(Taken(k)), Terminated(Taken(k))}
    PROVE  RecvStores(k, b)
  <1> DEFINE chunk == Taken(k)
  <1>0. chunk = SubSeq(stream, 1, k)
    BY DEF Taken
  <1> HIDE DEF chunk
  <1>1. /\ stream \in Seq(Bytes) /\ readed \in 0 .. BufSize - 1
        /\ buf \in [Index -> Bytes]
    BY DEF TypeOK
  <1>2. Len(stream) \in Nat /\ k \in Int /\ k >= 1 /\ k <= Len(stream)
    BY <1>1, LenProperties
  <1>3. \A i \in 1 .. Len(stream) : stream[i] \in Bytes
    BY <1>1, ElementOfSeq
  <1>4. /\ chunk \in Seq(Bytes) /\ Len(chunk) = k
        /\ \A i \in 1 .. k : chunk[i] = stream[i]
    <2>1. \A i \in 1 .. k : stream[i] \in Bytes
      BY <1>2, <1>3
    <2> QED
      BY <1>0, <1>2, <2>1, SubSeqProperties
  <1>5. Head(chunk) = chunk[1]
    BY <1>2, <1>4
  <1>6. SubSeq(stream, k + 1, Len(stream)) \in Seq(Bytes)
    <2>1. \A i \in k + 1 .. Len(stream) : stream[i] \in Bytes
      BY <1>2, <1>3
    <2> QED
      BY <1>2, <2>1, SubSeqProperties
  <1>7. stream = chunk \o SubSeq(stream, k + 1, Len(stream))
    <2>1. k \in 1 - 1 .. Len(stream) /\ 1 \in 1 .. Len(stream) + 1
          /\ Len(stream) \in k .. Len(stream)
      BY <1>2
    <2>2. chunk \o SubSeq(stream, k + 1, Len(stream)) = SubSeq(stream, 1, Len(stream))
      BY <1>0, <1>1, <2>1, ConcatAdjacentSubSeq
    <2> QED
      BY <1>1, <2>2, SubSeqFull
  <1>8. \A i \in 1 .. k : chunk[i] \in Bytes
    BY <1>4, ElementOfSeq
  <1>9. /\ Stored(chunk) \in [Index -> Bytes]
        /\ \A i \in 1 .. readed : Stored(chunk)[i] = buf[i]
        /\ \A i \in 1 .. k : Stored(chunk)[readed + i] = chunk[i]
    BY <1>1, <1>2, <1>4, <1>8, BufferAssumption DEF Stored, Index
  <1>10. /\ Terminated(chunk) \in [Index -> Bytes]
         /\ \A i \in 1 .. readed + k : Terminated(chunk)[i] = Stored(chunk)[i]
    <2> DEFINE place == readed + 2 * Len(chunk) + 1
               array == Stored(chunk)
    <2>1. place \in Int /\ place > readed + k
      BY <1>1, <1>2, <1>4
    <2>2. Terminated(chunk) = [array EXCEPT ![place] = NUL]
      BY DEF Terminated
    <2>3. array \in [Index -> Bytes] /\ NUL \in Bytes
      BY <1>9 DEF Bytes
    <2>4. 1 .. readed + k \subseteq Index
      BY <1>1, <1>2, BufferAssumption DEF Index
    <2> HIDE DEF place, array
    <2>5. [array EXCEPT ![place] = NUL] \in [Index -> Bytes]
      BY <2>3
    <2>6. ASSUME NEW i \in 1 .. readed + k
          PROVE  [array EXCEPT ![place] = NUL][i] = array[i]
      BY <1>1, <1>2, <2>1, <2>3, <2>4
    <2> QED
      BY <2>2, <2>5, <2>6 DEF array
  <1>11. /\ b \in [Index -> Bytes]
         /\ \A i \in 1 .. readed : b[i] = buf[i]
         /\ \A i \in 1 .. k : b[readed + i] = chunk[i]
    <2>1. CASE b = Stored(chunk)
      BY <1>9, <2>1
    <2>2. CASE b = Terminated(chunk)
      <3>1. /\ b \in [Index -> Bytes]
            /\ \A i \in 1 .. readed + k : b[i] = Stored(chunk)[i]
        BY <1>10, <2>2
      <3>2. \A i \in 1 .. readed : i \in 1 .. readed + k
        BY <1>1, <1>2
      <3>3. \A i \in 1 .. k : readed + i \in 1 .. readed + k
        BY <1>1, <1>2
      <3> QED
        BY <1>9, <3>1, <3>2, <3>3
    <2> QED
      BY <2>1, <2>2 DEF chunk
  <1> QED
    BY <1>4, <1>5, <1>6, <1>7, <1>11 DEF RecvStores, chunk

\* Return writes its NUL behind the request and touches nothing of it.
LEMMA AfterReturn ==
    ASSUME NEW b \in [Index -> Bytes], NEW n \in 1 .. BufSize - 1,
           Return(b, n)
    PROVE  /\ buf' \in [Index -> Bytes]
           /\ \A i \in 1 .. n : buf'[i] = b[i]
           /\ buf'[n + 1] = NUL
           /\ stage' \in {"closed", "processing"}
           /\ stage' = "processing" => b[1] # EOT
  <1>1. n + 1 \in Index /\ 1 .. n \subseteq Index \ {n + 1}
    BY BufferAssumption DEF Index
  <1>2. NUL \in Bytes
    BY DEF Bytes
  <1> QED
    BY <1>1, <1>2 DEF Return

\* A CRLF before the first NUL of what was received is found.
LEMMA CrlfInPrefix ==
    ASSUME NEW b \in [Index -> Bytes], NEW n \in 0 .. BufSize - 1,
           HasCRLF(Text(SubSeq(b, 1, n)))
    PROVE  Found(b)
  <1> DEFINE p == SubSeq(b, 1, n)
             t == Text(p)
  <1>1. p \in Seq(Bytes) /\ Len(p) = n /\ \A i \in 1 .. n : p[i] = b[i]
    BY Prefix
  <1> HIDE DEF p
  <1>2. PICK e : TextEnd(p, e)
    BY <1>1, TextEnds
  <1>3. /\ Len(t) = e - 1 /\ \A j \in 1 .. e - 1 : t[j] = p[j] /\ p[j] # NUL
        /\ e \in 1 .. n + 1
    BY <1>1, <1>2, TextIs DEF TextEnd
  <1>4. PICK i \in 1 .. Len(t) - 1 : t[i] = CR /\ t[i + 1] = LF
    BY DEF HasCRLF, p
  <1> HIDE DEF t
  <1>5. /\ i \in 1 .. BufSize - 1
        /\ \A j \in 1 .. i + 1 : j \in 1 .. e - 1 /\ j \in 1 .. n
    BY <1>3, <1>4, BufferAssumption
  <1>6. \A j \in 1 .. i + 1 : b[j] = t[j] /\ b[j] # NUL
    BY <1>1, <1>3, <1>5
  <1>7. i \in 1 .. i + 1 /\ i + 1 \in 1 .. i + 1 /\ \A j \in 1 .. i : j \in 1 .. i + 1
    BY <1>5
  <1> QED
    BY <1>4, <1>5, <1>6, <1>7 DEF Found

\* A recv either leaves a request without a CRLF in the buffer or hands one
\* over, and appends exactly what it took from the stream.
LEMMA ReceiveStep == IInv /\ Receive => IInv'
  <1> SUFFICES ASSUME IInv, Receive PROVE IInv'
    OBVIOUS
  <1>1. TypeOK /\ BufferInv /\ SentInv /\ RegularInv /\ stage = "receiving"
    BY DEF IInv, Receive
  <1>2. PICK k \in 1 .. Len(stream) :
          /\ readed + k <= BufSize - 1
          /\ LET chunk == SubSeq(stream, 1, k)
                 b == IF Head(chunk) = EOT THEN Stored(chunk)
                                           ELSE Terminated(chunk)
             IN /\ IF \/ Head(chunk) = EOT
                      \/ readed + k = BufSize - 1
                      \/ Found(b)
                   THEN Return(b, readed + k)
                   ELSE buf' = b /\ UNCHANGED stage
                /\ regular' = (regular /\ readed = 0
                                 /\ (chunk = <<EOT>> \/ IsLine(chunk)))
          /\ readed' = readed + k
          /\ stream' = SubSeq(stream, k + 1, Len(stream))
    BY DEF Receive
  <1> DEFINE chunk == SubSeq(stream, 1, k)
             b == IF Head(chunk) = EOT THEN Stored(chunk) ELSE Terminated(chunk)
             n == readed + k
  <1>3. /\ b = Stored(chunk) \/ b = Terminated(chunk)
        /\ IF Head(chunk) = EOT \/ n = BufSize - 1 \/ Found(b)
           THEN Return(b, n)
           ELSE buf' = b /\ stage' = stage
        /\ regular' = (regular /\ readed = 0 /\ (chunk = <<EOT>> \/ IsLine(chunk)))
        /\ n <= BufSize - 1 /\ readed' = n
        /\ stream' = SubSeq(stream, k + 1, Len(stream))
    BY <1>2
  <1>4. /\ open' = open /\ options_' = options_ /\ reply' = reply
        /\ sent' = sent /\ done' = done
    BY DEF Receive
  <1>5. /\ chunk \in Seq(Bytes) /\ Len(chunk) = k /\ Head(chunk) = chunk[1]
        /\ stream = chunk \o stream'
        /\ stream' \in Seq(Bytes)
        /\ b \in [Index -> Bytes]
        /\ \A i \in 1 .. readed : b[i] = buf[i]
        /\ \A i \in 1 .. k : b[readed + i] = chunk[i]
    <2> HIDE DEF chunk, b
    <2>1. chunk = Taken(k)
      BY DEF chunk, Taken
    <2>2. readed + k <= BufSize - 1 /\ b \in {Stored(Taken(k)), Terminated(Taken(k))}
      BY <1>3, <2>1
    <2>3. RecvStores(k, b)
      BY <1>1, <2>2, AfterRecv
    <2> QED
      BY <1>3, <2>1, <2>3 DEF RecvStores
  <1>6. /\ stream \in Seq(Bytes) /\ readed \in 0 .. BufSize - 1
        /\ buf \in [Index -> Bytes]
        /\ open \in BOOLEAN /\ options_ \in Formats
        /\ reply \in {"none", "ok", "err"} /\ regular \in BOOLEAN
        /\ sent \in Seq(Bytes) /\ done \in Seq(Bytes)
    BY <1>1 DEF TypeOK
  <1>7. k \in Nat \ {0}
    BY <1>6, LenProperties
  <1>8. n \in 1 .. BufSize - 1
    BY <1>3, <1>6, <1>7, BufferAssumption
  <1> HIDE DEF chunk, b, n
  <1>9. /\ buf' \in [Index -> Bytes]
        /\ \A i \in 1 .. n : buf'[i] = b[i]
        /\ stage' \in {"receiving", "closed", "processing"}
        /\ stage' = "processing" => buf'[n + 1] = NUL /\ b[1] # EOT
        /\ stage' = "receiving" => Head(chunk) # EOT /\ ~Found(b) /\ buf' = b
    <2>1. CASE Head(chunk) = EOT \/ n = BufSize - 1 \/ Found(b)
      BY <1>3, <1>5, <1>8, <2>1, AfterReturn
    <2>2. CASE ~(Head(chunk) = EOT \/ n = BufSize - 1 \/ Found(b))
      BY <1>1, <1>3, <1>5, <2>2
    <2> QED
      BY <2>1, <2>2
  <1>10. TypeOK'
    <2>1. regular' \in BOOLEAN
      BY <1>3
    <2>2. readed' \in 0 .. BufSize - 1
      BY <1>3, <1>8, BufferAssumption
    <2> QED
      BY <1>4, <1>5, <1>6, <1>9, <2>1, <2>2 DEF TypeOK
  <1>11. BufferInv'
    BY <1>3, <1>5, <1>9 DEF BufferInv
  <1>12. Received' = SubSeq(buf', 1, n) /\ Received' = Received \o chunk
    <2>1. Received' = SubSeq(buf', 1, n)
      BY <1>3 DEF Received
    <2>2. SubSeq(buf', 1, n) = SubSeq(buf, 1, readed) \o chunk
      <3>1. /\ n = readed + Len(chunk)
            /\ n <= BufSize - 1
            /\ \A i \in 1 .. readed : i \in 1 .. n
            /\ \A i \in 1 .. k : readed + i \in 1 .. n
        BY <1>5, <1>6, <1>7, <1>8 DEF n
      <3>2. /\ \A i \in 1 .. readed : buf'[i] = buf[i]
            /\ \A i \in 1 .. Len(chunk) : buf'[readed + i] = chunk[i]
        BY <1>5, <1>9, <3>1
      <3>3. ASSUME NEW c, c = buf'
            PROVE  SubSeq(c, 1, readed + Len(chunk))
                     = SubSeq(buf, 1, readed) \o chunk
        <4>1. c \in [Index -> Bytes] /\ readed + Len(chunk) <= BufSize - 1
          BY <1>9, <3>1, <3>3
        <4>2. /\ \A i \in 1 .. readed : c[i] = buf[i]
              /\ \A i \in 1 .. Len(chunk) : c[readed + i] = chunk[i]
          BY <3>2, <3>3
        <4> QED
          BY <1>5, <1>6, <3>2, <4>1, <4>2, PrefixGrows
      <3> QED
        BY <3>1, <3>3
    <2> QED
      BY <2>1, <2>2 DEF Received
  <1>13. SentInv'
    <2> DEFINE old == Received
    <2>1. old \in Seq(Bytes) /\ sent = (done \o old) \o stream
      BY <1>1, ReceivedIs DEF SentInv
    <2> HIDE DEF old
    <2>2. ASSUME NEW rest \in Seq(Bytes), stream = chunk \o rest
          PROVE  sent = (done \o (old \o chunk)) \o rest
      <3>0. /\ done \in Seq(Bytes) /\ old \in Seq(Bytes)
            /\ chunk \in Seq(Bytes) /\ rest \in Seq(Bytes)
        BY <1>5, <1>6, <2>1
      <3>1. (done \o old) \o (chunk \o rest) = (done \o (old \o chunk)) \o rest
        BY <3>0, Regroup, SMTT(60)
      <3> QED
        BY <2>1, <2>2, <3>1
    <2> QED
      BY <1>4, <1>5, <1>12, <2>2 DEF SentInv, old
  <1>14. NoLineHeldBack'
    <2>1. SUFFICES ASSUME stage' = "receiving", HasCRLF(Text(SubSeq(b, 1, n)))
                   PROVE  FALSE
      BY <1>9, <1>12 DEF NoLineHeldBack
    <2>2. n \in 0 .. BufSize - 1
      BY <1>8, BufferAssumption
    <2>3. Found(b)
      BY <1>5, <2>1, <2>2, CrlfInPrefix
    <2> QED
      BY <1>9, <2>1, <2>3
  <1>15. RegularInv'
    <2> SUFFICES ASSUME regular', stage' # "closed"
                 PROVE  stage' = "processing" /\ IsLine(Received')
      BY DEF RegularInv
    <2>1. readed = 0 /\ (chunk = <<EOT>> \/ IsLine(chunk))
      BY <1>3
    <2>2. Received' = chunk
      <3>1. Received = <<>>
        BY <2>1, SubSeqEmpty DEF Received
      <3> QED
        BY <1>5, <1>12, <3>1, ConcatEmptySeq
    <2>3. chunk # <<EOT>>
      <3>1. b[1] = chunk[1]
        BY <1>5, <1>7, <2>1
      <3> QED
        BY <1>5, <1>9, <3>1
    <2>4. IsLine(chunk) /\ HasCRLF(chunk) /\ ~Has(chunk, NUL)
      BY <2>1, <2>3 DEF IsLine
    <2>5. HasCRLF(Text(Received'))
      BY <1>5, <2>2, <2>4, TextOfAll
    <2>6. stage' # "receiving"
      BY <1>14, <2>5 DEF NoLineHeldBack
    <2> QED
      BY <1>9, <2>2, <2>4, <2>6
  <1> QED
    BY <1>10, <1>11, <1>13, <1>14, <1>15 DEF IInv

\* The end of the stream hands over what is in the buffer, and nothing of a
\* regular client is.
LEMMA EndStep == IInv /\ ReceiveEnd => IInv'
  <1> SUFFICES ASSUME IInv, ReceiveEnd PROVE IInv'
    OBVIOUS
  <1>1. /\ TypeOK /\ BufferInv /\ SentInv /\ RegularInv /\ NoLineHeldBack
        /\ stage = "receiving"
    BY DEF IInv, ReceiveEnd
  <1>2. /\ stream' = stream /\ open' = open /\ readed' = readed
        /\ options_' = options_ /\ reply' = reply /\ sent' = sent
        /\ done' = done /\ regular' = regular
        /\ IF readed = 0 THEN stage' = "closed" /\ buf' = buf
                        ELSE Return(buf, readed)
    BY DEF ReceiveEnd
  <1>3. buf \in [Index -> Bytes] /\ readed \in 0 .. BufSize - 1
    BY <1>1 DEF TypeOK
  <1>4. CASE readed = 0
    BY <1>1, <1>2, <1>4
    DEF IInv, TypeOK, BufferInv, SentInv, NoLineHeldBack, RegularInv
  <1>5. CASE readed # 0
    <2>1. /\ buf' \in [Index -> Bytes]
          /\ \A i \in 1 .. readed : buf'[i] = buf[i]
          /\ buf'[readed + 1] = NUL
          /\ stage' \in {"closed", "processing"}
      <3>1. readed \in 1 .. BufSize - 1 /\ Return(buf, readed)
        BY <1>2, <1>3, <1>5, BufferAssumption
      <3> QED
        BY <1>3, <3>1, AfterReturn
    <2>2. TypeOK'
      <3>1. regular' \in BOOLEAN
        BY <1>1, <1>2 DEF TypeOK
      <3> QED
        BY <1>1, <1>2, <2>1, <3>1 DEF TypeOK
    <2>3. BufferInv'
      BY <1>1, <1>2, <2>1 DEF BufferInv
    <2>4. Received' = Received
      <3>1. ASSUME NEW c \in [Index -> Bytes], \A i \in 1 .. readed : c[i] = buf[i]
            PROVE  SubSeq(c, 1, readed) = SubSeq(buf, 1, readed)
        BY <1>3, <3>1, Prefix, SeqEqual
      <3> QED
        BY <1>2, <2>1, <3>1 DEF Received
    <2>5. SentInv'
      BY <1>1, <1>2, <2>4 DEF SentInv
    <2>6. ~regular
      BY <1>1, <1>5 DEF RegularInv
    <2> QED
      BY <1>2, <2>1, <2>2, <2>3, <2>5, <2>6 DEF IInv, NoLineHeldBack, RegularInv
  <1> QED
    BY <1>4, <1>5

\* A response has a status and leaves options_ or sets one of the formats.
LEMMA OutcomesType ==
    ASSUME NEW s, options_ \in Formats,
           FormatsIn(s) # {} => (CHOOSE f \in FormatsIn(s) : TRUE) \in Formats
    PROVE  Outcomes(s) \subseteq [status : {"ok", "err"}, options : Formats]
  <1> DEFINE word == IF Starts(s) = {} THEN <<>> ELSE Token(s, FirstStart(s))
             one == ArgumentCount(s) = 1
             err == {[status |-> "err", options |-> options_]}
             same == {[status |-> "ok", options |-> options_]}
             chosen == {[status |-> "ok",
                         options |-> CHOOSE f \in FormatsIn(s) : TRUE]}
             versionAsked == word = <<"v">> /\ one /\ \E a \in Arguments(s) : Head(a) = "1"
             formatAsked == word = <<"format">> /\ one /\ FormatsIn(s) # {}
             execAsked == word = <<"exec">> /\ ArgumentCount(s) >= 1
             empty == Starts(s) = {}
             Answers == [status : {"ok", "err"}, options : Formats]
  <1>1. err \subseteq Answers /\ same \subseteq Answers
    OBVIOUS
  <1>2. formatAsked => chosen \subseteq Answers
    OBVIOUS
  <1>3. Outcomes(s) =
          CASE versionAsked -> same
            [] formatAsked -> chosen
            [] execAsked -> same \union err
            [] empty -> same \union err
            [] OTHER -> err
    BY Zenon DEF Outcomes
  <1> HIDE DEF word, one, err, same, chosen, versionAsked, formatAsked, execAsked,
        empty, Answers
  <1>4. \/ formatAsked /\ Outcomes(s) = chosen
        \/ Outcomes(s) \in {same, same \union err, err}
    BY <1>3, Zenon
  <1> QED
    BY <1>1, <1>2, <1>4 DEF Answers

\* Nothing has no text.
LEMMA TextOfNothing == ~HasCRLF(Text(<<>>))
  <1>1. <<>> \in Seq(Bytes) /\ ~Has(<<>>, NUL)
    BY EmptySeq DEF Has
  <1>2. Text(<<>>) = <<>>
    BY <1>1, TextOfAll
  <1> QED
    BY <1>2 DEF HasCRLF

\* processRequest takes the whole request and leaves an empty buffer behind,
\* whatever it writes into it.
LEMMA ProcessStep == IInv /\ Process => IInv'
  <1> SUFFICES ASSUME IInv, Process PROVE IInv'
    OBVIOUS
  <1>1. TypeOK /\ BufferInv /\ SentInv /\ stage = "processing"
    BY DEF IInv, Process
  <1>3. PICK outcome \in Outcomes(Request) :
          options_' = outcome.options /\ reply' = outcome.status
    BY DEF Process
  <1>4. /\ stream' = stream /\ open' = open /\ sent' = sent /\ regular' = regular
        /\ buf' = Scrubbed(Request) /\ done' = done \o Received /\ readed' = 0
        /\ stage' \in {"receiving", "closed"}
    BY DEF Process
  <1>5. /\ buf \in [Index -> Bytes] /\ readed \in 0 .. BufSize - 1
        /\ stream \in Seq(Bytes) /\ sent \in Seq(Bytes) /\ done \in Seq(Bytes)
    BY <1>1 DEF TypeOK
  <1>6. Received \in Seq(Bytes)
    BY <1>1, ReceivedIs
  <1>7. TypeOK'
    <2>1. buf' \in [Index -> Bytes]
      BY <1>4, <1>5 DEF Scrubbed, Bytes
    <2>2. done' \in Seq(Bytes)
      BY <1>4, <1>5, <1>6, ConcatProperties
    <2>3. options_' \in Formats /\ reply' \in {"ok", "err"}
      <3>1. options_ \in Formats
        BY <1>1 DEF TypeOK
      <3>2. FormatsIn(Request) \subseteq Formats
        BY DEF FormatsIn
      <3>3. FormatsIn(Request) # {} =>
              (CHOOSE f \in FormatsIn(Request) : TRUE) \in Formats
        BY <3>2
      <3>4. outcome \in [status : {"ok", "err"}, options : Formats]
        BY <1>3, <3>1, <3>3, OutcomesType
      <3> QED
        BY <1>3, <3>4
    <2>4. readed' \in 0 .. BufSize - 1
      BY <1>4, BufferAssumption
    <2>5. open' \in BOOLEAN /\ regular' \in BOOLEAN
      BY <1>1, <1>4 DEF TypeOK
    <2> QED
      BY <1>4, <1>5, <2>1, <2>2, <2>3, <2>4, <2>5 DEF TypeOK
  <1>8. Received' = <<>>
    BY <1>4, SubSeqEmpty DEF Received
  <1>9. SentInv'
    <2>1. sent = (done \o Received) \o stream
      BY <1>1 DEF SentInv
    <2>2. (done \o Received) \o <<>> = done \o Received
      <3>1. done \o Received \in Seq(Bytes)
        BY <1>5, <1>6, ConcatProperties
      <3> QED
        BY <3>1, ConcatEmptySeq
    <2> QED
      BY <1>4, <1>8, <2>1, <2>2 DEF SentInv
  <1>10. ~HasCRLF(Text(<<>>))
    BY TextOfNothing
  <1> QED
    BY <1>4, <1>7, <1>8, <1>9, <1>10
    DEF IInv, BufferInv, NoLineHeldBack, RegularInv

\* The client only adds to the stream.
LEMMA SendStep == IInv /\ Send => IInv'
  <1> SUFFICES ASSUME IInv, Send PROVE IInv'
    OBVIOUS
  <1>1. PICK input \in Inputs : stream' = stream \o input /\ sent' = sent \o input
    BY DEF Send
  <1>2. /\ stage' = stage /\ open' = open /\ buf' = buf /\ readed' = readed
        /\ options_' = options_ /\ reply' = reply /\ done' = done
        /\ regular' = regular
    BY DEF Send
  <1>3. TypeOK /\ BufferInv /\ SentInv /\ RegularInv /\ NoLineHeldBack
    BY DEF IInv
  <1>4. /\ input \in Seq(Bytes) /\ stream \in Seq(Bytes)
        /\ sent \in Seq(Bytes) /\ done \in Seq(Bytes)
    BY <1>3, InputsAssumption DEF TypeOK
  <1>5. stream' \in Seq(Bytes) /\ sent' \in Seq(Bytes)
    BY <1>1, <1>4, ConcatProperties
  <1>6. TypeOK'
    BY <1>2, <1>3, <1>5 DEF TypeOK
  <1>7. Received' = Received
    BY <1>2 DEF Received
  <1>8. SentInv'
    <2> SUFFICES ASSUME stage # "closed" PROVE SentInv'
      BY <1>2 DEF SentInv
    <2> DEFINE r == Received
               handed == done \o r
    <2>1. r \in Seq(Bytes)
      BY <1>3, ReceivedIs
    <2>2. sent = handed \o stream
      BY <1>3 DEF SentInv
    <2>3. handed \in Seq(Bytes)
      BY <1>4, <2>1, ConcatProperties
    <2> HIDE DEF r, handed
    <2>4. (handed \o stream) \o input = handed \o (stream \o input)
      BY <1>4, <2>3, ConcatAssociative
    <2> QED
      BY <1>1, <1>2, <1>7, <2>2, <2>4 DEF SentInv, r, handed
  <1>9. BufferInv' /\ RegularInv' /\ NoLineHeldBack'
    BY <1>2, <1>3, <1>7 DEF BufferInv, RegularInv, NoLineHeldBack
  <1> QED
    BY <1>6, <1>8, <1>9 DEF IInv

\* Every step keeps the invariant.
LEMMA ReaderStep == IInv /\ [Next]_vars => IInv'
  <1>1. IInv /\ (Finish \/ ReceiveFails \/ UNCHANGED vars) => IInv'
    <2> SUFFICES ASSUME IInv, Finish \/ ReceiveFails \/ UNCHANGED vars
                 PROVE  IInv'
      OBVIOUS
    <2>1. /\ stream' = stream /\ buf' = buf /\ readed' = readed
          /\ options_' = options_ /\ reply' = reply /\ sent' = sent
          /\ done' = done /\ regular' = regular
          /\ stage' = stage \/ stage' = "closed"
      BY DEF Finish, ReceiveFails, vars
    <2>2. open' \in BOOLEAN
      BY DEF IInv, TypeOK, Finish, ReceiveFails, vars
    <2>3. Received' = Received
      BY <2>1 DEF Received
    <2>4. TypeOK'
      BY <2>1, <2>2 DEF IInv, TypeOK
    <2>5. BufferInv' /\ SentInv' /\ NoLineHeldBack' /\ RegularInv'
      BY <2>1, <2>3 DEF IInv, BufferInv, SentInv, NoLineHeldBack, RegularInv
    <2> QED
      BY <2>4, <2>5 DEF IInv
  <1>2. Ended => UNCHANGED vars
    BY DEF Ended
  <1> QED
    BY <1>1, <1>2, ReceiveStep, EndStep, ProcessStep, SendStep DEF Next

LEMMA ReaderInit == Init => IInv
  <1> SUFFICES ASSUME Init PROVE IInv
    OBVIOUS
  <1>1. TypeOK
    BY InputsAssumption, BufferAssumption, EmptySeq DEF Init, TypeOK, Formats
  <1>2. Received = <<>>
    BY SubSeqEmpty DEF Init, Received
  <1>3. SentInv
    BY <1>2 DEF Init, SentInv
  <1>4. NoLineHeldBack
    BY <1>2, TextOfNothing DEF NoLineHeldBack
  <1> QED
    BY <1>1, <1>3, <1>4 DEF IInv, Init, BufferInv, RegularInv

LEMMA ReaderInvariant == Spec => []IInv
  BY ReaderInit, ReaderStep, PTL DEF Spec

----------------------------------------------------------------------------
(* The words of a line *)

\* What a line looks like.
Ruled(l) ==
    LET n == Len(l)
    IN /\ n \in Nat /\ n >= 2
       /\ l[n - 1] = CR /\ l[n] = LF
       /\ \A i \in 1 .. n - 2 : ~ (l[i] = CR /\ l[i + 1] = LF)

LEMMA LineIsRuled ==
    ASSUME NEW l \in Seq(Bytes), IsLine(l)
    PROVE  Ruled(l)
  <1> DEFINE n == Len(l)
             start == SubSeq(l, 1, n - 1)
  <1>1. n \in Nat
    BY LenProperties
  <1>2. PICK i \in 1 .. n - 1 : l[i] = CR /\ l[i + 1] = LF
    BY DEF IsLine, HasCRLF
  <1>3. /\ Len(start) = n - 1
        /\ \A j \in 1 .. n - 1 : start[j] = l[j]
    <2>1. \A j \in 1 .. n - 1 : l[j] \in Bytes
      BY <1>1, ElementOfSeq
    <2>2. n - 1 >= 0
      BY <1>1, <1>2
    <2> QED
      BY <1>1, <2>1, <2>2, SubSeqProperties
  <1>4. ~ HasCRLF(start)
    BY DEF IsLine
  <1> HIDE DEF start
  <1>5. \A j \in 1 .. n - 2 : ~ (l[j] = CR /\ l[j + 1] = LF)
    <2>1. \A j \in 1 .. n - 2 : ~ (start[j] = CR /\ start[j + 1] = LF)
      BY <1>1, <1>3, <1>4 DEF HasCRLF
    <2>2. \A j \in 1 .. n - 2 : j \in 1 .. n - 1 /\ j + 1 \in 1 .. n - 1
      BY <1>1
    <2> QED
      BY <1>3, <2>1, <2>2
  <1> HIDE DEF n
  <1>6. i = n - 1
    BY <1>1, <1>2, <1>5
  <1>7. n >= 2 /\ l[n - 1] = CR /\ l[n] = LF
    BY <1>1, <1>2, <1>6
  <1> QED
    BY <1>1, <1>5, <1>7 DEF Ruled, n

\* Where strtok_r ends a token, and where the CRLF in it is cut off.
EndsAt(s, i, e) ==
    /\ e \in i + 1 .. Len(s) + 1
    /\ e = Len(s) + 1 \/ s[e] = SP
    /\ \A l \in i .. e - 1 : s[l] # SP
IsCut(s, e, l) == l + 1 < e /\ s[l] = CR /\ s[l + 1] = LF
CutAt(s, i, e, c) ==
    /\ c \in i .. e
    /\ c = e \/ IsCut(s, e, c)
    /\ \A l \in i .. c - 1 : ~ IsCut(s, e, l)

\* Both places exist for the start of a token.
LEMMA TokenEnds ==
    ASSUME NEW s \in Seq(Bytes), NEW i \in 1 .. Len(s), s[i] # SP
    PROVE  EndsAt(s, i, End(s, i)) /\ CutAt(s, i, End(s, i), Cut(s, i))
  <1> DEFINE n == Len(s)
  <1>0. n \in Nat /\ i \in Nat /\ 1 <= i /\ i <= n
    BY LenProperties
  <1>1. \E e \in i + 1 .. n + 1 : EndsAt(s, i, e)
    <2> DEFINE T == {j \in i + 1 .. n + 1 : j = n + 1 \/ s[j] = SP}
    <2>1. T \in SUBSET Nat /\ n + 1 \in T
      BY <1>0
    <2> HIDE DEF T
    <2>2. PICK e \in T : \A y \in T : e <= y
      BY <2>1, LeastOf
    <2>3. e \in i + 1 .. n + 1 /\ (e = n + 1 \/ s[e] = SP)
      BY DEF T
    <2>4. ASSUME NEW l \in i .. e - 1 PROVE s[l] # SP
      <3>1. CASE l = i
        BY <3>1
      <3>2. CASE l # i
        <4>1. l \in i + 1 .. n + 1 /\ ~ (e <= l)
          BY <1>0, <2>3, <3>2
        <4>2. l \notin T
          BY <2>2, <4>1
        <4> QED
          BY <4>1, <4>2 DEF T
      <3> QED
        BY <3>1, <3>2
    <2> QED
      BY <2>3, <2>4 DEF EndsAt
  <1>2. End(s, i) = CHOOSE e \in i + 1 .. n + 1 : EndsAt(s, i, e)
    BY DEF End, EndsAt
  <1>3. EndsAt(s, i, End(s, i))
    BY <1>1, <1>2
  <1> DEFINE e == End(s, i)
  <1>4. e \in Nat /\ i <= e
    BY <1>0, <1>3 DEF EndsAt
  <1> HIDE DEF e
  <1>5. \E c \in i .. e : CutAt(s, i, e, c)
    <2> DEFINE T == {j \in i .. e : j = e \/ IsCut(s, e, j)}
    <2>1. T \in SUBSET Nat /\ e \in T
      BY <1>0, <1>4
    <2> HIDE DEF T
    <2>2. PICK c \in T : \A y \in T : c <= y
      BY <2>1, LeastOf
    <2>3. c \in i .. e /\ (c = e \/ IsCut(s, e, c))
      BY DEF T
    <2>4. ASSUME NEW l \in i .. c - 1 PROVE ~ IsCut(s, e, l)
      <3>1. l \in i .. e /\ ~ (c <= l)
        BY <1>0, <1>4, <2>3
      <3>2. l \notin T
        BY <2>2, <3>1
      <3> QED
        BY <3>1, <3>2 DEF T
    <2> QED
      BY <2>3, <2>4 DEF CutAt
  <1>6. Cut(s, i) = CHOOSE c \in i .. e : CutAt(s, i, e, c)
    BY DEF Cut, CutAt, IsCut, e
  <1>7. CutAt(s, i, e, Cut(s, i))
    BY <1>5, <1>6
  <1> QED
    BY <1>3, <1>7 DEF e

LEMMA OneByte ==
    ASSUME NEW t \in Seq(Bytes), Len(t) = 1
    PROVE  t = <<t[1]>>
  <1>1. t[1] \in Bytes
    <2>1. 1 \in 1 .. Len(t)
      OBVIOUS
    <2> QED
      BY <2>1, ElementOfSeq
  <1>2. <<t[1]>> \in Seq(Bytes) /\ Len(<<t[1]>>) = 1 /\ <<t[1]>>[1] = t[1]
    BY <1>1
  <1>3. \A j \in 1 .. Len(t) : t[j] = <<t[1]>>[j]
    BY <1>2
  <1> QED
    BY <1>2, <1>3, SeqEqual

\* A token is what is between its start and its cut.
LEMMA TokenIs ==
    ASSUME NEW s \in Seq(Bytes), NEW i \in 1 .. Len(s), s[i] # SP
    PROVE  /\ Token(s, i) = <<>> <=> Cut(s, i) = i
           /\ \A w : Token(s, i) = <<w>> <=> Cut(s, i) = i + 1 /\ s[i] = w
  <1> DEFINE c == Cut(s, i)
             t == Token(s, i)
  <1>1. EndsAt(s, i, End(s, i)) /\ CutAt(s, i, End(s, i), c)
    BY TokenEnds
  <1>2. Len(s) \in Nat
    BY LenProperties
  <1>3. c \in Int /\ i <= c /\ c <= Len(s) + 1
    BY <1>1, <1>2 DEF EndsAt, CutAt
  <1>4. t = SubSeq(s, i, c - 1)
    BY DEF Token
  <1>5. \A j \in i .. c - 1 : s[j] \in Bytes
    BY <1>2, <1>3, ElementOfSeq
  <1> HIDE DEF c, t
  <1>6. /\ t \in Seq(Bytes) /\ Len(t) = c - i
        /\ \A j \in 1 .. c - i : t[j] = s[i + j - 1]
    BY <1>2, <1>3, <1>4, <1>5, SubSeqProperties
  <1>7. t = <<>> <=> c = i
    BY <1>3, <1>6, EmptySeq
  <1>8. ASSUME NEW w PROVE t = <<w>> <=> c = i + 1 /\ s[i] = w
    <2>1. ASSUME t = <<w>> PROVE c = i + 1 /\ s[i] = w
      <3>1. Len(t) = 1 /\ t[1] = w
        BY <2>1
      <3>2. Len(t) = c - i
        BY <1>6
      <3>3. c - i = 1
        BY <3>1, <3>2
      <3>4. c = i + 1 /\ i + 1 - 1 = i
        BY <1>3, <3>3
      <3>5. t[1] = s[i + 1 - 1]
        BY <1>6, <3>3
      <3> QED
        BY <3>1, <3>4, <3>5
    <2>2. ASSUME c = i + 1, s[i] = w PROVE t = <<w>>
      <3>1. c - i = 1 /\ i + 1 - 1 = i
        BY <1>3, <2>2
      <3>2. Len(t) = 1 /\ t[1] = w
        BY <1>6, <2>2, <3>1
      <3>3. t = <<t[1]>>
        BY <1>6, <3>2, OneByte
      <3> QED
        BY <3>2, <3>3
    <2> QED
      BY <2>1, <2>2
  <1> QED
    BY <1>7, <1>8 DEF c, t

\* In a line: where a token is empty, and where it is one of some words.
LEMMA TokenOfLine ==
    ASSUME NEW s \in Seq(Bytes), Ruled(s), NEW i \in 1 .. Len(s), s[i] # SP
    PROVE  /\ Token(s, i) = <<>> <=> i = Len(s) - 1
           /\ \A w \in Bytes \ {SP, CR, LF} :
                 Token(s, i) = <<w>> <=>
                    /\ i <= Len(s) - 2 /\ s[i] = w
                    /\ i + 1 = Len(s) - 1 \/ s[i + 1] = SP
  <1> DEFINE n == Len(s)
             e == End(s, i)
             c == Cut(s, i)
  <1>1. EndsAt(s, i, e) /\ CutAt(s, i, e, c)
    BY TokenEnds
  <1>2. /\ n \in Nat /\ n >= 2 /\ s[n - 1] = CR /\ s[n] = LF
        /\ \A j \in 1 .. n - 2 : ~ (s[j] = CR /\ s[j + 1] = LF)
        /\ CR # SP /\ LF # SP /\ CR # LF
    BY DEF Ruled, CR, LF, SP
  <1>3. /\ e \in Int /\ i + 1 <= e /\ e <= n + 1
        /\ e = n + 1 \/ s[e] = SP
        /\ \A l \in i .. e - 1 : s[l] # SP
    BY <1>1, <1>2 DEF EndsAt
  <1>4. /\ c \in Int /\ i <= c /\ c <= e
        /\ c = e \/ IsCut(s, e, c)
        /\ \A l \in i .. c - 1 : ~ IsCut(s, e, l)
    BY <1>1, <1>3 DEF CutAt
  <1> HIDE DEF n, e, c
  <1>5. \A l \in 1 .. n : IsCut(s, e, l) <=> l = n - 1 /\ e = n + 1
    BY <1>2, <1>3 DEF IsCut
  <1>6. i \in Int /\ 1 <= i /\ i <= n
    BY <1>2 DEF n
  <1>7. c = i <=> i = n - 1
    <2>1. ASSUME c = i PROVE i = n - 1
      <3>1. IsCut(s, e, i)
        BY <1>3, <1>4, <1>6, <2>1
      <3> QED
        BY <1>5, <1>6, <3>1
    <2>2. ASSUME i = n - 1 PROVE c = i
      <3>1. e = n + 1
        BY <1>2, <1>3, <1>6, <2>2
      <3>2. IsCut(s, e, i)
        BY <1>5, <1>6, <2>2, <3>1
      <3> QED
        BY <1>4, <1>6, <3>2
    <2> QED
      BY <2>1, <2>2
  <1>8. ASSUME NEW w \in Bytes \ {SP, CR, LF}, s[i] = w
        PROVE  c = i + 1 <=> i <= n - 2 /\ (i + 1 = n - 1 \/ s[i + 1] = SP)
    <2>0. i <= n - 2
      BY <1>2, <1>6, <1>8
    <2>1. ASSUME c = i + 1 PROVE i + 1 = n - 1 \/ s[i + 1] = SP
      <3>1. CASE c = e
        BY <1>2, <1>3, <1>6, <2>0, <2>1, <3>1
      <3>2. CASE IsCut(s, e, c)
        BY <1>2, <1>5, <1>6, <2>0, <2>1, <3>2
      <3> QED
        BY <1>4, <3>1, <3>2
    <2>2. ASSUME i + 1 = n - 1 PROVE c = i + 1
      <3>1. e = n + 1
        BY <1>2, <1>3, <1>6, <1>8, <2>2
      <3>2. IsCut(s, e, n - 1)
        BY <1>2, <1>5, <3>1
      <3>3. c <= n - 1
        BY <1>2, <1>4, <1>6, <2>2, <3>2
      <3>4. c # i
        BY <1>7, <1>2, <1>6, <2>2
      <3> QED
        BY <1>2, <1>4, <1>6, <2>2, <3>3, <3>4
    <2>3. ASSUME s[i + 1] = SP PROVE c = i + 1
      <3>1. e = i + 1
        BY <1>3, <1>6, <2>3
      <3>2. c # i
        BY <1>2, <1>6, <1>7, <2>0
      <3> QED
        BY <1>4, <1>6, <3>1, <3>2
    <2> QED
      BY <2>0, <2>1, <2>2, <2>3
  <1>9. /\ Token(s, i) = <<>> <=> c = i
        /\ \A w : Token(s, i) = <<w>> <=> c = i + 1 /\ s[i] = w
    BY TokenIs DEF c
  <1> QED
    BY <1>7, <1>8, <1>9 DEF n

----------------------------------------------------------------------------
(* The lines that ask for a format *)

\* What makes processRequest set the format.
FormatAsked(s) ==
    /\ Starts(s) # {} /\ Token(s, FirstStart(s)) = <<"format">>
    /\ ArgumentCount(s) = 1 /\ FormatsIn(s) # {}

LEMMA WordsAre == "format" \in Bytes \ {SP, CR, LF} /\ Formats \subseteq Bytes \ {SP, CR, LF}
                  /\ CR # SP /\ LF # SP /\ CR # LF
                  /\ "format" \notin Formats
  BY DEF Bytes, Formats, SP, CR, LF

LEMMA FirstStartIs ==
    ASSUME NEW s \in Seq(Bytes), Starts(s) # {}
    PROVE  FirstStart(s) \in Starts(s) /\ \A j \in Starts(s) : FirstStart(s) <= j
  <1>1. Starts(s) \in SUBSET Nat
    BY LenProperties DEF Starts
  <1>2. \E x \in Starts(s) : \A j \in Starts(s) : x <= j
    BY <1>1, LeastOf
  <1> QED
    BY <1>2 DEF FirstStart

LEMMA StartsAre ==
    ASSUME NEW s, NEW i
    PROVE  i \in Starts(s) <=> /\ i \in 1 .. Len(s) /\ s[i] # SP
                               /\ i = 1 \/ s[i - 1] = SP
  BY DEF Starts

\* The one argument of a line.
LEMMA OneArgument ==
    ASSUME NEW s \in Seq(Bytes)
    PROVE  ArgumentCount(s) = 1 <=> \E q : ArgumentStarts(s) = {q}
  <1>1. ArgumentStarts(s) \subseteq 1 .. Len(s)
    BY DEF ArgumentStarts, Starts
  <1>2. IsFiniteSet(1 .. Len(s))
    BY LenProperties, FS_Interval
  <1>3. IsFiniteSet(ArgumentStarts(s))
    BY <1>1, <1>2, FS_Subset
  <1> QED
    BY <1>3, FS_Singleton DEF ArgumentCount

\* A request that sets the format asks for it.
LEMMA AskedIsAsking ==
    ASSUME NEW s \in Seq(Bytes), Ruled(s), FormatAsked(s), NEW f \in FormatsIn(s)
    PROVE  AsksFor(s, f)
  <1> DEFINE n == Len(s)
             p == FirstStart(s)
  <1>1. p \in Starts(s) /\ \A j \in Starts(s) : p <= j
    BY FirstStartIs DEF FormatAsked
  <1>2. PICK q : ArgumentStarts(s) = {q}
    BY OneArgument DEF FormatAsked
  <1>3. f \in Formats /\ <<f>> \in Arguments(s)
    BY DEF FormatsIn
  <1>4. /\ q \in Starts(s) /\ q # p /\ Token(s, q) = <<f>>
        /\ \A i \in Starts(s) : i \in {p, q} \/ Token(s, i) = <<>>
    BY <1>2, <1>3 DEF Arguments, ArgumentStarts
  <1>5. Token(s, p) = <<"format">>
    BY DEF FormatAsked
  <1> HIDE DEF p
  <1>6. /\ n \in Nat /\ n >= 2
        /\ \A i \in Starts(s) : i \in Nat /\ 1 <= i /\ i <= n
        /\ \A i \in Starts(s) : s[i] # SP /\ i \in 1 .. n
    BY StartsAre DEF Ruled
  <1>7. /\ p <= n - 2 /\ s[p] = "format" /\ (p + 1 = n - 1 \/ s[p + 1] = SP)
    BY <1>1, <1>5, <1>6, TokenOfLine, WordsAre
  <1>8. /\ q <= n - 2 /\ s[q] = f /\ (q + 1 = n - 1 \/ s[q + 1] = SP)
    BY <1>3, <1>4, <1>6, TokenOfLine, WordsAre
  <1>9. p + 1 < q
    <2>1. p < q
      BY <1>1, <1>4, <1>6
    <2>2. q # 1
      BY <1>1, <1>6, <2>1
    <2>3. s[q - 1] = SP
      BY <1>4, <2>2, StartsAre
    <2>4. q # p + 1
      <3>1. ASSUME q = p + 1 PROVE FALSE
        <4>1. q - 1 = p
          BY <1>1, <1>6, <3>1
        <4> QED
          BY <1>7, <2>3, <4>1, WordsAre
      <3> QED
        BY <3>1
    <2> QED
      BY <1>1, <1>4, <1>6, <2>1, <2>4
  <1>10. ASSUME NEW i \in 1 .. n - 2 PROVE i \in {p, q} \/ s[i] = SP
    <2> DEFINE T == {j \in 1 .. n - 2 : j \notin {p, q} /\ s[j] # SP}
    <2>1. SUFFICES ASSUME T # {} PROVE FALSE
      OBVIOUS
    <2>2. T \in SUBSET Nat
      BY <1>6
    <2> HIDE DEF T
    <2>3. PICK k \in T : \A y \in T : k <= y
      BY <2>1, <2>2, LeastOf
    <2>4. k \in 1 .. n - 2 /\ k \notin {p, q} /\ s[k] # SP
      BY DEF T
    <2>5. k \in 1 .. n
      BY <1>6, <2>4
    <2>6. CASE k = 1 \/ s[k - 1] = SP
      <3>1. k \in Starts(s)
        BY <2>4, <2>5, <2>6, StartsAre
      <3>2. Token(s, k) = <<>>
        BY <1>4, <2>4, <3>1
      <3>3. k = n - 1
        BY <2>4, <2>5, <3>2, TokenOfLine
      <3> QED
        BY <1>6, <2>4, <3>3
    <2>7. CASE k # 1 /\ s[k - 1] # SP
      <3>1. k - 1 \in 1 .. n - 2 /\ ~ (k <= k - 1)
        BY <1>6, <2>4, <2>7
      <3>2. k - 1 \in {p, q}
        BY <2>3, <2>7, <3>1 DEF T
      <3>3. k = p + 1 \/ k = q + 1
        BY <1>1, <1>4, <1>6, <2>4, <3>2
      <3>4. k = n - 1
        BY <1>7, <1>8, <2>4, <3>3
      <3> QED
        BY <1>6, <2>4, <3>4
    <2> QED
      BY <2>6, <2>7
  <1>11. p \in 1 .. n - 2 /\ q \in 1 .. n - 2
    BY <1>1, <1>4, <1>6, <1>7, <1>8
  <1> QED
    BY <1>7, <1>8, <1>9, <1>10, <1>11 DEF AsksFor

\* A line that asks for a format is a request that sets it.
LEMMA AskingIsAsked ==
    ASSUME NEW s \in Seq(Bytes), Ruled(s), NEW f \in Formats, AsksFor(s, f)
    PROVE  FormatAsked(s)
  <1> DEFINE n == Len(s)
  <1>1. PICK p, q \in 1 .. n - 2 :
          /\ p + 1 < q /\ s[p] = "format" /\ s[q] = f
          /\ \A i \in 1 .. n - 2 : i \in {p, q} \/ s[i] = SP
    BY DEF AsksFor
  <1>2. /\ n \in Nat /\ n >= 2 /\ s[n - 1] = CR /\ s[n] = LF
    BY DEF Ruled
  <1> HIDE DEF n
  <1>3. /\ p \in Nat /\ 1 <= p /\ p <= n - 2 /\ p \in 1 .. n
        /\ q \in Nat /\ 1 <= q /\ q <= n - 2 /\ q \in 1 .. n
    BY <1>1, <1>2
  <1>4. s[p] # SP /\ s[q] # SP /\ s[n - 1] # SP /\ s[n] # SP
    BY <1>1, <1>2, WordsAre
  <1>5. s[p + 1] = SP
    <2>1. p + 1 \in 1 .. n - 2 /\ p + 1 \notin {p, q}
      BY <1>1, <1>2, <1>3
    <2> QED
      BY <1>1, <2>1
  <1>6. q + 1 = n - 1 \/ s[q + 1] = SP
    <2>1. q + 1 \in 1 .. n - 2 => q + 1 \notin {p, q}
      BY <1>1, <1>2, <1>3
    <2>2. q + 1 = n - 1 \/ q + 1 \in 1 .. n - 2
      BY <1>2, <1>3
    <2> QED
      BY <1>1, <2>1, <2>2
  <1>7. Token(s, p) = <<"format">>
    BY <1>1, <1>3, <1>4, <1>5, TokenOfLine, WordsAre DEF n
  <1>8. Token(s, q) = <<f>>
    BY <1>1, <1>3, <1>4, <1>6, TokenOfLine, WordsAre DEF n
  <1>9. p = 1 \/ s[p - 1] = SP
    <2>1. p # 1 => p - 1 \in 1 .. n - 2 /\ p - 1 \notin {p, q}
      BY <1>1, <1>2, <1>3
    <2> QED
      BY <1>1, <2>1
  <1>10. s[q - 1] = SP
    <2>1. q - 1 \in 1 .. n - 2 /\ q - 1 \notin {p, q}
      BY <1>1, <1>2, <1>3
    <2> QED
      BY <1>1, <2>1
  <1>11. p \in Starts(s) /\ q \in Starts(s)
    BY <1>3, <1>4, <1>9, <1>10, StartsAre DEF n
  <1>12. ASSUME NEW i \in Starts(s) PROVE i \in {p, q, n - 1}
    <2>1. i \in 1 .. n /\ s[i] # SP /\ (i = 1 \/ s[i - 1] = SP)
      BY StartsAre DEF n
    <2>2. i # n
      <3>1. ASSUME i = n PROVE FALSE
        BY <1>2, <1>4, <2>1, <3>1
      <3> QED
        BY <3>1
    <2>3. i = n - 1 \/ i \in 1 .. n - 2
      BY <1>2, <2>1, <2>2
    <2> QED
      BY <1>1, <2>1, <2>3
  <1>13. FirstStart(s) = p
    <2>1. FirstStart(s) \in Starts(s) /\ FirstStart(s) <= p
      BY <1>11, FirstStartIs
    <2>2. FirstStart(s) \in {p, q, n - 1}
      BY <1>12, <2>1
    <2> QED
      BY <1>1, <1>2, <1>3, <2>1, <2>2
  <1>14. ArgumentStarts(s) = {q}
    <2>1. ASSUME NEW i \in ArgumentStarts(s) PROVE i = q
      <3>1. i \in Starts(s) /\ i # p /\ Token(s, i) # <<>>
        BY <1>13 DEF ArgumentStarts
      <3>2. i \in 1 .. n /\ s[i] # SP
        BY <3>1, StartsAre DEF n
      <3>3. i # n - 1
        BY <3>1, <3>2, TokenOfLine DEF n
      <3> QED
        BY <1>12, <3>1, <3>3
    <2>2. q \in ArgumentStarts(s)
      <3>1. q # p /\ Token(s, q) # <<>>
        BY <1>1, <1>3, <1>8
      <3> QED
        BY <1>11, <1>13, <3>1 DEF ArgumentStarts
    <2> QED
      BY <2>1, <2>2
  <1>15. ArgumentCount(s) = 1
    BY <1>14, OneArgument
  <1>16. f \in FormatsIn(s)
    BY <1>8, <1>14 DEF FormatsIn, Arguments
  <1> QED
    BY <1>7, <1>11, <1>13, <1>15, <1>16 DEF FormatAsked

\* A line sets the format it asks for, and leaves it alone if it asks for none.
LEMMA OutcomeIsAsked ==
    ASSUME NEW s \in Seq(Bytes), IsLine(s), NEW o \in Outcomes(s)
    PROVE  \/ AsksFor(s, o.options)
           \/ o.options = options_ /\ \A f \in Formats : ~ AsksFor(s, f)
  <1> DEFINE word == IF Starts(s) = {} THEN <<>> ELSE Token(s, FirstStart(s))
             one == ArgumentCount(s) = 1
             err == {[status |-> "err", options |-> options_]}
             same == {[status |-> "ok", options |-> options_]}
             chosen == {[status |-> "ok",
                         options |-> CHOOSE f \in FormatsIn(s) : TRUE]}
             versionAsked == word = <<"v">> /\ one /\ \E a \in Arguments(s) : Head(a) = "1"
             formatAsked == word = <<"format">> /\ one /\ FormatsIn(s) # {}
             execAsked == word = <<"exec">> /\ ArgumentCount(s) >= 1
             empty == Starts(s) = {}
  <1>0. Ruled(s)
    BY LineIsRuled
  <1>1. Outcomes(s) =
          CASE versionAsked -> same
            [] formatAsked -> chosen
            [] execAsked -> same \union err
            [] empty -> same \union err
            [] OTHER -> err
    BY Zenon DEF Outcomes
  <1>2. formatAsked => ~ versionAsked /\ ~ execAsked /\ ~ empty
    <2>1. <<"format">> # <<"v">> /\ <<"format">> # <<"exec">> /\ <<"format">> # <<>>
      BY SMT
    <2> HIDE DEF one
    <2> QED
      BY <2>1, Zenon
  <1>3. formatAsked <=> FormatAsked(s)
    <2>1. <<"format">> # <<>>
      BY SMT
    <2> QED
      BY <2>1, Zenon DEF FormatAsked
  <1>4. ASSUME FormatAsked(s), o \in chosen PROVE AsksFor(s, o.options)
    <2>1. PICK f \in FormatsIn(s) : f = CHOOSE g \in FormatsIn(s) : TRUE
      BY <1>4 DEF FormatAsked
    <2>2. o.options = f
      BY <1>4, <2>1
    <2> QED
      BY <1>0, <1>4, <2>2, AskedIsAsking
  <1>5. ASSUME o \in same \union err PROVE o.options = options_
    BY <1>5
  <1>6. ~ FormatAsked(s) => \A f \in Formats : ~ AsksFor(s, f)
    BY <1>0, AskingIsAsked
  <1> HIDE DEF word, one, err, same, chosen, versionAsked, formatAsked,
        execAsked, empty
  <1>7. formatAsked => Outcomes(s) = chosen
    BY <1>1, <1>2, Zenon
  <1>8. ~ formatAsked => Outcomes(s) \in {same, same \union err, err}
    BY <1>1, Zenon
  <1>9. CASE formatAsked
    BY <1>3, <1>4, <1>7, <1>9
  <1>10. CASE ~ formatAsked
    <2>1. o \in same \union err
      BY <1>8, <1>10
    <2> QED
      BY <1>3, <1>5, <1>6, <1>10, <2>1
  <1> QED
    BY <1>9, <1>10

----------------------------------------------------------------------------
(* One more line *)

\* Lines, the last of them ended.
Whole(d) ==
    \/ d = <<>>
    \/ Len(d) >= 2 /\ d[Len(d) - 1] = CR /\ d[Len(d)] = LF

\* Where the CRLF of a line is, in the sequence it is a line of.
LEMMA LinePlaces ==
    ASSUME NEW s \in Seq(Bytes), NEW i \in 1 .. Len(s), NEW j \in i .. Len(s),
           LineAt(s, i, j)
    PROVE  /\ i < j /\ s[j - 1] = CR /\ s[j] = LF
           /\ \A k \in i .. j - 2 : ~ (s[k] = CR /\ s[k + 1] = LF)
  <1> DEFINE l == SubSeq(s, i, j)
  <1>1. Len(s) \in Nat /\ i \in Int /\ j \in Int /\ 1 <= i /\ i <= j /\ j <= Len(s)
    BY LenProperties
  <1>2. \A k \in i .. j : s[k] \in Bytes
    BY <1>1, ElementOfSeq
  <1>3. /\ l \in Seq(Bytes) /\ Len(l) = j - i + 1
        /\ \A k \in 1 .. j - i + 1 : l[k] = s[i + k - 1]
    BY <1>1, <1>2, SubSeqProperties
  <1>4. IsLine(l)
    BY DEF LineAt
  <1> HIDE DEF l
  <1>5. Ruled(l)
    BY <1>3, <1>4, LineIsRuled
  <1> DEFINE n == j - i + 1
  <1>6. /\ n \in Int /\ n >= 2 /\ l[n - 1] = CR /\ l[n] = LF
        /\ \A k \in 1 .. n - 2 : ~ (l[k] = CR /\ l[k + 1] = LF)
    <2>1. /\ Len(l) \in Nat /\ Len(l) >= 2
          /\ l[Len(l) - 1] = CR /\ l[Len(l)] = LF
          /\ \A k \in 1 .. Len(l) - 2 : ~ (l[k] = CR /\ l[k + 1] = LF)
      BY <1>5 DEF Ruled
    <2>2. Len(l) = n
      BY <1>3
    <2> HIDE DEF n
    <2> QED
      BY <2>1, <2>2
  <1>7. \A k \in 1 .. n : l[k] = s[i + k - 1]
    BY <1>3
  <1>8. n = j - i + 1
    OBVIOUS
  <1> HIDE DEF n
  <1>9. i < j
    BY <1>1, <1>6, <1>8
  <1>10. s[j - 1] = CR /\ s[j] = LF
    <2>1. n - 1 \in 1 .. n /\ n \in 1 .. n /\ i + (n - 1) - 1 = j - 1 /\ i + n - 1 = j
      BY <1>1, <1>6, <1>8
    <2>2. l[n - 1] = s[j - 1] /\ l[n] = s[j]
      BY <1>7, <2>1
    <2> QED
      BY <1>6, <2>2
  <1>11. ASSUME NEW k \in i .. j - 2 PROVE ~ (s[k] = CR /\ s[k + 1] = LF)
    <2> DEFINE x == k - i + 1
    <2>1. x \in 1 .. n - 2 /\ x \in 1 .. n /\ x + 1 \in 1 .. n
          /\ i + x - 1 = k /\ i + (x + 1) - 1 = k + 1
      BY <1>1, <1>6, <1>8
    <2> HIDE DEF x
    <2>2. l[x] = s[k] /\ l[x + 1] = s[k + 1]
      BY <1>7, <2>1
    <2> QED
      BY <1>6, <2>1, <2>2
  <1> QED
    BY <1>9, <1>10, <1>11

\* What is known of the bytes of a line behind whole lines.
Joined(d, l, s) ==
    LET m == Len(d)
    IN /\ d \in Seq(Bytes) /\ l \in Seq(Bytes) /\ s \in Seq(Bytes)
       /\ m \in Nat /\ Len(l) \in Nat
       /\ s = d \o l /\ Len(s) = m + Len(l)
       /\ \A k \in 1 .. m : s[k] = d[k]
       /\ \A k \in 1 .. Len(l) : s[m + k] = l[k]

LEMMA JoinedAre ==
    ASSUME NEW d \in Seq(Bytes), NEW l \in Seq(Bytes)
    PROVE  Joined(d, l, d \o l)
  <1>1. /\ d \o l \in Seq(Bytes) /\ Len(d \o l) = Len(d) + Len(l)
        /\ \A k \in 1 .. Len(d) + Len(l) :
              (d \o l)[k] = IF k <= Len(d) THEN d[k] ELSE l[k - Len(d)]
    BY ConcatProperties
  <1>2. Len(d) \in Nat /\ Len(l) \in Nat
    BY LenProperties
  <1> DEFINE s == d \o l
             m == Len(d)
             n == Len(l)
  <1>3. m \in Nat /\ n \in Nat /\ Len(s) = m + n
        /\ \A k \in 1 .. m + n : s[k] = IF k <= m THEN d[k] ELSE l[k - m]
    BY <1>1, <1>2
  <1>4. s \in Seq(Bytes)
    BY <1>1
  <1> HIDE DEF s, m, n
  <1>5. \A k \in 1 .. m : s[k] = d[k]
    BY <1>3
  <1>6. ASSUME NEW k \in 1 .. n PROVE s[m + k] = l[k]
    <2>1. m + k \in 1 .. m + n /\ ~ (m + k <= m) /\ (m + k) - m = k
      BY <1>3
    <2> QED
      BY <1>3, <2>1
  <1> QED
    BY <1>3, <1>4, <1>5, <1>6 DEF Joined, s, m, n

\* Its lines are the lines that were there, and the new one.
LEMMA LinesOfJoined ==
    ASSUME NEW d, NEW l, NEW s, Joined(d, l, s), Whole(d), IsLine(l),
           NEW i \in 1 .. Len(s), NEW j \in i .. Len(s), LineAt(s, i, j)
    PROVE  j <= Len(d) \/ (i = Len(d) + 1 /\ j = Len(s))
  <1> DEFINE m == Len(d)
             n == Len(l)
  <1>1. /\ s \in Seq(Bytes) /\ m \in Nat /\ n \in Nat /\ Len(s) = m + n
        /\ \A k \in 1 .. m : s[k] = d[k]
        /\ \A k \in 1 .. n : s[m + k] = l[k]
        /\ d \in Seq(Bytes) /\ l \in Seq(Bytes)
    BY DEF Joined
  <1>2. /\ i < j /\ s[j - 1] = CR /\ s[j] = LF
        /\ \A k \in i .. j - 2 : ~ (s[k] = CR /\ s[k + 1] = LF)
    BY <1>1, LinePlaces
  <1>3. /\ n >= 2
        /\ \A k \in 1 .. n - 2 : ~ (l[k] = CR /\ l[k + 1] = LF)
    BY <1>1, LineIsRuled DEF Ruled
  <1>4. m = 0 \/ (m >= 2 /\ d[m - 1] = CR /\ d[m] = LF)
    BY <1>1 DEF Whole
  <1>5. i = 1 \/ (i > 2 /\ s[i - 2] = CR /\ s[i - 1] = LF)
    BY DEF LineAt
  <1>6. CR # LF
    BY DEF CR, LF
  <1>7. /\ i \in Int /\ j \in Int /\ 1 <= i /\ j <= m + n
    BY <1>1
  <1>8. SUFFICES ASSUME j > m PROVE i = m + 1 /\ j = m + n
    BY <1>1, <1>7
  <1> HIDE DEF m, n
  <1>9. m >= 2 => s[m - 1] = CR /\ s[m] = LF
    <2>1. m >= 2 => m - 1 \in 1 .. m /\ m \in 1 .. m
      BY <1>1
    <2> QED
      BY <1>1, <1>4, <2>1
  <1>10. j # m + 1
    <2>1. ASSUME j = m + 1 PROVE FALSE
      <3>1. j - 1 = m
        BY <1>1, <2>1
      <3>2. m >= 2
        BY <1>2, <1>4, <1>7, <3>1
      <3> QED
        BY <1>2, <1>6, <1>9, <3>1, <3>2
    <2> QED
      BY <2>1
  <1>11. j = m + n
    <2> DEFINE k == j - 1 - m
    <2>1. k \in 1 .. n /\ k + 1 \in 1 .. n /\ m + k = j - 1 /\ m + (k + 1) = j
      BY <1>1, <1>7, <1>8, <1>10
    <2>2. k = j - 1 - m
      OBVIOUS
    <2> HIDE DEF k
    <2>3. l[k] = CR /\ l[k + 1] = LF
      BY <1>1, <1>2, <2>1
    <2>4. k \notin 1 .. n - 2
      BY <1>3, <2>3
    <2> QED
      BY <1>1, <1>7, <2>1, <2>2, <2>4
  <1>12. i > m
    <2>1. ASSUME i < m PROVE FALSE
      <3>1. m >= 2 /\ m - 1 \in i .. j - 2 /\ (m - 1) + 1 = m
        BY <1>1, <1>3, <1>4, <1>7, <1>11, <2>1
      <3> QED
        BY <1>2, <1>9, <3>1
    <2>2. ASSUME i = m PROVE FALSE
      <3>1. m >= 2 /\ i - 1 = m - 1 /\ i # 1
        BY <1>1, <1>4, <1>7, <2>2
      <3> QED
        BY <1>5, <1>6, <1>9, <3>1
    <2> QED
      BY <1>1, <1>7, <2>1, <2>2
  <1>13. i = m + 1
    <2>1. ASSUME i > m + 1 PROVE FALSE
      <3>1. i > 2 /\ s[i - 2] = CR /\ s[i - 1] = LF
        BY <1>1, <1>5, <1>7, <2>1
      <3>2. i - 2 # m
        <4>1. ASSUME i - 2 = m PROVE FALSE
          <5>1. m >= 2
            BY <1>1, <1>4, <1>7, <3>1, <4>1
          <5> QED
            BY <1>6, <1>9, <3>1, <4>1, <5>1
        <4> QED
          BY <4>1
      <3> DEFINE k == i - 2 - m
      <3>3. k \in 1 .. n - 2 /\ k \in 1 .. n /\ k + 1 \in 1 .. n
            /\ m + k = i - 2 /\ m + (k + 1) = i - 1
        BY <1>1, <1>2, <1>7, <2>1, <3>2
      <3> HIDE DEF k
      <3> QED
        BY <1>1, <1>3, <3>1, <3>3
    <2> QED
      BY <1>1, <1>7, <1>12, <2>1
  <1> QED
    BY <1>11, <1>13

\* So it asks as before, and as the new line does.
LEMMA AsksOfJoined ==
    ASSUME NEW d, NEW l, NEW s, Joined(d, l, s), Whole(d), IsLine(l), NEW f
    PROVE  /\ \A i \in 1 .. Len(d) : AsksAt(s, i, f) <=> AsksAt(d, i, f)
           /\ AsksAt(s, Len(d) + 1, f) <=> AsksFor(l, f)
           /\ \A i \in Len(d) + 2 .. Len(s) : ~ AsksAt(s, i, f)
  <1> DEFINE m == Len(d)
             n == Len(l)
  <1>1. /\ s \in Seq(Bytes) /\ m \in Nat /\ n \in Nat /\ Len(s) = m + n
        /\ \A k \in 1 .. m : s[k] = d[k]
        /\ d \in Seq(Bytes) /\ l \in Seq(Bytes) /\ s = d \o l
    BY DEF Joined
  <1>2. n >= 2
    BY <1>1, LineIsRuled DEF Ruled
  <1>3. \A i \in 1 .. m + n : \A j \in i .. m + n :
            LineAt(s, i, j) => j <= m \/ (i = m + 1 /\ j = m + n)
    BY <1>1, LinesOfJoined
  <1>4. \A i \in 1 .. m : \A j \in i .. m : SubSeq(s, i, j) = SubSeq(d, i, j)
    <2> TAKE i \in 1 .. m
    <2> TAKE j \in i .. m
    <2>1. i \in 1 .. Len(d) /\ j \in 1 .. Len(d)
      BY <1>1
    <2>2. SubSeq(d \o l, i, j) = SubSeq(d, i, j)
      BY <1>1, <2>1, SubSeqOfConcat1
    <2> QED
      BY <1>1, <2>2
  <1>5. SubSeq(s, m + 1, m + n) = l
    <2>1. m + 1 \in Len(d) + 1 .. Len(d) + Len(l) /\ m + n \in Len(d) + 1 .. Len(d) + Len(l)
      BY <1>1, <1>2
    <2>2. SubSeq(d \o l, m + 1, m + n) = SubSeq(l, m + 1 - m, m + n - m)
      BY <1>1, <2>1, SubSeqOfConcat2
    <2>3. m + 1 - m = 1 /\ m + n - m = n
      BY <1>1
    <2>4. SubSeq(l, 1, n) = l
      BY <1>1, SubSeqFull
    <2> QED
      BY <1>1, <2>2, <2>3, <2>4
  <1>6. \A i \in 1 .. m : \A j \in i .. m : LineAt(s, i, j) <=> LineAt(d, i, j)
    <2> TAKE i \in 1 .. m
    <2> TAKE j \in i .. m
    <2>1. i > 2 => i - 2 \in 1 .. m /\ i - 1 \in 1 .. m
      BY <1>1
    <2>2. i > 2 => s[i - 2] = d[i - 2] /\ s[i - 1] = d[i - 1]
      BY <1>1, <2>1
    <2> QED
      BY <1>4, <2>2 DEF LineAt
  <1>7. LineAt(s, m + 1, m + n)
    <2>1. m + 1 = 1 \/ (m + 1 > 2 /\ s[m + 1 - 2] = CR /\ s[m + 1 - 1] = LF)
      <3>1. CASE m = 0
        BY <3>1
      <3>2. CASE m # 0
        <4>1. m >= 2 /\ d[m - 1] = CR /\ d[m] = LF
          BY <1>1, <3>2 DEF Whole
        <4>2. m - 1 \in 1 .. m /\ m \in 1 .. m /\ m + 1 - 2 = m - 1
              /\ m + 1 - 1 = m /\ m + 1 > 2
          BY <1>1, <4>1
        <4>3. s[m - 1] = CR /\ s[m] = LF
          BY <1>1, <4>1, <4>2
        <4> QED
          BY <4>2, <4>3
      <3> QED
        BY <3>1, <3>2
    <2>2. IsLine(SubSeq(s, m + 1, m + n))
      BY <1>5
    <2> DEFINE first == m + 1
               last == m + n
    <2>3. /\ first = 1 \/ (first > 2 /\ s[first - 2] = CR /\ s[first - 1] = LF)
          /\ IsLine(SubSeq(s, first, last))
      BY <2>1, <2>2
    <2> HIDE DEF first, last
    <2>4. LineAt(s, first, last)
      BY <2>3 DEF LineAt
    <2> QED
      BY <2>4 DEF first, last
  <1> HIDE DEF m, n
  <1>8. ASSUME NEW i \in 1 .. m PROVE AsksAt(s, i, f) <=> AsksAt(d, i, f)
    <2>1. i \in 1 .. m + n /\ \A j \in i .. m : j \in i .. m + n
      BY <1>1
    <2>2. ASSUME AsksAt(s, i, f) PROVE AsksAt(d, i, f)
      <3>1. PICK j \in i .. m + n : LineAt(s, i, j) /\ AsksFor(SubSeq(s, i, j), f)
        BY <1>1, <2>2 DEF AsksAt
      <3>2. j <= m
        BY <1>1, <1>3, <2>1, <3>1
      <3>3. j \in i .. m
        BY <1>1, <3>2
      <3>4. LineAt(d, i, j) /\ SubSeq(s, i, j) = SubSeq(d, i, j)
        BY <1>4, <1>6, <3>1, <3>3
      <3> QED
        BY <3>1, <3>3, <3>4 DEF AsksAt, m
    <2>3. ASSUME AsksAt(d, i, f) PROVE AsksAt(s, i, f)
      <3>1. PICK j \in i .. m : LineAt(d, i, j) /\ AsksFor(SubSeq(d, i, j), f)
        BY <2>3 DEF AsksAt, m
      <3>2. LineAt(s, i, j) /\ SubSeq(s, i, j) = SubSeq(d, i, j)
        BY <1>4, <1>6, <3>1
      <3> QED
        BY <1>1, <2>1, <3>1, <3>2 DEF AsksAt
    <2> QED
      BY <2>2, <2>3
  <1>9. AsksAt(s, m + 1, f) <=> AsksFor(l, f)
    <2>1. m + 1 \in 1 .. m + n /\ m + n \in m + 1 .. m + n
      BY <1>1, <1>2
    <2>2. ASSUME AsksAt(s, m + 1, f) PROVE AsksFor(l, f)
      <3>1. PICK j \in m + 1 .. m + n :
                LineAt(s, m + 1, j) /\ AsksFor(SubSeq(s, m + 1, j), f)
        BY <1>1, <2>2 DEF AsksAt
      <3>2. j = m + n
        BY <1>1, <1>3, <2>1, <3>1
      <3> QED
        BY <1>5, <3>1, <3>2
    <2>3. ASSUME AsksFor(l, f) PROVE AsksAt(s, m + 1, f)
      BY <1>1, <1>5, <1>7, <2>1, <2>3 DEF AsksAt
    <2> QED
      BY <2>2, <2>3
  <1>10. ASSUME NEW i \in m + 2 .. m + n, AsksAt(s, i, f) PROVE FALSE
    <2>1. i \in 1 .. m + n /\ i # m + 1
      BY <1>1
    <2>2. PICK j \in i .. m + n : LineAt(s, i, j)
      BY <1>1, <1>10 DEF AsksAt
    <2>3. ~ (j <= m)
      BY <1>1, <2>1
    <2> QED
      BY <1>3, <2>1, <2>2, <2>3
  <1> QED
    BY <1>1, <1>8, <1>9, <1>10 DEF m

----------------------------------------------------------------------------
(* The format in force *)

InForce(d, f) ==
    \/ f = "json" /\ NoneAsks(d, 1)
    \/ \E i \in 1 .. Len(d) : AsksAt(d, i, f) /\ NoneAsks(d, i + 1)

\* One more line keeps the format, or sets it to the one it asks for.
LEMMA LineInForce ==
    ASSUME NEW d \in Seq(Bytes), NEW l \in Seq(Bytes), Whole(d), IsLine(l),
           NEW f, InForce(d, f), NEW g,
           \/ AsksFor(l, g)
           \/ g = f /\ \A h \in Formats : ~ AsksFor(l, h)
    PROVE  Whole(d \o l) /\ InForce(d \o l, g)
  <1> DEFINE s == d \o l
             m == Len(d)
             n == Len(l)
  <1>1. Joined(d, l, s)
    BY JoinedAre
  <1> HIDE DEF s
  <1>2. /\ m \in Nat /\ n \in Nat /\ Len(s) = m + n
        /\ \A k \in 1 .. n : s[m + k] = l[k]
    BY <1>1 DEF Joined
  <1>3. n >= 2 /\ l[n - 1] = CR /\ l[n] = LF
    BY LineIsRuled DEF Ruled
  <1>4. \A h : /\ \A i \in 1 .. m : AsksAt(s, i, h) <=> AsksAt(d, i, h)
               /\ AsksAt(s, m + 1, h) <=> AsksFor(l, h)
               /\ \A i \in m + 2 .. m + n : ~ AsksAt(s, i, h)
    BY <1>1, <1>2, AsksOfJoined
  <1> HIDE DEF m, n
  <1>5. Whole(s)
    <2>1. n - 1 \in 1 .. n /\ n \in 1 .. n /\ m + (n - 1) = (m + n) - 1 /\ m + n >= 2
      BY <1>2, <1>3
    <2>2. s[(m + n) - 1] = CR /\ s[m + n] = LF
      BY <1>2, <1>3, <2>1
    <2> QED
      BY <1>2, <2>1, <2>2 DEF Whole
  <1>6. NoneAsks(s, (m + 1) + 1)
    <2>1. (m + 1) + 1 = m + 2
      BY <1>2
    <2> QED
      BY <1>2, <1>4, <2>1 DEF NoneAsks
  <1>7. CASE AsksFor(l, g)
    <2>1. m + 1 \in 1 .. Len(s) /\ AsksAt(s, m + 1, g)
      BY <1>2, <1>3, <1>4, <1>7
    <2> QED
      BY <1>5, <1>6, <2>1 DEF InForce, s
  <1>8. CASE g = f /\ \A h \in Formats : ~ AsksFor(l, h)
    <2>1. ASSUME NEW i \in 1 .. m + 1, NoneAsks(d, i) PROVE NoneAsks(s, i)
      <3>1. ASSUME NEW k \in i .. Len(s), NEW h \in Formats PROVE ~ AsksAt(s, k, h)
        <4>1. CASE k \in 1 .. m
          <5>1. k \in i .. Len(d)
            BY <4>1, <1>2 DEF m
          <5>2. ~ AsksAt(d, k, h)
            BY <2>1, <5>1 DEF NoneAsks
          <5> QED
            BY <1>4, <4>1, <5>2
        <4>2. CASE k = m + 1
          BY <1>4, <1>8, <4>2
        <4>3. CASE k \in m + 2 .. m + n
          BY <1>4, <4>3
        <4>4. k \in 1 .. m \/ k = m + 1 \/ k \in m + 2 .. m + n
          BY <1>2, <2>1
        <4> QED
          BY <4>1, <4>2, <4>3, <4>4
      <3> QED
        BY <3>1 DEF NoneAsks
    <2>2. CASE f = "json" /\ NoneAsks(d, 1)
      <3>1. 1 \in 1 .. m + 1
        BY <1>2
      <3>2. NoneAsks(s, 1)
        BY <2>1, <2>2, <3>1
      <3> QED
        BY <1>5, <1>8, <2>2, <3>2 DEF InForce, s
    <2>3. CASE \E i \in 1 .. m : AsksAt(d, i, f) /\ NoneAsks(d, i + 1)
      <3>1. PICK i \in 1 .. m : AsksAt(d, i, f) /\ NoneAsks(d, i + 1)
        BY <2>3
      <3>2. i + 1 \in 1 .. m + 1 /\ i \in 1 .. Len(s)
        BY <1>2
      <3>3. AsksAt(s, i, f) /\ NoneAsks(s, i + 1)
        BY <1>4, <2>1, <3>1, <3>2
      <3> QED
        BY <1>5, <1>8, <3>2, <3>3 DEF InForce, s
    <2> QED
      BY <2>2, <2>3 DEF InForce, m
  <1> QED
    BY <1>7, <1>8

\* While the lines of a client come one by one, what was processed is whole
\* lines, and the format is the one they ask for.
FormatInv == regular => Whole(done) /\ InForce(done, options_)

\* Every step keeps it: Process adds a line, the others nothing.
LEMMA NextKeepsFormat == IInv /\ FormatInv /\ [Next]_vars => FormatInv'
  <1> SUFFICES ASSUME IInv, FormatInv, [Next]_vars PROVE FormatInv'
    OBVIOUS
  <1>1. CASE Process
    <2> SUFFICES ASSUME regular' PROVE Whole(done') /\ InForce(done', options_')
      BY DEF FormatInv
    <2>1. /\ stage = "processing" /\ regular' = regular
          /\ done' = done \o Received
          /\ \E o \in Outcomes(Request) : options_' = o.options
      BY <1>1 DEF Process
    <2>2. TypeOK /\ BufferInv /\ RegularInv
      BY DEF IInv
    <2>3. Received \in Seq(Bytes) /\ IsLine(Received)
      BY <2>1, <2>2, ReceivedIs DEF RegularInv
    <2>4. Request = Received
      BY <2>1, <2>2, <2>3, RequestIsText, TextOfAll DEF IsLine
    <2>5. IsLine(Request) /\ Request \in Seq(Bytes) /\ done' = done \o Request
      BY <2>1, <2>3, <2>4
    <2>6. PICK o \in Outcomes(Request) : options_' = o.options
      BY <2>1
    <2> DEFINE l == Request
    <2>7. /\ l \in Seq(Bytes) /\ IsLine(l) /\ done' = done \o l
          /\ \/ AsksFor(l, options_')
             \/ options_' = options_ /\ \A h \in Formats : ~ AsksFor(l, h)
      BY <2>1, <2>5, <2>6, OutcomeIsAsked
    <2>8. done \in Seq(Bytes) /\ Whole(done) /\ InForce(done, options_)
      BY <2>1, <2>2 DEF FormatInv, TypeOK
    <2> HIDE DEF l
    <2>9. ASSUME NEW g, g = options_' PROVE Whole(done \o l) /\ InForce(done \o l, g)
      <3>1. \/ AsksFor(l, g)
            \/ g = options_ /\ \A h \in Formats : ~ AsksFor(l, h)
        BY <2>7, <2>9
      <3> QED
        BY <2>7, <2>8, <3>1, LineInForce
    <2> QED
      BY <2>7, <2>9
  <1>2. CASE Receive
    <2>1. done' = done /\ options_' = options_ /\ (regular' => regular)
      BY <1>2 DEF Receive
    <2> QED
      BY <2>1 DEF FormatInv
  <1>3. CASE Send \/ Finish \/ ReceiveEnd \/ ReceiveFails \/ Ended \/ UNCHANGED vars
    <2>1. done' = done /\ options_' = options_ /\ regular' = regular
      BY <1>3 DEF Send, Finish, ReceiveEnd, ReceiveFails, Ended, vars
    <2> QED
      BY <2>1 DEF FormatInv
  <1> QED
    BY <1>1, <1>2, <1>3 DEF Next

LEMMA InitFormat == Init => FormatInv
  <1> SUFFICES ASSUME Init PROVE FormatInv
    OBVIOUS
  <1>1. done = <<>> /\ options_ = "json"
    BY DEF Init
  <1>2. NoneAsks(<<>>, 1)
    BY DEF NoneAsks
  <1> QED
    BY <1>1, <1>2 DEF FormatInv, Whole, InForce


----------------------------------------------------------------------------
(* The theorems *)

\* Types; a request always leaves room for its NUL.
THEOREM ReaderTypes == Spec => []TypeOK
  BY ReaderInvariant, PTL DEF IInv

\* Every byte of the client, a NUL or not, comes into the buffer once and in
\* order, or is still on its way, however recv splits the stream; and a request
\* is what was received for it up to the first NUL, whatever else was in buf.
THEOREM BytesInOrder == Spec => []NothingLost
  <1>1. IInv => NothingLost
    BY RequestIsText DEF IInv, SentInv, NothingLost
  <1> QED
    BY <1>1, ReaderInvariant, PTL

\* readLoop never waits for more with a whole line in the buffer, unless a NUL
\* came before its end.
THEOREM LinesAreHandedOver == Spec => []NoLineHeldBack
  BY ReaderInvariant, PTL DEF IInv

\* Lines that arrive one by one are the requests, whatever lines they are.
THEOREM LinesAreRequests == Spec => []RegularFraming
  <1>1. IInv => RegularFraming
    <2> SUFFICES ASSUME IInv, regular, stage = "processing"
                 PROVE  IsLine(Request)
      BY DEF RegularFraming
    <2>1. IsLine(Received) /\ Received \in Seq(Bytes)
      BY ReceivedIs DEF IInv, RegularInv
    <2>2. Request = Received
      BY <2>1, RequestIsText, TextOfAll DEF IInv, IsLine
    <2> QED
      BY <2>1, <2>2
  <1> QED
    BY <1>1, ReaderInvariant, PTL

\* A client whose lines arrive one by one and whole has the format it asked for
\* last, for any lines: processRequest sets it exactly for the lines whose words
\* are `format` and its name, and keeps it through every other, refused or not.
THEOREM LastFormatHolds == Spec => []FormatInForce
  <1>1. FormatInv => FormatInForce
    BY DEF FormatInv, FormatInForce, InForce
  <1> QED
    BY <1>1, InitFormat, ReaderInvariant, NextKeepsFormat, PTL DEF Spec

=============================================================================
