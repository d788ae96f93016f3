------------------------- MODULE RangeClientProofs -------------------------
(***************************************************************************)
(* What holds of RangeClient for every size of page, chunk and file and    *)
(* any number of fetches: nobody gets the answer to another request, and a *)
(* stale connection alone never ends the handler.                          *)
(***************************************************************************)
EXTENDS RangeClient, SequenceTheorems, TLAPS

-----------------------------------------------------------------------------
(***************************************************************************)
(* The inductive invariant.                                                *)
(***************************************************************************)
ClientType ==
    /\ lang \in {"rust", "python"} /\ exc \in {"os", "bad"}
    /\ attempt \in {1, 2} /\ fresh \in BOOLEAN
    /\ pc \in {"idle", "connect", "status", "headers", "body", "copy", "error",
               "panicked"}
    /\ conn = [requests |-> conn.requests, plan |-> conn.plan,
               wire |-> conn.wire, open |-> conn.open, closed |-> conn.closed]
    /\ conn.open \in BOOLEAN /\ conn.closed \in BOOLEAN
    /\ DOMAIN cache = {chunk_base(o) : o \in Offsets}
    /\ DOMAIN pages = Offsets
    /\ pc # "idle" => want \in Offsets

\* What the server sends for the chunk at base, in four pieces.
Reply(base, good) ==
    <<Status(IF good THEN 206 ELSE 502),
      Length(IF good THEN chunk_len(base) ELSE 1), Blank,
      IF good THEN Body(base, chunk_len(base)) ELSE Body(remote_size, 1)>>

\* Nothing is on its way to the client, and nothing was asked for.
Quiet == conn.requests = <<>> /\ conn.plan = <<>> /\ conn.wire = <<>>

\* The request in hand is the only one, and the server has yet to see it.
Asked ==
    /\ conn.requests = <<Base>> /\ conn.plan = <<>> /\ conn.wire = <<>>

\* The pieces after the first k, up to the d-th.
Part(r, k, d) == SubSeq(r, k + 1, d)

\* The client has read k pieces of the answer to its request, and the server
\* has sent d; a closed connection brings no more.
Answered(good, k, d) ==
    /\ conn.requests = <<>>
    /\ conn.wire = Part(Reply(Base, good), k, d)
    /\ conn.plan = IF conn.closed THEN <<>>
                   ELSE Part(Reply(Base, good), d, 4)
    /\ k > 0 => status = IF good THEN 206 ELSE 502

\* How many pieces a client has read that is reading.
ReadBy(loc) == CASE loc = "status" -> {0} [] loc = "headers" -> {1, 2}
                 [] OTHER -> {3}

\* Between fetches the connection is quiet; during one it carries this
\* request or its answer, as far as the client has not read it.
ConnectionSound ==
    /\ pc \in {"idle", "connect", "copy"} => Quiet
    /\ pc \in {"status", "headers", "body"} =>
          \/ pc = "status" /\ Asked
          \/ \E good \in BOOLEAN, k \in ReadBy(pc), d \in 0..4 :
                k <= d /\ Answered(good, k, d)
    /\ pc = "body" => status = 206

Chunk(b) == Body(b, chunk_len(b))

\* Who copies has its chunk.
CacheSound ==
    /\ \A b \in DOMAIN cache : cache[b] \in {NoData, Chunk(b)}
    /\ pc = "copy" => lang = "rust" /\ cache[Base] = Chunk(Base)
    /\ data.for # remote_size => data.got = Chunk(chunk_base(data.for))
    /\ \A o \in Offsets : pages[o] \in {NoData, Body(o, page_size)}

\* The second attempt is made upon a connection of its own.
SecondIsFresh ==
    /\ attempt = 2 => fresh \/ (pc = "connect" /\ ~conn.open)
    /\ pc = "panicked" => attempt = 2

ClientInv == ClientType /\ ConnectionSound /\ CacheSound /\ SecondIsFresh

-----------------------------------------------------------------------------
(***************************************************************************)
(* Pages, chunks and answers.                                              *)
(***************************************************************************)

\* A page lies within the file, and its chunk begins no later than it does.
LEMMA OffsetsSound ==
    ASSUME NEW o \in Offsets
    PROVE  /\ o \in Nat /\ o + page_size <= remote_size
           /\ chunk_base(o) \in Nat /\ chunk_base(o) <= o
           /\ chunk_len(chunk_base(o)) \in Nat \ {0}
<1>1. page_size \in Nat \ {0} /\ FETCH_CHUNK_SIZE \in Nat \ {0}
      /\ remote_size \in Nat \ {0} /\ remote_size % page_size = 0
  BY SizesFit
<1>2. PICK n \in 0..((remote_size \div page_size) - 1) : o = n * page_size
  BY DEF Offsets
<1>3. remote_size = page_size * (remote_size \div page_size)
      /\ remote_size \div page_size \in Nat
  BY <1>1
<1> DEFINE m == remote_size \div page_size
<1>4. n \in Nat /\ m \in Nat /\ n + 1 <= m
  BY <1>2, <1>3
<1>5. o \in Nat /\ o + page_size <= remote_size
  <2> HIDE DEF m
  <2>1. (n + 1) * page_size <= m * page_size
    BY <1>1, <1>4
  <2>2. (n + 1) * page_size = n * page_size + page_size
    BY <1>1, <1>4
  <2>3. m * page_size = page_size * m
    BY <1>1, <1>4
  <2>4. n * page_size \in Nat
    BY <1>1, <1>4
  <2> QED
    BY <1>1, <1>2, <1>3, <2>1, <2>2, <2>3, <2>4 DEF m
<1>6. o % FETCH_CHUNK_SIZE \in Nat /\ o % FETCH_CHUNK_SIZE <= o
  BY <1>1, <1>5
<1> QED
  BY <1>1, <1>5, <1>6 DEF chunk_base, chunk_len

\* The page lies within its chunk, the shorter last one too.
LEMMA PageInChunk ==
    ASSUME NEW o \in Offsets
    PROVE  (o - chunk_base(o)) + page_size <= chunk_len(chunk_base(o))
<1> DEFINE F == FETCH_CHUNK_SIZE
           P == page_size
           a == F \div P
           q == o \div F
           r == o % F
<1>1. P \in Nat \ {0} /\ F \in Nat \ {0} /\ remote_size \in Nat \ {0}
      /\ remote_size % P = 0 /\ F % P = 0
  BY SizesFit
<1>2. PICK n \in Nat : o = n * P
  BY DEF Offsets
<1>3. o \in Nat
  BY OffsetsSound
<1>4. a \in Nat /\ F = P * a
  BY <1>1
<1>5. q \in Nat /\ r \in Nat /\ r < F /\ o = F * q + r
  BY <1>1, <1>3
<1> HIDE DEF F, P, a, q, r
<1>6. r = P * (n - a * q)
  <2>1. (P * a) * q = P * (a * q) /\ a * q \in Nat
    BY <1>1, <1>4, <1>5
  <2>2. r = n * P - P * (a * q)
    BY <1>1, <1>2, <1>3, <1>4, <1>5, <2>1
  <2>3. P * (n - a * q) = P * n - P * (a * q)
    BY <1>1, <1>3, <2>1
  <2> QED
    BY <1>1, <1>3, <2>2, <2>3
<1>7. r + P <= F
  <2>1. a * q \in Nat
    BY <1>4, <1>5
  <2> DEFINE d == n - a * q
  <2>2. d \in Int
    BY <1>3, <2>1
  <2> HIDE DEF d
  <2>3. r = P * d
    BY <1>6 DEF d
  <2>4. d < a
    <3>1. SUFFICES ASSUME d >= a PROVE FALSE
      BY <1>4, <2>2
    <3>2. P * d >= P * a
      BY <1>1, <1>4, <2>2, <3>1
    <3> QED
      BY <1>4, <1>5, <2>3, <3>2
  <2>5. P * (d + 1) <= P * a
    BY <1>1, <1>4, <2>2, <2>4
  <2>6. P * (d + 1) = P * d + P
    BY <1>1, <2>2
  <2> QED
    BY <1>4, <2>3, <2>5, <2>6
<1>8. o + P <= remote_size
  BY OffsetsSound DEF P
<1>9. o - chunk_base(o) = r /\ chunk_base(o) = o - r
  BY <1>3, <1>5 DEF chunk_base, F, r
<1>10. chunk_len(o - r) = IF remote_size - (o - r) < F
                          THEN remote_size - (o - r) ELSE F
  BY DEF chunk_len, F
<1> QED
  BY <1>1, <1>3, <1>5, <1>7, <1>8, <1>9, <1>10 DEF P

Pieces(r) == {r[1], r[2], r[3], r[4]}

\* An answer is a sequence of four pieces.
LEMMA ReplySound ==
    ASSUME NEW base, NEW good \in BOOLEAN
    PROVE  /\ Reply(base, good) \in Seq(Pieces(Reply(base, good)))
           /\ Len(Reply(base, good)) = 4
           /\ Reply(base, good)[1] = Status(IF good THEN 206 ELSE 502)
           /\ Reply(base, good)[2].type = "length"
           /\ Reply(base, good)[3] = Blank
           /\ good => Reply(base, good)[4] = Chunk(base)
BY DEF Reply, Pieces, Status, Length, Blank, Body, Chunk

\* What is left of an answer when a piece is taken from, or added to, a part
\* of it.
LEMMA Parts ==
    ASSUME NEW T, NEW r \in Seq(T), Len(r) = 4, NEW k \in 0..4, NEW d \in k..4
    PROVE  /\ Part(r, k, d) = <<>> <=> k = d
           /\ k < d => /\ Part(r, k, d) # <<>>
                       /\ Head(Part(r, k, d)) = r[k + 1]
                       /\ Tail(Part(r, k, d)) = Part(r, k + 1, d)
           /\ d < 4 => Append(Part(r, k, d), r[d + 1]) = Part(r, k, d + 1)
<1>1. \A i \in 1..4 : r[i] \in T
  BY LenProperties
<1>2. Part(r, k, d) \in Seq(T) /\ Len(Part(r, k, d)) = d - k
  <2>1. \A i \in (k + 1)..d : r[i] \in T
    BY <1>1
  <2>2. /\ SubSeq(r, k + 1, d) \in Seq(T)
        /\ Len(SubSeq(r, k + 1, d)) = IF k + 1 <= d THEN d - (k + 1) + 1 ELSE 0
    BY <2>1, SubSeqProperties
  <2> QED
    BY <2>2 DEF Part
<1>3. Part(r, k, d) = <<>> <=> k = d
  BY <1>2, EmptySeq
<1>4. ASSUME k < d
      PROVE  /\ Part(r, k, d) # <<>>
             /\ Head(Part(r, k, d)) = r[k + 1]
             /\ Tail(Part(r, k, d)) = Part(r, k + 1, d)
  <2>1. Part(r, k, d) # <<>>
    BY <1>3, <1>4
  <2>2. /\ Head(SubSeq(r, k + 1, d)) = r[k + 1]
        /\ Tail(SubSeq(r, k + 1, d)) = SubSeq(r, (k + 1) + 1, d)
    BY <1>4, HeadTailOfSubSeq
  <2> QED
    BY <2>1, <2>2 DEF Part
<1>5. ASSUME d < 4
      PROVE  Append(Part(r, k, d), r[d + 1]) = Part(r, k, d + 1)
  <2>1. SubSeq(r, k + 1, d + 1) = SubSeq(r, k + 1, (d + 1) - 1) \o <<r[d + 1]>>
    BY <1>5, SubSeqRecursiveSecond
  <2>2. (d + 1) - 1 = d /\ r[d + 1] \in T
    BY <1>1, <1>5
  <2> QED
    BY <1>2, <2>1, <2>2, AppendIsConcat DEF Part
<1> QED
  BY <1>3, <1>4, <1>5

\* The whole answer, and none of it.
LEMMA WholeReply ==
    ASSUME NEW base, NEW good \in BOOLEAN
    PROVE  /\ Part(Reply(base, good), 0, 4) = Reply(base, good)
           /\ Part(Reply(base, good), 0, 0) = <<>>
<1> DEFINE r == Reply(base, good)
<1>1. r \in Seq(Pieces(r)) /\ Len(r) = 4
  BY ReplySound
<1> HIDE DEF r
<1>2. SubSeq(r, 1, 4) = r
  BY <1>1, SubSeqFull
<1>3. Part(r, 0, 4) = SubSeq(r, 1, 4)
  BY DEF Part
<1>4. Part(r, 0, 0) = <<>>
  BY <1>1, Parts
<1> QED
  BY <1>2, <1>3, <1>4 DEF r

-----------------------------------------------------------------------------
(***************************************************************************)
(* The steps.                                                              *)
(***************************************************************************)
LEMMA ClientInitially == Init => ClientInv
<1> SUFFICES ASSUME Init PROVE ClientInv
  OBVIOUS
<1>1. ClientType
  BY DEF Init, ClientType, NoConnection
<1>2. ConnectionSound
  BY DEF Init, ConnectionSound, Quiet, NoConnection
<1>3. CacheSound
  BY DEF Init, CacheSound
<1>4. SecondIsFresh
  BY DEF Init, SecondIsFresh
<1> QED
  BY <1>1, <1>2, <1>3, <1>4 DEF ClientInv

\* Every step keeps the types.
LEMMA TypeStep ==
    ASSUME ClientType, [Next]_vars
    PROVE  ClientType'
<1> USE DEF ClientType
<1>1. ASSUME NEW offset \in Offsets, Begin(offset)
      PROVE  ClientType'
  BY <1>1 DEF Begin, resultVars
<1>2. CASE SendRequest
  BY <1>2 DEF SendRequest, Raise, NoConnection, resultVars
<1>3. CASE ReadStatus
  BY <1>3 DEF ReadStatus, Raise, Consume, resultVars
<1>4. CASE ReadHeader \/ EndOfHeaders \/ EofInHeaders
  BY <1>4 DEF ReadHeader, EndOfHeaders, EofInHeaders, Raise, Consume, resultVars
<1>5. CASE ReadBody
  <2>1. lang' = lang /\ attempt' = attempt /\ fresh' = fresh /\ pages' = pages
        /\ exc' \in {"os", "bad"} /\ pc' \in {"copy", "idle", "error"}
    BY <1>5 DEF ReadBody, Raise
  <2>2. pc' # "idle" => want' = want
    BY <1>5 DEF ReadBody, Raise
  <2>3. conn' = [conn EXCEPT !.wire = Tail(@)] \/ conn' = conn
    BY <1>5 DEF ReadBody, Consume
  <2>4. DOMAIN cache' = DOMAIN cache
    BY <1>5 DEF ReadBody
  <2>6. /\ conn' = [requests |-> conn'.requests, plan |-> conn'.plan,
              wire |-> conn'.wire, open |-> conn'.open, closed |-> conn'.closed]
        /\ conn'.open \in BOOLEAN /\ conn'.closed \in BOOLEAN
    BY <2>3
  <2>5. pc # "idle"
    BY <1>5 DEF ReadBody
  <2> QED
    BY <2>1, <2>2, <2>4, <2>5, <2>6
<1>6. CASE Timeout \/ Retry \/ PanicOnError \/ HandlerEnds
  <2>1. CASE Timeout \/ PanicOnError
    BY <2>1 DEF Timeout, PanicOnError, Fatal, Raise, resultVars
  <2>2. CASE Retry
    BY <2>2 DEF Retry, NoConnection, resultVars
  <2>3. CASE HandlerEnds
    BY <2>3 DEF HandlerEnds, NoConnection, resultVars
  <2> QED
    BY <1>6, <2>1, <2>2, <2>3
<1>7. CASE CopyPage
  BY <1>7 DEF CopyPage
<1>8. CASE Answer \/ Deliver \/ CloseByServer
  <2>1. UNCHANGED <<lang, want, pc, exc, attempt, fresh, cache, pages>>
    BY <1>8 DEF Answer, Deliver, CloseByServer, resultVars
  <2>2. CASE Answer
    <3>1. \E p : conn' = [conn EXCEPT !.requests = Tail(@), !.plan = p]
      BY <2>2 DEF Answer
    <3> QED
      BY <2>1, <3>1
  <2>3. CASE Deliver \/ CloseByServer
    BY <2>1, <2>3 DEF Deliver, CloseByServer
  <2> QED
    BY <1>8, <2>2, <2>3
<1>9. CASE UNCHANGED vars
  BY <1>9 DEF vars
<1> QED
  BY <1>1, <1>2, <1>3, <1>4, <1>5, <1>6, <1>7, <1>8, <1>9
     DEF Next, Client, Server

\* Every step keeps the second attempt on a connection of its own.
LEMMA SecondStep ==
    ASSUME ClientType, SecondIsFresh, [Next]_vars
    PROVE  SecondIsFresh'
<1> USE DEF ClientType, SecondIsFresh
<1>1. ASSUME NEW offset \in Offsets, Begin(offset)
      PROVE  SecondIsFresh'
  BY <1>1 DEF Begin
<1>2. CASE SendRequest
  BY <1>2 DEF SendRequest, Raise
<1>3. CASE ReadStatus \/ ReadHeader \/ EndOfHeaders \/ EofInHeaders \/ ReadBody
  BY <1>3 DEF ReadStatus, ReadHeader, EndOfHeaders, EofInHeaders, ReadBody,
              Raise
<1>4. CASE Timeout \/ Retry \/ PanicOnError \/ HandlerEnds \/ CopyPage
  BY <1>4 DEF Timeout, Retry, PanicOnError, HandlerEnds, CopyPage, Fatal,
              Raise, NoConnection
<1>5. CASE Answer \/ Deliver \/ CloseByServer
  BY <1>5 DEF Answer, Deliver, CloseByServer
<1>6. CASE UNCHANGED vars
  BY <1>6 DEF vars
<1> QED
  BY <1>1, <1>2, <1>3, <1>4, <1>5, <1>6 DEF Next, Client, Server

\* The head of the wire is the piece that comes next, and without it the rest
\* of the answer is the same.
LEMMA Consumed ==
    ASSUME ClientType, NEW good \in BOOLEAN, NEW k \in 0..3, NEW d \in 0..4,
           k <= d, Answered(good, k, d)
    PROVE  /\ conn.wire = <<>> <=> k = d
           /\ conn.wire # <<>> => Head(conn.wire) = Reply(Base, good)[k + 1]
           /\ (/\ conn.wire # <<>> /\ Consume /\ want' = want
               /\ status' = IF good THEN 206 ELSE 502)
                 => k + 1 <= d /\ Answered(good, k + 1, d)'
<1> DEFINE r == Reply(Base, good)
<1>1. r \in Seq(Pieces(r)) /\ Len(r) = 4
  BY ReplySound
<1>2. conn.wire = Part(r, k, d)
  BY DEF Answered
<1> HIDE DEF r
<1>3. d \in k..4 /\ k \in 0..4
  OBVIOUS
<1>4. /\ conn.wire = <<>> <=> k = d
      /\ conn.wire # <<>> => /\ k < d /\ Head(conn.wire) = r[k + 1]
                             /\ Tail(conn.wire) = Part(r, k + 1, d)
  <2>1. /\ Part(r, k, d) = <<>> <=> k = d
        /\ k < d => /\ Head(Part(r, k, d)) = r[k + 1]
                    /\ Tail(Part(r, k, d)) = Part(r, k + 1, d)
    BY <1>1, <1>3, Parts
  <2>2. k # d => k < d
    OBVIOUS
  <2> QED
    BY <1>2, <2>1, <2>2
<1>5. ASSUME conn.wire # <<>>, Consume, want' = want,
             status' = IF good THEN 206 ELSE 502
      PROVE  k + 1 <= d /\ Answered(good, k + 1, d)'
  <2>1. Base' = Base
    BY <1>5 DEF Base
  <2>2. /\ conn'.requests = conn.requests /\ conn'.plan = conn.plan
        /\ conn'.closed = conn.closed /\ conn'.wire = Tail(conn.wire)
    BY <1>5 DEF Consume, ClientType
  <2>3. k + 1 <= d
    BY <1>3, <1>4, <1>5
  <2>4. Reply(Base, good)' = r
    BY <2>1 DEF r, Reply, Status, Length, Blank, Body, chunk_len
  <2> QED
    BY <1>4, <1>5, <2>2, <2>3, <2>4 DEF Answered, r
<1> QED
  BY <1>4, <1>5 DEF r

Reading == pc \in {"status", "headers", "body"}

\* A client that reads, and is not waiting for its answer to begin, is
\* somewhere in the answer to its own request.
LEMMA InAnswer ==
    ASSUME ConnectionSound, Reading, ~(pc = "status" /\ Asked)
    PROVE  \E good \in BOOLEAN, k \in 0..3, d \in 0..4 :
              /\ k \in ReadBy(pc) /\ k <= d /\ Answered(good, k, d)
BY DEF ConnectionSound, Reading, ReadBy

\* Reading goes on to the next piece of the same answer.
LEMMA ReadStep ==
    ASSUME ClientType, ConnectionSound,
           ReadStatus \/ ReadHeader \/ EndOfHeaders \/ ReadBody
    PROVE  ConnectionSound'
<1>1. CASE pc' = "error"
  BY <1>1 DEF ConnectionSound
<1>2. CASE pc' # "error"
  <2>1. conn.wire # <<>> /\ Consume /\ Reading
    BY <1>2 DEF ReadStatus, ReadHeader, EndOfHeaders, ReadBody, Raise, Reading,
                Arrived
  <2>2. PICK good \in BOOLEAN, k \in 0..3, d \in 0..4 :
           k \in ReadBy(pc) /\ k <= d /\ Answered(good, k, d)
    <3>1. ~Asked
      BY <2>1 DEF Asked
    <3> QED
      BY <2>1, <3>1, InAnswer
  <2>3. Head(conn.wire) = Reply(Base, good)[k + 1]
    BY <2>1, <2>2, Consumed
  <2>4. /\ Reply(Base, good)[1] = Status(IF good THEN 206 ELSE 502)
        /\ Reply(Base, good)[2].type = "length" /\ Reply(Base, good)[3] = Blank
    BY ReplySound
  <2>5. CASE ReadStatus
    <3>1. k = 0 /\ pc' = "headers" /\ want' = want
          /\ status' = Head(conn.wire).code
      BY <1>2, <2>2, <2>5 DEF ReadStatus, Raise, ReadBy
    <3>2. status' = IF good THEN 206 ELSE 502
      BY <2>3, <2>4, <3>1 DEF Status
    <3>3. 1 <= d /\ Answered(good, 1, d)'
      BY <2>1, <2>2, <3>1, <3>2, Consumed
    <3> QED
      BY <3>1, <3>3 DEF ConnectionSound, ReadBy
  <2>6. CASE ReadHeader
    <3>1. k \in {1, 2} /\ pc' = "headers" /\ want' = want /\ status' = status
      BY <2>2, <2>6 DEF ReadHeader, ReadBy
    <3>2. k = 1
      BY <2>1, <2>3, <2>4, <2>6, <3>1 DEF ReadHeader, Arrived, Blank
    <3>3. status' = IF good THEN 206 ELSE 502
      BY <2>2, <3>1, <3>2 DEF Answered
    <3>4. 2 <= d /\ Answered(good, 2, d)'
      BY <2>1, <2>2, <3>1, <3>2, <3>3, Consumed
    <3> QED
      BY <3>1, <3>4 DEF ConnectionSound, ReadBy
  <2>7. CASE EndOfHeaders
    <3>1. k \in {1, 2} /\ pc' = "body" /\ want' = want /\ status' = status
          /\ status = 206
      BY <1>2, <2>2, <2>7 DEF EndOfHeaders, Raise, ReadBy
    <3>2. k = 2
      BY <2>3, <2>4, <2>7, <3>1 DEF EndOfHeaders, Arrived
    <3>3. status' = IF good THEN 206 ELSE 502
      BY <2>2, <3>1, <3>2 DEF Answered
    <3>4. 3 <= d /\ Answered(good, 3, d)'
      BY <2>1, <2>2, <3>1, <3>2, <3>3, Consumed
    <3> QED
      BY <3>1, <3>4 DEF ConnectionSound, ReadBy
  <2>8. CASE ReadBody
    <3>1. k = 3 /\ pc' \in {"copy", "idle"}
      BY <1>2, <2>2, <2>8 DEF ReadBody, Raise, ReadBy
    <3>2. d = 4
      BY <2>1, <2>2, <3>1, Consumed
    <3> DEFINE r == Reply(Base, good)
    <3>3. r \in Seq(Pieces(r)) /\ Len(r) = 4
      BY ReplySound
    <3>4. conn.wire = Part(r, 3, 4) /\ conn.requests = <<>>
          /\ conn.plan = IF conn.closed THEN <<>> ELSE Part(r, 4, 4)
      BY <2>2, <3>1, <3>2 DEF Answered
    <3> HIDE DEF r
    <3>5. Part(r, 4, 4) = <<>> /\ Tail(Part(r, 3, 4)) = Part(r, 3 + 1, 4)
      BY <3>3, Parts
    <3>6. conn'.requests = <<>> /\ conn'.plan = <<>> /\ conn'.wire = <<>>
      BY <2>1, <3>4, <3>5 DEF Consume, ClientType
    <3> QED
      BY <3>1, <3>6 DEF ConnectionSound, Quiet
  <2> QED
    BY <2>5, <2>6, <2>7, <2>8
<1> QED
  BY <1>1, <1>2

\* The server works on the answer to the one request it has seen, and a
\* connection it closes brings no more of it.
LEMMA ServerStep ==
    ASSUME ClientType, ConnectionSound, Answer \/ Deliver \/ CloseByServer
    PROVE  ConnectionSound'
<1>1. /\ pc' = pc /\ want' = want /\ status' = status /\ conn.open
      /\ ~conn.closed /\ Base' = Base
  BY DEF Answer, Deliver, CloseByServer, Base
<1>2. \A good \in BOOLEAN : Reply(Base, good)' = Reply(Base, good)
  BY <1>1 DEF Reply, Status, Length, Blank, Body, chunk_len
<1>3. CASE ~Reading
  <2>1. Quiet => Quiet'
    BY DEF Quiet, Answer, Deliver, CloseByServer, ClientType
  <2> QED
    BY <1>1, <1>3, <2>1 DEF ConnectionSound, Reading
<1>4. CASE pc = "status" /\ Asked
  <2> SUFFICES ASSUME ~Asked'
               PROVE  \E good \in BOOLEAN : Answered(good, 0, 0)'
    BY <1>1, <1>4 DEF ConnectionSound, ReadBy
  <2>1. CASE Answer
    <3>1. PICK good \in BOOLEAN :
            conn' = [conn EXCEPT !.requests = Tail(@),
                                 !.plan = Reply(Base, good)]
      <4>1. Head(conn.requests) = Base
        BY <1>4 DEF Asked
      <4> QED
        BY <2>1, <4>1 DEF Answer, Reply
    <3>2. conn'.requests = <<>> /\ conn'.wire = <<>> /\ ~conn'.closed
          /\ conn'.plan = Reply(Base, good)
      BY <1>1, <1>4, <3>1 DEF Asked, ClientType
    <3> QED
      BY <1>2, <3>2, WholeReply DEF Answered
  <2>2. CASE Deliver
    BY <1>4, <2>2 DEF Deliver, Asked
  <2>3. CASE CloseByServer
    <3>1. conn'.requests = <<>> /\ conn'.wire = <<>> /\ conn'.closed
          /\ conn'.plan = <<>>
      BY <1>4, <2>3 DEF CloseByServer, Asked, ClientType
    <3>2. ASSUME NEW good \in BOOLEAN
          PROVE  Answered(good, 0, 0)'
      BY <1>2, <3>1, WholeReply DEF Answered
    <3> QED
      BY <3>2
  <2> QED
    BY <2>1, <2>2, <2>3
<1>5. CASE Reading /\ ~(pc = "status" /\ Asked)
  <2>1. PICK good \in BOOLEAN, k \in 0..3, d \in 0..4 :
           k \in ReadBy(pc) /\ k <= d /\ Answered(good, k, d)
    BY <1>5, InAnswer
  <2> SUFFICES \E e \in 0..4 : k <= e /\ Answered(good, k, e)'
    <3> SUFFICES ASSUME NEW e \in 0..4, k <= e, Answered(good, k, e)'
                 PROVE  ConnectionSound'
      OBVIOUS
    <3>1. pc' = pc /\ Reading /\ (pc = "body" => status' = 206)
      BY <1>1, <1>5 DEF ConnectionSound
    <3>2. k \in ReadBy(pc')
      BY <2>1, <3>1
    <3> QED
      BY <3>1, <3>2 DEF ConnectionSound, Reading
  <2>2. CASE Answer
    BY <2>1, <2>2 DEF Answer, Answered
  <2>3. CASE Deliver
    <3> DEFINE r == Reply(Base, good)
    <3>1. r \in Seq(Pieces(r)) /\ Len(r) = 4
      BY ReplySound
    <3>2. r' = r
      BY <1>2
    <3>3. conn.wire = Part(r, k, d) /\ conn.plan = Part(r, d, 4)
      BY <1>1, <2>1 DEF Answered
    <3> HIDE DEF r
    <3>4. conn.plan # <<>>
      BY <2>3 DEF Deliver
    <3>5. /\ d < 4 /\ Head(conn.plan) = r[d + 1]
          /\ Tail(conn.plan) = Part(r, d + 1, 4)
      <4>1. /\ Part(r, d, 4) = <<>> <=> d = 4
            /\ d < 4 => /\ Head(Part(r, d, 4)) = r[d + 1]
                        /\ Tail(Part(r, d, 4)) = Part(r, d + 1, 4)
        <5>1. \A e \in d..4 :
                 /\ Part(r, d, e) = <<>> <=> d = e
                 /\ d < e => /\ Head(Part(r, d, e)) = r[d + 1]
                             /\ Tail(Part(r, d, e)) = Part(r, d + 1, e)
          BY <3>1, Parts
        <5>2. 4 \in d..4
          OBVIOUS
        <5> QED
          BY <5>1, <5>2
      <4>2. d # 4 => d < 4
        OBVIOUS
      <4> QED
        BY <3>3, <3>4, <4>1, <4>2
    <3>6. d \in k..4 /\ k \in 0..4
      BY <2>1
    <3>7. Append(Part(r, k, d), r[d + 1]) = Part(r, k, d + 1)
      BY <3>1, <3>5, <3>6, Parts
    <3>8. /\ conn'.requests = conn.requests /\ conn'.closed = conn.closed
          /\ conn'.wire = Part(r, k, d + 1) /\ conn'.plan = Part(r, d + 1, 4)
      BY <2>3, <3>3, <3>5, <3>7 DEF Deliver, ClientType
    <3>9. Answered(good, k, d + 1)'
      BY <1>1, <2>1, <3>8, <3>2 DEF Answered, r
    <3> QED
      BY <3>5, <3>6, <3>9
  <2>4. CASE CloseByServer
    <3>1. conn'.requests = <<>> /\ conn'.wire = conn.wire /\ conn'.closed
          /\ conn'.plan = <<>>
      BY <2>4 DEF CloseByServer, ClientType
    <3>2. Answered(good, k, d)'
      BY <1>1, <1>2, <2>1, <3>1 DEF Answered
    <3> QED
      BY <2>1, <3>2
  <2> QED
    BY <2>2, <2>3, <2>4
<1> QED
  BY <1>3, <1>4, <1>5

\* A step keeps the connection to the request in hand.
LEMMA ConnectionStep ==
    ASSUME ClientType, ConnectionSound, [Next]_vars
    PROVE  ConnectionSound'
<1>1. ASSUME NEW offset \in Offsets, Begin(offset)
      PROVE  ConnectionSound'
  BY <1>1 DEF Begin, ConnectionSound, Quiet
<1>2. CASE SendRequest
  <2>1. CASE pc' = "error"
    BY <2>1 DEF ConnectionSound
  <2>2. CASE pc' # "error"
    <3>1. \/ conn'.requests = Append(conn.requests, Base)
          \/ conn'.requests = Append(<<>>, Base)
      BY <1>2, <2>2 DEF SendRequest, Raise, NoConnection, ClientType
    <3>2. conn'.plan = <<>> /\ conn'.wire = <<>> /\ conn.requests = <<>>
      BY <1>2, <2>2 DEF SendRequest, Raise, NoConnection, ClientType,
                        ConnectionSound, Quiet
    <3>3. pc' = "status" /\ Base' = Base
      BY <1>2, <2>2 DEF SendRequest, Raise, Base
    <3>4. Asked'
      BY <3>1, <3>2, <3>3 DEF Asked
    <3> QED
      BY <3>3, <3>4 DEF ConnectionSound
  <2> QED
    BY <2>1, <2>2
<1>3. CASE ReadStatus \/ ReadHeader \/ EndOfHeaders \/ ReadBody
  BY <1>3, ReadStep
<1>4. CASE EofInHeaders \/ Timeout \/ PanicOnError
  BY <1>4 DEF EofInHeaders, Timeout, PanicOnError, Raise, ConnectionSound
<1>5. CASE Retry \/ HandlerEnds
  BY <1>5 DEF Retry, HandlerEnds, ConnectionSound, Quiet, NoConnection
<1>6. CASE CopyPage
  BY <1>6 DEF CopyPage, ConnectionSound, Quiet
<1>7. CASE Answer \/ Deliver \/ CloseByServer
  BY <1>7, ServerStep
<1>8. CASE UNCHANGED vars
  BY <1>8 DEF vars, ConnectionSound, Quiet, Asked, Answered, Reply, Base,
              Status, Length, Blank, Body, chunk_len
<1> QED
  BY <1>1, <1>2, <1>3, <1>4, <1>5, <1>6, <1>7, <1>8 DEF Next, Client, Server

\* Only the body of the right answer gets into the cache, to the caller and
\* into a page.
LEMMA CacheStep ==
    ASSUME ClientType, ConnectionSound, CacheSound, [Next]_vars
    PROVE  CacheSound'
<1>1. ASSUME NEW offset \in Offsets, Begin(offset)
      PROVE  CacheSound'
  <2>1. chunk_base(offset) \in DOMAIN cache
    BY DEF ClientType
  <2> QED
    BY <1>1, <2>1 DEF Begin, CacheSound, resultVars, Base
<1>2. CASE ReadBody
  <2>1. CASE pc' = "error"
    BY <1>2, <2>1 DEF ReadBody, CacheSound, ClientType
  <2>2. CASE pc' # "error"
    <3>1. Reading /\ pc = "body" /\ conn.wire # <<>> /\ want \in Offsets
          /\ status = 206
      BY <1>2, <2>2 DEF ReadBody, Raise, Reading, ClientType, ConnectionSound
    <3>2. PICK good \in BOOLEAN, k \in 0..3, d \in 0..4 :
             k \in ReadBy(pc) /\ k <= d /\ Answered(good, k, d)
      BY <3>1, InAnswer
    <3>3. k = 3
      BY <3>1, <3>2 DEF ReadBy
    <3>4. good
      BY <3>1, <3>2, <3>3 DEF Answered
    <3>5. Head(conn.wire) = Chunk(Base)
      <4>1. Head(conn.wire) = Reply(Base, good)[4]
        <5>1. Head(conn.wire) = Reply(Base, good)[k + 1]
          BY <3>1, <3>2, Consumed
        <5> QED
          BY <3>3, <5>1
      <4> QED
        BY <3>4, <4>1, ReplySound
    <3>6. Base \in DOMAIN cache
      BY <3>1 DEF ClientType, Base
    <3>7. CASE lang = "rust"
      BY <1>2, <2>2, <3>5, <3>6, <3>7 DEF ReadBody, Raise, CacheSound, Base,
         Chunk, chunk_len
    <3>8. CASE lang # "rust"
      BY <1>2, <2>2, <3>5, <3>8 DEF ReadBody, Raise, CacheSound, Base
    <3> QED
      BY <3>7, <3>8
  <2> QED
    BY <2>1, <2>2
<1>3. CASE CopyPage
  <2>1. want \in Offsets /\ cache[Base] = Chunk(Base)
    BY <1>3 DEF CopyPage, ClientType, CacheSound
  <2>2. want \in Nat /\ Base \in Nat
    BY <2>1, OffsetsSound DEF Base
  <2>3. [cache[Base] EXCEPT !.base = @ + (want - Base), !.len = page_size]
          = Body(want, page_size)
    <3>1. Base + (want - Base) = want
      BY <2>2
    <3> DEFINE c == cache[Base]
    <3>2. c = [type |-> "body", base |-> Base, len |-> chunk_len(Base)]
      BY <2>1 DEF Chunk, Body
    <3> HIDE DEF c
    <3>3. c.base + (want - Base) = want
      BY <3>1, <3>2
    <3>4. [c EXCEPT !.base = want, !.len = page_size]
            = [type |-> "body", base |-> want, len |-> page_size]
      <4> DEFINE moved == [c EXCEPT !.base = want]
      <4>1. moved = [type |-> "body", base |-> want, len |-> chunk_len(Base)]
        BY <3>2
      <4>2. [c EXCEPT !.base = want, !.len = page_size]
              = [moved EXCEPT !.len = page_size]
        BY DEF moved
      <4> HIDE DEF moved
      <4>3. [moved EXCEPT !.len = page_size]
              = [type |-> "body", base |-> want, len |-> page_size]
        BY <4>1
      <4> QED
        BY <4>2, <4>3
    <3>5. [c EXCEPT !.base = @ + (want - Base), !.len = page_size]
            = [c EXCEPT !.base = want, !.len = page_size]
      BY <3>3, Zenon
    <3> QED
      BY <3>4, <3>5 DEF Body, c
  <2> QED
    BY <1>3, <2>1, <2>3 DEF CopyPage, ClientType, CacheSound
<1>4. CASE UNCHANGED resultVars /\ pc' # "copy"
  BY <1>4 DEF resultVars, CacheSound
<1>5. CASE UNCHANGED <<cache, pages, data, pc, want, lang>>
  BY <1>5 DEF CacheSound, Base
<1> QED
  BY <1>1, <1>2, <1>3, <1>4, <1>5 DEF Next, Client, Server, SendRequest,
     ReadStatus, ReadHeader, EndOfHeaders, EofInHeaders, Timeout, Retry,
     PanicOnError, HandlerEnds, Answer, Deliver, CloseByServer, Raise,
     resultVars, vars

LEMMA ClientStep == ClientInv /\ [Next]_vars => ClientInv'
BY TypeStep, ConnectionStep, CacheStep, SecondStep DEF ClientInv

(***************************************************************************)
(* Whenever fetch_range_once reads from its connection, that carries the   *)
(* request in hand or what is unread of its answer, and nothing else: an   *)
(* exchange that ended early took the connection with it                   *)
(* (remote_range_handler.rs:67-134, range_dedup_proxy.py:332-388).         *)
(***************************************************************************)
THEOREM ClientInductive == Spec => []ClientInv
<1>1. Init => ClientInv
  BY ClientInitially
<1>2. ClientInv /\ [Next]_vars => ClientInv'
  BY ClientStep
<1> QED
  BY <1>1, <1>2, PTL DEF Spec

(***************************************************************************)
(* Whatever the sizes, nobody gets the answer to another request, and the  *)
(* slice that serve_remote_pf takes of a chunk lies within it              *)
(* (remote_range_handler.rs:67-75, 150-163, range_dedup_proxy.py:332-337). *)
(***************************************************************************)
THEOREM AnswersAreOwn == Spec => []OwnAnswer
<1>1. ClientInv => OwnAnswer
  <2> SUFFICES ASSUME ClientInv PROVE OwnAnswer
    OBVIOUS
  <2>1. pc = "copy" => (want - Base) + page_size <= cache[Base].len
    <3> SUFFICES ASSUME pc = "copy"
                 PROVE  (want - Base) + page_size <= cache[Base].len
      OBVIOUS
    <3>1. want \in Offsets /\ cache[Base] = Chunk(Base)
      BY DEF ClientInv, ClientType, CacheSound
    <3>2. cache[Base].len = chunk_len(Base)
      BY <3>1 DEF Chunk, Body
    <3> QED
      BY <3>1, <3>2, PageInChunk DEF Base
  <2> QED
    BY <2>1 DEF ClientInv, CacheSound, OwnAnswer, Chunk
<1> QED
  BY <1>1, ClientInductive, PTL

(***************************************************************************)
(* The rust client panics only when a connection it opened for this very   *)
(* request has failed it (remote_range_handler.rs:67-75, 155-158).         *)
(***************************************************************************)
THEOREM StaleConnectionHarmless == Spec => []PanicOnlyAfterFresh
<1>1. ClientInv => PanicOnlyAfterFresh
  BY DEF ClientInv, SecondIsFresh, PanicOnlyAfterFresh
<1> QED
  BY <1>1, ClientInductive, PTL
=============================================================================
