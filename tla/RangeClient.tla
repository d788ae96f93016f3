---------------------------- MODULE RangeClient ----------------------------
(***************************************************************************)
(* The two HTTP range clients, each with one keep-alive connection and one *)
(* retry:                                                                  *)
(*   rust    HttpRangeClient of remote_range_handler.rs with the chunk     *)
(*           cache of serve_remote_pf in front of it; no time limit, and a *)
(*           second failure is a panic that ends the handler;              *)
(*   python  UpstreamRangeClient of range_dedup_proxy.py, one for each     *)
(*           handler thread; reads time out, only an OSError is retried,   *)
(*           and any other error ends the thread, and the client with it.  *)
(* The server answers the requests of a connection in order, well or with  *)
(* an error, and may close the connection at any moment.                   *)
(***************************************************************************)
EXTENDS Naturals, Sequences

CONSTANTS
    page_size,          \* bytes of a guest page
    FETCH_CHUNK_SIZE,   \* bytes asked for at once
    remote_size,        \* end of the last region in the remote file
    MaxFetches          \* bound on the faults, or requests, of a behaviour

\* 4 KiB pages and chunks in the code; huge pages do not fit a chunk.
ASSUME SizesFit ==
    /\ {page_size, FETCH_CHUNK_SIZE, remote_size} \subseteq Nat \ {0}
    /\ FETCH_CHUNK_SIZE % page_size = 0 /\ remote_size % page_size = 0
ASSUME FetchBound == MaxFetches \in Nat

Offsets == {n * page_size : n \in 0..((remote_size \div page_size) - 1)}

chunk_base(file_offset) == file_offset - (file_offset % FETCH_CHUNK_SIZE)

chunk_len(base) ==
    IF remote_size - base < FETCH_CHUNK_SIZE THEN remote_size - base
    ELSE FETCH_CHUNK_SIZE

-----------------------------------------------------------------------------
Status(code) == [type |-> "status", code |-> code]
Length(len) == [type |-> "length", len |-> len]
Blank == [type |-> "blank"]
Body(base, len) == [type |-> "body", base |-> base, len |-> len]
NoData == Body(remote_size, 0)

NoConnection == [requests |-> <<>>, plan |-> <<>>, wire |-> <<>>,
                 open |-> FALSE, closed |-> FALSE]

VARIABLES
    lang,        \* which of the two clients
    want,        \* the page offset in hand, or remote_size
    pc,          \* where the client is
    exc,         \* the error in flight: "os" or "bad"
    attempt,     \* 1 or 2
    fresh,       \* the connection in use was opened by this fetch
    status, content_len,
    conn,        \* the connection: requests, and the answer on its way
    cache,       \* rust: cache[base], NoData when absent
    pages,       \* rust: what was copied into each page
    data,        \* python: what the last fetch returned, and for what
    fetches

vars == <<lang, want, pc, exc, attempt, fresh, status, content_len, conn,
          cache, pages, data, fetches>>
resultVars == <<cache, pages, data>>

Init ==
    /\ lang \in {"rust", "python"}
    /\ want = remote_size /\ pc = "idle" /\ exc = "os"
    /\ attempt = 1 /\ fresh = FALSE /\ status = 0 /\ content_len = 0
    /\ conn = NoConnection
    /\ cache = [b \in {chunk_base(o) : o \in Offsets} |-> NoData]
    /\ pages = [o \in Offsets |-> NoData]
    /\ data = [for |-> remote_size, got |-> NoData]
    /\ fetches = 0

Base == chunk_base(want)
Len_ == chunk_len(Base)

-----------------------------------------------------------------------------
(***************************************************************************)
(* A fault (rust) or a request to the proxy (python) starts a fetch.       *)
(***************************************************************************)
Begin(offset) ==
    /\ pc = "idle" /\ fetches < MaxFetches
    /\ lang = "rust" => pages[offset] = NoData
    /\ fetches' = fetches + 1
    /\ want' = offset
    /\ attempt' = 1
    /\ pc' = IF lang = "rust" /\ cache[chunk_base(offset)] # NoData
             THEN "copy" ELSE "connect"
    /\ UNCHANGED <<lang, exc, fresh, status, content_len, conn, resultVars>>

Raise(kind) == pc' = "error" /\ exc' = kind

\* Connecting, and writing to a connection the server has closed, may fail.
SendRequest ==
    /\ pc = "connect"
    /\ \/ /\ pc' = "status" /\ status' = 0 /\ content_len' = 0
          /\ conn' = [(IF conn.open THEN conn
                       ELSE [NoConnection EXCEPT !.open = TRUE])
                        EXCEPT !.requests = Append(@, Base)]
          /\ UNCHANGED exc
       \/ /\ conn.open => conn.closed
          /\ Raise("os") /\ UNCHANGED <<conn, status, content_len>>
    /\ fresh' = (~conn.open \/ (fresh /\ attempt = 2))
    /\ UNCHANGED <<lang, want, attempt, resultVars, fetches>>

AtEof == conn.wire = <<>> /\ conn.closed
Arrived(type) == conn.wire # <<>> /\ Head(conn.wire).type = type
Consume == conn' = [conn EXCEPT !.wire = Tail(@)]

\* Whatever is not a status line is an error that is no OSError.
ReadStatus ==
    /\ pc = "status"
    /\ \/ /\ Arrived("status") /\ Consume
          /\ status' = Head(conn.wire).code
          /\ pc' = "headers" /\ UNCHANGED exc
       \/ /\ conn.wire # <<>> /\ ~Arrived("status") /\ Consume
          /\ Raise("bad") /\ UNCHANGED status
       \/ AtEof /\ Raise("os") /\ UNCHANGED <<status, conn>>
    /\ UNCHANGED <<lang, want, attempt, fresh, content_len, resultVars,
                   fetches>>

ReadHeader ==
    /\ pc = "headers" /\ conn.wire # <<>> /\ ~Arrived("blank") /\ Consume
    /\ content_len' = IF Arrived("length") THEN Head(conn.wire).len
                      ELSE content_len
    /\ UNCHANGED <<lang, want, pc, exc, attempt, fresh, status, resultVars,
                   fetches>>

EndOfHeaders ==
    /\ pc = "headers" /\ Arrived("blank") /\ Consume
    /\ IF status = 206 /\ content_len = Len_
       THEN pc' = "body" /\ UNCHANGED exc
       ELSE Raise("bad")
    /\ UNCHANGED <<lang, want, attempt, fresh, status, content_len, resultVars,
                   fetches>>

\* Faulty variant: both clients read empty lines for ever.
EofInHeadersUnseen ==
    /\ FALSE /\ UNCHANGED vars

(***************************************************************************)
(* read_line returns Ok(0) at the end of the stream, and "" is not the     *)
(* blank line: the rust client never leaves this loop.                     *)
(***************************************************************************)
EofInHeaders ==
    /\ pc = "headers" /\ AtEof /\ lang = "python"
    /\ Raise("os")
    /\ UNCHANGED <<lang, want, attempt, fresh, status, content_len, conn,
                   resultVars, fetches>>

\* read_exact takes the bytes that come, whatever they are.
ReadBody ==
    /\ pc = "body"
    /\ \/ /\ conn.wire # <<>> /\ Consume
          /\ IF lang = "rust"
             THEN /\ cache' = [cache EXCEPT ![Base] = Head(conn.wire)]
                  /\ pc' = "copy" /\ UNCHANGED <<data, want>>
             ELSE /\ data' = [for |-> want, got |-> Head(conn.wire)]
                  /\ pc' = "idle" /\ want' = remote_size /\ UNCHANGED cache
          /\ UNCHANGED exc
       \/ AtEof /\ Raise("os") /\ UNCHANGED <<conn, cache, data, want>>
    /\ UNCHANGED <<lang, attempt, fresh, status, content_len, pages, fetches>>

\* settimeout applies to every read of the python client.
Timeout ==
    /\ lang = "python" /\ pc \in {"status", "headers", "body"}
    /\ conn.wire = <<>> /\ ~conn.closed
    /\ Raise("os")
    /\ UNCHANGED <<lang, want, attempt, fresh, status, content_len, conn,
                   resultVars, fetches>>

\* Faulty variant: the old connection is used again.
RetryKeepsConnection ==
    /\ pc = "error" /\ attempt = 1
    /\ lang = "python" => exc = "os"
    /\ attempt' = 2 /\ pc' = "connect"
    /\ UNCHANGED <<lang, want, exc, fresh, status, content_len, conn,
                   resultVars, fetches>>

Retry ==
    /\ pc = "error" /\ attempt = 1
    /\ lang = "python" => exc = "os"
    /\ attempt' = 2 /\ pc' = "connect" /\ conn' = NoConnection
    /\ UNCHANGED <<lang, want, exc, fresh, status, content_len, resultVars,
                   fetches>>

Fatal == pc = "error" /\ (attempt = 2 \/ (lang = "python" /\ exc = "bad"))

\* expect("remote range fetch failed"): the panic ends the handler.
PanicOnError ==
    /\ Fatal /\ lang = "rust"
    /\ pc' = "panicked"
    /\ UNCHANGED <<lang, want, exc, attempt, fresh, status, content_len, conn,
                   resultVars, fetches>>

\* Faulty variant: the handler thread goes on with the same client.
HandlerGoesOn ==
    /\ Fatal /\ lang = "python"
    /\ pc' = "idle" /\ want' = remote_size
    /\ UNCHANGED <<lang, exc, attempt, fresh, status, content_len, conn,
                   resultVars, fetches>>

\* The handler answers 502 and returns; its thread-local client goes too.
HandlerEnds ==
    /\ Fatal /\ lang = "python"
    /\ pc' = "idle" /\ want' = remote_size /\ conn' = NoConnection
    /\ UNCHANGED <<lang, exc, attempt, fresh, status, content_len, resultVars,
                   fetches>>

\* The slice of the chunk that is the page; a refused copy comes again.
CopyPage ==
    /\ pc = "copy"
    /\ pages' \in {pages, [pages EXCEPT ![want] =
                             [cache[Base] EXCEPT !.base = @ + (want - Base),
                                                 !.len = page_size]]}
    /\ pc' = "idle" /\ want' = remote_size
    /\ UNCHANGED <<lang, exc, attempt, fresh, status, content_len, conn, cache,
                   data, fetches>>

-----------------------------------------------------------------------------
(***************************************************************************)
(* The server.  An error answer has a body too, and may keep the           *)
(* connection.                                                             *)
(***************************************************************************)
Answer ==
    /\ conn.open /\ ~conn.closed /\ conn.plan = <<>> /\ conn.requests # <<>>
    /\ LET base == Head(conn.requests) IN
       \E good \in BOOLEAN :
         conn' = [conn EXCEPT
           !.requests = Tail(@),
           !.plan = <<Status(IF good THEN 206 ELSE 502),
                      Length(IF good THEN chunk_len(base) ELSE 1), Blank,
                      IF good THEN Body(base, chunk_len(base))
                      ELSE Body(remote_size, 1)>>]
    /\ UNCHANGED <<lang, want, pc, exc, attempt, fresh, status, content_len,
                   resultVars, fetches>>

Deliver ==
    /\ conn.open /\ ~conn.closed /\ conn.plan # <<>>
    /\ conn' = [conn EXCEPT !.wire = Append(@, Head(conn.plan)),
                            !.plan = Tail(@)]
    /\ UNCHANGED <<lang, want, pc, exc, attempt, fresh, status, content_len,
                   resultVars, fetches>>

CloseByServer ==
    /\ conn.open /\ ~conn.closed
    /\ conn' = [conn EXCEPT !.closed = TRUE, !.plan = <<>>, !.requests = <<>>]
    /\ UNCHANGED <<lang, want, pc, exc, attempt, fresh, status, content_len,
                   resultVars, fetches>>

Client ==
    \/ SendRequest \/ ReadStatus \/ ReadHeader \/ EndOfHeaders \/ EofInHeaders
    \/ ReadBody \/ Timeout \/ Retry \/ PanicOnError \/ HandlerEnds \/ CopyPage

Server == Answer \/ Deliver

Next ==
    \/ \E offset \in Offsets : Begin(offset)
    \/ Client \/ Server \/ CloseByServer

Spec == Init /\ [][Next]_vars

\* The client runs on, and the server gets on with an open connection.
FairSpec == Spec /\ WF_vars(Client) /\ WF_vars(Server)

-----------------------------------------------------------------------------
(***************************************************************************)
(* Properties.                                                             *)
(***************************************************************************)

(***************************************************************************)
(* Nobody gets the answer to another request: what a fetch returns, what   *)
(* lies in the cache under a chunk's offset and what is copied into a page *)
(* are the bytes asked for, although a timed-out or refused request may    *)
(* still be answered on its connection (remote_range_handler.rs:67-75,     *)
(* 150-163, range_dedup_proxy.py:332-337 and 194-196), and the slice of    *)
(* line 163 lies within the chunk, the shorter last one too.               *)
(***************************************************************************)
OwnAnswer ==
    /\ \A b \in DOMAIN cache : cache[b] \in {NoData, Body(b, chunk_len(b))}
    /\ data.for # remote_size =>
          data.got = Body(chunk_base(data.for), chunk_len(chunk_base(data.for)))
    /\ \A o \in Offsets : pages[o] \in {NoData, Body(o, page_size)}
    /\ pc = "copy" => (want - Base) + page_size <= cache[Base].len

(***************************************************************************)
(* A kept connection that has gone stale never costs the VM: the rust      *)
(* client panics only when a connection it opened for this very request    *)
(* has failed it (remote_range_handler.rs:67-75, 155-158).                 *)
(***************************************************************************)
PanicOnlyAfterFresh == pc = "panicked" => fresh

(***************************************************************************)
(* Every fetch ends, in data or in an error, unless a rust client's server *)
(* closed the connection between the status line and the blank line        *)
(* (remote_range_handler.rs:103-115 against range_dedup_proxy.py:366-368). *)
(***************************************************************************)
FetchEnds ==
    [](pc # "idle" => <>(\/ pc \in {"idle", "panicked"}
                         \/ lang = "rust" /\ pc = "headers" /\ AtEof))
=============================================================================
