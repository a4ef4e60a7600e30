--------------------------- MODULE RequestParser ---------------------------
(***************************************************************************)
(* The incremental HTTP request parser (request.c) driven by read_data     *)
(* (connection.c) on one connection.  The client's bytes arrive in chunks  *)
(* of any size; after every batch of recv calls read_data calls            *)
(* parse_request on the whole buffer, and the parser resumes from the      *)
(* state it left in struct request.                                        *)
(*                                                                         *)
(* Data abstraction: a symbol stands for a word of bytes ("M" a method     *)
(* name, "V1" the string HTTP/1.1, "CL" the key Content-Length) or for one *)
(* delimiter byte ("SP", "CR", "LF", ":").  Chunk boundaries inside a word *)
(* change nothing the parser does, since it only ever stops at a line      *)
(* feed.  Offsets count symbols.  The buffer holds Cap symbols; the ones   *)
(* at and beyond buf->size were left by an earlier request or response,    *)
(* or were never written (realloc), and the abstraction cannot place them, *)
(* so a read of one is a choice among CR, LF and another byte, fixed once  *)
(* made ("?" marks a position not yet read or written).                    *)
(***************************************************************************)
EXTENDS Integers, Sequences, SequencesExt

CONSTANTS
    Requests,     \* the requests the client may send (sequences of symbols)
    MaxRequests,  \* bound: requests the client sends on the connection
    MaxHeaders,   \* MAX_HEADERS (request.h:6), scaled down
    MaxBody,      \* MAX_BODY (request.h:7), scaled down
    Cap           \* buf->cap: enough for every buffer the run reaches, +2

OK == "OK"
ERR == "ERR"
UF == "UF"

Ws == {"SP", "CR", "LF"}              \* what trim and strtol skip
Stale == {"CR", "LF", "W"}            \* a byte nobody wrote for this request
Methods == {<<"M">>}                  \* g_http_methods
VersionOf == [v \in {<<"V0">>, <<"V1">>, <<"V2">>} |->
                 CASE v = <<"V0">> -> "1.0"
                   [] v = <<"V1">> -> "1.1"
                   [] OTHER -> "2.0"]  \* g_http_versions
Numeral == [n \in {"0", "1", "2", "-1"} |->
               CASE n = "0" -> 0 [] n = "1" -> 1 [] n = "2" -> 2 [] OTHER -> -1]

Pos == 0..Cap-1
Unwritten == [i \in Pos |-> "?"]

\* The bytes of a string_t {off, len}.
Word(d, t) == [i \in 1..t.len |-> d[t.off + i - 1]]

\* span: the length up to and including the first c in d[off..len-1].
Span(d, c, len, off) ==
    LET I == {i \in off..len-1 : d[i] = c}
    IN  IF I = {} THEN -1 ELSE Min(I) - off + 1

\* split: at most num_tokens string_t of d[off..off+len-1], cut at the first
\* num_tokens-1 delimiters; the last token runs to the end of the range.
Split(d, len, off, delim, num_tokens) ==
    LET D    == SetToSortSeq({p \in off..off+len-1 : d[p] = delim}, <)
        k    == IF Len(D) < num_tokens - 1 THEN Len(D) ELSE num_tokens - 1
        from == [i \in 1..k+1 |-> IF i = 1 THEN off ELSE D[i-1] + 1]
        to   == [i \in 1..k+1 |-> IF i = k+1 THEN off + len ELSE D[i]]
    IN  [i \in 1..k+1 |-> [off |-> from[i], len |-> to[i] - from[i]]]

\* trim: drop white space and line ends from both ends of a token.
Trim(d, t) ==
    LET F == {p \in t.off..t.off+t.len-1 : d[p] \notin Ws}
    IN  IF F = {} THEN [off |-> t.off + t.len, len |-> 0]
                  ELSE [off |-> Min(F), len |-> Max(F) - Min(F) + 1]

\* strtol(data + off, NULL, 10): leading white space, then one numeral.
RECURSIVE Strtol(_, _)
Strtol(d, p) ==
    IF p < Cap /\ d[p] \in Ws THEN Strtol(d, p + 1)
    ELSE IF p < Cap /\ d[p] \in DOMAIN Numeral THEN Numeral[d[p]] ELSE 0

\* The zeroed struct request of reset_connection.
FreshReq == [state |-> "INIT", rb |-> 0, method |-> "none", version |-> "none",
             uri |-> [off |-> 0, len |-> 0], nh |-> 0, hdrs |-> <<>>,
             body |-> [off |-> 0, len |-> 0]]

\* parse_status_line.
ParseStatusLine(d, size, r) ==
    LET ll  == Span(d, "LF", size, 0)
        tk  == Split(d, ll, 0, "SP", 3)
        ver == Trim(d, tk[3])
    IN  CASE ll < 0                               -> [ret |-> UF, req |-> r]
          [] Len(tk) # 3                          -> [ret |-> ERR, req |-> r]
          [] Word(d, tk[1]) \notin Methods        -> [ret |-> ERR, req |-> r]
          [] Word(d, ver) \notin DOMAIN VersionOf -> [ret |-> ERR, req |-> r]
          [] OTHER -> [ret |-> OK,
                       req |-> [r EXCEPT !.method = Word(d, tk[1])[1],
                                         !.version = VersionOf[Word(d, ver)],
                                         !.uri = tk[2], !.rb = ll]]

\* parse_headers: one header line per turn of the loop, from the
\* num_headers the last call stopped at, until the blank line or
\* MAX_HEADERS.  The blank-line test reads data[rb] and data[rb+1] before
\* it knows that either was received.
RECURSIVE ParseHeaders(_, _, _)
ParseHeaders(d, size, r) ==
    LET ll == Span(d, "LF", size, r.rb)
        tk == Split(d, ll, r.rb, ":", 2)
    IN  CASE r.nh >= MaxHeaders -> [ret |-> OK, req |-> r]
          [] d[r.rb] = "CR" /\ d[r.rb + 1] = "LF" ->
                 [ret |-> OK, req |-> [r EXCEPT !.rb = @ + 2]]
          [] ll < 0 -> [ret |-> UF, req |-> r]
          [] Len(tk) # 2 -> [ret |-> ERR, req |-> r]
          [] OTHER ->
                 ParseHeaders(d, size,
                     [r EXCEPT !.hdrs = Append(@, [key |-> Trim(d, tk[1]),
                                                   val |-> Trim(d, tk[2])]),
                               !.nh = @ + 1, !.rb = @ + ll])

\* find_header(req, "Content-Length"): the first header with that key.
FindHeader(d, r) ==
    LET I == {i \in 1..Len(r.hdrs) : Word(d, r.hdrs[i].key) = <<"CL">>}
    IN  IF I = {} THEN 0 ELSE Min(I)

\* parse_request, case REQUEST_STATE_INIT.
InitStage(d, size, r) ==
    IF r.state # "INIT" THEN [ret |-> OK, req |-> r]
    ELSE LET x == ParseStatusLine(d, size, r)
         IN  IF x.ret # OK THEN x
             ELSE [x EXCEPT !.req.state = "HEADERS"]

\* case REQUEST_STATE_HEADERS: the headers, then Content-Length.
HeadersStage(d, size, x) ==
    LET h  == ParseHeaders(d, size, x.req)
        cl == FindHeader(d, h.req)
        n  == Strtol(d, h.req.hdrs[cl].val.off)
    IN  CASE x.ret # OK \/ x.req.state # "HEADERS" -> x
          [] h.ret # OK -> h
          [] cl = 0 -> [h EXCEPT !.req.state = "BODY"]
          [] n > MaxBody -> [ret |-> ERR, req |-> h.req]
          [] OTHER -> [h EXCEPT !.req.body = [off |-> h.req.rb, len |-> n],
                                !.req.state = "BODY"]

\* case REQUEST_STATE_BODY.
BodyStage(d, size, x) ==
    LET r == [x.req EXCEPT !.rb = size]
    IN  CASE x.ret # OK \/ x.req.state # "BODY" -> x
          [] x.req.body.len = 0 -> [x EXCEPT !.req.state = "COMPLETE"]
          [] size - r.body.off < r.body.len -> [ret |-> UF, req |-> r]
          [] OTHER -> [ret |-> OK, req |-> [r EXCEPT !.state = "COMPLETE"]]

\* parse_request: the stages fall through one into the next.
ParseRequest(d, size, r) ==
    BodyStage(d, size, HeadersStage(d, size, InitStage(d, size, r)))

\* What a handler gets from a complete request: method, version, get_uri
\* and get_body.
Outcome(d, x) ==
    IF x.ret = OK
    THEN [ret |-> OK, method |-> x.req.method, version |-> x.req.version,
          uri |-> Word(d, x.req.uri), body |-> Word(d, x.req.body)]
    ELSE [ret |-> x.ret, method |-> "none", version |-> "none",
          uri |-> <<>>, body |-> <<>>]

-----------------------------------------------------------------------------
(* The reference: spec.md 4.4 read as a grammar over the bytes received.   *)
(* A request line of exactly three fields, header lines split at the      *)
(* first ':', a bare CR LF ending the headers, and a body of the declared  *)
(* length (a non-negative number, at most MaxBody); no header ceiling      *)
(* (spec.md:124 has a request at the ceiling accepted).                    *)

\* The first line end at or after p, or 0.
LineEnd(b, p) == SelectInSubSeq(b, p, Len(b), LAMBDA c : c = "LF")

\* A byte string without its leading and trailing white space.
Strip(s) ==
    LET I == {i \in DOMAIN s : s[i] \notin Ws}
    IN  IF I = {} THEN <<>> ELSE SubSeq(s, Min(I), Max(I))

\* The fields of s between the c's.
Fields(s, c) ==
    LET D == SetToSortSeq({i \in DOMAIN s : s[i] = c}, <)
        from(i) == IF i = 1 THEN 1 ELSE D[i-1] + 1
        to(i) == IF i = Len(D) + 1 THEN Len(s) ELSE D[i] - 1
    IN  [i \in 1..Len(D)+1 |-> SubSeq(s, from(i), to(i))]

\* The key and the value of a header line.
Colon(l) == SelectInSeq(l, LAMBDA c : c = ":")
KeyOf(l) == Strip(SubSeq(l, 1, Colon(l) - 1))
ValOf(l) == Strip(SubSeq(l, Colon(l) + 1, Len(l)))

\* The header lines from byte p on, up to the blank line.
RECURSIVE RefHeaders(_, _, _)
RefHeaders(b, p, hs) ==
    LET q == LineEnd(b, p)
        l == SubSeq(b, p, q)
    IN  CASE q = 0 -> [ret |-> UF, hs |-> hs, next |-> p]
          [] l = <<"CR", "LF">> -> [ret |-> OK, hs |-> hs, next |-> q + 1]
          [] Colon(l) = 0 -> [ret |-> ERR, hs |-> hs, next |-> p]
          [] OTHER -> RefHeaders(b, q + 1, Append(hs, l))

Verdict(ret) ==
    [ret |-> ret, method |-> "none", version |-> "none", uri |-> <<>>, body |-> <<>>]

RefParse(b) ==
    LET q  == LineEnd(b, 1)
        f  == Fields(Strip(SubSeq(b, 1, q)), "SP")
        h  == RefHeaders(b, q + 1, <<>>)
        cl == SelectInSeq(h.hs, LAMBDA l : KeyOf(l) = <<"CL">>)
        v  == ValOf(h.hs[cl])
        n  == IF cl = 0 THEN 0 ELSE Numeral[v[1]]
    IN  CASE q = 0 -> Verdict(UF)
          [] Len(f) # 3 \/ f[1] \notin Methods \/ f[3] \notin DOMAIN VersionOf ->
                 Verdict(ERR)
          [] h.ret # OK -> Verdict(h.ret)
          [] cl # 0 /\ ~(Len(v) = 1 /\ v[1] \in DOMAIN Numeral) -> Verdict(ERR)
          [] n < 0 \/ n > MaxBody -> Verdict(ERR)
          [] Len(b) - h.next + 1 < n -> Verdict(UF)
          [] OTHER -> [ret |-> OK, method |-> f[1][1], version |-> VersionOf[f[3]],
                       uri |-> f[2], body |-> SubSeq(b, h.next, h.next + n - 1)]

-----------------------------------------------------------------------------

VARIABLES
    wire,   \* bytes the client sent that recv has not returned yet
    sent,   \* requests the client has sent
    data,   \* buf->data, positions 0..Cap-1
    size,   \* buf->size
    req,    \* c->req
    ka,     \* CONNECTION_FLAG_KEEPALIVE in c->flags
    conn,   \* "in" reading, "out" answering, "closed"
    seen,   \* the bytes the last parse_request call had received
    last,   \* the Outcome of that call (ret "none" before the first)
    waiting \* the client waits for the answer to its last request

vars == <<wire, sent, data, size, req, ka, conn, seen, last, waiting>>

\* The buffer as the bytes received: data[0..size-1].
Received(d, n) == [i \in 1..n |-> d[i-1]]

\* push: recv writes at buf->data + buf->size.
Push(d, n, chunk) ==
    [i \in Pos |-> IF n <= i /\ i < n + Len(chunk) THEN chunk[i - n + 1] ELSE d[i]]

\* The buffer as parse_request may find it: data[size] and data[size+1],
\* if nothing has been written there for this request, hold old bytes.
Readable(d, n) ==
    {[i \in Pos |-> IF i \in {n, n+1} /\ d[i] = "?" THEN f[i] ELSE d[i]] :
        f \in [{n, n+1} -> Stale]}

\* The client sends its next request once the last one was answered.
Send(r) ==
    /\ conn = "in"
    /\ ~waiting
    /\ sent < MaxRequests
    /\ wire' = wire \o r
    /\ sent' = sent + 1
    /\ waiting' = TRUE
    /\ UNCHANGED <<data, size, req, ka, conn, seen, last>>

\* read_data: recv until EAGAIN (k bytes in all), then parse_request.
\* OK: the matched handler runs and send_response starts the answer;
\* ERR: close_connection; UF: keep reading.
Recv(k) ==
    /\ conn = "in"
    /\ k \in 1..Len(wire)
    /\ \E d \in Readable(Push(data, size, SubSeq(wire, 1, k)), size + k) :
         LET n == size + k
             x == ParseRequest(d, n, req)
         IN  /\ data' = d
             /\ size' = n
             /\ req' = x.req
             /\ ka' = (ka \/ (x.ret = OK /\ x.req.version = "1.1"))
             /\ conn' = CASE x.ret = OK -> "out" [] x.ret = ERR -> "closed"
                          [] OTHER -> "in"
             /\ seen' = Received(d, n)
             /\ last' = Outcome(d, x)
    /\ wire' = SubSeq(wire, k + 1, Len(wire))
    /\ UNCHANGED <<sent, waiting>>

\* send_data has sent the whole answer: begin_read (reset_connection and
\* clear_buffer) if the connection is kept alive, else close_connection.
Respond ==
    /\ conn = "out"
    /\ IF ka
       THEN /\ conn' = "in"
            /\ req' = FreshReq
            /\ size' = 0
            /\ data' = Unwritten
       ELSE /\ conn' = "closed"
            /\ UNCHANGED <<req, size, data>>
    /\ waiting' = FALSE
    /\ UNCHANGED <<wire, sent, ka, seen, last>>

Init ==
    /\ wire = <<>>
    /\ sent = 0
    /\ data = Unwritten
    /\ size = 0
    /\ req = FreshReq
    /\ ka = FALSE
    /\ conn = "in"
    /\ seen = <<>>
    /\ last = Verdict("none")
    /\ waiting = FALSE

Next ==
    \/ \E r \in Requests : Send(r)
    \/ \E k \in 1..Cap : Recv(k)
    \/ Respond

Spec == Init /\ [][Next]_vars

-----------------------------------------------------------------------------
(* Properties *)

\* Whatever chunks the request arrives in, every parse_request call gives
\* read_data the verdict the bytes received so far call for (spec.md:78-82
\* and :123): underflow while the request is incomplete, malformed when the
\* bytes already break the grammar, and, when complete, the method, version,
\* target and body the request carries.
ParseAgrees == last.ret = "none" \/ last = RefParse(seen)

=============================================================================
