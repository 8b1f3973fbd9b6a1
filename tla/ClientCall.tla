----------------------------- MODULE ClientCall ------------------------------
(***************************************************************************)
(* One call of the public API from its first line to its result: the       *)
(* bindings (src/bindings/node/client.cjs and src/lib.rs,                  *)
(* src/bindings/python), tlsurl-core's Client (lib.rs, upload.rs,          *)
(* websocket.rs) and the Rust RequestBuilder.                              *)
(*                                                                         *)
(* Three actors meet in a call: the caller's thread (the JavaScript event  *)
(* loop, a Python thread), the runtime thread that polls the future, and   *)
(* the file system, which may change an upload while it is read.  The      *)
(* future is polled under a CancellationToken (cancellable): a poll looks  *)
(* at the token first and then makes any number of steps.                  *)
(***************************************************************************)
EXTENDS RequestBuilder

CONSTANTS
    Calls,          \* calls in flight
    Specs,          \* what callers ask for
    ClientSpecs,    \* [timeout, max, options]: clients that are made
    BuilderOps,     \* the calls of a Rust program on a RequestBuilder, a sequence
    Answers,        \* what servers answer
    EngineErrors,   \* how an exchange may fail
    Files,          \* regular files
    MaxSize,        \* bound: bytes of a file
    MaxOps,         \* bound: builder calls before send
    ReadSize        \* bytes of a file one read returns (64 KiB in the code)

OpNames == {"header", "headers", "auth", "default_headers", "form", "json", "body", "multipart",
            "query", "version", "accept_encoding", "proxy", "emulation"}

\* Sizes are unsigned, and None is none of the codes a call ends with.
ASSUME SizesAreNumbers ==
    /\ \A s \in ClientSpecs : s.max \in Nat
    /\ \A a \in Answers : a.chunks \in Seq(Nat)
ASSUME NoneIsNoCode ==
    None \notin {"BODY_TOO_LARGE", "FILE_IO", "INVALID_REQUEST", "INVALID_CONFIG"}
ASSUME NoneIsNoError ==
    /\ None # Error("Builder", {"BadScheme"})
    /\ None # Error("Upgrade", {})

\* What programs and profiles give as header maps are header maps, and headers
\* of a call are lists.
ASSUME HeadersAreMaps ==
    /\ \A s \in Specs : IsList(s.headers)
    /\ \A s \in ClientSpecs :
         s.options.profile # None => IsHeaderMap(s.options.profile.headers)
    /\ \A i \in DOMAIN BuilderOps :
         /\ BuilderOps[i].name \in OpNames
         /\ BuilderOps[i].name = "headers" => IsHeaderMap(BuilderOps[i].value)
         /\ BuilderOps[i].name = "emulation" => IsHeaderMap(BuilderOps[i].value.headers)

\* What one multipart descriptor of a binding says: byte counts, and a file by
\* its path, where a regular file may be or not.
IsPath(file) == file \in Files \cup {"missing", "directory", None}

IsDescriptor(p) ==
    /\ p.name.len \in Nat /\ p.name.special \in Nat
    /\ {p.data, p.filename} \subseteq Nat \cup {None}
    /\ p.content_type \in Nat \cup {None, Illegal}
    /\ IsPath(p.file)

\* Bodies are counted in bytes, a socket has none, and no profile names a
\* Content-Length.
ASSUME BodiesAreMeasured ==
    /\ MaxSize \in Nat /\ ReadSize \in Nat \ {0}
    /\ None \notin Nat /\ Illegal \notin Nat /\ None # Illegal
    /\ \A s \in Specs :
         /\ {s.body, s.json, s.form} \subseteq Nat \cup {None} /\ IsPath(s.body_file)
         /\ s.kind = "ws" => s.body_file = None /\ s.multipart = None
         /\ s.multipart # None =>
              /\ IsList(s.multipart)
              /\ \A i \in DOMAIN s.multipart : IsDescriptor(s.multipart[i])
    /\ \A s \in ClientSpecs :
         s.options.profile # None => "content-length" \notin Names(s.options.profile.headers)
    /\ \A i \in DOMAIN BuilderOps :
         /\ BuilderOps[i].name \in {"form", "json"} => BuilderOps[i].value \in Nat \cup {Illegal}
         /\ BuilderOps[i].name = "body" => IsBody(BuilderOps[i].value)
         /\ BuilderOps[i].name = "multipart" => IsForm(BuilderOps[i].value)

\* An AbortSignal is JavaScript's.
ASSUME SignalsAreNodes == \A s \in Specs : s.api = "rust" => ~s.signal

VARIABLES
    client,         \* the binding's client object: [state, config, max]
    size,           \* file -> its size now
    shrunk,         \* files that lost bytes (for the properties)
    call            \* the calls

vars == <<client, size, shrunk, call>>

Idle == [phase |-> "idle", aborted |-> FALSE]

Init ==
    /\ client = [state |-> "new", config |-> None, max |-> None]
    /\ size \in [Files -> 0 .. MaxSize]
    /\ shrunk = {}
    /\ call = [c \in Calls |-> Idle]

-----------------------------------------------------------------------------
(***************************************************************************)
(* The client object.                                                      *)
(***************************************************************************)

\* new Client(...): parse_options and with_options.
NewClient(s) ==
    /\ client.state = "new"
    /\ LET config == with_options(s.timeout, s.options)
       IN  client' = IF options_valid(s.timeout, s.max, s.options) /\ config.error = None
                     THEN [state |-> "open", config |-> config, max |-> s.max]
                     ELSE [state |-> "failed", config |-> None, max |-> None]
    /\ UNCHANGED <<size, shrunk, call>>

\* Client.close(): calls in flight hold clones of the core client.
CloseClient ==
    /\ client.state = "open"
    /\ client' = [client EXCEPT !.state = "closed"]
    /\ UNCHANGED <<size, shrunk, call>>

-----------------------------------------------------------------------------
(***************************************************************************)
(* A call starts.                                                          *)
(***************************************************************************)

HasFiles(s) ==
    \/ s.body_file # None
    \/ s.multipart # None /\ \E i \in DOMAIN s.multipart : s.multipart[i].file # None

\* _prepare of the Python binding, _send of the Node binding: one body at
\* most, and parts with either data or a file.
one_body(s) ==
    Cardinality({f \in {"body", "json", "form", "multipart", "body_file"} : s[f] # None}) <= 1

parts_valid(s) ==
    s.multipart # None =>
        \A i \in DOMAIN s.multipart : (s.multipart[i].data # None) # (s.multipart[i].file # None)

\* The body the bindings pass on: encoded JSON or form, or the data parts one
\* after the other.
DataBefore(parts, n) ==
    FoldLeft(LAMBDA sum, p : IF p.data = None THEN sum ELSE sum + p.data, 0, SubSeq(parts, 1, n))

PassedBody(s) ==
    CASE s.json # None      -> s.json
      [] s.form # None      -> s.form
      [] s.multipart # None -> DataBefore(s.multipart, Len(s.multipart))
      [] OTHER              -> s.body

\* Content-Type is added to encoded bodies unless the caller names one.
PassedHeaders(s) ==
    LET type == CASE s.json # None -> "application/json"
                  [] s.form # None -> "application/x-www-form-urlencoded"
                  [] OTHER -> None
    IN  IF type = None \/ \E i \in DOMAIN s.headers : s.headers[i][1] = "content-type"
        THEN s.headers ELSE Append(s.headers, <<"content-type", type>>)

\* The state of a call whose future was spawned.  nonce is fresh.
Started(s) ==
    [phase |-> "start", spec |-> s, aborted |-> FALSE, early |-> FALSE,
     listener |-> FALSE, token |-> FALSE, polled |-> FALSE, ops |-> 0, bodies |-> 0,
     framed |-> FALSE,
     config |-> client.config, max |-> client.max, form |-> NewForm,
     builder |-> Ok(None), pieces |-> <<>>, read |-> 0, sent |-> 0,
     response |-> None, chunks |-> <<>>, got |-> 0, result |-> None,
     handle |-> "none"]

Settled(state, code) == [state EXCEPT !.phase = "settled", !.result = code, !.listener = FALSE]

\* What the caller's thread does synchronously: the checks of the binding, the
\* abort listener (Node), and spawning the future with a clone of the client.
Call(c, s) ==
    /\ call[c].phase = "idle"
    /\ s.api \in {"node", "python"}
    /\ client.state \in {"open", "closed"}
    /\ LET begun == [Started(s) EXCEPT !.aborted = s.signal /\ call[c].aborted,
                                       !.early = s.signal /\ call[c].aborted,
                                       !.listener = s.signal /\ ~call[c].aborted,
                                       !.token = s.signal /\ call[c].aborted]
       IN  call' = [call EXCEPT ![c] =
               IF client.state = "closed" THEN Settled(begun, "CLOSED")
               ELSE IF ~one_body(s) THEN Settled(begun, "INVALID_REQUEST")
               ELSE IF s.bad_options THEN Settled(begun, "INVALID_CONFIG")
               ELSE IF ~parts_valid(s) THEN Settled(begun, "INVALID_REQUEST")
               ELSE begun]
    /\ UNCHANGED <<client, size, shrunk>>

\* A program written in Rust makes its request call by call.
CallRust(c, s) ==
    /\ call[c].phase = "idle"
    /\ s.api = "rust"
    /\ client.state = "open"
    /\ LET new == NewBuilder("POST", s.uri)
       IN  call' = [call EXCEPT ![c] = [Started(s) EXCEPT
               !.phase = "building", !.polled = TRUE,
               !.builder = IF s.kind = "ws" THEN ws_new(new) ELSE new]]
    /\ UNCHANGED <<client, size, shrunk>>

Applied(builder, op) ==
    CASE op.name = "header"          -> header_sensitive(builder, op.key, op.value)
      [] op.name = "headers"         -> set_headers(builder, op.value)
      [] op.name = "auth"            -> auth(builder, op.value)
      [] op.name = "default_headers" -> default_headers(builder, op.value)
      [] op.name = "form"            -> form(builder, op.value)
      [] op.name = "json"            -> json(builder, op.value)
      [] op.name = "body"            -> set_body(builder, op.value)
      [] op.name = "multipart"       -> multipart(builder, op.value)
      [] op.name = "query"           -> query(builder, op.value)
      [] op.name = "version"         -> version(builder, op.value)
      [] op.name = "accept_encoding" -> accept_encoding(builder, op.value)
      [] op.name = "proxy"           -> proxy(builder, op.value)
      [] op.name = "emulation"       -> emulation(builder, op.value)

\* By these a program declares the length of its body itself; Part::file and
\* stream_with_length do not hold a part to the length they give.
Frames(op) ==
    \/ op.name = "header" /\ op.key = "content-length"
    \/ op.name = "headers" /\ "content-length" \in Names(op.value)
    \/ op.name = "emulation" /\ "content-length" \in Names(op.value.headers)
    \/ /\ op.name = "multipart"
       /\ \E i \in DOMAIN op.value.fields : op.value.fields[i].part.body_length # None

Build(c, op) ==
    /\ call[c].phase = "building"
    /\ call[c].ops < MaxOps
    /\ LET state == call[c]
           attaches == op.name \in {"form", "json", "body", "multipart"}
       IN  call' = [call EXCEPT ![c] = [state EXCEPT
               !.builder = Applied(state.builder, op),
               !.ops = state.ops + 1,
               !.bodies = IF attaches THEN state.bodies + 1 ELSE state.bodies,
               !.framed = state.framed \/ Frames(op)]]
    /\ UNCHANGED <<client, size, shrunk>>

-----------------------------------------------------------------------------
(***************************************************************************)
(* The future: cancellable(token, request_with_options(...)).              *)
(***************************************************************************)

Pending == {"start", "files", "sending", "head", "reading"}

\* The future is done; its value waits for the caller's thread.
Resolved(state, code) == [state EXCEPT !.phase = "resolved", !.result = code, !.polled = FALSE]

\* RequestBuilder::send and Client::execute: a builder error is returned at
\* once, then the scheme is checked and the defaults are merged.
Execute(state, builder) ==
    LET request == config_call(state.config, builder.request)
    IN  IF builder.error # None THEN Resolved(state, ErrorCode(builder.error))
        ELSE IF ~AllowedScheme(builder.request)
        THEN Resolved(state, ErrorCode(Error("Builder", {"BadScheme"})))
        ELSE [state EXCEPT !.phase = "sending", !.builder = Ok(request),
                           !.pieces = BodyOf(request).pieces]

RustSend(c) ==
    /\ call[c].phase = "building"
    /\ LET state == call[c]
           builder == IF state.spec.kind = "ws"
                      THEN ws_send(state.builder, state.spec.protocols, c) ELSE state.builder
       IN  call' = [call EXCEPT ![c] = Execute(state, builder)]
    /\ UNCHANGED <<client, size, shrunk>>

\* select! in cancellable is biased: a cancelled token ends the call before
\* the future is polled again, and the future is dropped.
Poll(c) ==
    /\ call[c].phase \in Pending /\ ~call[c].polled /\ ~call[c].token
    /\ call' = [call EXCEPT ![c].polled = TRUE]
    /\ UNCHANGED <<client, size, shrunk>>

Park(c) ==
    /\ call[c].phase \in Pending /\ call[c].polled /\ call[c].spec.signal
    /\ call' = [call EXCEPT ![c].polled = FALSE]
    /\ UNCHANGED <<client, size, shrunk>>

\* Only a future that was never polled looks at its token.
Cancelled_at_start(c) ==
    /\ call[c].phase = "start" /\ ~call[c].polled /\ call[c].token
    /\ call' = [call EXCEPT ![c] = Resolved(call[c], "CANCELLED")]
    /\ UNCHANGED <<client, size, shrunk>>

Cancelled(c) ==
    /\ call[c].phase \in Pending /\ ~call[c].polled /\ call[c].token
    /\ call' = [call EXCEPT ![c] = Resolved(call[c], "CANCELLED")]
    /\ UNCHANGED <<client, size, shrunk>>

\* stream_with_options up to the first await: refusals, then the builder with
\* its options and headers.
Conflicts(s) ==
    \/ ~s.method_valid
    \/ s.uri.scheme \notin {"http", "https"}
    \/ s.basic_auth # None /\ s.bearer_token # None
    \/ /\ s.basic_auth # None \/ s.bearer_token # None
       /\ \E i \in DOMAIN s.headers : s.headers[i][1] = "authorization"

Framing == {"content-length", "transfer-encoding"}

refusal(s) ==
    IF Conflicts(s) THEN "INVALID_REQUEST"
    ELSE IF s.timeout = 0 THEN "INVALID_CONFIG"
    ELSE IF HasFiles(s) /\ \E i \in DOMAIN s.headers : s.headers[i][1] \in Framing
    THEN "INVALID_REQUEST" ELSE None

AddHeaders(builder, headers) ==
    FoldLeft(LAMBDA b, h : header_sensitive(b, h[1], h[2]), builder, headers)

WithHeaders(builder, headers) ==
    IF headers = <<>> THEN builder
    ELSE orig_headers(AddHeaders(builder, headers), [i \in DOMAIN headers |-> headers[i][1]])

WithTimeout(builder, t) == IF t = None THEN builder ELSE timeout(builder, t)

Prepared(s) ==
    LET timed == WithTimeout(NewBuilder("POST", s.uri), s.timeout)
        limited == IF s.max_redirects = None THEN timed ELSE redirect(timed, s.max_redirects)
        basic == IF s.basic_auth = None THEN limited ELSE basic_auth(limited, s.basic_auth)
        bearer == IF s.bearer_token = None THEN basic ELSE bearer_auth(basic, s.bearer_token)
    IN  WithHeaders(bearer, PassedHeaders(s))

\* Client::websocket: subprotocols are tokens named once.
websocket_refusal(s) ==
    IF \/ s.uri.scheme \notin {"ws", "wss"}
       \/ Illegal \in Range(s.protocols) \/ ~IsInjective(s.protocols)
       \/ s.max_message = 0
    THEN "INVALID_REQUEST" ELSE IF s.timeout = 0 THEN "INVALID_CONFIG" ELSE None

Start(c) ==
    /\ call[c].phase = "start" /\ call[c].polled
    /\ LET state == call[c]
           s == state.spec
           refused == IF s.kind = "ws" THEN websocket_refusal(s) ELSE refusal(s)
           socket == ws_send(ws_new(AddHeaders(WithTimeout(NewBuilder("GET", s.uri), s.timeout),
                                               s.headers)), s.protocols, c)
       IN  call' = [call EXCEPT ![c] =
               IF refused # None THEN Resolved(state, refused)
               ELSE IF s.kind = "ws" THEN Execute(state, socket)
               ELSE [state EXCEPT !.phase = "files", !.builder = Prepared(s)]]
    /\ UNCHANGED <<client, size, shrunk>>

\* upload::file_body opens the file; it must be a regular one.
FileError(f) ==
    CASE f = "missing" -> "FILE_IO" [] f = "directory" -> "INVALID_REQUEST" [] OTHER -> None

\* One descriptor of a multipart request: a file is opened and measured, data
\* is a range of the passed body.
AddPart(c) ==
    /\ call[c].phase = "files" /\ call[c].polled
    /\ call[c].spec.multipart # None
    /\ LET state == call[c]
           parts == state.spec.multipart
           i == Len(state.form.fields) + 1
           p == parts[i]
           error == IF p.file # None /\ FileError(p.file) # None THEN FileError(p.file)
                    ELSE IF p.file = None /\ DataBefore(parts, i) > PassedBody(state.spec)
                    THEN "INVALID_REQUEST"
                    ELSE IF p.content_type = Illegal THEN "INVALID_REQUEST" ELSE None
           part == IF p.file = None THEN part_bytes(p.data)
                   ELSE stream_with_length(file_body(p.file, size[p.file]), size[p.file])
       IN  /\ i <= Len(parts)
           /\ call' = [call EXCEPT ![c] =
                  IF error # None THEN Resolved(state, error)
                  ELSE [state EXCEPT !.form = add_part(@, p.name,
                           mime(file_name(part, p.filename), p.content_type))]]
    /\ UNCHANGED <<client, size, shrunk>>

\* The rest of stream_with_options: the body is attached and the request sent.
Send(c) ==
    /\ call[c].phase = "files" /\ call[c].polled
    /\ LET state == call[c]
           s == state.spec
           f == s.body_file
           builder ==
               IF s.multipart # None THEN multipart(state.builder, state.form)
               ELSE IF f # None
               THEN set_body(header_sensitive(state.builder, "content-length", size[f]),
                             file_body(f, size[f]))
               ELSE IF PassedBody(s) # None THEN set_body(state.builder, Full(PassedBody(s)))
               ELSE state.builder
       IN  /\ s.multipart # None => Len(state.form.fields) = Len(s.multipart)
           /\ call' = [call EXCEPT ![c] =
                  IF f # None /\ FileError(f) # None THEN Resolved(state, FileError(f))
                  ELSE Execute(state, builder)]
    /\ UNCHANGED <<client, size, shrunk>>

-----------------------------------------------------------------------------
(***************************************************************************)
(* The exchange.  The protocol engine (wreq-proto) frames the body by the  *)
(* Content-Length it is given, or by the length of a body in memory.       *)
(***************************************************************************)

\* The lengths the request declares, None for a chunked body.
Declared(request) ==
    LET lengths == Range(Values(request.headers, "content-length"))
    IN  IF lengths # {} THEN lengths
        ELSE IF content_length(BodyOf(request)) = None THEN {}
        ELSE {content_length(BodyOf(request))}

\* The next bytes of the body: ReaderStream reads on until take() is used up
\* or the file ends, where it is at that moment.
WriteBody(c) ==
    /\ call[c].phase = "sending" /\ call[c].polled
    /\ call[c].pieces # <<>>
    /\ LET state == call[c]
           piece == Head(state.pieces)
           left == size[piece.file] - state.read
           room == IF piece.take = None THEN left ELSE piece.take - state.read
           n == Max({0, Min({left, room, ReadSize})})
       IN  call' = [call EXCEPT ![c] =
               IF piece.file = None
               THEN [state EXCEPT !.sent = @ + piece.take, !.pieces = Tail(@)]
               ELSE IF n = 0 THEN [state EXCEPT !.pieces = Tail(@), !.read = 0]
               ELSE [state EXCEPT !.sent = @ + n, !.read = @ + n]]
    /\ UNCHANGED <<client, size, shrunk>>

\* The body is at its end: a length other than the declared one breaks the
\* exchange.
EndBody(c) ==
    /\ call[c].phase = "sending" /\ call[c].polled
    /\ call[c].pieces = <<>>
    /\ LET state == call[c]
       IN  call' = [call EXCEPT ![c] =
               IF Declared(state.builder.request) \subseteq {state.sent}
               THEN [state EXCEPT !.phase = "head"]
               ELSE Resolved(state, ErrorCode(Error("Request", {"body"})))]
    /\ UNCHANGED <<client, size, shrunk>>

\* The version of the connection: pinned by the request, by the client's
\* preference, or what ALPN yields.
Spoken(state) ==
    IF Option(state.builder.request, "version") = "HTTP/2" \/ state.config.http_version_pref = "Http2"
    THEN {"HTTP/2"}
    ELSE IF Option(state.builder.request, "version") # None \/ state.config.http_version_pref = "Http1"
    THEN HTTP1 ELSE HTTP1 \cup {"HTTP/2"}

\* Response heads: a socket, a stream or a body that must still be read.
Answer(c, a) ==
    /\ call[c].phase = "head" /\ call[c].polled
    /\ a.version \in Spoken(call[c])
    /\ LET state == [call[c] EXCEPT !.response = a, !.chunks = a.chunks]
           s == state.spec
       IN  call' = [call EXCEPT ![c] =
               IF s.kind = "ws"
               THEN IF into_websocket(state.builder.request, s.protocols, a)
                    THEN [Resolved(state, "ok") EXCEPT !.handle = "open"]
                    ELSE Resolved(state, ErrorCode(Error("Upgrade", {})))
               ELSE IF s.kind = "stream"
               THEN [Resolved(state, "ok") EXCEPT !.handle = "open"]
               ELSE [state EXCEPT !.phase = "reading"]]
    /\ UNCHANGED <<client, size, shrunk>>

\* DecompressionLayer: a chunk of an accepted encoding grows.
Decoded(state, n) ==
    IF state.response.encoding \in Accepts(state.config, state.builder.request)
    THEN 3 * n ELSE n

\* A limit on each chunk.
exceeds_per_chunk(chunk, max, got) == chunk > max

\* request_with_options: saturating_sub keeps the room at zero.
exceeds(chunk, max, got) == chunk > Max({0, max - got})

ReadBody(c) ==
    /\ call[c].phase = "reading" /\ call[c].polled
    /\ LET state == call[c]
           chunk == Decoded(state, Head(state.chunks))
       IN  call' = [call EXCEPT ![c] =
               IF state.chunks = <<>> THEN Resolved(state, "ok")
               ELSE IF state.spec.api # "rust" /\ exceeds(chunk, state.max, state.got)
               THEN Resolved(state, "BODY_TOO_LARGE")
               ELSE [state EXCEPT !.got = @ + chunk, !.chunks = Tail(@)]]
    /\ UNCHANGED <<client, size, shrunk>>

\* The exchange fails: no connection, a reset, a timeout.
Fail(c, e) ==
    /\ call[c].phase \in {"sending", "head", "reading"} /\ call[c].polled
    /\ call' = [call EXCEPT ![c] = Resolved(call[c], ErrorCode(e))]
    /\ UNCHANGED <<client, size, shrunk>>

-----------------------------------------------------------------------------
(***************************************************************************)
(* Back on the caller's thread.                                            *)
(***************************************************************************)

Closed(state) ==
    [state EXCEPT !.handle = IF state.handle = "none" THEN "none" ELSE "closed"]

\* A continuation that trusts the token to have stopped the call.
Continue_unchecked(c) ==
    /\ call[c].phase = "resolved"
    /\ LET state == call[c]
       IN  call' = [call EXCEPT ![c] =
               IF state.result # "ok" THEN Settled(state, state.result)
               ELSE IF state.handle = "open" THEN [state EXCEPT !.phase = "handed"]
               ELSE Settled(state, "ok")]
    /\ UNCHANGED <<client, size, shrunk>>

\* The call returns to its caller.  Node looks at the signal once more: a
\* result that arrives after the abort is closed, not handed out.
Continue(c) ==
    /\ call[c].phase = "resolved"
    /\ LET state == call[c]
       IN  call' = [call EXCEPT ![c] =
               IF state.result # "ok" THEN Settled(state, state.result)
               ELSE IF state.spec.signal /\ state.aborted
               THEN Settled(Closed(state), "CANCELLED")
               ELSE IF state.handle = "open" THEN [state EXCEPT !.phase = "handed"]
               ELSE Settled(state, "ok")]
    /\ UNCHANGED <<client, size, shrunk>>

\* controller.abort(), before, during or after the call.  The listener fires
\* once: it cancels the token and closes what the WeakRef still reaches.
Abort(c) ==
    /\ ~call[c].aborted
    /\ call[c].phase # "idle" => call[c].spec.signal
    /\ call[c].phase # "settled"
    /\ LET state == call[c]
           reached == IF state.phase = "handed" THEN Closed(state) ELSE state
       IN  call' = [call EXCEPT ![c] =
               IF state.phase = "idle" \/ ~state.listener THEN [state EXCEPT !.aborted = TRUE]
               ELSE [reached EXCEPT !.aborted = TRUE, !.token = TRUE, !.listener = FALSE]]
    /\ UNCHANGED <<client, size, shrunk>>

\* asyncio cancels the task: the future is dropped, or the result nobody took.
CancelTask(c) ==
    /\ call[c].phase \in Pending \cup {"resolved"}
    /\ call[c].spec.async
    /\ call' = [call EXCEPT ![c] = Settled(Closed(call[c]), "CancelledError")]
    /\ UNCHANGED <<client, size, shrunk>>

\* The handle ends: end of the stream or the peer's Close, an error of a read
\* (nextChunk and recv), the caller's close or abort: all remove the listener.
EndHandle(c) ==
    /\ call[c].phase = "handed" /\ call[c].handle = "open"
    /\ call' = [call EXCEPT ![c] = [Closed(call[c]) EXCEPT !.listener = FALSE]]
    /\ UNCHANGED <<client, size, shrunk>>

\* WebSocket.send fails: the core aborts the socket, the listener stays.
SendFails(c) ==
    /\ call[c].phase = "handed" /\ call[c].handle = "open" /\ call[c].spec.kind = "ws"
    /\ call' = [call EXCEPT ![c] = Closed(call[c])]
    /\ UNCHANGED <<client, size, shrunk>>

\* WebSocket.close waits for the peer; a recv that fails meanwhile removes the
\* listener before the socket is closed.
CloseSocket(c) ==
    /\ call[c].phase = "handed" /\ call[c].handle = "open" /\ call[c].spec.kind = "ws"
    /\ call' = [call EXCEPT ![c].handle = "closing"]
    /\ UNCHANGED <<client, size, shrunk>>

RecvWhileClosing(c) ==
    /\ call[c].phase = "handed" /\ call[c].handle = "closing"
    /\ call' = [call EXCEPT ![c].listener = FALSE]
    /\ UNCHANGED <<client, size, shrunk>>

SocketClosed(c) ==
    /\ call[c].phase = "handed" /\ call[c].handle = "closing"
    /\ call' = [call EXCEPT ![c] = [Closed(call[c]) EXCEPT !.listener = FALSE]]
    /\ UNCHANGED <<client, size, shrunk>>

-----------------------------------------------------------------------------
(***************************************************************************)
(* Another process writes to a file.                                       *)
(***************************************************************************)

Append1(f) ==
    /\ size[f] < MaxSize
    /\ size' = [size EXCEPT ![f] = @ + 1]
    /\ UNCHANGED <<client, shrunk, call>>

Truncate(f) ==
    /\ size[f] > 0
    /\ size' = [size EXCEPT ![f] = 0]
    /\ shrunk' = shrunk \cup {f}
    /\ UNCHANGED <<client, call>>

-----------------------------------------------------------------------------

Next ==
    \/ \E s \in ClientSpecs : NewClient(s)
    \/ CloseClient
    \/ \E f \in Files : Append1(f) \/ Truncate(f)
    \/ \E c \in Calls :
        \/ \E s \in Specs : Call(c, s) \/ CallRust(c, s)
        \/ \E i \in DOMAIN BuilderOps : Build(c, BuilderOps[i])
        \/ RustSend(c)
        \/ Poll(c) \/ Park(c) \/ Cancelled(c)
        \/ Start(c) \/ AddPart(c) \/ Send(c)
        \/ WriteBody(c) \/ EndBody(c)
        \/ \E a \in Answers : Answer(c, a)
        \/ ReadBody(c)
        \/ \E e \in EngineErrors : Fail(c, e)
        \/ Continue(c) \/ Abort(c) \/ CancelTask(c)
        \/ EndHandle(c) \/ SendFails(c) \/ CloseSocket(c)
        \/ RecvWhileClosing(c) \/ SocketClosed(c)

\* The runtime polls a future that was woken, a cancelled token wakes it, and
\* the event loop runs the continuation of a settled promise.
Fairness ==
    \A c \in Calls : WF_vars(Park(c)) /\ WF_vars(Cancelled(c)) /\ WF_vars(Continue(c))

Spec == Init /\ [][Next]_vars /\ Fairness

-----------------------------------------------------------------------------
(***************************************************************************)
(* Properties.                                                             *)
(***************************************************************************)

Running(c) == call[c].phase \in {"sending", "head", "reading", "resolved", "handed"}

\* A body never carries more bytes than the request declared, although files
\* may grow between upload::file_body's stat and the last read, and it carries
\* exactly those at its end unless a file lost bytes (compute_length against
\* into_stream).  Requests whose caller declared a length for a body in memory, or
\* replaced one body by another, are the caller's.
BodyAsDeclared ==
    \A c \in Calls : Running(c) /\ call[c].builder.request # None =>
        LET s == call[c].spec
            own == \/ s.api = "rust" /\ (call[c].bodies > 1 \/ call[c].framed)
                   \/ ~HasFiles(s) /\ \E i \in DOMAIN s.headers :
                                           s.headers[i][1] = "content-length"
        IN  own \/ \A n \in Declared(call[c].builder.request) :
                /\ call[c].sent <= n
                /\ call[c].phase = "sending" /\ call[c].pieces = <<>> /\ shrunk = {} =>
                       call[c].sent = n

\* The Authorization line that credentials in the URL become.
Userinfo(s) ==
    IF s.uri.user = None THEN <<>>
    ELSE <<<<"authorization", [scheme |-> "Basic", token |-> s.uri.user]>>>>

\* Every header line the caller of request or stream gave is written once, in the
\* caller's order for its name and of the names, ahead of all others, and no
\* default of the client rides along with it, over HTTP/1 and HTTP/2
\* (replace_headers, OrigHeaderMap::call_visit and call).  Only credentials in the
\* URL go ahead of an Authorization the caller gave: both lines are sent.
HeadersKept ==
    \A c \in Calls : call[c].phase \in {"sending", "head"} /\ call[c].spec.api # "rust"
                     /\ call[c].spec.kind # "ws" =>
        LET given == PassedHeaders(call[c].spec)
            names == {given[i][1] : i \in DOMAIN given}
            expected == SelectSeq(Userinfo(call[c].spec), LAMBDA l : l[1] \in names) \o given
            headers == call[c].builder.request.headers
            orig == Option(call[c].builder.request, "orig_headers")
            First(lines, n) == CHOOSE i \in DOMAIN lines :
                                   lines[i][1] = n /\ \A k \in 1 .. i - 1 : lines[k][1] # n
        IN  \A lines \in {call_visit(orig, headers), Lines(call_sorted(orig, headers))} :
                /\ \A n \in names :
                       SelectSeq(lines, LAMBDA l : l[1] = n)
                           = SelectSeq(expected, LAMBDA l : l[1] = n)
                /\ \A n, m \in names :
                       First(given, n) < First(given, m) => First(lines, n) < First(lines, m)
                /\ \A i \in DOMAIN lines : lines[i][1] \in names <=> i <= Len(expected)

\* A WebSocket is only handed out by a peer that answered this handshake: it
\* derived Sec-WebSocket-Accept from the nonce, or accepted the HTTP/2 CONNECT,
\* and agreed to a subprotocol that was offered (into_websocket, whatever
\* HTTP version the client prefers).
HandshakeProven ==
    \A c \in Calls : call[c].phase # "idle" /\ call[c].spec.kind = "ws" /\ call[c].handle # "none" =>
        LET r == call[c].response
            request == call[c].builder.request
        IN  /\ \/ r.status = 101 /\ r.accept = c
               \/ r.version = "HTTP/2" /\ request.method = "CONNECT" /\ r.status = 200
            /\ IF call[c].spec.protocols = <<>> THEN r.protocol = None
               ELSE \E i \in DOMAIN call[c].spec.protocols : call[c].spec.protocols[i] = r.protocol

\* max_response_bytes bounds the body after decoding, however it is cut into
\* chunks, and refuses no body that fits (request_with_options).
LimitExact ==
    \A c \in Calls : call[c].phase # "idle" /\ call[c].spec.api # "rust" /\ call[c].response # None =>
        LET total == FoldLeft(LAMBDA sum, n : sum + Decoded(call[c], n), 0, call[c].response.chunks)
        IN  /\ call[c].got <= call[c].max
            /\ call[c].result = "BODY_TOO_LARGE" => total > call[c].max

\* A socket that is closing: nobody told it that the signal fired.
Unheard(c) ==
    call[c].spec.kind = "ws" /\ call[c].handle = "closing" /\ ~call[c].token

\* Once the AbortSignal of a Node call fired, the stream or socket its caller
\* holds is closed, and a signal that had fired before the call sends nothing (the
\* listener, the WeakRef and the last look at signal.aborted in client.cjs).  The
\* one exception is a socket that was closing and whose listener a failed recv
\* had removed.
AbortHonoured ==
    \A c \in Calls : call[c].phase # "idle" /\ call[c].aborted =>
        /\ call[c].phase = "handed" => call[c].handle = "closed" \/ Unheard(c)
        /\ call[c].early => call[c].builder.request = None

\* docs/native-bindings.md:192: "Node 还接受 signal，连接前后均可取消" (the signal
\* cancels before and after the connection is made), and :217: abort releases the
\* connection at once.
AbortClosesSocket ==
    \A c \in Calls : call[c].phase = "handed" /\ call[c].aborted /\ call[c].spec.kind = "ws" =>
        call[c].handle = "closed"

\* An aborted call ends: the token wakes the future, which is dropped wherever
\* it waits, and the promise is rejected or its result closed.
AbortSettles ==
    \A c \in Calls :
        (call[c].phase \in Pending \cup {"resolved"} /\ call[c].aborted)
            ~> call[c].phase = "settled"
==============================================================================
