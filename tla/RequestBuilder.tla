---------------------------- MODULE RequestBuilder ----------------------------
(***************************************************************************)
(* What a request is made of (src/src/client/request.rs, body.rs,          *)
(* multipart.rs, ws.rs, src/src/error.rs, util.rs, client.rs and the       *)
(* options of tlsurl-core): operators only, used by ClientCall.            *)
(*                                                                         *)
(* A header map is the sequence of its entries, each a name with its       *)
(* values, in the order the library keeps them.  A body is a sequence of   *)
(* pieces: so many bytes in memory, or a file of which at most `take`      *)
(* bytes are read (None: to its end).  Bytes are counted, not represented. *)
(***************************************************************************)
EXTENDS Integers, Sequences, FiniteSets, SequencesExt, TLC

CONSTANTS
    None,           \* Rust's Option::None
    Illegal         \* a value the conversion it goes through refuses

-----------------------------------------------------------------------------
(***************************************************************************)
(* Errors: a kind and the causes along the chain of sources.               *)
(***************************************************************************)

Error(kind, sources) == [kind |-> kind, sources |-> sources]

is_timeout(error) == error.sources \cap {"TimedOut", "proto timeout", "io timeout"} # {}

\* Not the errors of kind ProxyConnect.
is_connect(error) == "Connect" \in error.sources

is_dns(error) == "DnsError" \in error.sources

\* From<wreq::Error> for tlsurl_core::Error: the first test that holds.
ErrorCode(error) ==
    IF is_timeout(error) THEN "TIMEOUT"
    ELSE IF error.kind = "Builder" THEN "INVALID_REQUEST"
    ELSE IF error.kind = "Tls" THEN "TLS"
    ELSE IF is_dns(error) THEN "DNS"
    ELSE IF is_connect(error) THEN "CONNECT" ELSE "REQUEST"

-----------------------------------------------------------------------------
(***************************************************************************)
(* Header maps: entries in the order in which their names came, each with  *)
(* the values appended to it (the HeaderMap of the http crate).            *)
(***************************************************************************)

IsList(s) == s \in Seq(Range(s))

IsHeaderMap(headers) ==
    /\ IsList(headers)
    /\ \A i \in DOMAIN headers : DOMAIN headers[i] = {"name", "values"}
    /\ \A i, j \in DOMAIN headers : headers[i].name = headers[j].name => i = j

Names(headers) == {headers[i].name : i \in DOMAIN headers}

PlaceOf(headers, name) == CHOOSE i \in DOMAIN headers : headers[i].name = name

Values(headers, name) ==
    IF name \in Names(headers) THEN headers[PlaceOf(headers, name)].values ELSE <<>>

set_values(headers, name, values) ==
    IF name \in Names(headers) THEN [headers EXCEPT ![PlaceOf(headers, name)].values = values]
    ELSE Append(headers, [name |-> name, values |-> values])

insert(headers, name, value) == set_values(headers, name, <<value>>)

append(headers, name, value) == set_values(headers, name, Append(Values(headers, name), value))

or_insert(headers, name, value) ==
    IF name \in Names(headers) THEN headers ELSE insert(headers, name, value)

\* HeaderMap::remove: the last entry takes the place of the removed one.
remove(headers, name) ==
    IF name \notin Names(headers) THEN headers
    ELSE SubSeq([headers EXCEPT ![PlaceOf(headers, name)] = headers[Len(headers)]],
                1, Len(headers) - 1)

\* util::replace_headers: every name of src loses the values it had in dst.
replace_headers(dst, src) ==
    FoldLeft(LAMBDA h, entry : set_values(h, entry.name, entry.values), dst, src)

\* The header lines of a map.
Lines(headers) ==
    FlattenSeq([i \in DOMAIN headers |->
        [j \in DOMAIN headers[i].values |-> <<headers[i].name, headers[i].values[j]>>]])

\* An encoder that leaves the headers it has written in the map.
call_visit_keeps(orig, headers) ==
    FlattenSeq([i \in DOMAIN orig |-> Lines(SelectSeq(headers, LAMBDA h : h.name = orig[i]))])
        \o Lines(headers)

\* OrigHeaderMap::call_visit (HTTP/1): the named headers in their order, then
\* what is left in the map.
call_visit(orig, headers) ==
    LET Visit(acc, name) ==
            [lines |-> acc.lines \o Lines(SelectSeq(acc.left, LAMBDA h : h.name = name)),
             left |-> remove(acc.left, name)]
        visited == FoldLeft(Visit, [lines |-> <<>>, left |-> headers], orig)
    IN  visited.lines \o Lines(visited.left)

\* OrigHeaderMap::call (HTTP/2) sorts the map itself, unless there is nothing
\* to sort.
call_sorted(orig, headers) ==
    LET Move(acc, name) ==
            [sorted |-> FoldLeft(LAMBDA h, v : append(h, name, v), acc.sorted,
                                 Values(acc.left, name)),
             left |-> remove(acc.left, name)]
        moved == FoldLeft(Move, [sorted |-> <<>>, left |-> headers], orig)
    IN  IF Len(Lines(headers)) <= 1 \/ orig = <<>> THEN headers
        ELSE replace_headers(moved.sorted, moved.left)

-----------------------------------------------------------------------------
(***************************************************************************)
(* Bodies and multipart forms.                                             *)
(***************************************************************************)

Bytes(n) == [file |-> None, take |-> n]

NoBody == [kind |-> "none", pieces |-> <<>>]

Full(n) == [kind |-> "full", pieces |-> <<Bytes(n)>>]

wrap_stream(pieces) == [kind |-> "stream", pieces |-> pieces]

\* size_hint().exact(): only a body in memory knows its length.
content_length(body) == IF body.kind = "full" THEN body.pieces[1].take ELSE None

\* A body in memory is its bytes.
IsBody(body) ==
    /\ body.kind \in {"full", "stream"}
    /\ body.kind = "full" => content_length(body) \in Nat /\ body = Full(content_length(body))

\* An upload that reads its file to the end.
file_body_whole(file, length) == wrap_stream(<<[file |-> file, take |-> None]>>)

\* tlsurl-core's upload::file_body, once the file was opened and measured: an
\* appended file must not exceed its declared length.
file_body(file, length) == wrap_stream(<<[file |-> file, take |-> length]>>)

Boundary == 38                      \* gen_boundary: 22 + 16 characters

NewForm == [boundary |-> Boundary, fields |-> <<>>, percent_encoding |-> "PathSegment"]

\* A part's name is [len, special]: its bytes and how many the percent
\* encoding replaces by three.
NewPart(value, length) ==
    [value |-> value, body_length |-> length, mime |-> None, file_name |-> None]

stream_with_length(value, length) == NewPart(value, length)

part_bytes(n) == NewPart(Full(n), None)

file_name(p, name) == [p EXCEPT !.file_name = name]

mime(p, type) == [p EXCEPT !.mime = type]

value_len(p) == IF p.body_length # None THEN p.body_length ELSE content_length(p.value)

\* PercentEncoding::percent_encode: Borrowed when nothing had to be encoded.
percent_encode(mode, name) ==
    IF mode = "NoOp" \/ name.special = 0 THEN [owned |-> FALSE, len |-> name.len]
    ELSE [owned |-> TRUE, len |-> name.len + 2 * name.special]

\* The bytes of a part's header: Content-Disposition with name= or name*=,
\* filename= and Content-Type.
encode_headers(mode, name, p) ==
    LET encoded == percent_encode(mode, name)
    IN  32 + encoded.len + (IF encoded.owned THEN 13 ELSE 7)
        + (IF p.file_name = None THEN 0 ELSE 13 + p.file_name)
        + (IF p.mime = None THEN 0 ELSE 16 + p.mime)

add_part(form, name, p) ==
    [form EXCEPT !.fields = Append(@, [name |-> name, part |-> p])]

\* What a form holds: names and types as byte counts, values that are bodies.
IsField(field) ==
    /\ field.name.len \in Nat /\ field.name.special \in Nat
    /\ {field.part.file_name, field.part.mime, field.part.body_length} \subseteq Nat \cup {None}
    /\ IsBody(field.part.value)

IsForm(form) ==
    /\ form.boundary \in Nat /\ IsList(form.fields)
    /\ \A i \in DOMAIN form.fields : IsField(form.fields[i])

PartHeader(form, field) == encode_headers(form.percent_encoding, field.name, field.part)

\* Form::compute_length: None when the length of a part is not known.
compute_length(form) ==
    LET Length(field) == 2 + form.boundary + 2 + PartHeader(form, field) + 4
                         + value_len(field.part) + 2
    IN  IF \E i \in DOMAIN form.fields : value_len(form.fields[i].part) = None THEN None
        ELSE FoldLeft(LAMBDA sum, field : sum + Length(field), 0, form.fields)
             + (IF form.fields = <<>> THEN 0 ELSE 2 + form.boundary + 4)

\* Form::part_stream
part_stream(form, field) ==
    <<Bytes(2 + form.boundary + 2), Bytes(PartHeader(form, field) + 4)>>
        \o field.part.value.pieces \o <<Bytes(2)>>

\* Form::stream and into_stream
form_stream(form) ==
    IF form.fields = <<>> THEN Full(0)
    ELSE wrap_stream(FoldLeft(LAMBDA pieces, field : pieces \o part_stream(form, field),
                              <<>>, form.fields)
                     \o <<Bytes(2 + form.boundary + 4)>>)

-----------------------------------------------------------------------------
(***************************************************************************)
(* Requests.  A builder keeps the first error and ignores what follows.    *)
(***************************************************************************)

Ok(request) == [request |-> request, error |-> None]
Err(builder, error) == [builder EXCEPT !.error = error]

\* if let Ok(ref mut req) = self.request
OnOk(builder, Change(_)) ==
    IF builder.error # None THEN builder ELSE [builder EXCEPT !.request = Change(@)]

\* Request::new; options holds the per-request RequestConfig values.
NewRequest(method, uri) ==
    [method |-> method, uri |-> uri, headers |-> <<>>, body |-> NoBody,
     options |-> [n \in {} |-> None]]

With(options, name, value) ==
    [n \in DOMAIN options \cup {name} |-> IF n = name THEN value ELSE options[n]]

Option(request, name) == IF name \in DOMAIN request.options THEN request.options[name] ELSE None

set_option(builder, name, value) ==
    OnOk(builder, LAMBDA r : [r EXCEPT !.options = With(@, name, value)])

\* A value that is no legal header value turns the builder into an error.
header_sensitive(builder, name, value) ==
    IF builder.error = None /\ value = Illegal THEN Err(builder, Error("Builder", {}))
    ELSE OnOk(builder, LAMBDA r : [r EXCEPT !.headers = append(@, name, value)])

set_headers(builder, headers) ==
    OnOk(builder, LAMBDA r : [r EXCEPT !.headers = replace_headers(@, headers)])

orig_headers(builder, names) == set_option(builder, "orig_headers", names)

default_headers(builder, enable) == set_option(builder, "default_headers", enable)

auth(builder, token) == header_sensitive(builder, "authorization", token)

basic_auth(builder, user) == auth(builder, [scheme |-> "Basic", token |-> user])

bearer_auth(builder, token) == auth(builder, [scheme |-> "Bearer", token |-> token])

timeout(builder, t) == set_option(builder, "timeout", t)

redirect(builder, limit) ==
    set_option(builder, "redirect", IF limit = 0 THEN "none" ELSE limit)

version(builder, v) == set_option(builder, "version", v)

\* gzip, brotli, deflate and zstd of a single request
accept_encoding(builder, encodings) == set_option(builder, "accept_encoding", encodings)

proxy(builder, matcher) == set_option(builder, "proxy", matcher)

query(builder, pairs) ==
    OnOk(builder, LAMBDA r : [r EXCEPT !.uri.query = pairs])

\* IntoUri: a URI needs a scheme and an authority.
into_uri_fails(uri) == uri.scheme = None

\* extract_authority: the userinfo leaves the URI.
extract_authority(uri) == [uri EXCEPT !.user = None]

\* Client::request and RequestBuilder::new: userinfo becomes Basic credentials.
NewBuilder(method, uri) ==
    IF into_uri_fails(uri) THEN [request |-> None, error |-> Error("Builder", {"BadScheme"})]
    ELSE IF uri.user = None THEN Ok(NewRequest(method, uri))
    ELSE basic_auth(Ok(NewRequest(method, extract_authority(uri))), uri.user)

\* RequestBuilder::form and json: an encoder error is a builder error.
encoded_body(builder, type, n) ==
    IF builder.error = None /\ n = Illegal THEN Err(builder, Error("Builder", {}))
    ELSE OnOk(builder, LAMBDA r : [r EXCEPT !.headers = or_insert(@, "content-type", type),
                                            !.body = Full(n)])

form(builder, n) == encoded_body(builder, "application/x-www-form-urlencoded", n)
json(builder, n) == encoded_body(builder, "application/json", n)

set_body(builder, body) == OnOk(builder, LAMBDA r : [r EXCEPT !.body = body])

\* RequestBuilder::multipart: headers the caller set already are kept.
multipart(builder, f) ==
    LET Typed(h) == or_insert(h, "content-type", "multipart/form-data")
        Sized(h) == IF compute_length(f) = None THEN h
                    ELSE or_insert(h, "content-length", compute_length(f))
    IN  OnOk(builder, LAMBDA r : [r EXCEPT !.headers = Sized(Typed(@)),
                                           !.body = form_stream(f)])

\* RequestBuilder::emulation
emulation(builder, e) ==
    orig_headers(set_headers(set_option(builder, "emulation", e.tls), e.headers), e.orig)

\* From<Request> for http::Request<Body>
BodyOf(request) == IF request.body.kind = "none" THEN Full(0) ELSE request.body

-----------------------------------------------------------------------------
(***************************************************************************)
(* The WebSocket handshake.                                                *)
(***************************************************************************)

HTTP1 == {"HTTP/1.0", "HTTP/1.1"}

\* WebSocketRequestBuilder::new
ws_new(builder) == version(builder, "HTTP/1.1")

http_scheme(scheme) ==
    CASE scheme = "ws" -> "http" [] scheme = "wss" -> "https" [] OTHER -> scheme

\* WebSocketRequestBuilder::send up to client.execute
ws_send(builder, protocols, nonce) ==
    LET v == Option(builder.request, "version")
        Common(r) ==
            [r EXCEPT !.uri.scheme = http_scheme(@),
                      !.headers = insert(@, "sec-websocket-version", "13")]
        Http1(r) ==
            [r EXCEPT !.method = "GET",
                      !.headers = insert(insert(insert(@, "upgrade", "websocket"),
                                                "connection", "upgrade"),
                                         "sec-websocket-key", nonce),
                      !.options = With(@, "version", "HTTP/1.1")]
        Http2(r) == [r EXCEPT !.method = "CONNECT"]
        Offered(r) == IF protocols = <<>> THEN r
                      ELSE [r EXCEPT !.headers = insert(@, "sec-websocket-protocol", protocols)]
    IN  IF builder.error # None THEN builder
        ELSE IF v \in HTTP1 THEN OnOk(builder, LAMBDA r : Offered(Http1(Common(r))))
        ELSE IF v = "HTTP/2" THEN OnOk(builder, LAMBDA r : Offered(Http2(Common(r))))
        ELSE Err(builder, Error("Upgrade", {}))

\* The nonce derive_accept_key is applied to: none was sent with HTTP/2.
accept_key(request) ==
    IF "sec-websocket-key" \in Names(request.headers)
    THEN Values(request.headers, "sec-websocket-key")[1] ELSE None

\* header_contains looks for a word anywhere in the lower-cased text of a value,
\* which stands here cut into pieces such that the word is one of them; header_eq
\* compares the whole value.
header_contains(pieces, word) == word \in Range(pieces)
header_eq(value, expected) == value = expected

\* The (requested, replied) table of into_websocket.
protocol_agreed(protocols, replied) ==
    IF protocols = <<>> THEN replied = None ELSE replied \in Range(protocols)

\* wreq_proto::upgrade::on: HTTP/1 upgrades after 101, HTTP/2 after CONNECT.
upgradable(request, response) ==
    IF response.version = "HTTP/2" THEN request.method = "CONNECT" /\ response.status = 200
    ELSE response.status = 101

\* A handshake that takes any Sec-WebSocket-Accept.
into_websocket_any_accept(request, protocols, response) ==
    /\ IF response.version \in HTTP1
       THEN /\ response.status = 101
            /\ header_contains(response.connection, "upgrade")
            /\ header_eq(response.upgrade, "websocket")
            /\ response.accept # None
       ELSE response.version = "HTTP/2" /\ response.status = 200
    /\ protocol_agreed(protocols, response.protocol)
    /\ upgradable(request, response)

\* WebSocketResponse::into_websocket: is a socket handed out?
into_websocket(request, protocols, response) ==
    /\ IF response.version \in HTTP1
       THEN /\ response.status = 101
            /\ header_contains(response.connection, "upgrade")
            /\ header_eq(response.upgrade, "websocket")
            /\ accept_key(request) # None /\ response.accept = accept_key(request)
       ELSE response.version = "HTTP/2" /\ response.status = 200
    /\ protocol_agreed(protocols, response.protocol)
    /\ upgradable(request, response)

-----------------------------------------------------------------------------
(***************************************************************************)
(* Clients: ClientBuilder and the options tlsurl-core accepts.             *)
(***************************************************************************)

AllEncodings == {"gzip", "br", "deflate", "zstd"}

\* Client::builder(): what tells the calls of this model apart.
DefaultConfig ==
    [error |-> None, headers |-> <<>>, orig_headers |-> <<>>, accept_encoding |-> AllEncodings,
     timeout |-> None, http_version_pref |-> "All", cookie_store |-> FALSE,
     redirect |-> "none", auto_sys_proxy |-> TRUE, tls |-> None, http2 |-> None]

client_user_agent(config, agent) ==
    IF agent = Illegal THEN [config EXCEPT !.error = Error("Builder", {})]
    ELSE [config EXCEPT !.headers = insert(@, "user-agent", agent)]

\* no_gzip().no_brotli().no_deflate().no_zstd()
no_decompression(config) == [config EXCEPT !.accept_encoding = {}]

\* ClientBuilder::emulation
client_emulation(config, e) ==
    [config EXCEPT !.tls = e.tls, !.http2 = e.http2,
                   !.headers = replace_headers(@, e.headers),
                   !.orig_headers = @ \o e.orig]

http_only(config, v) ==
    [config EXCEPT !.http_version_pref = CASE v = "1.1" -> "Http1" [] v = "2" -> "Http2" [] OTHER -> @]

\* random_tls::options: shuffled lists within TLS 1.2 and 1.3, no tickets.
random_tls_options == [min |-> 2, max |-> 3, alpn |-> None]

\* TlsConfig::apply on top of the profile's options; versions are 0 .. 3.
tls_valid(tls) ==
    /\ {tls.min, tls.max} \subseteq (0 .. 3) \cup {None}
    /\ tls.min # None /\ tls.max # None => tls.min <= tls.max
    /\ tls.alpn = None \/ Range(tls.alpn) \subseteq {"h2", "http/1.1"}

tls_apply(tls, base) ==
    [f \in DOMAIN tls |-> IF tls[f] = None /\ base # None THEN base[f] ELSE tls[f]]

\* Http2Config::apply
MaxWindow == 2147483647
http2_valid(http2) ==
    /\ http2.window = None \/ http2.window <= MaxWindow
    /\ http2.connection_window = None \/ http2.connection_window \in 65535 .. MaxWindow
    /\ http2.frame = None \/ http2.frame \in 16384 .. 16777215
    /\ http2.pseudo = None \/ (Len(http2.pseudo) = 4 /\ Range(http2.pseudo) =
                               {"method", "scheme", "authority", "path"})

http2_apply(http2, base) ==
    [f \in DOMAIN http2 |-> IF http2[f] = None /\ base # None THEN base[f] ELSE http2[f]]

\* Client::with_options: refusals and their code, in any order the same.
options_valid(timeoutMs, maxBytes, o) ==
    /\ timeoutMs > 0 /\ maxBytes > 0
    /\ o.random_tls => o.tls = None /\ o.profile = None /\ o.platform = None
    /\ o.random_tls_seed # None => o.random_tls
    /\ o.platform # None => o.profile # None
    /\ o.http_version \in {None, "auto", "1.1", "2"}
    /\ o.tls = None \/ tls_valid(o.tls)
    /\ o.http2 = None \/ http2_valid(o.http2)

\* ... and the ClientBuilder calls of the options that are set.
with_options(timeoutMs, o) ==
    LET profiled == IF o.profile = None THEN DefaultConfig
                    ELSE client_emulation(DefaultConfig, o.profile)
        random == IF o.random_tls THEN [profiled EXCEPT !.tls = random_tls_options] ELSE profiled
        plain == IF o.decompress = FALSE THEN no_decompression(random) ELSE random
        based == [plain EXCEPT !.auto_sys_proxy = FALSE, !.timeout = timeoutMs,
                               !.cookie_store = o.cookies # FALSE,
                               !.redirect = IF o.max_redirects = 0 THEN "none" ELSE o.max_redirects]
        named == IF o.user_agent = None THEN based ELSE client_user_agent(based, o.user_agent)
        versioned == http_only(named, o.http_version)
        tls == IF o.tls = None THEN versioned
               ELSE [versioned EXCEPT !.tls = tls_apply(o.tls, @)]
    IN  IF o.http2 = None THEN tls ELSE [tls EXCEPT !.http2 = http2_apply(o.http2, @)]

-----------------------------------------------------------------------------
(***************************************************************************)
(* ConfigService: the scheme check and the client's default headers.       *)
(***************************************************************************)

AllowedScheme(request) == request.uri.scheme \in {"http", "https"}

\* The defaults come first and give way to the request's own headers.  A
\* request without an order of its headers takes the client's.
config_call(config, request) ==
    LET merged == IF Option(request, "default_headers") = FALSE THEN request.headers
                  ELSE replace_headers(config.headers, request.headers)
        orig == IF Option(request, "orig_headers") = None THEN config.orig_headers
                ELSE Option(request, "orig_headers")
    IN  [request EXCEPT !.headers = merged, !.options = With(@, "orig_headers", orig)]

\* DecompressionLayer: which encodings are decoded.
Accepts(config, request) ==
    IF Option(request, "accept_encoding") # None THEN Option(request, "accept_encoding")
    ELSE config.accept_encoding
===============================================================================
