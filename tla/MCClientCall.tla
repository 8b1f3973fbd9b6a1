---------------------------- MODULE MCClientCall -----------------------------
(* A small instance of ClientCall: one call of every kind, one file of at most *)
(* two bytes, answers that pass and fail every test.                           *)
EXTENDS ClientCall

CONSTANTS c1

MCCalls == {c1}

MCFiles == {"f1"}

Http == [scheme |-> "http", user |-> None, query |-> None]
Ws == [Http EXCEPT !.scheme = "ws"]

Plain ==
    [api |-> "node", kind |-> "request", signal |-> FALSE, async |-> FALSE,
     method_valid |-> TRUE, uri |-> Http, headers |-> <<>>, body |-> None, json |-> None,
     form |-> None, multipart |-> None, body_file |-> None, basic_auth |-> None,
     bearer_token |-> None, timeout |-> None, max_redirects |-> None,
     bad_options |-> FALSE, protocols |-> <<>>, max_message |-> None]

Python == [Plain EXCEPT !.api = "python"]
Rust == [Plain EXCEPT !.api = "rust"]

DataPart == [name |-> [len |-> 1, special |-> 0], data |-> 2, file |-> None,
             filename |-> None, content_type |-> None]
FilePart == [DataPart EXCEPT !.name.special = 1, !.data = None, !.file = "f1",
                             !.filename = 3, !.content_type = 4]

Socket == [Plain EXCEPT !.kind = "ws", !.uri = Ws]

Sent ==
    {[Plain EXCEPT !.signal = TRUE, !.body = 1],
     [Plain EXCEPT !.signal = TRUE, !.kind = "stream", !.json = 1],
     [Python EXCEPT !.async = TRUE, !.body_file = "f1", !.timeout = 1],
     [Python EXCEPT !.multipart = <<DataPart, FilePart, DataPart>>, !.max_redirects = 1],
     [Python EXCEPT !.form = 2, !.headers = <<<<"content-type", "text">>>>],
     [Python EXCEPT !.body = 1, !.headers = <<<<"content-length", 2>>>>],
     [Python EXCEPT !.async = TRUE, !.kind = "stream", !.basic_auth = "u"],
     [Plain EXCEPT !.basic_auth = "u",
                   !.headers = <<<<"x", "1">>, <<"user-agent", "mine">>, <<"x", "2">>>>],
     [Plain EXCEPT !.uri.user = "u", !.bearer_token = "t"],
     [Plain EXCEPT !.uri.user = "u", !.headers = <<<<"x", "1">>, <<"authorization", "t">>>>],
     [Socket EXCEPT !.signal = TRUE, !.protocols = <<"p", "q">>],
     [Socket EXCEPT !.api = "python"],
     Rust,
     [Rust EXCEPT !.kind = "ws", !.uri = Ws, !.protocols = <<"p">>]}

Refused ==
    {[Plain EXCEPT !.body = 1, !.json = 1],
     [Plain EXCEPT !.bad_options = TRUE],
     [Python EXCEPT !.multipart = <<[DataPart EXCEPT !.file = "f1"]>>],
     [Python EXCEPT !.method_valid = FALSE],
     [Python EXCEPT !.timeout = 0],
     [Python EXCEPT !.basic_auth = "u", !.headers = <<<<"authorization", "t">>>>],
     [Python EXCEPT !.headers = <<<<"x", Illegal>>>>],
     [Python EXCEPT !.body_file = "f1", !.headers = <<<<"content-length", 1>>>>],
     [Python EXCEPT !.body_file = "missing"],
     [Python EXCEPT !.body_file = "directory"],
     [Python EXCEPT !.multipart = <<[FilePart EXCEPT !.file = "missing"]>>],
     [Python EXCEPT !.multipart = <<[FilePart EXCEPT !.content_type = Illegal]>>],
     [Socket EXCEPT !.protocols = <<"p", "p">>],
     [Rust EXCEPT !.uri.scheme = None]}

MCSpecs == Sent \cup Refused

Profile == [tls |-> [min |-> 0, max |-> 3, alpn |-> <<"h2">>],
            http2 |-> [window |-> 1, connection_window |-> None, frame |-> None, pseudo |-> None],
            headers |-> <<[name |-> "user-agent", values |-> <<"browser">>]>>, orig |-> <<"user-agent">>]

Options ==
    [random_tls |-> FALSE, random_tls_seed |-> None, tls |-> None, profile |-> None,
     platform |-> None, decompress |-> None, cookies |-> None, max_redirects |-> 0,
     user_agent |-> None, http_version |-> None, http2 |-> None]

MCClientSpecs ==
    {[timeout |-> 1, max |-> 3, options |-> Options],
     [timeout |-> 1, max |-> 2, options |-> [Options EXCEPT
         !.profile = Profile, !.http_version = "2", !.decompress = FALSE,
         !.tls = [min |-> 2, max |-> None, alpn |-> None]]],
     [timeout |-> 1, max |-> 3, options |-> [Options EXCEPT
         !.random_tls = TRUE, !.http_version = "1.1", !.user_agent = "agent",
         !.http2 = [window |-> None, connection_window |-> 65535, frame |-> 16384,
                    pseudo |-> <<"method", "path", "scheme", "authority">>]]],
     [timeout |-> 1, max |-> 3, options |-> [Options EXCEPT !.user_agent = Illegal]],
     [timeout |-> 0, max |-> 3, options |-> Options],
     [timeout |-> 1, max |-> 3, options |-> [Options EXCEPT !.random_tls = TRUE,
                                                            !.profile = Profile]]}

OneField == add_part(NewForm, [len |-> 2, special |-> 1], part_bytes(1))
TwoFields == add_part(OneField, [len |-> 1, special |-> 0], part_bytes(2))

MCBuilderOps ==
    <<[name |-> "header", key |-> "x", value |-> "v"],
      [name |-> "header", key |-> "x", value |-> Illegal],
      [name |-> "headers", value |-> <<[name |-> "x", values |-> <<"w">>]>>],
      [name |-> "auth", value |-> "t"],
      [name |-> "default_headers", value |-> FALSE],
      [name |-> "form", value |-> 1],
      [name |-> "json", value |-> Illegal],
      [name |-> "body", value |-> Full(2)],
      [name |-> "body", value |-> wrap_stream(<<Bytes(1)>>)],
      [name |-> "multipart", value |-> NewForm],
      [name |-> "multipart", value |-> TwoFields],
      [name |-> "query", value |-> <<"q">>],
      [name |-> "version", value |-> "HTTP/2"],
      [name |-> "version", value |-> "HTTP/3"],
      [name |-> "accept_encoding", value |-> {}],
      [name |-> "proxy", value |-> "p"],
      [name |-> "emulation", value |-> Profile]>>

Page == [version |-> "HTTP/1.1", status |-> 200, connection |-> <<>>, upgrade |-> None,
         accept |-> None, protocol |-> None, encoding |-> None, chunks |-> <<2, 1>>]
Switch == [Page EXCEPT !.status = 101, !.connection = <<"keep-alive, ", "upgrade">>, !.upgrade = "websocket",
                       !.accept = c1, !.chunks = <<>>]

MCAnswers ==
    {Page, [Page EXCEPT !.chunks = <<2, 2>>], [Page EXCEPT !.encoding = "gzip", !.chunks = <<1>>],
     [Page EXCEPT !.encoding = "gzip", !.chunks = <<1, 1>>],
     [Page EXCEPT !.version = "HTTP/2", !.chunks = <<1>>],
     [Page EXCEPT !.version = "HTTP/2", !.protocol = "p", !.chunks = <<>>],
     Switch, [Switch EXCEPT !.protocol = "q"], [Switch EXCEPT !.protocol = "r"],
     [Switch EXCEPT !.accept = "wrong"], [Switch EXCEPT !.connection = <<"close">>],
     [Switch EXCEPT !.connection = <<"no", "upgrade">>, !.protocol = "p"]}

MCEngineErrors ==
    {Error("Request", {"TimedOut", "Connect"}), Error("Request", {"Connect", "DnsError"}),
     Error("Request", {"Connect"}), Error("Request", {"ProxyConnect"}),
     Error("Body", {})}
==============================================================================
