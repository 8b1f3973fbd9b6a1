----------------------------- MODULE MCConnector -----------------------------
(* A small instance of Connector: one https and one http target, a name under *)
(* a bypassed domain, proxies of every kind.                                  *)
EXTENDS Connector

CONSTANTS a1, a2

Host(name) == [kind |-> "domain", labels |-> <<name, "test">>]
Site == Host("site")
P1 == Host("p1")
P2 == Host("p2")
Sock == [kind |-> "unix", labels |-> <<"sock">>]

ProxyUri(scheme, host) == [scheme |-> scheme, host |-> host, user |-> None]

Bypass == from_string(<<[kind |-> "domain", labels |-> <<"site", "test">>], None>>)

TlsProxy == into_matcher(custom_http_headers(
    basic_auth(NewProxy("all", ProxyUri("https", P1)), "secret1"), "custom1"))
PlainProxy == into_matcher(no_proxy(
    basic_auth(NewProxy("all", ProxyUri("http", P2)), "secret2"), Bypass))
TokenProxy == into_matcher(custom_http_auth(NewProxy("http", ProxyUri("http", P1)), "token"))
FtpProxy == into_matcher(NewProxy("https", ProxyUri("ftp", P2)))
Socks == into_matcher(basic_auth(NewProxy("https", ProxyUri("socks5h", P2)), "secret3"))
Unix == into_matcher(NewProxy("unix", Sock))
Cgi == system([isCgi |-> TRUE, all |-> ProxyUri("http", P1), http |-> None, https |-> None,
               no |-> <<>>])

Descriptor(scheme, host, version, proxy, emulate) ==
    [uri |-> [scheme |-> scheme, host |-> host], version |-> version, proxy |-> proxy,
     emulate |-> emulate, bind |-> None]

MCDescriptors ==
    {Descriptor("https", Site, None, None, None),
     Descriptor("https", Site, None, TlsProxy, "old"),
     Descriptor("http", Site, None, None, None),
     [Descriptor("http", Site, None, None, None) EXCEPT
         !.bind = [ip |-> "10.0.0.2", interface |-> None]],
     Descriptor("http", Site, "HTTP/2", TlsProxy, None),
     Descriptor("https", Site, None, Socks, "old"),
     Descriptor("https", Site, None, Unix, None)}

Base == [proxies |-> <<FtpProxy, Cgi>>, nodelay |-> TRUE,
         timeout |-> TRUE, layers |-> FALSE, alpn |-> None,
         tls |-> [psk |-> TRUE, alpn |-> {"h2"}],
         bind |-> [ip |-> None, interface |-> "eth0"]]

MCConfigs ==
    {Base,
     [Base EXCEPT !.nodelay = FALSE, !.layers = TRUE, !.alpn = "http/1.1",
                  !.proxies = <<PlainProxy, TokenProxy>>, !.tls.psk = FALSE]}

MCProfiles == [old |-> [psk |-> FALSE, alpn |-> {"http/1.1"}]]

MCAnswers ==
    {<<"200", "h", "end", "x">>, <<"200", "h", "h", "end">>, <<"407", "end">>, <<"200">>,
     <<"bad">>}
MCSessionIds == {"s1", "s2"}

MCAttempts == {a1, a2}
=============================================================================
