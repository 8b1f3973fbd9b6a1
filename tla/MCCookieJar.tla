----------------------------- MODULE MCCookieJar -----------------------------
(* A small instance of CookieJar: a registrable name, a name under it, an     *)
(* address; plain and Secure cookies of one name at several paths.            *)
EXTENDS CookieJar

Site == [kind |-> "domain", labels |-> <<"example", "com">>]
Sub == [kind |-> "domain", labels |-> <<"www", "example", "com">>]
Address == [kind |-> "ip", labels |-> <<"10">>]

MCUris ==
    {[scheme |-> "http", host |-> Site, path |-> <<"a", "b">>],
     [scheme |-> "https", host |-> Sub, path |-> <<"a", "b">>],
     [scheme |-> "https", host |-> Address, path |-> Root]}

Plain(value) == [name |-> "sid", value |-> value, domain |-> None, path |-> None,
                 secure |-> FALSE, maxAge |-> None, expires |-> None]

MCResponses ==
    {<<>>,
     <<[Plain("x") EXCEPT !.maxAge = 1]>>,
     <<[Plain("x") EXCEPT !.domain = Site, !.path = Root]>>,
     <<[Plain("x") EXCEPT !.domain = Site, !.secure = TRUE, !.expires = 1]>>,
     <<[Plain("y") EXCEPT !.domain = Site]>>,
     <<[Plain("y") EXCEPT !.domain = Site, !.path = <<"a", "b">>]>>,
     <<[Plain("x") EXCEPT !.domain = Site, !.maxAge = 0, !.expires = 1]>>,
     <<None, [Plain("y") EXCEPT !.path = <<"a", "">>], Plain("x")>>}

MCNames == {"sid"}
=============================================================================
