-------------------------- MODULE MCRequestLayers --------------------------
(* Small instances of RequestLayers: two hosts, the schemes that matter and  *)
(* a client for each mechanism.                                             *)
EXTENDS RequestLayers

MCUris == {[scheme |-> "https", host |-> "a"], [scheme |-> "https", host |-> "b"],
           [scheme |-> "http", host |-> "a"], [scheme |-> "ftp", host |-> "a"]}

Home == [scheme |-> "https", host |-> "a"]

Plain == [policy |-> [kind |-> "limit", max |-> 2], httpsOnly |-> FALSE,
          referer |-> TRUE, total |-> Off, read |-> Off, retry |-> never,
          defaultCreds |-> TRUE]

MCConfigs ==
    {Plain,
     [Plain EXCEPT !.httpsOnly = TRUE, !.policy.max = 1, !.read = 2],
     [Plain EXCEPT !.policy.kind = "custom", !.referer = FALSE, !.httpsOnly = TRUE],
     [Plain EXCEPT !.policy.kind = "none", !.read = 1, !.total = 2,
                   !.retry = classify_fn(for_host("b"))],
     [Plain EXCEPT !.policy.max = 1,
                   !.retry = max_retries_per_request(
                                 classify_fn(max_extra_load(for_host("a"), 1)), 3)],
     [Plain EXCEPT !.policy.kind = "custom", !.total = 2, !.retry = default]}

Get == [uri |-> Home, method |-> "GET", body |-> "empty", creds |-> FALSE,
        referer |-> Home, policy |-> None, total |-> Off, read |-> Off,
        defaults |-> TRUE]

MCRequests ==
    {Get,
     [Get EXCEPT !.uri.scheme = "ftp", !.policy = [kind |-> "limit", max |-> 1]],
     [Get EXCEPT !.method = "HEAD", !.defaults = FALSE, !.referer = None],
     [Get EXCEPT !.method = "POST", !.body = "bytes", !.total = 1, !.creds = TRUE],
     [Get EXCEPT !.method = "POST", !.body = "stream", !.read = 1]}

MCReferrerHeaders == {<<>>, <<"no-referrer">>, <<"unsafe-url", "origin">>,
                      <<"unsafe-url", "unknown">>}
=============================================================================
