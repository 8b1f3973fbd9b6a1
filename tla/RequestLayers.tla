--------------------------- MODULE RequestLayers ---------------------------
(***************************************************************************)
(* One call of Client::execute through the layers that ClientBuilder::build *)
(* stacks: Timeout(Config(Retry(FollowRedirect(HttpClient)))).  HttpClient  *)
(* and the server are the environment: they answer, fail or stay silent.    *)
(*                                                                         *)
(* A URI is its scheme and host (with the port); two URIs of one origin are *)
(* not told apart.  Of the headers the model keeps the credentials that    *)
(* remove_sensitive_headers removes (creds), the ones that describe a body  *)
(* (payload) and the Referer.  A body is the caller's ("full") or empty     *)
(* ("blank").  A timer is the number of ticks it has left.                 *)
(***************************************************************************)
EXTENDS Integers, Sequences, FiniteSets

CONSTANTS
    Uris,               \* records [scheme, host]
    Configs,            \* the clients under study
    Requests,           \* the requests given to them
    ReferrerHeaders,    \* the tokens a redirect may have in Referrer-Policy
    MaxHops,            \* bound: redirect answers to one attempt
    MaxTokens,          \* bound: capacity of the retry budget
    None                \* an absent URI, header, policy or result

Off == -1

Timeouts == (Nat \ {0}) \cup {Off}

Policies == [kind: {"none", "limit", "custom"}, max: Nat]

Hosts == {u.host : u \in Uris}

RetryPolicies == [budget: (0..MaxTokens) \cup {Off}, classifier: {"never", "nacks", "dyn"},
                  max_retries_per_request: Nat, scope: SUBSET Hosts]

ASSUME LayersAssumption ==
    /\ MaxHops \in Nat
    /\ MaxTokens \in Nat
    /\ Configs \subseteq
         [policy: Policies, httpsOnly: BOOLEAN, referer: BOOLEAN,
          total: Timeouts, read: Timeouts, retry: RetryPolicies, defaultCreds: BOOLEAN]
    /\ Requests \subseteq
         [uri: Uris, method: {"GET", "POST", "HEAD"},
          body: {"empty", "bytes", "stream"}, creds: BOOLEAN,
          referer: Uris \cup {None}, policy: Policies \cup {None},
          total: Timeouts, read: Timeouts, defaults: BOOLEAN]

VARIABLES
    cfg,        \* the client's configuration
    given,      \* the request as the caller made it
    pc,         \* where the call is
    req,        \* the request the redirect layer sent last
    sent,       \* the body that went with it
    repr,       \* BodyRepr: what is left to send again
    policy,     \* FollowRedirectPolicy of this attempt, None without one
    pending,    \* the redirect an asynchronous policy decides about
    kept,       \* the retry layer holds a copy of the request
    retryCnt,   \* RetryPolicy::retry_cnt
    budget,     \* tokens of TpsBudget, Off without one
    timers,     \* what is left of the total and the read timeout
    result,     \* what the call gave
    visited,    \* auxiliary: the URIs this attempt was sent to
    streamed,   \* auxiliary: how often the caller's body was sent
    elapsed     \* auxiliary: ticks since the call, while a total timeout is set

redirectVars == <<req, sent, repr, policy, pending, visited, streamed>>
retryVars == <<kept, retryCnt, budget>>
vars == <<cfg, given, pc, redirectVars, retryVars, timers, result, elapsed>>

-----------------------------------------------------------------------------
(* The timeout and config layers on the way in.                            *)

\* RequestConfig::fetch and load: a request's own setting overrides the client's.
Fetch(own, client, unset) == IF own = unset THEN client ELSE own

\* fetch_timeout_options.
TotalTimeout == Fetch(given.total, cfg.total, Off)

ReadTimeout == Fetch(given.read, cfg.read, Off)

\* ConfigService::call rejects a URI before anything is sent.
BadScheme(u) == \/ u.scheme \notin {"http", "https"}
                \/ cfg.httpsOnly /\ u.scheme # "https"

\* ConfigService::call merges the default headers unless the request opts out.
MergedCreds == given.creds \/ (given.defaults /\ cfg.defaultCreds)

-----------------------------------------------------------------------------
(* The redirect layer.                                                     *)

Redirects == {301, 303, 307}

\* same_origin, which also compares schemes and ports.
SameOrigin(u, v) == u = v

\* The Referrer of a request: its Referer header if it is an http(s) URL.
ReferrerOf(r) ==
    IF r.referer # None /\ r.referer.scheme \in {"http", "https"}
    THEN [uri |-> r.referer, full |-> TRUE] ELSE None

\* for_request: the request's policy overrides the client's; without a policy
\* the request goes to the inner service directly.
ForRequest ==
    LET chosen == Fetch(given.policy, cfg.policy, None) IN
    IF chosen.kind = "none" THEN None
    ELSE [kind |-> chosen.kind, max |-> chosen.max, uris |-> <<>>, history |-> 0,
          source |-> IF cfg.referer THEN ReferrerOf(given) ELSE None,
          referrerPolicy |-> "strict-origin-when-cross-origin"]

\* BodyRepr::try_clone_from on a fresh BodyRepr.
TryClone(kind) == CASE kind = "empty" -> "blank"
                    [] kind = "bytes" -> "full"
                    [] kind = "stream" -> "None"

\* What a redirect status makes of the request.
ToGet(r, status) ==
    \/ status = 301 /\ r.method = "POST"
    \/ status = 303

\* A layer that changes the method and forgets the headers.
RewrittenMethod(r, status) ==
    IF ~ToGet(r, status) THEN r
    ELSE [r EXCEPT !.method = IF @ = "HEAD" THEN @ ELSE "GET"]

Rewritten(r, status) ==
    IF ~ToGet(r, status) THEN r
    ELSE [r EXCEPT !.method = IF @ = "HEAD" THEN @ ELSE "GET", !.payload = FALSE]

\* A layer that compares hosts and forgets the scheme.
WithoutOnNewHost(r, uris) ==
    IF uris # <<>> /\ r.uri.host # uris[Len(uris)].host
    THEN [r EXCEPT !.creds = FALSE] ELSE r

\* remove_sensitive_headers: r goes to a URI reached from the last one in uris.
WithoutSensitive(r, uris) ==
    IF uris # <<>> /\ ~SameOrigin(r.uri, uris[Len(uris)])
    THEN [r EXCEPT !.creds = FALSE] ELSE r

\* Referrer::apply: the Referer that goes to the URI dest under a policy.
Applied(source, rp, dest) ==
    LET cross == ~SameOrigin(source.uri, dest)
        downgrade == source.uri.scheme = "https" /\ dest.scheme = "http"
        removed ==
            \/ rp = "no-referrer"
            \/ rp \in {"no-referrer-when-downgrade", "strict-origin"} /\ downgrade
            \/ rp = "same-origin" /\ cross
            \/ rp = "strict-origin-when-cross-origin" /\ cross /\ downgrade
        strip ==
            \/ rp \in {"origin", "strict-origin"}
            \/ /\ rp \in {"origin-when-cross-origin", "strict-origin-when-cross-origin"}
               /\ cross
    IN  IF source = None \/ removed THEN None
        ELSE [source EXCEPT !.full = @ /\ ~strip]

KnownPolicies ==
    {"no-referrer", "no-referrer-when-downgrade", "same-origin", "origin", "strict-origin",
     "origin-when-cross-origin", "strict-origin-when-cross-origin", "unsafe-url"}

\* ReferrerPolicy::from: the last token that names a policy counts.
NamedPolicy(tokens) ==
    LET known == SelectSeq(tokens, LAMBDA t : t \in KnownPolicies)
    IN  IF known = <<>> THEN None ELSE known[Len(known)]

\* Policy state after a redirect answer: the URI is remembered, and a referrer
\* policy that the response names replaces the last.
OnRedirect(p, answer) ==
    [p EXCEPT !.uris = Append(@, req.uri),
              !.referrerPolicy = IF NamedPolicy(answer.rp) = None THEN @
                                 ELSE NamedPolicy(answer.rp)]

\* The part of FollowRedirectPolicy::redirect that follows a decision to
\* follow: the scheme is checked and the hop recorded (history counts them).
Refused(u) == \/ u.scheme \notin {"http", "https"}
              \/ cfg.httpsOnly /\ u.scheme # "https"

Recorded(p) == [p EXCEPT !.history = @ + 1]

\* handle_action, Action::Follow: on_request and the next request.
Follow(p, r, u, body) ==
    LET source == IF cfg.referer THEN Applied(p.source, p.referrerPolicy, u) ELSE p.source
        bare == WithoutSensitive([r EXCEPT !.uri = u], p.uris)
    IN  /\ req' = IF cfg.referer THEN [bare EXCEPT !.referer = source] ELSE bare
        /\ policy' = [p EXCEPT !.source = source]
        /\ sent' = body
        /\ streamed' = streamed + (IF body = "full" THEN 1 ELSE 0)
        /\ visited' = Append(visited, u)
        /\ pending' = None
        /\ pc' = "sent"

\* FollowRedirect::call on the caller's request, for a first attempt or a retry.
Attempt ==
    LET first == [uri |-> given.uri, method |-> given.method,
                  payload |-> given.body # "empty", creds |-> MergedCreds,
                  referer |-> IF given.referer = None THEN None
                              ELSE [uri |-> given.referer, full |-> TRUE]]
        body == IF given.body = "empty" THEN "blank" ELSE "full"
    IN  /\ req' = first
        /\ sent' = body
        /\ repr' = TryClone(given.body)
        /\ policy' = ForRequest
        /\ pending' = None
        /\ visited' = <<given.uri>>
        /\ streamed' = streamed + (IF body = "full" THEN 1 ELSE 0)
        /\ pc' = "sent"

-----------------------------------------------------------------------------
(* The retry layer.                                                        *)

\* retry::Policy and its constructors.  A scope is the set of hosts it applies
\* to, a budget the tokens it starts with.
default == [budget |-> Off, classifier |-> "nacks", max_retries_per_request |-> 2,
            scope |-> Hosts]

scoped(hosts) == [budget |-> MaxTokens, classifier |-> "never",
                  max_retries_per_request |-> 2, scope |-> hosts]

no_budget(p) == [p EXCEPT !.budget = Off]

never == no_budget(scoped({}))

for_host(host) == scoped({host})

max_extra_load(p, tokens) == [p EXCEPT !.budget = tokens]

max_retries_per_request(p, max) == [p EXCEPT !.max_retries_per_request = max]

classify_fn(p) == [p EXCEPT !.classifier = "dyn"]

\* Scoped::applies_to, of the caller's request: retries send that one again.
InScope == given.uri.host \in cfg.retry.scope

\* A clone_request that forgets the scope.
CloneRequestAnywhere(cnt) ==
    /\ cnt < cfg.retry.max_retries_per_request
    /\ given.body # "stream"

\* clone_request: the scope is looked at only once a retry has been counted.
CloneRequest(cnt) ==
    /\ cnt = 0 \/ InScope
    /\ cnt < cfg.retry.max_retries_per_request
    /\ given.body # "stream"

\* is_retryable_error: the server refused the stream or is shutting down.
IsRetryableError(f) ==
    /\ f.remote
    /\ \/ f.event = "goAway" /\ f.reason = "NO_ERROR"
       \/ f.event = "reset" /\ f.reason = "REFUSED_STREAM"

\* Classifier::classify: what a custom classifier says is the caller's choice.
Classify(res) == CASE cfg.retry.classifier = "never" -> {FALSE}
                   [] cfg.retry.classifier = "nacks" -> {res = "nack"}
                   [] cfg.retry.classifier = "dyn" -> BOOLEAN

\* TpsBudget::withdraw and deposit.
Withdraw == budget # 0

Spent == IF budget = Off THEN Off ELSE budget - 1

Deposited == IF budget \in {Off, MaxTokens} THEN budget ELSE budget + 1

\* TimeoutBody::new: the total timeout starts again, the read timeout waits for
\* the first poll.
BodyTimers == [total |-> TotalTimeout, read |-> Off]

\* The response reaches the timeout layer, which arms the body's timers; the
\* futures of the inner layers are gone.
Deliver(res) ==
    /\ req' = None /\ sent' = None /\ repr' = "None" /\ policy' = None
    /\ pending' = None
    /\ visited' = <<>>
    /\ kept' = FALSE
    /\ result' = res
    /\ pc' = IF res \in {"response", "redirect"} THEN "body" ELSE "done"
    /\ timers' = IF res \in {"response", "redirect"}
                 THEN BodyTimers ELSE timers

\* A retry that is timed from its own start.
RetriedAnew ==
    /\ Attempt
    /\ retryCnt' = retryCnt + 1
    /\ kept' = CloneRequest(retryCnt + 1)
    /\ budget' = Spent
    /\ timers' = [total |-> TotalTimeout, read |-> ReadTimeout]
    /\ UNCHANGED result

\* The retry layer sends the caller's request again, under the timers of the call.
Retried ==
    /\ Attempt
    /\ retryCnt' = retryCnt + 1
    /\ kept' = CloneRequest(retryCnt + 1)
    /\ budget' = Spent
    /\ UNCHANGED <<timers, result>>

\* RetryPolicy::retry and the retry layer around it, given the outcome of the
\* redirect layer.
Outcome(res) ==
    \/ /\ ~kept
       /\ Deliver(res)
       /\ UNCHANGED <<streamed, retryCnt, budget>>
    \/ \E retryable \in IF kept THEN Classify(res) ELSE {} :
         \/ retryable /\ Withdraw /\ Retried
         \/ /\ ~(retryable /\ Withdraw)
            /\ Deliver(res)
            /\ budget' = IF retryable THEN budget ELSE Deposited
            /\ UNCHANGED <<streamed, retryCnt>>

-----------------------------------------------------------------------------
(* Actions.                                                                *)

Init ==
    /\ cfg \in Configs
    /\ given \in Requests
    /\ pc = "ready"
    /\ req = None /\ sent = None /\ repr = "None" /\ policy = None
    /\ pending = None
    /\ kept = FALSE
    /\ retryCnt = 0
    /\ budget = cfg.retry.budget
    /\ timers = [total |-> Off, read |-> Off]
    /\ result = None
    /\ visited = <<>>
    /\ streamed = 0
    /\ elapsed = 0

\* Client::execute: the layers' call, one inside the other, down to HttpClient.
Execute ==
    /\ pc = "ready"
    /\ timers' = [total |-> TotalTimeout, read |-> ReadTimeout]
    /\ IF BadScheme(given.uri)
       THEN /\ pc' = "done"
            /\ result' = "badScheme"
            /\ UNCHANGED <<redirectVars, kept>>
       ELSE /\ Attempt
            /\ kept' = CloneRequest(0)
            /\ UNCHANGED result
    /\ UNCHANGED <<cfg, given, retryCnt, budget, elapsed>>

\* The exchange fails: HttpClient's error goes up to the retry layer.
ExchangeFails(f) ==
    /\ pc = "sent"
    /\ Outcome(IF IsRetryableError(f) THEN "nack" ELSE "failure")
    /\ UNCHANGED <<cfg, given, elapsed>>

\* An answer that the redirect layer returns as it is: not a redirect, no layer
\* to follow it, no body left to send, or no usable Location.
AnswerPassed(answer) ==
    /\ pc = "sent"
    /\ LET final == answer.status \notin Redirects
           left == IF ToGet(req, answer.status) THEN "Empty" ELSE repr
       IN  /\ policy = None \/ final \/ left = "None" \/ answer.location = None
           /\ Outcome(IF final THEN "response" ELSE "redirect")
    /\ UNCHANGED <<cfg, given, elapsed>>

\* A limit that counts the hops before this one.
EagerDecisions(p) == IF p.kind = "limit"
                     THEN {IF Len(p.uris) > p.max + 1 THEN "error" ELSE "follow"}
                     ELSE {"follow", "stop", "error", "pending"}

\* The decision of Policy::redirect.
Decisions(p) == IF p.kind = "limit"
                THEN {IF Len(p.uris) > p.max THEN "error" ELSE "follow"}
                ELSE {"follow", "stop", "error", "pending"}

\* An answer that is a redirect to a URI, with a body to send along.
AnswerRedirects(answer) ==
    /\ pc = "sent"
    /\ policy # None
    /\ answer.status \in Redirects
    /\ answer.location # None
    /\ Len(policy.uris) < MaxHops
    /\ LET r == Rewritten(req, answer.status)
           left == IF ToGet(req, answer.status) THEN "Empty" ELSE repr
           body == IF left = "full" THEN "full" ELSE "blank"
           p == OnRedirect(policy, answer)
       IN  /\ left # "None"
           /\ \E decision \in Decisions(p) :
                \/ /\ decision = "follow" /\ ~Refused(answer.location)
                   /\ Follow(Recorded(p), r, answer.location, body)
                   /\ repr' = left
                   /\ UNCHANGED <<retryVars, timers, result>>
                \/ /\ decision = "follow" /\ Refused(answer.location)
                   /\ Outcome("badScheme")
                \/ decision = "error" /\ Outcome("redirectError")
                \/ decision = "stop" /\ Outcome("redirect")
                \/ /\ decision = "pending"
                   /\ pc' = "deciding"
                   /\ pending' = [uri |-> answer.location, body |-> body]
                   /\ req' = r /\ policy' = p
                   /\ repr' = IF left = "Empty" THEN "Empty" ELSE "None"
                   /\ UNCHANGED <<sent, visited, streamed, retryVars, timers, result>>
    /\ UNCHANGED <<cfg, given, elapsed>>

\* The asynchronous policy resolves: handle_action, without the checks of
\* FollowRedirectPolicy::redirect.
Decided ==
    /\ pc = "deciding"
    /\ \/ /\ Follow(policy, req, pending.uri, pending.body)
          /\ repr' = IF repr = "None" THEN pending.body ELSE repr
          /\ UNCHANGED <<retryVars, timers, result>>
       \/ Outcome("redirect")
       \/ Outcome("redirectError")
    /\ UNCHANGED <<cfg, given, elapsed>>

\* A future that waits for its total timeout only.
HeadTotalTimeout ==
    /\ pc \in {"sent", "deciding"}
    /\ timers.total = 0
    /\ Deliver("timeout")
    /\ UNCHANGED <<cfg, given, streamed, retryCnt, budget, elapsed>>

\* timeout::ResponseFuture: the inner future is pending and a timer has elapsed.
HeadTimeout ==
    /\ pc \in {"sent", "deciding"}
    /\ timers.total = 0 \/ timers.read = 0
    /\ Deliver("timeout")
    /\ UNCHANGED <<cfg, given, streamed, retryCnt, budget, elapsed>>

\* TimeoutBody::poll_frame: the timers come before the body.
BodyTimedOut == timers.total = 0 \/ timers.read = 0

\* A poll of the response body, with what the body gives.
PollBody(given_) ==
    /\ pc = "body"
    /\ ~BodyTimedOut
    /\ timers' = [timers EXCEPT !.read =
                    CASE given_ = "frame" -> ReadTimeout
                      [] given_ = "pending" -> IF @ = Off THEN ReadTimeout ELSE @
                      [] OTHER -> @]
    /\ pc' = IF given_ \in {"end", "error"} THEN "done" ELSE "body"
    /\ result' = CASE given_ = "end" -> "complete"
                   [] given_ = "error" -> "bodyError"
                   [] OTHER -> result
    /\ UNCHANGED <<cfg, given, redirectVars, retryVars, elapsed>>

\* A poll of the response body after a timer has elapsed.
BodyTimeout ==
    /\ pc = "body"
    /\ BodyTimedOut
    /\ pc' = "done"
    /\ result' = "timeout"
    /\ UNCHANGED <<cfg, given, redirectVars, retryVars, timers, elapsed>>

\* Time passes.  A task whose timer has elapsed is polled before the next tick;
\* a body is polled when its reader likes.
Tick ==
    /\ pc \in {"sent", "deciding", "body"}
    /\ \E t \in {"total", "read"} : timers[t] > 0
    /\ pc # "body" => timers.total # 0 /\ timers.read # 0
    /\ timers' = [t \in DOMAIN timers |-> IF timers[t] > 0 THEN timers[t] - 1 ELSE timers[t]]
    /\ elapsed' = IF TotalTimeout # Off THEN elapsed + 1 ELSE elapsed
    /\ UNCHANGED <<cfg, given, pc, redirectVars, retryVars, result>>

\* The caller drops the call or the response.
Drop ==
    /\ pc \in {"sent", "deciding", "body"}
    /\ Deliver("dropped")
    /\ UNCHANGED <<cfg, given, streamed, retryCnt, budget, elapsed>>

Answers == [status: Redirects \cup {200}, location: Uris \cup {None},
            rp: ReferrerHeaders]

Failures == [event: {"goAway", "reset"}, remote: BOOLEAN,
             reason: {"NO_ERROR", "REFUSED_STREAM"}]

Next ==
    \/ Execute
    \/ \E f \in Failures : ExchangeFails(f)
    \/ \E a \in Answers : AnswerPassed(a) \/ AnswerRedirects(a)
    \/ Decided
    \/ HeadTimeout
    \/ \E b \in {"pending", "frame", "end", "error"} : PollBody(b)
    \/ BodyTimeout
    \/ Tick
    \/ Drop

\* Timers elapse and a woken task is polled; nobody owes an answer.
Fairness == WF_vars(Tick) /\ WF_vars(HeadTimeout)

Spec == Init /\ [][Next]_vars /\ Fairness

-----------------------------------------------------------------------------
(* Properties.                                                             *)

\* Credentials never leave the origin they were meant for: once a chain of
\* redirects has left it, no later hop carries them, not even back at home
\* (remove_sensitive_headers looks at one step of the chain only).
CredentialsStayHome ==
    pc = "sent" /\ req.creds => \A i \in DOMAIN visited : SameOrigin(visited[i], given.uri)

\* What a request says of its body is what is sent: the headers that describe a
\* body go with the caller's body and the caller's method, and with nothing
\* else, whatever mix of 301, 303 and 307 led there; and a body that cannot be
\* cloned is sent once, whatever redirects and retries follow.
PayloadMatchesBody ==
    /\ pc = "sent" => /\ req.payload <=> sent = "full"
                      /\ sent = "full" => req.method = given.method
    /\ given.body = "stream" => streamed <= 1

\* Unless a custom policy decides, a chain of redirects follows at most as many
\* as its limit, and every URI of it is http or https, and https if the client
\* is https_only.
ChainBounded ==
    policy # None /\ policy.kind = "limit" =>
        /\ Len(visited) <= policy.max + 1
        /\ \A i \in DOMAIN visited : ~BadScheme(visited[i])

\* A call retries at most as often as its policy and its budget allow, the
\* deposits of its own answers included; out of scope, once.
RetriesBounded ==
    /\ retryCnt <= cfg.retry.max_retries_per_request
    /\ ~InScope => retryCnt <= 1
    /\ cfg.retry.budget # Off => retryCnt <= cfg.retry.budget

\* The head of a response is awaited under one total timeout, counted from the
\* call: retries, redirects and an asynchronous policy do not start it again
\* (Timeout is the outermost layer).
HeadInTime ==
    pc \in {"sent", "deciding"} /\ TotalTimeout # Off => elapsed <= TotalTimeout

\* A call with a timeout does not wait for ever for the head of a response,
\* whatever the server, the retries and an asynchronous policy do.
CallEnds ==
    (pc \in {"sent", "deciding"} /\ (TotalTimeout # Off \/ ReadTimeout # Off))
        ~> pc \in {"body", "done"}

\* A policy for one host: "Requests to other hosts will not be retried under
\* this policy" (documentation of retry::Policy::for_host).
ScopedRetries == ~InScope => retryCnt = 0

\* "The timeout is applied from when the request starts connecting until the
\* response body has finished" (documentation of ClientBuilder::timeout and
\* RequestBuilder::timeout): a body read to its end was finished in time.
TimeoutCoversBody == result = "complete" /\ TotalTimeout # Off => elapsed <= TotalTimeout
=============================================================================
