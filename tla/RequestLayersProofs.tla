------------------------ MODULE RequestLayersProofs -------------------------
(***************************************************************************)
(* Theorems about RequestLayers, for every client configuration, every     *)
(* request and every sequence of answers: what redirects and retries may   *)
(* do to credentials, bodies, chains of URIs, attempts and timeouts.       *)
(***************************************************************************)
EXTENDS RequestLayers, TLAPS

-----------------------------------------------------------------------------
(* Types.                                                                  *)

Waits == {"sent", "deciding"}

Referers == [uri: Uris, full: BOOLEAN] \cup {None}

SentRequests == [uri: Uris, method: {"GET", "POST", "HEAD"}, payload: BOOLEAN,
                 creds: BOOLEAN, referer: Referers]

RedirectPolicies(rp) == [kind: {"limit", "custom"}, max: Nat, uris: Seq(Uris),
                         history: Nat, source: Referers, referrerPolicy: {rp}]

TimersOK == timers \in [total: Nat \cup {Off}, read: Nat \cup {Off}]

RetryOK == /\ kept \in BOOLEAN /\ retryCnt \in Nat
           /\ budget \in (0..MaxTokens) \cup {Off}

RedirectOK ==
    /\ pc \in Waits => /\ req \in SentRequests
                       /\ visited \in Seq(Uris)
                       /\ \/ policy = None
                          \/ policy \in RedirectPolicies(policy.referrerPolicy)
    /\ pc \notin Waits => policy = None
    /\ pc = "deciding" => /\ pending \in [uri: Uris, body: {"full", "blank"}]
                          /\ policy \in RedirectPolicies(policy.referrerPolicy)
                          /\ policy.kind = "custom"
    /\ streamed \in Nat

TypeOK ==
    /\ cfg \in Configs /\ given \in Requests
    /\ pc \in {"ready", "sent", "deciding", "body", "done"}
    /\ TimersOK /\ RetryOK /\ RedirectOK
    /\ elapsed \in Nat

-----------------------------------------------------------------------------
(* The kinds of steps a call makes.                                        *)

\* The retry layer sends the caller's request again.
SentAgain ==
    /\ pc \in Waits /\ kept /\ Withdraw
    /\ Attempt
    /\ retryCnt' = retryCnt + 1
    /\ kept' = CloneRequest(retryCnt + 1)
    /\ budget' = Spent
    /\ UNCHANGED <<cfg, given, elapsed, timers, result>>

\* A result leaves the inner layers.
Delivered(res) ==
    /\ pc \in Waits \/ (pc = "body" /\ res = "dropped")
    /\ res # "complete"
    /\ Deliver(res)
    /\ budget' \in {budget, Deposited}
    /\ UNCHANGED <<cfg, given, elapsed, streamed, retryCnt>>

\* A redirect is followed at once ...
Redirected(answer, p, r, left, body) ==
    /\ pc = "sent" /\ policy # None
    /\ answer \in Answers /\ answer.status \in Redirects /\ answer.location # None
    /\ p = OnRedirect(policy, answer)
    /\ r = Rewritten(req, answer.status)
    /\ left = IF ToGet(req, answer.status) THEN "Empty" ELSE repr
    /\ left # "None"
    /\ body = IF left = "full" THEN "full" ELSE "blank"
    /\ UNCHANGED <<cfg, given, elapsed, retryVars, timers, result>>

FollowedNow(answer, p, r, left, body) ==
    /\ Redirected(answer, p, r, left, body)
    /\ "follow" \in Decisions(p) /\ ~Refused(answer.location)
    /\ Follow(Recorded(p), r, answer.location, body)
    /\ repr' = left

\* ... is left to an asynchronous policy ...
Deferred(answer, p, r, left, body) ==
    /\ Redirected(answer, p, r, left, body)
    /\ "pending" \in Decisions(p)
    /\ pc' = "deciding"
    /\ pending' = [uri |-> answer.location, body |-> body]
    /\ req' = r /\ policy' = p
    /\ repr' = IF left = "Empty" THEN "Empty" ELSE "None"
    /\ UNCHANGED <<sent, visited, streamed>>

\* ... and is followed when that has decided.
FollowedLater ==
    /\ pc = "deciding"
    /\ Follow(policy, req, pending.uri, pending.body)
    /\ repr' = IF repr = "None" THEN pending.body ELSE repr
    /\ UNCHANGED <<cfg, given, elapsed, retryVars, timers, result>>

\* The body is read, or a timer of it fires.
BodyStep ==
    \/ \E b \in {"pending", "frame", "end", "error"} : PollBody(b)
    \/ BodyTimeout

\* The retry layer either sends the request again or lets the result out.
LEMMA OutcomeKinds ==
    ASSUME NEW res, pc \in Waits, res # "complete", Outcome(res), kept \in BOOLEAN,
           UNCHANGED <<cfg, given, elapsed>>
    PROVE  SentAgain \/ Delivered(res)
  <1>1. CASE ~kept
    BY <1>1 DEF Outcome, Delivered
  <1>2. CASE kept
    <2>1. PICK retryable \in Classify(res) :
             \/ retryable /\ Withdraw /\ Retried
             \/ /\ ~(retryable /\ Withdraw)
                /\ Deliver(res)
                /\ budget' = IF retryable THEN budget ELSE Deposited
                /\ UNCHANGED <<streamed, retryCnt>>
      BY <1>2 DEF Outcome
    <2> QED BY <1>2, <2>1 DEF SentAgain, Retried, Delivered
  <1> QED BY <1>1, <1>2

\* Every step of a call is of one of the kinds.
LEMMA StepKinds ==
    ASSUME TypeOK, [Next]_vars
    PROVE  \/ Execute
           \/ SentAgain
           \/ \E res : Delivered(res)
           \/ \E answer, p, r, left, body : FollowedNow(answer, p, r, left, body)
           \/ \E answer, p, r, left, body : Deferred(answer, p, r, left, body)
           \/ FollowedLater
           \/ BodyStep
           \/ Tick
           \/ UNCHANGED vars
  <1> DEFINE Goal == \/ Execute
                     \/ SentAgain
                     \/ \E res : Delivered(res)
                     \/ \E answer, p, r, left, body : FollowedNow(answer, p, r, left, body)
                     \/ \E answer, p, r, left, body : Deferred(answer, p, r, left, body)
                     \/ FollowedLater
                     \/ BodyStep
                     \/ Tick
                     \/ UNCHANGED vars
  <1>k. kept \in BOOLEAN
    BY DEF TypeOK, RetryOK
  <1>o. ASSUME NEW res, pc \in Waits, res # "complete", Outcome(res),
               UNCHANGED <<cfg, given, elapsed>>
        PROVE  Goal
    BY <1>k, <1>o, OutcomeKinds
  <1>1. ASSUME NEW f \in Failures, ExchangeFails(f)
        PROVE  Goal
    <2>1. (IF IsRetryableError(f) THEN "nack" ELSE "failure") # "complete"
      OBVIOUS
    <2> QED BY <1>1, <1>o, <2>1 DEF ExchangeFails, Waits
  <1>2. ASSUME NEW a \in Answers, AnswerPassed(a)
        PROVE  Goal
    <2>1. (IF a.status \notin Redirects THEN "response" ELSE "redirect") # "complete"
      OBVIOUS
    <2> QED BY <1>2, <1>o, <2>1 DEF AnswerPassed, Waits
  <1>3. ASSUME NEW a \in Answers, AnswerRedirects(a)
        PROVE  Goal
    <2> DEFINE r    == Rewritten(req, a.status)
               left == IF ToGet(req, a.status) THEN "Empty" ELSE repr
               body == IF left = "full" THEN "full" ELSE "blank"
               p    == OnRedirect(policy, a)
    <2>0. /\ pc = "sent" /\ policy # None
          /\ a.status \in Redirects /\ a.location # None /\ left # "None"
          /\ UNCHANGED <<cfg, given, elapsed>>
      BY <1>3 DEF AnswerRedirects
    <2>1. PICK decision \in Decisions(p) :
            \/ /\ decision = "follow" /\ ~Refused(a.location)
               /\ Follow(Recorded(p), r, a.location, body)
               /\ repr' = left
               /\ UNCHANGED <<retryVars, timers, result>>
            \/ Outcome("badScheme") \/ Outcome("redirectError") \/ Outcome("redirect")
            \/ /\ decision = "pending"
               /\ pc' = "deciding"
               /\ pending' = [uri |-> a.location, body |-> body]
               /\ req' = r /\ policy' = p
               /\ repr' = IF left = "Empty" THEN "Empty" ELSE "None"
               /\ UNCHANGED <<sent, visited, streamed, retryVars, timers, result>>
      BY <1>3 DEF AnswerRedirects
    <2>2. CASE Outcome("badScheme") \/ Outcome("redirectError") \/ Outcome("redirect")
      BY <1>o, <2>0, <2>2 DEF Waits
    <2>3. CASE /\ decision = "follow" /\ ~Refused(a.location)
               /\ Follow(Recorded(p), r, a.location, body)
               /\ repr' = left
               /\ UNCHANGED <<retryVars, timers, result>>
      <3>1. FollowedNow(a, p, r, left, body)
        BY <2>0, <2>3 DEF FollowedNow, Redirected
      <3> QED BY <3>1
    <2>4. CASE /\ decision = "pending"
               /\ pc' = "deciding"
               /\ pending' = [uri |-> a.location, body |-> body]
               /\ req' = r /\ policy' = p
               /\ repr' = IF left = "Empty" THEN "Empty" ELSE "None"
               /\ UNCHANGED <<sent, visited, streamed, retryVars, timers, result>>
      <3>1. Deferred(a, p, r, left, body)
        BY <2>0, <2>4 DEF Deferred, Redirected
      <3> QED BY <3>1
    <2> QED BY <2>1, <2>2, <2>3, <2>4
  <1>4. ASSUME Decided
        PROVE  Goal
    <2>1. CASE Outcome("redirect") \/ Outcome("redirectError")
      BY <1>4, <1>o, <2>1 DEF Decided, Waits
    <2> QED BY <1>4, <2>1 DEF Decided, FollowedLater
  <1>5. ASSUME HeadTimeout \/ Drop
        PROVE  Goal
    <2>1. Delivered("timeout") \/ Delivered("dropped")
      BY <1>5 DEF HeadTimeout, Drop, Delivered, Waits
    <2> QED BY <2>1
  <1> QED BY <1>1, <1>2, <1>3, <1>4, <1>5 DEF Next, BodyStep

-----------------------------------------------------------------------------
(* The parts of the invariant.                                             *)

\* The retry layer keeps a copy only where a retry would be allowed, and every
\* retry has been paid for as long as the call waits.
RetryInv ==
    /\ pc = "ready" => retryCnt = 0
    /\ kept => CloneRequest(retryCnt)
    /\ cfg.retry.budget # Off /\ pc \in Waits \cup {"ready"} =>
         budget # Off /\ budget + retryCnt <= cfg.retry.budget
    /\ RetriesBounded

\* The body left to send, and the body a pending decision would send, agree
\* with the headers of the request; a stream is never left.
PayloadInv ==
    /\ pc = "ready" => streamed = 0
    /\ pc = "sent" =>
         /\ repr \in {"None", "Empty", "full", "blank"}
         /\ repr = "full" => req.payload /\ req.method = given.method
         /\ repr \in {"Empty", "blank"} => ~req.payload
         /\ given.body = "stream" => repr \in {"None", "Empty"}
    /\ pc = "deciding" =>
         /\ repr \in {"None", "Empty"}
         /\ req.payload <=> pending.body = "full"
         /\ pending.body = "full" => req.method = given.method
         /\ repr = "Empty" => pending.body = "blank"
         /\ given.body = "stream" => repr = "Empty"
    /\ PayloadMatchesBody

\* The chain ends where the request was sent last, and the redirect policy
\* remembers all of it but the end.
ChainInv ==
    /\ pc \in Waits =>
         /\ visited # <<>> /\ visited[Len(visited)] = req.uri
         /\ ~BadScheme(given.uri)
    /\ pc = "sent" /\ policy # None => Len(visited) = Len(policy.uris) + 1
    /\ pc = "deciding" => /\ policy.uris # <<>>
                          /\ policy.uris[Len(policy.uris)] = req.uri
                          /\ Len(visited) = Len(policy.uris)
    /\ ChainBounded

\* Credentials are still there only if the whole chain stayed at home.
CredentialsInv ==
    pc \in Waits /\ req.creds => \A i \in DOMAIN visited : visited[i] = given.uri

\* Until the head is there, the ticks since the call and what is left of the
\* total timeout add up to it.
TotalInv ==
    TotalTimeout # Off =>
        /\ pc = "ready" => elapsed = 0
        /\ pc \in Waits => timers.total # Off /\ elapsed + timers.total = TotalTimeout

-----------------------------------------------------------------------------
(* What the layers' operators make of well-formed values.                  *)

LEMMA Inputs ==
    ASSUME cfg \in Configs, given \in Requests
    PROVE  /\ cfg \in [policy: Policies, httpsOnly: BOOLEAN, referer: BOOLEAN,
                       total: Timeouts, read: Timeouts, retry: RetryPolicies,
                       defaultCreds: BOOLEAN]
           /\ given \in [uri: Uris, method: {"GET", "POST", "HEAD"},
                         body: {"empty", "bytes", "stream"}, creds: BOOLEAN,
                         referer: Uris \cup {None}, policy: Policies \cup {None},
                         total: Timeouts, read: Timeouts, defaults: BOOLEAN]
  BY LayersAssumption

LEMMA TimeoutTypes ==
    ASSUME cfg \in Configs, given \in Requests
    PROVE  TotalTimeout \in Timeouts /\ ReadTimeout \in Timeouts
  BY Inputs DEF TotalTimeout, ReadTimeout, Fetch

LEMMA ForRequestType ==
    ASSUME cfg \in Configs, given \in Requests, ForRequest # None
    PROVE  /\ ForRequest \in RedirectPolicies(ForRequest.referrerPolicy)
           /\ ForRequest.uris = <<>>
  <1> DEFINE chosen == Fetch(given.policy, cfg.policy, None)
             source == IF cfg.referer THEN ReferrerOf(given) ELSE None
  <1>1. chosen \in Policies
    BY Inputs DEF Fetch
  <1>2. chosen.kind # "none"
    BY DEF ForRequest
  <1>3. chosen.kind \in {"limit", "custom"} /\ chosen.max \in Nat
    BY <1>1, <1>2 DEF Policies
  <1>4. source \in Referers
    BY Inputs DEF ReferrerOf, Referers
  <1>5. ForRequest = [kind |-> chosen.kind, max |-> chosen.max, uris |-> <<>>,
                      history |-> 0, source |-> source,
                      referrerPolicy |-> "strict-origin-when-cross-origin"]
    BY <1>2 DEF ForRequest
  <1>6. <<>> \in Seq(Uris)
    OBVIOUS
  <1> HIDE DEF chosen, source
  <1> QED BY <1>3, <1>4, <1>5, <1>6 DEF RedirectPolicies

LEMMA AppliedType ==
    ASSUME NEW source \in Referers, NEW rp, NEW dest
    PROVE  Applied(source, rp, dest) \in Referers
  BY DEF Applied, Referers

LEMMA RewrittenType ==
    ASSUME NEW r \in SentRequests, NEW status
    PROVE  /\ Rewritten(r, status) \in SentRequests
           /\ Rewritten(r, status).uri = r.uri
           /\ Rewritten(r, status).creds = r.creds
           /\ ToGet(r, status) => ~Rewritten(r, status).payload
           /\ ~ToGet(r, status) => Rewritten(r, status) = r
  BY DEF Rewritten, SentRequests

LEMMA WithoutSensitiveType ==
    ASSUME NEW r \in SentRequests, NEW uris
    PROVE  /\ WithoutSensitive(r, uris) \in SentRequests
           /\ WithoutSensitive(r, uris).uri = r.uri
           /\ WithoutSensitive(r, uris).payload = r.payload
           /\ WithoutSensitive(r, uris).method = r.method
           /\ WithoutSensitive(r, uris).creds =>
                r.creds /\ (uris # <<>> => r.uri = uris[Len(uris)])
  BY DEF WithoutSensitive, SentRequests, SameOrigin

LEMMA OnRedirectType ==
    ASSUME NEW p, NEW rp, p \in RedirectPolicies(rp), req.uri \in Uris, NEW answer
    PROVE  LET q == OnRedirect(p, answer) IN
           /\ q \in RedirectPolicies(q.referrerPolicy)
           /\ q.kind = p.kind /\ q.max = p.max
           /\ Len(q.uris) = Len(p.uris) + 1
           /\ q.uris[Len(q.uris)] = req.uri
           /\ Recorded(q) \in RedirectPolicies(q.referrerPolicy)
           /\ Recorded(q).kind = q.kind /\ Recorded(q).max = q.max
           /\ Recorded(q).uris = q.uris
  <1> DEFINE q == OnRedirect(p, answer)
             n == IF NamedPolicy(answer.rp) = None THEN p.referrerPolicy
                  ELSE NamedPolicy(answer.rp)
  <1>1. Append(p.uris, req.uri) \in Seq(Uris)
    BY DEF RedirectPolicies
  <1>2. q = [p EXCEPT !.uris = Append(p.uris, req.uri), !.referrerPolicy = n]
    BY DEF OnRedirect, RedirectPolicies
  <1> HIDE DEF n
  <1>3. /\ q \in RedirectPolicies(n) /\ q.referrerPolicy = n
        /\ q.kind = p.kind /\ q.max = p.max /\ q.uris = Append(p.uris, req.uri)
    BY <1>1, <1>2 DEF RedirectPolicies
  <1>4. p.uris \in Seq(Uris)
    BY DEF RedirectPolicies
  <1>5. Len(Append(p.uris, req.uri)) = Len(p.uris) + 1
        /\ Append(p.uris, req.uri)[Len(p.uris) + 1] = req.uri
    BY <1>4
  <1> HIDE DEF q
  <1>6. /\ Recorded(q) \in RedirectPolicies(n)
        /\ Recorded(q).kind = q.kind /\ Recorded(q).max = q.max
        /\ Recorded(q).uris = q.uris
    BY <1>3 DEF RedirectPolicies, Recorded
  <1> QED BY <1>3, <1>5, <1>6 DEF q

\* What a followed redirect makes of the request and of the chain.
LEMMA FollowEffect ==
    ASSUME NEW p, NEW rp, p \in RedirectPolicies(rp), NEW r \in SentRequests,
           NEW u \in Uris, NEW body \in {"full", "blank"}, Follow(p, r, u, body)
    PROVE  /\ req' \in SentRequests /\ req'.uri = u
           /\ req'.payload = r.payload /\ req'.method = r.method
           /\ req'.creds => r.creds /\ (p.uris # <<>> => u = p.uris[Len(p.uris)])
           /\ policy' \in RedirectPolicies(rp) /\ policy'.referrerPolicy = rp
           /\ policy'.kind = p.kind /\ policy'.max = p.max /\ policy'.uris = p.uris
           /\ sent' = body /\ visited' = Append(visited, u) /\ pc' = "sent"
           /\ streamed' = streamed + (IF body = "full" THEN 1 ELSE 0)
  <1> DEFINE source == IF cfg.referer THEN Applied(p.source, p.referrerPolicy, u)
                       ELSE p.source
             moved == [r EXCEPT !.uri = u]
             bare == WithoutSensitive(moved, p.uris)
  <1>1. source \in Referers
    BY AppliedType DEF RedirectPolicies
  <1>2. moved \in SentRequests /\ moved.uri = u /\ moved.payload = r.payload
        /\ moved.method = r.method /\ moved.creds = r.creds
    BY DEF SentRequests
  <1>3. /\ bare \in SentRequests /\ bare.uri = u
        /\ bare.payload = r.payload /\ bare.method = r.method
        /\ bare.creds => r.creds /\ (p.uris # <<>> => u = p.uris[Len(p.uris)])
    BY <1>2, WithoutSensitiveType
  <1>4. /\ req' = IF cfg.referer THEN [bare EXCEPT !.referer = source] ELSE bare
        /\ policy' = [p EXCEPT !.source = source]
        /\ sent' = body /\ visited' = Append(visited, u) /\ pc' = "sent"
        /\ streamed' = streamed + (IF body = "full" THEN 1 ELSE 0)
    BY DEF Follow
  <1> HIDE DEF source, bare
  <1>5. /\ req' \in SentRequests /\ req'.uri = bare.uri /\ req'.creds = bare.creds
        /\ req'.payload = bare.payload /\ req'.method = bare.method
    BY <1>1, <1>3, <1>4 DEF SentRequests
  <1>6. /\ policy' \in RedirectPolicies(rp) /\ policy'.referrerPolicy = rp
        /\ policy'.kind = p.kind /\ policy'.max = p.max /\ policy'.uris = p.uris
    BY <1>1, <1>4 DEF RedirectPolicies
  <1> QED BY <1>3, <1>4, <1>5, <1>6

\* What the first request of an attempt looks like.
LEMMA AttemptEffect ==
    ASSUME cfg \in Configs, given \in Requests, Attempt
    PROVE  /\ req' \in SentRequests /\ req'.uri = given.uri
           /\ req'.method = given.method /\ (req'.payload <=> given.body # "empty")
           /\ visited' = <<given.uri>> /\ pc' = "sent"
           /\ policy' = ForRequest /\ repr' = TryClone(given.body)
           /\ sent' = IF given.body = "empty" THEN "blank" ELSE "full"
           /\ streamed' = streamed + (IF given.body = "empty" THEN 0 ELSE 1)
  <1> DEFINE referer == IF given.referer = None THEN None
                        ELSE [uri |-> given.referer, full |-> TRUE]
  <1>1. referer \in Referers
    BY Inputs DEF Referers
  <1>2. MergedCreds \in BOOLEAN
    BY Inputs DEF MergedCreds
  <1>3. req' = [uri |-> given.uri, method |-> given.method,
                payload |-> given.body # "empty", creds |-> MergedCreds,
                referer |-> referer]
    BY DEF Attempt
  <1> HIDE DEF referer
  <1>4. req' \in SentRequests
    BY <1>1, <1>2, <1>3, Inputs DEF SentRequests
  <1>5. /\ req'.uri = given.uri /\ req'.method = given.method
        /\ req'.payload <=> given.body # "empty"
    BY <1>3
  <1>6. /\ visited' = <<given.uri>> /\ pc' = "sent"
        /\ policy' = ForRequest /\ repr' = TryClone(given.body)
        /\ sent' = IF given.body = "empty" THEN "blank" ELSE "full"
    BY DEF Attempt
  <1>7. streamed' = streamed + (IF given.body = "empty" THEN 0 ELSE 1)
    BY DEF Attempt
  <1> QED BY <1>4, <1>5, <1>6, <1>7

-----------------------------------------------------------------------------
(* Type correctness.                                                       *)

\* The states a redirect is followed or deferred from, with the types of what
\* the layer computes there.
LEMMA RedirectedTypes ==
    ASSUME TypeOK, NEW answer, NEW p, NEW r, NEW left, NEW body,
           Redirected(answer, p, r, left, body)
    PROVE  /\ answer.location \in Uris
           /\ r \in SentRequests /\ r.uri = req.uri /\ r.creds = req.creds
           /\ p \in RedirectPolicies(p.referrerPolicy)
           /\ p.kind = policy.kind /\ p.max = policy.max
           /\ Len(p.uris) = Len(policy.uris) + 1
           /\ p.uris[Len(p.uris)] = req.uri
           /\ Recorded(p) \in RedirectPolicies(p.referrerPolicy)
           /\ Recorded(p).kind = p.kind /\ Recorded(p).max = p.max
           /\ Recorded(p).uris = p.uris
           /\ body \in {"full", "blank"}
           /\ visited \in Seq(Uris) /\ policy.uris \in Seq(Uris)
           /\ policy.kind \in {"limit", "custom"} /\ policy.max \in Nat
  <1>1. /\ req \in SentRequests /\ policy \in RedirectPolicies(policy.referrerPolicy)
        /\ visited \in Seq(Uris)
    BY DEF Redirected, TypeOK, RedirectOK, Waits
  <1>2. /\ policy.uris \in Seq(Uris) /\ req.uri \in Uris
        /\ policy.kind \in {"limit", "custom"} /\ policy.max \in Nat
    BY <1>1 DEF RedirectPolicies, SentRequests
  <1>3. answer.location \in Uris
    BY DEF Redirected, Answers
  <1>4. r \in SentRequests /\ r.uri = req.uri /\ r.creds = req.creds
    BY <1>1, RewrittenType DEF Redirected
  <1>5. /\ p \in RedirectPolicies(p.referrerPolicy)
        /\ p.kind = policy.kind /\ p.max = policy.max
        /\ Len(p.uris) = Len(policy.uris) + 1
        /\ p.uris[Len(p.uris)] = req.uri
        /\ Recorded(p) \in RedirectPolicies(p.referrerPolicy)
        /\ Recorded(p).kind = p.kind /\ Recorded(p).max = p.max
        /\ Recorded(p).uris = p.uris
    BY <1>1, <1>2, OnRedirectType DEF Redirected
  <1>6. body \in {"full", "blank"}
    BY DEF Redirected
  <1> QED BY <1>1, <1>2, <1>3, <1>4, <1>5, <1>6

LEMMA TypeStep == TypeOK /\ [Next]_vars => TypeOK'
  <1> SUFFICES ASSUME TypeOK, [Next]_vars
               PROVE  TypeOK'
    OBVIOUS
  <1>0. /\ cfg \in Configs /\ given \in Requests /\ streamed \in Nat
        /\ MaxTokens \in Nat
    BY LayersAssumption DEF TypeOK, RedirectOK
  <1>t. TotalTimeout \in Nat \cup {Off} /\ ReadTimeout \in Nat \cup {Off}
    BY <1>0, TimeoutTypes DEF Timeouts
  <1>a. ASSUME Attempt, UNCHANGED <<cfg, given>>
        PROVE  RedirectOK'
    <2>1. <<given.uri>> \in Seq(Uris)
      BY <1>0, Inputs
    <2>2. policy' = None \/ policy' \in RedirectPolicies(policy'.referrerPolicy)
      BY <1>0, <1>a, AttemptEffect, ForRequestType
    <2>3. streamed' \in Nat
      BY <1>0, <1>a, AttemptEffect
    <2>4. req' \in SentRequests /\ visited' \in Seq(Uris) /\ pc' = "sent"
      BY <1>0, <1>a, <2>1, AttemptEffect
    <2> QED BY <2>2, <2>3, <2>4 DEF RedirectOK, Waits
  <1>1. ASSUME Execute
        PROVE  TypeOK'
    <2>1. TimersOK'
      BY <1>1, <1>t DEF Execute, TimersOK
    <2>2. RedirectOK' /\ pc' \in {"done", "sent"}
      <3>1. CASE BadScheme(given.uri)
        BY <1>0, <1>1, <3>1 DEF Execute, TypeOK, RedirectOK, redirectVars, Waits
      <3>2. CASE ~BadScheme(given.uri)
        BY <1>0, <1>1, <1>a, <3>2, AttemptEffect DEF Execute
      <3> QED BY <3>1, <3>2
    <2>3. RetryOK'
      BY <1>1 DEF Execute, TypeOK, RetryOK, CloneRequest
    <2> QED BY <1>1, <2>1, <2>2, <2>3 DEF Execute, TypeOK
  <1>2. ASSUME SentAgain
        PROVE  TypeOK'
    <2>1. RedirectOK' /\ pc' = "sent"
      BY <1>0, <1>2, <1>a, AttemptEffect DEF SentAgain
    <2>2. RetryOK'
      BY <1>0, <1>2 DEF SentAgain, TypeOK, RetryOK, CloneRequest, Withdraw, Spent, Off
    <2> QED BY <1>2, <2>1, <2>2 DEF SentAgain, TypeOK, TimersOK
  <1>3. ASSUME NEW res, Delivered(res)
        PROVE  TypeOK'
    <2>1. RedirectOK' /\ pc' \in {"body", "done"}
      BY <1>0, <1>3 DEF Delivered, Deliver, RedirectOK, Waits
    <2>2. TimersOK'
      BY <1>3, <1>t DEF Delivered, Deliver, BodyTimers, TypeOK, TimersOK
    <2>3. RetryOK'
      <3>1. kept' \in BOOLEAN /\ retryCnt' \in Nat
        BY <1>3 DEF Delivered, Deliver, TypeOK, RetryOK
      <3>2. Deposited \in (0..MaxTokens) \cup {Off}
        BY <1>0 DEF TypeOK, RetryOK, Deposited, Off
      <3> QED BY <1>3, <3>1, <3>2 DEF Delivered, TypeOK, RetryOK
    <2> QED BY <1>3, <2>1, <2>2, <2>3 DEF Delivered, TypeOK
  <1>4. ASSUME NEW answer, NEW p, NEW r, NEW left, NEW body,
               FollowedNow(answer, p, r, left, body)
        PROVE  TypeOK'
    <2>0. Redirected(answer, p, r, left, body)
      BY <1>4 DEF FollowedNow
    <2>1. /\ req' \in SentRequests /\ pc' = "sent"
          /\ policy' \in RedirectPolicies(policy'.referrerPolicy)
          /\ visited' = Append(visited, answer.location) /\ streamed' \in Nat
      BY <1>0, <1>4, <2>0, RedirectedTypes, FollowEffect DEF FollowedNow
    <2>2. visited' \in Seq(Uris)
      BY <2>0, <2>1, RedirectedTypes
    <2>3. RedirectOK'
      BY <2>1, <2>2 DEF RedirectOK, Waits
    <2> QED BY <2>0, <2>1, <2>3 DEF Redirected, TypeOK, TimersOK, RetryOK, retryVars
  <1>5. ASSUME NEW answer, NEW p, NEW r, NEW left, NEW body,
               Deferred(answer, p, r, left, body)
        PROVE  TypeOK'
    <2>0. Redirected(answer, p, r, left, body)
      BY <1>5 DEF Deferred
    <2>1. p.kind = "custom"
      BY <1>5, <2>0, RedirectedTypes DEF Deferred, Decisions
    <2>2. RedirectOK'
      <3>2. pending' \in [uri: Uris, body: {"full", "blank"}]
        BY <1>5, <2>0, RedirectedTypes DEF Deferred
      <3>3. req' \in SentRequests /\ policy' \in RedirectPolicies(policy'.referrerPolicy)
        BY <1>5, <2>0, RedirectedTypes DEF Deferred
      <3>4. pc' = "deciding" /\ visited' \in Seq(Uris) /\ streamed' \in Nat
            /\ policy'.kind = "custom"
        BY <1>0, <1>5, <2>0, <2>1, RedirectedTypes DEF Deferred
      <3> QED BY <3>2, <3>3, <3>4 DEF RedirectOK, Waits
    <2> QED BY <1>5, <2>0, <2>2 DEF Deferred, Redirected, TypeOK, TimersOK, RetryOK, retryVars
  <1>6. ASSUME FollowedLater
        PROVE  TypeOK'
    <2>0. /\ policy \in RedirectPolicies(policy.referrerPolicy)
          /\ req \in SentRequests /\ visited \in Seq(Uris)
          /\ pending.uri \in Uris /\ pending.body \in {"full", "blank"}
      BY <1>6 DEF FollowedLater, TypeOK, RedirectOK, Waits
    <2>1. /\ req' \in SentRequests /\ pc' = "sent"
          /\ policy' \in RedirectPolicies(policy'.referrerPolicy)
          /\ visited' = Append(visited, pending.uri) /\ streamed' \in Nat
      BY <1>0, <1>6, <2>0, FollowEffect DEF FollowedLater
    <2>2. visited' \in Seq(Uris)
      BY <2>0, <2>1
    <2>3. RedirectOK'
      BY <2>1, <2>2 DEF RedirectOK, Waits
    <2> QED BY <1>6, <2>1, <2>3 DEF FollowedLater, TypeOK, TimersOK, RetryOK, retryVars
  <1>7. ASSUME BodyStep
        PROVE  TypeOK'
    <2>1. /\ pc = "body" /\ pc' \in {"body", "done"}
          /\ UNCHANGED <<cfg, given, redirectVars, retryVars, elapsed>>
      BY <1>7 DEF BodyStep, PollBody, BodyTimeout
    <2>2. TimersOK'
      BY <1>7, <1>t DEF BodyStep, PollBody, BodyTimeout, TypeOK, TimersOK
    <2> QED BY <2>1, <2>2 DEF redirectVars, retryVars, TypeOK, RetryOK, RedirectOK, Waits
  <1>8. ASSUME Tick
        PROVE  TypeOK'
    <2>1. TimersOK'
      BY <1>8 DEF Tick, TypeOK, TimersOK, Off
    <2>2. elapsed' \in Nat
      BY <1>8 DEF Tick, TypeOK
    <2> QED BY <1>8, <2>1, <2>2 DEF Tick, redirectVars, retryVars, TypeOK, RetryOK, RedirectOK
  <1>9. ASSUME UNCHANGED vars
        PROVE  TypeOK'
    BY <1>9 DEF vars, redirectVars, retryVars, TypeOK, TimersOK, RetryOK, RedirectOK
  <1> QED BY <1>1, <1>2, <1>3, <1>4, <1>5, <1>6, <1>7, <1>8, <1>9, StepKinds

LEMMA TypeInit == Init => TypeOK
  <1> SUFFICES ASSUME Init
               PROVE  TypeOK
    OBVIOUS
  <1>1. cfg \in Configs /\ given \in Requests
    BY DEF Init
  <1>2. TimersOK
    BY DEF Init, TimersOK
  <1>3. RetryOK
    BY <1>1, Inputs, LayersAssumption DEF Init, RetryOK, RetryPolicies
  <1>4. RedirectOK
    BY DEF Init, RedirectOK, Waits
  <1> QED BY <1>1, <1>2, <1>3, <1>4 DEF Init, TypeOK

LEMMA TypeCorrect == Spec => []TypeOK
  BY TypeInit, TypeStep, PTL DEF Spec

-----------------------------------------------------------------------------
(* Retries.                                                                *)

LEMMA RetryStep == TypeOK /\ RetryInv /\ [Next]_vars => RetryInv'
  <1> SUFFICES ASSUME TypeOK, RetryInv, [Next]_vars
               PROVE  RetryInv'
    OBVIOUS
  <1>0. /\ retryCnt \in Nat /\ kept \in BOOLEAN
        /\ budget \in Nat \cup {Off}
        /\ cfg.retry.max_retries_per_request \in Nat
        /\ cfg.retry.budget \in Nat \cup {Off}
        /\ MaxTokens \in Nat
    BY Inputs, LayersAssumption DEF TypeOK, RetryOK, RetryPolicies, Off
  <1>1. ASSUME Execute
        PROVE  RetryInv'
    <2>1. kept' => CloneRequest(retryCnt)'
      BY <1>1 DEF Execute, RetryInv, CloneRequest, InScope, redirectVars, RetriesBounded
    <2>2. pc' # "ready" /\ pc = "ready"
      BY <1>1 DEF Execute, Attempt
    <2> QED BY <1>1, <2>1, <2>2 DEF Execute, RetryInv, RetriesBounded, InScope
  <1>2. ASSUME SentAgain
        PROVE  RetryInv'
    <2>1. CloneRequest(retryCnt) /\ retryCnt' = retryCnt + 1 /\ budget # 0
          /\ budget' = (IF budget = Off THEN Off ELSE budget - 1)
          /\ pc \in Waits /\ UNCHANGED <<cfg, given>>
      BY <1>2 DEF SentAgain, RetryInv, Withdraw, Spent
    <2>2. (kept => CloneRequest(retryCnt))'
      BY <1>2 DEF SentAgain, CloneRequest, InScope
    <2>3. (cfg.retry.budget # Off /\ pc \in Waits \cup {"ready"} =>
            budget # Off /\ budget + retryCnt <= cfg.retry.budget)'
      BY <1>0, <2>1 DEF RetryInv, Off
    <2>4. RetriesBounded'
      BY <1>0, <2>1, <2>3 DEF RetryInv, RetriesBounded, CloneRequest, InScope, Off
    <2>5. pc' # "ready"
      BY <1>2 DEF SentAgain, Attempt
    <2> QED BY <2>2, <2>3, <2>4, <2>5 DEF RetryInv
  <1>3. ASSUME NEW res, Delivered(res)
        PROVE  RetryInv'
    BY <1>3 DEF Delivered, Deliver, RetryInv, RetriesBounded, InScope, Waits
  <1>4. ASSUME UNCHANGED <<cfg, given, retryVars>>, pc' = "ready" => pc = "ready",
               pc' \in Waits \cup {"ready"} => pc \in Waits \cup {"ready"}
        PROVE  RetryInv'
    BY <1>4 DEF retryVars, RetryInv, RetriesBounded, CloneRequest, InScope
  <1>5. ASSUME NEW answer, NEW p, NEW r, NEW left, NEW body,
               FollowedNow(answer, p, r, left, body) \/ Deferred(answer, p, r, left, body)
        PROVE  RetryInv'
    BY <1>4, <1>5 DEF FollowedNow, Deferred, Redirected, Follow, Waits
  <1>6. ASSUME FollowedLater \/ BodyStep \/ Tick \/ UNCHANGED vars
        PROVE  RetryInv'
    BY <1>4, <1>6
       DEF FollowedLater, Follow, BodyStep, PollBody, BodyTimeout, Tick, vars, Waits
  <1> QED BY <1>1, <1>2, <1>3, <1>5, <1>6, StepKinds

\* However redirects, failures and answers alternate, a call retries at most as
\* often as its policy allows (max_retries_per_request), once out of scope, and
\* never more often than the budget it started with has tokens.
THEOREM RetriesAreBounded == Spec => []RetriesBounded
  <1>1. Init => RetryInv
    BY TypeInit, Inputs DEF Init, TypeOK, RetryInv, RetriesBounded, RetryPolicies, Off
  <1>2. RetryInv => RetriesBounded
    BY DEF RetryInv
  <1> QED BY <1>1, <1>2, TypeCorrect, RetryStep, PTL DEF Spec

-----------------------------------------------------------------------------
(* Bodies and the headers that describe them.                              *)

LEMMA PayloadStep ==
    TypeOK /\ RetryInv /\ PayloadInv /\ [Next]_vars => PayloadInv'
  <1> SUFFICES ASSUME TypeOK, RetryInv, PayloadInv, [Next]_vars
               PROVE  PayloadInv'
    OBVIOUS
  <1>0. /\ cfg \in Configs /\ given \in Requests /\ streamed \in Nat
        /\ given.body \in {"empty", "bytes", "stream"}
    BY Inputs DEF TypeOK, RedirectOK
  <1>a. ASSUME Attempt, UNCHANGED <<cfg, given>>,
               given.body = "stream" => streamed = 0
        PROVE  PayloadInv'
    <2>1. /\ repr' \in {"None", "full", "blank"}
          /\ repr' = "full" <=> given.body = "bytes"
          /\ repr' = "blank" <=> given.body = "empty"
      BY <1>0, <1>a, AttemptEffect DEF TryClone
    <2>2. /\ req'.method = given.method /\ (req'.payload <=> given.body # "empty")
          /\ sent' = (IF given.body = "empty" THEN "blank" ELSE "full")
          /\ pc' = "sent"
      BY <1>0, <1>a, AttemptEffect
    <2>3. given.body = "stream" => streamed' <= 1
      BY <1>0, <1>a, AttemptEffect
    <2> QED BY <1>0, <1>a, <2>1, <2>2, <2>3 DEF PayloadInv, PayloadMatchesBody
  <1>1. ASSUME Execute
        PROVE  PayloadInv'
    <2>1. CASE BadScheme(given.uri)
      BY <1>1, <2>1 DEF Execute, PayloadInv, PayloadMatchesBody, redirectVars
    <2>2. CASE ~BadScheme(given.uri)
      BY <1>1, <1>a, <2>2 DEF Execute, PayloadInv
    <2> QED BY <2>1, <2>2
  <1>2. ASSUME SentAgain
        PROVE  PayloadInv'
    BY <1>2, <1>a DEF SentAgain, RetryInv, CloneRequest
  <1>3. ASSUME NEW res, Delivered(res)
        PROVE  PayloadInv'
    BY <1>3 DEF Delivered, Deliver, PayloadInv, PayloadMatchesBody
  <1>4. ASSUME NEW answer, NEW p, NEW r, NEW left, NEW body,
               Redirected(answer, p, r, left, body)
        PROVE  /\ r.payload <=> left = "full"
               /\ left = "full" => r.method = given.method
               /\ given.body = "stream" => left = "Empty"
               /\ left \in {"Empty", "full", "blank"}
               /\ pc = "sent" /\ r \in SentRequests
    <2>1. req \in SentRequests /\ pc = "sent"
      BY <1>4 DEF Redirected, TypeOK, RedirectOK, Waits
    <2>2. r \in SentRequests /\ r.payload \in BOOLEAN
      BY <1>4, RedirectedTypes DEF SentRequests
    <2>3. CASE ToGet(req, answer.status)
      BY <1>4, <2>1, <2>2, <2>3, RewrittenType DEF Redirected
    <2>4. CASE ~ToGet(req, answer.status)
      <3>1. r = req /\ left = repr /\ left # "None"
        BY <1>4, <2>1, <2>4, RewrittenType DEF Redirected
      <3> QED BY <2>1, <2>2, <3>1 DEF PayloadInv
    <2> QED BY <2>3, <2>4
  <1>5. ASSUME NEW answer, NEW p, NEW r, NEW left, NEW body,
               FollowedNow(answer, p, r, left, body)
        PROVE  PayloadInv'
    <2>0. Redirected(answer, p, r, left, body)
      BY <1>5 DEF FollowedNow
    <2>1. /\ req'.payload = r.payload /\ req'.method = r.method
          /\ sent' = body /\ pc' = "sent"
          /\ streamed' = streamed + (IF body = "full" THEN 1 ELSE 0)
      BY <1>5, <2>0, RedirectedTypes, FollowEffect DEF FollowedNow
    <2>2. /\ body = (IF left = "full" THEN "full" ELSE "blank") /\ repr' = left
          /\ given' = given
      BY <1>5, <2>0 DEF FollowedNow, Redirected
    <2>3. given.body = "stream" => streamed' = streamed
      BY <1>0, <1>4, <2>0, <2>1, <2>2
    <2> QED BY <1>4, <2>0, <2>1, <2>2, <2>3 DEF PayloadInv, PayloadMatchesBody
  <1>6. ASSUME NEW answer, NEW p, NEW r, NEW left, NEW body,
               Deferred(answer, p, r, left, body)
        PROVE  PayloadInv'
    <2>0. Redirected(answer, p, r, left, body)
      BY <1>6 DEF Deferred
    <2>1. /\ body = (IF left = "full" THEN "full" ELSE "blank") /\ given' = given
          /\ req' = r /\ pc' = "deciding" /\ pending'.body = body
          /\ repr' = (IF left = "Empty" THEN "Empty" ELSE "None")
          /\ streamed' = streamed
      BY <1>6, <2>0 DEF Deferred, Redirected
    <2> QED BY <1>4, <2>0, <2>1 DEF PayloadInv, PayloadMatchesBody
  <1>7. ASSUME FollowedLater
        PROVE  PayloadInv'
    <2>0. /\ policy \in RedirectPolicies(policy.referrerPolicy)
          /\ req \in SentRequests /\ pc = "deciding" /\ given' = given
          /\ pending.uri \in Uris /\ pending.body \in {"full", "blank"}
      BY <1>7 DEF FollowedLater, TypeOK, RedirectOK, Waits
    <2>1. /\ req'.payload = req.payload /\ req'.method = req.method
          /\ sent' = pending.body /\ pc' = "sent"
          /\ streamed' = streamed + (IF pending.body = "full" THEN 1 ELSE 0)
          /\ repr' = (IF repr = "None" THEN pending.body ELSE repr)
      BY <1>7, <2>0, FollowEffect DEF FollowedLater
    <2>2. given.body = "stream" => streamed' = streamed
      BY <1>0, <2>0, <2>1 DEF PayloadInv
    <2> QED BY <2>0, <2>1, <2>2 DEF PayloadInv, PayloadMatchesBody
  <1>8. ASSUME BodyStep \/ Tick \/ UNCHANGED vars
        PROVE  PayloadInv'
    <2>1. UNCHANGED <<given, redirectVars>> /\ (pc' = pc \/ pc' = "done")
      BY <1>8 DEF BodyStep, PollBody, BodyTimeout, Tick, vars
    <2> QED BY <2>1 DEF redirectVars, PayloadInv, PayloadMatchesBody
  <1> QED BY <1>1, <1>2, <1>3, <1>5, <1>6, <1>7, <1>8, StepKinds

\* Whatever mix of 301, 303 and 307 answers, retries and deferred decisions a
\* call goes through, the headers that describe a body go out with the caller's
\* body and the caller's method or not at all, and a body that cannot be cloned
\* is sent once.
THEOREM PayloadFollowsBody == Spec => []PayloadMatchesBody
  <1>1. Init => RetryInv /\ PayloadInv
    BY TypeInit, Inputs
       DEF Init, TypeOK, RetryInv, RetriesBounded, RetryPolicies, Off, PayloadInv,
           PayloadMatchesBody
  <1>2. PayloadInv => PayloadMatchesBody
    BY DEF PayloadInv
  <1> QED BY <1>1, <1>2, TypeCorrect, RetryStep, PayloadStep, PTL DEF Spec

-----------------------------------------------------------------------------
(* The chain of redirects and the credentials that travel along it.        *)

\* A chain that grows by one URI.
LEMMA Grown ==
    ASSUME NEW chain \in Seq(Uris), NEW u \in Uris
    PROVE  LET longer == Append(chain, u) IN
           /\ longer \in Seq(Uris) /\ longer # <<>>
           /\ Len(longer) = Len(chain) + 1 /\ longer[Len(longer)] = u
           /\ \A i \in DOMAIN longer :
                (i \in DOMAIN chain /\ longer[i] = chain[i]) \/ longer[i] = u
  OBVIOUS

LEMMA ChainStep ==
    TypeOK /\ ChainInv /\ [Next]_vars => ChainInv'
  <1> SUFFICES ASSUME TypeOK, ChainInv, [Next]_vars
               PROVE  ChainInv'
    OBVIOUS
  <1>0. cfg \in Configs /\ given \in Requests /\ given.uri \in Uris
    BY Inputs DEF TypeOK
  <1>a. ASSUME Attempt, UNCHANGED <<cfg, given>>, ~BadScheme(given.uri)
        PROVE  ChainInv'
    <2>1. /\ visited' = <<given.uri>> /\ req'.uri = given.uri /\ pc' = "sent"
          /\ policy' = ForRequest
      BY <1>0, <1>a, AttemptEffect
    <2>2. /\ visited' # <<>> /\ Len(visited') = 1 /\ visited'[1] = given.uri
          /\ DOMAIN visited' = {1}
      BY <2>1
    <2>3. policy' # None => policy'.uris = <<>> /\ policy'.max \in Nat
      BY <1>0, <2>1, ForRequestType DEF RedirectPolicies
    <2>4. ~BadScheme(given.uri)'
      BY <1>a DEF BadScheme
    <2>5. ChainBounded'
      BY <1>a, <2>2, <2>3, <2>4 DEF ChainBounded, BadScheme
    <2> QED BY <2>1, <2>2, <2>3, <2>4, <2>5 DEF ChainInv
  <1>1. ASSUME Execute
        PROVE  ChainInv'
    <2>1. CASE BadScheme(given.uri)
      BY <1>1, <2>1
         DEF Execute, ChainInv, ChainBounded, redirectVars, TypeOK, RedirectOK, Waits
    <2>2. CASE ~BadScheme(given.uri)
      BY <1>1, <1>a, <2>2 DEF Execute
    <2> QED BY <2>1, <2>2
  <1>2. ASSUME SentAgain
        PROVE  ChainInv'
    BY <1>2, <1>a DEF SentAgain, ChainInv
  <1>3. ASSUME NEW res, Delivered(res)
        PROVE  ChainInv'
    BY <1>3 DEF Delivered, Deliver, ChainInv, ChainBounded, Waits
  <1>4. ASSUME NEW answer, NEW p, NEW r, NEW left, NEW body,
               FollowedNow(answer, p, r, left, body)
        PROVE  ChainInv'
    <2>0. Redirected(answer, p, r, left, body) /\ "follow" \in Decisions(p)
          /\ ~Refused(answer.location)
      BY <1>4 DEF FollowedNow
    <2>1. /\ req'.uri = answer.location /\ pc' = "sent"
          /\ policy'.kind = policy.kind /\ policy'.max = policy.max
          /\ policy'.uris = p.uris /\ visited' = Append(visited, answer.location)
      BY <1>4, <2>0, RedirectedTypes, FollowEffect DEF FollowedNow
    <2>2. /\ visited \in Seq(Uris) /\ answer.location \in Uris
          /\ Len(p.uris) = Len(policy.uris) + 1 /\ policy.max \in Nat
          /\ policy.uris \in Seq(Uris)
          /\ p.kind = policy.kind /\ p.max = policy.max
          /\ policy # None /\ pc = "sent" /\ UNCHANGED <<cfg, given>>
      BY <2>0, RedirectedTypes DEF Redirected
    <2>3. /\ visited' # <<>> /\ visited'[Len(visited')] = req'.uri
          /\ Len(visited') = Len(policy'.uris) + 1
      BY <2>1, <2>2, Grown DEF ChainInv, Waits
    <2>4. ~BadScheme(given.uri)'
      BY <2>2 DEF ChainInv, BadScheme, Waits
    <2>5. ASSUME policy.kind = "limit"
          PROVE  Len(p.uris) <= policy.max
      <3>1. Len(p.uris) \in Nat
        BY <2>2
      <3> QED BY <2>0, <2>2, <2>5, <3>1 DEF Decisions
    <2>6. ~BadScheme(answer.location)
      BY <2>0 DEF BadScheme, Refused
    <2>7. ASSUME policy.kind = "limit", NEW i \in DOMAIN visited'
          PROVE  ~BadScheme(visited'[i])
      <3>1. CASE i \in DOMAIN visited /\ visited'[i] = visited[i]
        BY <2>2, <2>7, <3>1 DEF ChainInv, ChainBounded
      <3>2. CASE visited'[i] = answer.location
        BY <2>6, <3>2
      <3> QED BY <2>1, <2>2, <2>7, <3>1, <3>2, Grown
    <2>8. ChainBounded'
      BY <2>1, <2>2, <2>3, <2>5, <2>7 DEF ChainBounded, BadScheme
    <2> QED BY <2>1, <2>3, <2>4, <2>8 DEF ChainInv
  <1>5. ASSUME NEW answer, NEW p, NEW r, NEW left, NEW body,
               Deferred(answer, p, r, left, body)
        PROVE  ChainInv'
    <2>0. /\ Redirected(answer, p, r, left, body)
          /\ pc = "sent" /\ pc' = "deciding" /\ policy # None
          /\ req' = r /\ policy' = p /\ UNCHANGED <<cfg, given, visited>>
      BY <1>5 DEF Deferred, Redirected
    <2>1. r.uri = req.uri /\ Len(p.uris) = Len(policy.uris) + 1
          /\ p.uris[Len(p.uris)] = req.uri /\ policy.uris \in Seq(Uris)
      BY <2>0, RedirectedTypes
    <2>2. p.kind # "limit"
      BY <1>5 DEF Deferred, Decisions
    <2>3. p.uris # <<>>
      BY <2>1
    <2> QED BY <2>0, <2>1, <2>2, <2>3 DEF ChainInv, ChainBounded, BadScheme, Waits
  <1>6. ASSUME FollowedLater
        PROVE  ChainInv'
    <2>0. /\ policy \in RedirectPolicies(policy.referrerPolicy)
          /\ policy.kind = "custom" /\ visited \in Seq(Uris)
          /\ req \in SentRequests /\ pc = "deciding" /\ UNCHANGED <<cfg, given>>
          /\ pending.uri \in Uris /\ pending.body \in {"full", "blank"}
      BY <1>6 DEF FollowedLater, TypeOK, RedirectOK, Waits
    <2>1. /\ req'.uri = pending.uri /\ pc' = "sent"
          /\ policy'.kind = policy.kind /\ policy'.uris = policy.uris
          /\ visited' = Append(visited, pending.uri)
      BY <1>6, <2>0, FollowEffect DEF FollowedLater
    <2>2. /\ visited' # <<>> /\ visited'[Len(visited')] = req'.uri
          /\ Len(visited') = Len(policy'.uris) + 1
      BY <2>0, <2>1, Grown DEF ChainInv
    <2>3. ~BadScheme(given.uri)'
      BY <2>0 DEF ChainInv, BadScheme, Waits
    <2> QED BY <2>0, <2>1, <2>2, <2>3 DEF ChainInv, ChainBounded
  <1>7. ASSUME BodyStep \/ Tick \/ UNCHANGED vars
        PROVE  ChainInv'
    <2>1. UNCHANGED <<cfg, given, redirectVars>> /\ (pc' = pc \/ pc' = "done")
      BY <1>7 DEF BodyStep, PollBody, BodyTimeout, Tick, vars
    <2> QED BY <2>1 DEF redirectVars, ChainInv, ChainBounded, BadScheme, Waits
  <1> QED BY <1>1, <1>2, <1>3, <1>4, <1>5, <1>6, <1>7, StepKinds

LEMMA ChainInit == Init => ChainInv
  BY DEF Init, ChainInv, ChainBounded, Waits

\* Under a limit, a chain of redirects follows at most that many, and every URI
\* on it has an http(s) scheme, https alone for an https_only client: no mix of
\* answers and retries gets around the checks of FollowRedirectPolicy.
THEOREM ChainsAreBounded == Spec => []ChainBounded
  <1>1. ChainInv => ChainBounded
    BY DEF ChainInv
  <1> QED BY <1>1, ChainInit, TypeCorrect, ChainStep, PTL DEF Spec

LEMMA CredentialsStep ==
    TypeOK /\ ChainInv /\ CredentialsInv /\ [Next]_vars => CredentialsInv'
  <1> SUFFICES ASSUME TypeOK, ChainInv, CredentialsInv, [Next]_vars
               PROVE  CredentialsInv'
    OBVIOUS
  <1>0. cfg \in Configs /\ given \in Requests
    BY DEF TypeOK
  <1>a. ASSUME Attempt, UNCHANGED given
        PROVE  CredentialsInv'
    <2>1. visited' = <<given.uri>>
      BY <1>0, <1>a, AttemptEffect
    <2>2. \A i \in DOMAIN visited' : visited'[i] = given'.uri
      BY <1>a, <2>1
    <2> QED BY <2>2 DEF CredentialsInv
  <1>f. ASSUME NEW u \in Uris, NEW uris, pc \in Waits, pc' = "sent",
               visited' = Append(visited, u), UNCHANGED given,
               uris # <<>>, uris[Len(uris)] = req.uri,
               req'.creds => req.creds /\ (uris # <<>> => u = uris[Len(uris)])
        PROVE  CredentialsInv'
    <2> SUFFICES ASSUME req'.creds, NEW i \in DOMAIN visited'
                 PROVE  visited'[i] = given.uri
      BY <1>f DEF CredentialsInv
    <2>1. visited \in Seq(Uris) /\ visited # <<>> /\ visited[Len(visited)] = req.uri
      BY <1>f DEF TypeOK, RedirectOK, ChainInv
    <2>2. \A j \in DOMAIN visited : visited[j] = given.uri
      BY <1>f DEF CredentialsInv
    <2>3. Len(visited) \in DOMAIN visited
      BY <2>1
    <2>4. u = given.uri
      BY <1>f, <2>1, <2>2, <2>3
    <2> QED BY <1>f, <2>1, <2>2, <2>4, Grown
  <1>1. ASSUME Execute
        PROVE  CredentialsInv'
    BY <1>1, <1>a DEF Execute, CredentialsInv, Waits
  <1>2. ASSUME SentAgain
        PROVE  CredentialsInv'
    BY <1>2, <1>a DEF SentAgain
  <1>3. ASSUME NEW res, Delivered(res)
        PROVE  CredentialsInv'
    BY <1>3 DEF Delivered, Deliver, CredentialsInv, Waits
  <1>4. ASSUME NEW answer, NEW p, NEW r, NEW left, NEW body,
               FollowedNow(answer, p, r, left, body)
        PROVE  CredentialsInv'
    <2>0. Redirected(answer, p, r, left, body) /\ pc \in Waits /\ UNCHANGED given
      BY <1>4 DEF FollowedNow, Redirected, Waits
    <2>1. /\ answer.location \in Uris /\ r.creds = req.creds
          /\ p.uris[Len(p.uris)] = req.uri /\ Len(p.uris) = Len(policy.uris) + 1
          /\ policy.uris \in Seq(Uris) /\ Recorded(p).uris = p.uris
      BY <2>0, RedirectedTypes
    <2>2. p.uris # <<>>
      BY <2>1
    <2>3. /\ pc' = "sent" /\ visited' = Append(visited, answer.location)
          /\ req'.creds => r.creds /\ (p.uris # <<>> => answer.location = p.uris[Len(p.uris)])
      BY <1>4, <2>0, RedirectedTypes, FollowEffect DEF FollowedNow
    <2> QED BY <1>f, <2>0, <2>1, <2>2, <2>3
  <1>5. ASSUME NEW answer, NEW p, NEW r, NEW left, NEW body,
               Deferred(answer, p, r, left, body)
        PROVE  CredentialsInv'
    <2>1. /\ r.creds = req.creds /\ pc \in Waits
          /\ req' = r /\ UNCHANGED <<given, visited>>
      BY <1>5, RedirectedTypes DEF Deferred, Redirected, Waits
    <2> QED BY <2>1 DEF CredentialsInv
  <1>6. ASSUME FollowedLater
        PROVE  CredentialsInv'
    <2>0. /\ policy \in RedirectPolicies(policy.referrerPolicy)
          /\ req \in SentRequests /\ pc = "deciding" /\ pc \in Waits /\ UNCHANGED given
          /\ pending.uri \in Uris /\ pending.body \in {"full", "blank"}
      BY <1>6 DEF FollowedLater, TypeOK, RedirectOK, Waits
    <2>1. /\ pc' = "sent" /\ visited' = Append(visited, pending.uri)
          /\ req'.creds => req.creds
                /\ (policy.uris # <<>> => pending.uri = policy.uris[Len(policy.uris)])
      BY <1>6, <2>0, FollowEffect DEF FollowedLater
    <2>2. policy.uris # <<>> /\ policy.uris[Len(policy.uris)] = req.uri
      BY <2>0 DEF ChainInv
    <2> QED BY <1>f, <2>0, <2>1, <2>2
  <1>7. ASSUME BodyStep \/ Tick \/ UNCHANGED vars
        PROVE  CredentialsInv'
    <2>1. UNCHANGED <<given, redirectVars>> /\ (pc' = pc \/ pc' = "done")
      BY <1>7 DEF BodyStep, PollBody, BodyTimeout, Tick, vars
    <2> QED BY <2>1 DEF redirectVars, CredentialsInv, Waits
  <1> QED BY <1>1, <1>2, <1>3, <1>4, <1>5, <1>6, <1>7, StepKinds

\* Credentials never leave the origin they were meant for: once a chain of
\* redirects has left it, no later hop carries them, though
\* remove_sensitive_headers compares two neighbours of the chain only.
THEOREM CredentialsNeverLeak == Spec => []CredentialsStayHome
  <1>1. Init => CredentialsInv
    BY DEF Init, CredentialsInv, Waits
  <1>2. CredentialsInv => CredentialsStayHome
    BY DEF CredentialsInv, CredentialsStayHome, SameOrigin, Waits
  <1> QED BY <1>1, <1>2, ChainInit, TypeCorrect, ChainStep, CredentialsStep, PTL DEF Spec

-----------------------------------------------------------------------------
(* The total timeout.                                                      *)

LEMMA TotalStep == TypeOK /\ TotalInv /\ [Next]_vars => TotalInv'
  <1> SUFFICES ASSUME TypeOK, TotalInv, [Next]_vars
               PROVE  TotalInv'
    OBVIOUS
  <1>0. cfg \in Configs /\ given \in Requests
    BY DEF TypeOK
  <1>1. TotalTimeout' = TotalTimeout
    BY StepKinds
       DEF Execute, SentAgain, Delivered, FollowedNow, Deferred, Redirected, FollowedLater,
           BodyStep, PollBody, BodyTimeout, Tick, vars, TotalTimeout
  <1> SUFFICES ASSUME TotalTimeout # Off
               PROVE  TotalInv'
    BY <1>1 DEF TotalInv
  <1>t. /\ TotalTimeout \in Nat \ {0} /\ elapsed \in Nat
        /\ timers.total \in Nat \cup {Off}
    BY <1>0, TimeoutTypes DEF Timeouts, TypeOK, TimersOK
  <1>2. ASSUME Execute
        PROVE  TotalInv'
    <2>1. /\ elapsed = 0 /\ elapsed' = 0 /\ timers'.total = TotalTimeout
          /\ pc' \in {"done", "sent"}
      BY <1>2 DEF Execute, Attempt, TotalInv
    <2> QED BY <1>1, <1>t, <2>1 DEF TotalInv, Waits
  <1>3. ASSUME pc \in Waits, pc' \in Waits, UNCHANGED <<timers, elapsed>>
        PROVE  TotalInv'
    BY <1>1, <1>3, <1>t DEF TotalInv, Waits, Off
  <1>4. ASSUME SentAgain
        PROVE  TotalInv'
    BY <1>3, <1>4 DEF SentAgain, Attempt, Waits
  <1>5. ASSUME NEW res, Delivered(res)
        PROVE  TotalInv'
    BY <1>5 DEF Delivered, Deliver, TotalInv, Waits
  <1>6. ASSUME NEW answer, NEW p, NEW r, NEW left, NEW body,
               FollowedNow(answer, p, r, left, body) \/ Deferred(answer, p, r, left, body)
        PROVE  TotalInv'
    BY <1>3, <1>6 DEF FollowedNow, Deferred, Redirected, Follow, Waits
  <1>7. ASSUME FollowedLater
        PROVE  TotalInv'
    BY <1>3, <1>7 DEF FollowedLater, Follow, Waits
  <1>8. ASSUME BodyStep
        PROVE  TotalInv'
    BY <1>8 DEF BodyStep, PollBody, BodyTimeout, TotalInv, Waits
  <1>9. ASSUME Tick
        PROVE  TotalInv'
    <2>1. /\ elapsed' = elapsed + 1 /\ pc' = pc /\ pc \in Waits \cup {"body"}
          /\ timers'.total = IF timers.total > 0 THEN timers.total - 1 ELSE timers.total
          /\ pc \in Waits => timers.total # 0
      BY <1>9 DEF Tick, TypeOK, TimersOK, Waits
    <2>2. CASE pc \in Waits
      <3>1. elapsed + timers.total = TotalTimeout /\ timers.total \in Nat \ {0}
        BY <1>t, <2>1, <2>2 DEF TotalInv
      <3>2. timers'.total = timers.total - 1
        BY <2>1, <3>1
      <3>3. elapsed' + timers'.total = TotalTimeout /\ timers'.total # Off
        BY <1>t, <2>1, <3>1, <3>2 DEF Off
      <3> QED BY <1>1, <2>1, <2>2, <3>3 DEF TotalInv, Waits
    <2>3. CASE pc = "body"
      BY <2>1, <2>3 DEF TotalInv, Waits
    <2> QED BY <2>1, <2>2, <2>3
  <1>10. ASSUME UNCHANGED vars
         PROVE  TotalInv'
    BY <1>1, <1>10 DEF vars, TotalInv
  <1> QED
    BY <1>2, <1>4, <1>5, <1>6, <1>7, <1>8, <1>9, <1>10, StepKinds

\* The head of a response is awaited for no longer than the total timeout of the
\* call, however often it is retried or redirected: only the call itself arms
\* the timer (timeout::ResponseFuture).
THEOREM HeadsComeInTime == Spec => []HeadInTime
  <1>1. Init => TotalInv
    BY DEF Init, TotalInv, Waits
  <1>2. TypeOK /\ TotalInv => HeadInTime
    <2> SUFFICES ASSUME TypeOK, TotalInv, pc \in Waits, TotalTimeout # Off
                 PROVE  elapsed <= TotalTimeout
      BY DEF HeadInTime, Waits
    <2>1. /\ TotalTimeout \in Nat /\ elapsed \in Nat
          /\ timers.total \in Nat \cup {Off}
      BY TimeoutTypes DEF Timeouts, TypeOK, TimersOK
    <2> QED BY <2>1 DEF TotalInv, Off
  <1> QED BY <1>1, <1>2, TypeCorrect, TotalStep, PTL DEF Spec

=============================================================================
