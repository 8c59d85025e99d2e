---------------------------- MODULE ConnectSetup ----------------------------
(***************************************************************************)
(* One attempt to connect (bootstrap.go; connection.go, connectSignalR,    *)
(* negotiate and the handshake; http_runtime.go; receiver.go, connect):    *)
(* the preflight that gives an affinity cookie, the negotiation that gives *)
(* a connection token, the WebSocket upgrade that carries both, the        *)
(* handshake and the subscription.  Every request has a timer of its own;  *)
(* the context of the caller may end at any time.  The owner of the        *)
(* attempt gives up, stops or tries again by the outcome, so that an       *)
(* outcome must not say of the server what only happened here.             *)
(*                                                                         *)
(* A cookie is the affinity cookie or another one; its path covers both    *)
(* endpoints ("root", "hub"), the negotiation only, or neither.  A body of *)
(* the negotiation is a sequence of members.                               *)
(***************************************************************************)
EXTENDS HttpPolicy, FiniteSets

CONSTANTS
  Responses, \* for each request, what the server may answer
  Bodies,    \* negotiation bodies
  Clocks     \* readings of the clock at which an answer may be observed

ASSUME AnswersAssumption ==
  /\ \A request \in Requests : \A r \in Responses[request] :
       /\ DOMAIN r = { "status", "cookie", "retryAfter", "location", "verified" }
       /\ r.retryAfter.kind = "seconds" => r.retryAfter.digits \in Seq(0 .. 9)
       /\ r.retryAfter.kind = "date" => r.retryAfter.date \in Int
  /\ \A now \in Clocks : now.wall \in Int /\ now.monotonic \in 0 .. MaxInt64

VARIABLES
  at,      \* the step that waits
  caller,  \* the caller's context: "alive", "elapsed" (its deadline, not yet its Err) or "ended"
  lapsed,  \* the timer of the request or of the handshake ran out
  result,  \* what the transport gave to http.Client, or Pending
  bodies,  \* requests whose response body is open
  socket,  \* the WebSocket is open
  secure,  \* the endpoints are https and wss
  cookies, \* the affinity cookies of the answers, in order
  carried, \* the affinities that the request in flight carries
  outcome, \* of the attempt, or "none"
  seen,    \* history: the last answer as the transport observed it
  named    \* history: the affinity that the answers left under each path, or ""

setupVars == << at, caller, lapsed, result, bodies, socket, secure, cookies, carried,
                outcome, seen, named >>

Pending  == [kind |-> "pending"]
Broken   == [kind |-> "broken"]
NoAnswer == [inTime |-> FALSE]
Outcome(kind) == [kind |-> kind, retryAt |-> NoDeadline]

Paths == { "root", "hub", "negotiate", "other" }

NothingNamed == [path \in Paths |-> ""]

-----------------------------------------------------------------------------
(* Configuration: Config.Validate.                                         *)

ValidateConfig(c) ==
  /\ c.stream \in { "ws", "wss" } /\ c.negotiate \in { "http", "https" }
  /\ c.sameAuthority
  /\ (c.stream = "wss") = (c.negotiate = "https")
  /\ c.stream = "ws" => c.loopback
  /\ c.tokenFile

Configs == [ stream : {"ws", "wss", "ftp"}, negotiate : {"http", "https"},
             sameAuthority : BOOLEAN, loopback : BOOLEAN, tokenFile : BOOLEAN ]

SetupInit ==
  /\ \E c \in Configs : ValidateConfig(c) /\ secure = (c.stream = "wss")
  /\ at = "token" /\ caller = "alive" /\ lapsed = FALSE
  /\ result = Pending /\ bodies = {} /\ socket = FALSE
  /\ cookies = << >> /\ carried = {} /\ outcome = Outcome("none") /\ seen = NoAnswer
  /\ named = NothingNamed

-----------------------------------------------------------------------------
(* Cookies.                                                                *)

NoCookie == [name |-> "other", value |-> "", path |-> "root", secure |-> FALSE, live |-> TRUE]

\* credentialsFromPreflight: an affinity cookie with a value.
HasAffinity(c) == c.name = "affinity" /\ c.value # ""

Covers(path, request) ==
  \/ path \in { "root", "hub" }
  \/ path = "negotiate" /\ request = "negotiate"

\* cookiesAllowedByScheme
Allowed(c) == secure \/ ~c.secure

\* Seeded fault: a later cookie is carried beside the one it replaces.
KeptBoth(set) == { i \in DOMAIN set : HasAffinity(set[i]) /\ Allowed(set[i]) /\ set[i].live }

\* The jar: of the cookies set in turn, a later one replaces or, when it has expired,
\* deletes the one under its path.
Kept(set) ==
  LET allowed == { i \in DOMAIN set : set[i].name = "affinity" /\ Allowed(set[i]) }
  IN  { i \in allowed : /\ set[i].live
                        /\ \A j \in allowed : j > i => set[j].path # set[i].path }

\* cookiesForEndpoint and hasAffinityCookie: the affinities for the endpoint.
CookiesFor(request, set) ==
  { set[i].value :
      i \in { j \in Kept(set) : HasAffinity(set[j]) /\ Covers(set[j].path, request) } }

\* What the server names with a cookie, to one who keeps its answers as they come.
Names(c) ==
  named' = IF c.name = "affinity" /\ (c.secure => secure)
           THEN [named EXCEPT ![c.path] = IF c.live THEN c.value ELSE ""]
           ELSE named

-----------------------------------------------------------------------------
(* The negotiation body.                                                   *)

NoMembers == [ connectionId |-> "", connectionToken |-> "", negotiateVersion |-> "0",
               url |-> "", accessToken |-> "", error |-> "", availableTransports |-> "none" ]

\* visitNegotiateObject and decodeNegotiateResponse: a known member is spelled
\* exactly, occurs once and is not null; a value of the wrong shape is invalid;
\* what is unknown is not looked at.  A null at the top is the zero response.
Decodes(body) ==
  \A i \in DOMAIN body :
    body[i].field \in DOMAIN NoMembers =>
      /\ body[i].exact /\ body[i].shape
      /\ \A j \in 1 .. (i - 1) : body[j].field # body[i].field

Member(response, m) ==
  IF m.field \in DOMAIN response THEN [response EXCEPT ![m.field] = m.value] ELSE response

\* parseNegotiateResponse: the connection token, or "" when the body is invalid.
ConnectionToken(body) ==
  LET response == FoldLeft(Member, NoMembers, body)
      version  == response.negotiateVersion
  IN  IF /\ Decodes(body)
         /\ response.error = "" /\ response.url = "" /\ response.accessToken = ""
         /\ version \in { "0", "1" }
         /\ response.connectionId # ""
         /\ response.availableTransports = "WebSockets with Text"
      THEN IF version = "0" THEN response.connectionId ELSE response.connectionToken
      ELSE ""

-----------------------------------------------------------------------------
(* The caller and the clock.                                               *)

\* Seeded fault: the handshake has no timer of its own.
TimedRequests == Requests \cup { "body" }

Timed == Requests \cup { "body", "handshake", "reply" }

RequestEnded == caller # "alive" \/ lapsed

attempt == << at, result, bodies, socket, secure, cookies, carried, outcome, seen, named >>

\* The caller's deadline passes; later, or without one, its context is done.
CallerElapses == /\ caller = "alive" /\ at # "done"
                 /\ caller' = "elapsed"
                 /\ UNCHANGED << attempt, lapsed >>

CallerEnds == /\ caller # "ended" /\ at # "done"
              /\ caller' = "ended"
              /\ UNCHANGED << attempt, lapsed >>

\* http.Client.Timeout, which Dial takes over, and handshakeTimeout.
Lapse == /\ at \in Timed /\ ~lapsed
         /\ lapsed' = TRUE
         /\ UNCHANGED << attempt, caller >>

-----------------------------------------------------------------------------
(* The attempt.                                                            *)

\* The attempt waits at the next step, under a new timer.
Await(step) == /\ at' = step /\ lapsed' = FALSE
               /\ result' = Pending /\ seen' = NoAnswer

Finish(o) == /\ Await("done") /\ outcome' = o
             /\ cookies' = << >> /\ carried' = {} /\ named' = NothingNamed

\* A request with what applies of the cookies set so far.
Send(request, set) ==
  LET applicable == CookiesFor(request, set)
  IN  IF applicable = {} THEN Finish(Outcome("invalid"))
      ELSE /\ Await(request)
           /\ cookies' = set /\ carried' = applicable
           /\ UNCHANGED << outcome, named >>

\* readTokenFile, and the preflight, which carries nothing.
ReadToken ==
  /\ at = "token"
  /\ \/ Finish(Outcome("transient"))
     \/ Await("preflight") /\ UNCHANGED << outcome, cookies, carried, named >>
  /\ UNCHANGED << caller, bodies, socket, secure >>

\* The preflight's cookie is enough, whatever the status.
Accepts(r) == \/ at = "preflight" /\ HasAffinity(r.cookie)
              \/ Classify(at, r.status) = "accept"

\* A Location must not make http.Client fail on an answer that was accepted.
WithoutLocation(r) == IF r.status \in 300 .. 399 THEN [r EXCEPT !.location = FALSE] ELSE r

Observed(r, now) == [ inTime |-> ~RequestEnded, status |-> r.status,
                      affinity |-> HasAffinity(r.cookie), due |-> Due(r.retryAfter, now) ]

\* Seeded fault: the body of a refused request is left to the caller, who gets none.
RoundTripLeaks(r, now) ==
  /\ at \in Requests /\ result = Pending
  /\ seen' = Observed(r, now)
  /\ Names(r.cookie)
  /\ bodies' = bodies \cup {at}
  /\ result' = IF RequestEnded THEN Broken
               ELSE IF Accepts(r) THEN [kind |-> "response", response |-> WithoutLocation(r)]
               ELSE SetupFailure(at, r.status, r.retryAfter, now)
  /\ UNCHANGED << at, caller, lapsed, socket, secure, cookies, carried, outcome >>

\* setupHTTPTransport.RoundTrip: an answer that comes too late, and one that is
\* not accepted, is closed here.
RoundTrip(r, now) ==
  /\ at \in Requests /\ result = Pending
  /\ seen' = Observed(r, now)
  /\ Names(r.cookie)
  /\ IF ~RequestEnded /\ Accepts(r)
     THEN /\ bodies' = bodies \cup {at}
          /\ result' = [kind |-> "response", response |-> WithoutLocation(r)]
     ELSE /\ UNCHANGED bodies
          /\ result' = IF RequestEnded THEN Broken
                       ELSE SetupFailure(at, r.status, r.retryAfter, now)
  /\ UNCHANGED << at, caller, lapsed, socket, secure, cookies, carried, outcome >>

\* No answer; or, of http.Client, a timer that runs out while it returns a failure.
RequestFails ==
  /\ at \in Requests
  /\ \/ result = Pending
     \/ lapsed /\ at # "upgrade" /\ result.kind \in { "stop", "retry" }
  /\ result' = Broken
  /\ UNCHANGED << at, caller, lapsed, bodies, socket, secure, cookies, carried, outcome, seen, named >>

\* Seeded fault: what the server said is reported to a caller that has gone.
FailureFirst ==
  IF result.kind \in { "stop", "retry" } THEN result ELSE Outcome("transient")

\* The error of a request: the caller's end goes before what the server said.
Failure ==
  IF caller = "alive" /\ result.kind \in { "stop", "retry" } THEN result
  ELSE Outcome("transient")

\* Whoever is given a response closes its body; a failure comes without one.
CloseBody == bodies' = IF result.kind = "response" THEN bodies \ {at} ELSE bodies

\* bootstrapConnection after Do, and credentialsFromPreflight.
PreflightReturns ==
  /\ at = "preflight" /\ result # Pending
  /\ CloseBody
  /\ IF result.kind # "response" \/ caller # "alive" THEN Finish(Failure)
     ELSE LET r == result.response
          IN  IF r.location /\ r.status \in 300 .. 399 THEN Finish(Outcome("transient"))
              ELSE IF HasAffinity(r.cookie) THEN Send("negotiate", << r.cookie >>)
              ELSE Finish(Outcome("invalid"))
  /\ UNCHANGED << caller, socket, secure >>

\* negotiate after Do; the timer goes on while the body is read.
NegotiateReturns ==
  /\ at = "negotiate" /\ result # Pending
  /\ IF result.kind # "response" \/ caller # "alive" THEN Finish(Failure) /\ CloseBody
     ELSE /\ at' = "body"
          /\ UNCHANGED << lapsed, result, bodies, cookies, carried, outcome, seen, named >>
  /\ UNCHANGED << caller, socket, secure >>

\* Seeded fault: what the negotiation set is forgotten.
ReadBodyForgets(body) ==
  /\ at = "body"
  /\ bodies' = {}
  /\ IF ConnectionToken(body) = "" THEN Finish(Outcome("invalid"))
     ELSE Send("upgrade", cookies)
  /\ UNCHANGED << caller, socket, secure >>

\* A body over the limit is one that does not decode.
ReadBody(body) ==
  /\ at = "body"
  /\ bodies' = {}
  /\ IF ConnectionToken(body) = "" THEN Finish(Outcome("invalid"))
     ELSE Send("upgrade", Append(cookies, result.response.cookie))
  /\ UNCHANGED << caller, socket, secure >>

BodyFails ==
  /\ at = "body"
  /\ bodies' = {}
  /\ Finish(Outcome("transient"))
  /\ UNCHANGED << caller, socket, secure >>

\* connectSignalR after Dial, which owns the body of the upgrade.  Every other
\* status was refused by RoundTrip.
DialReturns ==
  /\ at = "upgrade" /\ result # Pending
  /\ CloseBody
  /\ IF result.kind = "response" /\ result.response.verified
     THEN /\ Await("handshake") /\ socket' = TRUE
          /\ cookies' = << >> /\ carried' = {} /\ named' = NothingNamed
          /\ UNCHANGED outcome
     ELSE /\ Finish(IF result.kind = "response" /\ caller = "alive"
                    THEN Outcome("invalid") ELSE Failure)
          /\ UNCHANGED socket
  /\ UNCHANGED << caller, secure >>

\* exchangeHandshake: one timer for the request and its response.
WriteHandshake ==
  /\ at = "handshake"
  /\ at' = "reply"
  /\ UNCHANGED << caller, lapsed, result, bodies, socket, secure, cookies, carried, outcome, seen, named >>

GiveUp(kind) == /\ socket' = FALSE
                /\ Finish(Outcome(kind))
                /\ UNCHANGED << caller, bodies, secure >>

HandshakeBreaks == at \in { "handshake", "reply" } /\ GiveUp("transient")

\* readHandshakeResponse: no text, broken WebSocket data, too long, or a refusal.
HandshakeRefused == at = "reply" /\ GiveUp("invalid")

HandshakeAccepted ==
  /\ at = "reply"
  /\ Await("subscribe")
  /\ UNCHANGED << caller, bodies, socket, secure, cookies, carried, outcome, named >>

\* subscribe, which has the caller's context and no timer, and receiver.connect.
Subscribe ==
  /\ at = "subscribe"
  /\ Finish(Outcome("connected"))
  /\ UNCHANGED << caller, bodies, socket, secure >>

SubscribeFails == at = "subscribe" /\ GiveUp("transient")

-----------------------------------------------------------------------------
Clock == CallerElapses \/ CallerEnds \/ Lapse

Returns == PreflightReturns \/ NegotiateReturns \/ DialReturns

BeforeReply ==
  \/ ReadToken \/ Returns \/ RequestFails
  \/ at \in Requests /\ \E r \in Responses[at], now \in Clocks : RoundTrip(r, now)
  \/ \E body \in Bodies : ReadBody(body)
  \/ BodyFails \/ WriteHandshake \/ HandshakeBreaks

\* I/O under a context that is done fails.
Interrupted == /\ caller = "ended" \/ lapsed
               /\ RequestFails \/ BodyFails \/ HandshakeBreaks \/ SubscribeFails

\* Code runs on, timers fire, and a deadline that passed is noticed.
SetupFairness ==
  /\ WF_setupVars(ReadToken) /\ WF_setupVars(Returns)
  /\ WF_setupVars(Lapse) /\ WF_setupVars(Interrupted)
  /\ WF_setupVars(caller = "elapsed" /\ CallerEnds)

-----------------------------------------------------------------------------
Refused == \/ at = "preflight" /\ seen.status \notin 200 .. 299 /\ ~seen.affinity
           \/ at = "negotiate" /\ seen.status \notin 200 .. 299
           \/ at = "upgrade" /\ seen.status # 101

\* The input stops, or waits as long as it was told to, only for what the server
\* answered in time to a caller that still waited; a refusal that was seen in
\* time is not lost behind a failure of this side (setupContextError before
\* asSetupHTTPError at every request; receiver.go, run acts on the outcome).
VerdictIsTheServers ==
  [][ at # "done" /\ at' = "done" =>
        LET server == outcome'.kind \in { "stop", "retry" }
        IN  /\ server => caller = "alive" /\ seen.inTime /\ Refused
            /\ caller = "alive" /\ ~lapsed /\ seen.inTime /\ at \in Requests /\ Refused => server
            /\ outcome'.kind = "stop" => seen.status \notin { 408, 429, 500, 502, 503, 504 }
            /\ outcome'.kind = "invalid" => at = "reply" \/ seen.inTime ]_setupVars

\* The server that asked to be left alone is left alone as long as it asked, to
\* the tick, and a request for what this side cannot count, or one that comes with
\* a permanent refusal, delays nothing (retryAfterDeadline, processRetryDeadline,
\* setupHTTPFailure).
HintIsExact ==
  [][ at # "done" /\ at' = "done" =>
        outcome'.retryAt = IF outcome'.kind = "retry" THEN seen.due ELSE NoDeadline ]_setupVars

\* However the attempt ends, it holds no response body, and the WebSocket exactly
\* if it gave it to the reader (RoundTrip, Dial, CloseNow, receiver.connect).
NothingLeaks ==
  /\ at \notin Requests \cup {"body"} => bodies = {}
  /\ at = "done" => (socket <=> outcome.kind = "connected")

\* The negotiation and the upgrade go to the backend that the server named last:
\* each carries, of every answer that came before it, the affinity that none of the
\* answers since replaced or deleted under its path, as far as scheme and path
\* allow, and no other (credentialsFromPreflight, negotiate and connectSignalR,
\* which keep the answers' cookies, and cookiesForEndpoint).
AffinityFollows ==
  at \in { "negotiate", "upgrade" } /\ result = Pending =>
    /\ carried = { named[path] : path \in { p \in Paths : Covers(p, at) } } \ {""}
    /\ carried # {}

\* Every attempt gets to its subscription or fails, and one whose caller is gone
\* ends even there.
SetupEnds ==
  /\ at = "token" ~> at \in { "subscribe", "done" }
  /\ caller # "alive" ~> at = "done"
=============================================================================
