--------------------------- MODULE HubConnectProofs ---------------------------
(***************************************************************************)
(* Theorems about an attempt to connect, for every answer, cookie and body *)
(* a server may send and every time at which the caller may go, and about  *)
(* the records of its stream, for every size and every cut into messages.  *)
(***************************************************************************)
EXTENDS HubConnect, WellFoundedInduction, TLAPS

Steps == Requests \cup { "token", "body", "handshake", "reply", "subscribe", "done" }

\* Whoever waits for a request has a body to close exactly if there was a response.
BodyInv ==
  /\ at \in Requests => bodies = IF result.kind = "response" THEN {at} ELSE {}
  /\ at = "body" => bodies = {"negotiate"}
  /\ at \notin Requests \cup {"body"} => bodies = {}

SocketInv ==
  /\ at \in Requests \cup {"token", "body"} => ~socket
  /\ at \in {"handshake", "reply", "subscribe"} => socket
  /\ at = "done" => (socket <=> outcome.kind = "connected")

\* What http.Client holds is what the transport observed, unless its own timer came first.
AnswerInv ==
  /\ at \in Requests =>
       /\ result.kind \in {"pending", "broken", "response", "stop", "retry"}
       /\ result.kind = "pending" => result = Pending /\ ~seen.inTime
       /\ result.kind \in {"stop", "retry"} => seen.inTime /\ Refused
       /\ result.kind = "response" => seen.inTime /\ ~Refused
       /\ result.kind = "broken" => ~seen.inTime \/ lapsed
       /\ result.kind = "stop" => seen.status \notin { 408, 429, 500, 502, 503, 504 }
  /\ at = "body" => seen.inTime

SetupInv == at \in Steps /\ BodyInv /\ SocketInv /\ AnswerInv

LEMMA SetupInvInit == ConnectInit => SetupInv
BY DEF ConnectInit, SetupInit, SetupInv, Steps, BodyInv, SocketInv, AnswerInv, Requests

\* The kinds of a verdict.
LEMMA FailureKind ==
  /\ Failure.kind \in {"stop", "retry", "transient"}
  /\ Failure.kind \in {"stop", "retry"} => caller = "alive" /\ Failure = result
BY DEF Failure, Outcome

\* Why an answer is refused.
LEMMA RefusalKind ==
  ASSUME NEW r, NEW now, ~Accepts(r), at \in Requests
  PROVE  LET f == SetupFailure(at, r.status, r.retryAfter, now)
         IN  /\ f.kind \in {"stop", "retry"}
             /\ f.kind = "stop" => r.status \notin { 408, 429, 500, 502, 503, 504 }
BY DEF SetupFailure, Classify, Accepts

\* Nothing of the attempt changes.
LEMMA SetupStutters == SetupInv /\ UNCHANGED setupVars => SetupInv'
BY DEF SetupInv, BodyInv, SocketInv, AnswerInv, Refused, setupVars

\* Where a step that waits anew, or ends, leaves the answer.
LEMMA Waiting ==
  ASSUME NEW step, Await(step)
  PROVE  at' = step /\ result' = Pending /\ ~seen'.inTime /\ Pending.kind = "pending"
BY DEF Await, NoAnswer, Pending

LEMMA Finished ==
  ASSUME NEW o, Finish(o)
  PROVE  at' = "done" /\ outcome' = o
BY DEF Finish, Await

\* A new request waits, or the attempt ended for want of a cookie.
LEMMA Sent ==
  ASSUME NEW request, NEW set, Send(request, set)
  PROVE  \/ at' = "done" /\ outcome'.kind = "invalid"
         \/ at' = request /\ result' = Pending /\ ~seen'.inTime /\ outcome' = outcome
BY DEF Send, Finish, Await, Outcome, NoAnswer

\* The end of an attempt that has closed its bodies.
LEMMA EndKeeps ==
  ASSUME at' = "done", bodies' = {}, socket' <=> outcome'.kind = "connected"
  PROVE  SetupInv'
BY DEF SetupInv, Steps, BodyInv, SocketInv, AnswerInv, Requests

\* The start of a request.
LEMMA RequestKeeps ==
  ASSUME at' \in Requests, bodies' = {}, ~socket', result' = Pending, ~seen'.inTime
  PROVE  SetupInv'
BY DEF SetupInv, Steps, BodyInv, SocketInv, AnswerInv, Requests, Pending

\* What an answer of the server, or its absence, leaves behind.
LEMMA AnswerKeeps ==
  /\ \A r, now : SetupInv /\ at \in Requests /\ RoundTrip(r, now) => SetupInv'
  /\ SetupInv /\ RequestFails => SetupInv'
<1>1. ASSUME NEW r, NEW now, SetupInv, RoundTrip(r, now) PROVE SetupInv'
  <2>1. /\ at \in Requests /\ result = Pending /\ bodies = {} /\ ~socket
        /\ at' = at /\ socket' = socket
        /\ seen' = Observed(r, now)
    BY <1>1 DEF RoundTrip, SetupInv, BodyInv, SocketInv, Pending, Requests
  <2>2. /\ seen'.inTime = ~RequestEnded /\ seen'.status = r.status
        /\ seen'.affinity = HasAffinity(r.cookie)
    BY <2>1 DEF Observed
  <2>3. CASE ~RequestEnded /\ Accepts(r)
    <3>1. /\ bodies' = {at} /\ result'.kind = "response"
      BY <1>1, <2>1, <2>3 DEF RoundTrip
    <3>2. ~Refused'
      <4>1. CASE at = "preflight"
        BY <4>1, <2>1, <2>2, <2>3 DEF Refused, Accepts, Classify
      <4>2. CASE at = "negotiate"
        BY <4>2, <2>1, <2>2, <2>3 DEF Refused, Accepts, Classify
      <4>3. CASE at = "upgrade"
        BY <4>3, <2>1, <2>2, <2>3 DEF Refused, Accepts, Classify
      <4> QED
        BY <2>1, <4>1, <4>2, <4>3 DEF Requests
    <3> QED
      BY <2>1, <2>2, <2>3, <3>1, <3>2 DEF SetupInv, Steps, BodyInv, SocketInv, AnswerInv, Requests
  <2>4. CASE RequestEnded
    <3>1. bodies' = bodies /\ result' = Broken
      BY <1>1, <2>4 DEF RoundTrip
    <3> QED
      BY <2>1, <2>2, <2>4, <3>1 DEF SetupInv, Steps, BodyInv, SocketInv, AnswerInv, Requests, Broken
  <2>5. CASE ~RequestEnded /\ ~Accepts(r)
    <3>1. bodies' = bodies /\ result' = SetupFailure(at, r.status, r.retryAfter, now)
      BY <1>1, <2>5 DEF RoundTrip
    <3>2. result'.kind \in {"stop", "retry"}
          /\ (result'.kind = "stop" => r.status \notin { 408, 429, 500, 502, 503, 504 })
      BY <3>1, <2>1, <2>5, RefusalKind
    <3>3. Refused'
      <4>1. CASE at = "preflight"
        <5>1. ~HasAffinity(r.cookie) /\ r.status \notin 200 .. 299
          BY <4>1, <2>5 DEF Accepts, Classify
        <5> QED
          BY <4>1, <5>1, <2>1, <2>2 DEF Refused
      <4>2. CASE at = "negotiate"
        <5>1. r.status \notin 200 .. 299
          BY <4>2, <2>5 DEF Accepts, Classify
        <5> QED
          BY <4>2, <5>1, <2>1, <2>2 DEF Refused
      <4>3. CASE at = "upgrade"
        <5>1. r.status # 101
          BY <4>3, <2>5 DEF Accepts, Classify
        <5> QED
          BY <4>3, <5>1, <2>1, <2>2 DEF Refused
      <4> QED
        BY <2>1, <4>1, <4>2, <4>3 DEF Requests
    <3>4. seen'.inTime
      BY <2>2, <2>5
    <3>5. result'.kind = "stop" => seen'.status \notin { 408, 429, 500, 502, 503, 504 }
      <4>1. seen'.status = r.status
        BY <2>2
      <4> QED
        BY <3>2, <4>1
    <3>6. AnswerInv'
      BY <2>1, <3>2, <3>3, <3>4, <3>5 DEF AnswerInv, Requests
    <3>7. BodyInv' /\ SocketInv' /\ at' \in Steps
      BY <2>1, <3>1, <3>2 DEF BodyInv, SocketInv, Steps, Requests
    <3> QED
      BY <3>6, <3>7 DEF SetupInv
  <2> QED
    BY <2>3, <2>4, <2>5
<1>2. ASSUME SetupInv, RequestFails PROVE SetupInv'
  <2>1. /\ at \in Requests /\ at' = at /\ bodies' = bodies /\ socket' = socket
        /\ seen' = seen /\ lapsed' = lapsed /\ result' = Broken
        /\ result = Pending \/ (lapsed /\ result.kind \in {"stop", "retry"})
    BY <1>2 DEF RequestFails
  <2>2. bodies = {} /\ (~seen.inTime \/ lapsed)
    BY <1>2, <2>1 DEF SetupInv, BodyInv, AnswerInv, Pending
  <2> QED
    BY <1>2, <2>1, <2>2 DEF SetupInv, BodyInv, SocketInv, AnswerInv, Broken, Requests
<1> QED
  BY <1>1, <1>2

\* Every return of a request closes what it was given.
LEMMA ReturnKeeps == SetupInv /\ Returns => SetupInv'
<1> SUFFICES ASSUME SetupInv, Returns PROVE SetupInv'
  OBVIOUS
<1>a. Failure.kind # "connected" /\ \A kind : Outcome(kind).kind = kind
  BY FailureKind DEF Outcome
<1>b. at \in Requests => bodies \ {at} = {} /\ (result.kind # "response" => bodies = {})
                         /\ ~socket
  BY DEF SetupInv, BodyInv, SocketInv
<1>1. CASE PreflightReturns
  <2>1. /\ at = "preflight" /\ bodies' = {} /\ ~socket /\ socket' = socket
    BY <1>1, <1>b DEF PreflightReturns, CloseBody, Requests
  <2>2. CASE \E o : Finish(o) /\ o.kind # "connected"
    BY <2>1, <2>2, Finished, EndKeeps
  <2>3. CASE \E set : Send("negotiate", set)
    BY <2>1, <2>3, Sent, EndKeeps, RequestKeeps DEF Requests
  <2> QED
    BY <1>1, <1>a, <2>2, <2>3 DEF PreflightReturns
<1>2. CASE NegotiateReturns
  <2>1. at = "negotiate" /\ ~socket /\ socket' = socket
    BY <1>2, <1>b DEF NegotiateReturns, Requests
  <2>2. CASE result.kind # "response" \/ caller # "alive"
    <3>1. Finish(Failure) /\ bodies' = {}
      BY <1>2, <1>b, <2>1, <2>2 DEF NegotiateReturns, CloseBody, Requests
    <3> QED
      BY <3>1, <1>a, <2>1, Finished, EndKeeps
  <2>3. CASE ~(result.kind # "response" \/ caller # "alive")
    <3>1. at' = "body" /\ bodies' = bodies /\ seen' = seen /\ bodies = {"negotiate"}
          /\ seen.inTime
      BY <1>2, <2>1, <2>3 DEF NegotiateReturns, SetupInv, BodyInv, AnswerInv, Requests
    <3> QED
      BY <2>1, <3>1 DEF SetupInv, Steps, BodyInv, SocketInv, AnswerInv, Requests
  <2> QED
    BY <2>2, <2>3
<1>3. CASE DialReturns
  <2>1. at = "upgrade" /\ bodies' = {} /\ ~socket
    BY <1>3, <1>b DEF DialReturns, CloseBody, Requests
  <2>2. CASE result.kind = "response" /\ result.response.verified
    <3>1. at' = "handshake" /\ socket' = TRUE
      BY <1>3, <2>2 DEF DialReturns, Await
    <3> QED
      BY <2>1, <3>1 DEF SetupInv, Steps, BodyInv, SocketInv, AnswerInv, Requests
  <2>3. CASE ~(result.kind = "response" /\ result.response.verified)
    <3>1. socket' = socket /\ \E o : Finish(o) /\ o.kind # "connected"
      BY <1>3, <1>a, <2>3 DEF DialReturns
    <3> QED
      BY <2>1, <3>1, Finished, EndKeeps
  <2> QED
    BY <2>2, <2>3
<1> QED
  BY <1>1, <1>2, <1>3 DEF Returns

\* The other steps of the attempt, and the clock.
LEMMA OtherKeeps ==
  ASSUME SetupInv,
         \/ Clock \/ ReadToken \/ (\E body \in Bodies : ReadBody(body)) \/ BodyFails
         \/ WriteHandshake \/ HandshakeBreaks \/ HandshakeRefused \/ HandshakeAccepted
         \/ Subscribe \/ SubscribeFails
  PROVE  SetupInv'
<1>a. \A kind : Outcome(kind).kind = kind
  BY DEF Outcome
<1>b. ASSUME NEW kind, kind # "connected", at \in {"handshake", "reply", "subscribe"}, GiveUp(kind)
      PROVE  SetupInv'
  <2>1. bodies' = {} /\ ~socket' /\ Finish(Outcome(kind))
    BY <1>b DEF GiveUp, SetupInv, BodyInv, Requests
  <2> QED
    BY <2>1, <1>a, <1>b, Finished, EndKeeps
<1>1. CASE Clock
  <2>1. UNCHANGED << at, result, bodies, socket, outcome, seen >> /\ (lapsed => lapsed')
    BY <1>1 DEF Clock, CallerElapses, CallerEnds, Lapse, attempt
  <2> QED
    BY <2>1 DEF SetupInv, BodyInv, SocketInv, AnswerInv, Refused
<1>2. CASE ReadToken
  <2>1. bodies' = {} /\ ~socket'
    BY <1>2 DEF ReadToken, SetupInv, BodyInv, SocketInv, Requests
  <2>2. CASE Finish(Outcome("transient"))
    BY <2>1, <2>2, <1>a, Finished, EndKeeps
  <2>3. CASE Await("preflight")
    BY <2>1, <2>3, Waiting, RequestKeeps DEF Requests
  <2> QED
    BY <1>2, <2>2, <2>3 DEF ReadToken
<1>3. ASSUME NEW body \in Bodies, ReadBody(body) PROVE SetupInv'
  <2>1. bodies' = {} /\ ~socket'
    BY <1>3 DEF ReadBody, SetupInv, SocketInv
  <2>2. CASE Finish(Outcome("invalid"))
    BY <2>1, <2>2, <1>a, Finished, EndKeeps
  <2>3. CASE \E set : Send("upgrade", set)
    BY <2>1, <2>3, Sent, EndKeeps, RequestKeeps DEF Requests
  <2> QED
    BY <1>3, <2>2, <2>3 DEF ReadBody
<1>4. CASE BodyFails
  <2>1. bodies' = {} /\ ~socket' /\ Finish(Outcome("transient"))
    BY <1>4 DEF BodyFails, SetupInv, SocketInv
  <2> QED
    BY <2>1, <1>a, Finished, EndKeeps
<1>5. CASE WriteHandshake
  BY <1>5 DEF WriteHandshake, SetupInv, Steps, BodyInv, SocketInv, AnswerInv, Requests
<1>6. CASE HandshakeBreaks
  BY <1>6, <1>b DEF HandshakeBreaks
<1>7. CASE HandshakeRefused
  BY <1>7, <1>b DEF HandshakeRefused
<1>8. CASE HandshakeAccepted
  <2>1. at = "reply" /\ at' = "subscribe" /\ bodies' = bodies /\ socket' = socket
    BY <1>8 DEF HandshakeAccepted, Await
  <2> QED
    BY <2>1 DEF SetupInv, Steps, BodyInv, SocketInv, AnswerInv, Requests
<1>9. CASE Subscribe
  <2>1. bodies' = {} /\ socket' = socket /\ socket /\ Finish(Outcome("connected"))
    BY <1>9 DEF Subscribe, SetupInv, BodyInv, SocketInv, Requests
  <2> QED
    BY <2>1, <1>a, Finished, EndKeeps
<1>10. CASE SubscribeFails
  BY <1>10, <1>b DEF SubscribeFails
<1> QED
  BY <1>1, <1>2, <1>3, <1>4, <1>5, <1>6, <1>7, <1>8, <1>9, <1>10

LEMMA SetupNext == SetupInv /\ [ConnectNext]_connectVars => SetupInv'
<1> SUFFICES ASSUME SetupInv, [ConnectNext]_connectVars PROVE SetupInv'
  OBVIOUS
<1>1. CASE (Clock \/ BeforeReply) /\ UNCHANGED vars
  <2>1. ASSUME at \in Requests, NEW r \in Responses[at], NEW now \in Clocks, RoundTrip(r, now)
        PROVE  SetupInv'
    BY <2>1, AnswerKeeps
  <2>2. CASE RequestFails
    BY <2>2, AnswerKeeps
  <2>3. CASE Returns
    BY <2>3, ReturnKeeps
  <2> QED
    BY <1>1, <2>1, <2>2, <2>3, OtherKeeps DEF BeforeReply
<1>2. ASSUME NEW m \in Messages, HandshakeMessage(m) PROVE SetupInv'
  BY <1>2, SetupStutters, OtherKeeps DEF HandshakeMessage
<1>3. CASE HandshakeData
  BY <1>3, OtherKeeps DEF HandshakeData
<1>4. CASE (Subscribe \/ SubscribeFails) /\ UNCHANGED vars
  BY <1>4, OtherKeeps
<1>5. CASE Reading \/ Over \/ UNCHANGED connectVars
  BY <1>5, SetupStutters DEF Reading, Over, connectVars
<1> QED
  BY <1>1, <1>2, <1>3, <1>4, <1>5 DEF ConnectNext

LEMMA SetupInvariant == ConnectSpec => []SetupInv
BY SetupInvInit, SetupNext, PTL DEF ConnectSpec

\* No attempt leaves a response body or a WebSocket open, wherever it fails.
THEOREM AttemptsCleanUp == ConnectSpec => []NothingLeaks
<1>1. SetupInv => NothingLeaks
  BY DEF SetupInv, BodyInv, SocketInv, NothingLeaks
<1> QED
  BY <1>1, SetupInvariant, PTL

-----------------------------------------------------------------------------
(* The verdict.                                                            *)

\* What VerdictIsTheServers says of the step that ends an attempt.
Just ==
  LET server == outcome'.kind \in { "stop", "retry" }
  IN  /\ server => caller = "alive" /\ seen.inTime /\ Refused
      /\ caller = "alive" /\ ~lapsed /\ seen.inTime /\ at \in Requests /\ Refused => server
      /\ outcome'.kind = "stop" => seen.status \notin { 408, 429, 500, 502, 503, 504 }
      /\ outcome'.kind = "invalid" => at = "reply" \/ seen.inTime

\* A request that failed, or whose caller has gone, ends with Failure: that is what the
\* server said unless the caller has gone or the timer came first.
LEMMA FailureIsJust ==
  ASSUME SetupInv, at \in Requests, result # Pending,
         result.kind # "response" \/ caller # "alive", outcome' = Failure
  PROVE  Just
<1>1. CASE caller = "alive" /\ result.kind \in {"stop", "retry"}
  <2>1. outcome' = result
    BY <1>1 DEF Failure
  <2>2. seen.inTime /\ Refused
        /\ (result.kind = "stop" => seen.status \notin { 408, 429, 500, 502, 503, 504 })
    BY <1>1 DEF SetupInv, AnswerInv
  <2> QED
    BY <1>1, <2>1, <2>2 DEF Just
<1>2. CASE ~(caller = "alive" /\ result.kind \in {"stop", "retry"})
  <2>1. outcome'.kind = "transient"
    BY <1>2 DEF Failure, Outcome
  <2>2. caller = "alive" => ~seen.inTime \/ lapsed
    BY <1>2 DEF SetupInv, AnswerInv
  <2> QED
    BY <2>1, <2>2 DEF Just
<1> QED
  BY <1>1, <1>2

\* A response that is not good enough blames no status.
LEMMA ResponseIsJust ==
  ASSUME SetupInv, at \in Requests, result.kind = "response",
         outcome'.kind \in {"invalid", "transient"}
  PROVE  Just
BY DEF Just, SetupInv, AnswerInv

LEMMA ElsewhereIsJust ==
  ASSUME at \notin Requests,
         \/ outcome'.kind \in {"transient", "connected"}
         \/ outcome'.kind = "invalid" /\ (at = "reply" \/ seen.inTime)
  PROVE  Just
BY DEF Just

\* The ends of requests.
LEMMA ReturnIsJust == ASSUME SetupInv, Returns, at' = "done" PROVE Just
<1>a. \A kind : Outcome(kind).kind = kind
  BY DEF Outcome
<1>b. result # Pending /\ at \in Requests
  BY DEF Returns, PreflightReturns, NegotiateReturns, DialReturns, Requests
<1>1. CASE \E o : Finish(o) /\ o = Failure /\ (result.kind # "response" \/ caller # "alive")
  BY <1>1, <1>b, Finished, FailureIsJust
<1>2. CASE result.kind = "response" /\ \E o : Finish(o) /\ o.kind \in {"invalid", "transient"}
  BY <1>2, <1>b, Finished, ResponseIsJust
<1>3. CASE result.kind = "response" /\ \E set : Send("negotiate", set)
  BY <1>3, <1>b, Sent, ResponseIsJust
<1>4. CASE PreflightReturns
  BY <1>4, <1>a, <1>1, <1>2, <1>3 DEF PreflightReturns
<1>5. CASE NegotiateReturns
  BY <1>5, <1>1 DEF NegotiateReturns
<1>6. CASE DialReturns
  <2>1. ~(result.kind = "response" /\ result.response.verified)
    BY <1>6 DEF DialReturns, Await
  <2>2. CASE result.kind = "response" /\ caller = "alive"
    BY <1>6, <1>a, <2>1, <2>2, <1>2 DEF DialReturns
  <2>3. CASE ~(result.kind = "response" /\ caller = "alive")
    BY <1>6, <2>1, <2>3, <1>1 DEF DialReturns
  <2> QED
    BY <2>2, <2>3
<1> QED
  BY <1>4, <1>5, <1>6 DEF Returns

\* The ends elsewhere.
LEMMA OtherIsJust ==
  ASSUME SetupInv, at' = "done",
         \/ ReadToken \/ (\E body \in Bodies : ReadBody(body)) \/ BodyFails
         \/ HandshakeBreaks \/ HandshakeRefused \/ Subscribe \/ SubscribeFails
  PROVE  Just
<1>a. \A kind : Outcome(kind).kind = kind
  BY DEF Outcome
<1>b. /\ "token" \notin Requests /\ "body" \notin Requests /\ "handshake" \notin Requests
      /\ "reply" \notin Requests /\ "subscribe" \notin Requests
  BY DEF Requests
<1>1. CASE ReadToken
  <2>1. Finish(Outcome("transient")) /\ at = "token"
    BY <1>1 DEF ReadToken, Await
  <2> QED
    BY <2>1, <1>a, <1>b, Finished, ElsewhereIsJust
<1>2. ASSUME NEW body \in Bodies, ReadBody(body) PROVE Just
  <2>1. at = "body" /\ seen.inTime
    BY <1>2 DEF ReadBody, SetupInv, AnswerInv
  <2>2. outcome'.kind = "invalid"
    <3>1. CASE Finish(Outcome("invalid"))
      BY <3>1, <1>a, Finished
    <3>2. CASE \E set : Send("upgrade", set)
      BY <3>2, Sent
    <3> QED
      BY <1>2, <3>1, <3>2 DEF ReadBody
  <2> QED
    BY <2>1, <2>2, <1>b, ElsewhereIsJust
<1>3. CASE BodyFails
  <2>1. Finish(Outcome("transient")) /\ at = "body"
    BY <1>3 DEF BodyFails
  <2> QED
    BY <2>1, <1>a, <1>b, Finished, ElsewhereIsJust
<1>4. CASE HandshakeBreaks \/ HandshakeRefused \/ SubscribeFails
  <2>1. at \in {"handshake", "reply", "subscribe"} /\ \E kind \in {"transient", "invalid"} :
           Finish(Outcome(kind)) /\ (kind = "invalid" => at = "reply")
    BY <1>4 DEF HandshakeBreaks, HandshakeRefused, SubscribeFails, GiveUp
  <2> QED
    BY <2>1, <1>a, <1>b, Finished, ElsewhereIsJust
<1>5. CASE Subscribe
  <2>1. Finish(Outcome("connected")) /\ at = "subscribe"
    BY <1>5 DEF Subscribe
  <2> QED
    BY <2>1, <1>a, <1>b, Finished, ElsewhereIsJust
<1> QED
  BY <1>1, <1>2, <1>3, <1>4, <1>5

\* The owner of an attempt gives up, or waits for the server, only for what the server
\* answered in time, and a refusal that was seen in time is not lost.
THEOREM VerdictsAreJust == ConnectSpec => VerdictIsTheServers
<1>1. SetupInv /\ [ConnectNext]_connectVars => (at # "done" /\ at' = "done" => Just)
  <2> SUFFICES ASSUME SetupInv, [ConnectNext]_connectVars, at # "done", at' = "done" PROVE Just
    OBVIOUS
  <2>1. CASE (Clock \/ BeforeReply) /\ UNCHANGED vars
    <3>1. CASE Clock \/ RequestFails \/ WriteHandshake
      BY <3>1 DEF Clock, CallerElapses, CallerEnds, Lapse, attempt, RequestFails, WriteHandshake
    <3>2. ASSUME at \in Requests, NEW r \in Responses[at], NEW now \in Clocks, RoundTrip(r, now)
          PROVE  Just
      BY <3>2 DEF RoundTrip
    <3> QED
      BY <2>1, <3>1, <3>2, ReturnIsJust, OtherIsJust DEF BeforeReply
  <2>2. ASSUME NEW m \in Messages, HandshakeMessage(m) PROVE Just
    <3>1. HandshakeRefused
      BY <2>2 DEF HandshakeMessage, HandshakeAccepted, Await, setupVars
    <3> QED
      BY <3>1, OtherIsJust
  <2>3. CASE HandshakeData
    BY <2>3, OtherIsJust DEF HandshakeData
  <2>4. CASE (Subscribe \/ SubscribeFails) /\ UNCHANGED vars
    BY <2>4, OtherIsJust
  <2>5. CASE Reading \/ Over \/ UNCHANGED connectVars
    BY <2>5 DEF Reading, Over, connectVars, setupVars
  <2> QED
    BY <2>1, <2>2, <2>3, <2>4, <2>5 DEF ConnectNext
<1>2. SetupInv /\ [ConnectNext]_connectVars => [at # "done" /\ at' = "done" => Just]_setupVars
  BY <1>1
<1> QED
  BY <1>2, SetupInvariant, PTL DEF ConnectSpec, VerdictIsTheServers, Just

-----------------------------------------------------------------------------
(* The affinity.                                                           *)

\* Every cookie that an answer may set.
AllCookies == UNION { { r.cookie : r \in Responses[request] } : request \in Requests }

\* The jar under a scheme, apart from the state.
Sets(safe, c) == c.name = "affinity" /\ (safe \/ ~c.secure)

Jar(safe, set) ==
  LET allowed == { i \in DOMAIN set : Sets(safe, set[i]) }
  IN  { i \in allowed : /\ set[i].live
                        /\ \A j \in allowed : j > i => set[j].path # set[i].path }

\* What the server named is what a jar keeps of the cookies of set.
Agree(names, safe, set) ==
  /\ names = [path \in Paths |-> names[path]]
  /\ \A path \in Paths : \A v :
       v # "" => (names[path] = v <=>
                    \E i \in Jar(safe, set) : set[i].path = path /\ set[i].value = v)

\* The attempt keeps, with the answer at hand, what the server named, and a request
\* under way carries what applies of the cookies kept before it.
AffinityInv ==
  /\ cookies \in Seq(AllCookies)
  /\ at \in { "token", "preflight" } => cookies = << >>
  /\ at = "body" => result.kind = "response"
  /\ at = "token" \/ (at \in Requests /\ result = Pending) => Agree(named, secure, cookies)
  /\ at \in { "preflight", "negotiate", "body" } /\ result.kind = "response" =>
       /\ result.response.cookie \in AllCookies
       /\ Agree(named, secure, Append(cookies, result.response.cookie))
  /\ at \in { "negotiate", "upgrade" } => carried # {} /\ carried = CookiesFor(at, cookies)

\* The jar with one cookie more.
LEMMA JarAppend ==
  ASSUME NEW S, NEW set \in Seq(S), NEW c \in S, NEW safe
  PROVE  /\ \A i \in Jar(safe, set) : i \in 1 .. Len(set) /\ Append(set, c)[i] = set[i]
         /\ Append(set, c)[Len(set) + 1] = c
         /\ \A i : i \in Jar(safe, Append(set, c)) <=>
              IF Sets(safe, c)
              THEN \/ i \in Jar(safe, set) /\ set[i].path # c.path
                   \/ i = Len(set) + 1 /\ c.live
              ELSE i \in Jar(safe, set)
<1> DEFINE n == Len(set)
           more == Append(set, c)
<1>1. /\ n \in Nat /\ DOMAIN set = 1 .. n /\ DOMAIN more = 1 .. (n + 1)
      /\ more[n + 1] = c /\ \A i \in 1 .. n : more[i] = set[i]
  OBVIOUS
<1>2. \A i : i \in Jar(safe, set) => i \in 1 .. n
  BY <1>1, Zenon DEF Jar
<1> HIDE DEF n, more
<1> DEFINE A(s) == { i \in DOMAIN s : Sets(safe, s[i]) }
<1>3. \A s, i : i \in Jar(safe, s) <=>
        /\ i \in A(s) /\ s[i].live
        /\ \A j \in A(s) : j > i => s[j].path # s[i].path
  BY Zenon DEF Jar
<1>4. \A i : i \in A(more) <=> i \in A(set) \/ (i = n + 1 /\ Sets(safe, c))
  <2>1. \A i : i \in 1 .. (n + 1) <=> i \in 1 .. n \/ i = n + 1
    BY <1>1
  <2>2. \A i : i \in A(more) <=> i \in 1 .. (n + 1) /\ Sets(safe, more[i])
    BY <1>1, Zenon
  <2>3. \A i : i \in A(set) <=> i \in 1 .. n /\ Sets(safe, set[i])
    BY <1>1, Zenon
  <2> HIDE DEF A
  <2>4. ASSUME NEW i PROVE i \in A(more) <=> i \in A(set) \/ (i = n + 1 /\ Sets(safe, c))
    <3>1. CASE i \in 1 .. n
      <4>1. more[i] = set[i] /\ i # n + 1
        BY <1>1, <3>1
      <4> QED
        BY <2>1, <2>2, <2>3, <3>1, <4>1, Zenon
    <3>2. CASE i = n + 1
      <4>1. i \notin 1 .. n
        BY <1>1, <3>2
      <4>2. more[i] = c
        BY <1>1, <3>2
      <4> QED
        BY <2>1, <2>2, <2>3, <3>2, <4>1, <4>2, Zenon
    <3>3. CASE i \notin 1 .. n /\ i # n + 1
      BY <2>1, <2>2, <2>3, <3>3, Zenon
    <3> QED
      BY <3>1, <3>2, <3>3
  <2> QED
    BY <2>4
<1>5. \A i \in A(set) : i \in 1 .. n /\ i < n + 1 /\ more[i] = set[i]
  <2>1. \A i \in A(set) : i \in 1 .. n
    BY <1>1, Zenon
  <2> HIDE DEF A
  <2> QED
    BY <1>1, <2>1
<1> HIDE DEF A
<1>6. ASSUME NEW i
      PROVE  i \in Jar(safe, more) <=>
               IF Sets(safe, c)
               THEN \/ i \in Jar(safe, set) /\ set[i].path # c.path
                    \/ i = n + 1 /\ c.live
               ELSE i \in Jar(safe, set)
  <2>1. CASE i \in A(set)
    <3>1. more[i] = set[i] /\ i # n + 1 /\ n + 1 > i
      BY <1>1, <1>5, <2>1
    <3>2. i \in Jar(safe, more) <=>
            /\ set[i].live
            /\ \A j \in A(more) : j > i => more[j].path # set[i].path
      BY <1>3, <1>4, <2>1, <3>1
    <3>3. (\A j \in A(more) : j > i => more[j].path # set[i].path) <=>
            /\ \A j \in A(set) : j > i => set[j].path # set[i].path
            /\ Sets(safe, c) => c.path # set[i].path
      BY <1>1, <1>4, <1>5, <3>1, Zenon
    <3> QED
      BY <1>3, <2>1, <3>1, <3>2, <3>3, Zenon
  <2>2. CASE i = n + 1
    <3>1. i \notin A(set) /\ i \notin Jar(safe, set) /\ more[i] = c
      BY <1>1, <1>3, <1>5, <2>2
    <3>2. \A j \in A(more) : ~(j > i)
      BY <1>1, <1>4, <1>5, <2>2
    <3>3. i \in Jar(safe, more) <=> i \in A(more) /\ c.live
      BY <1>3, <3>1, <3>2, Zenon
    <3> QED
      BY <1>4, <2>2, <3>1, <3>3, Zenon
  <2>3. CASE i \notin A(set) /\ i # n + 1
    BY <1>3, <1>4, <2>3, Zenon
  <2> QED
    BY <2>1, <2>2, <2>3
<1> QED
  BY <1>1, <1>2, <1>6 DEF n, more

\* An answer is kept as the server means it.
LEMMA NamesKeeps ==
  ASSUME NEW S, NEW set \in Seq(S), NEW c \in S, NEW safe, NEW names, NEW next,
         Agree(names, safe, set),
         next = IF Sets(safe, c) THEN [names EXCEPT ![c.path] = IF c.live THEN c.value ELSE ""]
                ELSE names
  PROVE  Agree(next, safe, Append(set, c))
<1> DEFINE more == Append(set, c)
           sets == Sets(safe, c)
<1>1. next = IF sets THEN [names EXCEPT ![c.path] = IF c.live THEN c.value ELSE ""] ELSE names
  OBVIOUS
<1>2. /\ \A i \in Jar(safe, set) : i \in 1 .. Len(set) /\ more[i] = set[i]
      /\ more[Len(set) + 1] = c
      /\ \A i : i \in Jar(safe, more) <=>
           IF sets
           THEN \/ i \in Jar(safe, set) /\ set[i].path # c.path
                \/ i = Len(set) + 1 /\ c.live
           ELSE i \in Jar(safe, set)
  BY JarAppend
<1>3. /\ names = [path \in Paths |-> names[path]]
      /\ \A path \in Paths : \A v :
           v # "" => (names[path] = v <=>
                        \E i \in Jar(safe, set) : set[i].path = path /\ set[i].value = v)
  BY DEF Agree
<1> HIDE DEF more, sets
<1>4. /\ next = [path \in Paths |-> next[path]]
      /\ \A path \in Paths : next[path] = IF sets /\ path = c.path
                                          THEN IF c.live THEN c.value ELSE ""
                                          ELSE names[path]
  BY <1>1, <1>3
<1>5. ASSUME NEW path \in Paths, NEW v, v # ""
      PROVE  next[path] = v <=> \E i \in Jar(safe, more) : more[i].path = path /\ more[i].value = v
  <2>0. names[path] = v <=> \E i \in Jar(safe, set) : set[i].path = path /\ set[i].value = v
    BY <1>3, <1>5, Zenon
  <2>1. CASE ~sets
    <3>1. \A i : i \in Jar(safe, more) <=> i \in Jar(safe, set)
      BY <1>2, <2>1
    <3>2. (\E i \in Jar(safe, more) : more[i].path = path /\ more[i].value = v) <=>
            \E i \in Jar(safe, set) : set[i].path = path /\ set[i].value = v
      BY <1>2, <3>1, Zenon
    <3>3. next[path] = names[path]
      BY <1>4, <2>1
    <3> QED
      BY <2>0, <3>2, <3>3, Zenon
  <2>2. CASE sets /\ path # c.path
    <3>1. \A i : i \in Jar(safe, more) => i \in Jar(safe, set) \/ i = Len(set) + 1
      BY <1>2, <2>2
    <3>2. \A i \in Jar(safe, set) : set[i].path = path => i \in Jar(safe, more)
      BY <1>2, <2>2
    <3>3. (\E i \in Jar(safe, more) : more[i].path = path /\ more[i].value = v) <=>
            \E i \in Jar(safe, set) : set[i].path = path /\ set[i].value = v
      BY <1>2, <2>2, <3>1, <3>2
    <3>4. next[path] = names[path]
      BY <1>4, <2>2
    <3> QED
      BY <2>0, <3>3, <3>4, Zenon
  <2>3. CASE sets /\ path = c.path
    <3>1. next[path] = v <=> c.live /\ c.value = v
      BY <1>4, <1>5, <2>3
    <3>2. (\E i \in Jar(safe, more) : more[i].path = path /\ more[i].value = v) <=>
            c.live /\ c.value = v
      <4>1. \A i \in Jar(safe, more) : more[i].path = path => i = Len(set) + 1 /\ c.live
        BY <1>2, <2>3
      <4>2. c.live => Len(set) + 1 \in Jar(safe, more)
        BY <1>2, <2>3
      <4> QED
        BY <1>2, <2>3, <4>1, <4>2
    <3> QED
      BY <3>1, <3>2
  <2> QED
    BY <2>1, <2>2, <2>3
<1> QED
  BY <1>4, <1>5 DEF Agree, more

\* The cookies kept are a jar under the scheme at hand.
LEMMA KeptIsJar ==
  ASSUME NEW set
  PROVE  Kept(set) = Jar(secure, set)
BY Zenon DEF Kept, Allowed, Jar, Sets

\* A request is sent with what applies, or not at all.
LEMMA SendCarries ==
  ASSUME NEW request \in { "negotiate", "upgrade" }, NEW set \in Seq(AllCookies),
         Agree(named, secure, set), Send(request, set), secure' = secure
  PROVE  AffinityInv'
<1>1. CASE CookiesFor(request, set) = {}
  <2>1. at' = "done" /\ cookies' = << >>
    BY <1>1 DEF Send, Finish, Await
  <2> QED
    BY <2>1 DEF AffinityInv, Requests
<1>2. CASE CookiesFor(request, set) # {}
  <2>1. /\ at' = request /\ result'.kind = "pending" /\ named' = named
        /\ cookies' = set /\ carried' = CookiesFor(request, set)
    BY <1>2 DEF Send, Await, Pending
  <2>2. CookiesFor(at, cookies)' = CookiesFor(request, set)
    BY <2>1 DEF CookiesFor, Kept, Allowed
  <2>3. Agree(named, secure, cookies)'
    BY <2>1, Zenon
  <2> QED
    BY <1>2, <2>1, <2>2, <2>3 DEF AffinityInv, Requests
<1> QED
  BY <1>1, <1>2

\* The request, its cookies and its answer stay as they are.
LEMMA AffinityStutters ==
  ASSUME AffinityInv, at' = at, UNCHANGED << result, secure, cookies, carried, named >>
  PROVE  AffinityInv'
<1>1. CookiesFor(at, cookies)' = CookiesFor(at, cookies)
  BY DEF CookiesFor, Kept, Allowed
<1>2. /\ Agree(named, secure, cookies)' <=> Agree(named, secure, cookies)
      /\ Agree(named, secure, Append(cookies, result.response.cookie))' <=>
           Agree(named, secure, Append(cookies, result.response.cookie))
  BY DEF Agree, Jar, Sets
<1> QED
  BY <1>1, <1>2 DEF AffinityInv

\* A step outside the requests, where no cookie is owed.
LEMMA AffinityIdle ==
  ASSUME cookies' \in Seq(AllCookies), at' \notin Requests \cup { "token", "body" }
  PROVE  AffinityInv'
BY DEF AffinityInv, Requests

\* The server's answer is at hand, or the server is lost.
LEMMA AffinityAnswers ==
  /\ \A r, now : AffinityInv /\ at \in Requests /\ r \in Responses[at] /\ RoundTrip(r, now)
                   => AffinityInv'
  /\ AffinityInv /\ RequestFails => AffinityInv'
<1>1. ASSUME NEW r, NEW now, AffinityInv, at \in Requests, r \in Responses[at], RoundTrip(r, now)
      PROVE  AffinityInv'
  <2>1. /\ result = Pending /\ at' = at /\ Names(r.cookie)
        /\ UNCHANGED << secure, cookies, carried >>
    BY <1>1 DEF RoundTrip
  <2>2. r.cookie \in AllCookies /\ cookies \in Seq(AllCookies) /\ Agree(named, secure, cookies)
    BY <1>1, <2>1 DEF AllCookies, AffinityInv
  <2>3. named' = IF Sets(secure, r.cookie)
                 THEN [named EXCEPT ![r.cookie.path] = IF r.cookie.live THEN r.cookie.value ELSE ""]
                 ELSE named
    BY <2>1, Zenon DEF Names, Sets
  <2>4. Agree(named', secure, Append(cookies, r.cookie))
    <3> DEFINE next == named'
    <3>1. next = IF Sets(secure, r.cookie)
                 THEN [named EXCEPT ![r.cookie.path] = IF r.cookie.live THEN r.cookie.value ELSE ""]
                 ELSE named
      BY <2>3
    <3> HIDE DEF next
    <3>2. Agree(next, secure, Append(cookies, r.cookie))
      BY <2>2, <3>1, NamesKeeps
    <3> QED
      BY <3>2 DEF next
  <2>5. /\ result'.kind # "pending"
        /\ result'.kind = "response" => result'.response.cookie = r.cookie
    <3>1. CASE ~RequestEnded /\ Accepts(r)
      <4>1. result' = [kind |-> "response", response |-> WithoutLocation(r)]
        BY <1>1, <3>1 DEF RoundTrip
      <4>2. WithoutLocation(r).cookie = r.cookie
        BY <1>1, AnswersAssumption DEF WithoutLocation
      <4> QED
        BY <4>1, <4>2
    <3>2. CASE RequestEnded
      BY <1>1, <3>2 DEF RoundTrip, Broken
    <3>3. CASE ~RequestEnded /\ ~Accepts(r)
      <4>1. result' = SetupFailure(at, r.status, r.retryAfter, now)
        BY <1>1, <3>3 DEF RoundTrip
      <4> QED
        BY <1>1, <3>3, <4>1, RefusalKind
    <3> QED
      BY <3>1, <3>2, <3>3
  <2>6. result'.kind = "response" =>
          Agree(named, secure, Append(cookies, result.response.cookie))'
    BY <2>1, <2>4, <2>5, Zenon
  <2>7. CookiesFor(at, cookies)' = CookiesFor(at, cookies)
    BY <2>1 DEF CookiesFor, Kept, Allowed
  <2> QED
    BY <1>1, <2>1, <2>2, <2>5, <2>6, <2>7 DEF AffinityInv, Requests, Pending
<1>2. ASSUME AffinityInv, RequestFails PROVE AffinityInv'
  <2>1. /\ at \in Requests /\ at' = at /\ result'.kind = "broken"
        /\ UNCHANGED << secure, cookies, carried >>
    BY <1>2 DEF RequestFails, Broken
  <2>2. CookiesFor(at, cookies)' = CookiesFor(at, cookies)
    BY <2>1 DEF CookiesFor, Kept, Allowed
  <2> QED
    BY <1>2, <2>1, <2>2 DEF AffinityInv, Requests, Pending
<1> QED
  BY <1>1, <1>2

\* The caller of a request makes the next one with the cookie of the answer.
LEMMA AffinityReturns ==
  /\ AffinityInv /\ PreflightReturns => AffinityInv'
  /\ AffinityInv /\ NegotiateReturns => AffinityInv'
  /\ \A body : AffinityInv /\ ReadBody(body) => AffinityInv'
<1>a. ASSUME NEW o, Finish(o) PROVE AffinityInv'
  BY <1>a, AffinityIdle DEF Finish, Await, Requests
<1>1. ASSUME AffinityInv, PreflightReturns PROVE AffinityInv'
  <2> DEFINE c == result.response.cookie
  <2>1. CASE Send("negotiate", << c >>) /\ result.kind = "response"
    <3>1. at = "preflight" /\ secure' = secure
      BY <1>1 DEF PreflightReturns
    <3>2. cookies = << >> /\ c \in AllCookies /\ Agree(named, secure, Append(cookies, c))
      BY <1>1, <2>1, <3>1 DEF AffinityInv
    <3> HIDE DEF c
    <3>3. Append(<< >>, c) = << c >> /\ << c >> \in Seq(AllCookies)
      BY <3>2
    <3>4. Agree(named, secure, << c >>)
      BY <3>2, <3>3, Zenon
    <3> QED
      BY <2>1, <3>1, <3>3, <3>4, SendCarries
  <2> QED
    BY <1>1, <2>1, <1>a DEF PreflightReturns
<1>2. ASSUME AffinityInv, NegotiateReturns PROVE AffinityInv'
  <2>1. CASE /\ at' = "body" /\ result.kind = "response"
             /\ UNCHANGED << result, cookies, secure, named >>
    <3>1. at = "negotiate"
      BY <1>2 DEF NegotiateReturns
    <3>2. Agree(named, secure, Append(cookies, result.response.cookie))'
      BY <1>2, <2>1, <3>1, Zenon DEF AffinityInv
    <3> QED
      BY <1>2, <2>1, <3>1, <3>2 DEF AffinityInv, Requests
  <2> QED
    BY <1>2, <2>1, <1>a DEF NegotiateReturns
<1>3. ASSUME NEW body, AffinityInv, ReadBody(body) PROVE AffinityInv'
  <2> DEFINE set == Append(cookies, result.response.cookie)
  <2>1. CASE Send("upgrade", set)
    <3>1. secure' = secure /\ at = "body"
      BY <1>3 DEF ReadBody
    <3>2. set \in Seq(AllCookies) /\ Agree(named, secure, set)
      BY <1>3, <3>1 DEF AffinityInv
    <3> HIDE DEF set
    <3> QED
      BY <2>1, <3>1, <3>2, SendCarries
  <2> QED
    BY <1>3, <2>1, <1>a DEF ReadBody
<1> QED
  BY <1>1, <1>2, <1>3

LEMMA AffinityNext == AffinityInv /\ [ConnectNext]_connectVars => AffinityInv'
<1> SUFFICES ASSUME AffinityInv, [ConnectNext]_connectVars PROVE AffinityInv'
  OBVIOUS
<1>a. ASSUME NEW o, Finish(o) PROVE AffinityInv'
  BY <1>a, AffinityIdle DEF Finish, Await, Requests
<1>b. ASSUME NEW kind, GiveUp(kind) PROVE AffinityInv'
  BY <1>b, <1>a DEF GiveUp
<1>c. cookies \in Seq(AllCookies)
  BY DEF AffinityInv
<1>1. CASE Clock
  BY <1>1, AffinityStutters DEF Clock, CallerElapses, CallerEnds, Lapse, attempt
<1>2. ASSUME at \in Requests, NEW r \in Responses[at], NEW now, RoundTrip(r, now)
      PROVE  AffinityInv'
  BY <1>2, AffinityAnswers
<1>3. CASE ReadToken
  <2>1. CASE Await("preflight") /\ UNCHANGED << cookies, carried, named, secure >>
    <3>1. at = "token" /\ at' = "preflight" /\ result'.kind = "pending"
      BY <1>3, <2>1, Waiting DEF ReadToken
    <3>2. Agree(named, secure, cookies)'
      BY <2>1, <3>1, Zenon DEF AffinityInv
    <3> QED
      BY <2>1, <3>1, <3>2 DEF AffinityInv, Requests
  <2> QED
    BY <1>3, <2>1, <1>a DEF ReadToken
<1>4. CASE WriteHandshake \/ HandshakeAccepted
  BY <1>4, <1>c, AffinityIdle, Waiting DEF WriteHandshake, HandshakeAccepted, Requests
<1>5. CASE DialReturns
  <2>1. (at' = "handshake" /\ cookies' = << >>) \/ (\E o : Finish(o))
    BY <1>5 DEF DialReturns, Await
  <2>2. CASE at' = "handshake" /\ cookies' = << >>
    BY <2>2, AffinityIdle DEF Requests
  <2> QED
    BY <2>1, <2>2, <1>a
<1>6. CASE BodyFails \/ Subscribe
  BY <1>6, <1>a DEF BodyFails, Subscribe
<1>7. CASE HandshakeBreaks \/ HandshakeRefused \/ SubscribeFails
  BY <1>7, <1>b DEF HandshakeBreaks, HandshakeRefused, SubscribeFails
<1>8. CASE UNCHANGED setupVars
  BY <1>8, AffinityStutters DEF setupVars
<1>9. CASE BeforeReply
  BY <1>9, <1>2, <1>3, <1>4, <1>5, <1>6, <1>7, AffinityAnswers, AffinityReturns
     DEF BeforeReply, Returns
<1>10. CASE \E m \in Messages : HandshakeMessage(m)
  BY <1>10, <1>4, <1>7, <1>8 DEF HandshakeMessage
<1>11. CASE HandshakeData \/ Reading \/ Over \/ UNCHANGED connectVars
  BY <1>11, <1>7, <1>8 DEF HandshakeData, Reading, Over, connectVars
<1> QED
  BY <1>1, <1>6, <1>7, <1>9, <1>10, <1>11 DEF ConnectNext

\* The negotiation and the upgrade carry, of all the answers that came before them,
\* the affinities that the server has left under the paths that apply, and no other.
THEOREM AffinityIsFollowed == ConnectSpec => []AffinityFollows
<1>1. ConnectInit => AffinityInv
  <2> SUFFICES ASSUME ConnectInit PROVE AffinityInv
    OBVIOUS
  <2>1. /\ at = "token" /\ cookies = << >> /\ named = NothingNamed
    BY DEF ConnectInit, SetupInit
  <2>2. Jar(secure, << >>) = {}
    BY DEF Jar
  <2>3. Agree(NothingNamed, secure, << >>)
    BY <2>2 DEF Agree, NothingNamed
  <2> QED
    BY <2>1, <2>3 DEF AffinityInv, Requests
<1>2. AffinityInv => AffinityFollows
  <2> SUFFICES ASSUME AffinityInv, at \in { "negotiate", "upgrade" }, result = Pending
               PROVE  /\ carried = { named[path] : path \in { p \in Paths : Covers(p, at) } } \ {""}
                      /\ carried # {}
    BY DEF AffinityFollows
  <2>1. /\ carried # {} /\ carried = CookiesFor(at, cookies)
        /\ Agree(named, secure, cookies)
    BY DEF AffinityInv, Requests
  <2>2. \A v : v \in carried <=>
          \E i \in Jar(secure, cookies) :
            /\ HasAffinity(cookies[i]) /\ Covers(cookies[i].path, at) /\ v = cookies[i].value
    BY <2>1, KeptIsJar, Zenon DEF CookiesFor
  <2>3. \A i \in Jar(secure, cookies) : cookies[i].name = "affinity"
    BY DEF Jar, Sets
  <2>4. \A path \in Paths : \A v : v # "" =>
          (named[path] = v <=>
             \E i \in Jar(secure, cookies) : cookies[i].path = path /\ cookies[i].value = v)
    BY <2>1, Zenon DEF Agree
  <2>5. \A path : Covers(path, at) => path \in Paths
    BY DEF Covers, Paths
  <2>6. ASSUME NEW v
        PROVE  v \in carried <=> v # "" /\ \E path \in Paths : Covers(path, at) /\ v = named[path]
    <3>1. ASSUME v \in carried
          PROVE  v # "" /\ \E path \in Paths : Covers(path, at) /\ v = named[path]
      <4>1. PICK i \in Jar(secure, cookies) :
              HasAffinity(cookies[i]) /\ Covers(cookies[i].path, at) /\ v = cookies[i].value
        BY <2>2, <3>1, Zenon
      <4>2. v # "" /\ cookies[i].path \in Paths
        BY <2>5, <4>1, Zenon DEF HasAffinity
      <4>3. named[cookies[i].path] = v
        BY <2>4, <4>1, <4>2, Zenon
      <4> QED
        BY <4>1, <4>2, <4>3, Zenon
    <3>2. ASSUME v # "", NEW path \in Paths, Covers(path, at), v = named[path]
          PROVE  v \in carried
      <4>1. PICK i \in Jar(secure, cookies) : cookies[i].path = path /\ cookies[i].value = v
        BY <2>4, <3>2, Zenon
      <4> QED
        BY <2>2, <2>3, <3>2, <4>1, Zenon DEF HasAffinity
    <3> QED
      BY <3>1, <3>2, Zenon
  <2> QED
    BY <2>1, <2>6
<1> QED
  BY <1>1, <1>2, AffinityNext, PTL DEF ConnectSpec

-----------------------------------------------------------------------------
(* The records of the stream.  The library says nothing of SelectInSeq, so *)
(* the section starts with what the separator of a sequence is.            *)

LEMMA LeastExists ==
  ASSUME NEW I \in SUBSET Nat, I # {}
  PROVE  \E x \in I : \A y \in I : x <= y
<1>1. PICK x \in I : \A y \in I : << y, x >> \notin OpToRel(<, Nat)
  BY WFMin, NatLessThanWellFounded, Zenon
<1>2. \A y \in I : ~(y < x)
  BY <1>1 DEF OpToRel
<1> QED
  BY <1>2

LEMMA MinIsLeast ==
  ASSUME NEW I \in SUBSET Nat, I # {}
  PROVE  Min(I) \in I /\ \A y \in I : Min(I) <= y
<1>1. \E x \in I : \A y \in I : x <= y
  BY LeastExists
<1>2. Min(I) = CHOOSE x \in I : \A y \in I : x <= y
  BY Zenon DEF Min
<1> QED
  BY <1>1, <1>2, Zenon

LEMMA SeparatorFirst ==
  ASSUME NEW s \in Seq(Bytes)
  PROVE  /\ Separator(s) \in 0 .. Len(s)
         /\ Separator(s) = 0 <=> \A i \in 1 .. Len(s) : s[i] # "separator"
         /\ Separator(s) # 0 => /\ s[Separator(s)] = "separator"
                                /\ \A i \in 1 .. (Separator(s) - 1) : s[i] # "separator"
<1> DEFINE I == { i \in 1 .. Len(s) : s[i] = "separator" }
<1>1. Separator(s) = IF I # {} THEN Min(I) ELSE 0
  BY DEF Separator, SelectInSeq
<1>0. Len(s) \in Nat
  OBVIOUS
<1>2. CASE I = {}
  <2>1. Separator(s) = 0
    BY <1>1, <1>2
  <2>2. \A i \in 1 .. Len(s) : s[i] # "separator"
    BY <1>2
  <2> QED
    BY <2>1, <2>2, <1>0
<1>3. CASE I # {}
  <2>2. Min(I) \in I /\ \A y \in I : Min(I) <= y
    <3>1. I \in SUBSET Nat
      OBVIOUS
    <3> HIDE DEF I
    <3> QED
      BY <1>3, <3>1, MinIsLeast
  <2> DEFINE m == Min(I)
  <2> HIDE DEF m
  <2>3. Separator(s) = m /\ m \in 1 .. Len(s) /\ s[m] = "separator"
    BY <1>1, <1>3, <2>2 DEF m
  <2>4. ASSUME NEW i \in 1 .. (m - 1), s[i] = "separator" PROVE FALSE
    <3>1. i \in 1 .. Len(s) /\ ~(m <= i)
      BY <2>3, <1>0
    <3>2. i \in I
      BY <3>1, <2>4
    <3> QED
      BY <2>2, <3>1, <3>2 DEF m
  <2> QED
    BY <2>3, <2>4, <1>0
<1> QED
  BY <1>2, <1>3

Clean(s, k) == \A i \in 1 .. k : s[i] # "separator"

First(s, n) == IF n = 0 THEN Clean(s, Len(s))
               ELSE n \in 1 .. Len(s) /\ s[n] = "separator" /\ Clean(s, n - 1)

LEMMA SeparatorIs ==
  ASSUME NEW s \in Seq(Bytes), NEW n \in Nat, First(s, n)
  PROVE  Separator(s) = n
<1>1. Separator(s) \in 0 .. Len(s) /\ Len(s) \in Nat
  BY SeparatorFirst
<1> DEFINE m == Separator(s)
<1>2. (m = 0 <=> \A i \in 1 .. Len(s) : s[i] # "separator")
      /\ (m # 0 => s[m] = "separator" /\ \A i \in 1 .. (m - 1) : s[i] # "separator")
  BY SeparatorFirst
<1> HIDE DEF m
<1>3. m \in Nat /\ m <= Len(s)
  BY <1>1 DEF m
<1>4. CASE n = 0
  BY <1>2, <1>4 DEF First, Clean, m
<1>5. CASE n # 0
  <2>1. n \in 1 .. Len(s) /\ s[n] = "separator" /\ \A i \in 1 .. (n - 1) : s[i] # "separator"
    BY <1>5 DEF First, Clean
  <2>2. m # 0
    BY <1>2, <2>1
  <2>3. ~(m < n) /\ ~(n < m)
    BY <1>1, <1>2, <1>3, <2>1, <2>2
  <2> QED
    BY <1>3, <2>1, <2>3 DEF m
<1> QED
  BY <1>4, <1>5

LEMMA TailSeq ==
  ASSUME NEW s \in Seq(Bytes), NEW k \in 0 .. Len(s)
  PROVE  LET t == SubSeq(s, k + 1, Len(s))
         IN  /\ t \in Seq(Bytes) /\ Len(t) = Len(s) - k
             /\ \A i \in 1 .. (Len(s) - k) : t[i] = s[k + i]
OBVIOUS

LEMMA HeadSeq ==
  ASSUME NEW s \in Seq(Bytes), NEW k \in 0 .. Len(s)
  PROVE  LET t == SubSeq(s, 1, k)
         IN  /\ t \in Seq(Bytes) /\ Len(t) = k
             /\ \A i \in 1 .. k : t[i] = s[i]
OBVIOUS

LEMMA ConcatSeq ==
  ASSUME NEW s \in Seq(Bytes), NEW t \in Seq(Bytes)
  PROVE  /\ s \o t \in Seq(Bytes) /\ Len(s \o t) = Len(s) + Len(t)
         /\ \A i \in 1 .. Len(s) : (s \o t)[i] = s[i]
         /\ \A i \in 1 .. Len(t) : (s \o t)[Len(s) + i] = t[i]
OBVIOUS

LEMMA SameSeq ==
  ASSUME NEW s \in Seq(Bytes), NEW t \in Seq(Bytes), Len(s) = Len(t),
         \A i \in 1 .. Len(s) : s[i] = t[i]
  PROVE  s = t
OBVIOUS

LEMMA FirstOf ==
  ASSUME NEW s \in Seq(Bytes)
  PROVE  Separator(s) \in 0 .. Len(s) /\ First(s, Separator(s))
<1>1. Separator(s) \in 0 .. Len(s)
  BY SeparatorFirst
<1>2. CASE Separator(s) = 0
  BY <1>2, SeparatorFirst DEF First, Clean
<1>3. CASE Separator(s) # 0
  BY <1>1, <1>3, SeparatorFirst DEF First, Clean
<1> QED
  BY <1>1, <1>2, <1>3

\* Searching on from a prefix that holds no separator finds the first one.
LEMMA SearchResumes ==
  ASSUME NEW s \in Seq(Bytes), NEW k \in 0 .. Len(s), Clean(s, k)
  PROVE  FirstRecord(s, k) = Separator(s)
<1> DEFINE t == SubSeq(s, k + 1, Len(s))
           j == Separator(t)
<1>1. /\ t \in Seq(Bytes) /\ Len(t) = Len(s) - k /\ Len(s) \in Nat /\ k \in Nat
      /\ \A i \in 1 .. (Len(s) - k) : t[i] = s[k + i]
  BY TailSeq
<1>2. FirstRecord(s, k) = IF j = 0 THEN 0 ELSE k + j
  BY DEF FirstRecord
<1> HIDE DEF t
<1>3. j \in 0 .. Len(t) /\ First(t, j)
  BY <1>1, FirstOf
<1> HIDE DEF j
<1>4. CASE j = 0
  <2>1. \A i \in 1 .. Len(t) : t[i] # "separator"
    BY <1>3, <1>4 DEF First, Clean
  <2>2. ASSUME NEW i \in 1 .. Len(s) PROVE s[i] # "separator"
    <3>1. CASE i <= k
      BY <3>1, <1>1 DEF Clean
    <3>2. CASE i > k
      <4>1. i - k \in 1 .. (Len(s) - k) /\ k + (i - k) = i
        BY <3>2, <1>1
      <4> QED
        BY <4>1, <2>1, <1>1
    <3> QED
      BY <3>1, <3>2, <1>1
  <2>3. First(s, 0)
    BY <2>2 DEF First, Clean
  <2> QED
    BY <1>2, <1>4, <2>3, SeparatorIs
<1>5. CASE j # 0
  <2>1. j \in 1 .. Len(t) /\ t[j] = "separator" /\ \A i \in 1 .. (j - 1) : t[i] # "separator"
    BY <1>3, <1>5 DEF First, Clean
  <2>2. k + j \in 1 .. Len(s) /\ s[k + j] = "separator"
    BY <2>1, <1>1
  <2>3. ASSUME NEW i \in 1 .. (k + j - 1) PROVE s[i] # "separator"
    <3>1. CASE i <= k
      BY <3>1, <1>1 DEF Clean
    <3>2. CASE i > k
      <4>1. i - k \in 1 .. (j - 1) /\ i - k \in 1 .. (Len(s) - k) /\ k + (i - k) = i
        BY <3>2, <2>1, <1>1
      <4> QED
        BY <4>1, <2>1, <1>1
    <3> QED
      BY <3>1, <3>2, <1>1
  <2>4. First(s, k + j) /\ k + j \in Nat
    BY <2>1, <2>2, <2>3, <1>1 DEF First, Clean
  <2> QED
    BY <1>2, <1>5, <2>4, SeparatorIs
<1> QED
  BY <1>4, <1>5

\* What follows the records taken is what is left of the stream.
LEMMA RestIs ==
  ASSUME NEW c \in Seq(Bytes), NEW s \in Seq(Bytes)
  PROVE  SubSeq(c \o s, Len(c) + 1, Len(c \o s)) = s
<1> DEFINE u == c \o s
           t == SubSeq(u, Len(c) + 1, Len(u))
<1>1. u \in Seq(Bytes) /\ Len(u) = Len(c) + Len(s) /\ Len(c) \in 0 .. Len(u)
      /\ \A i \in 1 .. Len(s) : u[Len(c) + i] = s[i]
  BY ConcatSeq
<1> HIDE DEF u
<1>2. t \in Seq(Bytes) /\ Len(t) = Len(u) - Len(c)
      /\ \A i \in 1 .. (Len(u) - Len(c)) : t[i] = u[Len(c) + i]
  BY <1>1, TailSeq
<1>3. Len(t) = Len(s) /\ \A i \in 1 .. Len(t) : t[i] = s[i]
  BY <1>1, <1>2
<1> HIDE DEF t
<1>4. t = s
  BY <1>2, <1>3, SameSeq
<1> QED
  BY <1>4 DEF t, u

\* Taking n bytes off s appends them to what was taken before.
LEMMA TakenIs ==
  ASSUME NEW c \in Seq(Bytes), NEW s \in Seq(Bytes), NEW n \in 0 .. Len(s)
  PROVE  c \o s = (c \o SubSeq(s, 1, n)) \o SubSeq(s, n + 1, Len(s))
<1> DEFINE h == SubSeq(s, 1, n)
           t == SubSeq(s, n + 1, Len(s))
           a == c \o s
           b == (c \o h) \o t
<1>1. h \in Seq(Bytes) /\ Len(h) = n /\ \A i \in 1 .. n : h[i] = s[i]
  BY HeadSeq
<1>2. t \in Seq(Bytes) /\ Len(t) = Len(s) - n /\ \A i \in 1 .. (Len(s) - n) : t[i] = s[n + i]
  BY TailSeq
<1> HIDE DEF h, t
<1> DEFINE d == c \o h
<1>3. d \in Seq(Bytes) /\ Len(d) = Len(c) + n
      /\ (\A i \in 1 .. Len(c) : d[i] = c[i])
      /\ \A i \in 1 .. n : d[Len(c) + i] = h[i]
  BY <1>1, ConcatSeq
<1> HIDE DEF d
<1>4. b \in Seq(Bytes) /\ Len(b) = Len(d) + Len(t)
      /\ (\A i \in 1 .. Len(d) : b[i] = d[i])
      /\ \A i \in 1 .. Len(t) : b[Len(d) + i] = t[i]
  BY <1>2, <1>3, ConcatSeq DEF d
<1>5. a \in Seq(Bytes) /\ Len(a) = Len(c) + Len(s)
      /\ (\A i \in 1 .. Len(c) : a[i] = c[i])
      /\ \A i \in 1 .. Len(s) : a[Len(c) + i] = s[i]
  BY ConcatSeq
<1> HIDE DEF a, b
<1>0. Len(c) \in Nat /\ Len(s) \in Nat /\ n \in Nat /\ n <= Len(s)
  OBVIOUS
<1>6. ASSUME NEW i \in 1 .. Len(a) PROVE a[i] = b[i]
  <2>0. i \in Nat /\ 1 <= i /\ i <= Len(c) + Len(s)
    BY <1>0, <1>5
  <2>1. CASE i <= Len(c)
    <3>1. i \in 1 .. Len(c) /\ i \in 1 .. Len(d)
      BY <1>0, <1>3, <2>0, <2>1
    <3> QED
      BY <3>1, <1>3, <1>4, <1>5
  <2>2. CASE i > Len(c) /\ i <= Len(c) + n
    <3> DEFINE x == i - Len(c)
    <3>1. x \in 1 .. n /\ x \in 1 .. Len(s) /\ Len(c) + x = i /\ i \in 1 .. Len(d)
      BY <1>0, <1>3, <2>0, <2>2
    <3> HIDE DEF x
    <3>2. a[Len(c) + x] = s[x]
      BY <3>1, <1>5
    <3>3. b[i] = d[i] /\ d[Len(c) + x] = h[x] /\ h[x] = s[x]
      BY <3>1, <1>1, <1>3, <1>4
    <3> QED
      BY <3>1, <3>2, <3>3
  <2>3. CASE i > Len(c) + n
    <3> DEFINE x == i - Len(c)
               y == i - Len(d)
    <3>1. /\ y \in 1 .. Len(t) /\ y \in 1 .. (Len(s) - n) /\ Len(d) + y = i
          /\ x \in 1 .. Len(s) /\ Len(c) + x = i /\ n + y = x
      BY <1>0, <1>2, <1>3, <2>0, <2>3
    <3> HIDE DEF x, y
    <3>2. a[Len(c) + x] = s[x]
      BY <3>1, <1>5
    <3>3. b[Len(d) + y] = t[y] /\ t[y] = s[n + y]
      BY <3>1, <1>2, <1>4
    <3> QED
      BY <3>1, <3>2, <3>3
  <2> QED
    BY <2>0, <2>1, <2>2, <2>3, <1>0
<1>7. Len(a) = Len(b)
  BY <1>0, <1>2, <1>3, <1>4, <1>5
<1>8. a = b
  BY <1>4, <1>5, <1>6, <1>7, SameSeq
<1> QED
  BY <1>8 DEF a, b, d, h, t

LEMMA MessageSeq == ASSUME NEW m \in Messages PROVE m \in Seq(Bytes)
<1>1. PICK n \in 0 .. MaxMessage : m \in [1 .. n -> Bytes]
  BY Zenon DEF Messages, BoundedSeq, SeqOf
<1>2. n \in Nat
  BY <1>1, SizesAssumption DEF SizesAssumption
<1> QED
  BY <1>1, <1>2

\* The size of the first record of s, or of the fragment s.
Size(s) == IF Separator(s) = 0 THEN Len(s) ELSE Separator(s) - 1

FrameType ==
  /\ pc \in {"handshake", "next", "read", "refused"}
  /\ contents \in Seq(Bytes) /\ received \in Seq(Bytes) /\ consumed \in Seq(Bytes)
  /\ scanned \in 0 .. Len(contents) /\ largest \in Nat

FrameInv ==
  /\ Clean(contents, scanned)
  /\ pc # "refused" => received = consumed \o contents
  /\ pc \in {"handshake", "read"} => scanned = Len(contents)
  /\ pc = "handshake" => consumed = << >>
  /\ pc \in {"next", "read"} => consumed # << >>
  /\ consumed # << >> => /\ consumed[Len(consumed)] = "separator"
                         /\ Separator(consumed) # 0
                         /\ Separator(consumed) - 1 <= MaxHandshake

LimitInv ==
  /\ largest <= MaxRecord
  /\ ~needsCompaction => retained = 0
  /\ pc = "read" => retained = 0 /\ Len(contents) <= MaxRecord
  /\ pc = "refused" =>
       Size(SubSeq(received, Len(consumed) + 1, Len(received)))
         > (IF consumed = << >> THEN MaxHandshake ELSE MaxRecord)

RecordsInv == FrameType /\ FrameInv /\ LimitInv

LEMMA RecordsInit == Init => RecordsInv
<1> SUFFICES ASSUME Init PROVE RecordsInv
  OBVIOUS
<1>1. /\ pc = "handshake" /\ contents = << >> /\ received = << >> /\ consumed = << >>
      /\ scanned = 0 /\ largest = 0 /\ retained = 0 /\ << >> \in Seq(Bytes) /\ << >> \o << >> = << >>
  BY DEF Init
<1> QED
  BY <1>1, SizesAssumption DEF SizesAssumption, RecordsInv, FrameType, FrameInv, LimitInv, Clean

\* A record of n bytes with its separator taken off s: it ends with the separator, and the
\* handshake's stays the first.
LEMMA TakeEnds ==
  ASSUME NEW c \in Seq(Bytes), NEW s \in Seq(Bytes), Separator(s) # 0
  PROVE  LET n == Separator(s)
             d == c \o SubSeq(s, 1, n)
         IN  /\ d \in Seq(Bytes) /\ d # << >> /\ Len(d) \in Nat
             /\ d[Len(d)] = "separator"
             /\ c # << >> /\ Separator(c) # 0 => Separator(d) = Separator(c)
             /\ c = << >> => Separator(d) = n
<1> DEFINE n == Separator(s)
           h == SubSeq(s, 1, n)
           d == c \o h
<1>0. n \in 0 .. Len(s) /\ First(s, n) /\ n # 0
  BY FirstOf
<1> HIDE DEF n
<1>1. n \in 1 .. Len(s) /\ s[n] = "separator" /\ Clean(s, n - 1) /\ Len(s) \in Nat
  BY <1>0 DEF First
<1>2. h \in Seq(Bytes) /\ Len(h) = n /\ \A i \in 1 .. n : h[i] = s[i]
  BY <1>0, HeadSeq
<1> HIDE DEF h
<1>3. /\ d \in Seq(Bytes) /\ Len(d) = Len(c) + n /\ Len(c) \in Nat
      /\ \A i \in 1 .. Len(c) : d[i] = c[i]
      /\ \A i \in 1 .. n : d[Len(c) + i] = h[i]
  <2>1. h \in Seq(Bytes) /\ Len(h) = n
    BY <1>2
  <2>2. /\ d \in Seq(Bytes) /\ Len(d) = Len(c) + Len(h)
        /\ \A i \in 1 .. Len(c) : d[i] = c[i]
        /\ \A i \in 1 .. Len(h) : d[Len(c) + i] = h[i]
    BY <2>1, ConcatSeq
  <2> HIDE DEF d
  <2> QED
    BY <2>1, <2>2
<1> HIDE DEF d
<1>4. d # << >> /\ d[Len(d)] = "separator"
  <2>1. n \in 1 .. n /\ Len(d) > 0
    BY <1>1, <1>3
  <2>2. d[Len(c) + n] = "separator"
    BY <2>1, <1>1, <1>2, <1>3
  <2> QED
    BY <2>1, <2>2, <1>3
<1>5. ASSUME Separator(c) # 0 PROVE Separator(d) = Separator(c)
  <2> DEFINE k == Separator(c)
  <2>0. First(c, k) /\ k # 0
    BY <1>5, FirstOf
  <2> HIDE DEF k
  <2>1. k \in 1 .. Len(c) /\ c[k] = "separator" /\ Clean(c, k - 1)
    BY <2>0 DEF First
  <2>2. First(d, k) /\ k \in Nat
    <3>1. k \in 1 .. Len(d) /\ d[k] = "separator"
      BY <2>1, <1>1, <1>3
    <3>2. ASSUME NEW i \in 1 .. (k - 1) PROVE d[i] # "separator"
      BY <2>1, <1>3 DEF Clean
    <3> QED
      BY <3>1, <3>2 DEF First, Clean
  <2> QED
    BY <2>2, <1>3, SeparatorIs DEF k
<1>6. ASSUME c = << >> PROVE Separator(d) = n
  <2>1. Len(c) = 0 /\ n \in Nat
    BY <1>6, <1>1
  <2>2. \A i \in 1 .. n : d[i] = s[i]
    BY <2>1, <1>2, <1>3
  <2>3. First(d, n)
    BY <2>1, <2>2, <1>1, <1>3 DEF First, Clean
  <2> QED
    BY <2>1, <2>3, <1>3, SeparatorIs
<1> QED
  BY <1>3, <1>4, <1>5, <1>6 DEF d, h, n


\* What is behind the first record, and what was searched, of a longer fragment.
LEMMA Appended ==
  ASSUME NEW s \in Seq(Bytes), NEW m \in Seq(Bytes), NEW k \in 0 .. Len(s), Clean(s, k)
  PROVE  /\ s \o m \in Seq(Bytes) /\ Len(s) \in Nat /\ k \in 0 .. Len(s \o m)
         /\ Clean(s \o m, k)
         /\ FirstRecord(s \o m, k) = Separator(s \o m)
<1> DEFINE t == s \o m
<1>1. t \in Seq(Bytes) /\ Len(t) = Len(s) + Len(m) /\ \A i \in 1 .. Len(s) : t[i] = s[i]
  BY ConcatSeq
<1> HIDE DEF t
<1>2. Len(s) \in Nat /\ Len(m) \in Nat /\ k \in 0 .. Len(t)
  BY <1>1
<1>3. Clean(t, k)
  BY <1>1, <1>2 DEF Clean
<1>4. FirstRecord(t, k) = Separator(t)
  BY <1>1, <1>2, <1>3, SearchResumes
<1> QED
  BY <1>1, <1>2, <1>3, <1>4 DEF t

LEMMA ConcatAssoc ==
  ASSUME NEW c \in Seq(Bytes), NEW s \in Seq(Bytes), NEW m \in Seq(Bytes)
  PROVE  (c \o s) \o m = c \o (s \o m)
<1> DEFINE x == c \o s
           y == s \o m
           a == x \o m
           b == c \o y
<1>1. x \in Seq(Bytes) /\ Len(x) = Len(c) + Len(s)
      /\ (\A i \in 1 .. Len(c) : x[i] = c[i])
      /\ \A i \in 1 .. Len(s) : x[Len(c) + i] = s[i]
  BY ConcatSeq
<1>2. y \in Seq(Bytes) /\ Len(y) = Len(s) + Len(m)
      /\ (\A i \in 1 .. Len(s) : y[i] = s[i])
      /\ \A i \in 1 .. Len(m) : y[Len(s) + i] = m[i]
  BY ConcatSeq
<1> HIDE DEF x, y
<1>3. a \in Seq(Bytes) /\ Len(a) = Len(x) + Len(m)
      /\ (\A i \in 1 .. Len(x) : a[i] = x[i])
      /\ \A i \in 1 .. Len(m) : a[Len(x) + i] = m[i]
  BY <1>1, ConcatSeq
<1>4. b \in Seq(Bytes) /\ Len(b) = Len(c) + Len(y)
      /\ (\A i \in 1 .. Len(c) : b[i] = c[i])
      /\ \A i \in 1 .. Len(y) : b[Len(c) + i] = y[i]
  BY <1>2, ConcatSeq
<1> HIDE DEF a, b
<1>0. Len(c) \in Nat /\ Len(s) \in Nat /\ Len(m) \in Nat
  OBVIOUS
<1>5. ASSUME NEW i \in 1 .. Len(a) PROVE a[i] = b[i]
  <2>0. i \in Nat /\ 1 <= i /\ i <= Len(c) + Len(s) + Len(m)
    BY <1>0, <1>1, <1>3
  <2>1. CASE i <= Len(c)
    <3>1. i \in 1 .. Len(c) /\ i \in 1 .. Len(x)
      BY <1>0, <1>1, <2>0, <2>1
    <3> QED
      BY <3>1, <1>1, <1>3, <1>4
  <2>2. CASE i > Len(c) /\ i <= Len(c) + Len(s)
    <3> DEFINE j == i - Len(c)
    <3>1. j \in 1 .. Len(s) /\ j \in 1 .. Len(y) /\ i \in 1 .. Len(x) /\ Len(c) + j = i
      BY <1>0, <1>1, <1>2, <2>0, <2>2
    <3> HIDE DEF j
    <3>2. x[Len(c) + j] = s[j] /\ y[j] = s[j] /\ b[Len(c) + j] = y[j] /\ a[i] = x[i]
      BY <3>1, <1>1, <1>2, <1>3, <1>4
    <3> QED
      BY <3>1, <3>2
  <2>3. CASE i > Len(c) + Len(s)
    <3> DEFINE j == i - Len(c) - Len(s)
               k == i - Len(c)
    <3>1. /\ j \in 1 .. Len(m) /\ k \in 1 .. Len(y) /\ Len(s) + j = k /\ Len(c) + k = i
          /\ Len(x) + j = i
      BY <1>0, <1>1, <1>2, <2>0, <2>3
    <3> HIDE DEF j, k
    <3>2. a[Len(x) + j] = m[j] /\ y[Len(s) + j] = m[j] /\ b[Len(c) + k] = y[k]
      BY <3>1, <1>2, <1>3, <1>4
    <3> QED
      BY <3>1, <3>2
  <2> QED
    BY <2>0, <2>1, <2>2, <2>3, <1>0
<1>6. Len(a) = Len(b)
  BY <1>0, <1>1, <1>2, <1>3, <1>4
<1>7. a = b
  BY <1>3, <1>4, <1>5, <1>6, SameSeq
<1> QED
  BY <1>7 DEF a, b, x, y

LEMMA Nothing ==
  ASSUME NEW s \in Seq(Bytes)
  PROVE  << >> \o s = s /\ << >> \in Seq(Bytes) /\ Len(<< >>) = 0
OBVIOUS

\* A fragment without a separator is clean throughout; one with it is not longer than s.
LEMMA NoneIs ==
  ASSUME NEW s \in Seq(Bytes), Separator(s) = 0
  PROVE  Clean(s, Len(s)) /\ Size(s) = Len(s)
<1>1. First(s, 0)
  BY FirstOf
<1> QED
  BY <1>1 DEF First, Size

LEMMA LimitIsOnSize ==
  ASSUME NEW s
  PROVE  /\ Fits(s, Separator(s)) <=> Size(s) <= MaxRecord
         /\ HandshakeFits(s, Separator(s)) <=> Size(s) <= MaxHandshake
BY DEF Fits, HandshakeFits, Size

LEMMA HandshakeKeeps == ASSUME RecordsInv, NEW m \in Messages, ReadHandshake(m) PROVE RecordsInv'
<1> DEFINE s == contents \o m
           n == Separator(s)
<1>1. /\ pc = "handshake" /\ contents \in Seq(Bytes) /\ m \in Seq(Bytes) /\ consumed = << >>
      /\ scanned = Len(contents) /\ Clean(contents, scanned) /\ received = contents
      /\ largest \in Nat /\ largest <= MaxRecord /\ received' = s
      /\ (~needsCompaction => retained = 0) /\ scanned \in 0 .. Len(contents)
  BY MessageSeq, Nothing DEF RecordsInv, FrameType, FrameInv, LimitInv, ReadHandshake, Message
<1>2. s \in Seq(Bytes) /\ FirstRecord(s, scanned) = n
  BY <1>1, Appended
<1> HIDE DEF s
<1>3. n \in 0 .. Len(s) /\ Len(s) \in Nat
  BY <1>2, FirstOf
<1>4. CASE ~HandshakeFits(s, n)
  <2>1. pc' = "refused" /\ UNCHANGED << buffer, consumed, largest >>
    BY <1>2, <1>4 DEF ReadHandshake, Refuse, s
  <2>2. SubSeq(s, 1, Len(s)) = s
    BY <1>2
  <2>3. Size(SubSeq(received', Len(consumed') + 1, Len(received'))) > MaxHandshake
    <3>1. Len(consumed') + 1 = 1 /\ received' = s
      BY <1>1, <2>1
    <3>2. Size(s) > MaxHandshake
      <4>1. Size(s) \in Int /\ MaxHandshake \in Nat
        BY <1>3, SizesAssumption DEF Size, SizesAssumption
      <4> QED
        BY <4>1, <1>4, LimitIsOnSize
    <3> QED
      BY <3>1, <3>2, <2>2
  <2> QED
    BY <1>1, <1>2, <2>1, <2>3 DEF RecordsInv, FrameType, FrameInv, LimitInv, buffer
<1>5. CASE HandshakeFits(s, n) /\ n = 0
  <2>1. /\ contents' = s /\ scanned' = Len(s)
        /\ UNCHANGED << pc, needsCompaction, retained, consumed, largest >>
    BY <1>2, <1>5 DEF ReadHandshake, s
  <2>2. Clean(s, Len(s)) /\ consumed' \o s = s
    BY <1>1, <1>2, <1>5, <2>1, NoneIs, Nothing
  <2> QED
    BY <1>1, <1>2, <1>3, <2>1, <2>2 DEF RecordsInv, FrameType, FrameInv, LimitInv
<1>6. CASE HandshakeFits(s, n) /\ n # 0
  <2> DEFINE h == SubSeq(s, 1, n)
             r == SubSeq(s, n + 1, Len(s))
  <2>1. /\ pc' = "next" /\ contents' = r /\ scanned' = 0
        /\ needsCompaction' = TRUE /\ retained' = n /\ consumed' = h /\ largest' = largest
    BY <1>2, <1>6 DEF ReadHandshake, s
  <2>2. h \in Seq(Bytes) /\ << >> \o h = h
    BY <1>2, <1>3, HeadSeq, Nothing
  <2>3. h # << >> /\ h[Len(h)] = "separator" /\ Separator(h) = n
    <3>1. << >> \o h # << >> /\ (<< >> \o h)[Len(<< >> \o h)] = "separator"
          /\ Separator(<< >> \o h) = n
      BY <1>2, <1>6, TakeEnds, Nothing
    <3> QED
      BY <3>1, <2>2
  <2>4. s = h \o r
    <3>1. << >> \in Seq(Bytes) /\ << >> \o s = s
      BY <1>2, Nothing
    <3>2. << >> \o s = (<< >> \o h) \o r
      BY <1>2, <1>3, <3>1, TakenIs
    <3> QED
      BY <2>2, <3>1, <3>2
  <2>5. r \in Seq(Bytes) /\ Len(r) \in Nat
    BY <1>2, <1>3, TailSeq
  <2>6. n - 1 <= MaxHandshake
    BY <1>6 DEF HandshakeFits
  <2> HIDE DEF h, r
  <2>7. Clean(r, 0)
    BY DEF Clean
  <2> QED
    BY <1>1, <1>6, <2>1, <2>2, <2>3, <2>4, <2>5, <2>6, <2>7
       DEF RecordsInv, FrameType, FrameInv, LimitInv
<1> QED
  BY <1>4, <1>5, <1>6

LEMMA TakeKeeps == ASSUME RecordsInv, TakeRecord PROVE RecordsInv'
<1> DEFINE n == Separator(contents)
           h == SubSeq(contents, 1, n)
           r == SubSeq(contents, n + 1, Len(contents))
           d == consumed \o h
<1>1. /\ pc = "next" /\ contents \in Seq(Bytes) /\ consumed \in Seq(Bytes) /\ received \in Seq(Bytes)
      /\ scanned \in 0 .. Len(contents) /\ Clean(contents, scanned)
      /\ received = consumed \o contents /\ largest \in Nat /\ largest <= MaxRecord
      /\ consumed # << >> /\ Separator(consumed) # 0 /\ Separator(consumed) - 1 <= MaxHandshake
  BY DEF RecordsInv, FrameType, FrameInv, LimitInv, TakeRecord
<1>2. FirstRecord(contents, scanned) = n
  BY <1>1, SearchResumes
<1>3. /\ n # 0 /\ Fits(contents, n) /\ contents' = r /\ scanned' = 0 /\ needsCompaction' = TRUE
      /\ consumed' = d /\ pc' = pc /\ received' = received
      /\ largest' = IF n - 1 > largest THEN n - 1 ELSE largest
  BY <1>2 DEF TakeRecord
<1>4. n \in 0 .. Len(contents) /\ Len(contents) \in Nat
  BY <1>1, FirstOf
<1>5. /\ d \in Seq(Bytes) /\ d # << >> /\ d[Len(d)] = "separator"
      /\ Separator(d) = Separator(consumed)
  BY <1>1, <1>3, TakeEnds
<1>6. consumed \o contents = d \o r
  BY <1>1, <1>4, TakenIs
<1>7. r \in Seq(Bytes) /\ Len(r) \in Nat
  BY <1>1, <1>4, TailSeq
<1>8. n - 1 <= MaxRecord
  BY <1>3 DEF Fits
<1> HIDE DEF n, h, r, d
<1>9. Clean(r, 0)
  BY DEF Clean
<1>10. largest' \in Nat /\ largest' <= MaxRecord
  BY <1>1, <1>3, <1>4, <1>8
<1> QED
  BY <1>1, <1>3, <1>5, <1>6, <1>7, <1>9, <1>10 DEF RecordsInv, FrameType, FrameInv, LimitInv

LEMMA AwaitKeeps == ASSUME RecordsInv, AwaitMore PROVE RecordsInv'
<1>1. /\ pc = "next" /\ contents \in Seq(Bytes) /\ Len(contents) \in Nat
      /\ scanned \in 0 .. Len(contents) /\ Clean(contents, scanned)
  BY DEF RecordsInv, FrameType, FrameInv, AwaitMore
<1>2. Separator(contents) = 0
  BY <1>1, SearchResumes DEF AwaitMore
<1>3. Clean(contents, Len(contents))
  BY <1>1, <1>2, NoneIs
<1>4. Len(contents) <= MaxRecord
  BY DEF AwaitMore, Fits
<1>5. retained' = 0
  BY DEF RecordsInv, LimitInv, AwaitMore
<1> QED
  BY <1>1, <1>3, <1>4, <1>5 DEF RecordsInv, FrameType, FrameInv, LimitInv, AwaitMore

LEMMA RefuseKeeps == ASSUME RecordsInv, RefuseRecord PROVE RecordsInv'
<1>1. /\ pc = "next" /\ contents \in Seq(Bytes) /\ consumed \in Seq(Bytes) /\ consumed # << >>
      /\ scanned \in 0 .. Len(contents) /\ Clean(contents, scanned)
      /\ received = consumed \o contents
  BY DEF RecordsInv, FrameType, FrameInv, RefuseRecord
<1>2. ~Fits(contents, Separator(contents))
  BY <1>1, SearchResumes DEF RefuseRecord
<1>3. Size(contents) > MaxRecord
  <2>1. Separator(contents) \in 0 .. Len(contents) /\ Len(contents) \in Nat /\ MaxRecord \in Nat
    BY <1>1, FirstOf, SizesAssumption DEF SizesAssumption
  <2>2. Size(contents) \in Int
    BY <2>1 DEF Size
  <2> QED
    BY <2>1, <2>2, <1>2, LimitIsOnSize
<1>4. SubSeq(received, Len(consumed) + 1, Len(received)) = contents
  BY <1>1, RestIs
<1>5. pc' = "refused" /\ UNCHANGED << contents, scanned, needsCompaction, retained, received, consumed, largest >>
  BY DEF RefuseRecord, Refuse, buffer
<1> QED
  BY <1>1, <1>3, <1>4, <1>5 DEF RecordsInv, FrameType, FrameInv, LimitInv

LEMMA ReadKeeps == ASSUME RecordsInv, NEW m \in Messages, ReadMessage(m) PROVE RecordsInv'
<1>1. /\ pc = "read" /\ contents \in Seq(Bytes) /\ m \in Seq(Bytes) /\ consumed \in Seq(Bytes)
      /\ scanned \in 0 .. Len(contents) /\ Clean(contents, scanned)
      /\ received = consumed \o contents
  BY MessageSeq DEF RecordsInv, FrameType, FrameInv, ReadMessage
<1>2. /\ received' = received \o m /\ contents' = contents \o m /\ pc' = "next"
      /\ UNCHANGED << scanned, needsCompaction, retained, consumed, largest >>
  BY DEF ReadMessage, Message
<1>3. /\ contents' \in Seq(Bytes) /\ scanned \in 0 .. Len(contents') /\ Clean(contents', scanned)
  BY <1>1, <1>2, Appended
<1>4. received' = consumed \o contents' /\ received' \in Seq(Bytes)
  <2>1. received' = (consumed \o contents) \o m
    BY <1>1, <1>2
  <2>2. received' = consumed \o (contents \o m)
    BY <2>1, <1>1, ConcatAssoc
  <2>3. received' \in Seq(Bytes)
    BY <1>1, <1>2, <1>3, <2>2, ConcatSeq
  <2> QED
    BY <1>2, <2>2, <2>3
<1> QED
  BY <1>1, <1>2, <1>3, <1>4 DEF RecordsInv, FrameType, FrameInv, LimitInv

LEMMA RecordsNext == RecordsInv /\ [Next]_vars => RecordsInv'
<1> SUFFICES ASSUME RecordsInv, [Next]_vars PROVE RecordsInv'
  OBVIOUS
<1>1. CASE UNCHANGED vars
  BY <1>1 DEF vars, buffer, RecordsInv, FrameType, FrameInv, LimitInv
<1>2. CASE Next
  <2>1. ASSUME NEW m \in Messages, ReadHandshake(m) PROVE RecordsInv'
    BY <2>1, HandshakeKeeps
  <2>2. ASSUME NEW m \in Messages, ReadMessage(m) PROVE RecordsInv'
    BY <2>2, ReadKeeps
  <2>3. CASE Ended
    BY <1>1, <2>3 DEF Ended
  <2> QED
    BY <1>2, <2>1, <2>2, <2>3, TakeKeeps, AwaitKeeps, RefuseKeeps DEF Next
<1> QED
  BY <1>1, <1>2

\* Nothing that was searched holds a separator.
LEMMA SearchedIs ==
  ASSUME NEW s \in Seq(Bytes), NEW k \in 0 .. Len(s), Clean(s, k)
  PROVE  Separator(SubSeq(s, 1, k)) = 0
<1> DEFINE t == SubSeq(s, 1, k)
<1>1. t \in Seq(Bytes) /\ Len(t) = k /\ \A i \in 1 .. k : t[i] = s[i]
  BY HeadSeq
<1> HIDE DEF t
<1>2. First(t, 0)
  BY <1>1 DEF First, Clean
<1> QED
  BY <1>1, <1>2, SeparatorIs DEF t

LEMMA StreamFollows == RecordsInv => RecordsAreTheStream
<1> SUFFICES ASSUME RecordsInv PROVE RecordsAreTheStream
  OBVIOUS
<1>1. /\ contents \in Seq(Bytes) /\ Len(contents) \in Nat /\ scanned \in 0 .. Len(contents)
      /\ Clean(contents, scanned)
  BY DEF RecordsInv, FrameType, FrameInv
<1>2. scanned <= Len(contents) /\ Separator(SubSeq(contents, 1, scanned)) = 0
  BY <1>1, SearchedIs
<1>3. ASSUME pc \in {"handshake", "read"} PROVE Separator(contents) = 0
  <2>1. First(contents, 0)
    BY <1>1, <1>3 DEF RecordsInv, FrameInv, First
  <2> QED
    BY <2>1, <1>1, SeparatorIs
<1>4. consumed # << >> => Last(consumed) = "separator"
  BY DEF RecordsInv, FrameInv, Last
<1>5. pc # "refused" => received = consumed \o contents
  BY DEF RecordsInv, FrameInv
<1> QED
  BY <1>2, <1>3, <1>4, <1>5 DEF RecordsAreTheStream

LEMMA LimitsFollow == RecordsInv => RecordsKeepLimits
<1> SUFFICES ASSUME RecordsInv PROVE RecordsKeepLimits
  OBVIOUS
<1>1. /\ largest <= MaxRecord
      /\ consumed # << >> => Separator(consumed) - 1 <= MaxHandshake
      /\ pc = "read" => retained = 0 /\ Len(contents) <= MaxRecord
  BY DEF RecordsInv, FrameInv, LimitInv
<1>2. pc = "refused" => Size(SubSeq(received, Len(consumed) + 1, Len(received)))
                          > (IF consumed = << >> THEN MaxHandshake ELSE MaxRecord)
  BY DEF RecordsInv, LimitInv
<1> QED
  BY <1>1, <1>2 DEF RecordsKeepLimits, Size

LEMMA RecordsInvariant == Spec => []RecordsInv
BY RecordsInit, RecordsNext, PTL DEF Spec

\* An attempt to connect, and the reader after it, read the stream as HubRecords says:
\* the handshake neither skips nor keeps a byte of the records behind its response.
THEOREM ImplementsRecords == ConnectSpec => Spec
<1>1. ConnectInit => Init
  BY DEF ConnectInit
<1>2. ASSUME [ConnectNext]_connectVars PROVE [Next]_vars
  <2>1. ASSUME NEW m \in Messages, HandshakeMessage(m) PROVE Next
    BY <2>1 DEF HandshakeMessage, Next
  <2>2. CASE Reading
    BY <2>2 DEF Reading, Next
  <2>3. CASE Over \/ HandshakeData \/ UNCHANGED connectVars
    BY <2>3 DEF Over, HandshakeData, connectVars
  <2> QED
    BY <1>2, <2>1, <2>2, <2>3 DEF ConnectNext
<1> QED
  BY <1>1, <1>2, PTL DEF ConnectSpec, Spec

\* However a server cuts its stream into messages, the records taken and what is
\* buffered are the stream, and nothing searched holds a separator.
THEOREM StreamIsReadWhole == ConnectSpec => []RecordsAreTheStream
BY ImplementsRecords, RecordsInvariant, StreamFollows, PTL

\* Every limit is on a record, and who waits for the server has compacted its storage,
\* for all sizes.
THEOREM LimitsAreOnRecords == ConnectSpec => []RecordsKeepLimits
BY ImplementsRecords, RecordsInvariant, LimitsFollow, PTL

-----------------------------------------------------------------------------
(* The hint.  A value is folded over its digits and computed in the width  *)
(* of a Duration; what is due is computed without a width.  The section    *)
(* starts with induction over the natural numbers, which the library       *)
(* states for operators only.                                              *)

LEMMA Induction ==
  ASSUME NEW T, 0 \in T, \A n \in Nat : n \in T => n + 1 \in T
  PROVE  \A n \in Nat : n \in T
<1> SUFFICES ASSUME Nat \ T # {} PROVE FALSE
  OBVIOUS
<1>1. PICK m \in Nat \ T : \A n \in Nat \ T : m <= n
  BY LeastExists
<1>2. CASE m = 0
  BY <1>2
<1>3. CASE m # 0
  <2>1. m - 1 \in Nat /\ ~(m <= m - 1) /\ (m - 1) + 1 = m
    BY <1>3
  <2>2. m - 1 \in T
    BY <1>1, <2>1
  <2> QED
    BY <2>1, <2>2
<1> QED
  BY <1>2, <1>3

LEMMA MaxIs ==
  ASSUME NEW I \in SUBSET Int, NEW m \in I, \A x \in I : m >= x
  PROVE  Max(I) = m
<1>1. \A x \in I : (\A y \in I : x >= y) => x = m
  OBVIOUS
<1> QED
  BY <1>1, Zenon DEF Max

LEMMA UpTo ==
  ASSUME NEW n \in Nat, NEW k \in 1 .. n
  PROVE  /\ 1 .. k \in SUBSET (1 .. n) /\ 1 .. k # {} /\ (1 .. k) \ {k} = 1 .. (k - 1)
         /\ k \in 0 .. n /\ k - 1 \in 0 .. n
<1>1. \A x \in 1 .. k : x = k \/ x \in 1 .. (k - 1)
  OBVIOUS
<1>2. \A x \in 1 .. (k - 1) : x \in 1 .. k /\ x # k
  OBVIOUS
<1>3. (1 .. k) \ {k} = 1 .. (k - 1)
  BY <1>1, <1>2
<1>4. 1 .. k \in SUBSET (1 .. n) /\ 1 .. k # {} /\ k \in 0 .. n /\ k - 1 \in 0 .. n
  OBVIOUS
<1> QED
  BY <1>3, <1>4

LEMMA MaxExists ==
  ASSUME NEW n \in Nat, NEW I \in SUBSET (1 .. n), I # {}
  PROVE  Max(I) \in I
<1> DEFINE U == { m \in Nat : \A x \in I : x <= m }
<1>1. U \in SUBSET Nat /\ n \in U
  OBVIOUS
<1>2. PICK m \in U : \A k \in U : m <= k
  <2> HIDE DEF U
  <2> QED
    BY <1>1, LeastExists
<1>3. m \in I
  <2> SUFFICES ASSUME m \notin I PROVE FALSE
    OBVIOUS
  <2>1. \A x \in I : x <= m - 1
    BY <1>2
  <2>2. m # 0
    <3>1. PICK x \in I : x \in 1 .. n
      OBVIOUS
    <3> QED
      BY <1>2, <3>1
  <2>3. m - 1 \in U /\ ~(m <= m - 1)
    BY <1>2, <2>1, <2>2
  <2> QED
    BY <1>2, <2>3
<1>4. I \in SUBSET Int /\ \A x \in I : m >= x
  BY <1>2
<1> QED
  BY <1>3, <1>4, MaxIs

\* The function over sets of indices that the fold of F is defined by.
Foldable(V, F, base, s) ==
  \E iter \in [SUBSET (1 .. Len(s)) -> V] :
    \A I \in SUBSET (1 .. Len(s)) :
      iter[I] = IF I = {} THEN base ELSE F[<< iter[I \ {Max(I)}], s[Max(I)] >>]

\* A fold has a value.
LEMMA FoldExists ==
  ASSUME NEW V, NEW E, NEW F \in [V \X E -> V], NEW base \in V, NEW s \in Seq(E)
  PROVE  Foldable(V, F, base, s)
<1> DEFINE Folds(n, g) ==
             /\ g \in [SUBSET (1 .. n) -> V]
             /\ \A I \in SUBSET (1 .. n) :
                  g[I] = IF I = {} THEN base ELSE F[<< g[I \ {Max(I)}], s[Max(I)] >>]
           T == { n \in Nat : n <= Len(s) => \E g : Folds(n, g) }
<1> HIDE DEF Folds
<1>1. 0 \in T
  <2>1. 1 .. 0 = {}
    OBVIOUS
  <2>2. Folds(0, [I \in SUBSET (1 .. 0) |-> base])
    BY <2>1 DEF Folds
  <2> QED
    BY <2>2
<1>2. ASSUME NEW n \in Nat, n \in T PROVE n + 1 \in T
  <2> SUFFICES ASSUME n + 1 <= Len(s) PROVE \E h : Folds(n + 1, h)
    OBVIOUS
  <2>0. s[n + 1] \in E
    OBVIOUS
  <2>1. PICK g : Folds(n, g)
    BY <1>2
  <2> DEFINE h == [I \in SUBSET (1 .. (n + 1)) |->
                     IF n + 1 \in I THEN F[<< g[I \ {n + 1}], s[n + 1] >>] ELSE g[I]]
  <2>2. \A I \in SUBSET (1 .. (n + 1)) :
          /\ n + 1 \notin I => I \in SUBSET (1 .. n)
          /\ I \ {n + 1} \in SUBSET (1 .. n)
          /\ n + 1 \in I => Max(I) = n + 1
    <3> SUFFICES ASSUME NEW I \in SUBSET (1 .. (n + 1))
                 PROVE  /\ n + 1 \notin I => I \in SUBSET (1 .. n)
                        /\ I \ {n + 1} \in SUBSET (1 .. n)
                        /\ n + 1 \in I => Max(I) = n + 1
      OBVIOUS
    <3>1. I \in SUBSET Int /\ \A x \in I : n + 1 >= x
      OBVIOUS
    <3>2. n + 1 \in I => Max(I) = n + 1
      BY <3>1, MaxIs
    <3>3. \A x \in I : x = n + 1 \/ x \in 1 .. n
      OBVIOUS
    <3> QED
      BY <3>2, <3>3
  <2>3. h \in [SUBSET (1 .. (n + 1)) -> V]
    <3> SUFFICES ASSUME NEW I \in SUBSET (1 .. (n + 1)) PROVE h[I] \in V
      OBVIOUS
    <3>1. CASE n + 1 \in I
      <4>1. g[I \ {n + 1}] \in V
        BY <2>1, <2>2 DEF Folds
      <4>2. << g[I \ {n + 1}], s[n + 1] >> \in V \X E
        BY <4>1, <2>0
      <4> QED
        BY <3>1, <4>2
    <3>2. CASE n + 1 \notin I
      BY <2>1, <2>2, <3>2 DEF Folds
    <3> QED
      BY <3>1, <3>2
  <2>4. ASSUME NEW I \in SUBSET (1 .. (n + 1))
        PROVE  h[I] = IF I = {} THEN base ELSE F[<< h[I \ {Max(I)}], s[Max(I)] >>]
    <3>1. CASE n + 1 \in I
      <4>1. Max(I) = n + 1 /\ I \ {n + 1} \in SUBSET (1 .. (n + 1))
        BY <2>2, <3>1
      <4>2. h[I \ {n + 1}] = g[I \ {n + 1}]
        BY <4>1
      <4>3. h[I] = F[<< g[I \ {n + 1}], s[n + 1] >>]
        BY <3>1
      <4> QED
        BY <3>1, <4>1, <4>2, <4>3
    <3>2. CASE n + 1 \notin I
      <4>1. I \in SUBSET (1 .. n) /\ h[I] = g[I]
        BY <2>2, <3>2
      <4>2. I \ {Max(I)} \in SUBSET (1 .. n) /\ I \ {Max(I)} \in SUBSET (1 .. (n + 1))
            /\ n + 1 \notin I \ {Max(I)}
        BY <4>1, <3>2
      <4>3. h[I \ {Max(I)}] = g[I \ {Max(I)}]
        BY <4>2
      <4> QED
        BY <2>1, <4>1, <4>3 DEF Folds
    <3> QED
      BY <3>1, <3>2
  <2>5. Folds(n + 1, h)
    BY <2>3, <2>4 DEF Folds
  <2> QED
    BY <2>5
<1>3. Len(s) \in T
  <2> HIDE DEF T
  <2>1. \A n \in Nat : n \in T
    BY <1>1, <1>2, Induction
  <2> QED
    BY <2>1
<1>4. PICK g : Folds(Len(s), g)
  BY <1>3
<1> QED
  BY <1>4 DEF Folds, Foldable

\* The digits are added from the left to the right.
LEMMA SecondsFold ==
  ASSUME NEW s \in Seq(0 .. 9)
  PROVE  \E v : /\ v[0] = 0 /\ Seconds(s) = v[Len(s)]
                /\ \A k \in 1 .. Len(s) : v[k] = AddDigit(v[k - 1], s[k])
<1> DEFINE Iter(it) == it = [I \in SUBSET (1 .. Len(s)) |->
                               IF I = {} THEN 0 ELSE AddDigit(it[I \ {Max(I)}], s[Max(I)])]
           F == [p \in Int \X (0 .. 9) |-> AddDigit(p[1], p[2])]
<1>1. MaxSeconds \in Nat
  BY WidthAssumption DEF WidthAssumption, MaxSeconds
<1>2. \E it : Iter(it)
  <2>1. F \in [Int \X (0 .. 9) -> Int]
    BY DEF AddDigit, Overflow
  <2>2. \A n \in Int, d \in 0 .. 9 : F[<< n, d >>] = AddDigit(n, d)
    OBVIOUS
  <2>0. s \in Seq(0 .. 9) /\ 0 \in Int /\ Len(s) \in Nat
    OBVIOUS
  <2> HIDE DEF F, Iter
  <2>3. PICK g \in [SUBSET (1 .. Len(s)) -> Int] :
          \A I \in SUBSET (1 .. Len(s)) :
            g[I] = IF I = {} THEN 0 ELSE F[<< g[I \ {Max(I)}], s[Max(I)] >>]
    <3>1. Foldable(Int, F, 0, s)
      BY <2>0, <2>1, FoldExists
    <3> QED
      BY <3>1 DEF Foldable
  <2>4. ASSUME NEW I \in SUBSET (1 .. Len(s)), I # {}
        PROVE  g[I \ {Max(I)}] \in Int /\ s[Max(I)] \in 0 .. 9
    <3>1. Max(I) \in I /\ I \ {Max(I)} \in SUBSET (1 .. Len(s))
      BY <2>0, <2>4, MaxExists
    <3>2. Max(I) \in 1 .. Len(s)
      BY <3>1
    <3>3. g[I \ {Max(I)}] \in Int
      BY <3>1
    <3>4. s[Max(I)] \in 0 .. 9
      BY <2>0, <3>2
    <3> QED
      BY <3>3, <3>4
  <2>5. \A I \in SUBSET (1 .. Len(s)) :
          g[I] = IF I = {} THEN 0 ELSE AddDigit(g[I \ {Max(I)}], s[Max(I)])
    BY <2>2, <2>3, <2>4
  <2>6. Iter(g)
    BY <2>3, <2>5 DEF Iter
  <2> QED
    BY <2>6
<1> DEFINE it == CHOOSE it : Iter(it)
<1>3. Iter(it)
  BY <1>2
<1>4. Seconds(s) = it[1 .. Len(s)]
  <2>1. DOMAIN s = 1 .. Len(s)
    OBVIOUS
  <2> QED
    BY <2>1 DEF Seconds, FoldLeft, MapThenFoldSet
<1> HIDE DEF it
<1> DEFINE v == [k \in 0 .. Len(s) |-> it[1 .. k]]
<1>5. v[0] = 0
  <2>1. 1 .. 0 = {} /\ 0 \in 0 .. Len(s) /\ {} \in SUBSET (1 .. Len(s))
    OBVIOUS
  <2> QED
    BY <1>3, <2>1
<1>6. ASSUME NEW k \in 1 .. Len(s) PROVE v[k] = AddDigit(v[k - 1], s[k])
  <2>0. Len(s) \in Nat
    OBVIOUS
  <2>1. /\ 1 .. k \in SUBSET (1 .. Len(s)) /\ 1 .. k # {} /\ (1 .. k) \ {k} = 1 .. (k - 1)
        /\ k \in 0 .. Len(s) /\ k - 1 \in 0 .. Len(s)
    BY <2>0, UpTo
  <2>2. Max(1 .. k) = k
    <3>1. 1 .. k \in SUBSET Int /\ k \in 1 .. k /\ \A x \in 1 .. k : k >= x
      OBVIOUS
    <3> QED
      BY <3>1, MaxIs
  <2>3. it[1 .. k] = AddDigit(it[1 .. (k - 1)], s[k])
    BY <1>3, <2>1, <2>2
  <2> QED
    BY <2>1, <2>3
<1>7. Seconds(s) = v[Len(s)]
  BY <1>4
<1> QED
  BY <1>5, <1>6, <1>7

\* The amount without a width is the recursive function it is defined by.
LEMMA AmountSteps ==
  ASSUME NEW s \in Seq(0 .. 9)
  PROVE  \E w : /\ w[0] = 0 /\ Amount(s) = w[Len(s)]
                /\ \A k \in 1 .. Len(s) : w[k] = w[k - 1] * 10 + s[k]
<1> DEFINE Sums(n, f) == f = [i \in 0 .. n |-> IF i = 0 THEN 0 ELSE f[i - 1] * 10 + s[i]]
           T == { n \in Nat : \E f : Sums(n, f) }
<1>0. Len(s) \in Nat
  OBVIOUS
<1>1. 0 \in T
  <2>1. Sums(0, [i \in 0 .. 0 |-> 0])
    BY 0 .. 0 = {0}
  <2> QED
    BY <2>1
<1>2. ASSUME NEW n \in Nat, n \in T PROVE n + 1 \in T
  <2>1. PICK f : Sums(n, f)
    BY <1>2
  <2> DEFINE g == [i \in 0 .. (n + 1) |-> IF i = n + 1 THEN f[n] * 10 + s[n + 1] ELSE f[i]]
  <2>2. \A i \in 0 .. (n + 1) : i = n + 1 \/ i \in 0 .. n
    OBVIOUS
  <2>3. ASSUME NEW i \in 0 .. (n + 1)
        PROVE  g[i] = IF i = 0 THEN 0 ELSE g[i - 1] * 10 + s[i]
    <3>1. CASE i = n + 1
      <4>1. i # 0 /\ i - 1 = n /\ n \in 0 .. (n + 1) /\ n # n + 1
        BY <3>1
      <4> QED
        BY <3>1, <4>1
    <3>2. CASE i # n + 1
      <4>1. i \in 0 .. n /\ g[i] = f[i]
        BY <2>2, <3>2
      <4>2. i # 0 => i - 1 \in 0 .. (n + 1) /\ i - 1 # n + 1
        BY <4>1
      <4>3. i # 0 => g[i - 1] = f[i - 1]
        BY <4>2
      <4>4. f[i] = IF i = 0 THEN 0 ELSE f[i - 1] * 10 + s[i]
        BY <2>1, <4>1
      <4> QED
        BY <4>1, <4>3, <4>4
    <3> QED
      BY <3>1, <3>2
  <2>4. Sums(n + 1, g)
    BY <2>3
  <2> HIDE DEF Sums, g
  <2> QED
    BY <2>4
<1>3. Len(s) \in T
  <2> HIDE DEF T
  <2> QED
    BY <1>0, <1>1, <1>2, Induction
<1> DEFINE w == CHOOSE f : Sums(Len(s), f)
<1>4. Sums(Len(s), w)
  BY <1>3
<1>5. Amount(s) = w[Len(s)]
  BY DEF Amount
<1> HIDE DEF w
<1>6. w[0] = 0
  BY <1>0, <1>4
<1>7. ASSUME NEW k \in 1 .. Len(s) PROVE w[k] = w[k - 1] * 10 + s[k]
  BY <1>0, <1>4
<1> QED
  BY <1>5, <1>6, <1>7

\* A digit is added as long as the amount fits.
LEMMA AddDigitIs ==
  ASSUME NEW n \in Nat, NEW d \in 0 .. 9
  PROVE  /\ AddDigit(Overflow, d) = Overflow
         /\ AddDigit(n, d) = IF n * 10 + d <= MaxSeconds THEN n * 10 + d ELSE Overflow
<1>1. MaxSeconds \in Nat /\ MaxSeconds >= 9 /\ n # Overflow
  BY WidthAssumption DEF WidthAssumption, MaxSeconds, Overflow
<1>2. MaxSeconds - d \in Nat
  BY <1>1
<1>3. n > (MaxSeconds - d) \div 10 <=> n * 10 > MaxSeconds - d
  BY <1>2
<1>4. n * 10 > MaxSeconds - d <=> ~(n * 10 + d <= MaxSeconds)
  BY <1>1
<1> QED
  BY <1>1, <1>3, <1>4 DEF AddDigit

\* Seconds counts what fits, and knows what does not.
LEMMA SecondsIs ==
  ASSUME NEW s \in Seq(0 .. 9)
  PROVE  /\ Amount(s) \in Nat
         /\ Seconds(s) = IF Amount(s) <= MaxSeconds THEN Amount(s) ELSE Overflow
<1>1. PICK v : /\ v[0] = 0 /\ Seconds(s) = v[Len(s)]
               /\ \A k \in 1 .. Len(s) : v[k] = AddDigit(v[k - 1], s[k])
  BY SecondsFold
<1>2. PICK w : /\ w[0] = 0 /\ Amount(s) = w[Len(s)]
               /\ \A k \in 1 .. Len(s) : w[k] = w[k - 1] * 10 + s[k]
  BY AmountSteps
<1>3. MaxSeconds \in Nat /\ Len(s) \in Nat
  BY WidthAssumption DEF WidthAssumption, MaxSeconds
<1> DEFINE Same(k) == w[k] \in Nat /\ v[k] = IF w[k] <= MaxSeconds THEN w[k] ELSE Overflow
           T == { k \in Nat : k <= Len(s) => Same(k) }
<1>4. 0 \in T
  BY <1>1, <1>2, <1>3
<1>5. ASSUME NEW k \in Nat, k \in T PROVE k + 1 \in T
  <2> SUFFICES ASSUME k + 1 <= Len(s) PROVE Same(k + 1)
    OBVIOUS
  <2>1. k + 1 \in 1 .. Len(s) /\ (k + 1) - 1 = k /\ s[k + 1] \in 0 .. 9
    BY <1>3
  <2>2. Same(k)
    BY <1>3, <1>5
  <2>3. v[k + 1] = AddDigit(v[k], s[k + 1]) /\ w[k + 1] = w[k] * 10 + s[k + 1]
    BY <1>1, <1>2, <2>1
  <2> DEFINE n == w[k]
             d == s[k + 1]
  <2>4. n \in Nat /\ d \in 0 .. 9 /\ v[k] = IF n <= MaxSeconds THEN n ELSE Overflow
    BY <2>1, <2>2
  <2>5. v[k + 1] = AddDigit(v[k], d) /\ w[k + 1] = n * 10 + d
    BY <2>3
  <2> HIDE DEF n, d
  <2>6. w[k + 1] \in Nat
    BY <2>4, <2>5
  <2>7. CASE n <= MaxSeconds
    BY <2>4, <2>5, <2>6, <2>7, AddDigitIs
  <2>8. CASE ~(n <= MaxSeconds)
    <3>1. ~(n * 10 + d <= MaxSeconds)
      BY <1>3, <2>4, <2>8
    <3> QED
      BY <2>4, <2>5, <2>6, <2>8, <3>1, AddDigitIs
  <2> QED
    BY <2>7, <2>8
<1>6. Len(s) \in T
  <2> HIDE DEF T
  <2> QED
    BY <1>3, <1>4, <1>5, Induction
<1> QED
  BY <1>1, <1>2, <1>3, <1>6

LEMMA Remainder ==
  ASSUME NEW x \in Nat, NEW y \in Nat, x < y
  PROVE  x % y = x
OBVIOUS

\* An amount of seconds fits if its product does, and then the width is not noticed.
LEMMA SecondsFit ==
  ASSUME NEW n \in Nat
  PROVE  /\ n <= MaxSeconds <=> n * Second <= MaxInt64
         /\ n * Second \in Nat
         /\ n * Second > 0 <=> n > 0
         /\ n <= MaxSeconds => Wrap(n * Second) = n * Second
<1> DEFINE q == MaxSeconds
<1>1. MaxInt64 \in Nat /\ Second \in Nat /\ Second > 0
  BY WidthAssumption DEF WidthAssumption
<1>2. q \in Nat /\ q * Second <= MaxInt64 /\ MaxInt64 < q * Second + Second
  BY <1>1 DEF MaxSeconds
<1> HIDE DEF q
<1>3. n * Second \in Nat /\ q * Second \in Nat
  BY <1>1, <1>2
<1>4. n * Second > 0 <=> n > 0
  BY <1>1
<1>5. n <= q <=> n * Second <= MaxInt64
  <2>1. CASE n <= q
    <3>1. q - n \in Nat
      BY <1>2, <2>1
    <3>2. (q - n) * Second \in Nat /\ n * Second + (q - n) * Second = q * Second
      BY <1>1, <1>2, <3>1
    <3> QED
      BY <1>1, <1>2, <1>3, <2>1, <3>2
  <2>2. CASE ~(n <= q)
    <3>1. n - q - 1 \in Nat
      BY <1>2, <2>2
    <3>2. (n - q - 1) * Second \in Nat
          /\ n * Second = (n - q - 1) * Second + q * Second + Second
      BY <1>1, <1>2, <3>1
    <3> QED
      BY <1>1, <1>2, <1>3, <2>2, <3>2
  <2> QED
    BY <2>1, <2>2
<1>6. ASSUME n <= q PROVE Wrap(n * Second) = n * Second
  <2> DEFINE m == n * Second
  <2>1. m \in Nat /\ m <= MaxInt64
    BY <1>3, <1>5, <1>6
  <2> HIDE DEF m
  <2>2. m + MaxInt64 + 1 \in Nat /\ 2 * (MaxInt64 + 1) \in Nat
        /\ m + MaxInt64 + 1 < 2 * (MaxInt64 + 1)
    BY <1>1, <2>1
  <2>3. (m + MaxInt64 + 1) % (2 * (MaxInt64 + 1)) = m + MaxInt64 + 1
    BY <2>2, Remainder
  <2>4. Wrap(m) = m
    BY <1>1, <2>1, <2>3 DEF Wrap
  <2> QED
    BY <2>4 DEF m
<1> QED
  BY <1>3, <1>4, <1>5, <1>6 DEF q

\* What the code computes in its width is what is due.
LEMMA RetryAfterIsDue ==
  ASSUME NEW value, NEW now \in Clocks,
         value.kind = "seconds" => value.digits \in Seq(0 .. 9),
         value.kind = "date" => value.date \in Int
  PROVE  RetryAfter(value, now) = Due(value, now)
<1>1. now.wall \in Int /\ now.monotonic \in Nat /\ now.monotonic <= MaxInt64 /\ MaxInt64 \in Nat
  BY AnswersAssumption, WidthAssumption DEF AnswersAssumption, WidthAssumption
<1>2. CASE value.kind = "seconds"
  <2> DEFINE n == Amount(value.digits)
             m == n * Second
  <2>1. n \in Nat /\ Seconds(value.digits) = IF n <= MaxSeconds THEN n ELSE Overflow
    BY <1>2, SecondsIs
  <2>2. Asked(value, now) = m
    BY <1>2 DEF Asked
  <2> HIDE DEF n
  <2>3. /\ n <= MaxSeconds <=> m <= MaxInt64
        /\ m \in Nat
        /\ m > 0 <=> n > 0
        /\ n <= MaxSeconds => Wrap(m) = m
    BY <2>1, SecondsFit
  <2>4. MaxSeconds \in Nat
    BY WidthAssumption DEF WidthAssumption, MaxSeconds
  <2>5. CASE n <= MaxSeconds /\ n > 0
    <3>1. RetryAfter(value, now) = Deadline(now, m)
      BY <1>2, <2>1, <2>3, <2>5 DEF RetryAfter
    <3> HIDE DEF m
    <3> QED
      BY <1>1, <2>2, <2>3, <2>5, <3>1 DEF Deadline, Due
  <2>6. CASE n = 0
    <3>1. RetryAfter(value, now) = NoDeadline
      BY <1>2, <2>1, <2>4, <2>6 DEF RetryAfter, Overflow
    <3> HIDE DEF m
    <3> QED
      BY <2>1, <2>2, <2>3, <2>6, <3>1 DEF Due
  <2>7. CASE ~(n <= MaxSeconds)
    <3>1. RetryAfter(value, now) = NoDeadline
      BY <1>2, <2>1, <2>7 DEF RetryAfter, Overflow
    <3> HIDE DEF m
    <3> QED
      BY <1>1, <2>2, <2>3, <2>7, <3>1 DEF Due
  <2> QED
    BY <2>1, <2>4, <2>5, <2>6, <2>7
<1>3. CASE value.kind = "date"
  <2> DEFINE m == value.date - now.wall
  <2>1. m \in Int /\ Asked(value, now) = m /\ value.date \in Int
    BY <1>1, <1>3 DEF Asked
  <2>2. Until(value.date, now) = IF m > MaxInt64 THEN MaxInt64 ELSE m
    BY DEF Until
  <2>3. value.date > now.wall <=> m > 0
    BY <1>1, <2>1
  <2>4. now.wall + Until(value.date, now) = value.date <=> m <= MaxInt64
    BY <1>1, <2>1, <2>2
  <2>5. RetryAfter(value, now) = IF m > 0 /\ m <= MaxInt64 THEN Deadline(now, m) ELSE NoDeadline
    BY <1>3, <2>2, <2>3, <2>4, <1>1, <2>1 DEF RetryAfter
  <2> HIDE DEF m
  <2> QED
    BY <1>1, <2>1, <2>5 DEF Deadline, Due
<1>4. CASE value.kind \notin {"seconds", "date"}
  BY <1>4 DEF RetryAfter, Due, Asked
<1> QED
  BY <1>2, <1>3, <1>4

\* The verdict that http.Client holds has the deadline of the answer behind it.
HintInv ==
  at \in Requests =>
    /\ result.kind = "retry" => result.retryAt = seen.due
    /\ result.kind = "stop" => result.retryAt = NoDeadline

\* What HintIsExact says of the step that ends an attempt.
Exact == outcome'.retryAt = IF outcome'.kind = "retry" THEN seen.due ELSE NoDeadline

LEMMA PendingHasNoHint ==
  ASSUME at' \in Requests => result'.kind \notin {"retry", "stop"}
  PROVE  HintInv'
BY DEF HintInv

LEMMA AnswerHint ==
  ASSUME at \in Requests, NEW r \in Responses[at], NEW now \in Clocks, RoundTrip(r, now)
  PROVE  HintInv'
<1>1. /\ at' = at /\ seen' = Observed(r, now)
      /\ \/ result'.kind = "response" \/ result' = Broken
         \/ result' = SetupFailure(at, r.status, r.retryAfter, now)
  BY DEF RoundTrip
<1>2. seen'.due = Due(r.retryAfter, now)
  BY <1>1 DEF Observed
<1>3. RetryAfter(r.retryAfter, now) = Due(r.retryAfter, now)
  BY AnswersAssumption, RetryAfterIsDue DEF AnswersAssumption
<1>4. CASE result' = SetupFailure(at, r.status, r.retryAfter, now)
  BY <1>1, <1>2, <1>3, <1>4 DEF HintInv, SetupFailure
<1>5. CASE result'.kind = "response" \/ result' = Broken
  BY <1>5, PendingHasNoHint DEF Broken
<1> QED
  BY <1>1, <1>4, <1>5

LEMMA HintNext == HintInv /\ [ConnectNext]_connectVars => HintInv'
<1> SUFFICES ASSUME HintInv, [ConnectNext]_connectVars PROVE HintInv'
  OBVIOUS
<1>a. ASSUME NEW step, Await(step) PROVE HintInv'
  BY <1>a, Waiting, PendingHasNoHint
<1>b. ASSUME NEW o, Finish(o) PROVE HintInv'
  BY <1>b, <1>a DEF Finish
<1>c. ASSUME NEW request, NEW set, Send(request, set) PROVE HintInv'
  BY <1>c, <1>a, <1>b DEF Send
<1>1. CASE UNCHANGED << at, result, seen >>
  BY <1>1 DEF HintInv
<1>2. CASE RequestFails
  BY <1>2, PendingHasNoHint DEF RequestFails, Broken
<1>3. CASE at' \in {"body", "reply"}
  BY <1>3 DEF HintInv, Requests
<1>4. ASSUME at \in Requests, NEW r \in Responses[at], NEW now \in Clocks, RoundTrip(r, now)
      PROVE  HintInv'
  BY <1>4, AnswerHint
<1>5. CASE ReadToken
  BY <1>5, <1>a, <1>b DEF ReadToken
<1>6. CASE Returns
  BY <1>6, <1>a, <1>b, <1>c, <1>3 DEF Returns, PreflightReturns, NegotiateReturns, DialReturns
<1>7. CASE \E body \in Bodies : ReadBody(body)
  BY <1>7, <1>b, <1>c DEF ReadBody
<1>8. CASE BodyFails \/ Subscribe \/ HandshakeBreaks \/ HandshakeRefused \/ SubscribeFails
  BY <1>8, <1>b DEF BodyFails, Subscribe, HandshakeBreaks, HandshakeRefused, SubscribeFails, GiveUp
<1>9. CASE Clock
  BY <1>9, <1>1 DEF Clock, CallerElapses, CallerEnds, Lapse, attempt
<1>10. CASE WriteHandshake
  BY <1>10, <1>3 DEF WriteHandshake
<1>11. CASE BeforeReply
  BY <1>11, <1>2, <1>4, <1>5, <1>6, <1>7, <1>8, <1>10 DEF BeforeReply
<1>12. CASE \E m \in Messages : HandshakeMessage(m)
  BY <1>12, <1>1, <1>8, <1>a DEF HandshakeMessage, HandshakeAccepted, setupVars
<1>13. CASE HandshakeData \/ Reading \/ Over \/ UNCHANGED connectVars
  BY <1>13, <1>1, <1>8 DEF HandshakeData, Reading, Over, connectVars, setupVars
<1> QED
  BY <1>8, <1>9, <1>11, <1>12, <1>13 DEF ConnectNext

\* Only what is tried again has a deadline.
LEMMA OutcomeIsExact ==
  ASSUME NEW kind, kind # "retry", outcome' = Outcome(kind)
  PROVE  Exact
BY DEF Outcome, Exact

LEMMA FailureIsExact ==
  ASSUME HintInv, at \in Requests, outcome' = Failure
  PROVE  Exact
<1>1. CASE caller = "alive" /\ result.kind \in {"stop", "retry"}
  BY <1>1 DEF Failure, HintInv, Exact
<1>2. CASE ~(caller = "alive" /\ result.kind \in {"stop", "retry"})
  BY <1>2, OutcomeIsExact DEF Failure
<1> QED
  BY <1>1, <1>2

\* A server that asked to be left alone is left alone as long as it asked, to the tick,
\* and nothing else delays an attempt (retryAfterDeadline, setupHTTPFailure).
THEOREM HintsAreExact == ConnectSpec => HintIsExact
<1>1. HintInv /\ [ConnectNext]_connectVars => (at # "done" /\ at' = "done" => Exact)
  <2> SUFFICES ASSUME HintInv, [ConnectNext]_connectVars, at # "done", at' = "done" PROVE Exact
    OBVIOUS
  <2>a. ASSUME NEW kind, kind # "retry", Finish(Outcome(kind)) PROVE Exact
    BY <2>a, Finished, OutcomeIsExact
  <2>b. ASSUME at \in Requests, Finish(Failure) PROVE Exact
    BY <2>b, Finished, FailureIsExact
  <2>c. ASSUME NEW request, request # "done", NEW set, Send(request, set) PROVE Exact
    BY <2>c, <2>a DEF Send, Await
  <2>1. CASE Clock \/ RequestFails \/ WriteHandshake
    BY <2>1 DEF Clock, CallerElapses, CallerEnds, Lapse, attempt, RequestFails, WriteHandshake
  <2>2. ASSUME NEW r, NEW now, RoundTrip(r, now) PROVE Exact
    BY <2>2 DEF RoundTrip
  <2>3. CASE ReadToken
    BY <2>3, <2>a DEF ReadToken, Await
  <2>4. CASE PreflightReturns
    BY <2>4, <2>a, <2>b, <2>c DEF PreflightReturns, Requests
  <2>5. CASE NegotiateReturns
    BY <2>5, <2>b DEF NegotiateReturns, Requests
  <2>6. CASE DialReturns
    <3>1. at \in Requests
      BY <2>6 DEF DialReturns, Requests
    <3>2. Finish(IF result.kind = "response" /\ caller = "alive"
                 THEN Outcome("invalid") ELSE Failure)
      BY <2>6 DEF DialReturns, Await
    <3> QED
      BY <3>1, <3>2, <2>a, <2>b
  <2>7. CASE \E body \in Bodies : ReadBody(body)
    BY <2>7, <2>a, <2>c DEF ReadBody
  <2>8. CASE BodyFails \/ Subscribe \/ HandshakeBreaks \/ HandshakeRefused \/ SubscribeFails
    BY <2>8, <2>a DEF BodyFails, Subscribe, HandshakeBreaks, HandshakeRefused, SubscribeFails, GiveUp
  <2>9. CASE BeforeReply
    BY <2>9, <2>1, <2>2, <2>3, <2>4, <2>5, <2>6, <2>7, <2>8 DEF BeforeReply, Returns
  <2>10. CASE \E m \in Messages : HandshakeMessage(m)
    BY <2>10, <2>8 DEF HandshakeMessage, HandshakeAccepted, Await, setupVars
  <2>11. CASE HandshakeData \/ Reading \/ Over \/ UNCHANGED connectVars
    BY <2>11, <2>8 DEF HandshakeData, Reading, Over, connectVars, setupVars
  <2> QED
    BY <2>1, <2>8, <2>9, <2>10, <2>11 DEF ConnectNext
<1>2. HintInv /\ [ConnectNext]_connectVars => [at # "done" /\ at' = "done" => Exact]_setupVars
  BY <1>1
<1>3. ConnectInit => HintInv
  BY DEF ConnectInit, SetupInit, HintInv, Requests
<1> QED
  BY <1>2, <1>3, HintNext, PTL DEF ConnectSpec, HintIsExact, Exact
=============================================================================
