---------------------------- MODULE MCHubConnect ----------------------------
(* The instance of HubConnect that TLC checks.                             *)
EXTENDS HubConnect, TLC

\* Affinity cookies of every path, with the flaws a cookie can have, and none.  The
\* preflight and the negotiation name different backends.
Cookies(backend) ==
  { c \in [ name : {"affinity"}, value : {backend, ""}, path : Paths,
            secure : BOOLEAN, live : BOOLEAN ] : c.value # "" \/ c.live } \cup { NoCookie }

NoHint == [kind |-> "none"]

\* Nothing, the most that fits, one more and far too much; and the past, the
\* present and dates on both sides of what fits.
Hints ==
  [ kind : {"seconds"},
    digits : { << >>, <<0>>, <<0, 1>>, <<4, 7>>, <<4, 8>>, <<9, 9>>, <<1, 0, 0>> } ]
    \cup [ kind : {"date"}, date : { -1, 20, 21, 55, 56, 114, 115, 116, 130 } ]
    \cup { NoHint }

Answers(statuses, set, hints) ==
  [ status : statuses, cookie : set, retryAfter : hints, location : BOOLEAN, verified : BOOLEAN ]

MCResponses ==
  [ request \in Requests |->
      { r \in Answers( CASE request = "preflight" -> {200, 302, 404, 503}
                         [] request = "negotiate" -> {200, 302, 429}
                         [] request = "upgrade"   -> {101, 200, 404, 500},
                       IF request = "upgrade" THEN {NoCookie} ELSE Cookies(request), Hints ) :
          /\ r.location => r.status = 302
          /\ ~r.verified => r.status = 101
          /\ r.retryAfter # NoHint => /\ Classify(request, r.status) # "accept"
                                      /\ r.cookie = NoCookie } ]

Field(name, v) == [field |-> name, exact |-> TRUE, shape |-> TRUE, value |-> v]

Transports == Field("availableTransports", "WebSockets with Text")

\* A body of each version, and such bodies with one flaw or one stranger.
MCBodies ==
  LET one  == << Field("negotiateVersion", "1"), Field("connectionId", "id"),
                 Field("connectionToken", "token"), Transports >>
      zero == << Field("connectionId", "id"), Transports >>
  IN  { one, zero, << >>, Tail(one), Tail(zero),
        one \o << Field("unknown", "x"), Field("unknown", "x") >>,
        one \o << Field("error", "x") >>, one \o << Field("url", "x") >>,
        one \o << Field("error", "") >>, one \o << one[1] >>,
        one \o << [one[3] EXCEPT !.exact = FALSE] >>,
        [one EXCEPT ![3].shape = FALSE], [one EXCEPT ![1].value = "2"],
        [zero EXCEPT ![2].value = "WebSockets with Binary"] }

MCClocks == [wall : {20}, monotonic : {1, 60}]
=============================================================================
