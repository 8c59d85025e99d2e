----------------------------- MODULE HttpPolicy -----------------------------
(***************************************************************************)
(* What an HTTP answer during setup means (http_policy.go): accepted,      *)
(* tried again, or the end of the input; and how long a server that is     *)
(* tried again asks to be left alone.                                      *)
(*                                                                         *)
(* Time is counted in ticks of a Duration, Second of them to the second.   *)
(* A reading of the clock has a wall part and a monotonic part; Durations  *)
(* and monotonic readings are integers up to MaxInt64 (the width of the    *)
(* code is 64 bits).  A Retry-After value is a sequence of digits, a date, *)
(* or none of the two.                                                     *)
(***************************************************************************)
EXTENDS Integers, SequencesExt

CONSTANTS
  MaxInt64,
  Second    \* time.Second

MaxSeconds == MaxInt64 \div Second

ASSUME WidthAssumption ==
  /\ MaxInt64 \in Nat /\ Second \in Nat \ {0}
  /\ MaxSeconds >= 9

Requests == { "preflight", "negotiate", "upgrade" }

\* classifySetupHTTP: a 404 for the WebSocket means that the connection token is
\* gone, and a new attempt negotiates a new one.
Classify(stage, status) ==
  IF \/ stage # "upgrade" /\ status \in 200 .. 299
     \/ stage = "upgrade" /\ status = 101
  THEN "accept"
  ELSE IF \/ status \in { 408, 429, 500, 502, 503, 504 }
          \/ stage = "upgrade" /\ status = 404
  THEN "retry" ELSE "stop"

-----------------------------------------------------------------------------
NoDeadline == 0
Overflow   == -1

\* A deadline is the monotonic reading at which it is due.  Add drops a reading
\* that overflows, and a wall clock alone is not a deadline.
Deadline(now, delay) ==
  IF now.monotonic + delay > MaxInt64 THEN NoDeadline ELSE now.monotonic + delay

\* Seeded fault: the digit is not counted against the limit.
AddDigitOverLimit(seconds, digit) ==
  IF seconds = Overflow \/ seconds > MaxSeconds \div 10
  THEN Overflow ELSE seconds * 10 + digit

AddDigit(seconds, digit) ==
  IF seconds = Overflow \/ seconds > (MaxSeconds - digit) \div 10
  THEN Overflow ELSE seconds * 10 + digit

Seconds(digits) == FoldLeft(AddDigit, 0, digits)

\* A product of Durations, in their width.
Wrap(n) == ((n + MaxInt64 + 1) % (2 * (MaxInt64 + 1))) - (MaxInt64 + 1)

\* Time.Sub saturates; one end is enough, an earlier date asks for nothing.
Until(date, now) == IF date - now.wall > MaxInt64 THEN MaxInt64 ELSE date - now.wall

\* retryAfterDeadline
RetryAfter(value, now) ==
  CASE value.kind = "seconds" /\ Seconds(value.digits) > 0 ->
         Deadline(now, Wrap(Seconds(value.digits) * Second))
    [] value.kind = "date" /\ value.date > now.wall
                           /\ now.wall + Until(value.date, now) = value.date ->
         Deadline(now, Until(value.date, now))
    [] OTHER -> NoDeadline

\* setupHTTPFailure: only an answer that is tried again has a deadline.
SetupFailure(stage, status, value, now) ==
  LET kind == IF Classify(stage, status) = "retry" THEN "retry" ELSE "stop"
  IN  [ kind    |-> kind,
        retryAt |-> IF kind = "retry" THEN RetryAfter(value, now) ELSE NoDeadline ]

-----------------------------------------------------------------------------
\* What the value asks for in ticks, and when it is due, computed without a width:
\* a value that does not fit is no deadline, never a shorter or an earlier one.
Amount(digits) ==
  LET amount[i \in 0 .. Len(digits)] == IF i = 0 THEN 0 ELSE amount[i - 1] * 10 + digits[i]
  IN  amount[Len(digits)]

Asked(value, now) ==
  CASE value.kind = "seconds" -> Amount(value.digits) * Second
    [] value.kind = "date"    -> value.date - now.wall
    [] OTHER                  -> 0

Due(value, now) ==
  LET asked == Asked(value, now)
  IN  IF asked > 0 /\ now.monotonic + asked <= MaxInt64
      THEN now.monotonic + asked ELSE NoDeadline
=============================================================================
