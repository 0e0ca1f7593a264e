----------------------------- MODULE HttpClient -----------------------------
(***************************************************************************)
(* PoliteHttpClient.request and RateLimiter of helios_connectors/http.py:  *)
(* one host, one request at a time.  Every attempt first waits for its     *)
(* slot; a transport error or a retryable status is tried again after a    *)
(* delay, up to a limit; any other status from 400 on is raised at once.   *)
(* httpx follows redirects by itself: an attempt is one request and then   *)
(* one more for each redirect, and only the first has waited for a slot.   *)
(*                                                                         *)
(* Time is counted in ticks and kept relative to now.  time.sleep() may    *)
(* return late, and nothing the client does takes longer than MaxOver      *)
(* ticks apart from waiting for a slot, a backoff or the server.           *)
(***************************************************************************)
EXTENDS Integers

CONSTANTS Interval,   \* 1 / rate_per_second, in ticks
          MaxOver,    \* bound: how late a slot can be used
          MaxRetries, \* http_max_retries
          Delays,     \* the backoffs, and the Retry-After answers
          MaxRedirects, \* max_redirects of httpx
          PerSlot       \* how many requests of a slot the rate is to allow for

ASSUME HttpClientAssumption ==
    /\ Interval \in Nat \ {0}
    /\ MaxOver \in Nat
    /\ MaxRetries \in Nat
    /\ Delays \subseteq Nat
    /\ MaxRedirects \in Nat
    /\ PerSlot \in Nat \ {0}

VARIABLES step,    \* where request() is
          attempt, \* the attempt it is at
          sleep,   \* what is left of time.sleep()
          late,    \* ticks that have passed since the slot was there
          due,     \* _next_available[host] - now, or 0 when that is past
          hops,    \* the redirects this attempt has followed
          credit   \* what a token bucket would hold: history only

httpVars == <<step, attempt, sleep, late, due, hops, credit>>

\* A bucket that gains PerSlot per tick and pays Interval for a request: its capacity
\* allows one slot at once, what a late slot can bring forward, and the redirects that
\* a slow server still sends to the slot before.
Capacity == PerSlot * (Interval + MaxOver) + (PerSlot - 1) * Interval

HttpTypeOK ==
    /\ step \in {"idle", "waiting", "sent", "backoff"}
    /\ attempt \in 0..MaxRetries
    /\ sleep \in Nat
    /\ late \in 0..MaxOver
    /\ due \in Nat
    /\ hops \in 0..MaxRedirects
    /\ credit \in Int

HttpInit ==
    /\ step = "idle"
    /\ attempt = 0
    /\ sleep = 0
    /\ late = 0
    /\ due = 0
    /\ hops = 0
    /\ credit = Capacity

\* Mutant: the next slot is counted from now, although this one is still to come.
ReservedFromNow(d) == Interval

\* max(now, earliest) + interval, relative to now.
Reserved(d) == d + Interval

\* acquire(): wait for the slot and reserve the one after it.
Acquire ==
    /\ step' = "waiting"
    /\ sleep' = due
    /\ late' = 0
    /\ due' = Reserved(due)
    /\ hops' = 0
    /\ UNCHANGED credit

Request == step = "idle" /\ attempt' = 0 /\ Acquire

Send ==
    /\ step = "waiting" /\ sleep = 0
    /\ step' = "sent"
    /\ late' = 0
    /\ credit' = credit - Interval
    /\ UNCHANGED <<attempt, sleep, due, hops>>

\* A redirect to the host: requested at once, with no acquire() of its own.  One to
\* another host is not a request here; one too many is a transport error.
Redirect ==
    /\ step = "sent" /\ hops < MaxRedirects
    /\ hops' = hops + 1
    /\ credit' = credit - Interval
    /\ UNCHANGED <<step, attempt, sleep, late, due>>

\* An attempt that is the last one is not repeated.
Retryable == attempt < MaxRetries

\* A transport error, a timeout, or one of RETRYABLE_STATUS.
BackOff ==
    /\ step = "sent" /\ Retryable
    /\ step' = "backoff"
    /\ sleep' \in Delays
    /\ UNCHANGED <<attempt, late, due, hops, credit>>

\* Mutant: a retry does not count as one.
SameAttempt == attempt

NextAttempt == attempt + 1

Retry == step = "backoff" /\ sleep = 0 /\ attempt' = NextAttempt /\ Acquire

Return ==
    /\ step' = "idle" /\ attempt' = 0 /\ hops' = 0
    /\ UNCHANGED <<sleep, late, due, credit>>

\* The last attempt failed too, the server refuses the request, or at any attempt its
\* Retry-After is a number time.sleep() does not take: less than 0, or NaN.
Raise == step = "sent" /\ Return

Succeed == step = "sent" /\ Return

\* Time passes; a slot that is there is used before it is more than MaxOver late.
Tick ==
    /\ step = "waiting" /\ sleep = 0 => late < MaxOver
    /\ sleep' = IF sleep > 0 THEN sleep - 1 ELSE 0
    /\ late' = IF step = "waiting" /\ sleep = 0 THEN late + 1 ELSE late
    /\ due' = IF due > 0 THEN due - 1 ELSE 0
    /\ credit' = IF credit + PerSlot < Capacity THEN credit + PerSlot ELSE Capacity
    /\ UNCHANGED <<step, attempt, hops>>

HttpNext == Request \/ Send \/ Redirect \/ BackOff \/ Retry \/ Raise \/ Succeed \/ Tick

HttpSpec == HttpInit /\ [][HttpNext]_httpVars

\* Whatever the waits, the retries, the late wake-ups and the redirects add up to, over
\* any T ticks the host gets at most (2 * PerSlot - 1) + PerSlot * (T + MaxOver) / Interval
\* requests.  That is true for PerSlot = 1 + MaxRedirects.  For PerSlot = 1 it is the rate
\* the client declares (http.py:10, "a per-host token-bucket rate limit"), and it is not
\* kept of a source that redirects.
RateIsKept == credit >= 0
=============================================================================
