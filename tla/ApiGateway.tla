---------------------------- MODULE ApiGateway ----------------------------
(***************************************************************************)
(* services/api-gateway: one client's requests on their way to a service.  *)
(*                                                                         *)
(* A request passes the rate limit of its client, a sliding window over    *)
(* the times of the requests admitted before, and is then sent upstream.   *)
(* A GET that fails, or is answered with a 5xx, is sent again, at most     *)
(* RetryAttempts times; any other method is sent once.  A time-out ends    *)
(* the gateway's interest in an attempt, not the attempt: the service's    *)
(* thread goes on, and may take effect after the next attempt began.       *)
(*                                                                         *)
(* The back-off before a retry is part of the delay until the service      *)
(* begins the next attempt.  Routing, headers and tokens are left out: all *)
(* requests are for one service and carry a valid identity.  So are the    *)
(* restarts of the gateway, which empty its window.                        *)
(***************************************************************************)
EXTENDS Integers, Sequences, FiniteSets

CONSTANTS
    Requests,           \* requests of one client; bound: as many are ever made
    RetryAttempts,      \* settings.retry_attempts
    RateLimitRequests,  \* settings.rate_limit_requests
    RateLimitWindow,    \* settings.rate_limit_window_seconds
    MaxTime,            \* bound: the clock stops there
    MaxFaults           \* bound: time-outs and stops of the service

ASSUME GatewayAssumption ==
    /\ RetryAttempts \in Nat
    /\ RateLimitRequests \in Nat \ {0}
    /\ RateLimitWindow \in Nat
    /\ MaxTime \in Nat
    /\ MaxFaults \in Nat

Methods == {"GET", "POST", "PATCH", "DELETE"}
RETRYABLE_METHODS == {"GET", "HEAD", "OPTIONS"}

VARIABLES
    now,      \* time.monotonic()
    bucket,   \* RATE_LIMIT_BUCKETS[client]: the times of admitted requests
    proxied,  \* [Requests -> Proxied]
    faults

gatewayVars == <<now, bucket, proxied, faults>>

attempts == RetryAttempts + 1

\* attempt counts from 1 here, 0 is a request not sent; lost counts the
\* attempts that ended without an answer; at is when the request was admitted.
Proxied == [method : Methods \cup {"none"},
            status : {"new", "waiting", "2xx", "4xx", "429", "5xx"},
            attempt : 0 .. attempts,
            lost : 0 .. attempts,
            at : 0 .. MaxTime]

GatewayInit ==
    /\ now = 0
    /\ bucket = <<>>
    /\ proxied = [r \in Requests |-> [method |-> "none", status |-> "new",
                                      attempt |-> 0, lost |-> 0, at |-> 0]]
    /\ faults = 0

tick ==
    /\ now < MaxTime
    /\ now' = now + 1
    /\ UNCHANGED <<bucket, proxied, faults>>

\* The popleft loop: times leave at the front until one is not before start.
Since(times, start) ==
    LET first == CHOOSE k \in 1 .. Len(times) + 1 :
                    /\ \A i \in 1 .. k - 1 : times[i] < start
                    /\ k <= Len(times) => times[k] >= start
    IN  SubSeq(times, first, Len(times))

InWindow_Open(times) == Since(times, now - RateLimitWindow + 1)

InWindow(times) == Since(times, now - RateLimitWindow)

\* _enforce_rate_limit, and the first client.request.
proxy(r, method) ==
    /\ proxied[r].status = "new"
    /\ IF Len(InWindow(bucket)) >= RateLimitRequests
       THEN /\ bucket' = InWindow(bucket)
            /\ proxied' = [proxied EXCEPT ![r].status = "429",
                                          ![r].method = method]
       ELSE /\ bucket' = Append(InWindow(bucket), now)
            /\ proxied' = [proxied EXCEPT ![r].status = "waiting",
                                          ![r].method = method,
                                          ![r].attempt = 1, ![r].at = now]
    /\ UNCHANGED <<now, faults>>

should_retry_AnyMethod(r, status) ==
    status = "5xx" /\ proxied[r].attempt < attempts

should_retry_OnceLess(r, status) ==
    /\ proxied[r].method \in RETRYABLE_METHODS
    /\ status = "5xx"
    /\ proxied[r].attempt < attempts - 1

should_retry(r, status) ==
    /\ proxied[r].method \in RETRYABLE_METHODS
    /\ status = "5xx"
    /\ proxied[r].attempt < attempts

\* The answer to the current attempt: returned, or the request sent again.
receive(r, status) ==
    proxied' = IF should_retry(r, status)
               THEN [proxied EXCEPT ![r].attempt = @ + 1]
               ELSE [proxied EXCEPT ![r].status = status]

\* An httpx.HTTPError: the request is sent again, or answered 504 or 502.
request_fails(r) ==
    /\ proxied[r].status = "waiting"
    /\ proxied' = IF should_retry(r, "5xx")
                  THEN [proxied EXCEPT ![r].attempt = @ + 1, ![r].lost = @ + 1]
                  ELSE [proxied EXCEPT ![r].status = "5xx", ![r].lost = @ + 1]
    /\ UNCHANGED <<now, bucket>>

\* request_timeout_seconds pass without an answer.
request_times_out(r) ==
    /\ faults < MaxFaults
    /\ faults' = faults + 1
    /\ request_fails(r)

-----------------------------------------------------------------------------
(* Properties.                                                             *)

GatewayTypeOK ==
    /\ now \in 0 .. MaxTime
    /\ bucket \in Seq(0 .. MaxTime)
    /\ proxied \in [Requests -> Proxied]
    /\ faults \in 0 .. MaxFaults

\* No request is admitted when as many as the limit were admitted in the
\* window that ends with it, both ends of the window included: the pruning of
\* the bucket forgets no request that still counts.
AdmittedWithinLimit ==
    \A r \in Requests :
        proxied[r].attempt > 0 =>
            Cardinality({q \in Requests :
                /\ proxied[q].attempt > 0
                /\ proxied[q].at \in proxied[r].at - RateLimitWindow .. proxied[r].at})
              <= RateLimitRequests
=============================================================================
