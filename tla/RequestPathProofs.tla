-------------------------- MODULE RequestPathProofs --------------------------
(***************************************************************************)
(* Proofs about what a request meets on its way: the gateway with the user *)
(* service behind it, the auth service, and the trace context.  The three  *)
(* share no state, so each has theorems of its own specification, for any  *)
(* requests, users, logins and tasks, and any limits and bounds.           *)
(***************************************************************************)
EXTENDS UserService, AuthService, Tracing, SequenceTheorems, FiniteSetTheorems, TLAPS

(***************************************************************************)
(* Part 1.  The gateway and the user service.  The invariant ties each     *)
(* handler to the attempt it serves (CallsInOrder), the bucket to the      *)
(* requests that still count (Remembered), the rows to the handlers that   *)
(* made them (MadeByPastCalls), and what a handler is about to clear to the *)
(* defaults there are (ClearsTheOthers).                                   *)
(***************************************************************************)

\* The requests that passed the rate limit.
Admitted == {r \in Requests : proxied[r].attempt > 0}

\* The bucket has the time of every admitted request that still counts.
Remembered ==
    \E f \in [1 .. Len(bucket) -> Requests] :
        \A q \in Admitted : proxied[q].at >= now - RateLimitWindow =>
            \E i \in 1 .. Len(bucket) : f[i] = q /\ bucket[i] = proxied[q].at

\* A request that was sent has its path and is counted attempt by attempt, and
\* only what may be retried has a second one.
RequestsInOrder ==
    \A r \in Requests :
        /\ proxied[r].status = "new" <=> wanted[r] = None
        /\ proxied[r].attempt = 0 <=> proxied[r].status \in {"new", "429"}
        /\ proxied[r].attempt > 0 => proxied[r].at <= now
        /\ proxied[r].lost <= proxied[r].attempt
        /\ proxied[r].status = "waiting" => proxied[r].lost < proxied[r].attempt
        /\ wanted[r] # None =>
              /\ proxied[r].method = MethodOf[wanted[r].op]
              /\ wanted[r].op # "get_profile" => proxied[r].attempt <= 1
              /\ wanted[r].op \notin {"create_address", "update_address"} =>
                    wanted[r].is_default = "unset"
              /\ wanted[r].address \in IF wanted[r].op \in {"update_address", "delete_address"}
                                       THEN 1 .. Len(addresses) ELSE {0}

\* A handler belongs to an attempt that was made, and works on addresses of its
\* user.
CallsInOrder ==
    \A r \in Requests, n \in 1 .. attempts :
        LET c == calls[r][n]
            w == wanted[r]
        IN  /\ c.step = "begin" => c.status = "none"
            /\ c.step = "reply" => c.status # "none"
            /\ c.step # "begin" => n <= proxied[r].attempt
            /\ c.step = "insert" => w.op \notin {"update_address", "delete_address"}
            /\ c.step \in {"list", "commit"} =>
                  w.op \in {"create_address", "update_address", "delete_address"}
            /\ c.step \in {"begin", "insert"} => c.loaded = {} /\ c.defaults = {}
            /\ c.step = "list" => SetsDefault(r) /\ c.loaded \subseteq {w.address}
            /\ c.step \in {"list", "commit"} /\ w.op # "create_address" =>
                  addresses[w.address].user = w.user
            /\ c.step \in {"list", "commit"} =>
                  \A i \in c.defaults : i \in 1 .. Len(addresses) /\ addresses[i].user = w.user

\* The handler that made an address is past its commit.
MadeByPastCalls ==
    \A i \in 1 .. Len(addresses) :
        LET r == addresses[i].request
        IN  /\ wanted[r] # None
            /\ wanted[r].op = "create_address"
            /\ calls[r][1].step \in {"reply", "done"}

Defaults(u) == DefaultsAmong(AddressesOf(u))

\* Without an overlap one handler that sets the default is open, and before it
\* commits it knows of every default but the one it sets.
OneOpenSetter ==
    \A r, q \in Requests, n, m \in 1 .. attempts :
        /\ IsOpen(r, n) /\ SetsDefault(r)
        /\ IsOpen(q, m) /\ SetsDefault(q)
        /\ wanted[r].user = wanted[q].user
        /\ wanted[r].user \notin overlapped
        => r = q /\ n = m

ClearsTheOthers ==
    \A r \in Requests, n \in 1 .. attempts :
        /\ calls[r][n].step = "commit"
        /\ SetsDefault(r)
        /\ wanted[r].user \notin overlapped
        => Defaults(wanted[r].user) \subseteq calls[r][n].defaults \cup {wanted[r].address}

SingleDefault ==
    \A u \in Users \ overlapped : \A i, j \in Defaults(u) : i = j

\* Of the attempts of a GET that ended, all but one were lost; the one that was
\* not lost left the profile behind, so the one being made will not fail again.
OneAttemptAnswered ==
    \A r \in Requests : proxied[r].method = "GET" =>
        /\ \A n \in 1 .. attempts : calls[r][n].status = "5xx" => wanted[r].user \in profiles
        /\ proxied[r].status = "waiting" /\ proxied[r].lost < proxied[r].attempt - 1 =>
              /\ proxied[r].lost = proxied[r].attempt - 2
              /\ wanted[r].user \in profiles
              /\ calls[r][proxied[r].attempt].step # "insert"
              /\ calls[r][proxied[r].attempt].status # "5xx"

UserInv ==
    /\ UserTypeOK
    /\ RequestsInOrder
    /\ CallsInOrder
    /\ Remembered
    /\ AdmittedWithinLimit
    /\ MadeByPastCalls
    /\ CreatedOnce
    /\ OneOpenSetter
    /\ ClearsTheOthers
    /\ SingleDefault
    /\ OneAttemptAnswered
    /\ RaceCostsOneAttempt

-----------------------------------------------------------------------------
\* A set of naturals that is not empty has a least element: those below all of
\* it are as many as there are, and so the numbers up to that many.
LEMMA LeastElement ==
    ASSUME NEW T, T \subseteq Nat, T # {}
    PROVE  \E x \in T : \A y \in T : x <= y
<1> DEFINE Below == {i \in Nat : \A y \in T : i < y}
<1>1. IsFiniteSet(Below)
  <2>1. PICK t \in T : TRUE
    OBVIOUS
  <2>2. t \in Nat /\ \A i \in Below : i <= t
    BY <2>1
  <2> QED
    BY <2>2, FS_BoundedSetOfNaturals
<1>2. PICK n \in Nat : n = Cardinality(Below)
  BY <1>1, FS_CardinalityType
<1>3. ASSUME NEW i \in Below PROVE i <= n - 1
  <2>1. 0 .. i \in SUBSET Below
    OBVIOUS
  <2>2. Cardinality(0 .. i) = i + 1
    BY FS_Interval
  <2> HIDE DEF Below
  <2>3. Cardinality(0 .. i) <= Cardinality(Below)
    BY <1>1, <2>1, FS_Subset
  <2>4. i \in Nat
    BY DEF Below
  <2> QED
    BY <1>2, <2>2, <2>3, <2>4
<1>4. Below \in SUBSET (0 .. n - 1)
  BY <1>3
<1>5. IsFiniteSet(0 .. n - 1) /\ Cardinality(0 .. n - 1) = n
  BY FS_Interval
<1>6. Below = 0 .. n - 1
  <2> HIDE DEF Below
  <2> QED
    BY <1>2, <1>4, <1>5, FS_Subset
<1>7. PICK x \in T : x <= n
  <2>1. n \notin Below
    BY <1>6
  <2> QED
    BY <2>1
<1>8. \A y \in T : n <= y
  <2>1. CASE n = 0
    BY <2>1
  <2>2. CASE n > 0
    <3>1. n - 1 \in Below
      BY <1>6, <2>2
    <3> QED
      BY <3>1
  <2> QED
    BY <2>1, <2>2
<1> QED
  BY <1>7, <1>8

\* The popleft loop takes some times off the front, all of them before start.
LEMMA SinceDrops ==
    ASSUME NEW S, NEW times \in Seq(S), S \subseteq Int, NEW start \in Int
    PROVE  \E d \in 0 .. Len(times) :
              /\ Since(times, start) \in Seq(S)
              /\ Len(Since(times, start)) = Len(times) - d
              /\ \A i \in 1 .. Len(times) - d : Since(times, start)[i] = times[i + d]
              /\ \A i \in 1 .. d : times[i] < start
<1> DEFINE n == Len(times)
           First(k) == /\ \A i \in 1 .. k - 1 : times[i] < start
                       /\ k <= n => times[k] >= start
<1>1. n \in Nat /\ \A i \in 1 .. n : times[i] \in S /\ times[i] \in Int
  BY LenProperties, ElementOfSeq
<1>2. \E k \in 1 .. n + 1 : First(k)
  <2> DEFINE Kept == {k \in 1 .. n + 1 : k <= n => times[k] >= start}
  <2>1. Kept \subseteq Nat /\ n + 1 \in Kept
    BY <1>1
  <2>2. PICK k \in Kept : \A l \in Kept : k <= l
    <3> HIDE DEF Kept
    <3> QED
      BY <2>1, LeastElement
  <2>3. \A i \in 1 .. k - 1 : times[i] < start
    BY <1>1, <2>2
  <2> QED
    BY <2>2, <2>3
<1>3. PICK k : k = CHOOSE m \in 1 .. n + 1 : First(m)
  OBVIOUS
<1>4. k \in 1 .. n + 1 /\ First(k)
  <2> HIDE DEF First
  <2> QED
    BY <1>2, <1>3
<1>5. Since(times, start) = SubSeq(times, k, n)
  BY <1>3 DEF Since
<1>6. /\ SubSeq(times, k, n) \in Seq(S)
      /\ Len(SubSeq(times, k, n)) = IF k <= n THEN n - k + 1 ELSE 0
      /\ \A i \in 1 .. n - k + 1 : SubSeq(times, k, n)[i] = times[k + i - 1]
  <2>1. k \in Int /\ n \in Int /\ \A i \in k .. n : times[i] \in S
    BY <1>1, <1>4
  <2> QED
    BY <2>1, SubSeqProperties
<1>7. PICK d \in 0 .. n : d = k - 1
  BY <1>1, <1>4
<1>8. \A i \in 1 .. n - d : SubSeq(times, k, n)[i] = times[i + d]
  BY <1>1, <1>4, <1>6, <1>7
<1>9. Len(SubSeq(times, k, n)) = n - d
  BY <1>1, <1>4, <1>6, <1>7
<1>10. \A i \in 1 .. d : times[i] < start
  BY <1>4, <1>7
<1> QED
  BY <1>5, <1>6, <1>8, <1>9, <1>10
-----------------------------------------------------------------------------
(* Types.                                                                  *)

LEMMA AttemptsType == attempts \in Nat \ {0} /\ attempts = RetryAttempts + 1
BY GatewayAssumption DEF attempts

LEMMA ProxiedType ==
    ASSUME UserTypeOK, NEW r \in Requests
    PROVE  /\ proxied[r] \in Proxied
           /\ proxied[r].method \in Methods \cup {"none"}
           /\ proxied[r].status \in {"new", "waiting", "2xx", "4xx", "429", "5xx"}
           /\ proxied[r].attempt \in 0 .. attempts /\ proxied[r].attempt \in Nat
           /\ proxied[r].lost \in 0 .. attempts /\ proxied[r].lost \in Nat
           /\ proxied[r].at \in 0 .. MaxTime /\ proxied[r].at \in Nat
BY AttemptsType, GatewayAssumption DEF UserTypeOK, GatewayTypeOK, Proxied

LEMMA WantedType ==
    ASSUME UserTypeOK, NEW r \in Requests, wanted[r] # None
    PROVE  /\ wanted[r] \in Wanted
           /\ wanted[r].op \in Ops
           /\ wanted[r].user \in Users
           /\ wanted[r].address \in Nat
           /\ wanted[r].is_default \in {"true", "false", "unset"}
BY DEF UserTypeOK, Wanted

LEMMA CallType ==
    ASSUME UserTypeOK, NEW r \in Requests, NEW n \in 1 .. attempts
    PROVE  /\ calls[r][n] \in Call
           /\ calls[r][n].step \in {"begin", "insert", "list", "commit", "reply", "done"}
           /\ calls[r][n].loaded \in SUBSET Nat
           /\ calls[r][n].defaults \in SUBSET Nat
           /\ calls[r][n].status \in {"none", "2xx", "4xx", "5xx"}
BY DEF UserTypeOK, Call

LEMMA AddressType ==
    ASSUME UserTypeOK, NEW i \in 1 .. Len(addresses)
    PROVE  /\ addresses[i] \in Address
           /\ addresses[i].user \in Users
           /\ addresses[i].request \in Requests
           /\ addresses[i].is_default \in BOOLEAN
           /\ addresses[i].deleted \in BOOLEAN
<1>1. addresses[i] \in Address
  BY ElementOfSeq DEF UserTypeOK
<1> QED
  BY <1>1 DEF Address

LEMMA ClockType == UserTypeOK => now \in Nat /\ Len(addresses) \in Nat /\ Len(bucket) \in Nat
BY GatewayAssumption, LenProperties DEF UserTypeOK, GatewayTypeOK

\* A step of one handler changes one call.
LEMMA GoCalls ==
    ASSUME UserTypeOK, NEW r \in Requests, NEW n \in 1 .. attempts,
           NEW call \in Call, Go(r, n, call)
    PROVE  /\ calls' \in [Requests -> [1 .. attempts -> Call]]
           /\ \A q \in Requests, m \in 1 .. attempts :
                 calls'[q][m] = IF q = r /\ m = n THEN call ELSE calls[q][m]
           /\ UNCHANGED <<gatewayVars, wanted>>
BY DEF UserTypeOK, Go
-----------------------------------------------------------------------------
(* The rate limit.                                                         *)

\* A set that n places cover has at most n elements.
LEMMA CoveredIsFew ==
    ASSUME NEW n \in Nat, NEW T, NEW f \in [1 .. n -> T], NEW S,
           \A x \in S : \E i \in 1 .. n : f[i] = x
    PROVE  IsFiniteSet(S) /\ Cardinality(S) <= n
<1> DEFINE R == {f[i] : i \in 1 .. n}
<1>1. f \in Surjection(1 .. n, R)
  BY DEF Surjection
<1>2. IsFiniteSet(1 .. n) /\ Cardinality(1 .. n) = n
  BY FS_Interval
<1>3. IsFiniteSet(R) /\ Cardinality(R) <= n
  BY <1>1, <1>2, FS_Surjection
<1>4. S \in SUBSET R
  OBVIOUS
<1>5. IsFiniteSet(S) /\ Cardinality(S) <= Cardinality(R)
  BY <1>3, <1>4, FS_Subset
<1>6. Cardinality(S) \in Nat /\ Cardinality(R) \in Nat
  BY <1>3, <1>5, FS_CardinalityType
<1> QED
  BY <1>3, <1>5, <1>6

\* The bucket a request finds: what was in it but for the times that no longer count.
LEMMA InWindowDrops ==
    ASSUME UserTypeOK
    PROVE  \E d \in 0 .. Len(bucket) :
              /\ InWindow(bucket) \in Seq(0 .. MaxTime)
              /\ Len(InWindow(bucket)) = Len(bucket) - d
              /\ \A i \in 1 .. Len(bucket) - d : InWindow(bucket)[i] = bucket[i + d]
              /\ \A i \in 1 .. d : bucket[i] < now - RateLimitWindow
<1>1. bucket \in Seq(0 .. MaxTime) /\ 0 .. MaxTime \subseteq Int
  BY DEF UserTypeOK, GatewayTypeOK
<1>2. now - RateLimitWindow \in Int
  BY GatewayAssumption, ClockType
<1> QED
  BY <1>1, <1>2, SinceDrops DEF InWindow

\* What the arrival of a request does to the gateway.
LEMMA ProxyStep ==
    ASSUME UserTypeOK, NEW r \in Requests, NEW method \in Methods, proxy(r, method)
    PROVE  /\ UNCHANGED <<now, faults>>
           /\ proxied[r].status = "new"
           /\ bucket' \in Seq(0 .. MaxTime)
           /\ proxied' \in [Requests -> Proxied]
           /\ \A q \in Requests \ {r} : proxied'[q] = proxied[q]
           /\ proxied'[r].method = method
           /\ proxied'[r].lost = proxied[r].lost
           /\ \/ /\ bucket' = InWindow(bucket)
                 /\ proxied'[r].status = "429"
                 /\ proxied'[r].attempt = proxied[r].attempt
                 /\ proxied'[r].at = proxied[r].at
              \/ /\ Len(InWindow(bucket)) < RateLimitRequests
                 /\ bucket' = Append(InWindow(bucket), now)
                 /\ proxied'[r].status = "waiting"
                 /\ proxied'[r].attempt = 1
                 /\ proxied'[r].at = now
<1>1. proxied \in [Requests -> Proxied] /\ now \in 0 .. MaxTime
  BY DEF UserTypeOK, GatewayTypeOK
<1>2. InWindow(bucket) \in Seq(0 .. MaxTime) /\ Len(InWindow(bucket)) \in Nat
  BY InWindowDrops, LenProperties
<1>3. UNCHANGED <<now, faults>> /\ proxied[r].status = "new"
  BY DEF proxy
<1>4. CASE Len(InWindow(bucket)) >= RateLimitRequests
  <2>1. /\ bucket' = InWindow(bucket)
        /\ proxied' = [proxied EXCEPT ![r].status = "429", ![r].method = method]
    BY <1>4 DEF proxy
  <2>2. proxied' \in [Requests -> Proxied]
    BY <1>1, <2>1, ProxiedType DEF Proxied
  <2> QED
    BY <1>1, <1>2, <1>3, <2>1, <2>2, ProxiedType DEF Proxied
<1>5. CASE ~(Len(InWindow(bucket)) >= RateLimitRequests)
  <2>1. /\ bucket' = Append(InWindow(bucket), now)
        /\ proxied' = [proxied EXCEPT ![r].status = "waiting", ![r].method = method,
                                      ![r].attempt = 1, ![r].at = now]
    BY <1>5 DEF proxy
  <2>2. proxied' \in [Requests -> Proxied]
    <3> DEFINE p == [proxied[r] EXCEPT !.status = "waiting", !.method = method,
                                       !.attempt = 1, !.at = now]
    <3>1. p \in Proxied
      <4>1. 1 \in 0 .. attempts
        BY AttemptsType
      <4>2. [proxied[r] EXCEPT !.status = "waiting", !.method = method] \in Proxied
        BY ProxiedType DEF Proxied
      <4>3. [proxied[r] EXCEPT !.status = "waiting", !.method = method, !.attempt = 1]
              \in Proxied
        BY <4>1, <4>2 DEF Proxied
      <4> QED
        BY <1>1, <4>3 DEF Proxied
    <3>2. proxied' = [proxied EXCEPT ![r] = p]
      BY <1>1, <2>1
    <3> HIDE DEF p
    <3> QED
      BY <1>1, <3>1, <3>2
  <2>3. bucket' \in Seq(0 .. MaxTime)
    BY <1>1, <1>2, <2>1, AppendProperties
  <2>4. Len(InWindow(bucket)) < RateLimitRequests
    BY <1>2, <1>5, GatewayAssumption
  <2> QED
    BY <1>1, <1>3, <2>1, <2>2, <2>3, <2>4, ProxiedType DEF Proxied
<1> QED
  BY <1>4, <1>5

\* A step that admits no request keeps the limit and what the bucket remembers:
\* time only makes requests count no more.
LEMMA OthersKeepLimit ==
    ASSUME UserTypeOK, Remembered, AdmittedWithinLimit,
           now' \in Nat, now' >= now, bucket' = bucket,
           \A q \in Requests : /\ proxied'[q].attempt > 0 <=> proxied[q].attempt > 0
                               /\ proxied'[q].at = proxied[q].at
    PROVE  Remembered' /\ AdmittedWithinLimit'
<1>1. Admitted' = Admitted
  BY DEF Admitted
<1>2. Remembered'
  <2>1. \A q \in Admitted : proxied'[q].at >= now' - RateLimitWindow =>
                               proxied[q].at >= now - RateLimitWindow
    BY ClockType, ProxiedType, GatewayAssumption DEF Admitted
  <2>2. PICK f \in [1 .. Len(bucket) -> Requests] :
          \A q \in Admitted : proxied[q].at >= now - RateLimitWindow =>
             \E i \in 1 .. Len(bucket) : f[i] = q /\ bucket[i] = proxied[q].at
    BY DEF Remembered
  <2>3. \A q \in Admitted' : proxied'[q].at >= now' - RateLimitWindow =>
           \E i \in 1 .. Len(bucket') : f[i] = q /\ bucket'[i] = proxied'[q].at
    BY <1>1, <2>1, <2>2 DEF Admitted
  <2> QED
    BY <2>3 DEF Remembered
<1>3. AdmittedWithinLimit'
  <2> DEFINE Near(r) == {q \in Requests : /\ proxied[q].attempt > 0
                                          /\ proxied[q].at \in proxied[r].at - RateLimitWindow .. proxied[r].at}
  <2>1. \A r \in Requests : Near(r)' = Near(r)
    OBVIOUS
  <2>2. \A r \in Requests : proxied[r].attempt > 0 => Cardinality(Near(r)) <= RateLimitRequests
    BY DEF AdmittedWithinLimit
  <2>3. \A r \in Requests : proxied'[r].attempt > 0 => Cardinality(Near(r)') <= RateLimitRequests
    BY <2>1, <2>2
  <2> QED
    BY <2>3 DEF AdmittedWithinLimit
<1> QED
  BY <1>2, <1>3

\* A request is admitted only when the bucket has a place for it; whatever
\* counts against its limit is in the bucket then.
LEMMA ProxyKeepsLimit ==
    ASSUME UserTypeOK, RequestsInOrder, Remembered, AdmittedWithinLimit,
           NEW r \in Requests, NEW method \in Methods, proxy(r, method)
    PROVE  Remembered' /\ AdmittedWithinLimit'
<1> PICK left : left = InWindow(bucket)
  OBVIOUS
<1>1. PICK d \in 0 .. Len(bucket) :
         /\ left \in Seq(0 .. MaxTime) /\ Len(left) = Len(bucket) - d
         /\ \A i \in 1 .. Len(bucket) - d : left[i] = bucket[i + d]
         /\ \A i \in 1 .. d : bucket[i] < now - RateLimitWindow
  BY InWindowDrops
<1>2. PICK f \in [1 .. Len(bucket) -> Requests] :
         \A q \in Admitted : proxied[q].at >= now - RateLimitWindow =>
            \E i \in 1 .. Len(bucket) : f[i] = q /\ bucket[i] = proxied[q].at
  BY DEF Remembered
<1>3. Len(bucket) \in Nat /\ Len(left) \in Nat /\ now \in Nat /\ RateLimitWindow \in Nat
  BY <1>1, ClockType, GatewayAssumption
<1> DEFINE g == [i \in 1 .. Len(left) |-> f[i + d]]
<1>4. g \in [1 .. Len(left) -> Requests]
  BY <1>1, <1>3
<1>5. \A q \in Admitted : proxied[q].at >= now - RateLimitWindow =>
         \E i \in 1 .. Len(left) : g[i] = q /\ left[i] = proxied[q].at
  <2> SUFFICES ASSUME NEW q \in Admitted, proxied[q].at >= now - RateLimitWindow
               PROVE  \E i \in 1 .. Len(left) : g[i] = q /\ left[i] = proxied[q].at
    OBVIOUS
  <2>1. PICK i \in 1 .. Len(bucket) : f[i] = q /\ bucket[i] = proxied[q].at
    BY <1>2
  <2>2. i \notin 1 .. d
    <3>1. proxied[q].at \in Nat /\ bucket[i] >= now - RateLimitWindow
      BY <2>1, ProxiedType DEF Admitted
    <3> QED
      BY <1>1, <1>3, <2>1, <3>1
  <2>3. i - d \in 1 .. Len(left)
    BY <1>1, <1>3, <2>2
  <2>4. left[i - d] = bucket[i] /\ g[i - d] = f[i]
    BY <1>1, <1>3, <2>3
  <2> QED
    BY <2>1, <2>3, <2>4
<1> HIDE DEF g
<1>6. /\ now' = now /\ proxied[r].attempt = 0
      /\ \A q \in Requests \ {r} : proxied'[q] = proxied[q]
  BY ProxyStep DEF RequestsInOrder
<1>7. CASE /\ bucket' = left /\ proxied'[r].attempt = proxied[r].attempt
           /\ proxied'[r].at = proxied[r].at
  <2>1. Admitted' = Admitted /\ \A q \in Admitted : proxied'[q] = proxied[q]
    BY <1>6, <1>7 DEF Admitted
  <2>2. Remembered'
    <3>1. \A q \in Admitted' : proxied'[q].at >= now' - RateLimitWindow =>
             \E i \in 1 .. Len(bucket') : g[i] = q /\ bucket'[i] = proxied'[q].at
      BY <1>5, <1>6, <1>7, <2>1
    <3>2. g \in [1 .. Len(bucket') -> Requests]
      BY <1>4, <1>7
    <3> QED
      BY <3>1, <3>2 DEF Remembered
  <2>3. AdmittedWithinLimit'
    <3> DEFINE Near(q) == {p \in Requests : /\ proxied[p].attempt > 0
                                            /\ proxied[p].at \in proxied[q].at - RateLimitWindow .. proxied[q].at}
    <3>1. \A q \in Requests : Near(q)' = Near(q)
      BY <1>6, <1>7
    <3>2. \A q \in Requests : proxied[q].attempt > 0 => Cardinality(Near(q)) <= RateLimitRequests
      BY DEF AdmittedWithinLimit
    <3>3. \A q \in Requests : proxied'[q].attempt > 0 => Cardinality(Near(q)') <= RateLimitRequests
      BY <1>6, <1>7, <3>1, <3>2
    <3> QED
      BY <3>3 DEF AdmittedWithinLimit
  <2> QED
    BY <2>2, <2>3
<1>8. CASE /\ Len(left) < RateLimitRequests /\ bucket' = Append(left, now)
           /\ proxied'[r].attempt = 1 /\ proxied'[r].at = now
  <2> DEFINE n == Len(left) + 1
             h == [i \in 1 .. n |-> IF i = n THEN r ELSE g[i]]
  <2>1. /\ Len(bucket') = n /\ bucket'[n] = now
        /\ \A i \in 1 .. Len(left) : bucket'[i] = left[i]
    <3>1. now \in 0 .. MaxTime
      BY DEF UserTypeOK, GatewayTypeOK
    <3> QED
      BY <1>1, <1>8, <3>1, AppendProperties
  <2>2. h \in [1 .. n -> Requests] /\ n \in Nat
    BY <1>3, <1>4
  <2>3. Admitted' = Admitted \cup {r} /\ \A q \in Admitted : proxied'[q] = proxied[q]
    BY <1>6, <1>8 DEF Admitted
  <2>4. \A q \in Admitted' : proxied'[q].at >= now - RateLimitWindow =>
           \E i \in 1 .. n : h[i] = q /\ bucket'[i] = proxied'[q].at
    <3> SUFFICES ASSUME NEW q \in Admitted', proxied'[q].at >= now - RateLimitWindow
                 PROVE  \E i \in 1 .. n : h[i] = q /\ bucket'[i] = proxied'[q].at
      OBVIOUS
    <3>1. CASE q = r
      <4>1. h[n] = r /\ n \in 1 .. n
        BY <1>3
      <4> QED
        BY <1>8, <2>1, <3>1, <4>1
    <3>2. CASE q # r
      <4>1. q \in Admitted /\ proxied'[q] = proxied[q]
        BY <2>3, <3>2
      <4>2. PICK i \in 1 .. Len(left) : g[i] = q /\ left[i] = proxied[q].at
        BY <1>5, <4>1
      <4>3. i \in 1 .. n /\ i # n /\ h[i] = g[i]
        BY <1>3
      <4> QED
        BY <2>1, <4>1, <4>2, <4>3
    <3> QED
      BY <3>1, <3>2
  <2> HIDE DEF h
  <2>5. Remembered'
    BY <1>6, <2>1, <2>2, <2>4 DEF Remembered
  <2>6. ASSUME NEW S, \A q \in S : q \in Admitted' /\ proxied'[q].at >= now - RateLimitWindow
        PROVE  Cardinality(S) <= RateLimitRequests
    <3>1. \A q \in S : \E i \in 1 .. n : h[i] = q
      BY <2>4, <2>6
    <3>2. Cardinality(S) <= n /\ IsFiniteSet(S)
      BY <2>2, <3>1, CoveredIsFew
    <3>3. Cardinality(S) \in Nat
      BY <3>2, FS_CardinalityType
    <3> QED
      BY <1>3, <1>8, <3>2, <3>3, GatewayAssumption
  <2>7. AdmittedWithinLimit'
    <3> DEFINE Near(q) == {p \in Requests : /\ proxied[p].attempt > 0
                                            /\ proxied[p].at \in proxied[q].at - RateLimitWindow .. proxied[q].at}
    <3> SUFFICES ASSUME NEW q \in Requests, proxied'[q].attempt > 0
                 PROVE  Cardinality(Near(q)') <= RateLimitRequests
      BY DEF AdmittedWithinLimit
    <3>1. CASE proxied'[q].at = now
      <4>1. \A p \in Near(q)' : p \in Admitted' /\ proxied'[p].at >= now - RateLimitWindow
        BY <3>1 DEF Admitted
      <4> HIDE DEF Near
      <4> QED
        BY <2>6, <4>1
    <3>2. CASE proxied'[q].at # now
      <4>1. q # r /\ q \in Admitted /\ proxied'[q] = proxied[q]
        BY <1>8, <2>3, <3>2 DEF Admitted
      <4>2. proxied[q].at < now
        BY <1>3, <3>2, <4>1, ProxiedType DEF RequestsInOrder, Admitted
      <4>3. r \notin Near(q)'
        BY <1>3, <1>8, <4>1, <4>2, ProxiedType
      <4>4. Near(q)' = Near(q)
        <5>1. r \notin Near(q)
          BY <1>6
        <5> QED
          BY <1>6, <4>1, <4>3, <5>1
      <4>5. Cardinality(Near(q)) <= RateLimitRequests
        BY <4>1 DEF AdmittedWithinLimit, Admitted
      <4> QED
        BY <4>4, <4>5
    <3> QED
      BY <3>1, <3>2
  <2> QED
    BY <2>5, <2>7
<1> QED
  BY <1>7, <1>8, ProxyStep
-----------------------------------------------------------------------------
(* The attempts of a request.                                              *)

\* The answer to an attempt: the next attempt, or the answer to the request.
LEMMA ReceiveStep ==
    ASSUME UserTypeOK, RequestsInOrder, NEW r \in Requests,
           NEW status \in {"2xx", "4xx", "5xx"}, proxied[r].status = "waiting",
           receive(r, status)
    PROVE  /\ proxied' \in [Requests -> Proxied]
           /\ \A q \in Requests \ {r} : proxied'[q] = proxied[q]
           /\ proxied'[r].method = proxied[r].method
           /\ proxied'[r].lost = proxied[r].lost
           /\ proxied'[r].at = proxied[r].at
           /\ \/ /\ status = "5xx" /\ proxied[r].method = "GET"
                 /\ proxied'[r].status = "waiting"
                 /\ proxied'[r].attempt = proxied[r].attempt + 1
              \/ /\ proxied'[r].status = status
                 /\ proxied'[r].attempt = proxied[r].attempt
                 /\ status = "5xx" /\ proxied[r].method = "GET" =>
                       proxied[r].attempt = attempts
<1>1. proxied \in [Requests -> Proxied]
  BY DEF UserTypeOK, GatewayTypeOK
<1>2. CASE should_retry(r, status)
  <2>1. proxied[r].attempt + 1 \in 0 .. attempts /\ proxied[r].method = "GET" /\ status = "5xx"
    BY <1>2, AttemptsType, ProxiedType DEF should_retry, RETRYABLE_METHODS, Methods
  <2>2. proxied' = [proxied EXCEPT ![r].attempt = proxied[r].attempt + 1]
    BY <1>2 DEF receive
  <2> QED
    BY <1>1, <2>1, <2>2, ProxiedType DEF Proxied
<1>3. CASE ~should_retry(r, status)
  <2>1. proxied' = [proxied EXCEPT ![r].status = status]
    BY <1>3 DEF receive
  <2>2. status = "5xx" /\ proxied[r].method = "GET" => proxied[r].attempt = attempts
    BY <1>3, AttemptsType, ProxiedType DEF should_retry, RETRYABLE_METHODS
  <2> QED
    BY <1>1, <2>1, <2>2, ProxiedType DEF Proxied
<1> QED
  BY <1>2, <1>3

\* An attempt that ends without an answer.
LEMMA FailStep ==
    ASSUME UserTypeOK, RequestsInOrder, NEW r \in Requests, request_fails(r)
    PROVE  /\ UNCHANGED <<now, bucket>>
           /\ proxied[r].status = "waiting"
           /\ proxied' \in [Requests -> Proxied]
           /\ \A q \in Requests \ {r} : proxied'[q] = proxied[q]
           /\ proxied'[r].method = proxied[r].method
           /\ proxied'[r].lost = proxied[r].lost + 1
           /\ proxied'[r].at = proxied[r].at
           /\ \/ /\ proxied[r].method = "GET"
                 /\ proxied'[r].status = "waiting"
                 /\ proxied'[r].attempt = proxied[r].attempt + 1
              \/ /\ proxied'[r].status = "5xx"
                 /\ proxied'[r].attempt = proxied[r].attempt
                 /\ proxied[r].method = "GET" => proxied[r].attempt = attempts
<1>1. /\ proxied \in [Requests -> Proxied]
      /\ UNCHANGED <<now, bucket>>
      /\ proxied[r].status = "waiting"
  BY DEF UserTypeOK, GatewayTypeOK, request_fails
<1>2. proxied[r].lost + 1 \in 0 .. attempts
  BY <1>1, AttemptsType, ProxiedType DEF RequestsInOrder
<1>3. CASE should_retry(r, "5xx")
  <2>1. proxied[r].attempt + 1 \in 0 .. attempts /\ proxied[r].method = "GET"
    BY <1>3, AttemptsType, ProxiedType DEF should_retry, RETRYABLE_METHODS, Methods
  <2>2. proxied' = [proxied EXCEPT ![r].attempt = proxied[r].attempt + 1,
                                   ![r].lost = proxied[r].lost + 1]
    BY <1>1, <1>3 DEF request_fails
  <2>3. proxied' \in [Requests -> Proxied]
    BY <1>1, <1>2, <2>1, <2>2, ProxiedType DEF Proxied
  <2> QED
    BY <1>1, <2>1, <2>2, <2>3, ProxiedType DEF Proxied
<1>4. CASE ~should_retry(r, "5xx")
  <2>1. proxied' = [proxied EXCEPT ![r].status = "5xx", ![r].lost = proxied[r].lost + 1]
    BY <1>1, <1>4 DEF request_fails
  <2>2. proxied[r].method = "GET" => proxied[r].attempt = attempts
    BY <1>4, AttemptsType, ProxiedType DEF should_retry, RETRYABLE_METHODS
  <2>3. proxied' \in [Requests -> Proxied]
    BY <1>1, <1>2, <2>1, ProxiedType DEF Proxied
  <2> QED
    BY <1>1, <2>1, <2>2, <2>3, ProxiedType DEF Proxied
<1> QED
  BY <1>3, <1>4

\* An attempt that was made has a request that was sent.
LEMMA AttemptIsWanted ==
    ASSUME UserTypeOK, RequestsInOrder, NEW r \in Requests, NEW n \in 1 .. attempts,
           n <= proxied[r].attempt
    PROVE  /\ wanted[r] # None
           /\ wanted[r] \in Wanted
           /\ wanted[r].op \in Ops
           /\ wanted[r].user \in Users
           /\ wanted[r].address \in Nat
           /\ proxied[r].method = MethodOf[wanted[r].op]
           /\ wanted[r].op # "get_profile" => n = 1 /\ proxied[r].method # "GET"
           /\ wanted[r].op = "get_profile" => proxied[r].method = "GET"
<1>1. proxied[r].attempt > 0
  BY AttemptsType, ProxiedType
<1>2. wanted[r] # None
  BY <1>1 DEF RequestsInOrder
<1>3. wanted[r].op \in Ops
  BY <1>2, WantedType
<1>4. proxied[r].method = MethodOf[wanted[r].op]
  BY <1>2 DEF RequestsInOrder
<1>5. wanted[r].op # "get_profile" => n = 1
  BY <1>2, AttemptsType, ProxiedType DEF RequestsInOrder
<1>6. /\ wanted[r].op # "get_profile" => MethodOf[wanted[r].op] # "GET"
      /\ wanted[r].op = "get_profile" => MethodOf[wanted[r].op] = "GET"
  BY <1>3 DEF Ops, MethodOf
<1> QED
  BY <1>2, <1>3, <1>4, <1>5, <1>6, WantedType
-----------------------------------------------------------------------------
(* The steps of a handler before its commit.                               *)

\* What a call may be after such a step.
Proceeds(r, n, call) ==
    /\ call.step \in {"insert", "list", "commit", "reply"}
    /\ call.step = "reply" => call.status # "none"
    /\ call.step = "insert" => wanted[r].op \notin {"update_address", "delete_address"}
    /\ call.step \in {"list", "commit"} =>
          /\ wanted[r].op \in {"create_address", "update_address", "delete_address"}
          /\ wanted[r].op # "create_address" => addresses[wanted[r].address].user = wanted[r].user
          /\ \A i \in call.defaults : i \in 1 .. Len(addresses) /\ addresses[i].user = wanted[r].user
    /\ call.step = "insert" => call.loaded = {} /\ call.defaults = {}
    /\ call.step = "list" => SetsDefault(r) /\ call.loaded \subseteq {wanted[r].address}
    /\ call.step = "commit" /\ SetsDefault(r) =>
          Defaults(wanted[r].user) \subseteq call.defaults \cup {wanted[r].address}

LEMMA CallStepKeepsInv ==
    ASSUME UserInv, NEW r \in Requests, NEW n \in 1 .. attempts, NEW call \in Call,
           Go(r, n, call), UNCHANGED addresses,
           n <= proxied[r].attempt,
           calls[r][n].step \in {"begin", "insert", "list", "commit"},
           profiles \subseteq profiles', profiles' \in SUBSET Users,
           overlapped \subseteq overlapped', overlapped' \in SUBSET Users,
           Proceeds(r, n, call),
           call.step # "reply" /\ SetsDefault(r) /\ wanted[r].user \notin overlapped' =>
              \A q \in Requests, m \in 1 .. attempts :
                 IsOpen(q, m) /\ SetsDefault(q) /\ wanted[q].user = wanted[r].user
                    => q = r /\ m = n,
           wanted[r].op = "get_profile" =>
              /\ call.status = "5xx" => wanted[r].user \in profiles'
              /\ wanted[r].user \in profiles /\ calls[r][n].step # "insert" =>
                    call.step # "insert" /\ call.status # "5xx"
    PROVE  UserInv'
<1> USE DEF UserInv
<1>1. /\ calls' \in [Requests -> [1 .. attempts -> Call]]
      /\ \A q \in Requests, m \in 1 .. attempts :
            calls'[q][m] = IF q = r /\ m = n THEN call ELSE calls[q][m]
      /\ UNCHANGED <<now, bucket, proxied, faults, wanted>>
  BY GoCalls DEF gatewayVars
<1>2. /\ wanted[r] # None /\ wanted[r].op \in Ops /\ wanted[r].user \in Users
      /\ wanted[r].op # "get_profile" => n = 1 /\ proxied[r].method # "GET"
  BY AttemptIsWanted
<1>3. UserTypeOK'
  BY <1>1 DEF UserTypeOK, GatewayTypeOK
<1>4. RequestsInOrder'
  BY <1>1 DEF RequestsInOrder
<1>5. CallsInOrder'
  <2> SUFFICES ASSUME NEW q \in Requests, NEW m \in 1 .. attempts
               PROVE  LET c == calls'[q][m]
                          w == wanted[q]
                      IN  /\ c.step = "begin" => c.status = "none"
                          /\ c.step = "reply" => c.status # "none"
                          /\ c.step # "begin" => m <= proxied[q].attempt
                          /\ c.step = "insert" => w.op \notin {"update_address", "delete_address"}
                          /\ c.step \in {"list", "commit"} =>
                                w.op \in {"create_address", "update_address", "delete_address"}
                          /\ c.step \in {"begin", "insert"} => c.loaded = {} /\ c.defaults = {}
                          /\ c.step = "list" => SetsDefault(q) /\ c.loaded \subseteq {w.address}
                          /\ c.step \in {"list", "commit"} /\ w.op # "create_address" =>
                                addresses[w.address].user = w.user
                          /\ c.step \in {"list", "commit"} =>
                                \A i \in c.defaults : i \in 1 .. Len(addresses) /\ addresses[i].user = w.user
    BY <1>1 DEF CallsInOrder, SetsDefault
  <2>1. CASE q = r /\ m = n
    <3>1. calls'[q][m] = call
      BY <1>1, <2>1
    <3> QED
      BY <2>1, <3>1 DEF Proceeds
  <2>2. CASE ~(q = r /\ m = n)
    <3>1. calls'[q][m] = calls[q][m]
      BY <1>1, <2>2
    <3> QED
      BY <3>1 DEF CallsInOrder
  <2> QED
    BY <2>1, <2>2
<1>6. Remembered' /\ AdmittedWithinLimit'
  <2>1. now \in Nat
    BY ClockType
  <2> QED
    BY <1>1, <2>1, OthersKeepLimit
<1>7. MadeByPastCalls'
  <2>1. 1 \in 1 .. attempts
    BY AttemptsType
  <2>2. \A i \in 1 .. Len(addresses) : addresses[i].request # r \/ n # 1
    BY DEF MadeByPastCalls
  <2> QED
    BY <1>1, <2>1, <2>2, AddressType DEF MadeByPastCalls
<1>8. CreatedOnce'
  BY DEF CreatedOnce
<1>9. \A u \in Users : Defaults(u)' = Defaults(u)
  BY DEF Defaults, DefaultsAmong, AddressesOf
<1>10. \A q \in Requests, m \in 1 .. attempts :
          IsOpen(q, m)' <=> IF q = r /\ m = n THEN call.step # "reply" ELSE IsOpen(q, m)
  BY <1>1 DEF IsOpen, Proceeds
<1>11. OneOpenSetter'
  <2> SUFFICES ASSUME NEW q \in Requests, NEW p \in Requests,
                      NEW m \in 1 .. attempts, NEW k \in 1 .. attempts,
                      IsOpen(q, m)', SetsDefault(q), IsOpen(p, k)', SetsDefault(p),
                      wanted[q].user = wanted[p].user, wanted[q].user \notin overlapped'
               PROVE  q = p /\ m = k
    BY <1>1 DEF OneOpenSetter, SetsDefault
  <2>1. CASE q = r /\ m = n
    BY <1>10, <2>1
  <2>2. CASE p = r /\ k = n
    BY <1>10, <2>2
  <2>3. CASE ~(q = r /\ m = n) /\ ~(p = r /\ k = n)
    <3>1. IsOpen(q, m) /\ IsOpen(p, k)
      BY <1>10, <2>3
    <3> QED
      BY <3>1 DEF OneOpenSetter
  <2> QED
    BY <2>1, <2>2, <2>3
<1>12. ClearsTheOthers'
  <2> SUFFICES ASSUME NEW q \in Requests, NEW m \in 1 .. attempts,
                      calls'[q][m].step = "commit", SetsDefault(q),
                      NEW u, u = wanted[q].user, u \notin overlapped'
               PROVE  Defaults(u)' \subseteq calls'[q][m].defaults \cup {wanted[q].address}
    BY <1>1 DEF ClearsTheOthers, SetsDefault
  <2>1. m <= proxied[q].attempt
    BY <1>1, <1>5 DEF CallsInOrder
  <2>2. Defaults(u)' = Defaults(u)
    BY <1>9, <2>1, AttemptIsWanted
  <2>3. CASE q = r /\ m = n
    BY <1>1, <2>2, <2>3 DEF Proceeds
  <2>4. CASE ~(q = r /\ m = n)
    BY <1>1, <2>2, <2>4 DEF ClearsTheOthers
  <2> QED
    BY <2>3, <2>4
<1>13. SingleDefault'
  BY <1>9 DEF SingleDefault
<1>14. OneAttemptAnswered'
  <2> SUFFICES ASSUME NEW q \in Requests, proxied[q].method = "GET"
               PROVE  /\ \A m \in 1 .. attempts :
                            calls'[q][m].status = "5xx" => wanted[q].user \in profiles'
                      /\ proxied[q].status = "waiting" /\ proxied[q].lost < proxied[q].attempt - 1 =>
                            /\ proxied[q].lost = proxied[q].attempt - 2
                            /\ wanted[q].user \in profiles'
                            /\ calls'[q][proxied[q].attempt].step # "insert"
                            /\ calls'[q][proxied[q].attempt].status # "5xx"
    BY <1>1 DEF OneAttemptAnswered
  <2>1. CASE q # r
    <3>1. \A m \in 1 .. attempts : calls'[q][m] = calls[q][m]
      BY <1>1, <2>1
    <3>2. proxied[q].attempt > 0 => proxied[q].attempt \in 1 .. attempts
      BY ProxiedType
    <3>3. proxied[q].status = "waiting" => proxied[q].attempt > 0
      BY ProxiedType DEF RequestsInOrder
    <3> QED
      BY <3>1, <3>2, <3>3 DEF OneAttemptAnswered
  <2>2. CASE q = r
    <3>0. wanted[r].op = "get_profile"
      BY <1>2, <2>2
    <3>1. proxied[q].attempt \in 1 .. attempts
      BY <2>2, AttemptsType, ProxiedType
    <3>2. \A m \in 1 .. attempts : calls'[q][m] = IF m = n THEN call ELSE calls[q][m]
      BY <1>1, <2>2
    <3>3. \A m \in 1 .. attempts : calls'[q][m].status = "5xx" => wanted[q].user \in profiles'
      BY <2>2, <3>0, <3>2 DEF OneAttemptAnswered
    <3>4. ASSUME proxied[q].status = "waiting", proxied[q].lost < proxied[q].attempt - 1
          PROVE  /\ proxied[q].lost = proxied[q].attempt - 2
                 /\ wanted[q].user \in profiles'
                 /\ calls'[q][proxied[q].attempt].step # "insert"
                 /\ calls'[q][proxied[q].attempt].status # "5xx"
      <4>1. /\ proxied[q].lost = proxied[q].attempt - 2
            /\ wanted[q].user \in profiles
            /\ calls[q][proxied[q].attempt].step # "insert"
            /\ calls[q][proxied[q].attempt].status # "5xx"
        BY <3>4 DEF OneAttemptAnswered
      <4> QED
        BY <2>2, <3>0, <3>1, <3>2, <4>1
    <3> QED
      BY <3>3, <3>4
  <2> QED
    BY <2>1, <2>2
<1>15. RaceCostsOneAttempt'
  BY <1>1 DEF RaceCostsOneAttempt
<1> QED
  BY <1>3, <1>4, <1>5, <1>6, <1>7, <1>8, <1>11, <1>12, <1>13, <1>14, <1>15
\* The addresses that a user has as defaults are that user's addresses.
LEMMA DefaultsAreOwn ==
    ASSUME UserTypeOK, NEW u
    PROVE  \A i \in Defaults(u) : i \in 1 .. Len(addresses) /\ i \in Nat /\ addresses[i].user = u
BY ClockType DEF Defaults, DefaultsAmong, AddressesOf

\* A request that was sent asks for something its operation knows.
LEMMA WantedInOrder ==
    ASSUME UserInv, NEW r \in Requests, NEW n \in 1 .. attempts, n <= proxied[r].attempt
    PROVE  /\ wanted[r].op \notin {"create_address", "update_address"} =>
                 wanted[r].is_default = "unset"
           /\ wanted[r].address \in IF wanted[r].op \in {"update_address", "delete_address"}
                                    THEN 1 .. Len(addresses) ELSE {0}
           /\ wanted[r].op = "delete_address" => ~SetsDefault(r)
<1>1. wanted[r] # None
  BY AttemptIsWanted DEF UserInv
<1> QED
  BY <1>1 DEF UserInv, RequestsInOrder, SetsDefault

\* What a handler that has its profile does next.
LEMMA AfterProfileProceeds ==
    ASSUME UserInv, NEW r \in Requests, NEW n \in 1 .. attempts, NEW call \in Call,
           n <= proxied[r].attempt, wanted[r].op \notin {"update_address", "delete_address"},
           call.step = AfterProfile(wanted[r]), call.status = "2xx",
           call.loaded = {}, call.defaults = {}
    PROVE  Proceeds(r, n, call)
<1>1. call.step = IF wanted[r].op = "create_address"
                  THEN IF wanted[r].is_default = "true" THEN "list" ELSE "commit"
                  ELSE "reply"
  BY DEF AfterProfile
<1>2. wanted[r].op # "create_address" => ~SetsDefault(r)
  BY WantedInOrder DEF SetsDefault
<1> QED
  BY <1>1, <1>2 DEF Proceeds, SetsDefault

LEMMA BeginKeepsInv ==
    ASSUME UserInv, NEW r \in Requests, NEW n \in 1 .. attempts, begin(r, n)
    PROVE  UserInv'
<1> PICK c : c = calls[r][n]
  OBVIOUS
<1> PICK w : w = wanted[r]
  OBVIOUS
<1>1. /\ UserTypeOK /\ RequestsInOrder
      /\ n <= proxied[r].attempt /\ c.step = "begin" /\ NoteOverlap(r, n)
      /\ UNCHANGED <<profiles, addresses>>
  BY DEF UserInv, begin
<1>2. /\ w # None /\ w \in Wanted /\ w.op \in Ops /\ w.user \in Users /\ w.address \in Nat
  BY <1>1, AttemptIsWanted
<1>3. c \in Call /\ c.status = "none" /\ c.loaded = {} /\ c.defaults = {}
  BY <1>1, CallType DEF UserInv, CallsInOrder
<1>4. /\ overlapped \subseteq overlapped' /\ overlapped' \in SUBSET Users
      /\ SetsDefault(r) /\ w.user \notin overlapped' =>
            \A q \in Requests, m \in 1 .. attempts :
               IsOpen(q, m) /\ SetsDefault(q) /\ wanted[q].user = w.user => q = r /\ m = n
  BY <1>1, <1>2 DEF NoteOverlap, UserTypeOK
<1>5. ASSUME NEW call \in Call, Go(r, n, call), Proceeds(r, n, call),
             w.op = "get_profile" =>
                /\ call.status # "5xx"
                /\ w.user \in profiles => call.step # "insert"
      PROVE  UserInv'
  <2>1. profiles \subseteq profiles' /\ profiles' \in SUBSET Users
    BY <1>1 DEF UserTypeOK
  <2> QED
    BY <1>1, <1>4, <1>5, <2>1, CallStepKeepsInv
<1>6. CASE w.op \notin {"update_address", "delete_address"} /\ w.user \in profiles
  <2> DEFINE call == [c EXCEPT !.step = AfterProfile(w), !.status = "2xx"]
  <2>1. AfterProfile(w) \in {"list", "commit", "reply"}
    BY DEF AfterProfile
  <2>2. /\ call \in Call /\ call.step = AfterProfile(w) /\ call.status = "2xx"
        /\ call.loaded = {} /\ call.defaults = {}
    BY <1>3, <2>1 DEF Call
  <2>3. Go(r, n, call)
    BY <1>6 DEF begin
  <2> HIDE DEF call
  <2>4. Proceeds(r, n, call)
    BY <1>1, <1>6, <2>2, AfterProfileProceeds
  <2> QED
    BY <1>5, <2>1, <2>2, <2>3, <2>4
<1>7. CASE w.op \notin {"update_address", "delete_address"} /\ w.user \notin profiles
  <2> DEFINE call == [c EXCEPT !.step = "insert"]
  <2>1. /\ call \in Call /\ call.step = "insert" /\ call.status = "none"
        /\ call.loaded = {} /\ call.defaults = {}
    BY <1>3 DEF Call
  <2>2. Go(r, n, call)
    BY <1>7 DEF begin
  <2> HIDE DEF call
  <2>3. Proceeds(r, n, call)
    BY <1>7, <2>1 DEF Proceeds
  <2> QED
    BY <1>5, <1>7, <2>1, <2>2, <2>3
<1>8. CASE w.op \in {"update_address", "delete_address"} /\ w.address \notin AddressesOf(w.user)
  <2> DEFINE call == [c EXCEPT !.step = "reply", !.status = "4xx"]
  <2>1. call \in Call /\ call.step = "reply" /\ call.status = "4xx"
    BY <1>3 DEF Call
  <2>2. Go(r, n, call)
    BY <1>8 DEF begin, Reply
  <2> HIDE DEF call
  <2>3. Proceeds(r, n, call)
    BY <2>1 DEF Proceeds
  <2> QED
    BY <1>5, <1>8, <2>1, <2>2, <2>3
<1>9. CASE w.op \in {"update_address", "delete_address"} /\ w.address \in AddressesOf(w.user)
  <2> DEFINE step == IF SetsDefault(r) THEN "list" ELSE "commit"
             call == [c EXCEPT !.step = step, !.loaded = {w.address},
                               !.defaults = DefaultsAmong({w.address})]
  <2>0. /\ w.address \in 1 .. Len(addresses) /\ addresses[w.address].user = w.user
        /\ DefaultsAmong({w.address}) \subseteq {w.address}
    BY <1>9 DEF AddressesOf, DefaultsAmong
  <2>1. /\ call \in Call /\ call.step = step /\ call.status = "none"
        /\ call.loaded = {w.address} /\ call.defaults = DefaultsAmong({w.address})
    <3>1. DefaultsAmong({w.address}) \in SUBSET Nat /\ {w.address} \in SUBSET Nat
      BY <1>2, <2>0
    <3>2. step \in {"list", "commit"}
      OBVIOUS
    <3> HIDE DEF step
    <3> QED
      BY <1>3, <3>1, <3>2 DEF Call
  <2>2. Go(r, n, call)
    BY <1>9 DEF begin
  <2> HIDE DEF call
  <2>3. Proceeds(r, n, call)
    BY <1>9, <2>0, <2>1 DEF Proceeds
  <2> QED
    BY <1>5, <1>9, <2>1, <2>2, <2>3
<1> QED
  BY <1>6, <1>7, <1>8, <1>9

LEMMA InsertKeepsInv ==
    ASSUME UserInv, NEW r \in Requests, NEW n \in 1 .. attempts, insert_profile(r, n)
    PROVE  UserInv'
<1> PICK c : c = calls[r][n]
  OBVIOUS
<1> PICK w : w = wanted[r]
  OBVIOUS
<1>1. /\ UserTypeOK /\ RequestsInOrder
      /\ c.step = "insert" /\ UNCHANGED <<addresses, overlapped>>
      /\ profiles' = profiles \cup {w.user}
  BY DEF UserInv, insert_profile
<1>2. /\ n <= proxied[r].attempt
      /\ c \in Call /\ c.loaded = {} /\ c.defaults = {}
      /\ w.op \notin {"update_address", "delete_address"}
  BY <1>1, CallType DEF UserInv, CallsInOrder
<1>3. w.user \in Users
  BY <1>1, <1>2, AttemptIsWanted
<1>4. ASSUME NEW call \in Call, Go(r, n, call), Proceeds(r, n, call)
      PROVE  UserInv'
  <2>1. profiles \subseteq profiles' /\ profiles' \in SUBSET Users
    BY <1>1, <1>3 DEF UserTypeOK
  <2>2. overlapped \subseteq overlapped' /\ overlapped' \in SUBSET Users
    BY <1>1 DEF UserTypeOK
  <2>3. SetsDefault(r) /\ w.user \notin overlapped' =>
            \A q \in Requests, m \in 1 .. attempts :
               IsOpen(q, m) /\ SetsDefault(q) /\ wanted[q].user = w.user => q = r /\ m = n
    <3>1. IsOpen(r, n)
      BY <1>1 DEF IsOpen
    <3> QED
      BY <1>1, <3>1 DEF UserInv, OneOpenSetter
  <2> QED
    BY <1>1, <1>2, <1>4, <2>1, <2>2, <2>3, CallStepKeepsInv
<1>5. CASE w.user \in profiles
  <2> DEFINE call == [c EXCEPT !.step = "reply", !.status = "5xx"]
  <2>1. call \in Call /\ call.step = "reply" /\ call.status = "5xx"
    BY <1>2 DEF Call
  <2>2. Go(r, n, call)
    BY <1>5 DEF insert_profile, Reply
  <2> HIDE DEF call
  <2>3. Proceeds(r, n, call)
    BY <2>1 DEF Proceeds
  <2> QED
    BY <1>4, <2>1, <2>2, <2>3
<1>6. CASE w.user \notin profiles
  <2> DEFINE call == [c EXCEPT !.step = AfterProfile(w), !.status = "2xx"]
  <2>1. AfterProfile(w) \in {"list", "commit", "reply"}
    BY DEF AfterProfile
  <2>2. /\ call \in Call /\ call.step = AfterProfile(w) /\ call.status = "2xx"
        /\ call.loaded = {} /\ call.defaults = {}
    BY <1>2, <2>1 DEF Call
  <2>3. Go(r, n, call)
    BY <1>6 DEF insert_profile
  <2> HIDE DEF call
  <2>4. Proceeds(r, n, call)
    BY <1>2, <2>2, AfterProfileProceeds
  <2> QED
    BY <1>4, <2>2, <2>3, <2>4
<1> QED
  BY <1>5, <1>6

LEMMA ListKeepsInv ==
    ASSUME UserInv, NEW r \in Requests, NEW n \in 1 .. attempts, list_to_clear(r, n)
    PROVE  UserInv'
<1> PICK c : c = calls[r][n]
  OBVIOUS
<1> PICK w : w = wanted[r]
  OBVIOUS
<1> DEFINE rows == AddressesOf(w.user)
           call == [c EXCEPT !.step = "commit", !.loaded = @ \cup rows,
                             !.defaults = @ \cup DefaultsAmong(rows \ c.loaded)]
<1>1. /\ UserTypeOK /\ RequestsInOrder
      /\ c.step = "list" /\ UNCHANGED <<profiles, addresses, overlapped>>
      /\ Go(r, n, call)
  BY DEF UserInv, list_to_clear
<1>2. /\ n <= proxied[r].attempt
      /\ c \in Call /\ c.loaded \subseteq {w.address} /\ SetsDefault(r)
      /\ w.op \in {"create_address", "update_address", "delete_address"}
      /\ w.op # "create_address" => addresses[w.address].user = w.user
      /\ \A i \in c.defaults : i \in 1 .. Len(addresses) /\ addresses[i].user = w.user
  BY <1>1, CallType DEF UserInv, CallsInOrder
<1>3. /\ DefaultsAmong(rows \ c.loaded) \subseteq Defaults(w.user)
      /\ Defaults(w.user) \subseteq DefaultsAmong(rows \ c.loaded) \cup {w.address}
  BY <1>2 DEF Defaults, DefaultsAmong
<1>4. rows \in SUBSET Nat
  BY <1>1, ClockType DEF AddressesOf
<1>5. /\ call \in Call /\ call.step = "commit" /\ call.status = c.status
      /\ call.defaults = c.defaults \cup DefaultsAmong(rows \ c.loaded)
  <2>1. c.defaults \in SUBSET Nat /\ c.loaded \in SUBSET Nat
    BY <1>2 DEF Call
  <2>2. DefaultsAmong(rows \ c.loaded) \in SUBSET Nat
    BY <1>4 DEF DefaultsAmong
  <2> HIDE DEF rows
  <2> QED
    BY <1>2, <1>4, <2>1, <2>2 DEF Call
<1> HIDE DEF call, rows
<1>6. Proceeds(r, n, call)
  <2>1. \A i \in call.defaults : i \in 1 .. Len(addresses) /\ addresses[i].user = w.user
    BY <1>1, <1>2, <1>3, <1>5, DefaultsAreOwn
  <2> QED
    BY <1>2, <1>3, <1>5, <2>1 DEF Proceeds
<1>7. SetsDefault(r) /\ w.user \notin overlapped' =>
          \A q \in Requests, m \in 1 .. attempts :
             IsOpen(q, m) /\ SetsDefault(q) /\ wanted[q].user = w.user => q = r /\ m = n
  <2>1. IsOpen(r, n)
    BY <1>1 DEF IsOpen
  <2> QED
    BY <1>1, <2>1 DEF UserInv, OneOpenSetter
<1>8. /\ profiles \subseteq profiles' /\ profiles' \in SUBSET Users
      /\ overlapped \subseteq overlapped' /\ overlapped' \in SUBSET Users
  BY <1>1 DEF UserTypeOK
<1> QED
  BY <1>1, <1>2, <1>5, <1>6, <1>7, <1>8, CallStepKeepsInv

-----------------------------------------------------------------------------
(* The commits of a handler.                                               *)

LEMMA CommitKeepsInv ==
    ASSUME UserInv, NEW r \in Requests, NEW n \in 1 .. attempts,
           NEW status \in {"2xx", "5xx"}, Reply(r, n, status),
           calls[r][n].step = "commit", UNCHANGED <<profiles, overlapped>>,
           addresses' \in Seq(Address), Len(addresses') >= Len(addresses),
           \A i \in 1 .. Len(addresses) : /\ addresses'[i].user = addresses[i].user
                                          /\ addresses'[i].request = addresses[i].request,
           \A i \in 1 .. Len(addresses') : i > Len(addresses) =>
              addresses'[i].request = r /\ wanted[r].op = "create_address",
           CreatedOnce',
           \A u : ~(SetsDefault(r) /\ u = wanted[r].user) => Defaults(u)' \subseteq Defaults(u),
           SetsDefault(r) /\ wanted[r].user \notin overlapped =>
              \A u : u = wanted[r].user => \A i, j \in Defaults(u)' : i = j
    PROVE  UserInv'
<1> USE DEF UserInv
<1> PICK call : call = [calls[r][n] EXCEPT !.step = "reply", !.status = status]
  OBVIOUS
<1>1. /\ call \in Call /\ call.step = "reply" /\ call.status = status
      /\ call.loaded = calls[r][n].loaded /\ call.defaults = calls[r][n].defaults
  BY CallType DEF Call
<1>2. /\ calls' \in [Requests -> [1 .. attempts -> Call]]
      /\ \A q \in Requests, m \in 1 .. attempts :
            calls'[q][m] = IF q = r /\ m = n THEN call ELSE calls[q][m]
      /\ UNCHANGED <<now, bucket, proxied, faults, wanted>>
  <2>1. Go(r, n, call)
    BY DEF Reply
  <2> QED
    BY <1>1, <2>1, GoCalls DEF gatewayVars
<1>3. /\ n <= proxied[r].attempt
      /\ wanted[r].op \in {"create_address", "update_address", "delete_address"}
  BY DEF CallsInOrder
<1>4. n = 1 /\ proxied[r].method # "GET" /\ wanted[r] # None
  BY <1>3, AttemptIsWanted
<1>5. Len(addresses) \in Nat /\ Len(addresses') \in Nat
  BY ClockType, LenProperties
<1>6. UserTypeOK'
  BY <1>2 DEF UserTypeOK, GatewayTypeOK
<1>7. RequestsInOrder'
  BY <1>2, <1>5, WantedType DEF RequestsInOrder
<1>8. CallsInOrder'
  <2> SUFFICES ASSUME NEW q \in Requests, NEW m \in 1 .. attempts
               PROVE  LET c == calls'[q][m]
                          w == wanted[q]
                      IN  /\ c.step = "begin" => c.status = "none"
                          /\ c.step = "reply" => c.status # "none"
                          /\ c.step # "begin" => m <= proxied[q].attempt
                          /\ c.step = "insert" => w.op \notin {"update_address", "delete_address"}
                          /\ c.step \in {"list", "commit"} =>
                                w.op \in {"create_address", "update_address", "delete_address"}
                          /\ c.step \in {"begin", "insert"} => c.loaded = {} /\ c.defaults = {}
                          /\ c.step = "list" => SetsDefault(q) /\ c.loaded \subseteq {w.address}
                          /\ c.step \in {"list", "commit"} /\ w.op # "create_address" =>
                                addresses'[w.address].user = w.user
                          /\ c.step \in {"list", "commit"} =>
                                \A i \in c.defaults : i \in 1 .. Len(addresses') /\ addresses'[i].user = w.user
    BY <1>2 DEF CallsInOrder, SetsDefault
  <2>1. CASE q = r /\ m = n
    <3>1. calls'[q][m] = call
      BY <1>2, <2>1
    <3> QED
      BY <1>1, <1>3, <2>1, <3>1
  <2>2. CASE ~(q = r /\ m = n)
    <3>1. calls'[q][m] = calls[q][m]
      BY <1>2, <2>2
    <3>2. ASSUME calls[q][m].step \in {"list", "commit"}, wanted[q].op # "create_address"
          PROVE  addresses'[wanted[q].address].user = wanted[q].user
      <4>1. wanted[q].address \in 1 .. Len(addresses)
        BY <3>2, WantedInOrder DEF CallsInOrder
      <4> QED
        BY <3>2, <4>1 DEF CallsInOrder
    <3>3. ASSUME calls[q][m].step \in {"list", "commit"}, NEW i \in calls[q][m].defaults
          PROVE  i \in 1 .. Len(addresses') /\ addresses'[i].user = wanted[q].user
      BY <1>5, <3>3 DEF CallsInOrder
    <3> QED
      BY <3>1, <3>2, <3>3 DEF CallsInOrder
  <2> QED
    BY <2>1, <2>2
<1>9. Remembered' /\ AdmittedWithinLimit'
  <2>1. now \in Nat
    BY ClockType
  <2> QED
    BY <1>2, <2>1, OthersKeepLimit
<1>10. MadeByPastCalls'
  <2> SUFFICES ASSUME NEW i \in 1 .. Len(addresses')
               PROVE  LET q == addresses'[i].request
                      IN  /\ wanted[q] # None
                          /\ wanted[q].op = "create_address"
                          /\ calls'[q][1].step \in {"reply", "done"}
    BY <1>2 DEF MadeByPastCalls
  <2>1. CASE i \in 1 .. Len(addresses)
    <3>1. addresses'[i].request = addresses[i].request /\ addresses[i].request \in Requests
      BY <2>1, AddressType
    <3> QED
      BY <1>1, <1>2, <1>4, <2>1, <3>1 DEF MadeByPastCalls
  <2>2. CASE i > Len(addresses)
    BY <1>1, <1>2, <1>4, <2>2
  <2> QED
    BY <1>5, <2>1, <2>2
<1>11. \A q \in Requests, m \in 1 .. attempts :
          IsOpen(q, m)' => IsOpen(q, m) /\ ~(q = r /\ m = n)
  BY <1>1, <1>2 DEF IsOpen
<1>12. OneOpenSetter'
  BY <1>2, <1>11 DEF OneOpenSetter, SetsDefault
<1>13. IsOpen(r, n)
  BY DEF IsOpen
<1>14. ClearsTheOthers'
  <2> SUFFICES ASSUME NEW q \in Requests, NEW m \in 1 .. attempts,
                      calls'[q][m].step = "commit", SetsDefault(q),
                      NEW u, u = wanted[q].user, u \notin overlapped
               PROVE  Defaults(u)' \subseteq calls'[q][m].defaults \cup {wanted[q].address}
    BY <1>2 DEF ClearsTheOthers, SetsDefault
  <2>1. ~(q = r /\ m = n) /\ calls'[q][m] = calls[q][m]
    BY <1>1, <1>2
  <2>2. ~(SetsDefault(r) /\ u = wanted[r].user)
    <3>1. IsOpen(q, m)
      BY <2>1 DEF IsOpen
    <3> QED
      BY <1>13, <2>1, <3>1 DEF OneOpenSetter
  <2> QED
    BY <2>1, <2>2 DEF ClearsTheOthers
<1>15. SingleDefault'
  <2> SUFFICES ASSUME NEW u \in Users \ overlapped, NEW i \in Defaults(u)', NEW j \in Defaults(u)'
               PROVE  i = j
    BY DEF SingleDefault
  <2>1. CASE SetsDefault(r) /\ u = wanted[r].user
    BY <2>1
  <2>2. CASE ~(SetsDefault(r) /\ u = wanted[r].user)
    BY <2>2 DEF SingleDefault
  <2> QED
    BY <2>1, <2>2
<1>16. OneAttemptAnswered'
  <2> SUFFICES ASSUME NEW q \in Requests, proxied[q].method = "GET"
               PROVE  /\ \A m \in 1 .. attempts :
                            calls'[q][m].status = "5xx" => wanted[q].user \in profiles
                      /\ proxied[q].status = "waiting" /\ proxied[q].lost < proxied[q].attempt - 1 =>
                            /\ proxied[q].lost = proxied[q].attempt - 2
                            /\ wanted[q].user \in profiles
                            /\ calls'[q][proxied[q].attempt].step # "insert"
                            /\ calls'[q][proxied[q].attempt].status # "5xx"
    BY <1>2 DEF OneAttemptAnswered
  <2>1. q # r
    BY <1>4
  <2>2. \A m \in 1 .. attempts : calls'[q][m] = calls[q][m]
    BY <1>2, <2>1
  <2>3. proxied[q].attempt > 0 => proxied[q].attempt \in 1 .. attempts
    BY ProxiedType
  <2>4. proxied[q].status = "waiting" => proxied[q].attempt > 0
    BY ProxiedType DEF RequestsInOrder
  <2> QED
    BY <2>2, <2>3, <2>4 DEF OneAttemptAnswered
<1>17. RaceCostsOneAttempt'
  BY <1>2 DEF RaceCostsOneAttempt
<1> QED
  BY <1>6, <1>7, <1>8, <1>9, <1>10, <1>12, <1>14, <1>15, <1>16, <1>17

\* One element of a sequence replaced.
LEMMA Replaced ==
    ASSUME NEW S, NEW seq \in Seq(S), NEW i \in 1 .. Len(seq), NEW e \in S,
           NEW new, new = [seq EXCEPT ![i] = e]
    PROVE  /\ new \in Seq(S)
           /\ Len(new) = Len(seq)
           /\ new[i] = e
           /\ \A j \in 1 .. Len(seq) : j # i => new[j] = seq[j]
BY ExceptSeq

\* Clearing the default of some addresses changes nothing else.
LEMMA WithoutDefaultsProperties ==
    ASSUME UserTypeOK, NEW ids
    PROVE  /\ WithoutDefaults(ids) \in Seq(Address)
           /\ Len(WithoutDefaults(ids)) = Len(addresses)
           /\ \A i \in 1 .. Len(addresses) :
                 LET row == WithoutDefaults(ids)[i]
                 IN  /\ row \in Address
                     /\ row.user = addresses[i].user
                     /\ row.request = addresses[i].request
                     /\ row.deleted = addresses[i].deleted
                     /\ row.is_default <=> i \notin ids /\ addresses[i].is_default
<1>1. \A i \in 1 .. Len(addresses) :
         [addresses[i] EXCEPT !.is_default = FALSE] \in Address
  BY AddressType DEF Address
<1>2. \A i \in 1 .. Len(addresses) : WithoutDefaults(ids)[i] \in Address
  BY <1>1, AddressType DEF WithoutDefaults
<1>3. /\ WithoutDefaults(ids) \in Seq(Address)
      /\ Len(WithoutDefaults(ids)) = Len(addresses)
  <2>1. Len(addresses) \in Nat
    BY ClockType
  <2>2. WithoutDefaults(ids) \in [1 .. Len(addresses) -> Address]
    BY <1>2 DEF WithoutDefaults
  <2> QED
    BY <2>1, <2>2, IsASeq, LenProperties
<1>4. ASSUME NEW i \in 1 .. Len(addresses)
      PROVE  LET row == WithoutDefaults(ids)[i]
             IN  /\ row.user = addresses[i].user
                 /\ row.request = addresses[i].request
                 /\ row.deleted = addresses[i].deleted
                 /\ row.is_default <=> i \notin ids /\ addresses[i].is_default
  <2>1. WithoutDefaults(ids)[i] = IF i \in ids THEN [addresses[i] EXCEPT !.is_default = FALSE]
                                  ELSE addresses[i]
    BY DEF WithoutDefaults
  <2>2. addresses[i] \in Address
    BY AddressType
  <2> QED
    BY <2>1, <2>2 DEF Address
<1> QED
  BY <1>2, <1>3, <1>4

\* A handler that is about to commit, and what it clears.
LEMMA BeforeCommit ==
    ASSUME UserInv, NEW r \in Requests, NEW n \in 1 .. attempts, calls[r][n].step = "commit"
    PROVE  /\ n = 1 /\ n <= proxied[r].attempt
           /\ wanted[r] \in Wanted
           /\ wanted[r].user \in Users
           /\ wanted[r].address \in Nat
           /\ wanted[r].op = "create_address" => wanted[r].address = 0
           /\ wanted[r].op # "create_address" =>
                 wanted[r].address \in 1 .. Len(addresses) /\ addresses[wanted[r].address].user = wanted[r].user
           /\ ~SetsDefault(r) => Cleared(r, n) = {}
           /\ SetsDefault(r) /\ wanted[r].user \notin overlapped =>
                 \A i \in Defaults(wanted[r].user) : i # wanted[r].address => i \in Cleared(r, n)
           /\ \A i \in 1 .. Len(addresses) : addresses[i].request # r
<1>1. /\ n <= proxied[r].attempt /\ UserTypeOK /\ RequestsInOrder
      /\ wanted[r].op \in {"create_address", "update_address", "delete_address"}
      /\ wanted[r].op # "create_address" => addresses[wanted[r].address].user = wanted[r].user
  BY DEF UserInv, CallsInOrder
<1>2. /\ n = 1 /\ wanted[r] \in Wanted /\ wanted[r].user \in Users /\ wanted[r].address \in Nat
  BY <1>1, AttemptIsWanted
<1>3. wanted[r].address \in IF wanted[r].op \in {"update_address", "delete_address"}
                            THEN 1 .. Len(addresses) ELSE {0}
  BY <1>1, WantedInOrder
<1>4. /\ ~SetsDefault(r) => Cleared(r, n) = {}
      /\ SetsDefault(r) /\ wanted[r].user \notin overlapped =>
            \A i \in Defaults(wanted[r].user) : i # wanted[r].address => i \in Cleared(r, n)
  BY DEF UserInv, ClearsTheOthers, Cleared
<1>5. \A i \in 1 .. Len(addresses) : addresses[i].request # r
  BY <1>2 DEF UserInv, MadeByPastCalls
<1> QED
  BY <1>1, <1>2, <1>3, <1>4, <1>5

\* A commit whose flush fails leaves every address as it was.
LEMMA FailedCommitKeepsInv ==
    ASSUME UserInv, NEW r \in Requests, NEW n \in 1 .. attempts, calls[r][n].step = "commit",
           Reply(r, n, "5xx"), UNCHANGED <<profiles, overlapped, addresses>>
    PROVE  UserInv'
<1>1. addresses' \in Seq(Address) /\ Len(addresses) \in Nat
  BY ClockType DEF UserInv, UserTypeOK
<1>2. \A u : Defaults(u)' = Defaults(u)
  BY DEF Defaults, DefaultsAmong, AddressesOf
<1>3. SetsDefault(r) /\ wanted[r].user \notin overlapped =>
         \A u : u = wanted[r].user => \A i, j \in Defaults(u)' : i = j
  BY <1>2, BeforeCommit DEF UserInv, SingleDefault
<1>4. CreatedOnce'
  BY DEF UserInv, CreatedOnce
<1> QED
  BY <1>1, <1>2, <1>3, <1>4, CommitKeepsInv

LEMMA CommitCreateKeepsInv ==
    ASSUME UserInv, NEW r \in Requests, NEW n \in 1 .. attempts, commit_create(r, n)
    PROVE  UserInv'
<1> PICK w : w = wanted[r]
  OBVIOUS
<1>1. /\ UserTypeOK /\ calls[r][n].step = "commit" /\ w.op = "create_address"
      /\ UNCHANGED <<profiles, overlapped>>
  BY DEF UserInv, commit_create
<1>2. CASE Gone(Cleared(r, n))
  <2>1. Reply(r, n, "5xx") /\ UNCHANGED addresses
    BY <1>2 DEF commit_create
  <2> QED
    BY <1>1, <2>1, FailedCommitKeepsInv
<1>3. CASE ~Gone(Cleared(r, n))
  <2> PICK kept : kept = WithoutDefaults(Cleared(r, n))
    OBVIOUS
  <2> PICK row : row = [user |-> w.user, request |-> r,
                        is_default |-> SetsDefault(r), deleted |-> FALSE]
    OBVIOUS
  <2>1. addresses' = Append(kept, row) /\ Reply(r, n, "2xx")
    BY <1>3 DEF commit_create
  <2>2. /\ w.user \in Users /\ w.address = 0
        /\ ~SetsDefault(r) => Cleared(r, n) = {}
        /\ SetsDefault(r) /\ w.user \notin overlapped =>
              \A i \in Defaults(w.user) : i # w.address => i \in Cleared(r, n)
        /\ \A i \in 1 .. Len(addresses) : addresses[i].request # r
    BY <1>1, BeforeCommit
  <2>3. row \in Address /\ row.user = w.user /\ row.request = r /\ (row.is_default <=> SetsDefault(r))
    BY <2>2 DEF Address, SetsDefault
  <2>4. PICK len \in Nat : len = Len(addresses)
    BY <1>1, ClockType
  <2>5. /\ kept \in Seq(Address) /\ Len(kept) = len
        /\ \A i \in 1 .. len : /\ kept[i].user = addresses[i].user
                               /\ kept[i].request = addresses[i].request
                               /\ kept[i].deleted = addresses[i].deleted
                               /\ kept[i].is_default <=> i \notin Cleared(r, n) /\ addresses[i].is_default
    BY <1>1, <2>4, WithoutDefaultsProperties
  <2>6. /\ addresses' \in Seq(Address) /\ Len(addresses') = len + 1
        /\ \A i \in 1 .. len : addresses'[i] = kept[i]
        /\ addresses'[len + 1] = row
    BY <2>1, <2>3, <2>4, <2>5, AppendProperties
  <2>7. \A i \in 1 .. Len(addresses) : /\ addresses'[i].user = addresses[i].user
                                       /\ addresses'[i].request = addresses[i].request
    BY <2>4, <2>5, <2>6
  <2>8. \A i \in 1 .. Len(addresses') : i > Len(addresses) =>
           addresses'[i].request = r /\ wanted[r].op = "create_address"
    <3>1. \A i \in 1 .. Len(addresses') : i > Len(addresses) => i = len + 1
      BY <2>4, <2>6
    <3> QED
      BY <1>1, <2>3, <2>6, <3>1
  <2>9. CreatedOnce'
    <3>1. \A i \in 1 .. len + 1 : i \in 1 .. len \/ i = len + 1
      BY <2>4
    <3>2. \A i \in 1 .. len : addresses'[i].request = addresses[i].request /\ addresses[i].request # r
      BY <2>2, <2>4, <2>7
    <3>3. addresses'[len + 1].request = r
      BY <2>3, <2>6
    <3>4. \A i, j \in 1 .. len : addresses[i].request = addresses[j].request => i = j
      BY <2>4 DEF UserInv, CreatedOnce
    <3>5. \A i, j \in 1 .. Len(addresses') : addresses'[i].request = addresses'[j].request => i = j
      BY <2>6, <3>1, <3>2, <3>3, <3>4
    <3> QED
      BY <3>5 DEF CreatedOnce
  <2>10. ASSUME NEW u, NEW i \in Defaults(u)', i \in 1 .. len
         PROVE  i \in Defaults(u) /\ i \notin Cleared(r, n)
    <3>1. addresses'[i] = kept[i] /\ kept[i].user = u /\ ~kept[i].deleted /\ kept[i].is_default
      BY <2>6, <2>10 DEF Defaults, DefaultsAmong, AddressesOf
    <3> QED
      BY <2>4, <2>5, <2>10, <3>1 DEF Defaults, DefaultsAmong, AddressesOf
  <2>11. ASSUME NEW u, NEW i \in Defaults(u)'
         PROVE  i \in 1 .. len \/ (i = len + 1 /\ u = w.user /\ SetsDefault(r))
    <3>1. i \in 1 .. len + 1 /\ addresses'[i].user = u /\ addresses'[i].is_default
      BY <2>6 DEF Defaults, DefaultsAmong, AddressesOf
    <3> QED
      BY <2>3, <2>4, <2>6, <3>1
  <2>12. \A u : ~(SetsDefault(r) /\ u = wanted[r].user) => Defaults(u)' \subseteq Defaults(u)
    BY <2>10, <2>11
  <2>13. SetsDefault(r) /\ wanted[r].user \notin overlapped =>
            \A u : u = wanted[r].user => \A i, j \in Defaults(u)' : i = j
    <3> SUFFICES ASSUME SetsDefault(r), w.user \notin overlapped, NEW u, u = w.user,
                        NEW i \in Defaults(u)'
                 PROVE  i = len + 1
      OBVIOUS
    <3>1. SUFFICES ASSUME i \in 1 .. len PROVE FALSE
      BY <2>11
    <3> QED
      BY <2>2, <2>4, <2>10, <3>1
  <2>14. Len(addresses') >= Len(addresses)
    BY <2>4, <2>6
  <2> QED
    BY <1>1, <2>1, <2>6, <2>7, <2>8, <2>9, <2>12, <2>13, <2>14, CommitKeepsInv
<1> QED
  BY <1>2, <1>3

LEMMA CommitUpdateKeepsInv ==
    ASSUME UserInv, NEW r \in Requests, NEW n \in 1 .. attempts, commit_update(r, n)
    PROVE  UserInv'
<1> PICK w : w = wanted[r]
  OBVIOUS
<1> PICK a : a = w.address
  OBVIOUS
<1>1. /\ UserTypeOK /\ calls[r][n].step = "commit" /\ w.op = "update_address"
      /\ UNCHANGED <<profiles, overlapped>>
  BY DEF UserInv, commit_update
<1>2. CASE Gone(Cleared(r, n) \cup {a})
  <2>1. Reply(r, n, "5xx") /\ UNCHANGED addresses
    BY <1>2 DEF commit_update
  <2> QED
    BY <1>1, <2>1, FailedCommitKeepsInv
<1>3. CASE ~Gone(Cleared(r, n) \cup {a})
  <2> PICK kept : kept = WithoutDefaults(Cleared(r, n))
    OBVIOUS
  <2> PICK column : column = UpdateChangedColumns(r, n)
    OBVIOUS
  <2>1. addresses' = [kept EXCEPT ![a].is_default = column] /\ Reply(r, n, "2xx")
    BY <1>3 DEF commit_update
  <2>2. /\ w.user \in Users /\ a \in 1 .. Len(addresses) /\ addresses[a].user = w.user
        /\ ~SetsDefault(r) => Cleared(r, n) = {}
        /\ SetsDefault(r) /\ w.user \notin overlapped =>
              \A i \in Defaults(w.user) : i # a => i \in Cleared(r, n)
    BY <1>1, BeforeCommit
  <2>3. PICK len \in Nat : len = Len(addresses)
    BY <1>1, ClockType
  <2>4. column \in BOOLEAN /\ (~SetsDefault(r) /\ column => addresses[a].is_default)
    <3>1. addresses[a].is_default \in BOOLEAN /\ SetsDefault(r) \in BOOLEAN
      BY <1>1, <2>2, AddressType DEF SetsDefault
    <3>2. CASE wanted[r].is_default = "unset" \/ (SetsDefault(r) = (a \in calls[r][n].defaults))
      <4>1. column = addresses[a].is_default
        BY <3>2 DEF UpdateChangedColumns
      <4> QED
        BY <3>1, <4>1
    <3>3. CASE ~(wanted[r].is_default = "unset" \/ (SetsDefault(r) = (a \in calls[r][n].defaults)))
      <4>1. column = SetsDefault(r)
        BY <3>3 DEF UpdateChangedColumns
      <4> QED
        BY <3>1, <4>1
    <3> QED
      BY <3>2, <3>3
  <2>5. /\ kept \in Seq(Address) /\ Len(kept) = len
        /\ \A i \in 1 .. len : /\ kept[i] \in Address
                               /\ kept[i].user = addresses[i].user
                               /\ kept[i].request = addresses[i].request
                               /\ kept[i].deleted = addresses[i].deleted
                               /\ kept[i].is_default <=> i \notin Cleared(r, n) /\ addresses[i].is_default
    BY <1>1, <2>3, WithoutDefaultsProperties
  <2> PICK row : row = [kept[a] EXCEPT !.is_default = column]
    OBVIOUS
  <2>6. /\ row \in Address /\ row.user = addresses[a].user /\ row.request = addresses[a].request
        /\ row.deleted = addresses[a].deleted /\ (row.is_default <=> column)
    <3>1. kept[a] \in Address
      BY <2>2, <2>3, <2>5
    <3> QED
      BY <2>2, <2>3, <2>4, <2>5, <3>1 DEF Address
  <2>7. /\ addresses' \in Seq(Address) /\ Len(addresses') = len
        /\ addresses'[a] = row
        /\ \A i \in 1 .. len : i # a => addresses'[i] = kept[i]
    <3>1. addresses' = [kept EXCEPT ![a] = row]
      BY <2>1
    <3> QED
      BY <2>2, <2>3, <2>5, <2>6, <3>1, Replaced
  <2>8. ASSUME NEW i \in 1 .. Len(addresses)
        PROVE  /\ addresses'[i].user = addresses[i].user
               /\ addresses'[i].request = addresses[i].request
    <3>1. CASE i = a
      BY <2>6, <2>7, <3>1
    <3>2. CASE i # a
      BY <2>3, <2>5, <2>7, <3>2
    <3> QED
      BY <3>1, <3>2
  <2>9. CreatedOnce'
    BY <2>3, <2>7, <2>8 DEF UserInv, CreatedOnce
  <2>10. ASSUME NEW u, NEW i \in Defaults(u)', i # a
         PROVE  i \in Defaults(u) /\ i \notin Cleared(r, n)
    <3>1. i \in 1 .. len /\ addresses'[i].user = u /\ ~addresses'[i].deleted /\ addresses'[i].is_default
      BY <2>7 DEF Defaults, DefaultsAmong, AddressesOf
    <3> QED
      BY <2>3, <2>5, <2>7, <2>10, <3>1 DEF Defaults, DefaultsAmong, AddressesOf
  <2>11. ASSUME NEW u, a \in Defaults(u)'
         PROVE  u = w.user /\ (~SetsDefault(r) => a \in Defaults(u))
    <3>1. row.user = u /\ ~row.deleted /\ row.is_default
      BY <2>7, <2>11 DEF Defaults, DefaultsAmong, AddressesOf
    <3> QED
      BY <2>2, <2>3, <2>4, <2>6, <3>1 DEF Defaults, DefaultsAmong, AddressesOf
  <2>12. \A u : ~(SetsDefault(r) /\ u = wanted[r].user) => Defaults(u)' \subseteq Defaults(u)
    BY <2>10, <2>11
  <2>13. SetsDefault(r) /\ wanted[r].user \notin overlapped =>
            \A u : u = wanted[r].user => \A i, j \in Defaults(u)' : i = j
    BY <2>2, <2>10
  <2>14. \A i \in 1 .. Len(addresses') : i > Len(addresses) =>
            addresses'[i].request = r /\ wanted[r].op = "create_address"
    BY <2>3, <2>7
  <2> QED
    BY <1>1, <2>1, <2>3, <2>7, <2>8, <2>9, <2>12, <2>13, <2>14, CommitKeepsInv
<1> QED
  BY <1>2, <1>3

LEMMA CommitDeleteKeepsInv ==
    ASSUME UserInv, NEW r \in Requests, NEW n \in 1 .. attempts, commit_delete(r, n)
    PROVE  UserInv'
<1> PICK a : a = wanted[r].address
  OBVIOUS
<1>1. /\ UserTypeOK /\ calls[r][n].step = "commit" /\ wanted[r].op = "delete_address"
      /\ UNCHANGED <<profiles, overlapped>>
      /\ addresses' = [addresses EXCEPT ![a].deleted = TRUE]
      /\ Reply(r, n, "2xx")
  BY DEF UserInv, commit_delete
<1>2. a \in 1 .. Len(addresses) /\ n <= proxied[r].attempt
  BY <1>1, BeforeCommit
<1>3. ~SetsDefault(r)
  BY <1>1, <1>2, WantedInOrder
<1>4. PICK len \in Nat : len = Len(addresses)
  BY <1>1, ClockType
<1>5. PICK row \in Address : /\ row = [addresses[a] EXCEPT !.deleted = TRUE]
                             /\ row.deleted = TRUE
                             /\ row.user = addresses[a].user
                             /\ row.request = addresses[a].request
  <2>1. addresses[a] \in Address
    BY <1>1, <1>2, AddressType
  <2>2. /\ [addresses[a] EXCEPT !.deleted = TRUE] \in Address
        /\ [addresses[a] EXCEPT !.deleted = TRUE].deleted = TRUE
        /\ [addresses[a] EXCEPT !.deleted = TRUE].user = addresses[a].user
        /\ [addresses[a] EXCEPT !.deleted = TRUE].request = addresses[a].request
    BY <2>1 DEF Address
  <2> QED
    BY <2>2
<1>6. /\ addresses' \in Seq(Address) /\ Len(addresses') = len
      /\ addresses'[a] = row
      /\ \A i \in 1 .. len : i # a => addresses'[i] = addresses[i]
  <2>1. addresses \in Seq(Address)
    BY <1>1 DEF UserTypeOK
  <2>2. addresses' = [addresses EXCEPT ![a] = row]
    BY <1>1, <1>5
  <2> QED
    BY <1>2, <1>4, <2>1, <2>2, Replaced
<1>7. \A i \in 1 .. Len(addresses) : /\ addresses'[i].user = addresses[i].user
                                     /\ addresses'[i].request = addresses[i].request
  BY <1>4, <1>5, <1>6
<1>8. CreatedOnce'
  BY <1>4, <1>6, <1>7 DEF UserInv, CreatedOnce
<1>9. \A u : Defaults(u)' \subseteq Defaults(u)
  <2> SUFFICES ASSUME NEW u, NEW i \in Defaults(u)' PROVE i \in Defaults(u)
    OBVIOUS
  <2>1. i \in 1 .. len /\ addresses'[i].user = u /\ ~addresses'[i].deleted /\ addresses'[i].is_default
    BY <1>6 DEF Defaults, DefaultsAmong, AddressesOf
  <2>2. i # a
    BY <1>5, <1>6, <2>1
  <2> QED
    BY <1>4, <1>6, <2>1, <2>2 DEF Defaults, DefaultsAmong, AddressesOf
<1>10. \A i \in 1 .. Len(addresses') : i > Len(addresses) =>
          addresses'[i].request = r /\ wanted[r].op = "create_address"
  BY <1>4, <1>6
<1>11. Len(addresses') >= Len(addresses)
  BY <1>4, <1>6
<1> QED
  BY <1>1, <1>3, <1>6, <1>7, <1>8, <1>9, <1>10, <1>11, CommitKeepsInv

-----------------------------------------------------------------------------
(* The steps of the gateway.                                               *)

\* The gateway lets the attempts of its requests go on, and handlers end: what
\* is left to show is how many attempts were lost.
LEMMA AttemptsKeepInv ==
    ASSUME UserInv, UserTypeOK', RequestsInOrder', OneAttemptAnswered', RaceCostsOneAttempt',
           UNCHANGED <<bucket, profiles, addresses, wanted, overlapped>>, now' >= now,
           \A q \in Requests : /\ proxied'[q].attempt >= proxied[q].attempt
                               /\ proxied'[q].attempt > 0 <=> proxied[q].attempt > 0
                               /\ proxied'[q].at = proxied[q].at,
           \A q \in Requests, m \in 1 .. attempts :
              \/ calls'[q][m] = calls[q][m]
              \/ calls[q][m].step # "begin" /\ calls'[q][m].step = "done"
    PROVE  UserInv'
<1> USE DEF UserInv
<1>1. Remembered' /\ AdmittedWithinLimit'
  <2>1. now' \in Nat
    BY GatewayAssumption DEF UserTypeOK, GatewayTypeOK
  <2> QED
    BY <2>1, OthersKeepLimit
<1>2. CallsInOrder'
  <2> SUFFICES ASSUME NEW q \in Requests, NEW m \in 1 .. attempts
               PROVE  LET c == calls'[q][m]
                          w == wanted[q]
                      IN  /\ c.step = "begin" => c.status = "none"
                          /\ c.step = "reply" => c.status # "none"
                          /\ c.step # "begin" => m <= proxied'[q].attempt
                          /\ c.step = "insert" => w.op \notin {"update_address", "delete_address"}
                          /\ c.step \in {"list", "commit"} =>
                                w.op \in {"create_address", "update_address", "delete_address"}
                          /\ c.step \in {"begin", "insert"} => c.loaded = {} /\ c.defaults = {}
                          /\ c.step = "list" => SetsDefault(q) /\ c.loaded \subseteq {w.address}
                          /\ c.step \in {"list", "commit"} /\ w.op # "create_address" =>
                                addresses[w.address].user = w.user
                          /\ c.step \in {"list", "commit"} =>
                                \A i \in c.defaults : i \in 1 .. Len(addresses) /\ addresses[i].user = w.user
    BY DEF CallsInOrder, SetsDefault
  <2>1. calls[q][m].step # "begin" => m <= proxied'[q].attempt
    <3>1. proxied[q].attempt \in Nat /\ proxied'[q].attempt \in Int
      BY AttemptsType, ProxiedType DEF UserTypeOK, GatewayTypeOK, Proxied
    <3> QED
      BY <3>1 DEF CallsInOrder
  <2>2. CASE calls'[q][m] = calls[q][m]
    BY <2>1, <2>2 DEF CallsInOrder
  <2>3. CASE calls[q][m].step # "begin" /\ calls'[q][m].step = "done"
    BY <2>1, <2>3
  <2> QED
    BY <2>2, <2>3
<1>3. MadeByPastCalls'
  <2>1. 1 \in 1 .. attempts
    BY AttemptsType
  <2> QED
    BY <2>1, AddressType DEF MadeByPastCalls
<1>4. CreatedOnce'
  BY DEF CreatedOnce
<1>5. \A q \in Requests, m \in 1 .. attempts : IsOpen(q, m)' => IsOpen(q, m)
  BY DEF IsOpen
<1>6. OneOpenSetter'
  BY <1>5 DEF OneOpenSetter, SetsDefault
<1>7. \A u : Defaults(u)' = Defaults(u)
  BY DEF Defaults, DefaultsAmong, AddressesOf
<1>8. ClearsTheOthers'
  <2> SUFFICES ASSUME NEW q \in Requests, NEW m \in 1 .. attempts,
                      calls'[q][m].step = "commit", SetsDefault(q),
                      NEW u, u = wanted[q].user, u \notin overlapped
               PROVE  Defaults(u)' \subseteq calls'[q][m].defaults \cup {wanted[q].address}
    BY DEF ClearsTheOthers, SetsDefault
  <2>1. calls'[q][m] = calls[q][m]
    OBVIOUS
  <2> QED
    BY <1>7, <2>1 DEF ClearsTheOthers
<1>9. SingleDefault'
  BY <1>7 DEF SingleDefault
<1> QED
  BY <1>1, <1>2, <1>3, <1>4, <1>6, <1>8, <1>9

LEMMA TickKeepsInv ==
    ASSUME UserInv, tick, UNCHANGED userVars
    PROVE  UserInv'
<1>1. /\ UserTypeOK /\ RequestsInOrder
      /\ now' = now + 1 /\ now < MaxTime
      /\ UNCHANGED <<bucket, proxied, faults, profiles, addresses, wanted, calls, overlapped>>
  BY DEF UserInv, tick, userVars
<1>2. now \in Nat /\ now' >= now /\ now' \in 0 .. MaxTime
  BY <1>1, GatewayAssumption DEF UserTypeOK, GatewayTypeOK
<1>3. UserTypeOK'
  BY <1>1, <1>2 DEF UserTypeOK, GatewayTypeOK
<1>4. RequestsInOrder'
  <2>1. \A r \in Requests : proxied[r].at \in Nat
    BY <1>1, ProxiedType
  <2> QED
    BY <1>1, <1>2, <2>1 DEF RequestsInOrder
<1>5. OneAttemptAnswered' /\ RaceCostsOneAttempt'
  BY <1>1 DEF UserInv, OneAttemptAnswered, RaceCostsOneAttempt
<1>6. \A q \in Requests : proxied[q].attempt \in Nat
  BY <1>1, ProxiedType
<1> QED
  BY <1>1, <1>2, <1>3, <1>4, <1>5, <1>6, AttemptsKeepInv

\* An attempt that ends, with an answer or without, keeps the request in order.
LEMMA AttemptEnds ==
    ASSUME UserTypeOK, RequestsInOrder, UNCHANGED <<now, addresses, wanted>>,
           NEW r \in Requests, proxied[r].status = "waiting",
           proxied' \in [Requests -> Proxied],
           \A q \in Requests \ {r} : proxied'[q] = proxied[q],
           proxied'[r].method = proxied[r].method,
           proxied'[r].at = proxied[r].at,
           proxied'[r].lost \in {proxied[r].lost, proxied[r].lost + 1},
           \/ /\ proxied[r].method = "GET"
              /\ proxied'[r].status = "waiting"
              /\ proxied'[r].attempt = proxied[r].attempt + 1
           \/ /\ proxied'[r].status \in {"2xx", "4xx", "5xx"}
              /\ proxied'[r].attempt = proxied[r].attempt
    PROVE  /\ RequestsInOrder'
           /\ \A q \in Requests : /\ proxied'[q].attempt >= proxied[q].attempt
                                  /\ proxied'[q].attempt > 0 <=> proxied[q].attempt > 0
                                  /\ proxied'[q].at = proxied[q].at
<1>1. /\ proxied[r].attempt \in Nat /\ proxied[r].attempt > 0
      /\ proxied[r].lost \in Nat /\ proxied[r].lost < proxied[r].attempt
      /\ wanted[r] # None
  BY ProxiedType DEF RequestsInOrder
<1>2. proxied[r].method = "GET" => wanted[r].op = "get_profile"
  <2>1. wanted[r].op \in Ops /\ proxied[r].method = MethodOf[wanted[r].op]
    BY <1>1, WantedType DEF RequestsInOrder
  <2> QED
    BY <2>1 DEF Ops, MethodOf
<1>3. RequestsInOrder'
  <2> SUFFICES ASSUME NEW q \in Requests
               PROVE  /\ proxied'[q].status = "new" <=> wanted[q] = None
                      /\ proxied'[q].attempt = 0 <=> proxied'[q].status \in {"new", "429"}
                      /\ proxied'[q].attempt > 0 => proxied'[q].at <= now
                      /\ proxied'[q].lost <= proxied'[q].attempt
                      /\ proxied'[q].status = "waiting" => proxied'[q].lost < proxied'[q].attempt
                      /\ wanted[q] # None =>
                            /\ proxied'[q].method = MethodOf[wanted[q].op]
                            /\ wanted[q].op # "get_profile" => proxied'[q].attempt <= 1
                            /\ wanted[q].op \notin {"create_address", "update_address"} =>
                                  wanted[q].is_default = "unset"
                            /\ wanted[q].address \in IF wanted[q].op \in {"update_address", "delete_address"}
                                                     THEN 1 .. Len(addresses) ELSE {0}
    BY DEF RequestsInOrder
  <2>1. CASE q # r
    BY <2>1 DEF RequestsInOrder
  <2>2. CASE q = r
    BY <1>1, <1>2, <2>2 DEF RequestsInOrder
  <2> QED
    BY <2>1, <2>2
<1>4. ASSUME NEW q \in Requests
      PROVE  /\ proxied'[q].attempt >= proxied[q].attempt
             /\ proxied'[q].attempt > 0 <=> proxied[q].attempt > 0
             /\ proxied'[q].at = proxied[q].at
  BY <1>1, ProxiedType
<1> QED
  BY <1>3, <1>4

\* The next attempt of a request has not begun.
LEMMA NextAttempt ==
    ASSUME UserInv, NEW r \in Requests, NEW n \in 1 .. attempts, n > proxied[r].attempt
    PROVE  calls[r][n].step = "begin" /\ calls[r][n].status = "none"
<1>1. proxied[r].attempt \in Nat /\ n \in Int
  BY ProxiedType, AttemptsType DEF UserInv
<1> QED
  BY <1>1 DEF UserInv, CallsInOrder

\* An attempt that is lost, with all else unchanged but the count of faults.
LEMMA LostKeepsInv ==
    ASSUME UserInv, NEW r \in Requests, request_fails(r), UNCHANGED userVars,
           faults' \in 0 .. MaxFaults
    PROVE  UserInv'
<1>1. UserTypeOK /\ RequestsInOrder
      /\ UNCHANGED <<profiles, addresses, wanted, calls, overlapped>>
  BY DEF UserInv, userVars
<1>2. /\ UNCHANGED <<now, bucket>>
      /\ proxied[r].status = "waiting"
      /\ proxied' \in [Requests -> Proxied]
      /\ \A q \in Requests \ {r} : proxied'[q] = proxied[q]
      /\ proxied'[r].method = proxied[r].method
      /\ proxied'[r].lost = proxied[r].lost + 1
      /\ proxied'[r].at = proxied[r].at
      /\ \/ /\ proxied[r].method = "GET"
            /\ proxied'[r].status = "waiting"
            /\ proxied'[r].attempt = proxied[r].attempt + 1
         \/ /\ proxied'[r].status = "5xx"
            /\ proxied'[r].attempt = proxied[r].attempt
            /\ proxied[r].method = "GET" => proxied[r].attempt = attempts
  BY <1>1, FailStep
<1>3. /\ RequestsInOrder'
      /\ \A q \in Requests : /\ proxied'[q].attempt >= proxied[q].attempt
                             /\ proxied'[q].attempt > 0 <=> proxied[q].attempt > 0
                             /\ proxied'[q].at = proxied[q].at
  BY <1>1, <1>2, AttemptEnds
<1>4. UserTypeOK'
  BY <1>1, <1>2 DEF UserTypeOK, GatewayTypeOK
<1>5. proxied[r].attempt \in Nat /\ proxied[r].lost \in Nat /\ proxied[r].lost < proxied[r].attempt
  BY <1>1, <1>2, ProxiedType DEF RequestsInOrder
<1>6. proxied[r].method = "GET" /\ proxied[r].lost < proxied[r].attempt - 1 =>
         proxied[r].lost = proxied[r].attempt - 2 /\ wanted[r].user \in profiles
  BY <1>2 DEF UserInv, OneAttemptAnswered
<1>7. OneAttemptAnswered'
  <2> SUFFICES ASSUME NEW q \in Requests, proxied'[q].method = "GET"
               PROVE  /\ \A m \in 1 .. attempts : calls[q][m].status = "5xx" => wanted[q].user \in profiles
                      /\ proxied'[q].status = "waiting" /\ proxied'[q].lost < proxied'[q].attempt - 1 =>
                            /\ proxied'[q].lost = proxied'[q].attempt - 2
                            /\ wanted[q].user \in profiles
                            /\ calls[q][proxied'[q].attempt].step # "insert"
                            /\ calls[q][proxied'[q].attempt].status # "5xx"
    BY <1>1 DEF OneAttemptAnswered
  <2>1. CASE q # r
    BY <1>2, <2>1 DEF UserInv, OneAttemptAnswered
  <2>2. CASE q = r
    <3>1. ASSUME proxied'[r].status = "waiting"
          PROVE  /\ proxied'[r].attempt = proxied[r].attempt + 1
                 /\ calls[r][proxied'[r].attempt].step = "begin"
                 /\ calls[r][proxied'[r].attempt].status = "none"
      <4>1. proxied'[r].attempt = proxied[r].attempt + 1
        BY <1>2, <3>1
      <4>2. proxied'[r].attempt \in 1 .. attempts
        BY <1>2, <1>5, <4>1 DEF Proxied
      <4>3. PICK k \in 1 .. attempts : k = proxied'[r].attempt
        BY <4>2
      <4> QED
        BY <1>5, <4>1, <4>3, NextAttempt
    <3>2. \A m \in 1 .. attempts : calls[q][m].status = "5xx" => wanted[q].user \in profiles
      BY <1>2, <2>2 DEF UserInv, OneAttemptAnswered
    <3> QED
      BY <1>2, <1>5, <1>6, <2>2, <3>1, <3>2
  <2> QED
    BY <2>1, <2>2
<1>8. RaceCostsOneAttempt'
  <2> SUFFICES ASSUME NEW q \in Requests, proxied'[q].method = "GET", proxied'[q].status = "5xx"
               PROVE  proxied'[q].lost >= RetryAttempts
    BY DEF RaceCostsOneAttempt
  <2>1. CASE q # r
    BY <1>2, <2>1 DEF UserInv, RaceCostsOneAttempt
  <2>2. CASE q = r
    <3>1. proxied[r].attempt = attempts /\ proxied'[q].lost = proxied[r].lost + 1
      BY <1>2, <2>2
    <3>2. proxied[r].lost >= proxied[r].attempt - 2
      BY <1>2, <1>5, <1>6, <2>2
    <3> QED
      BY <1>5, <3>1, <3>2, AttemptsType, GatewayAssumption
  <2> QED
    BY <2>1, <2>2
<1>9. now' >= now
  BY <1>1, <1>2, ClockType
<1> QED
  BY <1>1, <1>2, <1>3, <1>4, <1>7, <1>8, <1>9, AttemptsKeepInv

LEMMA GiveUpKeepsInv ==
    ASSUME UserInv, NEW r \in Requests, give_up(r)
    PROVE  UserInv'
<1>1. request_fails(r) /\ UNCHANGED userVars /\ faults < MaxFaults /\ faults' = faults + 1
  BY DEF give_up, request_times_out
<1>2. faults' \in 0 .. MaxFaults
  BY <1>1, GatewayAssumption DEF UserInv, UserTypeOK, GatewayTypeOK
<1> QED
  BY <1>1, <1>2, LostKeepsInv

LEMMA ConnectionLostKeepsInv ==
    ASSUME UserInv, NEW r \in Requests, connection_lost(r)
    PROVE  UserInv'
<1>1. request_fails(r) /\ UNCHANGED userVars /\ faults' = faults
  BY DEF connection_lost
<1>2. faults' \in 0 .. MaxFaults
  BY <1>1 DEF UserInv, UserTypeOK, GatewayTypeOK
<1> QED
  BY <1>1, <1>2, LostKeepsInv

LEMMA ServiceStopsKeepsInv ==
    ASSUME UserInv, service_stops
    PROVE  UserInv'
<1>1. /\ UserTypeOK /\ RequestsInOrder
      /\ faults < MaxFaults /\ faults' = faults + 1
      /\ UNCHANGED <<now, bucket, proxied, profiles, addresses, wanted, overlapped>>
  BY DEF UserInv, service_stops
<1>2. ASSUME NEW q \in Requests, NEW m \in 1 .. attempts
      PROVE  /\ calls'[q][m] \in Call
             /\ calls'[q][m].status = calls[q][m].status
             /\ \/ calls'[q][m] = calls[q][m]
                \/ calls[q][m].step # "begin" /\ calls'[q][m].step = "done"
  <2>1. calls'[q][m] = IF calls[q][m].step = "begin" THEN calls[q][m]
                       ELSE [calls[q][m] EXCEPT !.step = "done"]
    BY DEF service_stops
  <2>2. calls[q][m] \in Call
    BY <1>1, CallType
  <2> QED
    BY <2>1, <2>2 DEF Call
<1>3. calls' \in [Requests -> [1 .. attempts -> Call]]
  <2> DEFINE stopped(q, m) == IF calls[q][m].step = "begin" THEN calls[q][m]
                              ELSE [calls[q][m] EXCEPT !.step = "done"]
  <2>1. calls' = [q \in Requests |-> [m \in 1 .. attempts |-> stopped(q, m)]]
    BY DEF service_stops
  <2>2. \A q \in Requests, m \in 1 .. attempts : stopped(q, m) \in Call
    BY <1>2, <2>1
  <2> HIDE DEF stopped
  <2> QED
    BY <2>1, <2>2
<1>4. faults' \in 0 .. MaxFaults
  BY <1>1, GatewayAssumption DEF UserTypeOK, GatewayTypeOK
<1>5. UserTypeOK'
  BY <1>1, <1>3, <1>4 DEF UserTypeOK, GatewayTypeOK
<1>6. RequestsInOrder'
  BY <1>1 DEF RequestsInOrder
<1>7. OneAttemptAnswered'
  <2> SUFFICES ASSUME NEW q \in Requests, proxied[q].method = "GET"
               PROVE  /\ \A m \in 1 .. attempts : calls'[q][m].status = "5xx" => wanted[q].user \in profiles
                      /\ proxied[q].status = "waiting" /\ proxied[q].lost < proxied[q].attempt - 1 =>
                            /\ proxied[q].lost = proxied[q].attempt - 2
                            /\ wanted[q].user \in profiles
                            /\ calls'[q][proxied[q].attempt].step # "insert"
                            /\ calls'[q][proxied[q].attempt].status # "5xx"
    BY <1>1 DEF OneAttemptAnswered
  <2>1. \A m \in 1 .. attempts : calls'[q][m].status = "5xx" => wanted[q].user \in profiles
    BY <1>2 DEF UserInv, OneAttemptAnswered
  <2>2. proxied[q].status = "waiting" => proxied[q].attempt \in 1 .. attempts
    BY <1>1, ProxiedType DEF RequestsInOrder
  <2> QED
    BY <1>2, <2>1, <2>2 DEF UserInv, OneAttemptAnswered
<1>8. RaceCostsOneAttempt'
  BY <1>1 DEF UserInv, RaceCostsOneAttempt
<1>9. now' >= now
  BY <1>1, ClockType
<1>10. \A q \in Requests : proxied[q].attempt \in Nat
  BY <1>1, ProxiedType
<1> QED
  BY <1>1, <1>2, <1>5, <1>6, <1>7, <1>8, <1>9, <1>10, AttemptsKeepInv

LEMMA ReplyKeepsInv ==
    ASSUME UserInv, NEW r \in Requests, NEW n \in 1 .. attempts, reply(r, n)
    PROVE  UserInv'
<1> PICK c : c = calls[r][n]
  OBVIOUS
<1> PICK status : status = IF c.status = "2xx" /\ RefreshFails(r) THEN "5xx" ELSE c.status
  OBVIOUS
<1>1. /\ UserTypeOK /\ RequestsInOrder
      /\ c.step = "reply"
      /\ calls' = [calls EXCEPT ![r][n].step = "done"]
      /\ UNCHANGED <<now, bucket, faults, profiles, addresses, wanted, overlapped>>
      /\ IF proxied[r].status = "waiting" /\ proxied[r].attempt = n
         THEN receive(r, status) ELSE UNCHANGED proxied
  BY DEF UserInv, reply
<1>2. c \in Call /\ c.status \in {"2xx", "4xx", "5xx"} /\ n <= proxied[r].attempt
  BY <1>1, CallType DEF UserInv, CallsInOrder
<1>3. /\ calls' \in [Requests -> [1 .. attempts -> Call]]
      /\ \A q \in Requests, m \in 1 .. attempts :
            calls'[q][m] = IF q = r /\ m = n THEN [c EXCEPT !.step = "done"] ELSE calls[q][m]
  <2>1. [c EXCEPT !.step = "done"] \in Call
    BY <1>2 DEF Call
  <2>2. calls' = [calls EXCEPT ![r][n] = [c EXCEPT !.step = "done"]]
    BY <1>1
  <2>3. calls \in [Requests -> [1 .. attempts -> Call]]
    BY <1>1 DEF UserTypeOK
  <2> QED
    BY <2>1, <2>2, <2>3
<1>4. ASSUME NEW q \in Requests, NEW m \in 1 .. attempts
      PROVE  /\ calls'[q][m].status = calls[q][m].status
             /\ \/ calls'[q][m] = calls[q][m]
                \/ calls[q][m].step # "begin" /\ calls'[q][m].step = "done"
  <2>1. [c EXCEPT !.step = "done"].status = c.status /\ [c EXCEPT !.step = "done"].step = "done"
    BY <1>2 DEF Call
  <2> QED
    BY <1>1, <1>3, <2>1
<1>5. now' >= now
  BY <1>1, ClockType
<1>6. \A q \in Requests : proxied[q].method = "GET" =>
         \A m \in 1 .. attempts : calls'[q][m].status = "5xx" => wanted[q].user \in profiles
  BY <1>4 DEF UserInv, OneAttemptAnswered
<1>7. CASE ~(proxied[r].status = "waiting" /\ proxied[r].attempt = n)
  <2>1. UNCHANGED proxied
    BY <1>1, <1>7
  <2>2. UserTypeOK'
    BY <1>1, <1>3, <2>1 DEF UserTypeOK, GatewayTypeOK
  <2>3. RequestsInOrder'
    BY <1>1, <2>1 DEF RequestsInOrder
  <2>4. OneAttemptAnswered'
    <3> SUFFICES ASSUME NEW q \in Requests, proxied[q].method = "GET", proxied[q].status = "waiting",
                        proxied[q].lost < proxied[q].attempt - 1
                 PROVE  /\ proxied[q].lost = proxied[q].attempt - 2
                        /\ wanted[q].user \in profiles
                        /\ calls'[q][proxied[q].attempt].step # "insert"
                        /\ calls'[q][proxied[q].attempt].status # "5xx"
      BY <1>1, <1>6, <2>1 DEF OneAttemptAnswered
    <3>1. proxied[q].attempt \in 1 .. attempts
      BY <1>1, ProxiedType DEF RequestsInOrder
    <3> QED
      BY <1>4, <3>1 DEF UserInv, OneAttemptAnswered
  <2>5. RaceCostsOneAttempt'
    BY <2>1 DEF UserInv, RaceCostsOneAttempt
  <2>6. \A q \in Requests : proxied[q].attempt \in Nat
    BY <1>1, ProxiedType
  <2> QED
    BY <1>1, <1>4, <1>5, <2>1, <2>2, <2>3, <2>4, <2>5, <2>6, AttemptsKeepInv
<1>8. CASE proxied[r].status = "waiting" /\ proxied[r].attempt = n
  <2>1. status \in {"2xx", "4xx", "5xx"}
    BY <1>2
  <2>2. /\ proxied' \in [Requests -> Proxied]
        /\ \A q \in Requests \ {r} : proxied'[q] = proxied[q]
        /\ proxied'[r].method = proxied[r].method
        /\ proxied'[r].lost = proxied[r].lost
        /\ proxied'[r].at = proxied[r].at
        /\ \/ /\ status = "5xx" /\ proxied[r].method = "GET"
              /\ proxied'[r].status = "waiting"
              /\ proxied'[r].attempt = proxied[r].attempt + 1
           \/ /\ proxied'[r].status = status
              /\ proxied'[r].attempt = proxied[r].attempt
              /\ status = "5xx" /\ proxied[r].method = "GET" =>
                    proxied[r].attempt = attempts
    BY <1>1, <1>8, <2>1, ReceiveStep
  <2>3. /\ RequestsInOrder'
        /\ \A q \in Requests : /\ proxied'[q].attempt >= proxied[q].attempt
                               /\ proxied'[q].attempt > 0 <=> proxied[q].attempt > 0
                               /\ proxied'[q].at = proxied[q].at
    BY <1>1, <1>8, <2>1, <2>2, AttemptEnds
  <2>4. UserTypeOK'
    BY <1>1, <1>3, <2>2 DEF UserTypeOK, GatewayTypeOK
  <2>5. /\ proxied[r].attempt \in Nat /\ proxied[r].lost \in Nat
        /\ proxied[r].lost < proxied[r].attempt
    BY <1>1, <1>8, ProxiedType DEF RequestsInOrder
  <2>6. ASSUME proxied[r].method = "GET", status = "5xx"
        PROVE  proxied[r].lost = proxied[r].attempt - 1 /\ wanted[r].user \in profiles
    <3>1. wanted[r].op = "get_profile"
      BY <1>1, <1>2, <2>6, AttemptIsWanted
    <3>2. c.status = "5xx"
      BY <2>6, <3>1 DEF RefreshFails
    <3> QED
      BY <1>8, <2>5, <2>6, <3>2 DEF UserInv, OneAttemptAnswered
  <2>7. OneAttemptAnswered'
    <3> SUFFICES ASSUME NEW q \in Requests, proxied'[q].method = "GET", proxied'[q].status = "waiting",
                        proxied'[q].lost < proxied'[q].attempt - 1
                 PROVE  /\ proxied'[q].lost = proxied'[q].attempt - 2
                        /\ wanted[q].user \in profiles
                        /\ calls'[q][proxied'[q].attempt].step # "insert"
                        /\ calls'[q][proxied'[q].attempt].status # "5xx"
      BY <1>1, <1>6, <2>2 DEF OneAttemptAnswered
    <3>1. CASE q # r
      <4>1. proxied'[q] = proxied[q] /\ (proxied[q].status = "waiting" => proxied[q].attempt \in 1 .. attempts)
        BY <1>1, <2>2, <3>1, ProxiedType DEF RequestsInOrder
      <4> QED
        BY <1>4, <4>1 DEF UserInv, OneAttemptAnswered
    <3>2. CASE q = r
      <4>1. proxied[r].method = "GET" /\ status = "5xx" /\ proxied'[r].attempt = n + 1
        BY <1>8, <2>1, <2>2, <3>2
      <4>2. PICK k \in 1 .. attempts : k = n + 1
        BY <2>2, <4>1, <2>5, <1>8 DEF Proxied
      <4>3. calls[r][k].step = "begin" /\ calls[r][k].status = "none"
        BY <1>8, <2>5, <4>2, NextAttempt
      <4>4. calls'[r][k] = calls[r][k]
        BY <1>3, <4>2
      <4> QED
        BY <1>8, <2>2, <2>5, <2>6, <3>2, <4>1, <4>2, <4>3, <4>4
    <3> QED
      BY <3>1, <3>2
  <2>8. RaceCostsOneAttempt'
    <3> SUFFICES ASSUME NEW q \in Requests, proxied'[q].method = "GET", proxied'[q].status = "5xx"
                 PROVE  proxied'[q].lost >= RetryAttempts
      BY DEF RaceCostsOneAttempt
    <3>1. CASE q # r
      BY <2>2, <3>1 DEF UserInv, RaceCostsOneAttempt
    <3>2. CASE q = r
      <4>1. status = "5xx" /\ proxied[r].method = "GET" /\ proxied[r].attempt = attempts
        BY <2>2, <3>2
      <4>2. proxied[r].lost = attempts - 1
        BY <2>6, <4>1
      <4> QED
        BY <2>2, <3>2, <4>2, AttemptsType, GatewayAssumption
    <3> QED
      BY <3>1, <3>2
  <2> QED
    BY <1>1, <1>4, <1>5, <2>3, <2>4, <2>7, <2>8, AttemptsKeepInv
<1> QED
  BY <1>7, <1>8

LEMMA SendKeepsInv ==
    ASSUME UserInv, NEW r \in Requests, NEW w \in Wanted, send(r, w)
    PROVE  UserInv'
<1> USE DEF UserInv
<1>1. /\ w.address \in IF w.op \in {"update_address", "delete_address"}
                       THEN 1 .. Len(addresses) ELSE {0}
      /\ w.op \notin {"create_address", "update_address"} => w.is_default = "unset"
      /\ proxy(r, MethodOf[w.op])
      /\ wanted' = [wanted EXCEPT ![r] = w]
      /\ UNCHANGED <<profiles, addresses, calls, overlapped>>
  BY DEF send
<1>2. w.op \in Ops /\ MethodOf[w.op] \in Methods
  BY DEF Wanted, Ops, MethodOf, Methods
<1>3. /\ UNCHANGED <<now, faults>>
      /\ proxied[r].status = "new"
      /\ bucket' \in Seq(0 .. MaxTime)
      /\ proxied' \in [Requests -> Proxied]
      /\ \A q \in Requests \ {r} : proxied'[q] = proxied[q]
      /\ proxied'[r].method = MethodOf[w.op]
      /\ proxied'[r].lost = proxied[r].lost
      /\ \/ /\ proxied'[r].status = "429"
            /\ proxied'[r].attempt = proxied[r].attempt
            /\ proxied'[r].at = proxied[r].at
         \/ /\ proxied'[r].status = "waiting"
            /\ proxied'[r].attempt = 1
            /\ proxied'[r].at = now
  BY <1>1, <1>2, ProxyStep
<1>4. /\ wanted[r] = None /\ proxied[r].attempt = 0 /\ proxied[r].lost = 0
  BY <1>3, ProxiedType DEF RequestsInOrder
<1>5. w # None
  BY NoneAssumption
<1>6. /\ wanted' \in [Requests -> Wanted \cup {None}]
      /\ \A q \in Requests : wanted'[q] = IF q = r THEN w ELSE wanted[q]
  BY <1>1 DEF UserTypeOK
<1>7. UserTypeOK'
  BY <1>1, <1>3, <1>6 DEF UserTypeOK, GatewayTypeOK
<1>8. RequestsInOrder'
  <2> SUFFICES ASSUME NEW q \in Requests
               PROVE  /\ proxied'[q].status = "new" <=> wanted'[q] = None
                      /\ proxied'[q].attempt = 0 <=> proxied'[q].status \in {"new", "429"}
                      /\ proxied'[q].attempt > 0 => proxied'[q].at <= now
                      /\ proxied'[q].lost <= proxied'[q].attempt
                      /\ proxied'[q].status = "waiting" => proxied'[q].lost < proxied'[q].attempt
                      /\ wanted'[q] # None =>
                            /\ proxied'[q].method = MethodOf[wanted'[q].op]
                            /\ wanted'[q].op # "get_profile" => proxied'[q].attempt <= 1
                            /\ wanted'[q].op \notin {"create_address", "update_address"} =>
                                  wanted'[q].is_default = "unset"
                            /\ wanted'[q].address \in IF wanted'[q].op \in {"update_address", "delete_address"}
                                                      THEN 1 .. Len(addresses) ELSE {0}
    BY <1>1, <1>3 DEF RequestsInOrder
  <2>1. CASE q # r
    BY <1>3, <1>6, <2>1 DEF RequestsInOrder
  <2>2. CASE q = r
    <3>1. now \in Nat /\ wanted'[q] = w
      BY <1>6, <2>2, ClockType
    <3> QED
      BY <1>1, <1>3, <1>4, <1>5, <2>2, <3>1
  <2> QED
    BY <2>1, <2>2
<1>9. \A m \in 1 .. attempts :
         /\ calls[r][m].step = "begin" /\ calls[r][m].status = "none"
         /\ calls[r][m].loaded = {} /\ calls[r][m].defaults = {}
  <2> SUFFICES ASSUME NEW m \in 1 .. attempts
               PROVE  /\ calls[r][m].step = "begin" /\ calls[r][m].status = "none"
                      /\ calls[r][m].loaded = {} /\ calls[r][m].defaults = {}
    OBVIOUS
  <2>1. m > proxied[r].attempt
    BY <1>4
  <2> QED
    BY <2>1, NextAttempt DEF CallsInOrder
<1>10. CallsInOrder'
  <2> SUFFICES ASSUME NEW q \in Requests, NEW m \in 1 .. attempts
               PROVE  LET c == calls[q][m]
                          v == wanted'[q]
                      IN  /\ c.step = "begin" => c.status = "none"
                          /\ c.step = "reply" => c.status # "none"
                          /\ c.step # "begin" => m <= proxied'[q].attempt
                          /\ c.step = "insert" => v.op \notin {"update_address", "delete_address"}
                          /\ c.step \in {"list", "commit"} =>
                                v.op \in {"create_address", "update_address", "delete_address"}
                          /\ c.step \in {"begin", "insert"} => c.loaded = {} /\ c.defaults = {}
                          /\ c.step = "list" => v.is_default = "true" /\ c.loaded \subseteq {v.address}
                          /\ c.step \in {"list", "commit"} /\ v.op # "create_address" =>
                                addresses[v.address].user = v.user
                          /\ c.step \in {"list", "commit"} =>
                                \A i \in c.defaults : i \in 1 .. Len(addresses) /\ addresses[i].user = v.user
    BY <1>1 DEF CallsInOrder, SetsDefault
  <2>1. CASE q = r
    BY <1>9, <2>1
  <2>2. CASE q # r
    BY <1>3, <1>6, <2>2 DEF CallsInOrder, SetsDefault
  <2> QED
    BY <2>1, <2>2
<1>11. Remembered' /\ AdmittedWithinLimit'
  BY <1>1, <1>2, ProxyKeepsLimit
<1>12. MadeByPastCalls'
  <2>1. \A i \in 1 .. Len(addresses) : addresses[i].request \in Requests \ {r}
    BY <1>4, AddressType DEF MadeByPastCalls
  <2> QED
    BY <1>1, <1>6, <2>1 DEF MadeByPastCalls
<1>13. CreatedOnce'
  BY <1>1 DEF CreatedOnce
<1>14. \A q \in Requests, m \in 1 .. attempts :
          /\ IsOpen(q, m)' <=> IsOpen(q, m)
          /\ IsOpen(q, m) => q # r
          /\ calls[q][m].step = "commit" => q # r
  BY <1>1, <1>9 DEF IsOpen
<1>15. OneOpenSetter'
  <2> SUFFICES ASSUME NEW q \in Requests, NEW p \in Requests,
                      NEW m \in 1 .. attempts, NEW k \in 1 .. attempts,
                      IsOpen(q, m), wanted'[q].is_default = "true",
                      IsOpen(p, k), wanted'[p].is_default = "true",
                      wanted'[q].user = wanted'[p].user, wanted'[q].user \notin overlapped
               PROVE  q = p /\ m = k
    BY <1>1, <1>14 DEF OneOpenSetter, SetsDefault
  <2>1. wanted'[q] = wanted[q] /\ wanted'[p] = wanted[p]
    BY <1>6, <1>14
  <2> QED
    BY <2>1 DEF OneOpenSetter, SetsDefault
<1>16. \A u : Defaults(u)' = Defaults(u)
  BY <1>1 DEF Defaults, DefaultsAmong, AddressesOf
<1>17. ClearsTheOthers'
  <2> SUFFICES ASSUME NEW q \in Requests, NEW m \in 1 .. attempts,
                      calls[q][m].step = "commit", wanted'[q].is_default = "true",
                      NEW u, u = wanted'[q].user, u \notin overlapped
               PROVE  Defaults(u)' \subseteq calls[q][m].defaults \cup {wanted'[q].address}
    BY <1>1 DEF ClearsTheOthers, SetsDefault
  <2>1. wanted'[q] = wanted[q]
    BY <1>6, <1>14
  <2> QED
    BY <1>16, <2>1 DEF ClearsTheOthers, SetsDefault
<1>18. SingleDefault'
  BY <1>1, <1>16 DEF SingleDefault
<1>19. OneAttemptAnswered'
  <2> SUFFICES ASSUME NEW q \in Requests, proxied'[q].method = "GET"
               PROVE  /\ \A m \in 1 .. attempts : calls[q][m].status = "5xx" => wanted'[q].user \in profiles
                      /\ proxied'[q].status = "waiting" /\ proxied'[q].lost < proxied'[q].attempt - 1 =>
                            /\ proxied'[q].lost = proxied'[q].attempt - 2
                            /\ wanted'[q].user \in profiles
                            /\ calls[q][proxied'[q].attempt].step # "insert"
                            /\ calls[q][proxied'[q].attempt].status # "5xx"
    BY <1>1 DEF OneAttemptAnswered
  <2>1. CASE q = r
    BY <1>3, <1>4, <1>9, <2>1
  <2>2. CASE q # r
    BY <1>3, <1>6, <2>2 DEF OneAttemptAnswered
  <2> QED
    BY <2>1, <2>2
<1>20. RaceCostsOneAttempt'
  BY <1>3 DEF RaceCostsOneAttempt
<1> QED
  BY <1>7, <1>8, <1>10, <1>11, <1>12, <1>13, <1>15, <1>17, <1>18, <1>19, <1>20

-----------------------------------------------------------------------------
(* The theorems.                                                           *)

LEMMA UserInvInit == UserInit => UserInv
<1> SUFFICES ASSUME UserInit PROVE UserInv
  OBVIOUS
<1>1. /\ now = 0 /\ bucket = <<>> /\ faults = 0
      /\ \A r \in Requests : proxied[r] = [method |-> "none", status |-> "new",
                                          attempt |-> 0, lost |-> 0, at |-> 0]
      /\ profiles = {} /\ addresses = <<>> /\ overlapped = {}
      /\ \A r \in Requests : wanted[r] = None
      /\ \A r \in Requests, n \in 1 .. attempts :
            calls[r][n] = [step |-> "begin", loaded |-> {}, defaults |-> {}, status |-> "none"]
  BY DEF UserInit, GatewayInit
<1>2. UserTypeOK
  <2>1. GatewayTypeOK
    BY AttemptsType, GatewayAssumption DEF UserInit, GatewayInit, GatewayTypeOK, Proxied
  <2>2. [step |-> "begin", loaded |-> {}, defaults |-> {}, status |-> "none"] \in Call
    BY DEF Call
  <2>3. calls \in [Requests -> [1 .. attempts -> Call]]
    BY <2>2 DEF UserInit
  <2>4. addresses \in Seq(Address)
    BY <1>1
  <2> QED
    BY <1>1, <2>1, <2>3, <2>4 DEF UserInit, UserTypeOK
<1>3. Len(addresses) = 0 /\ Len(bucket) = 0
  BY <1>1
<1>4. RequestsInOrder /\ CallsInOrder
  BY <1>1 DEF RequestsInOrder, CallsInOrder
<1>5. Remembered /\ AdmittedWithinLimit
  <2>1. Admitted = {}
    BY <1>1 DEF Admitted
  <2>2. [i \in 1 .. Len(bucket) |-> CHOOSE q \in Requests : TRUE] \in [1 .. Len(bucket) -> Requests]
    BY <1>3
  <2>3. Remembered
    BY <2>1, <2>2 DEF Remembered
  <2>4. AdmittedWithinLimit
    BY <1>1 DEF AdmittedWithinLimit
  <2> QED
    BY <2>3, <2>4
<1>6. MadeByPastCalls /\ CreatedOnce
  BY <1>3 DEF MadeByPastCalls, CreatedOnce
<1>7. OneOpenSetter /\ ClearsTheOthers
  BY <1>1 DEF OneOpenSetter, ClearsTheOthers, IsOpen
<1>8. SingleDefault
  BY <1>3 DEF SingleDefault, Defaults, DefaultsAmong, AddressesOf
<1>9. OneAttemptAnswered /\ RaceCostsOneAttempt
  BY <1>1 DEF OneAttemptAnswered, RaceCostsOneAttempt
<1> QED
  BY <1>2, <1>4, <1>5, <1>6, <1>7, <1>8, <1>9 DEF UserInv

LEMMA UserInvStutter ==
    ASSUME UserInv, UNCHANGED <<gatewayVars, userVars>>
    PROVE  UserInv'
<1> USE DEF UserInv, gatewayVars, userVars
<1>1. UserTypeOK'
  BY DEF UserTypeOK, GatewayTypeOK
<1>2. RequestsInOrder'
  BY DEF RequestsInOrder
<1>3. CallsInOrder'
  BY DEF CallsInOrder, SetsDefault
<1>4. Remembered' /\ AdmittedWithinLimit'
  BY DEF Remembered, Admitted, AdmittedWithinLimit
<1>5. MadeByPastCalls' /\ CreatedOnce' /\ OneOpenSetter'
  BY DEF MadeByPastCalls, CreatedOnce, OneOpenSetter, IsOpen, SetsDefault
<1>6. ClearsTheOthers' /\ SingleDefault'
  BY DEF ClearsTheOthers, SingleDefault, Defaults, DefaultsAmong, AddressesOf, SetsDefault
<1>7. OneAttemptAnswered' /\ RaceCostsOneAttempt'
  BY DEF OneAttemptAnswered, RaceCostsOneAttempt
<1> QED
  BY <1>1, <1>2, <1>3, <1>4, <1>5, <1>6, <1>7

LEMMA UserInvNext == UserInv /\ [UserNext]_<<gatewayVars, userVars>> => UserInv'
<1> SUFFICES ASSUME UserInv, [UserNext]_<<gatewayVars, userVars>> PROVE UserInv'
  OBVIOUS
<1>1. CASE tick /\ UNCHANGED userVars
  BY <1>1, TickKeepsInv
<1>2. ASSUME NEW r \in Requests, NEW op \in Ops, NEW u \in Users, NEW a \in 0 .. Len(addresses),
             NEW is_default \in {"true", "false", "unset"},
             send(r, [op |-> op, user |-> u, address |-> a, is_default |-> is_default])
      PROVE  UserInv'
  <2>1. [op |-> op, user |-> u, address |-> a, is_default |-> is_default] \in Wanted
    BY ClockType DEF UserInv, Wanted
  <2> QED
    BY <1>2, <2>1, SendKeepsInv
<1>3. ASSUME NEW r \in Requests, give_up(r) \/ connection_lost(r) PROVE UserInv'
  BY <1>3, GiveUpKeepsInv, ConnectionLostKeepsInv
<1>4. ASSUME NEW r \in Requests, NEW n \in 1 .. attempts,
             \/ begin(r, n)
             \/ insert_profile(r, n)
             \/ list_to_clear(r, n)
             \/ commit_create(r, n)
             \/ commit_update(r, n)
             \/ commit_delete(r, n)
             \/ reply(r, n)
      PROVE  UserInv'
  BY <1>4, BeginKeepsInv, InsertKeepsInv, ListKeepsInv, CommitCreateKeepsInv,
     CommitUpdateKeepsInv, CommitDeleteKeepsInv, ReplyKeepsInv
<1>5. CASE service_stops
  BY <1>5, ServiceStopsKeepsInv
<1>6. CASE UNCHANGED <<gatewayVars, userVars>>
  BY <1>6, UserInvStutter
<1> QED
  BY <1>1, <1>2, <1>3, <1>4, <1>5, <1>6 DEF UserNext

LEMMA UserInvariant == UserSpec => []UserInv
<1>1. UserInit => UserInv
  BY UserInvInit
<1>2. UserInv /\ [UserNext]_<<gatewayVars, userVars>> => UserInv'
  BY UserInvNext
<1> QED
  BY <1>1, <1>2, PTL DEF UserSpec

\* Type correctness of the gateway and the user service together.
THEOREM UserTypeCorrect == UserSpec => []UserTypeOK
<1>1. UserInv => UserTypeOK
  BY DEF UserInv
<1> QED
  BY <1>1, UserInvariant, PTL

\* The rate limit holds over every window: what the popleft loop of
\* _enforce_rate_limit forgets no longer counts for any request still to come,
\* and the bucket has the time of all others.
THEOREM RateLimitHolds == UserSpec => []AdmittedWithinLimit
<1>1. UserInv => AdmittedWithinLimit
  BY DEF UserInv
<1> QED
  BY <1>1, UserInvariant, PTL

\* A request to create an address is sent upstream once, and its handler commits
\* once: no time-out, retry or stop of the service makes it twice.
THEOREM CreatesOnce == UserSpec => []CreatedOnce
<1>1. UserInv => CreatedOnce
  BY DEF UserInv
<1> QED
  BY <1>1, UserInvariant, PTL

\* A GET is answered 5xx only when all its attempts but one were lost: the
\* attempt that lost the race for the profile left a profile behind, and no
\* later attempt fails for that reason.
THEOREM RaceIsRetried == UserSpec => []RaceCostsOneAttempt
<1>1. UserInv => RaceCostsOneAttempt
  BY DEF UserInv
<1> QED
  BY <1>1, UserInvariant, PTL

\* A user whose handlers that set the default address never overlapped has at
\* most one default, whatever other handlers do meanwhile.
THEOREM DefaultStaysSingle == UserSpec => []OneDefaultAddress
<1>1. UserInv => OneDefaultAddress
  <2> SUFFICES ASSUME UserInv, NEW u \in Users \ overlapped
               PROVE  Cardinality(Defaults(u)) <= 1
    BY DEF OneDefaultAddress, Defaults
  <2>1. \A i, j \in Defaults(u) : i = j
    BY DEF UserInv, SingleDefault
  <2>2. Defaults(u) = {} \/ \E i : Defaults(u) = {i}
    BY <2>1
  <2>3. CASE Defaults(u) = {}
    BY <2>3, FS_EmptySet
  <2>4. ASSUME NEW i, Defaults(u) = {i} PROVE Cardinality(Defaults(u)) <= 1
    <3>1. Cardinality({i}) = 1
      BY FS_Singleton
    <3> QED
      BY <2>4, <3>1
  <2> QED
    BY <2>2, <2>3, <2>4
<1> QED
  BY <1>1, UserInvariant, PTL

(***************************************************************************)
(* Part 2.  The auth service.  Without a race on a login, whoever has one  *)
(* of its tokens open has the only usable one (OpenTokensAreUsable).       *)
(***************************************************************************)

\* What a call has in hand goes back to a login that there was, and the token
\* that a call is about to revoke belongs to the call's login.
CallsHaveLogins ==
    \A s \in AuthSessions :
        /\ At(s, "issue") => auth_calls[s].login \in 1 .. logins
        /\ At(s, "revoke") \/ At(s, "end") =>
              /\ auth_calls[s].token \in 1 .. Len(refresh_tokens)
              /\ auth_calls[s].login = refresh_tokens[auth_calls[s].token].login

\* Logins that were counted, and only those, have tokens or a history.
LoginsWereCounted ==
    /\ \A k \in 1 .. Len(refresh_tokens) : refresh_tokens[k].login \in 1 .. logins
    /\ ended \cup lost \subseteq 1 .. logins

\* Of a login without a race, an open token is usable and one call has it open.
OpenTokensAreUsable ==
    \A s \in AuthSessions : \A k \in 1 .. Len(refresh_tokens) :
        HasOpen(s, k) /\ refresh_tokens[k].login \notin raced =>
            /\ ~refresh_tokens[k].revoked
            /\ \A q \in AuthSessions : HasOpen(q, k) => q = s

AuthInv ==
    /\ AuthTypeOK
    /\ CallsHaveLogins
    /\ LoginsWereCounted
    /\ OpenTokensAreUsable
    /\ OneTokenPerLogin


-----------------------------------------------------------------------------

\* What the actions of a session enter are calls.
LEMMA AuthEnterType ==
    ASSUME AuthTypeOK, NEW s \in AuthSessions, NEW call \in AuthCall \cup {NoCall}, Enter(s, call)
    PROVE  auth_calls' \in [AuthSessions -> AuthCall \cup {NoCall}]
BY DEF AuthTypeOK, Enter

\* A call with a step is a call.
LEMMA AuthCallType ==
    ASSUME AuthTypeOK, NEW s \in AuthSessions, auth_calls[s] # NoCall
    PROVE  /\ auth_calls[s] \in AuthCall
           /\ auth_calls[s].step \in {"insert", "revoke", "end", "issue"}
           /\ auth_calls[s].user \in Emails
           /\ auth_calls[s].login \in Logins \cup {0}
           /\ auth_calls[s].token \in Nat
BY DEF AuthTypeOK, AuthCall

LEMMA StartLoginType ==
    ASSUME AuthTypeOK, NEW s \in AuthSessions, NEW e \in Emails, StartLogin(s, e)
    PROVE  /\ auth_calls' \in [AuthSessions -> AuthCall \cup {NoCall}]
           /\ logins' \in 0 .. MaxLogins
<1>1. logins \in Nat /\ MaxLogins \in Nat
  BY AuthAssumption DEF AuthTypeOK
<1>2. logins + 1 \in Logins
  BY <1>1 DEF StartLogin, Logins
<1>3. [step |-> "issue", user |-> e, login |-> logins + 1, token |-> 0] \in AuthCall
  BY <1>2 DEF AuthCall
<1> QED
  BY <1>1, <1>2, <1>3, AuthEnterType DEF StartLogin, Logins

LEMMA TokenType ==
    ASSUME AuthTypeOK, NEW k \in 1 .. Len(refresh_tokens)
    PROVE  /\ refresh_tokens[k] \in RefreshToken
           /\ refresh_tokens[k].user \in Emails
           /\ refresh_tokens[k].login \in Logins
           /\ refresh_tokens[k].revoked \in BOOLEAN
<1>1. refresh_tokens[k] \in RefreshToken
  BY ElementOfSeq DEF AuthTypeOK
<1> QED
  BY <1>1 DEF RefreshToken

\* Logins that there were are logins.
LEMMA CountedAreLogins ==
    ASSUME AuthTypeOK
    PROVE  1 .. logins \subseteq Logins
BY AuthAssumption DEF AuthTypeOK, Logins

LEMMA RevokedType ==
    ASSUME AuthTypeOK, NEW k \in 1 .. Len(refresh_tokens), NEW ts,
           ts = [refresh_tokens EXCEPT ![k].revoked = TRUE]
    PROVE  /\ ts \in Seq(RefreshToken)
           /\ Len(ts) = Len(refresh_tokens)
           /\ \A i \in 1 .. Len(refresh_tokens) :
                 /\ ts[i].login = refresh_tokens[i].login
                 /\ ts[i].revoked <=> i = k \/ refresh_tokens[i].revoked
<1>1. refresh_tokens \in Seq(RefreshToken) /\ refresh_tokens[k] \in RefreshToken
  BY TokenType DEF AuthTypeOK
<1>2. /\ [refresh_tokens[k] EXCEPT !.revoked = TRUE] \in RefreshToken
      /\ [refresh_tokens[k] EXCEPT !.revoked = TRUE].login = refresh_tokens[k].login
      /\ [refresh_tokens[k] EXCEPT !.revoked = TRUE].revoked = TRUE
  BY <1>1 DEF RefreshToken
<1>3. PICK t \in RefreshToken : /\ t = [refresh_tokens[k] EXCEPT !.revoked = TRUE]
                                /\ t.login = refresh_tokens[k].login /\ t.revoked = TRUE
  BY <1>2
<1>4. ts = [refresh_tokens EXCEPT ![k] = t]
  BY <1>3
<1>5. /\ [refresh_tokens EXCEPT ![k] = t] \in Seq(RefreshToken)
      /\ Len([refresh_tokens EXCEPT ![k] = t]) = Len(refresh_tokens)
  BY <1>1, ExceptSeq
<1>6. \A i \in 1 .. Len(refresh_tokens) : ts[i] = IF i = k THEN t ELSE refresh_tokens[i]
  BY <1>1, <1>4, LenProperties
<1> QED
  BY <1>3, <1>4, <1>5, <1>6

LEMMA AuthTypeNext == AuthTypeOK /\ CallsHaveLogins /\ [AuthNext]_authVars => AuthTypeOK'
<1> SUFFICES ASSUME AuthTypeOK, CallsHaveLogins, [AuthNext]_authVars PROVE AuthTypeOK'
  OBVIOUS
<1>1. CASE service_starts
  <2>1. lost' \in SUBSET Logins
    <3> SUFFICES ASSUME NEW s \in AuthSessions, At(s, "issue")
                 PROVE  auth_calls[s].login \in Logins
      BY <1>1 DEF service_starts, AuthTypeOK
    <3> QED
      BY CountedAreLogins DEF CallsHaveLogins
  <2>2. roles' \in [Emails -> UserRole \cup {"none"}]
    BY <1>1 DEF service_starts, WithBootstrapAdmin, AuthTypeOK, UserRole
  <2> QED
    BY <1>1, <2>1, <2>2 DEF service_starts, AuthTypeOK
<1>2. ASSUME NEW l \in Logins, NEW e \in Emails, NEW role \in UserRole,
             update_user_role(l, e, role)
      PROVE  AuthTypeOK'
  BY <1>2 DEF update_user_role, AuthTypeOK
<1>3. ASSUME NEW s \in AuthSessions, NEW e \in Emails, register(s, e)
      PROVE  AuthTypeOK'
  <2>1. [step |-> "insert", user |-> e, login |-> 0, token |-> 0] \in AuthCall
    BY DEF AuthCall
  <2> QED
    BY <1>3, <2>1, AuthEnterType DEF register, AuthTypeOK
<1>4. ASSUME NEW s \in AuthSessions, NEW e \in Emails, login(s, e)
      PROVE  AuthTypeOK'
  BY <1>4, StartLoginType DEF login, AuthTypeOK
<1>5. ASSUME NEW s \in AuthSessions, insert_user(s)
      PROVE  AuthTypeOK'
  <2>1. auth_calls[s].user \in Emails
    BY <1>5, AuthCallType DEF insert_user, At
  <2>2. CASE roles[auth_calls[s].user] # "none"
    BY <1>5, <2>2, AuthEnterType DEF insert_user, AuthTypeOK
  <2>3. CASE roles[auth_calls[s].user] = "none"
    <3>1. roles' \in [Emails -> UserRole \cup {"none"}]
      BY <1>5, <2>1, <2>3 DEF insert_user, AuthTypeOK, UserRole
    <3> QED
      BY <1>5, <2>1, <2>3, <3>1, StartLoginType DEF insert_user, AuthTypeOK
  <2> QED
    BY <2>2, <2>3
<1>6. ASSUME NEW s \in AuthSessions, NEW k \in 1 .. Len(refresh_tokens),
             NEW step \in {"revoke", "end"}, read_token(s, k, step)
      PROVE  AuthTypeOK'
  <2>1. [step |-> step, user |-> refresh_tokens[k].user,
         login |-> refresh_tokens[k].login, token |-> k] \in AuthCall
    BY TokenType DEF AuthCall
  <2>2. raced' \in SUBSET Logins
    BY <1>6, TokenType DEF read_token, AuthTypeOK
  <2> QED
    BY <1>6, <2>1, <2>2, AuthEnterType DEF read_token, AuthTypeOK
<1>7. ASSUME NEW s \in AuthSessions, revoke(s)
      PROVE  AuthTypeOK'
  <2>1. auth_calls[s] \in AuthCall
    BY <1>7, AuthCallType DEF revoke, At
  <2>2. auth_calls[s].token \in 1 .. Len(refresh_tokens)
    BY <1>7 DEF revoke, CallsHaveLogins
  <2>3. [auth_calls[s] EXCEPT !.step = "issue", !.token = 0] \in AuthCall
    BY <2>1 DEF AuthCall
  <2>4. refresh_tokens' \in Seq(RefreshToken)
    BY <1>7, <2>2, RevokedType DEF revoke
  <2> QED
    BY <1>7, <2>3, <2>4, AuthEnterType DEF revoke, AuthTypeOK
<1>8. ASSUME NEW s \in AuthSessions, issue(s)
      PROVE  AuthTypeOK'
  <2>1. auth_calls[s].user \in Emails /\ auth_calls[s].login \in Logins
    <3>1. auth_calls[s].login \in 1 .. logins
      BY <1>8 DEF issue, CallsHaveLogins
    <3> QED
      BY <1>8, <3>1, AuthCallType DEF issue, At, AuthTypeOK, Logins
  <2>2. [user |-> auth_calls[s].user, login |-> auth_calls[s].login, revoked |-> FALSE]
          \in RefreshToken
    BY <2>1 DEF RefreshToken
  <2>3. refresh_tokens' \in Seq(RefreshToken)
    BY <1>8, <2>2, AppendProperties DEF issue, AuthTypeOK
  <2>4. admins' \in SUBSET Logins
    BY <1>8, <2>1 DEF issue, AuthTypeOK
  <2> QED
    BY <1>8, <2>3, <2>4, AuthEnterType DEF issue, AuthTypeOK
<1>9. ASSUME NEW s \in AuthSessions, end_login(s)
      PROVE  AuthTypeOK'
  <2>1. /\ auth_calls[s].token \in 1 .. Len(refresh_tokens)
        /\ auth_calls[s].login = refresh_tokens[auth_calls[s].token].login
    BY <1>9 DEF end_login, CallsHaveLogins
  <2>2. ended' \in SUBSET Logins
    BY <1>9, <2>1, TokenType DEF end_login, AuthTypeOK
  <2>3. refresh_tokens' \in Seq(RefreshToken)
    BY <1>9, <2>1, RevokedType DEF end_login
  <2> QED
    BY <1>9, <2>2, <2>3, AuthEnterType DEF end_login, AuthTypeOK
<1>10. ASSUME NEW s \in AuthSessions, call_fails(s)
       PROVE  AuthTypeOK'
  <2>1. lost' \in SUBSET Logins
    <3>1. auth_calls[s].step = "issue" => auth_calls[s].login \in 1 .. logins
      BY <1>10 DEF call_fails, CallsHaveLogins, At
    <3> QED
      BY <1>10, <3>1, CountedAreLogins DEF call_fails, AuthTypeOK
  <2> QED
    BY <1>10, <2>1, AuthEnterType DEF call_fails, AuthTypeOK
<1>11. CASE UNCHANGED authVars
  BY <1>11 DEF authVars, AuthTypeOK
<1> QED
  BY <1>1, <1>2, <1>3, <1>4, <1>5, <1>6, <1>7, <1>8, <1>9, <1>10, <1>11
     DEF AuthNext, refresh, logout

-----------------------------------------------------------------------------

\* What the property says of one login.
OneToken(l) ==
    IF l \in ended \cup lost
    THEN Tokens(l) = {} /\ Issuers(l) = {}
    ELSE \/ Issuers(l) = {} /\ \E k \in Tokens(l) : Tokens(l) = {k}
         \/ Tokens(l) = {} /\ \E s \in Issuers(l) : Issuers(l) = {s}

LEMMA OneTokenOfEach == OneTokenPerLogin <=> \A l \in (1 .. logins) \ raced : OneToken(l)
BY DEF OneTokenPerLogin, OneToken

LEMMA EnterCalls ==
    ASSUME AuthTypeOK, NEW s \in AuthSessions, NEW call, Enter(s, call)
    PROVE  \A q \in AuthSessions : auth_calls'[q] = IF q = s THEN call ELSE auth_calls[q]
BY DEF AuthTypeOK, Enter

\* A step that touches no token keeps the invariant, when the calls it changes
\* neither issue nor have a token open, neither before nor after.
LEMMA OtherCallsKeepInv ==
    ASSUME AuthInv,
           UNCHANGED <<refresh_tokens, logins, ended, lost, raced>>,
           \A q \in AuthSessions :
              \/ auth_calls'[q] = auth_calls[q]
              \/ /\ ~At(q, "issue")
                 /\ ~At(q, "issue")' /\ ~At(q, "revoke")' /\ ~At(q, "end")'
    PROVE  /\ CallsHaveLogins'
           /\ LoginsWereCounted'
           /\ OpenTokensAreUsable'
           /\ OneTokenPerLogin'
<1>1. CallsHaveLogins'
  BY DEF AuthInv, CallsHaveLogins, At
<1>2. LoginsWereCounted'
  BY DEF AuthInv, LoginsWereCounted
<1>3. \A q \in AuthSessions, k \in 1 .. Len(refresh_tokens) : HasOpen(q, k)' => HasOpen(q, k)
  BY DEF HasOpen, At
<1>4. OpenTokensAreUsable'
  BY <1>3 DEF AuthInv, OpenTokensAreUsable
<1>5. \A l \in 1 .. logins : Issuers(l)' = Issuers(l) /\ Tokens(l)' = Tokens(l)
  BY DEF Issuers, Tokens, At
<1>6. OneTokenPerLogin'
  BY <1>5 DEF AuthInv, OneTokenPerLogin
<1> QED
  BY <1>1, <1>2, <1>4, <1>6

\* A login that starts has a number nobody used, and its first token on its way.
LEMMA StartLoginKeepsInv ==
    ASSUME AuthInv, NEW s \in AuthSessions, NEW e \in Emails, StartLogin(s, e),
           ~At(s, "issue"),
           UNCHANGED <<refresh_tokens, ended, lost, raced>>
    PROVE  /\ CallsHaveLogins'
           /\ LoginsWereCounted'
           /\ OpenTokensAreUsable'
           /\ OneTokenPerLogin'
<1> DEFINE call == [step |-> "issue", user |-> e, login |-> logins + 1, token |-> 0]
<1>1. logins \in Nat /\ logins' = logins + 1
  BY DEF AuthInv, AuthTypeOK, StartLogin
<1>2. \A q \in AuthSessions : auth_calls'[q] = IF q = s THEN call ELSE auth_calls[q]
  BY EnterCalls DEF AuthInv, StartLogin
<1>2a. call # NoCall
  <2>1. logins + 1 \in Logins
    BY AuthAssumption DEF StartLogin, Logins, AuthInv, AuthTypeOK
  <2> QED
    BY <2>1, NoCallAssumption DEF AuthCall
<1>3. CallsHaveLogins'
  BY <1>1, <1>2 DEF AuthInv, CallsHaveLogins, At
<1>4. LoginsWereCounted'
  BY <1>1 DEF AuthInv, LoginsWereCounted
<1>5. \A q \in AuthSessions, k \in 1 .. Len(refresh_tokens) : HasOpen(q, k)' => HasOpen(q, k)
  BY <1>2 DEF HasOpen
<1>6. OpenTokensAreUsable'
  BY <1>5 DEF AuthInv, OpenTokensAreUsable
<1>7. ASSUME NEW l \in 1 .. logins
      PROVE  Issuers(l)' = Issuers(l) /\ Tokens(l)' = Tokens(l)
  BY <1>1, <1>2 DEF Issuers, Tokens, At
<1>7a. PICK n \in Nat : n = logins + 1
  BY <1>1
<1>8. Issuers(n)' = {s}
  BY <1>1, <1>2, <1>2a, <1>7a DEF Issuers, At, AuthInv, CallsHaveLogins
<1>9. Tokens(n)' = {} /\ n \notin ended \cup lost
  BY <1>1, <1>7a DEF Tokens, AuthInv, LoginsWereCounted
<1>10. OneTokenPerLogin'
  <2> SUFFICES ASSUME NEW l \in (1 .. logins') \ raced PROVE OneToken(l)'
    BY DEF OneTokenPerLogin, OneToken
  <2>1. CASE l = n
    <3>1. Issuers(l)' = {s} /\ Tokens(l)' = {} /\ l \notin (ended \cup lost)'
      BY <1>8, <1>9, <2>1
    <3> QED
      BY <3>1 DEF OneToken
  <2>2. CASE l \in 1 .. logins
    BY <1>7, <2>2 DEF OneToken, AuthInv, OneTokenPerLogin
  <2> QED
    BY <1>1, <1>7a, <2>1, <2>2
<1> QED
  BY <1>3, <1>4, <1>6, <1>10


\* Reading a token of a login changes nothing but who has it open; a second
\* call that opens it makes the login one with a race.
LEMMA ReadTokenKeepsInv ==
    ASSUME AuthInv, NEW s \in AuthSessions, NEW k \in 1 .. Len(refresh_tokens),
           NEW step \in {"revoke", "end"}, read_token(s, k, step)
    PROVE  /\ CallsHaveLogins'
           /\ LoginsWereCounted'
           /\ OpenTokensAreUsable'
           /\ OneTokenPerLogin'
<1> DEFINE t == refresh_tokens[k]
           call == [step |-> step, user |-> t.user, login |-> t.login, token |-> k]
<1>1. \A q \in AuthSessions : auth_calls'[q] = IF q = s THEN call ELSE auth_calls[q]
  BY EnterCalls DEF AuthInv, read_token
<1>2. call # NoCall /\ auth_calls[s] = NoCall
  BY NoCallAssumption, TokenType DEF AuthCall, AuthInv, read_token, Idle
<1>3. /\ UNCHANGED <<refresh_tokens, logins, ended, lost>>
      /\ ~t.revoked
      /\ raced \subseteq raced'
      /\ t.login \notin raced' => \A q \in AuthSessions : ~HasOpen(q, k)
  BY DEF read_token
<1>4. CallsHaveLogins'
  BY <1>1, <1>3 DEF AuthInv, CallsHaveLogins, At
<1>5. LoginsWereCounted'
  BY <1>3 DEF AuthInv, LoginsWereCounted
<1>6. \A q \in AuthSessions, i \in 1 .. Len(refresh_tokens) :
         HasOpen(q, i)' <=> HasOpen(q, i) \/ (q = s /\ i = k)
  BY <1>1, <1>2 DEF HasOpen
<1>7. OpenTokensAreUsable'
  <2> SUFFICES ASSUME NEW p \in AuthSessions, NEW i \in 1 .. Len(refresh_tokens),
                      HasOpen(p, i)', refresh_tokens[i].login \notin raced'
               PROVE  /\ ~refresh_tokens[i].revoked
                      /\ \A q \in AuthSessions : HasOpen(q, i)' => q = p
    BY <1>3 DEF OpenTokensAreUsable
  <2>1. CASE i = k
    BY <1>3, <1>6, <2>1
  <2>2. CASE i # k
    BY <1>3, <1>6, <2>2 DEF AuthInv, OpenTokensAreUsable
  <2> QED
    BY <2>1, <2>2
<1>8. \A l \in 1 .. logins : Issuers(l)' = Issuers(l) /\ Tokens(l)' = Tokens(l)
  BY <1>1, <1>2, <1>3 DEF Issuers, Tokens, At
<1>9. OneTokenPerLogin'
  BY <1>3, <1>8 DEF AuthInv, OneTokenPerLogin
<1> QED
  BY <1>4, <1>5, <1>7, <1>9

\* Of a login without a race, the token that a call has open is the only one.
LEMMA OpenTokenIsTheOne ==
    ASSUME AuthInv, NEW s \in AuthSessions, At(s, "revoke") \/ At(s, "end"),
           auth_calls[s].login \notin raced
    PROVE  /\ auth_calls[s].login \notin ended \cup lost
           /\ Tokens(auth_calls[s].login) = {auth_calls[s].token}
           /\ Issuers(auth_calls[s].login) = {}
           /\ \A q \in AuthSessions : HasOpen(q, auth_calls[s].token) => q = s
<1> DEFINE k == auth_calls[s].token
           l == auth_calls[s].login
<1>1. k \in 1 .. Len(refresh_tokens) /\ l = refresh_tokens[k].login /\ l \in 1 .. logins
  BY DEF AuthInv, CallsHaveLogins, LoginsWereCounted
<1>2. HasOpen(s, k)
  BY DEF HasOpen, At
<1>3. ~refresh_tokens[k].revoked /\ \A q \in AuthSessions : HasOpen(q, k) => q = s
  BY <1>1, <1>2 DEF AuthInv, OpenTokensAreUsable
<1>4. k \in Tokens(l)
  BY <1>1, <1>3 DEF Tokens
<1>5. OneToken(l)
  BY <1>1 DEF AuthInv, OneTokenPerLogin, OneToken
<1> QED
  BY <1>3, <1>4, <1>5 DEF OneToken

\* Revoking the token that a call has open: as the first half of a refresh, or
\* as a logout.
LEMMA RevokeKeepsInv ==
    ASSUME AuthInv, NEW s \in AuthSessions, revoke(s) \/ end_login(s)
    PROVE  /\ CallsHaveLogins'
           /\ LoginsWereCounted'
           /\ OpenTokensAreUsable'
           /\ OneTokenPerLogin'
<1> PICK c : c = auth_calls[s]
  OBVIOUS
<1> DEFINE next == [c EXCEPT !.step = "issue", !.token = 0]
<1>1. At(s, "revoke") \/ At(s, "end")
  BY DEF revoke, end_login
<1>2. /\ c \in AuthCall /\ c.step \in {"revoke", "end"} /\ c # NoCall
      /\ c.token \in 1 .. Len(refresh_tokens)
      /\ c.login = refresh_tokens[c.token].login
      /\ c.login \in 1 .. logins
  BY <1>1, AuthCallType DEF AuthInv, CallsHaveLogins, LoginsWereCounted, At
<1>3. /\ UNCHANGED <<logins, lost, raced>>
      /\ refresh_tokens' = [refresh_tokens EXCEPT ![c.token].revoked = TRUE]
      /\ \/ c.step = "revoke" /\ Enter(s, next) /\ ended' = ended
         \/ c.step = "end" /\ Enter(s, NoCall) /\ ended' = ended \cup {c.login}
  BY DEF revoke, end_login, At
<1>4. next # NoCall /\ next.step = "issue" /\ next.login = c.login
  <2>1. next \in AuthCall
    BY <1>2 DEF AuthCall
  <2> QED
    BY <1>2, <2>1, NoCallAssumption DEF AuthCall
<1>5. /\ Len(refresh_tokens') = Len(refresh_tokens)
      /\ \A i \in 1 .. Len(refresh_tokens) :
            /\ refresh_tokens'[i].login = refresh_tokens[i].login
            /\ refresh_tokens'[i].revoked <=> i = c.token \/ refresh_tokens[i].revoked
  <2>1. AuthTypeOK /\ c.token \in 1 .. Len(refresh_tokens)
    BY <1>2 DEF AuthInv
  <2>2. refresh_tokens' = [refresh_tokens EXCEPT ![c.token].revoked = TRUE]
    BY <1>3
  <2> HIDE DEF next
  <2> QED
    BY <2>1, <2>2, RevokedType
<1>6. \A q \in AuthSessions : q # s => auth_calls'[q] = auth_calls[q]
  BY <1>3, EnterCalls DEF AuthInv
<1>7. \/ c.step = "revoke" /\ auth_calls'[s] = next /\ ended' = ended
      \/ c.step = "end" /\ auth_calls'[s] = NoCall /\ ended' = ended \cup {c.login}
  BY <1>3, EnterCalls DEF AuthInv
<1>8. CallsHaveLogins'
  <2> SUFFICES ASSUME NEW q \in AuthSessions
               PROVE  /\ At(q, "issue")' => auth_calls'[q].login \in 1 .. logins
                      /\ At(q, "revoke")' \/ At(q, "end")' =>
                            /\ auth_calls'[q].token \in 1 .. Len(refresh_tokens)
                            /\ auth_calls'[q].login = refresh_tokens'[auth_calls'[q].token].login
    BY <1>3, <1>5 DEF CallsHaveLogins
  <2>1. CASE q = s
    BY <1>2, <1>4, <1>7, <2>1 DEF At
  <2>2. CASE q # s
    BY <1>5, <1>6, <2>2 DEF At, AuthInv, CallsHaveLogins
  <2> QED
    BY <2>1, <2>2
<1>9. LoginsWereCounted'
  BY <1>2, <1>3, <1>5 DEF AuthInv, LoginsWereCounted
<1>10. \A q \in AuthSessions, i \in 1 .. Len(refresh_tokens) :
          HasOpen(q, i)' <=> q # s /\ HasOpen(q, i)
  BY <1>4, <1>6, <1>7 DEF HasOpen
<1>11. OpenTokensAreUsable'
  <2> SUFFICES ASSUME NEW p \in AuthSessions, NEW i \in 1 .. Len(refresh_tokens),
                      HasOpen(p, i)', refresh_tokens[i].login \notin raced
               PROVE  /\ ~refresh_tokens'[i].revoked
                      /\ \A q \in AuthSessions : HasOpen(q, i)' => q = p
    BY <1>3, <1>5 DEF OpenTokensAreUsable
  <2>1. ~refresh_tokens[i].revoked /\ \A q \in AuthSessions : HasOpen(q, i) => q = p
    BY <1>10 DEF AuthInv, OpenTokensAreUsable
  <2>2. i # c.token
    BY <1>1, <1>2, <1>10, OpenTokenIsTheOne
  <2> QED
    BY <1>5, <1>10, <2>1, <2>2
<1>12. OneTokenPerLogin'
  <2> SUFFICES ASSUME NEW l \in (1 .. logins) \ raced PROVE OneToken(l)'
    BY <1>3 DEF OneTokenPerLogin, OneToken
  <2>1. CASE l # c.login
    <3>1. Tokens(l)' = Tokens(l)
      BY <1>2, <1>5, <2>1 DEF Tokens
    <3>2. Issuers(l)' = Issuers(l)
      BY <1>2, <1>4, <1>6, <1>7, <2>1 DEF Issuers, At
    <3> QED
      BY <1>3, <2>1, <3>1, <3>2 DEF OneToken, AuthInv, OneTokenPerLogin
  <2>2. CASE l = c.login
    <3>1. l \notin ended \cup lost /\ Tokens(l) = {c.token} /\ Issuers(l) = {}
      BY <1>1, <2>2, OpenTokenIsTheOne
    <3>2. Tokens(l)' = {}
      BY <1>5, <3>1 DEF Tokens
    <3>3. \A q \in AuthSessions : q # s => q \notin Issuers(l)'
      BY <1>6, <3>1 DEF Issuers, At
    <3>4. CASE c.step = "revoke"
      <4>1. auth_calls'[s] = next /\ ended' = ended
        BY <1>7, <3>4
      <4>2. Issuers(l)' = {s}
        BY <1>4, <2>2, <3>3, <4>1 DEF Issuers, At
      <4> QED
        BY <1>3, <3>1, <3>2, <4>1, <4>2 DEF OneToken
    <3>5. CASE c.step = "end"
      <4>1. auth_calls'[s] = NoCall /\ ended' = ended \cup {c.login}
        BY <1>7, <3>5
      <4>2. Issuers(l)' = {}
        BY <3>3, <4>1 DEF Issuers, At
      <4> QED
        BY <2>2, <3>2, <4>1, <4>2 DEF OneToken
    <3> QED
      BY <1>2, <3>4, <3>5
  <2> QED
    BY <2>1, <2>2
<1> QED
  BY <1>8, <1>9, <1>11, <1>12


\* The token that was on its way is stored: the login has it instead.
LEMMA IssueKeepsInv ==
    ASSUME AuthInv, NEW s \in AuthSessions, issue(s)
    PROVE  /\ CallsHaveLogins'
           /\ LoginsWereCounted'
           /\ OpenTokensAreUsable'
           /\ OneTokenPerLogin'
<1> PICK c : c = auth_calls[s]
  OBVIOUS
<1> PICK n : n = Len(refresh_tokens) + 1
  OBVIOUS
<1>1. /\ c \in AuthCall /\ c # NoCall /\ c.step = "issue" /\ c.user \in Emails
      /\ c.login \in 1 .. logins /\ c.login \in Logins
  BY AuthCallType, CountedAreLogins DEF AuthInv, CallsHaveLogins, issue, At
<1>2. /\ UNCHANGED <<logins, ended, lost, raced>>
      /\ refresh_tokens' = Append(refresh_tokens,
                               [user |-> c.user, login |-> c.login, revoked |-> FALSE])
      /\ Enter(s, NoCall)
  BY DEF issue
<1>3. PICK t \in RefreshToken :
         /\ refresh_tokens' = Append(refresh_tokens, t)
         /\ t.login = c.login /\ ~t.revoked
  <2>1. [user |-> c.user, login |-> c.login, revoked |-> FALSE] \in RefreshToken
    BY <1>1 DEF RefreshToken
  <2> QED
    BY <1>2, <2>1
<1>4. /\ Len(refresh_tokens) \in Nat /\ Len(refresh_tokens') = n
      /\ refresh_tokens'[n] = t
      /\ \A i \in 1 .. Len(refresh_tokens) : refresh_tokens'[i] = refresh_tokens[i]
  <2>1. refresh_tokens \in Seq(RefreshToken)
    BY DEF AuthInv, AuthTypeOK
  <2> QED
    BY <1>3, <2>1, AppendProperties, LenProperties
<1>5. \A q \in AuthSessions : auth_calls'[q] = IF q = s THEN NoCall ELSE auth_calls[q]
  BY <1>2, EnterCalls DEF AuthInv
<1>6. CallsHaveLogins'
  <2> SUFFICES ASSUME NEW q \in AuthSessions
               PROVE  /\ At(q, "issue")' => auth_calls'[q].login \in 1 .. logins
                      /\ At(q, "revoke")' \/ At(q, "end")' =>
                            /\ auth_calls'[q].token \in 1 .. n
                            /\ auth_calls'[q].login = refresh_tokens'[auth_calls'[q].token].login
    BY <1>2, <1>4 DEF CallsHaveLogins
  <2> QED
    BY <1>4, <1>5 DEF At, AuthInv, CallsHaveLogins
<1>7. LoginsWereCounted'
  BY <1>1, <1>2, <1>3, <1>4 DEF AuthInv, LoginsWereCounted
<1>8. \A q \in AuthSessions, i \in 1 .. n :
         HasOpen(q, i)' => HasOpen(q, i) /\ i \in 1 .. Len(refresh_tokens)
  <2>1. \A q \in AuthSessions, i \in 1 .. n : HasOpen(q, i)' => HasOpen(q, i)
    BY <1>5 DEF HasOpen
  <2>2. \A q \in AuthSessions, i \in 1 .. n :
           HasOpen(q, i) => i \in 1 .. Len(refresh_tokens)
    BY DEF HasOpen, AuthInv, CallsHaveLogins, At
  <2> QED
    BY <2>1, <2>2
<1>9. OpenTokensAreUsable'
  BY <1>2, <1>4, <1>8 DEF AuthInv, OpenTokensAreUsable
<1>10. OneTokenPerLogin'
  <2> SUFFICES ASSUME NEW l \in (1 .. logins) \ raced PROVE OneToken(l)'
    BY <1>2 DEF OneTokenPerLogin, OneToken
  <2>1. CASE l # c.login
    <3>1. Tokens(l)' = Tokens(l)
      BY <1>3, <1>4, <2>1 DEF Tokens
    <3>2. Issuers(l)' = Issuers(l)
      BY <1>5, <2>1 DEF Issuers, At
    <3> QED
      BY <1>2, <3>1, <3>2 DEF OneToken, AuthInv, OneTokenPerLogin
  <2>2. CASE l = c.login
    <3>1. s \in Issuers(l)
      BY <1>1, <2>2 DEF Issuers, At
    <3>2. l \notin ended \cup lost /\ Tokens(l) = {} /\ Issuers(l) = {s}
      BY <3>1 DEF OneToken, AuthInv, OneTokenPerLogin
    <3>3. Tokens(l)' = {n}
      BY <1>3, <1>4, <2>2, <3>2 DEF Tokens
    <3>4. Issuers(l)' = {}
      BY <1>5, <3>2 DEF Issuers, At
    <3> QED
      BY <1>2, <3>2, <3>3, <3>4 DEF OneToken
  <2> QED
    BY <2>1, <2>2
<1> QED
  BY <1>6, <1>7, <1>9, <1>10

\* Calls that end on the way, one or all of them, leave their logins without a
\* token exactly when they were to store one.
LEMMA FailuresKeepInv ==
    ASSUME AuthInv, UNCHANGED <<refresh_tokens, logins, ended, raced>>, NEW S \in SUBSET AuthSessions,
           \A q \in AuthSessions : auth_calls'[q] = IF q \in S THEN NoCall ELSE auth_calls[q],
           lost' = lost \cup {auth_calls[s].login : s \in {q \in S : At(q, "issue")}}
    PROVE  /\ CallsHaveLogins'
           /\ LoginsWereCounted'
           /\ OpenTokensAreUsable'
           /\ OneTokenPerLogin'
<1>1. CallsHaveLogins'
  BY DEF AuthInv, CallsHaveLogins, At
<1>2. \A q \in S : At(q, "issue") => auth_calls[q].login \in 1 .. logins
  BY DEF AuthInv, CallsHaveLogins
<1>3. LoginsWereCounted'
  BY <1>2 DEF AuthInv, LoginsWereCounted
<1>4. \A q \in AuthSessions, i \in 1 .. Len(refresh_tokens) : HasOpen(q, i)' => HasOpen(q, i)
  BY DEF HasOpen
<1>5. OpenTokensAreUsable'
  BY <1>4 DEF AuthInv, OpenTokensAreUsable
<1>6. OneTokenPerLogin'
  <2> SUFFICES ASSUME NEW l \in (1 .. logins) \ raced PROVE OneToken(l)'
    BY DEF OneTokenPerLogin, OneToken
  <2>1. Tokens(l)' = Tokens(l) /\ Issuers(l)' = Issuers(l) \ S
    BY DEF Tokens, Issuers, At
  <2>2. l \in lost' <=> l \in lost \/ Issuers(l) \cap S # {}
    BY DEF Issuers
  <2>3. OneToken(l)
    BY DEF AuthInv, OneTokenPerLogin, OneToken
  <2>4. CASE Issuers(l) \cap S = {}
    BY <2>1, <2>2, <2>3, <2>4 DEF OneToken
  <2>5. CASE Issuers(l) \cap S # {}
    <3>1. Tokens(l) = {} /\ Issuers(l) \ S = {}
      BY <2>3, <2>5 DEF OneToken
    <3> QED
      BY <2>1, <2>2, <2>5, <3>1 DEF OneToken
  <2> QED
    BY <2>4, <2>5
<1> QED
  BY <1>1, <1>3, <1>5, <1>6

LEMMA AuthInvNext == AuthInv /\ [AuthNext]_authVars => AuthInv'
<1> SUFFICES ASSUME AuthInv, [AuthNext]_authVars PROVE AuthInv'
  OBVIOUS
<1>0. AuthTypeOK'
  BY AuthTypeNext DEF AuthInv
<1> USE <1>0
<1>1. CASE service_starts
  <2>1. \A q \in AuthSessions : auth_calls'[q] = NoCall
    BY <1>1 DEF service_starts
  <2> QED
    BY <1>1, <2>1, FailuresKeepInv DEF service_starts, AuthInv
<1>2. ASSUME NEW l \in Logins, NEW e \in Emails, NEW role \in UserRole,
             update_user_role(l, e, role)
      PROVE  AuthInv'
  BY <1>2, OtherCallsKeepInv DEF update_user_role, AuthInv
<1>3. ASSUME NEW s \in AuthSessions, NEW e \in Emails, register(s, e)
      PROVE  AuthInv'
  <2> DEFINE call == [step |-> "insert", user |-> e, login |-> 0, token |-> 0]
  <2>1. \A q \in AuthSessions : auth_calls'[q] = IF q = s THEN call ELSE auth_calls[q]
    BY <1>3, EnterCalls DEF register, AuthInv
  <2>2. ~At(s, "issue") /\ call.step = "insert"
    BY <1>3 DEF register, Idle, At
  <2>3. \A q \in AuthSessions :
           \/ auth_calls'[q] = auth_calls[q]
           \/ /\ ~At(q, "issue")
              /\ ~At(q, "issue")' /\ ~At(q, "revoke")' /\ ~At(q, "end")'
    BY <2>1, <2>2 DEF At
  <2> QED
    BY <1>3, <2>3, OtherCallsKeepInv DEF register, AuthInv
<1>4. ASSUME NEW s \in AuthSessions, NEW e \in Emails, login(s, e)
      PROVE  AuthInv'
  <2>1. ~At(s, "issue")
    BY <1>4 DEF login, Idle, At
  <2> QED
    BY <1>4, <2>1, StartLoginKeepsInv DEF login, AuthInv
<1>5. ASSUME NEW s \in AuthSessions, insert_user(s)
      PROVE  AuthInv'
  <2>1. ~At(s, "issue") /\ auth_calls[s].user \in Emails
    BY <1>5, AuthCallType DEF insert_user, At, AuthInv
  <2>2. CASE roles[auth_calls[s].user] # "none"
    <3>1. \A q \in AuthSessions : auth_calls'[q] = IF q = s THEN NoCall ELSE auth_calls[q]
      BY <1>5, <2>2, EnterCalls DEF insert_user, AuthInv
    <3>2. \A q \in AuthSessions :
             \/ auth_calls'[q] = auth_calls[q]
             \/ /\ ~At(q, "issue")
                /\ ~At(q, "issue")' /\ ~At(q, "revoke")' /\ ~At(q, "end")'
      BY <2>1, <3>1 DEF At
    <3> QED
      BY <1>5, <2>2, <3>2, OtherCallsKeepInv DEF insert_user, AuthInv
  <2>3. CASE roles[auth_calls[s].user] = "none"
    BY <1>5, <2>1, <2>3, StartLoginKeepsInv DEF insert_user, AuthInv
  <2> QED
    BY <2>2, <2>3
<1>6. ASSUME NEW s \in AuthSessions, NEW k \in 1 .. Len(refresh_tokens),
             NEW step \in {"revoke", "end"}, read_token(s, k, step)
      PROVE  AuthInv'
  BY <1>6, ReadTokenKeepsInv DEF AuthInv
<1>7. ASSUME NEW s \in AuthSessions, revoke(s) \/ end_login(s)
      PROVE  AuthInv'
  BY <1>7, RevokeKeepsInv DEF AuthInv
<1>8. ASSUME NEW s \in AuthSessions, issue(s)
      PROVE  AuthInv'
  BY <1>8, IssueKeepsInv DEF AuthInv
<1>9. ASSUME NEW s \in AuthSessions, call_fails(s)
      PROVE  AuthInv'
  <2>1. \A q \in AuthSessions : auth_calls'[q] = IF q \in {s} THEN NoCall ELSE auth_calls[q]
    BY <1>9, EnterCalls DEF call_fails, AuthInv
  <2>2. lost' = lost \cup {auth_calls[p].login : p \in {q \in {s} : At(q, "issue")}}
    BY <1>9 DEF call_fails, At
  <2> QED
    BY <1>9, <2>1, <2>2, FailuresKeepInv DEF call_fails, AuthInv
<1>10. CASE UNCHANGED authVars
  <2>1. UNCHANGED <<refresh_tokens, logins, ended, lost, raced, auth_calls>>
    BY <1>10 DEF authVars
  <2> QED
    BY <2>1, OtherCallsKeepInv DEF AuthInv
<1> QED
  BY <1>1, <1>2, <1>3, <1>4, <1>5, <1>6, <1>7, <1>8, <1>9, <1>10
     DEF AuthNext, refresh, logout

LEMMA AuthInvInit == AuthInit => AuthInv
<1> SUFFICES ASSUME AuthInit PROVE AuthInv
  OBVIOUS
<1>1. AuthTypeOK
  BY AuthAssumption DEF AuthInit, AuthTypeOK, WithBootstrapAdmin, UserRole
<1>2. \A s \in AuthSessions : auth_calls[s] = NoCall
  BY DEF AuthInit
<1> QED
  BY <1>1, <1>2 DEF AuthInit, AuthInv, CallsHaveLogins, LoginsWereCounted,
        OpenTokensAreUsable, OneTokenPerLogin, At, HasOpen

LEMMA AuthInvariant == AuthSpec => []AuthInv
BY AuthInvInit, AuthInvNext, PTL DEF AuthSpec

-----------------------------------------------------------------------------

\* The variables of the auth service stay within their types.
THEOREM AuthTypeCorrect == AuthSpec => []AuthTypeOK
<1>1. AuthInv => AuthTypeOK
  BY DEF AuthInv
<1> QED
  BY <1>1, AuthInvariant, PTL

\* However often a login is refreshed, by whatever threads, it has one usable
\* token or one on its way, until a logout or a failure between the two commits.
THEOREM TokensStaySingle == AuthSpec => []OneTokenPerLogin
<1>1. AuthInv => OneTokenPerLogin
  BY DEF AuthInv
<1> QED
  BY <1>1, AuthInvariant, PTL

(***************************************************************************)
(* Part 3.  Trace contexts.  The sequences only grow, so what refers to    *)
(* requests and messages by position goes on to refer to the same.  The    *)
(* invariant says of each unit at work what the property says of messages. *)
(***************************************************************************)

\* Trace context c belongs to request number request and to cause.
Belongs(c, cause, request, rs, ms) ==
    /\ c \in TraceContext
    /\ request \in 1 .. Len(rs)
    /\ c.trace_id = rs[request].trace_id
    /\ cause # 0 => /\ cause \in 1 .. Len(ms)
                    /\ c.parent_span_id = ms[cause].trace.span_id

Asked(r, rs) ==
    /\ r.header # NoContext => r.trace_id = r.header.trace_id
    /\ r.from # 0 => /\ r.from \in 1 .. Len(rs)
                     /\ r.trace_id = rs[r.from].trace_id

Traced(m, rs, ms) == Belongs(m.trace, m.cause, m.request, rs, ms)

\* What unit w does under context c, and what it will publish.
Follows(w, c, rs, ms) ==
    /\ w \in Work
    /\ Belongs(c, w.cause, w.request, rs, ms)
    /\ \A i \in 1 .. Len(w.rows) :
          /\ w.rows[i].trace = c
          /\ w.rows[i].cause = w.cause
          /\ w.rows[i].request = w.request

RequestsFollow == \A k \in 1 .. Len(requests) : Asked(requests[k], requests)
MessagesFollow == \A i \in 1 .. Len(topic) : Traced(topic[i], requests, topic)
UnitsFollow ==
    \A t \in Tasks : work[t] # NoWork => Follows(work[t], context[t], requests, topic)

TracingInv ==
    /\ TracingTypeOK
    /\ RequestsFollow
    /\ MessagesFollow
    /\ UnitsFollow

Extends(s, u) ==
    /\ Len(s) \in Nat /\ Len(u) \in Nat
    /\ Len(s) <= Len(u)
    /\ \A i \in 1 .. Len(s) : u[i] = s[i]

-----------------------------------------------------------------------------
(* Growth.                                                                 *)

LEMMA Appended ==
    ASSUME NEW S, NEW s \in Seq(S), NEW e \in S
    PROVE  /\ Append(s, e) \in Seq(S)
           /\ Extends(s, Append(s, e))
           /\ Len(Append(s, e)) = Len(s) + 1
           /\ Append(s, e)[Len(s) + 1] = e
BY AppendProperties, LenProperties DEF Extends

\* Nothing that belongs stops to belong.
LEMMA BelongsOn ==
    ASSUME NEW c, NEW cause, NEW request, NEW rs, NEW ms, NEW rs2, NEW ms2,
           Belongs(c, cause, request, rs, ms), Extends(rs, rs2), Extends(ms, ms2)
    PROVE  Belongs(c, cause, request, rs2, ms2)
BY DEF Belongs, Extends

\* Units that go on while the sequences grow.
LEMMA UnitsFollowOn ==
    ASSUME TracingTypeOK, UnitsFollow, Extends(requests, requests'), Extends(topic, topic'),
           NEW t \in Tasks, NEW w, NEW c,
           work' = [work EXCEPT ![t] = w],
           context' = [context EXCEPT ![t] = c],
           w = NoWork \/ Follows(w, c, requests', topic')
    PROVE  UnitsFollow'
<1> SUFFICES ASSUME NEW u \in Tasks, work'[u] # NoWork
             PROVE  Follows(work'[u], context'[u], requests', topic')
  BY DEF UnitsFollow
<1>1. CASE u = t
  BY <1>1 DEF TracingTypeOK
<1>2. CASE u # t
  <2>1. work'[u] = work[u] /\ context'[u] = context[u]
    BY <1>2 DEF TracingTypeOK
  <2>2. Follows(work[u], context[u], requests, topic)
    BY <2>1 DEF UnitsFollow
  <2>3. Belongs(context[u], work[u].cause, work[u].request, requests', topic')
    BY <2>2, BelongsOn DEF Follows
  <2> QED
    BY <2>1, <2>2, <2>3 DEF Follows
<1> QED
  BY <1>1, <1>2

\* Requests and messages that are there while the sequences grow.
LEMMA RequestsFollowOn ==
    ASSUME RequestsFollow, Extends(requests, requests'),
           \A k \in 1 .. Len(requests') :
              k > Len(requests) => Asked(requests'[k], requests')
    PROVE  RequestsFollow'
<1> SUFFICES ASSUME NEW k \in 1 .. Len(requests')
             PROVE  Asked(requests'[k], requests')
  BY DEF RequestsFollow
<1>1. CASE k > Len(requests)
  BY <1>1
<1>2. CASE ~(k > Len(requests))
  <2>1. k \in 1 .. Len(requests) /\ requests'[k] = requests[k]
    BY <1>2 DEF Extends
  <2>2. Asked(requests[k], requests)
    BY <2>1 DEF RequestsFollow
  <2> QED
    BY <2>1, <2>2 DEF Asked, Extends
<1> QED
  BY <1>1, <1>2

LEMMA MessagesFollowOn ==
    ASSUME MessagesFollow, Extends(requests, requests'), Extends(topic, topic'),
           \A i \in 1 .. Len(topic') :
              i > Len(topic) => Traced(topic'[i], requests', topic')
    PROVE  MessagesFollow'
<1> SUFFICES ASSUME NEW i \in 1 .. Len(topic')
             PROVE  Traced(topic'[i], requests', topic')
  BY DEF MessagesFollow
<1>1. CASE i > Len(topic)
  BY <1>1
<1>2. CASE ~(i > Len(topic))
  <2>1. i \in 1 .. Len(topic) /\ topic'[i] = topic[i]
    BY <1>2 DEF Extends
  <2>2. Traced(topic[i], requests, topic)
    BY <2>1 DEF MessagesFollow
  <2> QED
    BY <2>1, <2>2, BelongsOn DEF Traced
<1> QED
  BY <1>1, <1>2

LEMMA Unchanged ==
    ASSUME TracingTypeOK
    PROVE  Extends(requests, requests) /\ Extends(topic, topic)
BY LenProperties DEF TracingTypeOK, Extends

\* A new span is in its parent's trace and a child of its parent.
LEMMA NewSpan ==
    ASSUME TracingTypeOK, NEW parent \in TraceContext \cup {NoContext}
    PROVE  /\ NewContext(parent) \in TraceContext
           /\ parent # NoContext => /\ NewContext(parent).trace_id = parent.trace_id
                                    /\ NewContext(parent).parent_span_id = parent.span_id
BY TracingAssumption DEF NewContext, TraceContext, TracingTypeOK

-----------------------------------------------------------------------------
(* Steps.                                                                  *)

\* A request with a header, sent by a unit of the request from or by nobody.
LEMMA HandleRequest ==
    ASSUME TracingInv, NEW t \in Tasks, NEW header \in TraceContext \cup {NoContext},
           NEW from \in Nat, handle_request(t, header, from),
           from # 0 => /\ header # NoContext
                       /\ from \in 1 .. Len(requests)
                       /\ header.trace_id = requests[from].trace_id
    PROVE  TracingInv'
<1> USE TracingAssumption
<1> DEFINE c == NewContext(header)
           r == [header |-> header, from |-> from, trace_id |-> c.trace_id]
           w == [cause |-> 0, request |-> Len(requests) + 1, rows |-> <<>>]
<1>t. TracingTypeOK
  BY DEF TracingInv
<1>1. /\ requests' = Append(requests, r) /\ topic' = topic /\ failed' = failed
      /\ drawn' = drawn + 2
      /\ work' = [work EXCEPT ![t] = w] /\ context' = [context EXCEPT ![t] = c]
  BY DEF handle_request, start_trace, draw
<1>2. /\ c \in TraceContext
      /\ header # NoContext => c.trace_id = header.trace_id
  BY <1>t, NewSpan
<1>3. r \in Request /\ w.rows \in Seq(Message) /\ Len(w.rows) = 0
  BY <1>2, EmptySeq DEF Request, TraceContext
<1>4. w \in Work
  BY <1>t, <1>3, LenProperties DEF TracingTypeOK, Work
<1>5. /\ r.header = header /\ r.from = from /\ r.trace_id = c.trace_id
      /\ w.cause = 0 /\ w.request = Len(requests) + 1
  OBVIOUS
<1> HIDE DEF c, r, w
<1>6. /\ requests' \in Seq(Request)
      /\ Extends(requests, requests') /\ Extends(topic, topic')
      /\ Len(requests') = Len(requests) + 1
      /\ requests'[Len(requests) + 1] = r
  BY <1>t, <1>1, <1>3, Appended, Unchanged DEF TracingTypeOK
<1>7. RequestsFollow'
  <2>1. Asked(r, requests')
    BY <1>2, <1>5, <1>6 DEF Asked, Extends
  <2>2. \A k \in 1 .. Len(requests') : k > Len(requests) => k = Len(requests) + 1
    BY <1>6 DEF Extends
  <2> QED
    BY <1>6, <2>1, <2>2, RequestsFollowOn DEF TracingInv
<1>8. MessagesFollow'
  BY <1>1, <1>6, MessagesFollowOn DEF TracingInv
<1>9. UnitsFollow'
  <2>1. Follows(w, c, requests', topic')
    BY <1>2, <1>3, <1>4, <1>5, <1>6 DEF Follows, Belongs, Extends
  <2> QED
    BY <1>1, <1>6, <2>1, UnitsFollowOn DEF TracingInv
<1>10. TracingTypeOK'
  BY <1>t, <1>1, <1>2, <1>4, <1>6 DEF TracingTypeOK
<1> QED
  BY <1>7, <1>8, <1>9, <1>10 DEF TracingInv

\* A message that belongs is appended, and no task changes its unit.
LEMMA PublishOne ==
    ASSUME TracingInv, NEW m \in Message, Traced(m, requests, topic),
           topic' = Append(topic, m), drawn' \in Nat,
           UNCHANGED <<context, work, requests, failed>>
    PROVE  TracingInv'
<1>t. TracingTypeOK
  BY DEF TracingInv
<1>1. /\ topic' \in Seq(Message)
      /\ Extends(requests, requests') /\ Extends(topic, topic')
      /\ Len(topic') = Len(topic) + 1
      /\ topic'[Len(topic) + 1] = m
  BY <1>t, Appended, Unchanged DEF TracingTypeOK
<1>2. RequestsFollow'
  BY <1>1, RequestsFollowOn DEF TracingInv
<1>3. MessagesFollow'
  <2>1. Traced(m, requests', topic')
    BY <1>1, BelongsOn DEF Traced
  <2>2. \A k \in 1 .. Len(topic') : k > Len(topic) => k = Len(topic) + 1
    BY <1>1 DEF Extends
  <2> QED
    BY <1>1, <2>1, <2>2, MessagesFollowOn DEF TracingInv
<1>4. UnitsFollow'
  <2> SUFFICES ASSUME NEW u \in Tasks, work[u] # NoWork
               PROVE  Follows(work[u], context[u], requests', topic')
    BY DEF UnitsFollow
  <2>1. Follows(work[u], context[u], requests, topic)
    BY DEF TracingInv, UnitsFollow
  <2>2. Belongs(context[u], work[u].cause, work[u].request, requests', topic')
    BY <1>1, <2>1, BelongsOn DEF Follows
  <2> QED
    BY <2>1, <2>2 DEF Follows
<1>5. TracingTypeOK'
  BY <1>t, <1>1 DEF TracingTypeOK
<1> QED
  BY <1>2, <1>3, <1>4, <1>5 DEF TracingInv

LEMMA PublishSpan ==
    ASSUME TracingInv, NEW i \in 1 .. Len(topic), NEW kind \in {"event", "dead_letter"},
           NEW original \in Nat, PublishInSpan(i, kind, original, NoContext)
    PROVE  TracingInv'
<1> DEFINE c == NewContext(topic[i].trace)
           m == [kind |-> kind, trace |-> c, original |-> original, cause |-> i,
                 request |-> topic[i].request]
<1>t. TracingTypeOK
  BY DEF TracingInv
<1>1. topic[i] \in Message /\ Traced(topic[i], requests, topic)
  BY <1>t, ElementOfSeq DEF TracingTypeOK, TracingInv, MessagesFollow
<1>2. /\ topic[i].trace \in TraceContext
      /\ topic[i].request \in 1 .. Len(requests)
      /\ topic[i].trace.trace_id = requests[topic[i].request].trace_id
  BY <1>1 DEF Traced, Belongs
<1>3. /\ c \in TraceContext
      /\ c.trace_id = topic[i].trace.trace_id
      /\ c.parent_span_id = topic[i].trace.span_id
  BY <1>t, <1>2, NewSpan, TracingAssumption
<1>4. /\ topic' = Append(topic, m) /\ drawn' = drawn + 2
      /\ UNCHANGED <<context, work, requests, failed>>
  BY DEF PublishInSpan, inject_trace_metadata, traceparent_from_event, draw
<1>5. /\ m.trace = c /\ m.cause = i /\ m.request = topic[i].request
  OBVIOUS
<1>6. m \in Message
  BY <1>1, <1>3 DEF Message
<1> HIDE DEF m, c
<1>7. Traced(m, requests, topic)
  BY <1>2, <1>3, <1>5 DEF Traced, Belongs
<1>8. drawn' \in Nat
  BY <1>t, <1>4 DEF TracingTypeOK
<1> QED
  BY <1>4, <1>6, <1>7, <1>8, PublishOne

\* A unit begins or ends, or gets a row, without publication or request.
LEMMA UnitStep ==
    ASSUME TracingInv, NEW t \in Tasks, NEW w \in Work \cup {NoWork},
           NEW c \in TraceContext \cup {NoContext},
           work' = [work EXCEPT ![t] = w], context' = [context EXCEPT ![t] = c],
           w = NoWork \/ Follows(w, c, requests, topic),
           drawn' \in Nat, failed' \in SUBSET Nat, UNCHANGED <<requests, topic>>
    PROVE  TracingInv'
<1>t. TracingTypeOK
  BY DEF TracingInv
<1>1. Extends(requests, requests') /\ Extends(topic, topic')
  BY <1>t, Unchanged
<1>2. UnitsFollow'
  BY <1>1, UnitsFollowOn DEF TracingInv
<1>3. RequestsFollow' /\ MessagesFollow'
  BY DEF TracingInv, RequestsFollow, MessagesFollow
<1>4. TracingTypeOK'
  BY <1>t DEF TracingTypeOK
<1> QED
  BY <1>2, <1>3, <1>4 DEF TracingInv

LEMMA HandleEvent ==
    ASSUME TracingInv, NEW t \in Tasks, NEW i \in 1 .. Len(topic), handle_event(t, i)
    PROVE  TracingInv'
<1> DEFINE c == NewContext(topic[i].trace)
           w == [cause |-> i, request |-> topic[i].request, rows |-> <<>>]
<1>t. TracingTypeOK
  BY DEF TracingInv
<1>1. topic[i] \in Message /\ Traced(topic[i], requests, topic)
  BY <1>t, ElementOfSeq DEF TracingTypeOK, TracingInv, MessagesFollow
<1>2. /\ topic[i].trace \in TraceContext
      /\ topic[i].request \in 1 .. Len(requests)
      /\ topic[i].trace.trace_id = requests[topic[i].request].trace_id
  BY <1>1 DEF Traced, Belongs
<1>3. /\ c \in TraceContext
      /\ c.trace_id = topic[i].trace.trace_id
      /\ c.parent_span_id = topic[i].trace.span_id
  BY <1>t, <1>2, NewSpan, TracingAssumption
<1>4. /\ work' = [work EXCEPT ![t] = w] /\ context' = [context EXCEPT ![t] = c]
      /\ drawn' = drawn + 2 /\ UNCHANGED <<requests, topic, failed>>
  BY DEF handle_event, start_trace, traceparent_from_event, draw
<1>5. w.rows \in Seq(Message) /\ Len(w.rows) = 0
  BY EmptySeq
<1>6. w \in Work /\ w.cause = i /\ w.request = topic[i].request
  BY <1>1, <1>5 DEF Work, Message
<1> HIDE DEF w, c
<1>7. Follows(w, c, requests, topic)
  BY <1>2, <1>3, <1>5, <1>6 DEF Follows, Belongs
<1>8. drawn' \in Nat /\ failed' \in SUBSET Nat
  BY <1>t, <1>4 DEF TracingTypeOK
<1> QED
  BY <1>3, <1>4, <1>6, <1>7, <1>8, UnitStep

LEMMA AddOutboxEvent ==
    ASSUME TracingInv, NEW t \in Tasks, add_outbox_event(t)
    PROVE  TracingInv'
<1> DEFINE u == work[t]
           c == context[t]
           m == [kind |-> "event", trace |-> c, original |-> 0,
                 cause |-> u.cause, request |-> u.request]
           w == [u EXCEPT !.rows = <<m>>]
<1>t. TracingTypeOK
  BY DEF TracingInv
<1>1. u \in Work /\ Follows(u, c, requests, topic)
  BY <1>t DEF add_outbox_event, TracingTypeOK, TracingInv, UnitsFollow
<1>2. c \in TraceContext
  BY <1>1 DEF Follows, Belongs
<1>3. m \in Message
  BY <1>1, <1>2 DEF Message, Work
<1>4. work' = [work EXCEPT ![t] = w] /\ UNCHANGED <<drawn, context, requests, topic, failed>>
  BY DEF add_outbox_event, inject_trace_metadata
<1>5. context' = [context EXCEPT ![t] = c]
  BY <1>t, <1>4 DEF TracingTypeOK
<1>6. /\ m.trace = c /\ m.cause = u.cause /\ m.request = u.request
  OBVIOUS
<1> HIDE DEF m
<1>7. <<m>> \in Seq(Message) /\ Len(<<m>>) = 1 /\ <<m>>[1] = m
  BY <1>3
<1>8. w \in Work /\ w.cause = u.cause /\ w.request = u.request /\ w.rows = <<m>>
  BY <1>1, <1>7 DEF Work
<1> HIDE DEF w, u, c
<1>9. Follows(w, c, requests, topic)
  BY <1>1, <1>6, <1>7, <1>8 DEF Follows
<1>10. drawn' \in Nat /\ failed' \in SUBSET Nat
  BY <1>t, <1>4 DEF TracingTypeOK
<1> QED
  BY <1>2, <1>4, <1>5, <1>8, <1>9, <1>10, UnitStep

LEMMA EndWork ==
    ASSUME TracingInv, NEW t \in Tasks, end_work(t)
    PROVE  TracingInv'
<1> DEFINE rows == work[t].rows
<1>t. TracingTypeOK
  BY DEF TracingInv
<1>1. work[t] \in Work /\ Follows(work[t], context[t], requests, topic)
  BY <1>t DEF end_work, TracingTypeOK, TracingInv, UnitsFollow
<1>2. /\ rows \in Seq(Message) /\ topic \in Seq(Message)
      /\ Len(rows) \in Nat /\ Len(topic) \in Nat
  BY <1>t, <1>1, LenProperties DEF Work, TracingTypeOK
<1>3. /\ topic' = topic \o rows /\ UNCHANGED <<drawn, requests, failed>>
      /\ work' = [work EXCEPT ![t] = NoWork]
      /\ context' = [context EXCEPT ![t] = NoContext]
  BY DEF end_work, end_trace
<1>4. /\ topic' \in Seq(Message)
      /\ Len(topic') = Len(topic) + Len(rows)
      /\ \A i \in 1 .. Len(topic) + Len(rows) :
            topic'[i] = IF i <= Len(topic) THEN topic[i] ELSE rows[i - Len(topic)]
  BY <1>2, <1>3, ConcatProperties
<1>5. Extends(requests, requests') /\ Extends(topic, topic')
  BY <1>t, <1>2, <1>3, <1>4, Unchanged DEF Extends
<1>6. UnitsFollow'
  BY <1>3, <1>5, UnitsFollowOn DEF TracingInv
<1>7. RequestsFollow'
  BY <1>3 DEF TracingInv, RequestsFollow
<1>8. MessagesFollow'
  <2> SUFFICES ASSUME NEW i \in 1 .. Len(topic'), i > Len(topic)
               PROVE  Traced(topic'[i], requests', topic')
    BY <1>5, MessagesFollowOn DEF TracingInv
  <2>1. i - Len(topic) \in 1 .. Len(rows) /\ topic'[i] = rows[i - Len(topic)]
    BY <1>2, <1>4
  <2>2. /\ topic'[i].trace = context[t] /\ topic'[i].cause = work[t].cause
        /\ topic'[i].request = work[t].request
    BY <1>1, <2>1 DEF Follows
  <2>3. Belongs(context[t], work[t].cause, work[t].request, requests', topic')
    BY <1>1, <1>5, BelongsOn DEF Follows
  <2> QED
    BY <2>2, <2>3 DEF Traced
<1>9. TracingTypeOK'
  BY <1>t, <1>3, <1>4 DEF TracingTypeOK
<1> QED
  BY <1>6, <1>7, <1>8, <1>9 DEF TracingInv

\* TracingInv is inductive.
LEMMA TracingInvInductive ==
    /\ TracingInit => TracingInv
    /\ TracingInv /\ [TracingNext]_traceVars => TracingInv'
<1> USE TracingAssumption
<1>1. TracingInit => TracingInv
  BY EmptySeq
  DEF TracingInit, TracingInv, TracingTypeOK, RequestsFollow, MessagesFollow, UnitsFollow
<1>2. TracingInv /\ [TracingNext]_traceVars => TracingInv'
  <2> SUFFICES ASSUME TracingInv, [TracingNext]_traceVars
               PROVE  TracingInv'
    OBVIOUS
  <2>t. TracingTypeOK
    BY DEF TracingInv
  <2>1. ASSUME NEW t \in Tasks, receive_request(t)
        PROVE  TracingInv'
    <3>1. PICK header \in {NoContext, ClientContext} : handle_request(t, header, 0)
      BY <2>1 DEF receive_request
    <3>2. header \in TraceContext \cup {NoContext}
      BY DEF ClientContext, TraceContext
    <3> QED
      BY <3>1, <3>2, HandleRequest
  <2>2. ASSUME NEW t \in Tasks, NEW s \in Tasks, forward_request(t, s)
        PROVE  TracingInv'
    <3>1. /\ work[t] \in Work /\ Follows(work[t], context[t], requests, topic)
          /\ handle_request(s, context[t], work[t].request)
      BY <2>2, <2>t DEF forward_request, TracingTypeOK, TracingInv, UnitsFollow
    <3>2. /\ context[t] \in TraceContext /\ work[t].request \in 1 .. Len(requests)
          /\ context[t].trace_id = requests[work[t].request].trace_id
          /\ work[t].request \in Nat
      BY <3>1 DEF Follows, Belongs, Work
    <3> QED
      BY <3>1, <3>2, HandleRequest
  <2>3. ASSUME NEW t \in Tasks, raise(t)
        PROVE  TracingInv'
    <3>1. work[t] \in Work
      BY <2>3, <2>t DEF raise, TracingTypeOK
    <3>2. failed' \in SUBSET Nat
      BY <2>3, <2>t, <3>1 DEF raise, TracingTypeOK, Work
    <3> QED
      BY <2>3, <2>t, <3>2, UnitStep DEF raise, end_trace, TracingTypeOK
  <2>4. ASSUME NEW i \in 1 .. Len(topic), publish_again(i)
        PROVE  TracingInv'
    <3>1. topic[i] \in Message /\ Traced(topic[i], requests, topic)
      BY <2>t, ElementOfSeq DEF TracingTypeOK, TracingInv, MessagesFollow
    <3> QED
      BY <2>4, <2>t, <3>1, PublishOne DEF publish_again, TracingTypeOK
  <2>5. ASSUME NEW i \in 1 .. Len(topic), publish_dead_letter(i)
        PROVE  TracingInv'
    <3>1. i \in Nat
      BY <2>t, LenProperties DEF TracingTypeOK
    <3> QED
      BY <2>5, <3>1, PublishSpan DEF publish_dead_letter
  <2>6. ASSUME NEW i \in 1 .. Len(topic), run_replay(i)
        PROVE  TracingInv'
    BY <2>6, PublishSpan DEF run_replay
  <2>7. CASE UNCHANGED traceVars
    BY <2>7
    DEF traceVars, TracingInv, TracingTypeOK, RequestsFollow, MessagesFollow, UnitsFollow
  <2> QED
    BY <2>1, <2>2, <2>3, <2>4, <2>5, <2>6, <2>7, HandleEvent, AddOutboxEvent, EndWork
    DEF TracingNext
<1> QED
  BY <1>1, <1>2

-----------------------------------------------------------------------------
(* Theorems.                                                               *)

\* The trace contexts, units, requests and messages stay within their types.
THEOREM TracingTypeCorrect == TracingSpec => []TracingTypeOK
<1>1. TracingInv => TracingTypeOK
  BY DEF TracingInv
<1> QED
  BY <1>1, TracingInvInductive, PTL DEF TracingSpec

\* A trace is the tree of what caused what: start_trace, inject_trace_metadata
\* and run_replay leave no message outside the trace of the request it goes
\* back to, and none beside its cause.
THEOREM TracesFollowCauses == TracingSpec => []TraceFollowsCause
<1>1. TracingInv => TraceFollowsCause
  BY TracingAssumption
  DEF TracingInv, RequestsFollow, MessagesFollow, Asked, Traced, Belongs, TraceFollowsCause
<1> QED
  BY <1>1, TracingInvInductive, PTL DEF TracingSpec
===============================================================================
