------------------------------- MODULE RateLimit -------------------------------
(***************************************************************************)
(* The way of an API request to its handler: the session gate and the      *)
(* limiters mounted in src/index.ts, the fixed-window limiter              *)
(* (src/middleware/rateLimit.ts) and the login route in front of the       *)
(* session store (src/routes/sessionRoutes.ts).                            *)
(*                                                                         *)
(* A device is one network peer of the server or of its reverse proxy.     *)
(* What it writes in the forwarding headers is its own choice; the proxy   *)
(* appends the address it was connected from.  Time is in ticks.           *)
(***************************************************************************)
EXTENDS Integers, Sequences, FiniteSets

CONSTANTS
    Device,          \* network peers
    Session,         \* session ids
    RouteClass,      \* the limiters of the API routes: "api", "extract"
    Max,             \* [limiter -> requests per window]
    Window,          \* [limiter -> ticks]
    TicksPerSecond,  \* Retry-After is in whole seconds
    TrustProxy,      \* TRUST_PROXY: the server stands behind a proxy
    Proxy,           \* the address of that proxy
    Junk,            \* header text that is no IP literal
    MaxClock         \* bound: the model's time ends here

Limiter == {"login"} \cup RouteClass

ASSUME LimiterOptions ==
    /\ Max \in [Limiter -> Nat \ {0}]
    /\ Window \in [Limiter -> Nat \ {0}]
    /\ TicksPerSecond \in Nat \ {0}
    /\ TrustProxy \in BOOLEAN
    /\ MaxClock \in Nat
ASSUME Addresses ==
    /\ Proxy \notin Device /\ Junk \notin Device /\ Proxy # Junk
    /\ Session \cap Device = {}

VARIABLES
    buckets,   \* [limiter -> [key -> [count, resetAt]]]: the Map of each limiter
    clock,     \* Date.now()
    live,      \* sessions that verify
    log,       \* ghost: [limiter -> [owner -> admissions, as [at, from]]]
    refusal    \* ghost: the 429 just sent, as [limiter, owner, at, retryAfter]

limiterVars == <<buckets, clock, live, log, refusal>>

Owner == Device \cup Session        \* who pays for a request
Address == Device \cup {Proxy}
NoBucket == [count |-> 0, resetAt |-> 0]
NoRefusal == [limiter |-> "none", owner |-> Proxy, at |-> 0, retryAfter |-> 0]

-----------------------------------------------------------------------------
\* What the handler sees of a request: the entries of X-Forwarded-For, the
\* X-Real-IP header and the address of the socket.
Claimed == {<<>>} \cup {<<a>> : a \in Device \cup {Junk}}
Header  == Device \cup {Junk}
Reaching(d) ==
    IF TrustProxy
    THEN {[forwarded |-> Append(f, d), realIp |-> h, socket |-> Proxy] : f \in Claimed, h \in Header}
    ELSE {[forwarded |-> f, realIp |-> h, socket |-> d] : f \in Claimed, h \in Header}

LeftmostEntry(f) == f[1]

RightmostProxyAddedEntry(f) == f[Len(f)]

\* clientIp()
ClientIp(r) ==
    IF TrustProxy /\ r.forwarded # <<>> /\ RightmostProxyAddedEntry(r.forwarded) \in Address
    THEN RightmostProxyAddedEntry(r.forwarded)
    ELSE IF TrustProxy /\ r.realIp \in Address THEN r.realIp
    ELSE r.socket

\* The addresses the server may take the device's requests to come from.
SeenAs(d) == {ClientIp(r) : r \in Reaching(d)}

-----------------------------------------------------------------------------
\* RateLimiter.allow()
Expired(b) == clock >= b.resetAt
RefusesAboveMax(l, k) == ~Expired(buckets[l][k]) /\ buckets[l][k].count > Max[l]

Refuses(l, k) == ~Expired(buckets[l][k]) /\ buckets[l][k].count >= Max[l]

Counted(l, k) ==
    IF Expired(buckets[l][k]) THEN [count |-> 1, resetAt |-> clock + Window[l]]
    ELSE [count |-> buckets[l][k].count + 1, resetAt |-> buckets[l][k].resetAt]

\* Math.max(1, Math.ceil((resetAt - now) / 1000))
RetryAfter(l, k) ==
    LET left == buckets[l][k].resetAt - clock
        secs == (left + TicksPerSecond - 1) \div TicksPerSecond
    IN  IF secs > 1 THEN secs ELSE 1

Admit(l, k, o) ==
    /\ ~Refuses(l, k)
    /\ buckets' = [buckets EXCEPT ![l][k] = Counted(l, k)]
    /\ log' = [log EXCEPT ![l][o] =
                 Append(@, [at |-> clock, from |-> Counted(l, k).resetAt - Window[l]])]
    /\ refusal' = NoRefusal
    /\ UNCHANGED clock

Refuse(l, k, o) ==
    /\ Refuses(l, k)
    /\ refusal' = [limiter |-> l, owner |-> o, at |-> clock, retryAfter |-> RetryAfter(l, k)]
    /\ UNCHANGED <<buckets, clock, live, log>>

-----------------------------------------------------------------------------
\* POST /api/session: the attempt is counted before the body is read; the
\* answer is 413, 400, 401 or 503 and changes nothing, or a new session.
LoginAttempt(d) == \E a \in SeenAs(d) :
    /\ Admit("login", a, d)
    /\ UNCHANGED live

LoginSuccess(d) == \E a \in SeenAs(d), s \in Session \ live :
    /\ Admit("login", a, d)
    /\ live' = live \cup {s}

LoginRefused(d) == \E a \in SeenAs(d) : Refuse("login", a, d)

\* DELETE /api/session, or the session expires.
SessionEnds(s) ==
    /\ s \in live
    /\ live' = live \ {s}
    /\ refusal' = NoRefusal
    /\ UNCHANGED <<buckets, clock, log>>

\* /api/*: the session gate answers 401 first, and a request it turns away
\* is never counted; DEFAULT_KEYER keys the others on the session.
ApiCall(l, s) ==
    /\ s \in live
    /\ Admit(l, s, s)
    /\ UNCHANGED live

ApiRefused(l, s) == s \in live /\ Refuse(l, s, s)

\* sweep() by the timer.  (A write sweeps too, when the map has more than
\* 2000 keys.)
Sweep(l) ==
    /\ buckets' = [buckets EXCEPT ![l] =
                     [k \in DOMAIN @ |-> IF Expired(@[k]) THEN NoBucket ELSE @[k]]]
    /\ refusal' = NoRefusal
    /\ UNCHANGED <<clock, live, log>>

Passing ==
    /\ clock < MaxClock
    /\ clock' = clock + 1
    /\ refusal' = NoRefusal
    /\ UNCHANGED <<buckets, live, log>>

LimiterInit ==
    /\ buckets = [l \in Limiter |-> [k \in Owner \cup Address |-> NoBucket]]
    /\ clock = 0
    /\ live = {}
    /\ log = [l \in Limiter |-> [o \in Owner |-> <<>>]]
    /\ refusal = NoRefusal

LimiterNext ==
    \/ \E d \in Device : LoginAttempt(d) \/ LoginSuccess(d) \/ LoginRefused(d)
    \/ \E s \in Session : SessionEnds(s)
    \/ \E s \in Session, l \in RouteClass : ApiCall(l, s) \/ ApiRefused(l, s)
    \/ \E l \in Limiter : Sweep(l)
    \/ Passing

LimiterSpec == LimiterInit /\ [][LimiterNext]_limiterVars

-----------------------------------------------------------------------------
LimiterTypeOK ==
    /\ buckets \in [Limiter -> [Owner \cup Address -> [count : Nat, resetAt : Nat]]]
    /\ clock \in Nat
    /\ live \subseteq Session
    /\ log \in [Limiter -> [Owner -> Seq([at : Nat, from : Int])]]

\* What a fixed window really promises: whatever a device writes in its
\* headers, and however its requests fall on the edges of the windows and on
\* the sweeps, between an admission and the (2 * Max)th after it lies more
\* than one window.
LimitHolds ==
    /\ LimiterTypeOK
    /\ \A l \in Limiter, o \in Owner : \A i \in 1..Len(log[l][o]) :
          i + 2 * Max[l] <= Len(log[l][o]) =>
             log[l][o][i + 2 * Max[l]].at > log[l][o][i].at + Window[l]

\* A 429 is its owner's own doing: it was admitted Max times in the window
\* that refuses it, so no other device can use up its budget, and after the
\* Retry-After it was given that window is over.
RefusalEarned ==
    refusal # NoRefusal =>
        LET l == refusal.limiter
            mine == {i \in 1..Len(log[l][refusal.owner]) :
                        /\ log[l][refusal.owner][i].at <= refusal.at
                        /\ log[l][refusal.owner][i].from + Window[l] > refusal.at
                        /\ log[l][refusal.owner][i].from + Window[l]
                              <= refusal.at + refusal.retryAfter * TicksPerSecond}
        IN  Cardinality(mine) >= Max[l]
=============================================================================
