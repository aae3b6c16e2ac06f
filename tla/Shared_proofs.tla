------------------------------ MODULE Shared_proofs ------------------------------
(***************************************************************************)
(* The promises of the limiter, for every limit, window and number of      *)
(* devices: a device is its own key whatever it claims, no stretch of one  *)
(* window sees more than twice the limit, and a 429 is earned.             *)
(*                                                                         *)
(* And those of the installer, for any number of processes and versions.   *)
(* OkIsOfficial says what an installer has seen when it ends well, and is  *)
(* not inductive: between the check of the checksum and the end there are  *)
(* the rename and the receipt, and nothing but the process's own variables *)
(* says that what it renames is what it checked.  Sound adds that.         *)
(*                                                                         *)
(* And those of the feed cache, for any queries, categories, lifetimes and *)
(* size of the Map.  What a client gets and what an entry holds is decided *)
(* when a load began and read when its last flight ends; CacheInv says     *)
(* what holds of a load between the two, and in which order the loads of   *)
(* one hour can be done.                                                   *)
(***************************************************************************)
EXTENDS RateLimit, RuntimeInstall, FeedCache, FiniteSetTheorems, SequenceTheorems,
        WellFoundedInduction, TLAPS

-----------------------------------------------------------------------------
(* The limiter: the inductive invariant.  Every admission carries the      *)
(* start of the window that admitted it.                                   *)

\* An admission lies in its window and in the past, and Max admissions
\* later another window has begun.
Spaced(l, o) ==
    /\ \A i \in 1..Len(log[l][o]) :
          /\ log[l][o][i].from <= log[l][o][i].at
          /\ log[l][o][i].at <= clock
          /\ log[l][o][i].at < log[l][o][i].from + Window[l]
    /\ \A i \in 1..Len(log[l][o]) :
          i + Max[l] <= Len(log[l][o]) =>
             log[l][o][i].from + Window[l] <= log[l][o][i + Max[l]].from

\* An open bucket counts exactly the last admissions of its owner, those of
\* its window; the ones before lie in windows that were over when it opened.
OpenBucket(l, o) ==
    ~Expired(buckets[l][o]) =>
        /\ buckets[l][o].count <= Max[l]
        /\ buckets[l][o].count <= Len(log[l][o])
        /\ buckets[l][o].resetAt <= clock + Window[l]
        /\ \A i \in 1..Len(log[l][o]) :
              IF i > Len(log[l][o]) - buckets[l][o].count
              THEN log[l][o][i].from + Window[l] = buckets[l][o].resetAt
              ELSE log[l][o][i].from + Window[l] + Window[l] <= buckets[l][o].resetAt

\* Without one every window is over.
ClosedBucket(l, o) ==
    Expired(buckets[l][o]) =>
        \A i \in 1..Len(log[l][o]) : log[l][o][i].from + Window[l] <= clock

Ledger(l, o) == Spaced(l, o) /\ OpenBucket(l, o) /\ ClosedBucket(l, o)

LimiterInv ==
    /\ LimiterTypeOK
    /\ \A l \in Limiter, o \in Owner : Ledger(l, o)
-----------------------------------------------------------------------------
(* Identity: whatever a device claims, the server sees the address the     *)
(* proxy appended or the socket's, so the device is its own key.           *)

LEMMA OwnAddress ==
    ASSUME NEW d \in Device
    PROVE  SeenAs(d) = {d}
<1>1. ASSUME NEW r \in Reaching(d)
      PROVE  ClientIp(r) = d
    <2>1. CASE TrustProxy
        <3>1. PICK f \in Claimed, h \in Header :
                 r = [forwarded |-> Append(f, d), realIp |-> h, socket |-> Proxy]
            BY <1>1, <2>1 DEF Reaching
        <3>2. f = <<>> \/ \E a \in Device \cup {Junk} : f = <<a>>
            BY DEF Claimed
        <3>3. r.forwarded # <<>> /\ RightmostProxyAddedEntry(r.forwarded) = d
            BY <3>1, <3>2 DEF RightmostProxyAddedEntry
        <3> QED BY <2>1, <3>3 DEF ClientIp, Address
    <2>2. CASE ~TrustProxy
        BY <1>1, <2>2 DEF Reaching, ClientIp
    <2> QED BY <2>1, <2>2
<1>2. Reaching(d) # {}
    <2>1. <<>> \in Claimed /\ Junk \in Header
        BY DEF Claimed, Header
    <2>2. CASE TrustProxy
        <3>1. Reaching(d) = {[forwarded |-> Append(f, d), realIp |-> h, socket |-> Proxy] :
                               f \in Claimed, h \in Header}
            BY <2>2 DEF Reaching
        <3>2. [forwarded |-> Append(<<>>, d), realIp |-> Junk, socket |-> Proxy] \in Reaching(d)
            BY <2>1, <3>1
        <3> QED BY <3>2
    <2>3. CASE ~TrustProxy
        <3>1. Reaching(d) = {[forwarded |-> f, realIp |-> h, socket |-> d] :
                               f \in Claimed, h \in Header}
            BY <2>3 DEF Reaching
        <3>2. [forwarded |-> <<>>, realIp |-> Junk, socket |-> d] \in Reaching(d)
            BY <2>1, <3>1
        <3> QED BY <3>2
    <2> QED BY <2>2, <2>3
<1> QED BY <1>1, <1>2 DEF SeenAs

-----------------------------------------------------------------------------
(* Admissions.                                                             *)

LEMMA Appended ==
    ASSUME NEW s \in Seq([at : Nat, from : Int]), NEW x \in [at : Nat, from : Int]
    PROVE  /\ Len(s) \in Nat
           /\ Len(Append(s, x)) = Len(s) + 1
           /\ \A i \in 1..Len(s) : s[i] \in [at : Nat, from : Int] /\ Append(s, x)[i] = s[i]
           /\ Append(s, x)[Len(s) + 1] = x
<1>1. \A i \in 1..Len(s) : s[i] \in [at : Nat, from : Int]
    BY ElementOfSeq
<1>2. Len(s) \in Nat
    OBVIOUS
<1>3. /\ Len(Append(s, x)) = Len(s) + 1
      /\ \A i \in 1..Len(s) : Append(s, x)[i] = s[i]
      /\ Append(s, x)[Len(s) + 1] = x
    BY AppendProperties, SMTT(30)
<1> QED BY <1>1, <1>2, <1>3, Zenon

LEMMA Entries ==
    ASSUME NEW s \in Seq([at : Nat, from : Int])
    PROVE  /\ Len(s) \in Nat
           /\ \A i \in 1..Len(s) : s[i].at \in Nat /\ s[i].from \in Int
<1>1. \A i \in 1..Len(s) : s[i] \in [at : Nat, from : Int]
    BY ElementOfSeq
<1> QED BY <1>1

LEMMA StillOver ==
    \A f, r, c, d \in Int, w \in Nat :
        /\ f + w <= c /\ c <= d => f + w <= d
        /\ (f + w = r \/ f + w + w <= r) => f + w <= r
OBVIOUS

LEMMA CountedType ==
    ASSUME LimiterTypeOK, NEW l \in Limiter, NEW o \in Owner
    PROVE  Counted(l, o) \in [count : Nat, resetAt : Nat]
<1> USE LimiterOptions DEF LimiterTypeOK
<1>1. o \in Owner \cup Address /\ buckets[l][o] \in [count : Nat, resetAt : Nat]
    OBVIOUS
<1>2. clock + Window[l] \in Nat
    OBVIOUS
<1> QED BY <1>1, <1>2 DEF Counted

LEMMA AdmitKeepsType ==
    ASSUME LimiterTypeOK, NEW l \in Limiter, NEW o \in Owner, Admit(l, o, o)
    PROVE  /\ buckets' \in [Limiter -> [Owner \cup Address -> [count : Nat, resetAt : Nat]]]
           /\ log' \in [Limiter -> [Owner -> Seq([at : Nat, from : Int])]]
           /\ clock' = clock
<1> USE LimiterOptions DEF LimiterTypeOK
<1>1. Counted(l, o) \in [count : Nat, resetAt : Nat]
    BY CountedType
<1>2. [at |-> clock, from |-> Counted(l, o).resetAt - Window[l]] \in [at : Nat, from : Int]
    BY <1>1
<1>3. log[l][o] \in Seq([at : Nat, from : Int])
    OBVIOUS
<1>4. Append(log[l][o], [at |-> clock, from |-> Counted(l, o).resetAt - Window[l]])
         \in Seq([at : Nat, from : Int])
    BY <1>2, <1>3
<1> QED BY <1>1, <1>4 DEF Admit

LEMMA AdmitKeepsLedger ==
    ASSUME LimiterInv, NEW l \in Limiter, NEW o \in Owner, Admit(l, o, o),
           NEW m \in Limiter, NEW p \in Owner
    PROVE  Ledger(m, p)'
<1>t. LimiterTypeOK /\ Ledger(m, p)
    BY DEF LimiterInv
<1>1. CASE m # l \/ p # o
    <2>1. log'[m][p] = log[m][p] /\ buckets'[m][p] = buckets[m][p] /\ clock' = clock
        BY <1>1, <1>t DEF Admit, LimiterTypeOK
    <2> QED BY <1>t, <2>1 DEF Ledger, Spaced, OpenBucket, ClosedBucket, Expired
<1>2. CASE m = l /\ p = o
    <2> DEFINE L == log[l][o]
               b == buckets[l][o]
               W == Window[l]
               M == Max[l]
               e == [at |-> clock, from |-> Counted(l, o).resetAt - W]
    <2>1. /\ L \in Seq([at : Nat, from : Int]) /\ b \in [count : Nat, resetAt : Nat]
          /\ clock \in Nat /\ W \in Nat \ {0} /\ M \in Nat \ {0}
        BY <1>t, LimiterOptions DEF LimiterTypeOK
    <2>2. log'[l][o] = Append(L, e) /\ buckets'[l][o] = Counted(l, o) /\ clock' = clock
        BY <1>t DEF Admit, LimiterTypeOK
    <2>0. e \in [at : Nat, from : Int] /\ Counted(l, o) \in [count : Nat, resetAt : Nat]
        <3>1. Counted(l, o) \in [count : Nat, resetAt : Nat]
            BY <1>t, CountedType
        <3>2. Counted(l, o).resetAt \in Nat
            BY <3>1
        <3>3. Counted(l, o).resetAt - W \in Int
            BY <3>2, <2>1
        <3> QED BY <3>1, <3>3, <2>1
    <2> DEFINE N == Append(L, e)
    <2>3. /\ Len(N) = Len(L) + 1
          /\ \A i \in 1..Len(L) : N[i] = L[i]
          /\ N[Len(L) + 1] = e
          /\ \A i \in 1..Len(L) : L[i].at \in Nat /\ L[i].from \in Int
          /\ Len(L) \in Nat
          /\ e.at \in Nat /\ e.from \in Int
        <3>1. e.at \in Nat /\ e.from \in Int
            BY <2>0
        <3> HIDE DEF e, L
        <3>3. /\ Len(L) \in Nat /\ Len(N) = Len(L) + 1
              /\ \A i \in 1..Len(L) : L[i] \in [at : Nat, from : Int] /\ N[i] = L[i]
              /\ N[Len(L) + 1] = e
            BY <2>0, <2>1, Appended DEF N
        <3> HIDE DEF N
        <3> QED BY <3>1, <3>3
    <2>4. Spaced(l, o) /\ OpenBucket(l, o) /\ ClosedBucket(l, o)
        BY <1>t, <1>2 DEF Ledger
    <2> HIDE DEF L, b, W, M, e, N
    <2>n. b.count \in Nat /\ b.resetAt \in Nat /\ M \in Nat /\ W \in Nat
        BY <2>1
    <2>s. \A i \in 1..Len(L) : /\ L[i].from <= L[i].at /\ L[i].at <= clock
                                  /\ L[i].at < L[i].from + W
        BY <2>4 DEF Spaced, L, W
    <2>5. CASE Expired(b)
        <3>1. Counted(l, o) = [count |-> 1, resetAt |-> clock + W] /\ clock >= b.resetAt
            BY <2>5 DEF Counted, b, W, Expired
        <3>2. e = [at |-> clock, from |-> clock]
            BY <3>1, <2>1 DEF e
        <3>3. \A i \in 1..Len(L) : L[i].from + W <= clock
            BY <2>4, <2>5 DEF ClosedBucket, L, b, W
        <3>4. Spaced(l, o)'
            <4>1. \A i \in 1..Len(L) + 1 : /\ N[i].from <= N[i].at
                                           /\ N[i].at <= clock
                                           /\ N[i].at < N[i].from + W
                <5> TAKE i \in 1..Len(L) + 1
                <5>1. CASE i \in 1..Len(L)
                    BY <5>1, <2>3, <2>s
                <5>2. CASE i = Len(L) + 1
                    BY <5>2, <2>1, <2>3, <3>2
                <5> QED BY <5>1, <5>2, <2>3
            <4>2. \A i \in 1..Len(L) + 1 : i + M <= Len(L) + 1 =>
                     N[i].from + W <= N[i + M].from
                <5> TAKE i \in 1..Len(L) + 1
                <5> HAVE i + M <= Len(L) + 1
                <5>1. CASE i + M = Len(L) + 1
                    <6>1. i \in 1..Len(L) /\ N[i + M] = e /\ e.from = clock
                        BY <5>1, <2>1, <2>3, <3>2
                    <6>2. N[i].from = L[i].from /\ L[i].from + W <= clock
                        BY <6>1, <2>3, <3>3
                    <6> QED BY <6>1, <6>2
                <5>2. CASE i + M <= Len(L)
                    <6>1. i \in 1..Len(L) /\ i + M \in 1..Len(L)
                        BY <5>2, <2>1, <2>3
                    <6>2. L[i].from + W <= L[i + M].from
                        BY <6>1, <5>2, <2>4 DEF Spaced, L, W, M
                    <6> QED BY <6>1, <6>2, <2>3
                <5> QED BY <5>1, <5>2, <2>n, <2>3
            <4> QED BY <4>1, <4>2, <2>2, <2>3 DEF Spaced, N, W, M
        <3>5. OpenBucket(l, o)'
            <4>1. \A i \in 1..Len(L) + 1 :
                     IF i > Len(L) + 1 - 1 THEN N[i].from + W = clock + W
                     ELSE N[i].from + W + W <= clock + W
                <5> TAKE i \in 1..Len(L) + 1
                <5>1. CASE i \in 1..Len(L)
                    <6>1. N[i] = L[i] /\ L[i].from \in Int /\ L[i].from + W <= clock
                        BY <5>1, <2>3, <3>3
                    <6>2. ~(i > Len(L) + 1 - 1)
                        BY <5>1, <2>3
                    <6> QED BY <6>1, <6>2, <2>1, <2>n
                <5>2. CASE i = Len(L) + 1
                    BY <5>2, <2>1, <2>3, <3>2
                <5> QED BY <5>1, <5>2, <2>3
            <4> QED BY <4>1, <3>1, <2>1, <2>2, <2>3 DEF OpenBucket, Expired, N, W, M
        <3>6. ClosedBucket(l, o)'
            BY <3>1, <2>1, <2>2 DEF ClosedBucket, Expired
        <3> QED BY <3>4, <3>5, <3>6, <1>2 DEF Ledger
    <2>6. CASE ~Expired(b)
        <3>1. Counted(l, o) = [count |-> b.count + 1, resetAt |-> b.resetAt] /\ clock < b.resetAt
            BY <2>6, <2>1 DEF Counted, b, Expired
        <3>2. b.count < M
            BY <2>6, <2>1 DEF Admit, Refuses, b, M
        <3>3. e = [at |-> clock, from |-> b.resetAt - W]
            BY <3>1, <2>1 DEF e
        <3>4. /\ b.count <= Len(L)
              /\ b.resetAt <= clock + W
              /\ \A i \in 1..Len(L) : IF i > Len(L) - b.count
                                      THEN L[i].from + W = b.resetAt
                                      ELSE L[i].from + W + W <= b.resetAt
            BY <2>4, <2>6 DEF OpenBucket, L, b, W
        <3>5. Spaced(l, o)'
            <4>1. \A i \in 1..Len(L) + 1 : /\ N[i].from <= N[i].at
                                           /\ N[i].at <= clock
                                           /\ N[i].at < N[i].from + W
                <5> TAKE i \in 1..Len(L) + 1
                <5>1. CASE i \in 1..Len(L)
                    BY <5>1, <2>3, <2>s
                <5>2. CASE i = Len(L) + 1
                    <6>1. e.at = clock /\ e.from = b.resetAt - W
                        BY <3>3
                    <6> QED BY <5>2, <6>1, <2>1, <2>n, <2>3, <3>1, <3>4
                <5> QED BY <5>1, <5>2, <2>3
            <4>2. \A i \in 1..Len(L) + 1 : i + M <= Len(L) + 1 =>
                     N[i].from + W <= N[i + M].from
                <5> TAKE i \in 1..Len(L) + 1
                <5> HAVE i + M <= Len(L) + 1
                <5>1. CASE i + M = Len(L) + 1
                    <6>1. i \in 1..Len(L) /\ ~(i > Len(L) - b.count)
                        BY <5>1, <2>1, <2>n, <2>3, <3>2
                    <6>2. L[i].from + W + W <= b.resetAt
                        BY <6>1, <3>4
                    <6>3. N[i + M] = e /\ e.from = b.resetAt - W /\ N[i].from = L[i].from
                        BY <5>1, <6>1, <2>3, <3>3
                    <6>4. L[i].from \in Int /\ b.resetAt \in Nat
                        BY <6>1, <2>1, <2>3
                    <6>5. e.from = b.resetAt - W /\ L[i].from + W <= b.resetAt - W
                        BY <6>2, <6>3, <6>4, <2>n
                    <6>6. N[i + M].from = b.resetAt - W
                        BY <6>3
                    <6> QED BY <6>3, <6>5, <6>6
                <5>2. CASE i + M <= Len(L)
                    <6>1. i \in 1..Len(L) /\ i + M \in 1..Len(L)
                        BY <5>2, <2>1, <2>3
                    <6>2. L[i].from + W <= L[i + M].from
                        BY <6>1, <5>2, <2>4 DEF Spaced, L, W, M
                    <6> QED BY <6>1, <6>2, <2>3
                <5> QED BY <5>1, <5>2, <2>n, <2>3
            <4> QED BY <4>1, <4>2, <2>2, <2>3 DEF Spaced, N, W, M
        <3>6. OpenBucket(l, o)'
            <4>1. \A i \in 1..Len(L) + 1 :
                     IF i > Len(L) + 1 - (b.count + 1) THEN N[i].from + W = b.resetAt
                     ELSE N[i].from + W + W <= b.resetAt
                <5> TAKE i \in 1..Len(L) + 1
                <5>1. CASE i \in 1..Len(L)
                    <6>1. N[i] = L[i] /\ L[i].from \in Int
                        BY <5>1, <2>3
                    <6>2. i > Len(L) + 1 - (b.count + 1) <=> i > Len(L) - b.count
                        BY <5>1, <2>n, <2>3
                    <6>3. IF i > Len(L) - b.count THEN L[i].from + W = b.resetAt
                          ELSE L[i].from + W + W <= b.resetAt
                        BY <5>1, <3>4
                    <6> QED BY <6>1, <6>2, <6>3
                <5>2. CASE i = Len(L) + 1
                    <6>1. e.from = b.resetAt - W
                        BY <3>3
                    <6> QED BY <5>2, <6>1, <2>1, <2>n, <2>3
                <5> QED BY <5>1, <5>2, <2>3
            <4>2. Counted(l, o).count = b.count + 1 /\ Counted(l, o).resetAt = b.resetAt
                BY <3>1
            <4>3. b.count + 1 <= M /\ b.count + 1 <= Len(L) + 1
                BY <3>2, <3>4, <2>n, <2>3
            <4>4. /\ log'[l][o] = N /\ clock' = clock
                  /\ buckets'[l][o].count = b.count + 1 /\ buckets'[l][o].resetAt = b.resetAt
                BY <4>2, <2>2 DEF N
            <4>5. /\ buckets'[l][o].count <= M
                  /\ buckets'[l][o].count <= Len(log'[l][o])
                  /\ buckets'[l][o].resetAt <= clock' + W
                BY <4>3, <4>4, <3>4, <2>3
            <4>6. \A i \in 1..Len(log'[l][o]) :
                     IF i > Len(log'[l][o]) - buckets'[l][o].count
                     THEN log'[l][o][i].from + W = buckets'[l][o].resetAt
                     ELSE log'[l][o][i].from + W + W <= buckets'[l][o].resetAt
                <5>1. \A i \in 1..Len(N) : IF i > Len(N) - (b.count + 1) THEN N[i].from + W = b.resetAt
                                          ELSE N[i].from + W + W <= b.resetAt
                    <6> TAKE i \in 1..Len(N)
                    <6>1. i \in 1..Len(L) + 1
                        BY <2>3
                    <6>2. Len(N) - (b.count + 1) = Len(L) + 1 - (b.count + 1)
                        BY <2>3, <2>n
                    <6> QED BY <4>1, <6>1, <6>2, Zenon
                <5> QED BY <5>1, <4>4, Zenon
            <4> QED BY <4>5, <4>6, Zenon DEF OpenBucket, W, M
        <3>7. ClosedBucket(l, o)'
            BY <3>1, <2>1, <2>2 DEF ClosedBucket, Expired
        <3> QED BY <3>5, <3>6, <3>7, <1>2 DEF Ledger
    <2> QED BY <2>5, <2>6
<1> QED BY <1>1, <1>2

-----------------------------------------------------------------------------
(* Refusals.                                                               *)

\* Whole seconds rounded up cover the time left.
LEMMA RoundedUp ==
    ASSUME NEW x \in Nat, NEW t \in Nat \ {0}
    PROVE  /\ (x + t - 1) \div t \in Nat
           /\ x <= ((x + t - 1) \div t) * t
<1> DEFINE q == (x + t - 1) \div t
           r == (x + t - 1) % t
<1>1. q \in Int /\ r \in 0..(t - 1) /\ x + t - 1 = q * t + r
    OBVIOUS
<1>2. x <= q * t
    <2> HIDE DEF q, r
    <2> QED BY <1>1
<1>3. q >= 0
    OBVIOUS
<1> QED BY <1>1, <1>2, <1>3

LEMMA RetryAfterSuffices ==
    ASSUME LimiterTypeOK, NEW l \in Limiter, NEW o \in Owner, ~Expired(buckets[l][o])
    PROVE  /\ RetryAfter(l, o) \in Nat
           /\ buckets[l][o].resetAt <= clock + RetryAfter(l, o) * TicksPerSecond
<1> DEFINE left == buckets[l][o].resetAt - clock
           secs == (left + TicksPerSecond - 1) \div TicksPerSecond
<1>1. buckets[l][o].resetAt \in Nat /\ clock \in Nat /\ TicksPerSecond \in Nat \ {0}
    BY LimiterOptions DEF LimiterTypeOK
<1>2. left \in Nat
    BY <1>1 DEF Expired
<1>3. secs \in Nat /\ left <= secs * TicksPerSecond
    BY <1>1, <1>2, RoundedUp
<1>4. RetryAfter(l, o) = IF secs > 1 THEN secs ELSE 1
    BY DEF RetryAfter
<1>5. left <= RetryAfter(l, o) * TicksPerSecond
    <2> HIDE DEF secs, left
    <2>1. CASE secs > 1
        BY <2>1, <1>3, <1>4
    <2>2. CASE ~(secs > 1)
        <3>1. secs = 0 \/ secs = 1
            BY <2>2, <1>3
        <3>2. secs * TicksPerSecond <= 1 * TicksPerSecond
            BY <3>1, <1>1
        <3> QED BY <2>2, <3>2, <1>1, <1>2, <1>3, <1>4
    <2> QED BY <2>1, <2>2
<1>6. RetryAfter(l, o) \in Nat
    BY <1>3, <1>4
<1>7. RetryAfter(l, o) * TicksPerSecond \in Nat
    BY <1>1, <1>6
<1> QED BY <1>1, <1>5, <1>6, <1>7

LEMMA RefuseIsEarned ==
    ASSUME LimiterInv, NEW l \in Limiter, NEW o \in Owner, Refuse(l, o, o)
    PROVE  RefusalEarned'
<1> DEFINE L == log[l][o]
           b == buckets[l][o]
           late == (Len(L) - b.count + 1)..Len(L)
           mine == {i \in 1..Len(L) :
                      /\ L[i].at <= clock
                      /\ L[i].from + Window[l] > clock
                      /\ L[i].from + Window[l] <= clock + RetryAfter(l, o) * TicksPerSecond}
<1>1. LimiterTypeOK /\ Spaced(l, o) /\ OpenBucket(l, o)
    BY DEF LimiterInv, Ledger
<1>2. /\ L \in Seq([at : Nat, from : Int]) /\ b.count \in Nat /\ b.resetAt \in Nat
      /\ clock \in Nat /\ Window[l] \in Nat /\ Max[l] \in Nat /\ Len(L) \in Nat
    BY <1>1, LimiterOptions DEF LimiterTypeOK
<1>3. ~Expired(b) /\ b.count >= Max[l] /\ clock < b.resetAt
    BY <1>2 DEF Refuse, Refuses, Expired
<1>4. /\ b.count <= Len(L)
      /\ b.resetAt <= clock + Window[l]
      /\ \A i \in 1..Len(L) :
            i > Len(L) - b.count => L[i].from + Window[l] = b.resetAt
    BY <1>1, <1>3 DEF OpenBucket
<1>5. \A i \in late : i \in 1..Len(L) /\ i > Len(L) - b.count
    <2> DEFINE n == Len(L)
               count == b.count
    <2>1. n \in Nat /\ count \in Nat /\ count <= n
        BY <1>2, <1>4
    <2> HIDE DEF n, count
    <2>2. \A i \in (n - count + 1)..n : i \in 1..n /\ i > n - count
        BY <2>1
    <2> QED BY <2>2 DEF n, count
<1>6. \A i \in late : L[i].at <= clock /\ L[i].from + Window[l] = b.resetAt
    <2>1. \A i \in 1..Len(L) : L[i].at <= clock
        BY <1>1 DEF Spaced
    <2> QED BY <2>1, <1>4, <1>5
<1>7. late \subseteq mine
    BY <1>1, <1>2, <1>3, <1>5, <1>6, RetryAfterSuffices
<1>8. Cardinality(mine) >= Max[l]
    <2>1. IsFiniteSet(mine) /\ Cardinality(late) = b.count
        <3>1. IsFiniteSet(1..Len(L)) /\ mine \subseteq 1..Len(L)
            <4>1. 1 \in Int /\ Len(L) \in Int
                BY <1>2
            <4> QED BY <4>1, FS_Interval
        <3>2. Cardinality(late) = b.count
            <4> HIDE DEF L, b
            <4>1. Len(L) - b.count + 1 \in Int /\ Len(L) \in Int
                BY <1>2
            <4>2. Cardinality(late) = IF Len(L) - b.count + 1 > Len(L) THEN 0
                                      ELSE Len(L) - (Len(L) - b.count + 1) + 1
                BY <4>1, FS_Interval
            <4> QED BY <4>2, <1>2
        <3> QED BY <3>1, <3>2, <1>2, FS_Subset
    <2>2. Cardinality(late) <= Cardinality(mine) /\ Cardinality(mine) \in Nat
        BY <1>7, <2>1, FS_Subset, FS_CardinalityType
    <2> QED BY <2>1, <2>2, <1>2, <1>3
<1>9. /\ refusal' = [limiter |-> l, owner |-> o, at |-> clock, retryAfter |-> RetryAfter(l, o)]
      /\ log' = log
    BY DEF Refuse
<1> QED BY <1>8, <1>9 DEF RefusalEarned

-----------------------------------------------------------------------------
(* The steps of the specification.                                         *)

LEMMA NoRefusalIsEarned == ASSUME refusal' = NoRefusal PROVE RefusalEarned'
    BY DEF RefusalEarned

LEMMA AdmitKeepsInv ==
    ASSUME LimiterInv, NEW l \in Limiter, NEW o \in Owner, Admit(l, o, o),
           live' \subseteq Session
    PROVE  LimiterInv' /\ RefusalEarned'
<1>1. LimiterTypeOK'
    BY AdmitKeepsType DEF LimiterInv, LimiterTypeOK
<1>2. refusal' = NoRefusal
    BY DEF Admit
<1> QED BY <1>1, <1>2, AdmitKeepsLedger, NoRefusalIsEarned DEF LimiterInv

\* A step that admits nobody and changes no open bucket.
LEMMA QuietKeepsInv ==
    ASSUME LimiterInv, LimiterTypeOK', log' = log, clock' >= clock,
           \A l \in Limiter, o \in Owner :
              \/ buckets'[l][o] = buckets[l][o]
              \/ Expired(buckets[l][o]) /\ buckets'[l][o] = NoBucket
    PROVE  LimiterInv'
<1> SUFFICES ASSUME NEW l \in Limiter, NEW o \in Owner
             PROVE  Ledger(l, o)'
    BY DEF LimiterInv
<1>1. LimiterTypeOK /\ Spaced(l, o) /\ OpenBucket(l, o) /\ ClosedBucket(l, o)
    BY DEF LimiterInv, Ledger
<1> DEFINE L == log[l][o]
           W == Window[l]
<1>2. /\ clock \in Nat /\ clock' \in Nat /\ W \in Nat
      /\ buckets[l][o] \in [count : Nat, resetAt : Nat]
      /\ L \in Seq([at : Nat, from : Int])
    BY <1>1, LimiterOptions DEF LimiterTypeOK
<1>3. /\ Len(L) \in Nat
      /\ \A i \in 1..Len(L) : L[i].from \in Int /\ L[i].at \in Nat
    BY <1>2, Entries
<1>4. log'[l][o] = L
    OBVIOUS
<1>5. Spaced(l, o)'
    <2> HIDE DEF L, W
    <2>1. \A i \in 1..Len(L) : /\ L[i].from <= L[i].at /\ L[i].at <= clock
                              /\ L[i].at < L[i].from + W
        BY <1>1 DEF Spaced, L, W
    <2>2. ASSUME NEW i \in 1..Len(L) PROVE L[i].at <= clock'
        <3>1. L[i].at \in Nat /\ L[i].at <= clock /\ clock' >= clock
            BY <2>1, <1>3
        <3>2. clock \in Nat /\ clock' \in Nat
            BY <1>2
        <3> HIDE DEF L
        <3> QED BY <3>1, <3>2
    <2>3. \A i \in 1..Len(L) : i + Max[l] <= Len(L) => L[i].from + W <= L[i + Max[l]].from
        BY <1>1 DEF Spaced, L, W
    <2> QED BY <2>1, <2>2, <2>3, <1>4 DEF Spaced, W
<1>6. CASE buckets'[l][o] = buckets[l][o]
    <2>1. OpenBucket(l, o)'
        BY <1>1, <1>2, <1>4, <1>6 DEF OpenBucket, Expired
    <2>2. ClosedBucket(l, o)'
        <3>1. CASE Expired(buckets[l][o])
            <4>1. \A i \in 1..Len(L) : L[i].from + W <= clock
                BY <3>1, <1>1 DEF ClosedBucket
            <4>2. \A i \in 1..Len(L) : L[i].from + W <= clock'
                <5> TAKE i \in 1..Len(L)
                <5> DEFINE f == L[i].from
                <5>1. f \in Int /\ f + W <= clock
                    BY <4>1, <1>3
                <5> HIDE DEF f, W
                <5>2. f + W <= clock'
                    BY <5>1, <1>2
                <5> QED BY <5>2 DEF f, W
            <4> QED BY <4>2, <1>4 DEF ClosedBucket
        <3>2. CASE ~Expired(buckets[l][o])
            <4>1. \A i \in 1..Len(L) : L[i].from + W <= buckets[l][o].resetAt
                <5>1. \A i \in 1..Len(L) :
                         \/ L[i].from + W = buckets[l][o].resetAt
                         \/ L[i].from + W + W <= buckets[l][o].resetAt
                    BY <1>1, <3>2 DEF OpenBucket
                <5>2. buckets[l][o].resetAt \in Nat
                    BY <1>2
                <5> HIDE DEF L, W
                <5> TAKE i \in 1..Len(L)
                <5>3. \/ L[i].from + W = buckets[l][o].resetAt
                      \/ L[i].from + W + W <= buckets[l][o].resetAt
                    BY <5>1, Zenon
                <5> DEFINE f == L[i].from
                           r == buckets[l][o].resetAt
                <5>4. f + W = r \/ f + W + W <= r
                    BY <5>3, Zenon
                <5> HIDE DEF f, r
                <5>5. f \in Int /\ r \in Int /\ W \in Nat
                    BY <5>2, <1>2, <1>3 DEF f, r
                <5>6. f + W <= r
                    BY <5>4, <5>5
                <5> QED BY <5>6 DEF f, r
            <4>2. ASSUME Expired(buckets[l][o])'
                  PROVE  \A i \in 1..Len(L) : L[i].from + W <= clock'
                <5>1. buckets[l][o].resetAt \in Nat /\ buckets[l][o].resetAt <= clock'
                    BY <4>2, <1>2, <1>6 DEF Expired
                <5> HIDE DEF L, W
                <5> TAKE i \in 1..Len(L)
                <5>2. L[i].from + W <= buckets[l][o].resetAt /\ L[i].from \in Int
                    BY <4>1, <1>3
                <5> DEFINE f == L[i].from
                           r == buckets[l][o].resetAt
                <5>3. f \in Int /\ r \in Int /\ clock' \in Int /\ W \in Nat
                      /\ f + W <= r /\ r <= clock'
                    BY <5>1, <5>2, <1>2
                <5> HIDE DEF f, r
                <5>4. f + W <= clock'
                    BY <5>3, StillOver
                <5> QED BY <5>4 DEF f
            <4> QED BY <4>2, <1>4 DEF ClosedBucket
        <3> QED BY <3>1, <3>2
    <2> QED BY <1>5, <2>1, <2>2 DEF Ledger
<1>7. CASE Expired(buckets[l][o]) /\ buckets'[l][o] = NoBucket
    <2>1. Expired(buckets[l][o])'
        BY <1>2, <1>7 DEF Expired, NoBucket
    <2>2. \A i \in 1..Len(L) : L[i].from + W <= clock'
        <3>1. \A i \in 1..Len(L) : L[i].from + W <= clock
            BY <1>1, <1>7 DEF ClosedBucket
        <3> TAKE i \in 1..Len(L)
        <3> DEFINE f == L[i].from
        <3>2. f \in Int /\ f + W <= clock
            BY <3>1, <1>3
        <3> HIDE DEF f, W
        <3>3. f + W <= clock'
            BY <3>2, <1>2
        <3> QED BY <3>3 DEF f, W
    <2> QED BY <1>4, <1>5, <2>1, <2>2 DEF Ledger, OpenBucket, ClosedBucket
<1> QED BY <1>6, <1>7

LEMMA StepKeepsInv ==
    ASSUME LimiterInv, RefusalEarned, [LimiterNext]_limiterVars
    PROVE  LimiterInv' /\ RefusalEarned'
<1>t. LimiterTypeOK
    BY DEF LimiterInv
<1>o. "login" \in Limiter /\ RouteClass \subseteq Limiter
      /\ Device \subseteq Owner /\ Session \subseteq Owner
    BY DEF Limiter, Owner
<1>1. ASSUME NEW d \in Device, LoginAttempt(d)
      PROVE  LimiterInv' /\ RefusalEarned'
    <2>1. Admit("login", d, d) /\ live' = live
        BY <1>1, OwnAddress DEF LoginAttempt
    <2> QED BY <2>1, <1>t, <1>o, AdmitKeepsInv DEF LimiterTypeOK
<1>2. ASSUME NEW d \in Device, LoginSuccess(d)
      PROVE  LimiterInv' /\ RefusalEarned'
    <2>1. Admit("login", d, d) /\ live' \subseteq live \cup Session
        BY <1>2, OwnAddress DEF LoginSuccess
    <2>2. live' \subseteq Session
        BY <2>1, <1>t DEF LimiterTypeOK
    <2> QED BY <2>1, <2>2, <1>o, AdmitKeepsInv
<1>3. ASSUME NEW d \in Device, LoginRefused(d)
      PROVE  LimiterInv' /\ RefusalEarned'
    <2>1. Refuse("login", d, d)
        BY <1>3, OwnAddress DEF LoginRefused
    <2>2. LimiterTypeOK' /\ log' = log /\ clock' = clock /\ buckets' = buckets
        BY <2>1, <1>t DEF Refuse, LimiterTypeOK
    <2>3. clock' >= clock
        BY <2>2, <1>t DEF LimiterTypeOK
    <2>4. RefusalEarned'
        BY <2>1, <1>o, RefuseIsEarned
    <2> QED BY <2>2, <2>3, <2>4, QuietKeepsInv
<1>4. ASSUME NEW s \in Session, SessionEnds(s)
      PROVE  LimiterInv' /\ RefusalEarned'
    <2>1. LimiterTypeOK' /\ log' = log /\ clock' = clock /\ buckets' = buckets
        BY <1>4, <1>t DEF SessionEnds, LimiterTypeOK
    <2>2. clock' >= clock
        BY <2>1, <1>t DEF LimiterTypeOK
    <2>3. RefusalEarned'
        BY <1>4, NoRefusalIsEarned DEF SessionEnds
    <2> QED BY <2>1, <2>2, <2>3, QuietKeepsInv
<1>5. ASSUME NEW s \in Session, NEW l \in RouteClass, ApiCall(l, s)
      PROVE  LimiterInv' /\ RefusalEarned'
    <2>1. Admit(l, s, s) /\ live' = live
        BY <1>5 DEF ApiCall
    <2> QED BY <2>1, <1>t, <1>o, AdmitKeepsInv DEF LimiterTypeOK
<1>6. ASSUME NEW s \in Session, NEW l \in RouteClass, ApiRefused(l, s)
      PROVE  LimiterInv' /\ RefusalEarned'
    <2>1. Refuse(l, s, s)
        BY <1>6 DEF ApiRefused
    <2>2. LimiterTypeOK' /\ log' = log /\ clock' = clock /\ buckets' = buckets
        BY <2>1, <1>t DEF Refuse, LimiterTypeOK
    <2>3. clock' >= clock
        BY <2>2, <1>t DEF LimiterTypeOK
    <2>4. RefusalEarned'
        BY <2>1, <1>o, RefuseIsEarned
    <2> QED BY <2>2, <2>3, <2>4, QuietKeepsInv
<1>7. ASSUME NEW l \in Limiter, Sweep(l)
      PROVE  LimiterInv' /\ RefusalEarned'
    <2>1. NoBucket \in [count : Nat, resetAt : Nat]
        BY DEF NoBucket
    <2>2. LimiterTypeOK' /\ log' = log /\ clock' = clock
        BY <1>7, <1>t, <2>1 DEF Sweep, LimiterTypeOK
    <2>3. clock' >= clock
        BY <2>2, <1>t DEF LimiterTypeOK
    <2>4. \A m \in Limiter, o \in Owner :
             \/ buckets'[m][o] = buckets[m][o]
             \/ Expired(buckets[m][o]) /\ buckets'[m][o] = NoBucket
        BY <1>7, <1>t DEF Sweep, LimiterTypeOK
    <2>5. RefusalEarned'
        BY <1>7, NoRefusalIsEarned DEF Sweep
    <2> QED BY <2>2, <2>3, <2>4, <2>5, QuietKeepsInv
<1>8. ASSUME Passing
      PROVE  LimiterInv' /\ RefusalEarned'
    <2>1. log' = log /\ buckets' = buckets /\ live' = live /\ clock' = clock + 1
        BY <1>8 DEF Passing
    <2>2. clock' \in Nat /\ clock' >= clock
        BY <2>1, <1>t DEF LimiterTypeOK
    <2>3. LimiterTypeOK'
        BY <2>1, <2>2, <1>t DEF LimiterTypeOK
    <2>4. RefusalEarned'
        BY <1>8, NoRefusalIsEarned DEF Passing
    <2> QED BY <2>1, <2>2, <2>3, <2>4, QuietKeepsInv
<1>9. CASE UNCHANGED limiterVars
    <2>1. UNCHANGED <<buckets, clock, live, log, refusal>>
        BY <1>9 DEF limiterVars
    <2>2. LimiterTypeOK'
        BY <2>1, <1>t DEF LimiterTypeOK
    <2>3. clock' >= clock
        BY <2>1, <1>t DEF LimiterTypeOK
    <2>4. RefusalEarned'
        BY <2>1 DEF RefusalEarned
    <2> QED BY <2>1, <2>2, <2>3, <2>4, QuietKeepsInv
<1> QED BY <1>1, <1>2, <1>3, <1>4, <1>5, <1>6, <1>7, <1>8, <1>9 DEF LimiterNext

LEMMA InitInv == LimiterInit => LimiterInv /\ RefusalEarned
<1> SUFFICES ASSUME LimiterInit PROVE LimiterInv /\ RefusalEarned
    OBVIOUS
<1>1. LimiterTypeOK
    BY DEF LimiterInit, LimiterTypeOK, NoBucket
<1>2. \A l \in Limiter, o \in Owner : log[l][o] = <<>> /\ Expired(buckets[l][o])
    BY DEF LimiterInit, NoBucket, Expired
<1>3. \A l \in Limiter, o \in Owner : Ledger(l, o)
    BY <1>2 DEF Ledger, Spaced, OpenBucket, ClosedBucket
<1>4. RefusalEarned
    BY DEF LimiterInit, RefusalEarned
<1> QED BY <1>1, <1>3, <1>4 DEF LimiterInv

LEMMA Chained ==
    \A a, f, g, h \in Int, b \in Int, w \in Nat :
        a < f + w /\ f + w <= g /\ g + w <= h /\ h <= b => b > a + w
OBVIOUS

LEMMA InvImpliesLimit == LimiterInv => LimitHolds
<1> SUFFICES ASSUME LimiterInv, NEW l \in Limiter, NEW o \in Owner,
                    NEW i \in 1..Len(log[l][o]), i + 2 * Max[l] <= Len(log[l][o])
             PROVE  log[l][o][i + 2 * Max[l]].at > log[l][o][i].at + Window[l]
    BY DEF LimitHolds, LimiterInv
<1> DEFINE L == log[l][o]
           M == Max[l]
           W == Window[l]
<1>1. Spaced(l, o) /\ L \in Seq([at : Nat, from : Int]) /\ M \in Nat \ {0} /\ W \in Nat
    BY LimiterOptions DEF LimiterInv, Ledger, LimiterTypeOK
<1>2. Len(L) \in Nat /\ \A j \in 1..Len(L) : L[j].from \in Int /\ L[j].at \in Nat
    BY <1>1, Entries
<1>3. \A j \in 1..Len(L) : /\ L[j].from <= L[j].at /\ L[j].at < L[j].from + W
                           /\ j + M <= Len(L) => L[j].from + W <= L[j + M].from
    BY <1>1 DEF Spaced
<1>4. i \in 1..Len(L) /\ i + 2 * M <= Len(L)
    OBVIOUS
<1> HIDE DEF L, M, W
<1>5. i + M \in 1..Len(L) /\ i + M + M \in 1..Len(L) /\ i + 2 * M = i + M + M
    BY <1>1, <1>2, <1>4
<1>6. L[i].at < L[i].from + W /\ L[i].from + W <= L[i + M].from
    BY <1>2, <1>3, <1>4, <1>5
<1>7. L[i + M].from + W <= L[i + M + M].from /\ L[i + M + M].from <= L[i + M + M].at
    BY <1>2, <1>3, <1>5
<1>8. L[i + M + M].at > L[i].at + W
    <2>1. /\ L[i].at \in Nat /\ L[i].from \in Int /\ L[i + M].from \in Int
          /\ L[i + M + M].from \in Int /\ L[i + M + M].at \in Nat /\ W \in Nat
        BY <1>1, <1>2, <1>4, <1>5
    <2> DEFINE a == L[i].at
               f == L[i].from
               g == L[i + M].from
               h == L[i + M + M].from
               b == L[i + M + M].at
    <2>2. a < f + W /\ f + W <= g /\ g + W <= h /\ h <= b
        BY <1>6, <1>7
    <2>3. a \in Int /\ f \in Int /\ g \in Int /\ h \in Int /\ b \in Int
        BY <2>1
    <2> HIDE DEF a, f, g, h, b
    <2>4. b > a + W
        BY <2>1, <2>2, <2>3, Chained
    <2> QED BY <2>4 DEF a, b
<1> QED BY <1>5, <1>8 DEF L, M, W

\* No stretch of one window admits more than twice the limit, for any limit,
\* window and number of devices (RateLimiter.allow(), clientIp()).
THEOREM LimiterHolds == LimiterSpec => []LimitHolds
<1>1. LimiterSpec => [](LimiterInv /\ RefusalEarned)
    BY InitInv, StepKeepsInv, PTL DEF LimiterSpec
<1> QED BY <1>1, InvImpliesLimit, PTL

\* A 429 is the doing of the one who gets it, and its Retry-After leads past
\* the window that refused (RateLimiter.middleware(), the login route).
THEOREM RefusalsEarned == LimiterSpec => []RefusalEarned
    BY InitInv, StepKeepsInv, PTL DEF LimiterSpec

-----------------------------------------------------------------------------
(* The installer: the inductive invariant.                                 *)

InstallerType == [pc : Place, want : Version \cup {Nobody}, force : BOOLEAN,
                  file : File \cup {NoFile}]

Verified == {"rename", "write", "ok", "installed"}

\* What the variables of one installer say of the file it has in hand.
Sound(r) ==
    /\ r \in InstallerType
    /\ r.pc # "idle" => r.want \in Version
    /\ r.pc \in Verified => r.file = Official(r.want)
    /\ r.pc = "explicit" => r.file.version = r.want

AllSound == \A p \in Process : Sound(proc[p])

ReceiptHonest == receipt # NoReceipt => receipt.of = Official(receipt.version)

IInv == InstallTypeOK /\ ReceiptHonest /\ AllSound

\* The invariant gives what the runs check.
LEMMA IInvGives == IInv => OkIsOfficial
BY DEF IInv, OkIsOfficial, ReceiptHonest, AllSound, Sound, At, Verified

-----------------------------------------------------------------------------
(* What the helpers do to the variables of the processes.                  *)

\* The process goes on and keeps what it has in hand.
LEMMA GoIs ==
    ASSUME InstallTypeOK, NEW p \in Process, NEW where \in Place, Go(p, where)
    PROVE  proc' = [proc EXCEPT ![p] = [pc |-> where, want |-> proc[p].want,
                                        force |-> proc[p].force, file |-> proc[p].file]]
<1>1. proc[p] \in InstallerType
    BY DEF InstallTypeOK, InstallerType
<1>2. [proc[p] EXCEPT !.pc = where] = [pc |-> where, want |-> proc[p].want,
                                       force |-> proc[p].force, file |-> proc[p].file]
    BY <1>1 DEF InstallerType
<1>3. proc' = [proc EXCEPT ![p] = [proc[p] EXCEPT !.pc = where]]
    BY DEF Go
<1> QED BY <1>2, <1>3

\* The process goes on with another file in hand.
LEMMA GoWithIs ==
    ASSUME InstallTypeOK, NEW p \in Process, NEW where \in Place, NEW f,
           GoWith(p, where, f)
    PROVE  proc' = [proc EXCEPT ![p] = [pc |-> where, want |-> proc[p].want,
                                        force |-> proc[p].force, file |-> f]]
BY DEF GoWith, InstallTypeOK

\* One installer steps to a sound state, the others stay where they are.
LEMMA OneSteps ==
    ASSUME IInv, NEW p \in Process, NEW r, Sound(r), proc' = [proc EXCEPT ![p] = r]
    PROVE  /\ AllSound'
           /\ proc' \in [Process -> InstallerType]
BY DEF IInv, InstallTypeOK, AllSound, Sound, InstallerType

\* Nothing an installer may hold is the file that is not there.
LEMMA FileFacts ==
    /\ NoFile \notin File
    /\ \A v \in Version : Official(v) \in File
    /\ \A v \in Version : NoReceipt.version # v
BY InstallAssumption DEF NoFile, File, Official, NoReceipt

-----------------------------------------------------------------------------
\* No file, no receipt and no process at work.
LEMMA InstallInitSound == InstallInit => IInv
<1> SUFFICES ASSUME InstallInit PROVE IInv
    OBVIOUS
<1> USE DEF InstallInit
<1>1. InstallTypeOK
    BY InstallAssumption DEF InstallTypeOK, Idle, Place
<1>2. ReceiptHonest
    BY DEF ReceiptHonest
<1>3. AllSound
    BY DEF AllSound, Sound, Idle, InstallerType, Place, Verified
<1> QED BY <1>1, <1>2, <1>3 DEF IInv

\* Each action of an installer leads to a sound state of it, and what it
\* writes into the receipt is what it has checked.
LEMMA EnsureKeeps == ASSUME IInv, NEW p \in Process, Ensure(p) PROVE IInv'
<1> USE DEF IInv, Ensure
<1> PICK force \in BOOLEAN :
        proc' = [proc EXCEPT ![p] = [pc |-> "lock", want |-> pinned, force |-> force,
                                     file |-> NoFile]]
    OBVIOUS
<1>1. Sound([pc |-> "lock", want |-> pinned, force |-> force, file |-> NoFile])
    BY DEF Sound, InstallerType, Place, Verified, InstallTypeOK
<1>2. AllSound' /\ proc' \in [Process -> InstallerType]
    BY <1>1, OneSteps
<1> QED BY <1>2 DEF InstallTypeOK, ReceiptHonest, InstallerType

LEMMA EnsureExplicitKeeps == ASSUME IInv, NEW p \in Process, EnsureExplicit(p) PROVE IInv'
<1> USE DEF IInv, EnsureExplicit
<1> PICK f \in File \cup {NoFile} :
        proc' = [proc EXCEPT ![p] = [pc |-> IF f.version = pinned THEN "explicit" ELSE "failed",
                                     want |-> pinned, force |-> FALSE, file |-> f]]
    OBVIOUS
<1>1. Sound([pc |-> IF f.version = pinned THEN "explicit" ELSE "failed",
             want |-> pinned, force |-> FALSE, file |-> f])
    BY DEF Sound, InstallerType, Place, Verified, InstallTypeOK
<1>2. AllSound' /\ proc' \in [Process -> InstallerType]
    BY <1>1, OneSteps
<1> QED BY <1>2 DEF InstallTypeOK, ReceiptHonest, InstallerType

LEMMA LockingKeeps ==
    ASSUME IInv, NEW p \in Process,
           Acquire(p) \/ SeeStale(p) \/ RemoveStale(p) \/ GiveUp(p) \/ Release(p)
    PROVE  IInv'
<1> USE DEF IInv
<1>1. PICK where \in Place :
        /\ Go(p, where)
        /\ where \in {"probe", "remove", "lock", "failed"} \/ (where = "installed" /\ At(p, "ok"))
        /\ proc[p].pc # "idle"
    BY DEF Acquire, SeeStale, RemoveStale, GiveUp, Release, At, Place
<1> DEFINE r == [pc |-> where, want |-> proc[p].want, force |-> proc[p].force, file |-> proc[p].file]
<1>2. Sound(r)
    BY <1>1 DEF AllSound, Sound, InstallerType, Verified, At
<1>3. AllSound' /\ proc' \in [Process -> InstallerType]
    BY <1>1, <1>2, GoIs, OneSteps
<1>4. lock' \in {lock, NoLock, [owner |-> p, stale |-> FALSE]}
    BY DEF Acquire, SeeStale, RemoveStale, GiveUp, Release
<1>5. lock' \in [owner : Process, stale : BOOLEAN] \cup {NoLock}
    <2>1. [owner |-> p, stale |-> FALSE] \in [owner : Process, stale : BOOLEAN]
        OBVIOUS
    <2>2. lock \in [owner : Process, stale : BOOLEAN] \cup {NoLock}
        BY DEF InstallTypeOK
    <2> QED BY <1>4, <2>1, <2>2, Zenon
<1>6. UNCHANGED <<pinned, bin, receipt, upgrades, damage>>
    BY DEF Acquire, SeeStale, RemoveStale, GiveUp, Release
<1> QED BY <1>3, <1>5, <1>6 DEF InstallTypeOK, ReceiptHonest, InstallerType

LEMMA ProbeKeeps == ASSUME IInv, NEW p \in Process, Probe(p) \/ Verify(p) PROVE IInv'
<1> USE DEF IInv
<1>1. PICK where \in Place :
        /\ Go(p, where)
        /\ where \in {"receipt", "download", "undo"}
           \/ (where = "rename" /\ proc[p].file = Official(proc[p].want))
        /\ proc[p].pc # "idle"
    BY DEF Probe, Verify, At, Place
<1> DEFINE r == [pc |-> where, want |-> proc[p].want, force |-> proc[p].force, file |-> proc[p].file]
<1>2. Sound(r)
    BY <1>1 DEF AllSound, Sound, InstallerType, Verified
<1>3. AllSound' /\ proc' \in [Process -> InstallerType]
    BY <1>1, <1>2, GoIs, OneSteps
<1>4. UNCHANGED <<pinned, bin, receipt, lock, upgrades, damage>>
    BY DEF Probe, Verify
<1> QED BY <1>3, <1>4 DEF InstallTypeOK, ReceiptHonest, InstallerType

\* The receipt stands for official bytes, and these are the bytes.
LEMMA CheckReceiptKeeps == ASSUME IInv, NEW p \in Process, CheckReceipt(p) PROVE IInv'
<1> USE DEF IInv, CheckReceipt
<1> DEFINE good  == receipt.version = proc[p].want /\ receipt.of = bin
           where == IF good THEN "ok" ELSE "manifest"
           r     == [pc |-> where, want |-> proc[p].want, force |-> proc[p].force, file |-> bin]
<1>1. proc[p].want \in Version
    BY DEF At, AllSound, Sound
<1>2. ASSUME good PROVE bin = Official(proc[p].want)
    <2>1. receipt # NoReceipt
        BY <1>1, <1>2, FileFacts
    <2> QED BY <2>1, <1>2 DEF ReceiptHonest
<1>3. Sound(r)
    BY <1>1, <1>2 DEF AllSound, Sound, InstallerType, InstallTypeOK, Verified, Place
<1>4. where \in Place
    BY DEF Place
<1> HIDE DEF where, good
<1>5. AllSound' /\ proc' \in [Process -> InstallerType]
    <2>1. GoWith(p, where, bin)
        BY DEF where, good
    <2> QED BY <1>3, <1>4, <2>1, GoWithIs, OneSteps
<1> QED BY <1>5 DEF InstallTypeOK, ReceiptHonest, InstallerType

LEMMA ReverifyKeeps == ASSUME IInv, NEW p \in Process, Reverify(p) PROVE IInv'
<1> USE DEF IInv
<1>1. proc[p].want \in Version
    BY DEF Reverify, At, AllSound, Sound
<1>2. PICK where \in Place :
        /\ Go(p, where)
        /\ \/ /\ where = "ok" /\ proc[p].file = Official(proc[p].want)
              /\ receipt' = [version |-> proc[p].want, of |-> proc[p].file]
           \/ where = "download" /\ receipt' = receipt
    BY DEF Reverify, Place
<1> DEFINE r == [pc |-> where, want |-> proc[p].want, force |-> proc[p].force, file |-> proc[p].file]
<1>3. Sound(r)
    BY <1>1, <1>2 DEF AllSound, Sound, InstallerType, Verified
<1>4. AllSound' /\ proc' \in [Process -> InstallerType]
    BY <1>2, <1>3, GoIs, OneSteps
<1>5. /\ receipt' \in [version : Version, of : File] \cup {NoReceipt}
      /\ ReceiptHonest'
    BY <1>1, <1>2, FileFacts DEF InstallTypeOK, ReceiptHonest
<1>6. UNCHANGED <<pinned, bin, lock, upgrades, damage>>
    BY DEF Reverify
<1> QED BY <1>4, <1>5, <1>6 DEF InstallTypeOK, InstallerType

LEMMA DownloadKeeps == ASSUME IInv, NEW p \in Process, Download(p) PROVE IInv'
<1> USE DEF IInv, Download
<1> PICK f \in File : GoWith(p, "verify", f)
    OBVIOUS
<1> DEFINE r == [pc |-> "verify", want |-> proc[p].want, force |-> proc[p].force, file |-> f]
<1>1. Sound(r)
    BY DEF At, AllSound, Sound, InstallerType, Verified, Place
<1>2. "verify" \in Place
    BY DEF Place
<1>3. AllSound' /\ proc' \in [Process -> InstallerType]
    BY <1>1, <1>2, GoWithIs, OneSteps
<1> QED BY <1>3 DEF InstallTypeOK, ReceiptHonest, InstallerType

\* What was verified is renamed, and then written into the receipt.
LEMMA InstallingKeeps == ASSUME IInv, NEW p \in Process, Rename(p) \/ WriteReceipt(p) PROVE IInv'
<1> USE DEF IInv
<1>1. PICK where \in {"write", "ok"} : Go(p, where)
    BY DEF Rename, WriteReceipt
<1>2. /\ proc[p].want \in Version
      /\ proc[p].file = Official(proc[p].want)
      /\ proc[p].file \in File
    BY FileFacts DEF Rename, WriteReceipt, At, AllSound, Sound, Verified
<1> DEFINE r == [pc |-> where, want |-> proc[p].want, force |-> proc[p].force, file |-> proc[p].file]
<1>3. where \in Place
    BY DEF Place
<1>4. Sound(r)
    BY <1>2, <1>3 DEF AllSound, Sound, InstallerType, Verified
<1>5. AllSound' /\ proc' \in [Process -> InstallerType]
    BY <1>1, <1>3, <1>4, GoIs, OneSteps
<1>6. /\ bin' \in File \cup {NoFile}
      /\ receipt' \in [version : Version, of : File] \cup {NoReceipt}
      /\ ReceiptHonest'
      /\ UNCHANGED <<pinned, lock, upgrades, damage>>
    BY <1>2 DEF Rename, WriteReceipt, InstallTypeOK, ReceiptHonest
<1> QED BY <1>5, <1>6 DEF InstallTypeOK, InstallerType

LEMMA NetworkFailsKeeps == ASSUME IInv, NEW p \in Process, NetworkFails(p) PROVE IInv'
<1> USE DEF IInv, NetworkFails
<1> DEFINE r == [pc |-> "undo", want |-> proc[p].want, force |-> proc[p].force, file |-> proc[p].file]
<1>1. Sound(r)
    BY DEF At, AllSound, Sound, InstallerType, Verified, Place
<1>2. "undo" \in Place
    BY DEF Place
<1>3. AllSound' /\ proc' \in [Process -> InstallerType]
    BY <1>1, <1>2, GoIs, OneSteps
<1>4. damage' \in 0..MaxDamage
    BY InstallAssumption DEF InstallTypeOK
<1> QED BY <1>3, <1>4 DEF InstallTypeOK, ReceiptHonest, InstallerType

LEMMA EndingKeeps == ASSUME IInv, NEW p \in Process, Exit(p) \/ Killed(p) PROVE IInv'
<1> USE DEF IInv
<1>1. Sound(Idle)
    BY DEF Sound, Idle, InstallerType, Place, Verified
<1>2. AllSound' /\ proc' \in [Process -> InstallerType]
    BY <1>1, OneSteps DEF Exit, Killed
<1>3. /\ receipt' \in {receipt, NoReceipt}
      /\ damage' \in 0..MaxDamage
      /\ UNCHANGED <<pinned, bin, lock, upgrades>>
    BY InstallAssumption DEF Exit, Killed, InstallTypeOK
<1> QED BY <1>2, <1>3 DEF InstallTypeOK, ReceiptHonest, InstallerType

\* Locks age, files drift and versions are pinned without the installers.
LEMMA OutsideKeeps == ASSUME IInv, LockAges \/ Drift \/ Upgrade PROVE IInv'
<1> USE DEF IInv
<1>1. UNCHANGED <<receipt, proc>>
    BY DEF LockAges, Drift, Upgrade
<1>2. lock' \in [owner : Process, stale : BOOLEAN] \cup {NoLock}
    BY DEF LockAges, Drift, Upgrade, InstallTypeOK
<1>3. bin' \in File \cup {NoFile}
    <2>1. bin' = bin \/ \E v \in Version : bin' = [version |-> v, official |-> FALSE]
        BY DEF LockAges, Drift, Upgrade
    <2>2. \A v \in Version : [version |-> v, official |-> FALSE] \in File
        BY DEF File
    <2>3. bin \in File \cup {NoFile}
        BY DEF InstallTypeOK
    <2> QED BY <2>1, <2>2, <2>3, Zenon
<1>4. pinned' \in Version /\ upgrades' \in 0..MaxUpgrades /\ damage' \in 0..MaxDamage
    BY InstallAssumption DEF LockAges, Drift, Upgrade, InstallTypeOK
<1> QED BY <1>1, <1>2, <1>3, <1>4 DEF InstallTypeOK, ReceiptHonest, AllSound

LEMMA InstallStep == IInv /\ [InstallNext]_installVars => IInv'
<1> SUFFICES ASSUME IInv, [InstallNext]_installVars PROVE IInv'
    OBVIOUS
<1>1. CASE UNCHANGED installVars
    BY <1>1 DEF installVars, IInv, InstallTypeOK, ReceiptHonest, AllSound
<1>2. CASE LockAges \/ Drift \/ Upgrade
    BY <1>2, OutsideKeeps
<1>3. ASSUME NEW p \in Process,
             Ensure(p) \/ EnsureExplicit(p) \/ Step(p) \/ GiveUp(p) \/ NetworkFails(p) \/ Killed(p)
      PROVE  IInv'
    BY <1>3, EnsureKeeps, EnsureExplicitKeeps, LockingKeeps, ProbeKeeps, CheckReceiptKeeps,
       ReverifyKeeps, DownloadKeeps, InstallingKeeps, NetworkFailsKeeps, EndingKeeps DEF Step
<1> QED BY <1>1, <1>2, <1>3 DEF InstallNext

-----------------------------------------------------------------------------
\* installPinnedRuntime() in scripts/bootstrap-runtime.mjs: however many
\* installers race and die, one that ends well has seen official bytes of the
\* version it wanted, and so has whoever wrote the receipt.
THEOREM OkIsOfficialHolds == InstallSpec => []OkIsOfficial
BY InstallInitSound, InstallStep, IInvGives, PTL DEF InstallSpec

\* renameSync() in scripts/bootstrap-runtime.mjs: the installers only ever
\* replace the executable by official bytes.
THEOREM NeverWorseHolds == InstallSpec => NeverWorse
<1>1. IInv /\ [InstallNext]_installVars =>
        [bin' # bin => damage' # damage \/ \E v \in Version : bin' = Official(v)]_installVars
    <2> SUFFICES ASSUME IInv, [InstallNext]_installVars, bin' # bin
                 PROVE  damage' # damage \/ \E v \in Version : bin' = Official(v)
        BY DEF installVars
    <2>1. CASE Drift
        BY <2>1, InstallAssumption DEF Drift, IInv, InstallTypeOK
    <2>2. ASSUME NEW p \in Process, Rename(p) PROVE \E v \in Version : bin' = Official(v)
        BY <2>2 DEF Rename, At, IInv, AllSound, Sound, Verified
    <2> QED
        BY <2>1, <2>2 DEF InstallNext, Step, installVars, Ensure, EnsureExplicit, Acquire,
           SeeStale, RemoveStale, GiveUp, Probe, CheckReceipt, Reverify, Download, Verify,
           WriteReceipt, NetworkFails, Release, Exit, Killed, LockAges, Upgrade
<1> QED
    BY <1>1, InstallInitSound, InstallStep, PTL DEF InstallSpec, NeverWorse

-----------------------------------------------------------------------------
(* The feed cache: the inductive invariant.                                *)

Datum == Nat \cup {NoData}

Stored == [content : Nat, savedAt : Nat]

PartRecord == [st : {"waiting", "came", "failed"}, spare : Datum, got : Datum]

Source == Query \cup Category

LoadRecord ==
    [st : {"idle", "loading", "served", "error"}, key : CacheKey, now : Nat, spare : Datum,
     parts : {<<>>} \cup UNION {[S -> PartRecord] : S \in SUBSET Source}, got : Datum]

\* The keys of the Map, each once, and the entries say the same.
Listed(s) ==
    /\ s.entries \in [CacheKey -> Stored \cup {None}]
    /\ s.order \in Seq(CacheKey) /\ Len(s.order) <= CacheSize
    /\ \A i, j \in 1..Len(s.order) : s.order[i] = s.order[j] => i = j
    /\ \A k \in CacheKey : s.entries[k] # None <=> \E i \in 1..Len(s.order) : s.order[i] = k

\* Data is no older than the time its entry counts from, but for the home batch,
\* which may contain what was stale then.
EntryOk(k) ==
    entries[k] # None =>
        /\ entries[k].savedAt <= time
        /\ k # Home => entries[k].savedAt <= entries[k].content /\ entries[k].content <= time
        /\ k = Home => entries[k].savedAt < entries[k].content + StaleTtl

\* What a load that began at now has of one key.
PartOk(p, now) ==
    /\ p.spare # NoData => now < p.spare + StaleTtl
    /\ p.st = "came" => p.got \in Nat /\ now < p.got + StaleTtl
    /\ p.st = "failed" => p.spare = NoData

\* The categories of the home batch of an hour.
MixAt(t) == mix[((t \div Hour) % Len(mix)) + 1]

Limit(k) == IF k = Home THEN 2 * StaleTtl ELSE StaleTtl

LoadingOk(a) ==
    /\ a.key = Home => DOMAIN a.parts = MixAt(a.now)
    /\ a.key # Home => a.key \in Query /\ DOMAIN a.parts = {a.key}
    /\ DOMAIN a.parts \subseteq Source /\ a.parts \in [DOMAIN a.parts -> PartRecord]
    /\ Awaited(a.parts) # {}
    /\ \A k \in DOMAIN a.parts : PartOk(a.parts[k], a.now)
    /\ a.spare # NoData => a.now < a.spare + Limit(a.key)
    /\ \A k \in Awaited(a.parts) :
          /\ entries[k] # None => entries[k].savedAt <= a.now
          /\ a.key = Home => ~Fresh(entries[k], HomeTtl)

AnswerOk(a) ==
    /\ a.st = "served" => a.now < a.got + Limit(a.key)
    /\ a.st = "error" => a.spare = NoData /\ \A k \in DOMAIN a.parts : a.parts[k].spare = NoData

LoadOk(a) ==
    /\ a.st # "idle" => a.now <= time
    /\ a.st = "loading" => LoadingOk(a)
    /\ a.st = "served" => a.got \in Nat
    /\ AnswerOk(a)

SameHour(s, t) == s \div Hour = t \div Hour

LoadsHome(c) == calls[c].st = "loading" /\ calls[c].key = Home

\* A home load is no older than the home batch of its hour, for it waits for all
\* that an earlier load of the hour still waits for.
HomeInOrder ==
    /\ \A c \in Call :
          LoadsHome(c) /\ entries[Home] # None /\ SameHour(entries[Home].savedAt, calls[c].now)
            => entries[Home].savedAt <= calls[c].now
    /\ \A c, d \in Call :
          /\ LoadsHome(c) /\ LoadsHome(d) /\ SameHour(calls[c].now, calls[d].now)
          /\ calls[c].now < calls[d].now
          => Awaited(calls[c].parts) \subseteq Awaited(calls[d].parts)

CacheShape ==
    /\ mix \in MixChoices /\ time \in Nat /\ time <= MaxTime
    /\ fetches \subseteq Source
    /\ calls \in [Call -> LoadRecord]

CacheInv ==
    /\ CacheShape
    /\ Listed([entries |-> entries, order |-> order])
    /\ \A k \in CacheKey : EntryOk(k)
    /\ \A c \in Call : LoadOk(calls[c])
    /\ \A k \in fetches : Joined(k) # {}
    /\ HomeInOrder

-----------------------------------------------------------------------------
(* The Map.                                                                *)

LEMMA CacheFacts ==
    ASSUME CacheInv
    PROVE  /\ mix \in MixChoices /\ time \in Nat /\ time <= MaxTime /\ fetches \subseteq Source
           /\ calls \in [Call -> LoadRecord]
           /\ entries \in [CacheKey -> Stored \cup {None}]
           /\ Ttl \in Nat /\ HomeTtl \in Nat /\ StaleTtl \in Nat \ {0}
           /\ Ttl <= StaleTtl /\ HomeTtl <= StaleTtl
           /\ Home \in CacheKey /\ Home \notin Source /\ Source \subseteq CacheKey
           /\ None \notin Stored
<1>1. Home \notin Source
    BY CacheOptions DEF CacheInv, CacheShape, Source, Category
<1>2. None \notin Stored
    BY DEF None, Stored
<1> QED BY <1>1, <1>2, CacheOptions DEF CacheInv, CacheShape, Listed, CacheKey, Source

\* StaleCache.set(): the new entry is there, one other may be gone.
LEMMA SetEntryKeeps ==
    ASSUME NEW s, s = [entries |-> s.entries, order |-> s.order], Listed(s),
           NEW k \in CacheKey, NEW e \in Stored
    PROVE  LET t == SetEntry(s, k, e) IN
           /\ Listed(t) /\ t = [entries |-> t.entries, order |-> t.order]
           /\ t.entries[k] = e
           /\ \A j \in CacheKey : j # k => t.entries[j] \in {None, s.entries[j]}
<1> DEFINE t == SetEntry(s, k, e)
           full == Len(s.order) >= CacheSize /\ s.entries[k] = None
           kept == IF full THEN Tail(s.order) ELSE s.order
<1>1. /\ s.entries \in [CacheKey -> Stored \cup {None}] /\ s.order \in Seq(CacheKey)
      /\ Len(s.order) \in Nat /\ Len(s.order) <= CacheSize /\ CacheSize \in Nat \ {0}
      /\ \A i, j \in 1..Len(s.order) : s.order[i] = s.order[j] => i = j
      /\ \A j \in CacheKey : s.entries[j] # None <=> \E i \in 1..Len(s.order) : s.order[i] = j
      /\ e # None
    BY CacheOptions DEF Listed, None, Stored
<1>2. /\ t.entries = [x \in CacheKey |-> IF x = k THEN e
                                        ELSE IF full /\ x = Head(s.order) THEN None
                                        ELSE s.entries[x]]
      /\ t.order = IF s.entries[k] = None THEN Append(kept, k) ELSE kept
      /\ t = [entries |-> t.entries, order |-> t.order]
    BY <1>1 DEF SetEntry
<1> HIDE DEF t
<1>3. /\ t.entries \in [CacheKey -> Stored \cup {None}] /\ t.entries[k] = e
      /\ \A j \in CacheKey : j # k => t.entries[j] \in {None, s.entries[j]}
    BY <1>1, <1>2
<1>4. ASSUME s.entries[k] # None PROVE Listed(t)
    <2>1. t.order = s.order /\ \A j \in CacheKey : t.entries[j] # None <=> s.entries[j] # None
        BY <1>1, <1>2, <1>4
    <2> QED BY <1>1, <1>2, <1>3, <2>1 DEF Listed
<1>5. ASSUME s.entries[k] = None /\ ~full PROVE Listed(t)
    <2>1. /\ t.order = Append(s.order, k) /\ t.order \in Seq(CacheKey)
          /\ Len(t.order) = Len(s.order) + 1 /\ Len(t.order) <= CacheSize
          /\ \A i \in 1..Len(s.order) : t.order[i] = s.order[i]
          /\ t.order[Len(s.order) + 1] = k
        BY <1>1, <1>2, <1>5
    <2>2. \A i \in 1..Len(s.order) : s.order[i] # k
        BY <1>1, <1>5
    <2>3. \A i, j \in 1..Len(t.order) : t.order[i] = t.order[j] => i = j
        <3>1. \A i \in 1..Len(t.order) : i \in 1..Len(s.order) \/ i = Len(s.order) + 1
            BY <1>1, <2>1
        <3> QED BY <1>1, <2>1, <2>2, <3>1
    <2>4. ASSUME NEW j \in CacheKey
          PROVE  t.entries[j] # None <=> \E i \in 1..Len(t.order) : t.order[i] = j
        <3>1. t.entries[j] # None <=> j = k \/ s.entries[j] # None
            BY <1>1, <1>2, <1>5
        <3>2. (\E i \in 1..Len(t.order) : t.order[i] = j)
                <=> j = k \/ \E i \in 1..Len(s.order) : s.order[i] = j
            BY <1>1, <2>1
        <3> QED BY <1>1, <3>1, <3>2
    <2> QED BY <1>2, <1>3, <2>1, <2>3, <2>4 DEF Listed
<1>6. ASSUME full PROVE Listed(t)
    <2> DEFINE n == Len(s.order)
    <2>1. n = CacheSize /\ n \in Nat \ {0} /\ s.order # <<>> /\ Head(s.order) = s.order[1]
        BY <1>1, <1>6
    <2>2. /\ t.order = Append(Tail(s.order), k) /\ t.order \in Seq(CacheKey)
          /\ Len(t.order) = n
          /\ \A i \in 1..(n - 1) : t.order[i] = s.order[i + 1]
          /\ t.order[n] = k
        <3>1. /\ Tail(s.order) \in Seq(CacheKey) /\ Len(Tail(s.order)) = n - 1
              /\ \A i \in 1..(n - 1) : Tail(s.order)[i] = s.order[i + 1]
            BY <1>1, <2>1
        <3> DEFINE tail == Tail(s.order)
        <3>2. t.order = Append(tail, k)
            BY <1>2, <1>6
        <3>3. tail \in Seq(CacheKey) /\ Len(tail) = n - 1 /\ n - 1 \in Nat
            BY <2>1, <3>1
        <3> HIDE DEF tail
        <3>4. /\ Append(tail, k) \in Seq(CacheKey) /\ Len(Append(tail, k)) = (n - 1) + 1
              /\ \A i \in 1..(n - 1) : Append(tail, k)[i] = tail[i]
              /\ Append(tail, k)[(n - 1) + 1] = k
            BY <3>3
        <3> QED BY <2>1, <3>1, <3>2, <3>4 DEF tail
    <2>3. \A i \in 1..n : s.order[i] # k
        BY <1>1, <1>6
    <2>4. \A i \in 1..n : i = n \/ (i \in 1..(n - 1) /\ i + 1 \in 1..n)
        BY <2>1
    <2>5. \A i, j \in 1..n : t.order[i] = t.order[j] => i = j
        <3> SUFFICES ASSUME NEW i \in 1..n, NEW j \in 1..n, t.order[i] = t.order[j] PROVE i = j
            OBVIOUS
        <3>1. CASE i # n /\ j # n
            <4>1. s.order[i + 1] = s.order[j + 1] /\ i + 1 \in 1..n /\ j + 1 \in 1..n
                BY <2>2, <2>4, <3>1
            <4>2. i + 1 = j + 1
                BY <1>1, <4>1
            <4> QED BY <4>2
        <3>2. CASE i = n \/ j = n
            BY <2>2, <2>3, <2>4, <3>2
        <3> QED BY <3>1, <3>2
    <2>6. ASSUME NEW j \in CacheKey
          PROVE  t.entries[j] # None <=> \E i \in 1..n : t.order[i] = j
        <3>1. t.entries[j] # None <=> j = k \/ (j # s.order[1] /\ s.entries[j] # None)
            BY <1>1, <1>2, <1>6, <2>1
        <3>2. ASSUME NEW i \in 1..n, t.order[i] = j
              PROVE  j = k \/ (j # s.order[1] /\ s.entries[j] # None)
            <4>1. CASE i = n
                BY <2>2, <3>2, <4>1
            <4>2. CASE i # n
                <5>1. j = s.order[i + 1] /\ i + 1 \in 1..n /\ i + 1 # 1 /\ 1 \in 1..n
                    BY <2>1, <2>2, <2>4, <3>2, <4>2
                <5> QED BY <1>1, <5>1
            <4> QED BY <4>1, <4>2
        <3>3. ASSUME j = k \/ (j # s.order[1] /\ s.entries[j] # None)
              PROVE  \E i \in 1..n : t.order[i] = j
            <4>1. CASE j = k
                BY <2>1, <2>2, <4>1
            <4>2. CASE j # s.order[1] /\ s.entries[j] # None
                <5>1. PICK i \in 1..n : s.order[i] = j
                    BY <1>1, <4>2
                <5>2. i # 1
                    BY <4>2, <5>1
                <5>3. i - 1 \in 1..(n - 1) /\ (i - 1) + 1 = i /\ i - 1 \in 1..n
                    BY <2>1, <5>2
                <5> QED BY <2>2, <5>1, <5>3
            <4> QED BY <3>3, <4>1, <4>2
        <3> QED BY <3>1, <3>2, <3>3
    <2>7. Len(t.order) <= CacheSize
        BY <2>1, <2>2
    <2> QED BY <1>2, <1>3, <2>2, <2>5, <2>6, <2>7 DEF Listed
<1> QED BY <1>2, <1>3, <1>4, <1>5, <1>6 DEF t

-----------------------------------------------------------------------------
(* Parts and loads.                                                        *)

LEMMA LeastDatum ==
    ASSUME NEW S \in SUBSET Nat, S # {}
    PROVE  Oldest(S) \in S
<1>1. \A m, n \in Nat : m < n => <<m, n>> \in OpToRel(<, Nat)
    BY DEF OpToRel
<1>2. PICK n \in S : \A m \in S : ~(<<m, n>> \in OpToRel(<, Nat))
    BY WFMin, NatLessThanWellFounded
<1>3. \A m \in S : ~(m < n)
    BY <1>1, <1>2
<1>4. \A m \in S : n <= m
    BY <1>3
<1> QED BY <1>2, <1>4 DEF Oldest

\* What a load that begins now may fall back on is within its window.
LEMMA SpareIs ==
    ASSUME CacheInv, NEW k \in CacheKey
    PROVE  LET v == Spare(entries[k]) IN v \in Datum /\ (v # NoData => time < v + Limit(k))
<1>1. /\ EntryOk(k) /\ time \in Nat /\ StaleTtl \in Nat /\ entries[k] \in Stored \cup {None}
    BY CacheFacts DEF CacheInv
<1>2. CASE entries[k] # None /\ time - entries[k].savedAt < StaleTtl
    <2>1. /\ entries[k].content \in Nat /\ entries[k].savedAt \in Nat
          /\ Spare(entries[k]) = entries[k].content
        BY <1>1, <1>2 DEF Spare, Stored
    <2>2. time < entries[k].content + Limit(k)
        BY <1>1, <1>2, <2>1 DEF EntryOk, Limit
    <2> QED BY <2>1, <2>2 DEF Datum
<1>3. CASE ~(entries[k] # None /\ time - entries[k].savedAt < StaleTtl)
    BY <1>3 DEF Spare, Datum
<1> QED BY <1>2, <1>3

LEMMA PartBegins ==
    ASSUME CacheInv, NEW k \in Source, NEW ttl \in Nat, ttl <= StaleTtl
    PROVE  LET p == Part(k, ttl) IN
           /\ p \in PartRecord /\ PartOk(p, time)
           /\ p.st \in {"waiting", "came"} /\ (p.st = "waiting" <=> ~Fresh(entries[k], ttl))
<1>1. /\ EntryOk(k) /\ k # Home /\ k \in CacheKey /\ time \in Nat /\ StaleTtl \in Nat
      /\ entries[k] \in Stored \cup {None}
    BY CacheFacts DEF CacheInv
<1>2. CASE Fresh(entries[k], ttl)
    <2> DEFINE v == entries[k].content
    <2>1. v \in Nat /\ entries[k].savedAt \in Nat /\ time < v + StaleTtl
        BY <1>1, <1>2 DEF Fresh, EntryOk, Stored
    <2>2. Part(k, ttl) = [st |-> "came", spare |-> v, got |-> v]
        BY <1>2 DEF Part, Came
    <2> HIDE DEF v
    <2> QED BY <1>2, <2>1, <2>2 DEF PartRecord, PartOk, Datum
<1>3. CASE ~Fresh(entries[k], ttl)
    <2> DEFINE v == Spare(entries[k])
    <2>1. v \in Datum /\ (v # NoData => time < v + StaleTtl)
        BY <1>1, SpareIs DEF Limit
    <2>2. Part(k, ttl) = [st |-> "waiting", spare |-> v, got |-> NoData]
        BY <1>3 DEF Part, Waiting
    <2> HIDE DEF v
    <2> QED BY <1>3, <2>1, <2>2 DEF PartRecord, PartOk, Datum
<1> QED BY <1>2, <1>3

\* What came of one key when its flight ends.
LEMMA PartEnds ==
    ASSUME NEW p \in PartRecord, NEW now \in Nat, NEW ok \in BOOLEAN, PartOk(p, now),
           time \in Nat, now <= time, StaleTtl \in Nat \ {0}
    PROVE  LET q == PartOutcome(p, ok) IN
           q \in PartRecord /\ PartOk(q, now) /\ q.st \in {"came", "failed"}
                /\ (ok => q.st = "came")
<1>1. ASSUME NEW v \in Nat, now < v + StaleTtl
      PROVE  Came(v) \in PartRecord /\ PartOk(Came(v), now) /\ Came(v).st = "came"
    BY <1>1 DEF Came, PartRecord, PartOk, Datum
<1>2. CASE ok
    <2>1. PartOutcome(p, ok) = Came(time) /\ now < time + StaleTtl
        BY <1>2 DEF PartOutcome
    <2> QED BY <1>1, <2>1
<1>3. CASE ~ok /\ p.spare # NoData
    <2>1. PartOutcome(p, ok) = Came(p.spare) /\ p.spare \in Nat /\ now < p.spare + StaleTtl
        BY <1>3 DEF PartOutcome, PartRecord, PartOk, Datum
    <2> QED BY <1>1, <1>3, <2>1
<1>4. CASE ~ok /\ p.spare = NoData
    <2> DEFINE q == [p EXCEPT !.st = "failed"]
    <2>1. PartOutcome(p, ok) = q
        BY <1>4 DEF PartOutcome
    <2>2. q \in PartRecord /\ q.st = "failed" /\ q.spare = NoData
        BY <1>4 DEF PartRecord
    <2> HIDE DEF q
    <2> QED BY <1>4, <2>1, <2>2 DEF PartOk
<1> QED BY <1>2, <1>3, <1>4

\* What a load mixes.
LEMMA ContentsAre ==
    ASSUME NEW parts, parts \in [DOMAIN parts -> PartRecord], NEW now \in Nat,
           \A k \in DOMAIN parts : PartOk(parts[k], now)
    PROVE  /\ Contents(parts) \subseteq Nat
           /\ \A v \in Contents(parts) : now < v + StaleTtl
           /\ Contents(parts) # {} =>
                 Oldest(Contents(parts)) \in Nat /\ now < Oldest(Contents(parts)) + StaleTtl
<1>1. \A v \in Contents(parts) : v \in Nat /\ now < v + StaleTtl
    BY DEF Contents, PartOk
<1>2. Contents(parts) # {} => Oldest(Contents(parts)) \in Contents(parts)
    BY <1>1, LeastDatum
<1> QED BY <1>1, <1>2

\* loadWithStale() once its producer has settled.
LEMMA SettledIs ==
    ASSUME CacheInv, NEW a \in LoadRecord, NEW S \in SUBSET Source, NEW parts \in [S -> PartRecord],
           a.now <= time, Awaited(parts) = {}, \A k \in S : PartOk(parts[k], a.now),
           a.spare # NoData => a.now < a.spare + Limit(a.key)
    PROVE  LET b == Settled(a, parts) IN
           /\ b \in LoadRecord /\ LoadOk(b) /\ b.st \in {"served", "error"}
<1> DEFINE b == Settled(a, parts)
           v == Oldest(Contents(parts))
<1>1. a.now \in Nat /\ a.spare \in Datum /\ StaleTtl \in Nat \ {0}
    BY CacheFacts DEF LoadRecord
<1>2. Contents(parts) # {} => v \in Nat /\ a.now < v + StaleTtl
    <2>1. DOMAIN parts = S /\ parts \in [DOMAIN parts -> PartRecord]
        OBVIOUS
    <2> QED BY <1>1, <2>1, ContentsAre
<1> HIDE DEF v
<1>3. ASSUME NEW w \in Nat, a.now < w + Limit(a.key), b = Served(a, w)
      PROVE  b \in LoadRecord /\ LoadOk(b) /\ b.st \in {"served", "error"}
    <2>1. b = [a EXCEPT !.st = "served", !.got = w, !.parts = <<>>]
        BY <1>3 DEF Served
    <2>2. /\ b \in LoadRecord /\ b.st = "served" /\ b.got = w /\ b.now = a.now /\ b.key = a.key
        BY <2>1 DEF LoadRecord, Datum
    <2> QED BY <1>3, <2>2 DEF LoadOk, AnswerOk
<1>4. CASE Contents(parts) # {}
    <2>1. b = Served(a, v)
        BY <1>4 DEF Settled, v
    <2>2. a.now < v + Limit(a.key)
        BY <1>1, <1>2, <1>4 DEF Limit
    <2> QED BY <1>2, <1>3, <1>4, <2>1, <2>2
<1>5. CASE Contents(parts) = {} /\ a.spare # NoData
    <2>1. b = Served(a, a.spare) /\ a.spare \in Nat
        BY <1>1, <1>5 DEF Settled, Datum
    <2> QED BY <1>3, <1>5, <2>1
<1>6. CASE Contents(parts) = {} /\ a.spare = NoData
    <2>1. b = [a EXCEPT !.st = "error", !.parts = parts]
        BY <1>6 DEF Settled
    <2>2. parts \in {<<>>} \cup UNION {[T -> PartRecord] : T \in SUBSET Source}
        OBVIOUS
    <2>3. /\ b \in LoadRecord /\ b.st = "error" /\ b.parts = parts /\ b.now = a.now
          /\ b.spare = NoData
        BY <1>6, <2>1, <2>2 DEF LoadRecord
    <2>4. ASSUME NEW k \in DOMAIN parts PROVE parts[k].spare = NoData
        <3>1. parts[k] \in PartRecord /\ parts[k].st # "waiting" /\ PartOk(parts[k], a.now)
            BY DEF Awaited
        <3>2. parts[k].st # "came"
            BY <1>6, <3>1 DEF Contents
        <3> QED BY <3>1, <3>2 DEF PartRecord, PartOk
    <2> QED BY <2>3, <2>4 DEF LoadOk, AnswerOk
<1> QED BY <1>4, <1>5, <1>6

-----------------------------------------------------------------------------
(* What a step leaves of the loads it does not touch.                      *)

\* Entries are dropped, and those that are written are not awaited.
LEMMA LoadStays ==
    ASSUME CacheInv, NEW c \in Call, UNCHANGED <<mix, time>>, calls'[c] = calls[c],
           calls[c].st = "loading" =>
              \A k \in Awaited(calls[c].parts) : entries'[k] \in {None, entries[k]}
    PROVE  LoadOk(calls[c])' /\ calls'[c] \in LoadRecord'
<1> DEFINE a == calls[c]
<1>1. LoadOk(a) /\ a \in LoadRecord /\ a' = a
    BY CacheFacts DEF CacheInv
<1>2. LoadRecord' = LoadRecord
    BY DEF LoadRecord, Source, Category, CacheKey
<1> HIDE DEF a
<1>3. ASSUME a.st = "loading" PROVE LoadingOk(a)'
    <2>1. LoadingOk(a)
        BY <1>1, <1>3 DEF LoadOk
    <2>2. \A k \in Awaited(a.parts) : entries'[k] \in {None, entries[k]}
        BY <1>3 DEF a
    <2>3. \A k \in Awaited(a.parts) :
            /\ entries'[k] # None => entries'[k].savedAt <= a.now
            /\ a.key = Home => ~Fresh(entries'[k], HomeTtl)
        BY <2>1, <2>2 DEF LoadingOk, Fresh
    <2> QED BY <1>1, <2>1, <2>3 DEF LoadingOk, MixAt, Fresh, Source, Category
<1>4. LoadOk(a)'
    BY <1>1, <1>3 DEF LoadOk, AnswerOk
<1> QED BY <1>1, <1>2, <1>4 DEF a

LEMMA LoadIs ==
    ASSUME CacheInv, NEW k \in CacheKey, NEW parts,
           parts \in {<<>>} \cup UNION {[S -> PartRecord] : S \in SUBSET Source}
    PROVE  LET a == Load(k, parts) IN
           /\ a \in LoadRecord /\ a.st = "loading" /\ a.key = k /\ a.now = time
           /\ a.parts = parts /\ (a.spare # NoData => time < a.spare + Limit(k))
<1> DEFINE v == Spare(entries[k])
<1>1. v \in Datum /\ (v # NoData => time < v + Limit(k)) /\ time \in Nat /\ NoData \in Datum
    BY SpareIs, CacheFacts DEF Datum
<1>2. Load(k, parts) = [st |-> "loading", key |-> k, now |-> time, spare |-> v,
                        parts |-> parts, got |-> NoData]
    BY DEF Load
<1> HIDE DEF v
<1> QED BY <1>1, <1>2 DEF LoadRecord

\* A load that is served from a fresh entry.
LEMMA HitIs ==
    ASSUME CacheInv, NEW k \in CacheKey, NEW ttl \in Nat, ttl <= StaleTtl, Fresh(entries[k], ttl)
    PROVE  LET a == Served(Load(k, <<>>), entries[k].content) IN
           a \in LoadRecord /\ LoadOk(a) /\ a.st = "served"
<1> DEFINE v == entries[k].content
           a == Load(k, <<>>)
           b == [a EXCEPT !.st = "served", !.got = v, !.parts = <<>>]
<1>1. a \in LoadRecord /\ a.key = k /\ a.now = time
    BY LoadIs
<1>2. /\ EntryOk(k) /\ time \in Nat /\ StaleTtl \in Nat /\ entries[k] \in Stored
    BY CacheFacts DEF CacheInv, Fresh
<1>3. v \in Nat /\ entries[k].savedAt \in Nat
    BY <1>2 DEF Stored
<1>4. time < v + Limit(k)
    BY <1>2, <1>3 DEF Fresh, EntryOk, Limit
<1>5. Served(a, v) = b
    BY DEF Served
<1> HIDE DEF a, v
<1>6. b \in LoadRecord /\ b.st = "served" /\ b.got = v /\ b.now = time /\ b.key = k
    BY <1>1, <1>3 DEF LoadRecord, Datum
<1> HIDE DEF b
<1>7. LoadOk(b)
    BY <1>2, <1>3, <1>4, <1>6 DEF LoadOk, AnswerOk
<1> QED BY <1>5, <1>6, <1>7 DEF a, v

\* Nothing that a load does changes what its neighbours wait for.
LEMMA OneLoadKeeps ==
    ASSUME CacheInv, NEW c \in Call, NEW a \in LoadRecord, LoadOk(a),
           calls' = [calls EXCEPT ![c] = a], UNCHANGED <<mix, time, entries, order>>,
           fetches' \subseteq Source, \A k \in fetches' : Joined(k)' # {},
           a.st = "loading" /\ a.key = Home =>
              /\ a.now = time
              /\ \A d \in Call : LoadsHome(d) /\ SameHour(calls[d].now, time) =>
                                   Awaited(calls[d].parts) \subseteq Awaited(a.parts)
    PROVE  CacheInv'
<1>1. /\ calls \in [Call -> LoadRecord] /\ time \in Nat
      /\ calls' \in [Call -> LoadRecord] /\ calls'[c] = a
      /\ \A d \in Call : d # c => calls'[d] = calls[d]
    BY CacheFacts
<1>2. Source' = Source /\ CacheKey' = CacheKey /\ LoadRecord' = LoadRecord
    BY DEF Source, Category, CacheKey, LoadRecord
<1>3. CacheShape'
    BY <1>1, <1>2 DEF CacheInv, CacheShape
<1>4. Listed([entries |-> entries, order |-> order])'
    BY <1>2 DEF CacheInv, Listed
<1>5. \A k \in CacheKey' : EntryOk(k)'
    BY <1>2 DEF CacheInv, EntryOk
<1>6. ASSUME NEW d \in Call PROVE LoadOk(calls[d])'
    <2>1. CASE d # c
        BY <1>1, <2>1, LoadStays
    <2>2. CASE d = c
        <3>1. LoadOk(a)'
            BY DEF LoadOk, LoadingOk, AnswerOk, MixAt, Fresh, Source, Category
        <3> QED BY <1>1, <2>2, <3>1
    <2> QED BY <2>1, <2>2
<1>7. HomeInOrder'
    <2>1. ASSUME NEW d \in Call, LoadsHome(d)', entries'[Home] # None,
                 SameHour(entries[Home].savedAt, calls[d].now)'
          PROVE  entries'[Home].savedAt <= calls'[d].now
        <3>1. CASE d # c
            BY <1>1, <2>1, <3>1 DEF CacheInv, HomeInOrder, LoadsHome, SameHour
        <3>2. CASE d = c
            <4>1. EntryOk(Home)
                BY CacheFacts DEF CacheInv
            <4> QED BY <1>1, <2>1, <3>2, <4>1 DEF LoadsHome, EntryOk
        <3> QED BY <3>1, <3>2
    <2>2. ASSUME NEW d \in Call, NEW e \in Call, LoadsHome(d)', LoadsHome(e)',
                 SameHour(calls[d].now, calls[e].now)', calls'[d].now < calls'[e].now
          PROVE  Awaited(calls'[d].parts) \subseteq Awaited(calls'[e].parts)
        <3>1. CASE d # c /\ e # c
            BY <1>1, <2>2, <3>1 DEF CacheInv, HomeInOrder, LoadsHome, SameHour
        <3>2. CASE d # c /\ e = c
            BY <1>1, <2>2, <3>2 DEF LoadsHome, SameHour
        <3>3. CASE d = c
            <4>1. calls'[d].now = time /\ e # c /\ calls'[e] = calls[e] /\ LoadsHome(e)
                BY <1>1, <2>2, <3>3 DEF LoadsHome
            <4>2. calls[e].now <= time /\ calls[e].now \in Nat
                BY <1>1, <4>1 DEF CacheInv, LoadOk, LoadsHome, LoadRecord
            <4> QED BY <1>1, <2>2, <4>1, <4>2
        <3> QED BY <3>1, <3>2, <3>3
    <2> QED BY <2>1, <2>2 DEF HomeInOrder
<1> QED BY <1>2, <1>3, <1>4, <1>5, <1>6, <1>7 DEF CacheInv

\* Loads that only begin leave who waits.
LEMMA JoinedStays ==
    ASSUME NEW c \in Call, calls \in [Call -> LoadRecord], calls[c].st # "loading", NEW a,
           calls' = [calls EXCEPT ![c] = a], NEW k, Joined(k) # {}
    PROVE  Joined(k)' # {}
BY DEF Joined, Awaited

LEMMA BeginQueryKeeps ==
    ASSUME CacheInv, NEW c \in Call, NEW k \in Query, BeginQuery(c, k)
    PROVE  CacheInv'
<1>1. /\ k \in Source /\ k \in CacheKey /\ k # Home /\ calls \in [Call -> LoadRecord]
      /\ calls[c].st = "idle" /\ UNCHANGED <<mix, time, entries, order>>
      /\ fetches \subseteq Source /\ \A j \in fetches : Joined(j) # {}
      /\ Ttl \in Nat /\ Ttl <= StaleTtl
    BY CacheFacts DEF BeginQuery, Source, CacheInv
<1>2. CASE Fresh(entries[k], Ttl)
    <2> DEFINE a == Served(Load(k, <<>>), entries[k].content)
    <2>1. a \in LoadRecord /\ LoadOk(a) /\ a.st = "served"
        BY <1>1, <1>2, HitIs
    <2>2. calls' = [calls EXCEPT ![c] = a] /\ fetches' = fetches
        BY <1>2 DEF BeginQuery
    <2> HIDE DEF a
    <2>3. \A j \in fetches' : Joined(j)' # {}
        BY <1>1, <2>2, JoinedStays
    <2> QED BY <1>1, <2>1, <2>2, <2>3, OneLoadKeeps
<1>3. CASE ~Fresh(entries[k], Ttl)
    <2> DEFINE parts == [x \in {k} |-> Part(k, Ttl)]
               a == Load(k, parts)
    <2>1. Part(k, Ttl) \in PartRecord /\ PartOk(Part(k, Ttl), time) /\ Part(k, Ttl).st = "waiting"
        BY <1>1, <1>3, PartBegins
    <2>2. /\ parts \in [{k} -> PartRecord] /\ DOMAIN parts = {k} /\ Awaited(parts) = {k}
          /\ {k} \in SUBSET Source /\ PartOk(parts[k], time)
        BY <1>1, <2>1 DEF Awaited
    <2>3. calls' = [calls EXCEPT ![c] = a] /\ fetches' = fetches \cup {k}
        BY <1>3 DEF BeginQuery
    <2> HIDE DEF parts
    <2>4. /\ a \in LoadRecord /\ a.st = "loading" /\ a.key = k /\ a.now = time
          /\ a.parts = parts /\ (a.spare # NoData => time < a.spare + Limit(k))
        <3>1. parts \in {<<>>} \cup UNION {[S -> PartRecord] : S \in SUBSET Source}
            BY <2>2
        <3> QED BY <1>1, <3>1, LoadIs
    <2> HIDE DEF a
    <2>5. LoadOk(a)
        <3>1. EntryOk(k) /\ time \in Nat
            BY <1>1, CacheFacts DEF CacheInv
        <3>2. LoadingOk(a)
            BY <1>1, <2>2, <2>4, <3>1 DEF LoadingOk, EntryOk
        <3> QED BY <2>4, <3>1, <3>2 DEF LoadOk, AnswerOk
    <2>6. \A j \in fetches' : Joined(j)' # {}
        <3>1. c \in Joined(k)'
            BY <1>1, <2>2, <2>3, <2>4 DEF Joined
        <3> QED BY <1>1, <2>3, <3>1, JoinedStays
    <2>7. fetches' \subseteq Source /\ a.key # Home
        BY <1>1, <2>3, <2>4
    <2> QED BY <1>1, <2>3, <2>4, <2>5, <2>6, <2>7, OneLoadKeeps
<1> QED BY <1>2, <1>3

LEMMA NoLoadIs ==
    ASSUME CacheInv PROVE NoLoad \in LoadRecord /\ LoadOk(NoLoad) /\ NoLoad.st = "idle"
<1>1. /\ NoLoad.st = "idle" /\ NoLoad.key = Home /\ NoLoad.now = 0 /\ NoLoad.spare = NoData
      /\ NoLoad.parts = <<>> /\ NoLoad.got = NoData
      /\ NoLoad = [st |-> "idle", key |-> Home, now |-> 0, spare |-> NoData, parts |-> <<>>,
                   got |-> NoData]
    BY DEF NoLoad
<1>2. Home \in CacheKey /\ NoData \in Datum
    BY DEF CacheKey, Datum
<1> QED BY <1>1, <1>2 DEF LoadRecord, LoadOk, AnswerOk

LEMMA AbandonedKeeps ==
    ASSUME CacheInv, NEW c \in Call, Abandoned(c)
    PROVE  CacheInv'
<1> DEFINE k == calls[c].key
<1>1. /\ calls \in [Call -> LoadRecord] /\ calls[c].st = "loading" /\ k # Home
      /\ calls' = [calls EXCEPT ![c] = NoLoad] /\ UNCHANGED <<mix, time, entries, order>>
      /\ fetches' = IF Joined(k) = {c} THEN fetches \ {k} ELSE fetches
      /\ fetches \subseteq Source /\ \A j \in fetches : Joined(j) # {}
    BY CacheFacts DEF Abandoned, CacheInv
<1>2. NoLoad \in LoadRecord /\ LoadOk(NoLoad) /\ NoLoad.st = "idle"
    BY NoLoadIs
<1>3. DOMAIN calls[c].parts = {k}
    BY <1>1 DEF CacheInv, LoadOk, LoadingOk
<1>4. \A j : Joined(j)' = Joined(j) \ {c}
    BY <1>1, <1>2 DEF Joined
<1>5. \A j : j # k => c \notin Joined(j)
    BY <1>3 DEF Joined, Awaited
<1> HIDE DEF k
<1>6. \A j \in fetches' : Joined(j)' # {}
    BY <1>1, <1>4, <1>5
<1>7. fetches' \subseteq Source
    BY <1>1
<1> QED BY <1>1, <1>2, <1>6, <1>7, OneLoadKeeps

LEMMA DeliveredKeeps ==
    ASSUME CacheInv, NEW c \in Call, Delivered(c)
    PROVE  CacheInv'
<1>1. /\ calls \in [Call -> LoadRecord] /\ calls[c].st # "loading"
      /\ calls' = [calls EXCEPT ![c] = NoLoad] /\ UNCHANGED <<mix, time, entries, order, fetches>>
      /\ fetches \subseteq Source /\ \A j \in fetches : Joined(j) # {}
    BY CacheFacts DEF Delivered, CacheInv
<1>2. NoLoad \in LoadRecord /\ LoadOk(NoLoad) /\ NoLoad.st = "idle"
    BY NoLoadIs
<1>3. \A j \in fetches' : Joined(j)' # {}
    BY <1>1, JoinedStays
<1> QED BY <1>1, <1>2, <1>3, OneLoadKeeps

LEMMA ElapseKeeps ==
    ASSUME CacheInv, Elapse
    PROVE  CacheInv'
<1>1. /\ time' = time + 1 /\ time < MaxTime /\ UNCHANGED <<mix, entries, order, fetches, calls>>
      /\ time \in Nat /\ MaxTime \in Nat
    BY CacheFacts, CacheOptions DEF Elapse
<1>2. Source' = Source /\ CacheKey' = CacheKey /\ LoadRecord' = LoadRecord
    BY <1>1 DEF Source, Category, CacheKey, LoadRecord
<1>3. CacheShape'
    BY <1>1, <1>2 DEF CacheInv, CacheShape
<1>4. Listed([entries |-> entries, order |-> order])'
    BY <1>1, <1>2 DEF CacheInv, Listed
<1>5. ASSUME NEW k \in CacheKey PROVE EntryOk(k)'
    <2>1. EntryOk(k) /\ entries[k] \in Stored \cup {None}
        BY CacheFacts DEF CacheInv
    <2>2. entries[k] # None => entries[k].savedAt \in Nat /\ entries[k].content \in Nat
        BY <2>1 DEF Stored
    <2> QED BY <1>1, <2>1, <2>2 DEF EntryOk
<1>6. ASSUME NEW c \in Call PROVE LoadOk(calls[c])'
    <2> DEFINE a == calls[c]
    <2>1. LoadOk(a) /\ a.now \in Nat /\ a' = a
        BY <1>1, CacheFacts DEF CacheInv, LoadRecord
    <2> HIDE DEF a
    <2>2. a.st # "idle" => a.now <= time'
        BY <1>1, <2>1 DEF LoadOk
    <2>3. ASSUME a.st = "loading" PROVE LoadingOk(a)'
        <3>1. LoadingOk(a)
            BY <2>1, <2>3 DEF LoadOk
        <3>2. ASSUME NEW k \in Awaited(a.parts) PROVE Fresh(entries[k], HomeTtl)' => Fresh(entries[k], HomeTtl)
            <4>1. k \in CacheKey /\ HomeTtl \in Nat /\ entries[k] \in Stored \cup {None}
                BY <3>1, CacheFacts DEF LoadingOk, Awaited
            <4>2. entries[k] # None => entries[k].savedAt \in Nat
                BY <4>1 DEF Stored
            <4> QED BY <1>1, <4>1, <4>2 DEF Fresh
        <3> QED BY <1>1, <2>1, <3>1, <3>2 DEF LoadingOk, MixAt, Source, Category
    <2>4. LoadOk(a)'
        BY <2>1, <2>2, <2>3 DEF LoadOk, AnswerOk
    <2> QED BY <2>1, <2>4 DEF a
<1>7. HomeInOrder' /\ \A k \in fetches' : Joined(k)' # {}
    BY <1>1 DEF CacheInv, HomeInOrder, LoadsHome, SameHour, Joined
<1> QED BY <1>2, <1>3, <1>4, <1>5, <1>6, <1>7 DEF CacheInv

-----------------------------------------------------------------------------
(* The home batch.                                                         *)

LEMMA MixIsThere ==
    ASSUME CacheInv, NEW t \in Nat
    PROVE  MixAt(t) # {} /\ MixAt(t) \in SUBSET Source /\ Home \notin MixAt(t)
<1> DEFINE n == Len(mix)
           q == t \div Hour
           i == (q % n) + 1
<1>1. n \in Nat \ {0} /\ Hour \in Nat \ {0} /\ \A j \in 1..n : mix[j] # {} /\ Home \notin mix[j]
    BY CacheOptions, CacheFacts
<1>2. q \in Nat
    BY <1>1
<1> HIDE DEF q, n
<1>3. i \in 1..n
    BY <1>1, <1>2
<1> HIDE DEF i
<1>4. MixAt(t) = mix[i]
    BY DEF MixAt, i, q, n
<1> QED BY <1>1, <1>3, <1>4 DEF Source, Category, n

\* Loads of one hour want the same categories, and what an earlier one waits for
\* has not come since.
LEMMA EarlierWaits ==
    ASSUME CacheInv, NEW d \in Call, LoadsHome(d), SameHour(calls[d].now, time)
    PROVE  /\ Awaited(calls[d].parts) # {}
           /\ \A k \in Awaited(calls[d].parts) : k \in MixAt(time) /\ ~Fresh(entries[k], HomeTtl)
<1>1. LoadingOk(calls[d]) /\ calls[d].key = Home
    BY DEF CacheInv, LoadOk, LoadsHome
<1>2. MixAt(calls[d].now) = MixAt(time)
    BY DEF MixAt, SameHour
<1> QED BY <1>1, <1>2 DEF LoadingOk, Awaited

LEMMA BeginHomeKeeps ==
    ASSUME CacheInv, NEW c \in Call, BeginHome(c)
    PROVE  CacheInv'
<1> DEFINE S == MixAt(time)
           parts == [k \in S |-> Part(k, HomeTtl)]
           load == Load(Home, parts)
           e == [content |-> Oldest(Contents(parts)), savedAt |-> time]
           set == SetEntry([entries |-> entries, order |-> order], Home, e)
<1>1. /\ calls \in [Call -> LoadRecord] /\ calls[c].st = "idle" /\ UNCHANGED <<mix, time>>
      /\ fetches \subseteq Source /\ \A j \in fetches : Joined(j) # {}
      /\ HomeTtl \in Nat /\ HomeTtl <= StaleTtl /\ Home \in CacheKey /\ Home \notin Source
      /\ time \in Nat /\ Source \subseteq CacheKey
    BY CacheFacts DEF BeginHome, CacheInv
<1>2. S # {} /\ S \in SUBSET Source
    BY <1>1, MixIsThere
<1>3. \/ /\ Fresh(entries[Home], HomeTtl)
         /\ calls' = [calls EXCEPT ![c] = Served(Load(Home, <<>>), entries[Home].content)]
         /\ UNCHANGED <<entries, order, fetches>>
      \/ /\ Awaited(parts) # {} /\ calls' = [calls EXCEPT ![c] = load]
         /\ fetches' = fetches \cup Awaited(parts) /\ UNCHANGED <<entries, order>>
      \/ /\ Awaited(parts) = {} /\ calls' = [calls EXCEPT ![c] = Settled(load, parts)]
         /\ entries' = set.entries /\ order' = set.order /\ fetches' = fetches
    BY DEF BeginHome, PickHomeCategories, MixAt
<1>4. ASSUME NEW k \in S
      PROVE  /\ parts[k] \in PartRecord /\ PartOk(parts[k], time)
             /\ parts[k].st \in {"waiting", "came"}
             /\ parts[k].st = "waiting" <=> ~Fresh(entries[k], HomeTtl)
    <2>1. k \in Source /\ parts[k] = Part(k, HomeTtl)
        BY <1>2
    <2> QED BY <1>1, <2>1, PartBegins
<1>5. parts \in [S -> PartRecord] /\ DOMAIN parts = S
    BY <1>4
<1> HIDE DEF S, parts
<1>6. Awaited(parts) = {k \in S : ~Fresh(entries[k], HomeTtl)}
    BY <1>4, <1>5 DEF Awaited
<1>7. /\ load \in LoadRecord /\ load.st = "loading" /\ load.key = Home /\ load.now = time
      /\ load.parts = parts /\ (load.spare # NoData => time < load.spare + Limit(Home))
    <2>1. parts \in {<<>>} \cup UNION {[T -> PartRecord] : T \in SUBSET Source}
        BY <1>2, <1>5
    <2> QED BY <1>1, <2>1, LoadIs
<1> HIDE DEF load
<1>8. CASE /\ Fresh(entries[Home], HomeTtl)
           /\ calls' = [calls EXCEPT ![c] = Served(Load(Home, <<>>), entries[Home].content)]
           /\ UNCHANGED <<entries, order, fetches>>
    <2> DEFINE a == Served(Load(Home, <<>>), entries[Home].content)
    <2>1. a \in LoadRecord /\ LoadOk(a) /\ a.st = "served"
        BY <1>1, <1>8, HitIs
    <2>2. calls' = [calls EXCEPT ![c] = a]
        BY <1>8
    <2> HIDE DEF a
    <2>3. \A j \in fetches' : Joined(j)' # {}
        BY <1>1, <1>8, <2>2, JoinedStays
    <2> QED BY <1>1, <1>8, <2>1, <2>2, <2>3, OneLoadKeeps
<1>9. CASE /\ Awaited(parts) # {} /\ calls' = [calls EXCEPT ![c] = load]
           /\ fetches' = fetches \cup Awaited(parts) /\ UNCHANGED <<entries, order>>
    <2>1. LoadOk(load)
        <3>1. \A k \in Awaited(parts) : entries[k] # None => entries[k].savedAt <= time
            BY <1>1, <1>2, <1>6 DEF CacheInv, EntryOk
        <3>2. LoadingOk(load)
            BY <1>1, <1>2, <1>4, <1>5, <1>6, <1>7, <1>9, <3>1 DEF LoadingOk, S
        <3> QED BY <1>1, <1>7, <3>2 DEF LoadOk, AnswerOk
    <2>2. ASSUME NEW d \in Call, LoadsHome(d), SameHour(calls[d].now, time)
          PROVE  Awaited(calls[d].parts) \subseteq Awaited(load.parts)
        BY <1>6, <1>7, <2>2, EarlierWaits DEF S
    <2>3. \A k \in fetches' : Joined(k)' # {}
        <3>1. \A k \in Awaited(parts) : c \in Joined(k)'
            BY <1>1, <1>7, <1>9 DEF Joined
        <3> QED BY <1>1, <1>9, <3>1, JoinedStays
    <2>4. fetches' \subseteq Source
        BY <1>1, <1>2, <1>6, <1>9
    <2> QED BY <1>1, <1>7, <1>9, <2>1, <2>2, <2>3, <2>4, OneLoadKeeps
<1>10. CASE /\ Awaited(parts) = {} /\ calls' = [calls EXCEPT ![c] = Settled(load, parts)]
            /\ entries' = set.entries /\ order' = set.order /\ fetches' = fetches
    <2> DEFINE a == Settled(load, parts)
    <2>1. /\ a \in LoadRecord /\ LoadOk(a) /\ a.st \in {"served", "error"}
        <3>1. load.now <= time /\ (load.spare # NoData => load.now < load.spare + Limit(load.key))
            BY <1>1, <1>7
        <3>2. \A k \in S : PartOk(parts[k], load.now)
            BY <1>4, <1>7
        <3>3. Awaited(parts) = {}
            BY <1>10
        <3> QED BY <1>2, <1>5, <1>7, <3>1, <3>2, <3>3, SettledIs
    <2>2. calls' = [calls EXCEPT ![c] = a]
        BY <1>10
    <2>3. Contents(parts) # {}
        <3>1. PICK k \in S : parts[k].st = "came"
            BY <1>2, <1>4, <1>6, <1>10
        <3> QED BY <1>5, <3>1 DEF Contents
    <2>4. /\ e \in Stored /\ e.savedAt = time /\ time < e.content + StaleTtl
        <3>1. Oldest(Contents(parts)) \in Nat /\ time < Oldest(Contents(parts)) + StaleTtl
            BY <1>1, <1>4, <1>5, <2>3, ContentsAre
        <3> QED BY <1>1, <3>1 DEF Stored
    <2> HIDE DEF a, e
    <2>5. /\ Listed(set) /\ set = [entries |-> entries', order |-> order'] /\ entries'[Home] = e
          /\ \A j \in CacheKey : j # Home => entries'[j] \in {None, entries[j]}
        <3> DEFINE s == [entries |-> entries, order |-> order]
        <3>1. s = [entries |-> s.entries, order |-> s.order] /\ Listed(s)
            BY DEF CacheInv
        <3>2. set = SetEntry(s, Home, e)
            OBVIOUS
        <3>3. /\ s.entries = entries /\ entries' = set.entries /\ order' = set.order
            BY <1>10
        <3> HIDE DEF s, set
        <3> QED BY <1>1, <2>4, <3>1, <3>2, <3>3, SetEntryKeeps
    <2> HIDE DEF set
    <2>6. Source' = Source /\ CacheKey' = CacheKey /\ LoadRecord' = LoadRecord
        BY <1>1 DEF Source, Category, CacheKey, LoadRecord
    <2>7. /\ calls' \in [Call -> LoadRecord] /\ calls'[c] = a
          /\ \A d \in Call : d # c => calls'[d] = calls[d]
        BY <1>1, <2>1, <2>2
    <2>8. CacheShape'
        BY <1>1, <1>10, <2>6, <2>7 DEF CacheInv, CacheShape
    <2>9. Listed([entries |-> entries, order |-> order])'
        BY <2>5, <2>6 DEF Listed
    <2>10. ASSUME NEW k \in CacheKey PROVE EntryOk(k)'
        BY <1>1, <2>4, <2>5 DEF CacheInv, EntryOk
    <2>11. ASSUME NEW d \in Call PROVE LoadOk(calls[d])'
        <3>1. CASE d = c
            BY <1>1, <2>1, <2>7, <3>1 DEF LoadOk, AnswerOk
        <3>2. CASE d # c
            <4>1. calls[d].st = "loading" =>
                    \A k \in Awaited(calls[d].parts) : k \in CacheKey /\ k # Home
                BY <1>1 DEF CacheInv, LoadOk, LoadingOk, Awaited
            <4> QED BY <1>1, <2>5, <2>7, <3>2, <4>1, LoadStays
        <3> QED BY <3>1, <3>2
    <2>12. \A k \in fetches' : Joined(k)' # {}
        BY <1>1, <1>10, <2>2, JoinedStays
    <2>13. HomeInOrder'
        <3>1. \A d \in Call : LoadsHome(d)' => d # c /\ LoadsHome(d) /\ calls'[d] = calls[d]
            BY <2>1, <2>7 DEF LoadsHome
        <3>2. \A d \in Call : LoadsHome(d) => ~SameHour(time, calls[d].now)
            <4> SUFFICES ASSUME NEW d \in Call, LoadsHome(d), SameHour(calls[d].now, time)
                         PROVE  FALSE
                BY DEF SameHour
            <4> QED BY <1>6, <1>10, EarlierWaits DEF S
        <3> QED BY <2>4, <2>5, <3>1, <3>2 DEF CacheInv, HomeInOrder, SameHour
    <2> QED BY <2>6, <2>8, <2>9, <2>10, <2>11, <2>12, <2>13 DEF CacheInv
<1> QED BY <1>3, <1>8, <1>9, <1>10

-----------------------------------------------------------------------------
(* The end of a flight.                                                    *)

PartsAfter(c, k, ok) == [calls[c].parts EXCEPT ![k] = PartOutcome(@, ok)]

DoneAt(k, ok) == {c \in Joined(k) : Awaited(PartsAfter(c, k, ok)) = {}}

MixedAt(k, ok) ==
    {c \in DoneAt(k, ok) : calls[c].key = Home /\ Contents(PartsAfter(c, k, ok)) # {}}

NowStored == [entries |-> entries, order |-> order]

OwnStored(k, ok, c) ==
    IF ~ok THEN NowStored
    ELSE SetEntry(NowStored, k, [content |-> time, savedAt |-> calls[c].now])

AllStored(k, ok, c, m) ==
    IF MixedAt(k, ok) = {} THEN OwnStored(k, ok, c)
    ELSE SetEntry(OwnStored(k, ok, c), Home,
                  [content |-> Oldest(Contents(PartsAfter(m, k, ok))), savedAt |-> calls[m].now])

LEMMA FlightIs ==
    ASSUME NEW k, NEW ok \in BOOLEAN, FlightEnds(k, ok)
    PROVE  /\ fetches' = fetches \ {k}
           /\ calls' = [c \in Call |->
                          IF c \in DoneAt(k, ok) THEN Settled(calls[c], PartsAfter(c, k, ok))
                          ELSE IF c \in Joined(k)
                               THEN [calls[c] EXCEPT !.parts = PartsAfter(c, k, ok)]
                          ELSE calls[c]]
           /\ \E c \in Latest(Joined(k)),
                 m \in Latest(IF MixedAt(k, ok) = {} THEN Joined(k) ELSE MixedAt(k, ok)) :
                 entries' = AllStored(k, ok, c, m).entries /\ order' = AllStored(k, ok, c, m).order
           /\ UNCHANGED <<mix, time>>
BY DEF FlightEnds, PartsAfter, DoneAt, MixedAt, NowStored, OwnStored, AllStored

LEMMA PartsAfterAre ==
    ASSUME CacheInv, NEW k, NEW ok \in BOOLEAN, NEW c \in Joined(k)
    PROVE  LET a == calls[c]
               p == PartsAfter(c, k, ok)
           IN  /\ c \in Call /\ a \in LoadRecord /\ a.st = "loading" /\ LoadOk(a) /\ LoadingOk(a)
               /\ a.now \in Nat /\ a.now <= time /\ k \in Awaited(a.parts) /\ k \in Source
               /\ DOMAIN p = DOMAIN a.parts /\ DOMAIN p \in SUBSET Source
               /\ p \in [DOMAIN p -> PartRecord]
               /\ Awaited(p) = Awaited(a.parts) \ {k}
               /\ \A j \in DOMAIN p : PartOk(p[j], a.now)
<1> DEFINE a == calls[c]
           p == PartsAfter(c, k, ok)
<1>1. /\ c \in Call /\ a \in LoadRecord /\ a.st = "loading" /\ LoadOk(a) /\ k \in Awaited(a.parts)
      /\ time \in Nat /\ StaleTtl \in Nat \ {0}
    BY CacheFacts DEF Joined, CacheInv
<1>2. p = [a.parts EXCEPT ![k] = PartOutcome(@, ok)]
    BY DEF PartsAfter
<1> HIDE DEF a, p
<1>3. LoadingOk(a) /\ a.now <= time /\ a.now \in Nat
    BY <1>1 DEF LoadOk, LoadRecord
<1>4. /\ a.parts \in [DOMAIN a.parts -> PartRecord] /\ DOMAIN a.parts \in SUBSET Source
      /\ \A j \in DOMAIN a.parts : PartOk(a.parts[j], a.now)
      /\ k \in DOMAIN a.parts
    BY <1>1, <1>3 DEF LoadingOk, Awaited
<1>5. LET q == PartOutcome(a.parts[k], ok) IN
      q \in PartRecord /\ PartOk(q, a.now) /\ q.st \in {"came", "failed"}
    BY <1>1, <1>3, <1>4, PartEnds
<1>6. /\ DOMAIN p = DOMAIN a.parts /\ p[k] = PartOutcome(a.parts[k], ok)
      /\ \A j \in DOMAIN p : j # k => p[j] = a.parts[j]
      /\ p \in [DOMAIN p -> PartRecord]
    BY <1>2, <1>4, <1>5
<1>7. Awaited(p) = Awaited(a.parts) \ {k} /\ \A j \in DOMAIN p : PartOk(p[j], a.now)
    BY <1>4, <1>5, <1>6 DEF Awaited
<1>8. DOMAIN p \in SUBSET Source /\ k \in Source
    BY <1>4, <1>6
<1> QED BY <1>1, <1>3, <1>6, <1>7, <1>8 DEF a, p

\* Who last joined writes the key, who last joined of the home loads that are
\* done the home batch.
LEMMA FlightStores ==
    ASSUME CacheInv, NEW k, NEW ok \in BOOLEAN, Joined(k) # {}, FlightEnds(k, ok)
    PROVE  /\ Listed(NowStored)'
           /\ \A j \in CacheKey : j \notin {k, Home} => entries'[j] \in {None, entries[j]}
           /\ \/ entries'[k] \in {None, entries[k]}
              \/ \E c \in Joined(k) :
                    /\ \A d \in Joined(k) : calls[d].now <= calls[c].now
                    /\ entries'[k] = [content |-> time, savedAt |-> calls[c].now]
           /\ \/ entries'[Home] \in {None, entries[Home]}
              \/ \E m \in MixedAt(k, ok) :
                    /\ \A d \in MixedAt(k, ok) : calls[d].now <= calls[m].now
                    /\ entries'[Home] \in Stored /\ entries'[Home].savedAt = calls[m].now
                    /\ calls[m].now < entries'[Home].content + StaleTtl
<1> DEFINE mixed == MixedAt(k, ok)
<1>0. PICK last \in Latest(Joined(k)), m \in Latest(IF mixed = {} THEN Joined(k) ELSE mixed) :
        entries' = AllStored(k, ok, last, m).entries /\ order' = AllStored(k, ok, last, m).order
    BY FlightIs
<1> DEFINE own == OwnStored(k, ok, last)
           all == AllStored(k, ok, last, m)
<1>1. /\ time \in Nat /\ Home \in CacheKey /\ Home \notin Source /\ Source \subseteq CacheKey
      /\ UNCHANGED <<mix, time>> /\ entries' = all.entries /\ order' = all.order
    BY <1>0, CacheFacts, FlightIs
<1>2. \A c \in Joined(k) : c \in Call /\ calls[c].now \in Nat /\ calls[c].now <= time /\ k \in Source
    BY PartsAfterAre
<1>3. /\ last \in Joined(k) /\ \A d \in Joined(k) : calls[d].now <= calls[last].now
    BY <1>0 DEF Latest
<1>4. k \in CacheKey /\ k # Home
    BY <1>1, <1>2
<1>5. /\ Listed(NowStored) /\ NowStored.entries = entries
      /\ NowStored = [entries |-> NowStored.entries, order |-> NowStored.order]
    BY DEF CacheInv, NowStored
<1>6. /\ Listed(own) /\ own = [entries |-> own.entries, order |-> own.order]
      /\ \A j \in CacheKey : j # k => own.entries[j] \in {None, entries[j]}
      /\ \/ own.entries[k] = entries[k]
         \/ own.entries[k] = [content |-> time, savedAt |-> calls[last].now]
    <2>1. CASE ~ok
        BY <1>5, <2>1 DEF OwnStored
    <2>2. CASE ok
        <3> DEFINE e == [content |-> time, savedAt |-> calls[last].now]
        <3>1. e \in Stored
            BY <1>1, <1>2, <1>3 DEF Stored
        <3>2. own = SetEntry(NowStored, k, e)
            BY <2>2 DEF OwnStored
        <3> HIDE DEF e, own
        <3> QED BY <1>4, <1>5, <3>1, <3>2, SetEntryKeeps DEF e
    <2> QED BY <2>1, <2>2
<1> HIDE DEF own
<1>7. CASE mixed = {}
    <2>1. all = own
        BY <1>7 DEF AllStored, own
    <2>2. Listed(NowStored)'
        BY <1>1, <1>6, <2>1 DEF NowStored, Listed, CacheKey, Category
    <2> QED BY <1>1, <1>3, <1>4, <1>6, <2>1, <2>2
<1>8. CASE mixed # {}
    <2> DEFINE v == Oldest(Contents(PartsAfter(m, k, ok)))
               e == [content |-> v, savedAt |-> calls[m].now]
    <2>1. \A c \in mixed : c \in Joined(k) /\ c \in Call /\ calls[c].now <= time
        BY <1>2 DEF MixedAt, DoneAt
    <2>2. m \in mixed /\ \A d \in mixed : calls[d].now <= calls[m].now
        BY <1>0, <1>8 DEF Latest
    <2>3. v \in Nat /\ calls[m].now < v + StaleTtl /\ calls[m].now \in Nat
        <3> DEFINE p == PartsAfter(m, k, ok)
                   now == calls[m].now
        <3>1. /\ p \in [DOMAIN p -> PartRecord] /\ now \in Nat
              /\ \A j \in DOMAIN p : PartOk(p[j], now)
            BY <2>1, <2>2, PartsAfterAre
        <3>2. Contents(p) # {}
            BY <2>2 DEF MixedAt
        <3> HIDE DEF p, now
        <3>3. Oldest(Contents(p)) \in Nat /\ now < Oldest(Contents(p)) + StaleTtl
            BY <3>1, <3>2, ContentsAre
        <3> QED BY <3>1, <3>3 DEF p, now
    <2>4. all = SetEntry(own, Home, e)
        BY <1>8 DEF AllStored, own
    <2> HIDE DEF v
    <2>5. e \in Stored /\ e.savedAt = calls[m].now /\ e.content = v
        BY <2>3 DEF Stored
    <2> HIDE DEF e, all
    <2>6. /\ Listed(all) /\ all = [entries |-> all.entries, order |-> all.order]
          /\ all.entries[Home] = e
          /\ \A j \in CacheKey : j # Home => all.entries[j] \in {None, own.entries[j]}
        BY <1>1, <1>6, <2>4, <2>5, SetEntryKeeps
    <2>7. Listed(NowStored)'
        BY <1>1, <2>6 DEF NowStored, Listed, CacheKey, Category
    <2>8. /\ \A j \in CacheKey : j \notin {k, Home} => entries'[j] \in {None, entries[j]}
          /\ \/ entries'[k] \in {None, entries[k]}
             \/ entries'[k] = [content |-> time, savedAt |-> calls[last].now]
        BY <1>1, <1>4, <1>6, <2>6
    <2>9. entries'[Home] = e
        BY <1>1, <2>6
    <2> QED BY <1>3, <2>2, <2>3, <2>5, <2>7, <2>8, <2>9
<1> QED BY <1>7, <1>8

\* What becomes of a load that the flight served, in part or at last.
LEMMA FlightServes ==
    ASSUME CacheInv, NEW k, NEW ok \in BOOLEAN, FlightEnds(k, ok), NEW c \in Joined(k)
    PROVE  LET a == calls[c]
               b == calls'[c]
               p == PartsAfter(c, k, ok)
           IN  /\ b \in LoadRecord /\ LoadOk(b) /\ b.key = a.key /\ b.now = a.now
               /\ c \in DoneAt(k, ok) => b.st \in {"served", "error"}
               /\ c \notin DoneAt(k, ok) =>
                     b.st = "loading" /\ b.parts = p /\ Awaited(p) = Awaited(a.parts) \ {k}
<1> DEFINE a == calls[c]
           b == calls'[c]
           p == PartsAfter(c, k, ok)
<1>1. /\ c \in Call /\ a \in LoadRecord /\ a.st = "loading" /\ LoadOk(a) /\ LoadingOk(a)
      /\ a.now <= time /\ k \in Source
      /\ DOMAIN p = DOMAIN a.parts /\ DOMAIN p \in SUBSET Source
      /\ p \in [DOMAIN p -> PartRecord]
      /\ Awaited(p) = Awaited(a.parts) \ {k}
      /\ \A j \in DOMAIN p : PartOk(p[j], a.now)
    BY PartsAfterAre
<1>2. a.spare # NoData => a.now < a.spare + Limit(a.key)
    BY <1>1 DEF LoadingOk
<1>3. b = IF c \in DoneAt(k, ok) THEN Settled(a, p) ELSE [a EXCEPT !.parts = p]
    BY <1>1, FlightIs
<1>4. c \in DoneAt(k, ok) <=> Awaited(p) = {}
    BY DEF DoneAt
<1> HIDE DEF a, b, p
<1>5. CASE Awaited(p) = {}
    <2>1. b = Settled(a, p)
        BY <1>3, <1>4, <1>5
    <2>2. b \in LoadRecord /\ LoadOk(b) /\ b.st \in {"served", "error"}
        BY <1>1, <1>2, <1>5, <2>1, SettledIs
    <2>3. b.key = a.key /\ b.now = a.now
        BY <1>1, <2>1 DEF Settled, Served, LoadRecord
    <2> QED BY <1>4, <1>5, <2>2, <2>3 DEF a, b, p
<1>6. CASE Awaited(p) # {}
    <2>1. b = [a EXCEPT !.parts = p]
        BY <1>3, <1>4, <1>6
    <2>2. p \in UNION {[S -> PartRecord] : S \in SUBSET Source}
        BY <1>1
    <2>3. /\ b \in LoadRecord /\ b.st = "loading" /\ b.key = a.key /\ b.now = a.now
          /\ b.spare = a.spare /\ b.parts = p
        BY <1>1, <2>1, <2>2 DEF LoadRecord
    <2>4. LoadingOk(b)
        BY <1>1, <1>6, <2>3 DEF LoadingOk
    <2>5. LoadOk(b)
        BY <1>1, <2>3, <2>4 DEF LoadOk, AnswerOk
    <2> QED BY <1>1, <1>4, <1>6, <2>3, <2>5 DEF a, b, p
<1> QED BY <1>5, <1>6

\* Loads of one hour that wait for no more than a load that is done are done.
LEMMA FlightInOrder ==
    ASSUME CacheInv, NEW k, NEW ok \in BOOLEAN, Joined(k) # {}, FlightEnds(k, ok)
    PROVE  HomeInOrder'
<1>1. \A c \in Call :
        LoadsHome(c)' =>
            /\ LoadsHome(c) /\ calls'[c].now = calls[c].now /\ calls[c].now \in Nat
            /\ Awaited(calls'[c].parts) = Awaited(calls[c].parts) \ {k}
            /\ c \notin DoneAt(k, ok)
    <2> SUFFICES ASSUME NEW c \in Call, LoadsHome(c)'
                 PROVE  /\ LoadsHome(c) /\ calls'[c].now = calls[c].now /\ calls[c].now \in Nat
                        /\ Awaited(calls'[c].parts) = Awaited(calls[c].parts) \ {k}
                        /\ c \notin DoneAt(k, ok)
        OBVIOUS
    <2>1. calls[c].now \in Nat
        BY CacheFacts DEF LoadRecord
    <2>2. CASE c \in Joined(k)
        <3>1. c \notin DoneAt(k, ok)
            BY <2>2, FlightServes DEF LoadsHome
        <3>2. /\ calls'[c].key = calls[c].key /\ calls'[c].now = calls[c].now
              /\ calls'[c].parts = PartsAfter(c, k, ok)
              /\ Awaited(PartsAfter(c, k, ok)) = Awaited(calls[c].parts) \ {k}
            BY <2>2, <3>1, FlightServes
        <3>3. calls[c].st = "loading"
            BY <2>2 DEF Joined
        <3> QED BY <2>1, <3>1, <3>2, <3>3 DEF LoadsHome
    <2>3. CASE c \notin Joined(k)
        <3>1. calls'[c] = calls[c] /\ c \notin DoneAt(k, ok)
            BY <2>3, FlightIs DEF DoneAt
        <3>2. k \notin Awaited(calls[c].parts)
            BY <2>3, <3>1 DEF Joined, LoadsHome
        <3> QED BY <2>1, <3>1, <3>2 DEF LoadsHome
    <2> QED BY <2>2, <2>3
<1>2. ASSUME NEW c \in Call, NEW d \in Call, LoadsHome(c)', LoadsHome(d)',
             SameHour(calls[c].now, calls[d].now)', calls'[c].now < calls'[d].now
      PROVE  Awaited(calls'[c].parts) \subseteq Awaited(calls'[d].parts)
    <2>1. Awaited(calls[c].parts) \subseteq Awaited(calls[d].parts)
        BY <1>1, <1>2 DEF CacheInv, HomeInOrder, SameHour
    <2> QED BY <1>1, <1>2, <2>1
<1>3. ASSUME NEW c \in Call, LoadsHome(c)', entries'[Home] # None,
             SameHour(entries[Home].savedAt, calls[c].now)'
      PROVE  entries'[Home].savedAt <= calls'[c].now
    <2>1. CASE entries'[Home] = entries[Home]
        BY <1>1, <1>3, <2>1 DEF CacheInv, HomeInOrder, SameHour
    <2>2. CASE \E m \in MixedAt(k, ok) : entries'[Home].savedAt = calls[m].now
        <3>1. PICK m \in MixedAt(k, ok) : entries'[Home].savedAt = calls[m].now
            BY <2>2
        <3>2. /\ m \in Joined(k) /\ m \in DoneAt(k, ok) /\ calls[m].key = Home
              /\ Awaited(PartsAfter(m, k, ok)) = {}
            BY <3>1 DEF MixedAt, DoneAt
        <3>3. /\ m \in Call /\ LoadsHome(m) /\ calls[m].now \in Nat
              /\ Awaited(calls[m].parts) \subseteq {k}
            <4>1. /\ m \in Call /\ calls[m].st = "loading" /\ calls[m].now \in Nat
                  /\ Awaited(PartsAfter(m, k, ok)) = Awaited(calls[m].parts) \ {k}
                BY <3>2, PartsAfterAre
            <4> QED BY <3>2, <4>1 DEF LoadsHome
        <3>4. LoadsHome(c) /\ calls'[c].now = calls[c].now /\ calls[c].now \in Nat
            BY <1>1, <1>3
        <3>5. SUFFICES ASSUME calls[c].now < calls[m].now PROVE FALSE
            BY <3>1, <3>3, <3>4
        <3>6. SameHour(calls[c].now, calls[m].now)
            BY <1>3, <3>1, <3>4 DEF SameHour
        <3>7. Awaited(calls[c].parts) \subseteq {k}
            BY <3>3, <3>4, <3>5, <3>6 DEF CacheInv, HomeInOrder
        <3>8. Awaited(calls[c].parts) # {}
            BY <3>4 DEF CacheInv, LoadOk, LoadingOk, LoadsHome
        <3>9. c \in Joined(k)
            BY <3>4, <3>7, <3>8 DEF Joined, LoadsHome
        <3>10. Awaited(PartsAfter(c, k, ok)) = {}
            BY <3>7, <3>9, PartsAfterAre
        <3> QED BY <1>1, <1>3, <3>9, <3>10 DEF DoneAt
    <2> QED BY <1>3, <2>1, <2>2, FlightStores
<1> QED BY <1>2, <1>3 DEF HomeInOrder

LEMMA FlightKeeps ==
    ASSUME CacheInv, NEW k \in fetches, NEW ok \in BOOLEAN, FlightEnds(k, ok)
    PROVE  CacheInv'
<1>1. /\ Joined(k) # {} /\ k \in Source /\ k # Home /\ k \in CacheKey
      /\ fetches' = fetches \ {k} /\ UNCHANGED <<mix, time>> /\ fetches \subseteq Source
      /\ calls \in [Call -> LoadRecord] /\ DOMAIN calls' = Call /\ time \in Nat
      /\ \A j \in fetches : Joined(j) # {}
    <2>1. /\ Joined(k) # {} /\ k \in Source /\ k # Home /\ k \in CacheKey /\ fetches \subseteq Source
          /\ calls \in [Call -> LoadRecord] /\ time \in Nat /\ \A j \in fetches : Joined(j) # {}
        BY CacheFacts DEF CacheInv
    <2>2. fetches' = fetches \ {k} /\ UNCHANGED <<mix, time>> /\ DOMAIN calls' = Call
        BY FlightIs
    <2> QED BY <2>1, <2>2
<1>2. Source' = Source /\ CacheKey' = CacheKey /\ LoadRecord' = LoadRecord
    BY <1>1 DEF Source, Category, CacheKey, LoadRecord
<1>3. ASSUME NEW c \in Call, c \notin Joined(k)
      PROVE  calls'[c] = calls[c] /\ LoadOk(calls[c])' /\ calls'[c] \in LoadRecord
    <2>1. calls'[c] = calls[c]
        BY <1>3, FlightIs DEF DoneAt
    <2>2. calls[c].st = "loading" =>
            \A j \in Awaited(calls[c].parts) : entries'[j] \in {None, entries[j]}
        <3>1. ASSUME calls[c].st = "loading", NEW j \in Awaited(calls[c].parts)
              PROVE  j \in Source /\ j # k
            BY <1>3, <3>1 DEF CacheInv, LoadOk, LoadingOk, Awaited, Joined
        <3>2. ASSUME NEW j \in Source, j # k PROVE entries'[j] \in {None, entries[j]}
            BY <1>1, <3>2, CacheFacts, FlightStores
        <3> QED BY <3>1, <3>2
    <2> QED BY <1>1, <1>2, <2>1, <2>2, LoadStays
<1>4. ASSUME NEW c \in Joined(k)
      PROVE  LoadOk(calls[c])' /\ calls'[c] \in LoadRecord
    <2> DEFINE b == calls'[c]
    <2>1. /\ b \in LoadRecord /\ LoadOk(b)
          /\ b.st = "loading" => /\ Awaited(b.parts) = Awaited(calls[c].parts) \ {k}
        BY <1>4, FlightServes
    <2>2. b = (calls[c])'
        OBVIOUS
    <2> HIDE DEF b
    <2>3. ASSUME b.st = "loading" PROVE /\ LoadingOk(b)
                                        /\ \A j \in Awaited(b.parts) : entries'[j] \in {None, entries[j]}
        <3>1. LoadingOk(b)
            BY <2>1, <2>3 DEF LoadOk
        <3>2. ASSUME NEW j \in Awaited(b.parts) PROVE j \in CacheKey /\ j \notin {k, Home}
            BY <2>1, <2>3, <3>1, CacheFacts DEF LoadingOk, Awaited
        <3> QED BY <1>1, <3>1, <3>2, FlightStores
    <2>4. ASSUME b.st = "loading"
          PROVE  \A j \in Awaited(b.parts) :
                    /\ entries'[j] # None => entries'[j].savedAt <= b.now
                    /\ b.key = Home => ~Fresh(entries'[j], HomeTtl)
        BY <2>3, <2>4 DEF LoadingOk, Fresh
    <2>5. /\ b.st # "idle" => b.now <= time'
          /\ b.st = "served" => b.got \in Nat
          /\ AnswerOk(b)
        BY <1>1, <2>1 DEF LoadOk
    <2>6. b.st = "loading" => LoadingOk(b)
        BY <2>3
    <2>7. LoadOk(calls[c])'
        BY <1>1, <1>2, <2>2, <2>4, <2>5, <2>6 DEF LoadOk, LoadingOk, AnswerOk, MixAt, Fresh, b
    <2> QED BY <2>1, <2>7 DEF b
<1>5. calls' \in [Call -> LoadRecord]
    <2>1. calls' = [c \in Call |-> calls'[c]]
        BY FlightIs
    <2> QED BY <1>3, <1>4, <2>1
<1>6. CacheShape'
    BY <1>1, <1>2, <1>5 DEF CacheInv, CacheShape
<1>7. Listed([entries |-> entries, order |-> order])'
    BY <1>1, FlightStores DEF NowStored
<1>8. ASSUME NEW j \in CacheKey PROVE EntryOk(j)'
    <2>1. EntryOk(j) /\ entries[j] \in Stored \cup {None} /\ None \notin Stored
        BY CacheFacts DEF CacheInv
    <2>2. \A c \in Joined(k) : calls[c].now \in Nat /\ calls[c].now <= time
        BY PartsAfterAre
    <2>3. CASE entries'[j] \in {None, entries[j]}
        BY <1>1, <2>1, <2>3 DEF EntryOk
    <2>4. CASE j = k /\ \E c \in Joined(k) : entries'[k] = [content |-> time, savedAt |-> calls[c].now]
        BY <1>1, <2>2, <2>4 DEF EntryOk
    <2>5. CASE j = Home /\ \E m \in MixedAt(k, ok) :
                    /\ entries'[Home].savedAt = calls[m].now
                    /\ calls[m].now < entries'[Home].content + StaleTtl
        BY <1>1, <2>2, <2>5 DEF EntryOk, MixedAt, DoneAt
    <2> QED BY <1>1, <2>3, <2>4, <2>5, FlightStores
<1>9. \A j \in fetches' : Joined(j)' # {}
    <2> SUFFICES ASSUME NEW j \in fetches, j # k PROVE Joined(j)' # {}
        BY <1>1
    <2>1. PICK c \in Call : calls[c].st = "loading" /\ j \in Awaited(calls[c].parts)
        BY <1>1 DEF Joined
    <2>2. CASE c \in Joined(k)
        <3>1. j \in Awaited(PartsAfter(c, k, ok))
            BY <2>1, <2>2, PartsAfterAre
        <3>2. c \notin DoneAt(k, ok)
            BY <3>1 DEF DoneAt
        <3> QED BY <2>1, <2>2, <3>1, <3>2, FlightServes DEF Joined
    <2>3. CASE c \notin Joined(k)
        BY <1>3, <2>1, <2>3 DEF Joined
    <2> QED BY <2>2, <2>3
<1>10. HomeInOrder'
    BY <1>1, FlightInOrder
<1> QED BY <1>2, <1>3, <1>4, <1>6, <1>7, <1>8, <1>9, <1>10 DEF CacheInv

-----------------------------------------------------------------------------
(* The specification.                                                      *)

LEMMA CacheInitIs == CacheInit => CacheInv
<1> SUFFICES ASSUME CacheInit PROVE CacheInv
    OBVIOUS
<1>1. /\ mix \in MixChoices /\ time = 0 /\ entries = [k \in CacheKey |-> None] /\ order = <<>>
      /\ fetches = {} /\ calls = [c \in Call |-> NoLoad]
    BY DEF CacheInit
<1>2. NoLoad \in LoadRecord /\ NoLoad.st = "idle" /\ NoLoad.spare = NoData
    <2>1. /\ NoLoad.st = "idle" /\ NoLoad.spare = NoData
          /\ NoLoad = [st |-> "idle", key |-> Home, now |-> 0, spare |-> NoData, parts |-> <<>>,
                       got |-> NoData]
        BY DEF NoLoad
    <2>2. Home \in CacheKey /\ NoData \in Datum
        BY DEF CacheKey, Datum
    <2> QED BY <2>1, <2>2 DEF LoadRecord
<1>3. CacheShape
    BY <1>1, <1>2, CacheOptions DEF CacheShape
<1>4. Listed([entries |-> entries, order |-> order])
    <2>1. /\ <<>> \in Seq(CacheKey) /\ Len(<<>>) = 0 /\ CacheSize \in Nat
        BY CacheOptions
    <2>2. \A k \in CacheKey : entries[k] = None
        BY <1>1
    <2> QED BY <1>1, <2>1, <2>2 DEF Listed
<1>5. \A k \in CacheKey : EntryOk(k)
    BY <1>1 DEF EntryOk
<1>6. \A c \in Call : LoadOk(calls[c])
    BY <1>1, <1>2 DEF LoadOk, AnswerOk
<1>7. HomeInOrder
    BY <1>1, <1>2 DEF HomeInOrder, LoadsHome
<1> QED BY <1>1, <1>3, <1>4, <1>5, <1>6, <1>7 DEF CacheInv

LEMMA CacheSteps == CacheInv /\ [CacheNext]_cacheVars => CacheInv'
<1> SUFFICES ASSUME CacheInv, [CacheNext]_cacheVars PROVE CacheInv'
    OBVIOUS
<1>1. CASE \E c \in Call, k \in Query : BeginQuery(c, k)
    BY <1>1, BeginQueryKeeps
<1>2. CASE \E c \in Call : BeginHome(c)
    BY <1>2, BeginHomeKeeps
<1>3. CASE \E c \in Call : Abandoned(c)
    BY <1>3, AbandonedKeeps
<1>4. CASE \E c \in Call : Delivered(c)
    BY <1>4, DeliveredKeeps
<1>5. CASE \E k \in fetches : YouTubeAnswers(k) \/ YouTubeFails(k)
    BY <1>5, FlightKeeps DEF YouTubeAnswers, YouTubeFails
<1>6. CASE Elapse
    BY <1>6, ElapseKeeps
<1>7. CASE UNCHANGED cacheVars
    <2>1. UNCHANGED <<mix, time, entries, order, fetches, calls>>
        BY <1>7 DEF cacheVars
    <2>2. Source' = Source /\ CacheKey' = CacheKey /\ LoadRecord' = LoadRecord
        BY <2>1 DEF Source, Category, CacheKey, LoadRecord
    <2>3. CacheShape' /\ Listed([entries |-> entries, order |-> order])'
        BY <2>1, <2>2 DEF CacheInv, CacheShape, Listed
    <2>4. ASSUME NEW k \in CacheKey PROVE EntryOk(k)'
        BY <2>1 DEF CacheInv, EntryOk
    <2>5. ASSUME NEW c \in Call PROVE LoadOk(calls[c])'
        BY <2>1, LoadStays
    <2>6. HomeInOrder' /\ \A k \in fetches' : Joined(k)' # {}
        BY <2>1 DEF CacheInv, HomeInOrder, LoadsHome, SameHour, Joined
    <2> QED BY <2>2, <2>3, <2>4, <2>5, <2>6 DEF CacheInv
<1> QED BY <1>1, <1>2, <1>3, <1>4, <1>5, <1>6, <1>7 DEF CacheNext

LEMMA CacheAlways == CacheSpec => []CacheInv
<1>1. CacheInit => CacheInv
    BY CacheInitIs
<1>2. CacheInv /\ [CacheNext]_cacheVars => CacheInv'
    BY CacheSteps
<1> QED BY <1>1, <1>2, PTL DEF CacheSpec

LEMMA CacheIsTyped == CacheInv => CacheTypeOK
<1> SUFFICES ASSUME CacheInv PROVE CacheTypeOK
    OBVIOUS
<1>1. time \in 0..MaxTime /\ fetches \subseteq Query \cup Category
    BY CacheOptions, CacheFacts DEF Source
<1>2. ASSUME NEW k \in CacheKey, entries[k] # None PROVE entries[k].savedAt \in 0..time
    <2>1. entries[k].savedAt \in Nat /\ entries[k].savedAt <= time /\ time \in Nat
        BY <1>2, CacheFacts DEF CacheInv, EntryOk, Stored
    <2> QED BY <2>1
<1>3. /\ order \in Seq(CacheKey) /\ Len(order) <= CacheSize
      /\ \A k \in CacheKey : entries[k] # None <=> \E i \in 1..Len(order) : order[i] = k
    BY DEF CacheInv, Listed
<1>4. {order[i] : i \in 1..Len(order)} = {k \in CacheKey : entries[k] # None}
    BY <1>3
<1> QED BY <1>1, <1>2, <1>3, <1>4 DEF CacheTypeOK, CacheInv

\* A client gets what the cache promises: data no staler than its window, twice
\* that for the home feed, and an error only when nothing usable was there.
THEOREM AnswersHonestHolds == CacheSpec => []AnswersHonest
<1>1. CacheInv => AnswersHonest
    <2> SUFFICES ASSUME CacheInv PROVE AnswersHonest
        OBVIOUS
    <2>1. CacheTypeOK
        BY CacheIsTyped
    <2>2. ASSUME NEW c \in Call
          PROVE  LET a == calls[c] IN
                 /\ a.st = "served" =>
                       a.now - a.got < (IF a.key = Home THEN 2 * StaleTtl ELSE StaleTtl)
                 /\ a.st = "error" =>
                       a.spare = NoData /\ \A k \in DOMAIN a.parts : a.parts[k].spare = NoData
        <3> DEFINE a == calls[c]
        <3>1. LoadOk(a) /\ a.now \in Nat /\ StaleTtl \in Nat
            BY CacheFacts DEF CacheInv, LoadRecord
        <3> HIDE DEF a
        <3>2. a.st = "served" => a.got \in Nat /\ a.now < a.got + Limit(a.key)
            BY <3>1 DEF LoadOk, AnswerOk
        <3>3. a.st = "served" => a.now - a.got < Limit(a.key)
            BY <3>1, <3>2 DEF Limit
        <3>4. a.st = "error" => a.spare = NoData /\ \A k \in DOMAIN a.parts : a.parts[k].spare = NoData
            BY <3>1 DEF LoadOk, AnswerOk
        <3> QED BY <3>3, <3>4 DEF a, Limit
    <2> QED BY <2>1, <2>2 DEF AnswersHonest
<1> QED BY <1>1, CacheAlways, PTL

LEMMA BeginHomeStores ==
    ASSUME CacheInv, NEW c \in Call, BeginHome(c), NEW j \in CacheKey
    PROVE  \/ entries'[j] \in {None, entries[j]}
           \/ j = Home /\ entries'[j].savedAt = time
<1> DEFINE parts == [k \in PickHomeCategories |-> Part(k, HomeTtl)]
           e == [content |-> Oldest(Contents(parts)), savedAt |-> time]
<1>1. DOMAIN entries = CacheKey /\ e.savedAt = time
    BY CacheFacts
<1>2. \/ entries' = entries
      \/ entries' = SetEntry([entries |-> entries, order |-> order], Home, e).entries
    BY DEF BeginHome
<1> HIDE DEF e
<1> QED BY <1>1, <1>2 DEF SetEntry

\* An entry that is still there after a step is as old as it was or newer.
LEMMA FlightGoesOn ==
    ASSUME CacheInv, NEW k \in fetches, NEW ok \in BOOLEAN, FlightEnds(k, ok),
           NEW j \in CacheKey, entries[j] # None, entries'[j] # None,
           j = Home => SameHour(entries'[j].savedAt, entries[j].savedAt)
    PROVE  /\ entries'[j].savedAt >= entries[j].savedAt
           /\ j # Home => entries'[j].content >= entries[j].content
<1>1. /\ entries[j] \in Stored /\ EntryOk(j) /\ time \in Nat /\ k \in Source /\ k # Home
      /\ Joined(k) # {}
    BY CacheFacts DEF CacheInv
<1>2. /\ entries[j].savedAt \in Nat /\ entries[j].content \in Nat
    BY <1>1 DEF Stored
<1>3. CASE entries'[j] = entries[j]
    BY <1>2, <1>3
<1>4. CASE j = k /\ \E c \in Joined(k) : entries'[k] = [content |-> time, savedAt |-> calls[c].now]
    <2>1. PICK c \in Joined(k) : entries'[k] = [content |-> time, savedAt |-> calls[c].now]
        BY <1>4
    <2>2. LoadingOk(calls[c]) /\ k \in Awaited(calls[c].parts) /\ calls[c].now \in Nat
        BY PartsAfterAre
    <2>3. entries[j].savedAt <= calls[c].now
        BY <1>4, <2>2 DEF LoadingOk
    <2>4. entries'[j].savedAt = calls[c].now /\ entries'[j].content = time
        BY <1>4, <2>1
    <2>5. entries[j].content <= time
        BY <1>1, <1>4 DEF EntryOk
    <2> QED BY <1>1, <1>2, <2>2, <2>3, <2>4, <2>5
<1>5. CASE j = Home /\ \E m \in MixedAt(k, ok) : entries'[Home].savedAt = calls[m].now
    <2>1. PICK m \in MixedAt(k, ok) : entries'[Home].savedAt = calls[m].now
        BY <1>5
    <2>2. m \in Joined(k) /\ calls[m].key = Home
        BY DEF MixedAt, DoneAt
    <2>3. m \in Call /\ LoadsHome(m) /\ calls[m].now \in Nat
        BY <2>2, PartsAfterAre DEF LoadsHome
    <2>4. SameHour(entries[Home].savedAt, calls[m].now)
        BY <1>5, <2>1 DEF SameHour
    <2>5. entries[Home].savedAt <= calls[m].now
        BY <1>5, <2>3, <2>4 DEF CacheInv, HomeInOrder
    <2> QED BY <1>2, <1>5, <2>1, <2>3, <2>5
<1> QED BY <1>1, <1>3, <1>4, <1>5, FlightStores

\* What an entry holds and the time it counts from never go back, within the
\* hour for the home batch, whatever loads overlap and however their runs end.
THEOREM NeverGoesBackHolds == CacheSpec => NeverGoesBack
<1> DEFINE Forward(j) ==
        /\ entries[j] # None /\ entries'[j] # None
        /\ j = Home => entries'[j].savedAt \div Hour = entries[j].savedAt \div Hour
        => /\ entries'[j].savedAt >= entries[j].savedAt
           /\ j # Home => entries'[j].content >= entries[j].content
           Kept(j) == \/ entries'[j] \in {None, entries[j]}
                      \/ j = Home /\ entries'[j].savedAt = time
<1>1. ASSUME CacheInv, [CacheNext]_cacheVars, NEW j \in CacheKey
      PROVE  Forward(j)
    <2>1. /\ EntryOk(j) /\ entries[j] \in Stored \cup {None} /\ time \in Nat
        BY <1>1, CacheFacts DEF CacheInv
    <2>2. ASSUME Kept(j) PROVE Forward(j)
        <3> SUFFICES ASSUME entries[j] # None, entries'[j] # None
                     PROVE  /\ entries'[j].savedAt >= entries[j].savedAt
                            /\ j # Home => entries'[j].content >= entries[j].content
            OBVIOUS
        <3>1. entries[j].savedAt \in Nat /\ entries[j].content \in Nat /\ entries[j].savedAt <= time
            BY <2>1 DEF Stored, EntryOk
        <3> QED BY <2>1, <2>2, <3>1
    <2>3. ASSUME NEW k \in fetches, NEW ok \in BOOLEAN, FlightEnds(k, ok) PROVE Forward(j)
        BY <1>1, <2>3, FlightGoesOn DEF SameHour
    <2>4. ASSUME NEW c \in Call, BeginHome(c) PROVE Kept(j)
        BY <1>1, <2>4, BeginHomeStores
    <2>5. ASSUME UNCHANGED entries PROVE Kept(j)
        BY <2>5
    <2> HIDE DEF Forward, Kept
    <2>6. CASE \E c \in Call : \/ \E k \in Query : BeginQuery(c, k)
                              \/ Abandoned(c) \/ Delivered(c)
        BY <2>2, <2>5, <2>6 DEF BeginQuery, Abandoned, Delivered
    <2>7. CASE \E c \in Call : BeginHome(c)
        BY <2>2, <2>4, <2>7
    <2>8. CASE \E k \in fetches : YouTubeAnswers(k) \/ YouTubeFails(k)
        BY <2>3, <2>8 DEF YouTubeAnswers, YouTubeFails
    <2>9. CASE Elapse \/ UNCHANGED cacheVars
        BY <2>2, <2>5, <2>9 DEF Elapse, cacheVars
    <2> QED BY <1>1, <2>6, <2>7, <2>8, <2>9 DEF CacheNext
<1>2. CacheInv /\ [CacheNext]_cacheVars =>
        [\A k \in CacheKey :
            /\ entries[k] # None /\ entries'[k] # None
            /\ k = Home => entries'[k].savedAt \div Hour = entries[k].savedAt \div Hour
            => /\ entries'[k].savedAt >= entries[k].savedAt
               /\ k # Home => entries'[k].content >= entries[k].content]_cacheVars
    BY <1>1
<1> QED BY <1>2, CacheAlways, PTL DEF CacheSpec, NeverGoesBack
=============================================================================
