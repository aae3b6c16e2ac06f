------------------------- MODULE ConcurrencyGate_proofs --------------------------
(***************************************************************************)
(* Proofs about the gate, for any number of flights, callers and keys and  *)
(* for every pair of limits.                                               *)
(***************************************************************************)
EXTENDS ConcurrencyGate, FiniteSetTheorems, SequenceTheorems, TLAPS

-----------------------------------------------------------------------------
(* A queue that holds each of its elements once.                           *)

Members(s)  == {s[i] : i \in 1..Len(s)}
Distinct(s) == \A i, j \in 1..Len(s) : i # j => s[i] # s[j]

\* queue.push(): one member more, at the end.
LEMMA AppendMembers ==
    ASSUME NEW S, NEW s \in Seq(S), NEW x \in S, Distinct(s), x \notin Members(s)
    PROVE  /\ Append(s, x) \in Seq(S)
           /\ Len(Append(s, x)) = Len(s) + 1
           /\ Members(Append(s, x)) = Members(s) \cup {x}
           /\ Distinct(Append(s, x))
<1> DEFINE t == Append(s, x)
<1>1. /\ t \in Seq(S)
      /\ Len(t) = Len(s) + 1
      /\ \A i \in 1..Len(s) : t[i] = s[i]
      /\ t[Len(s) + 1] = x
      /\ Len(s) \in Nat
    BY AppendProperties, LenProperties
<1> HIDE DEF t
<1>2. \A i \in 1..Len(t) : i \in 1..Len(s) \/ i = Len(s) + 1
    BY <1>1
<1>3. 1..Len(s) \subseteq 1..Len(t) /\ Len(s) + 1 \in 1..Len(t)
    BY <1>1
<1>4. Members(t) = Members(s) \cup {x}
    BY <1>1, <1>2, <1>3 DEF Members
<1>5. Distinct(t)
    BY <1>1, <1>2 DEF Distinct, Members
<1> QED BY <1>1, <1>4, <1>5 DEF t

\* splice(indexOf(x), 1): one member less.
LEMMA RemoveMembers ==
    ASSUME NEW S, NEW s \in Seq(S), NEW x, Distinct(s), x \in Members(s)
    PROVE  /\ Remove(s, x) \in Seq(S)
           /\ Len(Remove(s, x)) = Len(s) - 1
           /\ Members(Remove(s, x)) = Members(s) \ {x}
           /\ Distinct(Remove(s, x))
<1> DEFINE at == CHOOSE i \in 1..Len(s) : s[i] = x
           t  == [i \in 1..(Len(s) - 1) |-> IF i < at THEN s[i] ELSE s[i + 1]]
<1>1. at \in 1..Len(s) /\ s[at] = x
    BY DEF Members
<1>2. Remove(s, x) = t
    BY <1>1 DEF Remove
<1>3. Len(s) \in Nat /\ \A i \in 1..Len(s) : s[i] \in S
    BY LenProperties, ElementOfSeq
<1> HIDE DEF at
<1>4. t \in Seq(S) /\ Len(t) = Len(s) - 1
    <2>1. Len(s) - 1 \in Nat
        BY <1>1, <1>3
    <2>2. \A i \in 1..(Len(s) - 1) : (IF i < at THEN s[i] ELSE s[i + 1]) \in S
        BY <1>1, <1>3
    <2>3. t \in [1..(Len(s) - 1) -> S]
        BY <2>2
    <2>4. t \in Seq(S)
        BY <2>1, <2>3
    <2>5. DOMAIN t = 1..(Len(s) - 1)
        OBVIOUS
    <2> QED BY <2>1, <2>4, <2>5, LenProperties
<1>5. \A i \in 1..(Len(s) - 1) : t[i] = IF i < at THEN s[i] ELSE s[i + 1]
    OBVIOUS
<1> HIDE DEF t
<1>6. Members(t) \subseteq Members(s) \ {x}
    <2> SUFFICES ASSUME NEW i \in 1..(Len(s) - 1) PROVE t[i] \in Members(s) \ {x}
        BY <1>4 DEF Members
    <2>1. CASE i < at
        BY <2>1, <1>1, <1>3, <1>5 DEF Members, Distinct
    <2>2. CASE ~(i < at)
        BY <2>2, <1>1, <1>3, <1>5 DEF Members, Distinct
    <2> QED BY <2>1, <2>2
<1>7. Members(s) \ {x} \subseteq Members(t)
    <2> SUFFICES ASSUME NEW i \in 1..Len(s), s[i] # x PROVE s[i] \in Members(t)
        BY DEF Members
    <2>1. CASE i < at
        <3>1. i \in 1..(Len(s) - 1) /\ t[i] = s[i]
            BY <2>1, <1>1, <1>3, <1>5
        <3> QED BY <3>1, <1>4 DEF Members
    <2>2. CASE ~(i < at)
        <3>1. i - 1 \in 1..(Len(s) - 1) /\ t[i - 1] = s[i]
            BY <2>2, <1>1, <1>3, <1>5
        <3> QED BY <3>1, <1>4 DEF Members
    <2> QED BY <2>1, <2>2
<1>8. Distinct(t)
    <2> SUFFICES ASSUME NEW i \in 1..(Len(s) - 1), NEW j \in 1..(Len(s) - 1), i # j
                 PROVE  t[i] # t[j]
        BY <1>4 DEF Distinct
    <2>1. CASE i < at /\ j < at
        BY <2>1, <1>1, <1>3, <1>5 DEF Distinct
    <2>2. CASE i < at /\ ~(j < at)
        BY <2>2, <1>1, <1>3, <1>5 DEF Distinct
    <2>3. CASE ~(i < at) /\ j < at
        BY <2>3, <1>1, <1>3, <1>5 DEF Distinct
    <2>4. CASE ~(i < at) /\ ~(j < at)
        BY <2>4, <1>1, <1>3, <1>5 DEF Distinct
    <2> QED BY <2>1, <2>2, <2>3, <2>4
<1> QED BY <1>2, <1>4, <1>6, <1>7, <1>8

\* queue.shift(): the first member leaves.
LEMMA ShiftMembers ==
    ASSUME NEW S, NEW s \in Seq(S), s # <<>>, Distinct(s)
    PROVE  /\ s[1] \in S /\ s[1] \in Members(s)
           /\ SubSeq(s, 2, Len(s)) \in Seq(S)
           /\ Len(SubSeq(s, 2, Len(s))) = Len(s) - 1
           /\ Members(SubSeq(s, 2, Len(s))) = Members(s) \ {s[1]}
           /\ Distinct(SubSeq(s, 2, Len(s)))
<1> DEFINE t == SubSeq(s, 2, Len(s))
<1>1. Len(s) \in Nat \ {0} /\ \A i \in 1..Len(s) : s[i] \in S
    BY EmptySeq, ElementOfSeq
<1>2. /\ t \in Seq(S)
      /\ Len(t) = Len(s) - 1
      /\ \A i \in 1..(Len(s) - 1) : t[i] = s[i + 1]
    <2>1. \A i \in 2..Len(s) : s[i] \in S
        BY <1>1
    <2>2. /\ t \in Seq(S)
          /\ Len(t) = IF 2 <= Len(s) THEN Len(s) - 2 + 1 ELSE 0
          /\ \A i \in 1..(Len(s) - 2 + 1) : t[i] = s[2 + i - 1]
        BY <1>1, <2>1, SubSeqProperties
    <2>3. Len(s) - 2 + 1 = Len(s) - 1 /\ (2 <= Len(s) \/ Len(s) - 1 = 0)
        <3>1. \A n \in Nat \ {0} : n - 2 + 1 = n - 1 /\ (2 <= n \/ n - 1 = 0)
            OBVIOUS
        <3> QED BY <1>1, <3>1
    <2>4. ASSUME NEW i \in 1..(Len(s) - 1) PROVE t[i] = s[i + 1]
        <3>1. 2 + i - 1 = i + 1
            OBVIOUS
        <3> QED BY <2>2, <2>3, <3>1
    <2> QED BY <2>2, <2>3, <2>4
<1> HIDE DEF t
<1>3. Members(t) = Members(s) \ {s[1]}
    <2>1. ASSUME NEW i \in 1..(Len(s) - 1) PROVE t[i] \in Members(s) \ {s[1]}
        BY <1>1, <1>2 DEF Members, Distinct
    <2>2. ASSUME NEW i \in 1..Len(s), s[i] # s[1] PROVE s[i] \in Members(t)
        <3>1. i - 1 \in 1..(Len(s) - 1) /\ t[i - 1] = s[i]
            BY <2>2, <1>1, <1>2
        <3> QED BY <3>1, <1>2 DEF Members
    <2>3. Members(t) \subseteq Members(s) \ {s[1]}
        BY <1>2, <2>1 DEF Members
    <2>4. Members(s) \ {s[1]} \subseteq Members(t)
        BY <2>2 DEF Members
    <2> QED BY <2>3, <2>4
<1>4. Distinct(t)
    BY <1>1, <1>2 DEF Distinct
<1> QED BY <1>1, <1>2, <1>3, <1>4 DEF t, Members

-----------------------------------------------------------------------------
(* The inductive invariant: what the gate promises is inductive once the   *)
(* books and the keys are taken together.  That a rejected or a new flight *)
(* takes over a key only from an abandoned one needs both: the flight that *)
(* could be joined is in the map, and has waiters.                         *)

GateInv == Accounted /\ SingleFlight

\* The books are finite.
LEMMA GateFacts ==
    ASSUME TypeOK
    PROVE  /\ IsFiniteSet(Started) /\ IsFiniteSet(Queued)
           /\ Cardinality(Started) \in Nat
           /\ Len(queue) \in Nat
           /\ bounds.activeLimit \in Nat \ {0} /\ bounds.queueMax \in Nat
<1>1. Started \in SUBSET Flight /\ Queued \in SUBSET Flight
    BY DEF Started, Queued
<1>2. IsFiniteSet(Started) /\ IsFiniteSet(Queued)
    BY <1>1, GateAssumption, FS_Subset
<1>3. Cardinality(Started) \in Nat
    BY <1>2, FS_CardinalityType
<1>4. Len(queue) \in Nat
    BY LenProperties DEF TypeOK
<1>5. bounds \in [activeLimit: Nat \ {0}, queueMax: Nat]
    BY GateAssumption DEF TypeOK
<1> QED BY <1>2, <1>3, <1>4, <1>5

\* The queue's books in the terms of the lemmas above.
LEMMA QueueForm ==
    QueueAccounted <=> /\ Members(queue) = Queued /\ Distinct(queue)
                       /\ Len(queue) <= bounds.queueMax
                       /\ \A f \in Flight : timer[f] <=> f \in Queued
BY DEF QueueAccounted, Members, Distinct

\* A gate without flights.
LEMMA GateInitSafe == Init => GateInv
<1> SUFFICES ASSUME Init PROVE GateInv
    OBVIOUS
<1> USE DEF Init
<1>1. TypeOK
    BY EmptySeq DEF TypeOK
<1>2. Started = {} /\ Queued = {} /\ Members(queue) = {} /\ Len(queue) = 0
    BY EmptySeq DEF Started, Queued, Members
<1>3. SlotsAccounted
    BY <1>1, <1>2, FS_EmptySet, GateFacts DEF SlotsAccounted
<1>4. QueueAccounted
    BY <1>1, <1>2, GateFacts, QueueForm DEF Distinct
<1>5. WaitersAccounted /\ NoIdleSlot /\ NoForeignAbort /\ SingleFlight
    BY DEF WaitersAccounted, NoIdleSlot, NoForeignAbort, SingleFlight
<1> QED BY <1>1, <1>3, <1>4, <1>5 DEF GateInv, Accounted

-----------------------------------------------------------------------------
(* Calls and signals that leave every flight where it is.                  *)

\* Answers of calls that wait for no flight.
LEMMA CallsKeep ==
    ASSUME GateInv, NEW c \in Caller, RunAborted(c) \/ RunClosed(c) \/ Return(c)
    PROVE  GateInv'
<1> USE DEF GateInv, Accounted
<1>1. /\ UNCHANGED <<bounds, active, queue, flights, closed, state, key, aborted, waiters, timer>>
      /\ answer[c] # "wait"
      /\ \E a \in {"none"} \cup Outcome :
            /\ a # "wait"
            /\ answer' = [answer EXCEPT ![c] = a]
            /\ a = "abort" => signalled' = signalled \cup {c}
      /\ signalled' \in {signalled, signalled \cup {c}, signalled \ {c}}
      /\ \A d \in Caller \ {c} : d \in signalled => d \in signalled'
    BY DEF RunAborted, RunClosed, Return, flightVars, Outcome
<1>2. TypeOK'
    BY <1>1 DEF TypeOK
<1>3. WaitersAccounted'
    BY <1>1 DEF WaitersAccounted, TypeOK
<1>4. NoForeignAbort'
    BY <1>1 DEF NoForeignAbort, TypeOK
<1>5. (SlotsAccounted /\ QueueAccounted /\ NoIdleSlot /\ SingleFlight)'
    BY <1>1 DEF SlotsAccounted, QueueAccounted, NoIdleSlot, SingleFlight, Started, Queued
<1> QED BY <1>2, <1>3, <1>4, <1>5

\* One more waiter for a flight that somebody waits for.
LEMMA JoinKeeps ==
    ASSUME GateInv, NEW c \in Caller, NEW k \in Key \cup {NoKey}, RunJoins(c, k)
    PROVE  GateInv'
<1> USE DEF GateInv, Accounted, RunJoins
<1>1. PICK f \in Joinable(k) : waiters' = [waiters EXCEPT ![f] = @ \cup {c}]
    OBVIOUS
<1>2. k \in Key /\ f \in Flight /\ state[f] # "settled" /\ ~aborted[f]
    BY DEF Joinable, TypeOK
<1>3. TypeOK'
    BY <1>1, <1>2 DEF TypeOK
<1>4. WaitersAccounted'
    <2>1. \A g \in Flight : c \notin waiters[g]
        BY DEF WaitersAccounted
    <2>2. \A g \in Flight : waiters'[g] = IF g = f THEN waiters[f] \cup {c} ELSE waiters[g]
        BY <1>1, <1>2 DEF TypeOK
    <2>3. \A d \in Caller : answer'[d] = IF d = c THEN "wait" ELSE answer[d]
        BY DEF TypeOK
    <2> QED BY <1>2, <2>1, <2>2, <2>3 DEF WaitersAccounted
<1>5. NoForeignAbort'
    BY DEF NoForeignAbort, TypeOK
<1>6. (SlotsAccounted /\ QueueAccounted /\ NoIdleSlot /\ SingleFlight)'
    BY DEF SlotsAccounted, QueueAccounted, NoIdleSlot, SingleFlight, Started, Queued
<1> QED BY <1>3, <1>4, <1>5, <1>6

\* A waiter leaves; when it was the last of a running flight, the flight is
\* told to stop and keeps its slot.
LEMMA CancelKeeps ==
    ASSUME GateInv, NEW c \in Caller, NEW f \in Flight, CancelOne(c, f) \/ CancelActive(c, f)
    PROVE  GateInv'
<1> USE DEF GateInv, Accounted
<1>1. /\ UNCHANGED <<bounds, active, queue, flights, closed, state, key, timer>>
      /\ answer' = [answer EXCEPT ![c] = "abort"] /\ signalled' = signalled \cup {c}
      /\ c \in waiters[f]
      /\ waiters' = [waiters EXCEPT ![f] = waiters[f] \ {c}]
      /\ \/ waiters[f] # {c} /\ aborted' = aborted
         \/ waiters[f] = {c} /\ aborted' = [aborted EXCEPT ![f] = TRUE]
    BY DEF CancelOne, CancelActive
<1>2. TypeOK'
    BY <1>1 DEF TypeOK, Outcome
<1>3. state[f] # "settled"
    BY <1>1 DEF WaitersAccounted
<1>4. WaitersAccounted'
    <2>1. \A g \in Flight : waiters'[g] = IF g = f THEN waiters[f] \ {c} ELSE waiters[g]
        BY <1>1 DEF TypeOK
    <2>2. \A d \in Caller : answer'[d] = IF d = c THEN "abort" ELSE answer[d]
        BY <1>1 DEF TypeOK
    <2>3. \A g \in Flight : g # f => c \notin waiters[g]
        BY <1>1 DEF WaitersAccounted
    <2>4. \A d \in Caller : answer'[d] = "wait" <=> \E g \in Flight : d \in waiters'[g]
        BY <2>1, <2>2, <2>3 DEF WaitersAccounted
    <2>5. \A g, h \in Flight : g # h => waiters'[g] \cap waiters'[h] = {}
        BY <2>1 DEF WaitersAccounted
    <2>6. \A g \in Flight : state'[g] = "settled" => waiters'[g] = {}
        BY <1>1, <1>3, <2>1 DEF WaitersAccounted
    <2>7. \A g \in Flight : state'[g] # "settled" => (waiters'[g] = {} <=> aborted'[g])
        <3> SUFFICES ASSUME NEW g \in Flight, state[g] # "settled"
                     PROVE  waiters'[g] = {} <=> aborted'[g]
            BY <1>1
        <3>1. aborted'[g] <=> (aborted[g] \/ (g = f /\ waiters[f] = {c}))
            BY <1>1 DEF TypeOK
        <3> QED BY <1>1, <2>1, <3>1 DEF WaitersAccounted
    <2> QED BY <2>4, <2>5, <2>6, <2>7 DEF WaitersAccounted
<1>5. NoForeignAbort'
    BY <1>1 DEF NoForeignAbort, TypeOK
<1>6. SingleFlight'
    <2>1. \A g \in Flight : ~aborted'[g] => ~aborted[g]
        BY <1>1 DEF TypeOK
    <2> QED BY <1>1, <2>1 DEF SingleFlight
<1>7. (SlotsAccounted /\ QueueAccounted /\ NoIdleSlot)'
    BY <1>1 DEF SlotsAccounted, QueueAccounted, NoIdleSlot, Started, Queued
<1> QED BY <1>2, <1>4, <1>5, <1>6, <1>7

\* The limits change while there is nothing they bound.
LEMMA ConfigureKeeps == ASSUME GateInv, Configure PROVE GateInv'
<1> USE DEF GateInv, Accounted, Configure
<1>1. TypeOK'
    BY DEF TypeOK, flightVars, callVars
<1>2. bounds'.activeLimit \in Nat \ {0} /\ bounds'.queueMax \in Nat /\ Len(queue) = 0
    BY GateAssumption, EmptySeq
<1>3. SlotsAccounted' /\ QueueAccounted'
    BY <1>2 DEF SlotsAccounted, QueueAccounted, Started, Queued, flightVars
<1>4. (WaitersAccounted /\ NoIdleSlot /\ NoForeignAbort /\ SingleFlight)'
    BY DEF WaitersAccounted, NoIdleSlot, NoForeignAbort, SingleFlight, flightVars, callVars
<1> QED BY <1>1, <1>3, <1>4

-----------------------------------------------------------------------------
(* New flights.                                                            *)

\* A call that cannot join: no flight of its key that is still wanted.
LEMMA NoneToJoin ==
    ASSUME GateInv, NEW c \in Caller, NEW k \in Key, NewWork(c, k)
    PROVE  \A f \in Flight : key[f] = k => state[f] = "settled" \/ aborted[f]
<1>1. k # NoKey
    BY GateAssumption
<1> QED BY <1>1 DEF GateInv, SingleFlight, NewWork, Joinable

\* A new flight has one waiter, and its key when it has one.
LEMMA CreateKeeps ==
    ASSUME GateInv, NEW c \in Caller, NEW k \in Key \cup {NoKey}, NEW f \in Flight,
           NEW st \in {"queued", "active"}, NewWork(c, k), Create(f, c, k, st),
           UNCHANGED signalled
    PROVE  /\ SingleFlight' /\ WaitersAccounted' /\ NoForeignAbort'
           /\ state' \in [Flight -> {"queued", "active", "settled"}]
           /\ flights' \in [Key -> SUBSET Flight]
           /\ key' \in [Flight -> Key \cup {NoKey}]
           /\ aborted' \in [Flight -> BOOLEAN]
           /\ waiters' \in [Flight -> SUBSET Caller]
           /\ timer' \in [Flight -> BOOLEAN]
           /\ answer' \in [Caller -> {"none", "wait"} \cup Outcome]
<1> USE DEF GateInv, Accounted, TypeOK
<1>1. /\ state[f] = "settled"
      /\ \A g \in Flight : state'[g] = IF g = f THEN st ELSE state[g]
      /\ \A g \in Flight : key'[g] = IF g = f THEN k ELSE key[g]
      /\ \A g \in Flight : aborted'[g] <=> (aborted[g] /\ g # f)
      /\ \A g \in Flight : waiters'[g] = IF g = f THEN {c} ELSE waiters[g]
      /\ \A d \in Caller : answer'[d] = IF d = c THEN "wait" ELSE answer[d]
    BY DEF Create
<1>2. \A j \in Key : flights'[j] = IF j = k THEN {f} ELSE flights[j]
    BY GateAssumption DEF Create
<1>3. answer[c] = "none"
    BY DEF NewWork
<1>4. SingleFlight'
    <2>1. \A j \in Key : f \notin flights[j]
        BY <1>1 DEF SingleFlight
    <2>2. ASSUME NEW j \in Key, NEW g \in flights'[j]
          PROVE  state'[g] # "settled" /\ key'[g] = j
        BY <1>1, <1>2, <2>1, <2>2 DEF SingleFlight
    <2>3. \A j \in Key : \A g, h \in flights'[j] : g = h
        BY <1>2 DEF SingleFlight
    <2>4. ASSUME NEW g \in Flight, state'[g] # "settled", key'[g] # NoKey, ~aborted'[g]
          PROVE  g \in flights'[key'[g]]
        <3>1. CASE g = f
            BY <1>1, <1>2, <2>4, <3>1
        <3>2. CASE g # f
            <4>1. state[g] # "settled" /\ key[g] # NoKey /\ ~aborted[g] /\ key'[g] = key[g]
                BY <1>1, <2>4, <3>2
            <4>2. key[g] \in Key /\ g \in flights[key[g]]
                BY <4>1 DEF SingleFlight
            <4>3. key[g] # k
                BY <4>1, <4>2, NoneToJoin
            <4> QED BY <1>2, <4>1, <4>2, <4>3
        <3> QED BY <3>1, <3>2
    <2> QED BY <2>2, <2>3, <2>4 DEF SingleFlight
<1>5. WaitersAccounted'
    <2>1. \A g \in Flight : c \notin waiters[g]
        BY <1>3 DEF WaitersAccounted
    <2>2. waiters[f] = {}
        BY <1>1 DEF WaitersAccounted
    <2>3. \A d \in Caller : answer'[d] = "wait" <=> \E g \in Flight : d \in waiters'[g]
        BY <1>1, <2>1, <2>2 DEF WaitersAccounted
    <2>4. \A g, h \in Flight : g # h => waiters'[g] \cap waiters'[h] = {}
        BY <1>1, <2>1 DEF WaitersAccounted
    <2>5. \A g \in Flight : state'[g] = "settled" => waiters'[g] = {}
        BY <1>1 DEF WaitersAccounted
    <2>6. \A g \in Flight : state'[g] # "settled" => (waiters'[g] = {} <=> aborted'[g])
        BY <1>1 DEF WaitersAccounted
    <2> QED BY <2>3, <2>4, <2>5, <2>6 DEF WaitersAccounted
<1>6. NoForeignAbort'
    BY <1>1 DEF NoForeignAbort
<1>7. /\ state' \in [Flight -> {"queued", "active", "settled"}]
      /\ flights' \in [Key -> SUBSET Flight]
      /\ key' \in [Flight -> Key \cup {NoKey}]
      /\ aborted' \in [Flight -> BOOLEAN]
      /\ waiters' \in [Flight -> SUBSET Caller]
      /\ timer' \in [Flight -> BOOLEAN]
      /\ answer' \in [Caller -> {"none", "wait"} \cup Outcome]
    BY DEF Create
<1> QED BY <1>4, <1>5, <1>6, <1>7

\* A flight that starts at once joins those that run.
LEMMA RunStartsMoves ==
    ASSUME TypeOK, NEW c \in Caller, NEW k \in Key \cup {NoKey}, NEW f \in Flight,
           RunStarts(c, k, f)
    PROVE  Started' = Started \cup {f} /\ Queued' = Queued /\ f \notin Started /\ f \notin Queued
BY DEF RunStarts, Create, Started, Queued, TypeOK

LEMMA RunStartsKeeps ==
    ASSUME GateInv, NEW c \in Caller, NEW k \in Key \cup {NoKey}, NEW f \in Flight,
           RunStarts(c, k, f)
    PROVE  GateInv'
<1> USE DEF GateInv, Accounted, RunStarts
<1>1. /\ SingleFlight' /\ WaitersAccounted' /\ NoForeignAbort'
      /\ state' \in [Flight -> {"queued", "active", "settled"}]
      /\ flights' \in [Key -> SUBSET Flight]
      /\ key' \in [Flight -> Key \cup {NoKey}]
      /\ aborted' \in [Flight -> BOOLEAN]
      /\ waiters' \in [Flight -> SUBSET Caller]
      /\ timer' \in [Flight -> BOOLEAN]
      /\ answer' \in [Caller -> {"none", "wait"} \cup Outcome]
    BY CreateKeeps
<1>2. TypeOK'
    BY <1>1 DEF TypeOK
<1>3. Started' = Started \cup {f} /\ Queued' = Queued /\ f \notin Started /\ f \notin Queued
    BY RunStartsMoves
<1>4. SlotsAccounted'
    <2>1. Cardinality(Started') = Cardinality(Started) + 1
        BY <1>3, GateFacts, FS_AddElement
    <2> QED BY <2>1, GateFacts DEF SlotsAccounted
<1>5. QueueAccounted'
    <2>1. \A g \in Flight : timer'[g] <=> timer[g]
        BY <1>3 DEF Create, TypeOK, QueueAccounted
    <2> QED BY <1>3, <2>1 DEF QueueAccounted
<1>6. NoIdleSlot'
    BY GateFacts DEF NoIdleSlot
<1> QED BY <1>1, <1>2, <1>4, <1>5, <1>6

\* A flight that waits is the last of the queue.
LEMMA RunQueuesMoves ==
    ASSUME TypeOK, NEW c \in Caller, NEW k \in Key \cup {NoKey}, NEW f \in Flight,
           RunQueues(c, k, f)
    PROVE  Started' = Started /\ Queued' = Queued \cup {f} /\ f \notin Started /\ f \notin Queued
BY DEF RunQueues, Create, Started, Queued, TypeOK

LEMMA RunQueuesKeeps ==
    ASSUME GateInv, NEW c \in Caller, NEW k \in Key \cup {NoKey}, NEW f \in Flight,
           RunQueues(c, k, f)
    PROVE  GateInv'
<1> USE DEF GateInv, Accounted, RunQueues
<1>1. /\ SingleFlight' /\ WaitersAccounted' /\ NoForeignAbort'
      /\ state' \in [Flight -> {"queued", "active", "settled"}]
      /\ flights' \in [Key -> SUBSET Flight]
      /\ key' \in [Flight -> Key \cup {NoKey}]
      /\ aborted' \in [Flight -> BOOLEAN]
      /\ waiters' \in [Flight -> SUBSET Caller]
      /\ timer' \in [Flight -> BOOLEAN]
      /\ answer' \in [Caller -> {"none", "wait"} \cup Outcome]
    BY CreateKeeps
<1>2. Started' = Started /\ Queued' = Queued \cup {f} /\ f \notin Started /\ f \notin Queued
    BY RunQueuesMoves
<1>3. /\ queue' \in Seq(Flight) /\ Len(queue') = Len(queue) + 1
      /\ Members(queue') = Members(queue) \cup {f} /\ Distinct(queue')
    BY <1>2, QueueForm, AppendMembers DEF TypeOK
<1>4. TypeOK'
    BY <1>1, <1>3 DEF TypeOK
<1>5. SlotsAccounted'
    BY <1>2 DEF SlotsAccounted
<1>6. QueueAccounted'
    <2>1. \A g \in Flight : timer'[g] <=> g \in Queued'
        BY <1>2 DEF Create, TypeOK, QueueAccounted
    <2>2. Len(queue') <= bounds'.queueMax
        BY <1>3, GateFacts
    <2>3. Members(queue') = Queued' /\ Distinct(queue')
        BY <1>2, <1>3, QueueForm
    <2> QED BY <2>1, <2>2, <2>3 DEF QueueAccounted, Members, Distinct
<1>7. NoIdleSlot'
    BY GateFacts DEF NoIdleSlot, SlotsAccounted, NewWork
<1> QED BY <1>1, <1>4, <1>5, <1>6, <1>7

\* A full queue: the key the call asked for belongs to no wanted flight.
LEMMA RejectKeeps ==
    ASSUME GateInv, NEW c \in Caller, NEW k \in Key \cup {NoKey}, RunRejected(c, k)
    PROVE  GateInv'
<1> USE DEF GateInv, Accounted, RunRejected, flightVars
<1>1. \A j \in Key : flights'[j] = IF j = k THEN {} ELSE flights[j]
    BY GateAssumption DEF TypeOK
<1>2. TypeOK'
    BY DEF TypeOK, Outcome
<1>3. SingleFlight'
    <2>1. ASSUME NEW g \in Flight, state[g] # "settled", key[g] # NoKey, ~aborted[g]
          PROVE  g \in flights'[key[g]]
        <3>1. key[g] \in Key /\ g \in flights[key[g]]
            BY <2>1 DEF SingleFlight, TypeOK
        <3>2. key[g] # k
            BY <2>1, <3>1, NoneToJoin
        <3> QED BY <1>1, <3>1, <3>2
    <2> QED BY <1>1, <2>1 DEF SingleFlight
<1>4. WaitersAccounted' /\ NoForeignAbort'
    BY DEF WaitersAccounted, NoForeignAbort, NewWork, TypeOK
<1>5. (SlotsAccounted /\ QueueAccounted /\ NoIdleSlot)'
    BY DEF SlotsAccounted, QueueAccounted, NoIdleSlot, Started, Queued
<1> QED BY <1>2, <1>3, <1>4, <1>5

-----------------------------------------------------------------------------
(* Flights that settle: they are forgotten, their keys are free, and those *)
(* who waited for them are answered.                                       *)

LEMMA SettlingKeeps ==
    ASSUME GateInv, NEW S \in SUBSET Flight, Forget(S),
           state' \in [Flight -> {"queued", "active", "settled"}],
           \A g \in Flight : state'[g] = "settled" <=> (g \in S \/ state[g] = "settled"),
           flights' = [k \in Key |-> flights[k] \ S],
           answer' \in [Caller -> {"none", "wait"} \cup Outcome],
           \A c \in Caller : IF \E f \in S : c \in waiters[f] THEN answer'[c] # "wait"
                             ELSE answer'[c] = answer[c]
    PROVE  /\ SingleFlight' /\ WaitersAccounted'
           /\ flights' \in [Key -> SUBSET Flight]
           /\ key' \in [Flight -> Key \cup {NoKey}]
           /\ aborted' \in [Flight -> BOOLEAN]
           /\ waiters' \in [Flight -> SUBSET Caller]
<1> USE DEF GateInv, Accounted, TypeOK
<1>1. /\ \A g \in Flight : key'[g] = IF g \in S THEN NoKey ELSE key[g]
      /\ \A g \in Flight : aborted'[g] <=> (aborted[g] /\ g \notin S)
      /\ \A g \in Flight : waiters'[g] = IF g \in S THEN {} ELSE waiters[g]
    BY DEF Forget
<1>2. SingleFlight'
    <2>1. \A k \in Key : \A f \in flights'[k] : state'[f] # "settled" /\ key'[f] = k
        BY <1>1 DEF SingleFlight
    <2>2. \A k \in Key : \A f, g \in flights'[k] : f = g
        BY DEF SingleFlight
    <2>3. ASSUME NEW f \in Flight, state'[f] # "settled", key'[f] # NoKey, ~aborted'[f]
          PROVE  f \in flights'[key'[f]]
        <3>1. f \notin S /\ state[f] # "settled" /\ key'[f] = key[f] /\ ~aborted[f]
            BY <1>1, <2>3
        <3>2. key[f] \in Key /\ f \in flights[key[f]]
            BY <2>3, <3>1 DEF SingleFlight
        <3> QED BY <3>1, <3>2
    <2> QED BY <2>1, <2>2, <2>3 DEF SingleFlight
<1>3. WaitersAccounted'
    <2>1. ASSUME NEW c \in Caller
          PROVE  answer'[c] = "wait" <=> \E f \in Flight : c \in waiters'[f]
        <3>1. CASE \E f \in S : c \in waiters[f]
            <4>1. \A f \in Flight : c \notin waiters'[f]
                BY <1>1, <3>1 DEF WaitersAccounted
            <4> QED BY <3>1, <4>1
        <3>2. CASE ~\E f \in S : c \in waiters[f]
            BY <1>1, <3>2 DEF WaitersAccounted
        <3> QED BY <3>1, <3>2
    <2>2. \A f, g \in Flight : f # g => waiters'[f] \cap waiters'[g] = {}
        BY <1>1 DEF WaitersAccounted
    <2>3. \A f \in Flight : state'[f] = "settled" => waiters'[f] = {}
        BY <1>1 DEF WaitersAccounted
    <2>4. \A f \in Flight : state'[f] # "settled" => (waiters'[f] = {} <=> aborted'[f])
        BY <1>1 DEF WaitersAccounted
    <2> QED BY <2>1, <2>2, <2>3, <2>4 DEF WaitersAccounted
<1>4. /\ flights' \in [Key -> SUBSET Flight]
      /\ key' \in [Flight -> Key \cup {NoKey}]
      /\ aborted' \in [Flight -> BOOLEAN]
      /\ waiters' \in [Flight -> SUBSET Caller]
    BY DEF Forget
<1> QED BY <1>2, <1>3, <1>4

\* A flight is taken out of the queue: its last caller left, or it has waited
\* too long.
Unqueues(f) ==
    /\ state[f] = "queued"
    /\ queue' = Remove(queue, f)
    /\ state' = [state EXCEPT ![f] = "settled"]
    /\ timer' = [timer EXCEPT ![f] = FALSE]
    /\ UNCHANGED <<bounds, active, closed>>

LEMMA UnqueuesMoves ==
    ASSUME GateInv, NEW f \in Flight, Unqueues(f)
    PROVE  /\ Started' = Started /\ Queued' = Queued \ {f} /\ f \in Queued
           /\ Len(queue') = Len(queue) - 1
           /\ queue' \in Seq(Flight)
           /\ SlotsAccounted' /\ QueueAccounted' /\ NoIdleSlot'
<1> USE DEF GateInv, Accounted, TypeOK, Unqueues
<1>1. Started' = Started /\ Queued' = Queued \ {f} /\ f \in Queued
    BY DEF Started, Queued
<1>2. /\ queue' \in Seq(Flight) /\ Len(queue') = Len(queue) - 1
      /\ Members(queue') = Members(queue) \ {f} /\ Distinct(queue')
    BY <1>1, QueueForm, RemoveMembers
<1>3. SlotsAccounted'
    BY <1>1 DEF SlotsAccounted
<1>4. QueueAccounted'
    <2>1. \A g \in Flight : timer'[g] <=> g \in Queued'
        BY <1>1 DEF QueueAccounted
    <2>2. Len(queue') <= bounds'.queueMax
        BY <1>2, GateFacts DEF QueueAccounted
    <2>3. Members(queue') = Queued'
        BY <1>1, <1>2, QueueForm
    <2> QED BY <1>2, <2>1, <2>2, <2>3 DEF QueueAccounted, Members, Distinct
<1>5. NoIdleSlot'
    <2>1. queue # <<>>
        BY <1>1, QueueForm, EmptySeq DEF Members
    <2> QED BY <2>1 DEF NoIdleSlot
<1> QED BY <1>1, <1>2, <1>3, <1>4, <1>5

LEMMA UnqueueKeeps ==
    ASSUME GateInv, NEW f \in Flight,
           QueueTimeout(f) \/ \E c \in Caller : CancelQueued(c, f)
    PROVE  GateInv' /\ Unqueues(f)
<1> USE DEF GateInv, Accounted
<1>1. Unqueues(f)
    BY DEF QueueTimeout, CancelQueued, Unqueues, QueueAccounted, Queued
<1>2. /\ Forget({f}) /\ flights' = [k \in Key |-> flights[k] \ {f}]
      /\ \A g \in Flight : state'[g] = "settled" <=> (g \in {f} \/ state[g] = "settled")
      /\ state' \in [Flight -> {"queued", "active", "settled"}]
      /\ timer' \in [Flight -> BOOLEAN]
    BY <1>1 DEF QueueTimeout, CancelQueued, WithoutEntry, Unqueues, TypeOK
<1>3. /\ answer' \in [Caller -> {"none", "wait"} \cup Outcome]
      /\ \A c \in Caller : IF \E g \in {f} : c \in waiters[g] THEN answer'[c] # "wait"
                           ELSE answer'[c] = answer[c]
      /\ signalled' \subseteq Caller
      /\ NoForeignAbort'
    <2>1. CASE QueueTimeout(f)
        BY <2>1 DEF QueueTimeout, Answered, TypeOK, Outcome, NoForeignAbort
    <2>2. ASSUME NEW c \in Caller, CancelQueued(c, f)
          PROVE  /\ answer' \in [Caller -> {"none", "wait"} \cup Outcome]
                 /\ \A d \in Caller : IF \E g \in {f} : d \in waiters[g] THEN answer'[d] # "wait"
                                      ELSE answer'[d] = answer[d]
                 /\ signalled' \subseteq Caller
                 /\ NoForeignAbort'
        BY <2>2 DEF CancelQueued, TypeOK, Outcome, NoForeignAbort
    <2> QED BY <2>1, <2>2
<1>4. /\ SingleFlight' /\ WaitersAccounted'
      /\ flights' \in [Key -> SUBSET Flight]
      /\ key' \in [Flight -> Key \cup {NoKey}]
      /\ aborted' \in [Flight -> BOOLEAN]
      /\ waiters' \in [Flight -> SUBSET Caller]
    BY <1>2, <1>3, SettlingKeeps
<1>5. queue' \in Seq(Flight) /\ SlotsAccounted' /\ QueueAccounted' /\ NoIdleSlot'
    BY <1>1, UnqueuesMoves
<1>6. TypeOK'
    BY <1>1, <1>2, <1>3, <1>4, <1>5 DEF TypeOK, Unqueues
<1> QED BY <1>1, <1>3, <1>4, <1>5, <1>6

\* Shutdown: everything that waits settles.
LEMMA AbortQueuedMoves ==
    ASSUME TypeOK, AbortQueued
    PROVE  Started' = Started /\ Queued' = {}
BY DEF AbortQueued, Started, Queued, TypeOK

LEMMA AbortQueuedKeeps == ASSUME GateInv, AbortQueued PROVE GateInv'
<1> USE DEF GateInv, Accounted, AbortQueued
<1>1. /\ Queued \in SUBSET Flight
      /\ \A g \in Flight : state'[g] = "settled" <=> (g \in Queued \/ state[g] = "settled")
      /\ state' \in [Flight -> {"queued", "active", "settled"}]
      /\ timer' \in [Flight -> BOOLEAN]
    BY DEF TypeOK, Queued
<1>2. /\ answer' \in [Caller -> {"none", "wait"} \cup Outcome]
      /\ \A c \in Caller : IF \E g \in Queued : c \in waiters[g] THEN answer'[c] # "wait"
                           ELSE answer'[c] = answer[c]
      /\ NoForeignAbort'
    BY DEF TypeOK, Outcome, NoForeignAbort
<1>3. /\ SingleFlight' /\ WaitersAccounted'
      /\ flights' \in [Key -> SUBSET Flight]
      /\ key' \in [Flight -> Key \cup {NoKey}]
      /\ aborted' \in [Flight -> BOOLEAN]
      /\ waiters' \in [Flight -> SUBSET Caller]
    BY <1>1, <1>2, SettlingKeeps
<1>4. TypeOK'
    BY <1>1, <1>2, <1>3, EmptySeq DEF TypeOK
<1>5. Started' = Started /\ Queued' = {}
    BY AbortQueuedMoves
<1>6. SlotsAccounted'
    BY <1>5 DEF SlotsAccounted
<1>7. QueueAccounted'
    BY <1>5, GateFacts, EmptySeq DEF QueueAccounted, TypeOK
<1>8. NoIdleSlot'
    BY DEF NoIdleSlot
<1> QED BY <1>2, <1>3, <1>4, <1>6, <1>7, <1>8

-----------------------------------------------------------------------------
(* A task settles.  Work waits only while every slot is taken, so that     *)
(* pump() starts the head of the queue or nothing, never more.             *)

\* Nothing waits: the slot is free.
FreesSlot(f) ==
    /\ queue = <<>> /\ queue' = <<>>
    /\ active' = active - 1
    /\ \A g \in Flight : state'[g] = IF g = f THEN "settled" ELSE state[g]
    /\ \A g \in Flight : timer'[g] <=> timer[g]

\* The head of the queue takes the slot.
PassesSlot(f) ==
    /\ ~closed /\ queue # <<>>
    /\ queue' = SubSeq(queue, 2, Len(queue))
    /\ active' = active
    /\ \A g \in Flight : state'[g] = IF g = f THEN "settled"
                                     ELSE IF g = queue[1] THEN "active" ELSE state[g]
    /\ \A g \in Flight : timer'[g] <=> (timer[g] /\ g # queue[1])

LEMMA SettleIs ==
    ASSUME GateInv, NEW f \in Flight, NEW res, TaskSettles(f, res)
    PROVE  /\ state[f] = "active"
           /\ state' \in [Flight -> {"queued", "active", "settled"}]
           /\ timer' \in [Flight -> BOOLEAN]
           /\ FreesSlot(f) \/ PassesSlot(f)
<1> USE DEF GateInv, Accounted
<1> DEFINE free == bounds.activeLimit - (active - 1)
           n    == IF closed THEN 0 ELSE IF free < Len(queue) THEN free ELSE Len(queue)
           next == {queue[i] : i \in 1..n}
<1>1. /\ state[f] = "active"
      /\ active' = active - 1 + n
      /\ queue' = SubSeq(queue, n + 1, Len(queue))
      /\ state' = [g \in Flight |-> IF g = f THEN "settled"
                                    ELSE IF g \in next THEN "active" ELSE state[g]]
      /\ timer' = [g \in Flight |-> timer[g] /\ g \notin next]
    BY DEF TaskSettles, FinishActive
<1>2. /\ Len(queue) \in Nat /\ active \in Nat /\ bounds.activeLimit \in Nat \ {0}
      /\ active <= bounds.activeLimit
    BY GateFacts DEF SlotsAccounted
<1>3. active > 0
    <2>1. f \in Started
        BY <1>1 DEF Started
    <2>2. Cardinality(Started) # 0
        BY <2>1, GateFacts, FS_EmptySet
    <2> QED BY <1>2, <2>2 DEF SlotsAccounted
<1>4. /\ state' \in [Flight -> {"queued", "active", "settled"}]
      /\ timer' \in [Flight -> BOOLEAN]
    BY <1>1 DEF TypeOK
<1>5. CASE queue = <<>>
    <2>1. Len(queue) = 0
        BY <1>5
    <2>2. n = 0
        BY <1>2, <2>1
    <2>3. next = {}
        BY <2>2
    <2> HIDE DEF n, next
    <2>4. queue' = <<>>
        BY <1>1, <2>1, <2>2, SubSeqEmpty
    <2>5. active' = active - 1
        BY <1>1, <1>2, <2>2
    <2>6. \A g \in Flight : state'[g] = IF g = f THEN "settled" ELSE state[g]
        BY <1>1, <2>3
    <2>7. \A g \in Flight : timer'[g] <=> timer[g]
        BY <1>1, <2>3
    <2> QED BY <1>1, <1>4, <1>5, <2>4, <2>5, <2>6, <2>7 DEF FreesSlot
<1>6. CASE queue # <<>>
    <2>1. ~closed /\ active = bounds.activeLimit
        BY <1>6 DEF NoIdleSlot
    <2>2. Len(queue) \in Nat \ {0}
        BY <1>6, EmptySeq DEF TypeOK
    <2>3. n = 1
        <3>1. free = 1
            BY <1>2, <2>1
        <3>2. n = IF free < Len(queue) THEN free ELSE Len(queue)
            BY <2>1
        <3> HIDE DEF free, n
        <3>3. \A l \in Nat \ {0} : (IF 1 < l THEN 1 ELSE l) = 1
            OBVIOUS
        <3>4. (IF 1 < Len(queue) THEN 1 ELSE Len(queue)) = 1
            BY <2>2, <3>3
        <3> QED BY <3>1, <3>2, <3>4
    <2>4. next = {queue[1]}
        BY <2>3
    <2> HIDE DEF n, next
    <2>5. /\ active' = active
          /\ queue' = SubSeq(queue, 2, Len(queue))
        BY <1>1, <1>2, <2>3
    <2> QED BY <1>1, <1>4, <1>6, <2>1, <2>4, <2>5 DEF PassesSlot
<1> QED BY <1>1, <1>4, <1>5, <1>6

LEMMA SettleMoves ==
    ASSUME GateInv, NEW f \in Flight, NEW res, TaskSettles(f, res)
    PROVE  /\ f \in Started
           /\ \/ FreesSlot(f) /\ Started' = Started \ {f} /\ Queued = {} /\ Queued' = {}
              \/ /\ PassesSlot(f)
                 /\ queue[1] \in Queued /\ queue[1] \notin Started
                 /\ Started' = (Started \ {f}) \cup {queue[1]}
                 /\ Queued' = Queued \ {queue[1]}
<1> USE DEF GateInv, Accounted
<1>1. state[f] = "active" /\ (FreesSlot(f) \/ PassesSlot(f))
    BY SettleIs
<1>2. f \in Started
    BY <1>1 DEF Started
<1>3. CASE FreesSlot(f)
    <2>1. Queued = {}
        BY <1>3, QueueForm, EmptySeq DEF FreesSlot, Members
    <2>2. Started' = Started \ {f} /\ Queued' = Queued
        BY <1>1, <1>3 DEF FreesSlot, Started, Queued
    <2> QED BY <1>2, <1>3, <2>1, <2>2
<1>4. CASE PassesSlot(f)
    <2>1. queue[1] \in Queued /\ queue[1] \in Flight
        BY <1>4, QueueForm, ShiftMembers DEF PassesSlot, TypeOK
    <2>2. state[queue[1]] = "queued"
        BY <2>1 DEF Queued
    <2>3. Started' = (Started \ {f}) \cup {queue[1]} /\ Queued' = Queued \ {queue[1]}
        BY <1>1, <1>4, <2>1, <2>2 DEF PassesSlot, Started, Queued
    <2> QED BY <1>2, <1>4, <2>1, <2>2, <2>3 DEF Started
<1> QED BY <1>1, <1>3, <1>4

LEMMA SettleKeeps ==
    ASSUME GateInv, NEW f \in Flight, NEW res \in Outcome, TaskSettles(f, res)
    PROVE  GateInv'
<1> USE DEF GateInv, Accounted
<1>1. /\ state[f] = "active"
      /\ state' \in [Flight -> {"queued", "active", "settled"}]
      /\ timer' \in [Flight -> BOOLEAN]
    BY SettleIs
<1>2. /\ Forget({f}) /\ flights' = [k \in Key |-> flights[k] \ {f}]
      /\ answer' = Answered(f, res)
      /\ UNCHANGED <<bounds, closed, signalled>>
    BY DEF TaskSettles, FinishActive, WithoutEntry
<1>3. \A g \in Flight : state'[g] = "settled" <=> (g \in {f} \/ state[g] = "settled")
    <2>1. CASE FreesSlot(f)
        BY <2>1 DEF FreesSlot
    <2>2. CASE PassesSlot(f) /\ queue[1] \in Queued
        BY <2>2 DEF PassesSlot, Queued
    <2> QED BY <2>1, <2>2, SettleMoves
<1>4. /\ answer' \in [Caller -> {"none", "wait"} \cup Outcome]
      /\ \A c \in Caller : IF \E g \in {f} : c \in waiters[g] THEN answer'[c] # "wait"
                           ELSE answer'[c] = answer[c]
    BY <1>2 DEF Answered, TypeOK, Outcome
<1>5. /\ SingleFlight' /\ WaitersAccounted'
      /\ flights' \in [Key -> SUBSET Flight]
      /\ key' \in [Flight -> Key \cup {NoKey}]
      /\ aborted' \in [Flight -> BOOLEAN]
      /\ waiters' \in [Flight -> SUBSET Caller]
    BY <1>1, <1>2, <1>3, <1>4, SettlingKeeps
<1>6. NoForeignAbort'
    <2>1. res = "abort" => waiters[f] = {}
        <3>1. res = "abort" => aborted[f]
            BY DEF TaskSettles, FinishActive, TaskResults
        <3> QED BY <1>1, <3>1 DEF WaitersAccounted
    <2> QED BY <1>2, <2>1 DEF NoForeignAbort, Answered
<1>7. /\ Len(queue) \in Nat /\ active \in Nat /\ bounds.activeLimit \in Nat
      /\ IsFiniteSet(Started)
      /\ queue # <<>> => active = bounds.activeLimit
    BY GateFacts DEF TypeOK, NoIdleSlot
<1>8. CASE FreesSlot(f) /\ Started' = Started \ {f} /\ Queued = {} /\ Queued' = {}
    <2>1. f \in Started
        BY SettleMoves
    <2>2. Cardinality(Started') = Cardinality(Started) - 1
        BY <1>7, <1>8, <2>1, FS_RemoveElement
    <2>3. active' \in Nat /\ SlotsAccounted'
        BY <1>2, <1>7, <1>8, <2>1, <2>2, FS_EmptySet, FS_CardinalityType, GateFacts
        DEF FreesSlot, SlotsAccounted
    <2>4. queue' = <<>> /\ queue' \in Seq(Flight) /\ Len(queue') = 0
        BY <1>8, EmptySeq DEF FreesSlot
    <2>5. QueueAccounted'
        BY <1>2, <1>8, <2>4, GateFacts DEF QueueAccounted, FreesSlot
    <2>6. NoIdleSlot'
        BY <2>4 DEF NoIdleSlot
    <2>7. TypeOK'
        BY <1>1, <1>2, <1>4, <1>5, <2>3, <2>4 DEF TypeOK
    <2> QED BY <1>5, <1>6, <2>3, <2>5, <2>6, <2>7
<1>9. CASE /\ PassesSlot(f)
           /\ queue[1] \in Queued /\ queue[1] \notin Started
           /\ Started' = (Started \ {f}) \cup {queue[1]}
           /\ Queued' = Queued \ {queue[1]}
    <2>1. f \in Started
        BY SettleMoves
    <2>2. Cardinality(Started') = Cardinality(Started)
        <3>1. /\ IsFiniteSet(Started \ {f})
              /\ Cardinality(Started \ {f}) = Cardinality(Started) - 1
            BY <1>7, <2>1, FS_RemoveElement
        <3>2. Cardinality((Started \ {f}) \cup {queue[1]}) = Cardinality(Started \ {f}) + 1
            BY <1>9, <3>1, FS_AddElement
        <3> QED BY <1>9, <3>1, <3>2, GateFacts
    <2>3. SlotsAccounted' /\ active' \in Nat
        BY <1>2, <1>7, <1>9, <2>2 DEF PassesSlot, SlotsAccounted
    <2>4. /\ queue' \in Seq(Flight) /\ Len(queue') = Len(queue) - 1
          /\ Members(queue') = Members(queue) \ {queue[1]} /\ Distinct(queue')
        BY <1>9, QueueForm, ShiftMembers DEF PassesSlot, TypeOK
    <2>5. QueueAccounted'
        <3>1. Len(queue') <= bounds'.queueMax
            BY <1>2, <1>7, <2>4, GateFacts DEF QueueAccounted
        <3>2. \A g \in Flight : timer'[g] <=> g \in Queued'
            BY <1>9 DEF PassesSlot, QueueAccounted
        <3>3. Members(queue') = Queued'
            BY <1>9, <2>4, QueueForm
        <3> QED BY <2>4, <3>1, <3>2, <3>3 DEF QueueAccounted, Members, Distinct
    <2>6. NoIdleSlot'
        BY <1>2, <1>7, <1>9 DEF NoIdleSlot, PassesSlot
    <2>7. TypeOK'
        BY <1>1, <1>2, <1>4, <1>5, <2>3, <2>4 DEF TypeOK
    <2> QED BY <1>5, <1>6, <2>3, <2>5, <2>6, <2>7
<1> QED BY <1>8, <1>9, SettleMoves

-----------------------------------------------------------------------------
\* No step of the gate breaks its invariant.
LEMMA GateStepSafe == GateInv /\ [Next]_vars => GateInv'
<1> SUFFICES ASSUME GateInv, [Next]_vars PROVE GateInv'
    OBVIOUS
<1>1. CASE UNCHANGED vars
    BY <1>1 DEF vars, flightVars, callVars, GateInv, Accounted, TypeOK, SlotsAccounted,
       QueueAccounted, WaitersAccounted, NoIdleSlot, NoForeignAbort, SingleFlight, Started, Queued
<1>2. ASSUME NEW c \in Caller, RunAborted(c) \/ RunClosed(c) \/ Return(c) PROVE GateInv'
    BY <1>2, CallsKeep
<1>3. ASSUME NEW c \in Caller, NEW k \in Key \cup {NoKey}, Run(c, k) PROVE GateInv'
    BY <1>3, JoinKeeps, RejectKeeps, RunStartsKeeps, RunQueuesKeeps DEF Run
<1>4. ASSUME NEW c \in Caller, NEW f \in Flight, Cancel(c, f) PROVE GateInv'
    BY <1>4, CancelKeeps, UnqueueKeeps DEF Cancel
<1>5. ASSUME NEW f \in Flight, QueueTimeout(f) PROVE GateInv'
    BY <1>5, UnqueueKeeps
<1>6. ASSUME NEW f \in Flight, NEW res \in Outcome, TaskSettles(f, res) PROVE GateInv'
    BY <1>6, SettleKeeps
<1> QED
    BY <1>1, <1>2, <1>3, <1>4, <1>5, <1>6, AbortQueuedKeeps, ConfigureKeeps DEF Next

\* ConcurrencyGate in src/services/ytdlp/queue.ts: whatever calls, signals,
\* timers, settlements and shutdown follow one another, slots, queue, timers
\* and waiters agree.
THEOREM GateAccounted == Spec => []Accounted
<1>1. GateInv => Accounted
    BY DEF GateInv
<1> QED BY <1>1, GateInitSafe, GateStepSafe, PTL DEF Spec

\* run() in src/services/ytdlp/queue.ts: at most one flight of a key can be
\* joined, and it is the one the map has.
THEOREM GateSingleFlight == Spec => []SingleFlight
<1>1. GateInv => SingleFlight
    BY DEF GateInv
<1> QED BY <1>1, GateInitSafe, GateStepSafe, PTL DEF Spec

-----------------------------------------------------------------------------
(* The gate is a bounded pool: every step of it is a step of the pool or   *)
(* leaves the pool as it is.                                               *)

\* Nothing the pool knows of changes.
LEMMA PoolStutters ==
    ASSUME UNCHANGED <<bounds, queue, state, closed>>
    PROVE  UNCHANGED Pool!poolVars
BY DEF Pool!poolVars, Started

\* What waits in the pool are the queued flights.
LEMMA PoolWaits ==
    ASSUME GateInv, NEW f
    PROVE  Pool!Waits(f) <=> f \in Queued
BY QueueForm DEF GateInv, Accounted, Pool!Waits, Members

\* The pool counts as the gate does.
LEMMA PoolCardinality == \A S : Pool!Cardinality(S) = Cardinality(S)
BY DEF Pool!Cardinality, Cardinality

LEMMA PoolAdmits ==
    ASSUME GateInv, NEW c \in Caller, NEW k \in Key \cup {NoKey}, NEW f \in Flight,
           RunStarts(c, k, f) \/ RunQueues(c, k, f)
    PROVE  Pool!Next
<1> USE DEF GateInv, Accounted
<1>1. ~closed /\ UNCHANGED <<bounds, closed>>
    BY DEF RunStarts, RunQueues, NewWork
<1>2. Pool!SlotFree <=> active < bounds.activeLimit
    BY PoolCardinality DEF SlotsAccounted, Pool!SlotFree
<1>3. CASE RunStarts(c, k, f)
    <2>1. Pool!SlotFree
        BY <1>2, <1>3 DEF RunStarts
    <2>2. Started' = Started \cup {f} /\ f \notin Started /\ ~Pool!Waits(f)
        BY <1>3, RunStartsMoves, PoolWaits
    <2>3. queue' = queue
        BY <1>3 DEF RunStarts
    <2> QED BY <1>1, <2>1, <2>2, <2>3 DEF Pool!Next, Pool!Admit
<1>4. CASE RunQueues(c, k, f)
    <2>1. ~Pool!SlotFree
        BY <1>2, <1>4, GateFacts DEF RunQueues, TypeOK
    <2>2. Len(queue) < bounds.queueMax /\ queue' = Append(queue, f)
        BY <1>4 DEF RunQueues
    <2>3. Started' = Started /\ f \notin Started /\ ~Pool!Waits(f)
        BY <1>4, RunQueuesMoves, PoolWaits
    <2> QED BY <1>1, <2>1, <2>2, <2>3 DEF Pool!Next, Pool!Admit
<1> QED BY <1>3, <1>4

LEMMA PoolLeaves ==
    ASSUME GateInv, NEW f \in Flight, Unqueues(f)
    PROVE  Pool!Next
<1> DEFINE at == CHOOSE i \in 1..Len(queue) : queue[i] = f
<1>1. Started' = Started /\ f \in Members(queue)
    BY UnqueuesMoves, QueueForm DEF GateInv, Accounted
<1>2. at \in 1..Len(queue) /\ queue[at] = f
    BY <1>1 DEF Members
<1>3. queue' = [k \in 1..(Len(queue) - 1) |-> IF k < at THEN queue[k] ELSE queue[k + 1]]
    BY <1>2 DEF Unqueues, Remove
<1>4. UNCHANGED <<bounds, closed>>
    BY DEF Unqueues
<1> HIDE DEF at
<1> QED BY <1>1, <1>2, <1>3, <1>4 DEF Pool!Next, Pool!Leave

LEMMA PoolDone ==
    ASSUME GateInv, NEW f \in Flight, NEW res \in Outcome, TaskSettles(f, res)
    PROVE  Pool!Next
<1>1. UNCHANGED <<bounds, closed>>
    BY DEF TaskSettles, FinishActive
<1>2. f \in Started
    BY SettleMoves
<1>3. CASE Started' = Started \ {f} /\ queue = <<>> /\ queue' = <<>>
    BY <1>1, <1>2, <1>3 DEF Pool!Next, Pool!Done
<1>4. CASE /\ ~closed /\ queue # <<>>
           /\ Started' = (Started \ {f}) \cup {queue[1]}
           /\ queue' = SubSeq(queue, 2, Len(queue))
    BY <1>1, <1>2, <1>4 DEF Pool!Next, Pool!Done
<1> QED BY <1>3, <1>4, SettleMoves DEF FreesSlot, PassesSlot

LEMMA PoolCloses == ASSUME GateInv, AbortQueued PROVE Pool!Next
<1>1. Started' = Started
    BY AbortQueuedMoves DEF GateInv, Accounted
<1> QED BY <1>1 DEF AbortQueued, Pool!Next, Pool!Close

LEMMA PoolResizes == ASSUME GateInv, Configure PROVE Pool!Next
<1>1. Cardinality(Started) = 0
    BY DEF Configure, GateInv, Accounted, SlotsAccounted
<1>2. Started = {}
    BY <1>1, GateFacts, FS_EmptySet DEF GateInv, Accounted
<1>3. Started' = Started
    BY DEF Configure, flightVars, Started
<1> QED BY <1>2, <1>3 DEF Configure, Pool!Next, Pool!Resize

\* src/services/ytdlp/queue.ts: however keys are shared and callers come and
\* go, the gate runs and queues its flights as a bounded pool does its jobs,
\* and starts them in the order they came.
THEOREM GateImplementsPool == Spec => ImplementsPool
<1>1. Init => Pool!Init
    BY DEF Init, Pool!Init, Started
<1>2. GateInv /\ [Next]_vars => [Pool!Next]_(Pool!poolVars)
    <2> SUFFICES ASSUME GateInv, [Next]_vars
                 PROVE  Pool!Next \/ UNCHANGED Pool!poolVars
        OBVIOUS
    <2>1. CASE UNCHANGED vars
        BY <2>1, PoolStutters DEF vars, flightVars
    <2>2. ASSUME NEW c \in Caller, RunAborted(c) \/ RunClosed(c) \/ Return(c)
          PROVE  UNCHANGED Pool!poolVars
        BY <2>2, PoolStutters DEF RunAborted, RunClosed, Return, flightVars
    <2>3. ASSUME NEW c \in Caller, NEW k \in Key \cup {NoKey}, Run(c, k)
          PROVE  Pool!Next \/ UNCHANGED Pool!poolVars
        <3>1. CASE RunJoins(c, k) \/ RunRejected(c, k)
            BY <3>1, PoolStutters DEF RunJoins, RunRejected, flightVars
        <3> QED BY <2>3, <3>1, PoolAdmits DEF Run
    <2>4. ASSUME NEW c \in Caller, NEW f \in Flight, Cancel(c, f)
          PROVE  Pool!Next \/ UNCHANGED Pool!poolVars
        <3>1. CASE CancelOne(c, f) \/ CancelActive(c, f)
            BY <3>1, PoolStutters DEF CancelOne, CancelActive
        <3> QED BY <2>4, <3>1, UnqueueKeeps, PoolLeaves DEF Cancel
    <2>5. ASSUME NEW f \in Flight, QueueTimeout(f)
          PROVE  Pool!Next
        BY <2>5, UnqueueKeeps, PoolLeaves
    <2> QED
        BY <2>1, <2>2, <2>3, <2>4, <2>5, PoolDone, PoolCloses, PoolResizes DEF Next
<1> QED
    BY <1>1, <1>2, GateInitSafe, GateStepSafe, PTL DEF Spec, ImplementsPool, Pool!Spec
=============================================================================
