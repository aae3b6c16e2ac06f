-------------------------- MODULE SessionStore_proofs --------------------------
(***************************************************************************)
(* The safety of the session store, for every set of sessions and callers, *)
(* every capacity, lifetime and bound.  IInv (module SessionStoreProps) is *)
(* the inductive invariant; each of its parts has a lemma of its own.      *)
(* The last section is about the cookies of the session routes.            *)
(***************************************************************************)
EXTENDS SessionAuth, SessionStoreProps, SequenceTheorems, FiniteSetTheorems, TLAPS

\* Settling the head of the writer chain answers that call and no other one.
LEMMA SettleType ==
    ASSUME TypeOK, queue # <<>>, NEW res \in {"ok", "unavailable"}, Settle(res)
    PROVE  /\ Head1 \in Slot
           /\ queue' \in Seq(Slot)
           /\ call' \in [Slot -> CallRecord]
           /\ call'[Head1] = [call[Head1] EXCEPT !.res = res]
           /\ \A c \in Slot : c # Head1 => call'[c] = call[c]
  <1>1. Head1 \in Slot
    BY DEF TypeOK, Head1
  <1>2. call'[Head1] = [call[Head1] EXCEPT !.res = res]
    BY <1>1 DEF TypeOK, Settle
  <1>3. [call[Head1] EXCEPT !.res = res] \in CallRecord
    BY <1>1 DEF TypeOK, CallRecord
  <1> QED
    BY <1>1, <1>2, <1>3 DEF TypeOK, Settle

\* The same for a login that finds the store full.
LEMMA SettleFullType ==
    ASSUME TypeOK, Running("add"), Settle("full")
    PROVE  /\ Head1 \in Slot
           /\ queue' \in Seq(Slot)
           /\ call' \in [Slot -> CallRecord]
           /\ call'[Head1] = [call[Head1] EXCEPT !.res = "full"]
           /\ \A c \in Slot : c # Head1 => call'[c] = call[c]
  <1>1. Head1 \in Slot /\ queue # <<>>
    BY DEF TypeOK, Head1, Running
  <1>2. call'[Head1] = [call[Head1] EXCEPT !.res = "full"]
    BY <1>1 DEF TypeOK, Settle
  <1>3. [call[Head1] EXCEPT !.res = "full"] \in CallRecord
    BY <1>1 DEF TypeOK, CallRecord, Running
  <1> QED
    BY <1>1, <1>2, <1>3 DEF TypeOK, Settle

\* A call takes one free slot: it joins the chain or is answered at once.
LEMMA RequestType ==
    ASSUME TypeOK, NEW c \in Slot, NEW op, NEW s, NEW exp, NEW must \in BOOLEAN,
           Request(c, op, s, exp, must),
           [op |-> op, sid |-> s, exp |-> exp, res |-> "pending"] \in CallRecord,
           [op |-> op, sid |-> s, exp |-> exp, res |-> "unavailable"] \in CallRecord,
           issued' \subseteq Sid, told' \subseteq [sid : Sid, exp : Nat], granted' \subseteq told',
           leaving' \subseteq Sid, revoked' \subseteq Sid
    PROVE  TypeOK'
  <1>1. call' \in [Slot -> CallRecord]
    BY DEF TypeOK, Request
  <1>2. queue' \in Seq(Slot)
    <2>1. Append(queue, c) \in Seq(Slot)
      BY DEF TypeOK
    <2>2. queue' = Append(queue, c) \/ queue' = queue
      BY DEF Request
    <2> QED
      BY <2>1, <2>2 DEF TypeOK
  <1>3. UNCHANGED <<now, up, epoch, sessions, initialized, healthy, pc, file, durable, synced,
                    usedEpochs>>
    BY DEF Request, disk
  <1> QED
    BY <1>1, <1>2, <1>3 DEF TypeOK

\* A missing or refused document is a document without records.
LEMMA EmptyType ==
    /\ Empty \in [Sid -> Nat] /\ \A s \in Sid : Empty[s] = 0
    /\ Missing \in Document /\ Corrupt \in Document
    /\ NoCall \in CallRecord
    /\ <<>> \in Seq(Slot)
  BY DEF Empty, Missing, Corrupt, Document, NoCall, CallRecord

\* Every step keeps the type of every variable.
LEMMA TypeStep ==
    ASSUME TypeOK, SerialWriter, [Next]_vars
    PROVE  TypeOK'
  <1> USE StoreAssumption, EmptyType
  <1>1. CASE UNCHANGED vars
    BY <1>1 DEF TypeOK, vars, process, disk, history
  <1>2. ASSUME NEW c \in Caller, NEW s \in Sid, CallAdd(c, s)
        PROVE  TypeOK'
    <2>1. [op |-> "add", sid |-> s, exp |-> now + Lifetime, res |-> "pending"] \in CallRecord
          /\ [op |-> "add", sid |-> s, exp |-> now + Lifetime, res |-> "unavailable"] \in CallRecord
      BY DEF TypeOK, CallRecord
    <2> QED
      BY <1>2, <2>1, RequestType DEF TypeOK, CallAdd, Slot
  <1>3. ASSUME NEW c \in Caller, NEW s \in Sid, CallRemove(c, s)
        PROVE  TypeOK'
    <2>1. [op |-> "remove", sid |-> s, exp |-> 0, res |-> "pending"] \in CallRecord
          /\ [op |-> "remove", sid |-> s, exp |-> 0, res |-> "unavailable"] \in CallRecord
      BY DEF TypeOK, CallRecord
    <2> QED
      BY <1>3, <2>1, RequestType DEF TypeOK, CallRemove, Slot
  <1>4. ASSUME NEW c \in Caller, CallInit(c)
        PROVE  TypeOK'
    <2>1. [op |-> "init", sid |-> 0, exp |-> 0, res |-> "pending"] \in CallRecord
          /\ [op |-> "init", sid |-> 0, exp |-> 0, res |-> "unavailable"] \in CallRecord
      BY DEF CallRecord
    <2> QED
      BY <1>4, <2>1, RequestType DEF TypeOK, CallInit, Slot, history
  <1>5. ASSUME NEW c \in Caller, Return(c)
        PROVE  TypeOK'
    BY <1>5 DEF TypeOK, Return, disk, history
  <1>6. CASE StartAdd
    <2>1. queue # <<>> /\ Head1 \in Slot /\ call[Head1].sid \in Sid /\ call[Head1].exp \in Nat
      BY <1>6 DEF StartAdd, Running, TypeOK, Head1, CallRecord
    <2>2. Pruned \in [Sid -> Nat]
      BY DEF Pruned, TypeOK
    <2>3. /\ queue' \in Seq(Slot) /\ call' \in [Slot -> CallRecord]
          /\ pc' \in {"idle", "write"}
      BY <1>6, <2>1, SettleType, SettleFullType DEF StartAdd, TypeOK
    <2>4. sessions' \in [Sid -> Nat]
      BY <1>6, <2>1, <2>2 DEF StartAdd, TypeOK
    <2> QED
      BY <1>6, <2>3, <2>4 DEF TypeOK, StartAdd, disk, history
  <1>7. CASE StartRemove
    <2>1. queue # <<>> /\ Head1 \in Slot /\ call[Head1].sid \in Sid
      BY <1>7 DEF StartRemove, Running, TypeOK, Head1, CallRecord
    <2>2. queue' \in Seq(Slot) /\ call' \in [Slot -> CallRecord]
      BY <1>7, <2>1, SettleType DEF StartRemove, TypeOK
    <2>3. sessions' \in [Sid -> Nat] /\ revoked' \subseteq Sid
      BY <1>7, <2>1 DEF StartRemove, TypeOK
    <2> QED
      BY <1>7, <2>2, <2>3 DEF TypeOK, StartRemove, disk
  <1>8. CASE LoadDocument
    BY <1>8, SettleType DEF TypeOK, LoadDocument, Running, Document, disk, history
  <1>9. CASE LoadMissing
    BY <1>9 DEF TypeOK, LoadMissing, disk, history
  <1>10. CASE LoadRefused
    BY <1>10, SettleType DEF TypeOK, LoadRefused, Running, disk, history
  <1>11. CASE WriteTemporary
    BY <1>11 DEF TypeOK, WriteTemporary, disk, history
  <1>12. CASE Rename
    BY <1>12 DEF TypeOK, Rename, Snapshot, Document, disk, history
  <1>13. CASE DirSync
    <2>1. queue # <<>> /\ Settle("ok")
      BY <1>13 DEF DirSync, SerialWriter
    <2>2. queue' \in Seq(Slot) /\ call' \in [Slot -> CallRecord] /\ Head1 \in Slot
      BY <2>1, SettleType
    <2>3. /\ told' \subseteq [sid : Sid, exp : Nat] /\ granted' \subseteq told'
          /\ revoked' \subseteq Sid
      BY <1>13, <2>2 DEF DirSync, TypeOK, CallRecord
    <2> QED
      BY <1>13, <2>2, <2>3 DEF TypeOK, DirSync
  <1>14. CASE PersistFails
    BY <1>14, SettleType DEF TypeOK, SerialWriter, PersistFails, disk, history
  <1>15. CASE BootProcess
    BY <1>15 DEF TypeOK, BootProcess, CallRecord, Slot, disk, history
  <1>16. CASE ExitAtBoot
    BY <1>16 DEF TypeOK, ExitAtBoot, Forget, disk, history
  <1>17. CASE Crash
    BY <1>17 DEF TypeOK, Crash, Forget, disk, history
  <1>18. CASE PowerLoss
    BY <1>18 DEF TypeOK, PowerLoss, Forget
  <1>19. CASE LoseStorage
    BY <1>19 DEF TypeOK, LoseStorage, process
  <1>20. CASE Tick
    BY <1>20 DEF TypeOK, Tick, process, disk, history
  <1> QED
    BY <1>1, <1>2, <1>3, <1>4, <1>5, <1>6, <1>7, <1>8, <1>9, <1>10, <1>11, <1>12, <1>13,
       <1>14, <1>15, <1>16, <1>17, <1>18, <1>19, <1>20 DEF Next, Writer

-----------------------------------------------------------------------------
(* The writer chain.                                                       *)

Chained == /\ \A i \in 1..Len(queue) : call[queue[i]].res = "pending"
           /\ \A i, j \in 1..Len(queue) : i # j => queue[i] # queue[j]

\* Leaving the chain, an answered call does not occur further down.
LEMMA SettleChain ==
    ASSUME TypeOK, SerialWriter, queue # <<>>, NEW res, Settle(res)
    PROVE  Chained'
  <1>1. /\ queue' \in Seq(Slot) /\ Len(queue') = Len(queue) - 1
        /\ \A i \in 1..Len(queue') : i + 1 \in 1..Len(queue) /\ queue'[i] = queue[i + 1]
    BY DEF Settle, TypeOK
  <1>2. 1 \in 1..Len(queue) /\ Head1 = queue[1]
    BY DEF TypeOK, Head1
  <1>3. \A i \in 1..Len(queue') : queue'[i] # Head1
    BY <1>1, <1>2 DEF SerialWriter
  <1>4. \A i \in 1..Len(queue') : queue'[i] \in Slot
    BY <1>1
  <1>5. \A i \in 1..Len(queue') : call'[queue'[i]] = call[queue'[i]]
    BY <1>3, <1>4 DEF Settle, TypeOK
  <1>6. \A i, j \in 1..Len(queue') : i # j => queue'[i] # queue'[j]
    BY <1>1 DEF SerialWriter, TypeOK
  <1>7. \A i \in 1..Len(queue') : call'[queue'[i]].res = "pending"
    BY <1>1, <1>5 DEF SerialWriter
  <1> QED
    BY <1>6, <1>7 DEF Chained

\* A call that joins the chain was not in it.
LEMMA RequestChain ==
    ASSUME TypeOK, TypeOK', SerialWriter, NEW c \in Slot, NEW op, NEW s, NEW exp,
           NEW must \in BOOLEAN, Request(c, op, s, exp, must)
    PROVE  Chained'
  <1>1. \A i \in 1..Len(queue) : queue[i] \in Slot /\ queue[i] # c
    BY DEF TypeOK, SerialWriter, Request, NoCall
  <1>2. \A i \in 1..Len(queue) : call'[queue[i]] = call[queue[i]]
    BY <1>1 DEF Request, TypeOK
  <1>3. CASE queue' = queue
    BY <1>2, <1>3 DEF SerialWriter, Chained
  <1>4. CASE queue' = Append(queue, c) /\ call' = [call EXCEPT ![c] =
                   [op |-> op, sid |-> s, exp |-> exp, res |-> "pending"]]
    <2>1. /\ Len(queue') = Len(queue) + 1
          /\ \A i \in 1..Len(queue) : queue'[i] = queue[i]
          /\ queue'[Len(queue) + 1] = c
      BY <1>4 DEF TypeOK
    <2>2. call'[c].res = "pending"
      BY <1>4 DEF TypeOK
    <2>3. \A i \in 1..Len(queue') : i \in 1..Len(queue) \/ i = Len(queue) + 1
      BY <2>1 DEF TypeOK
    <2>4. \A i \in 1..Len(queue') : call'[queue'[i]].res = "pending"
      BY <1>2, <2>1, <2>2, <2>3 DEF SerialWriter
    <2>5. \A i, j \in 1..Len(queue') : i # j => queue'[i] # queue'[j]
      BY <1>1, <2>1, <2>3 DEF SerialWriter
    <2> QED
      BY <2>4, <2>5 DEF Chained
  <1> QED
    BY <1>3, <1>4 DEF Request

\* Every step keeps the chain serial: one pending call per entry, one writer.
LEMMA SerialStep ==
    ASSUME TypeOK, TypeOK', SerialWriter, [Next]_vars
    PROVE  SerialWriter'
  <1>1. CASE UNCHANGED vars
    BY <1>1 DEF SerialWriter, vars, process
  <1>2. ASSUME NEW c \in Caller, NEW op, NEW s, NEW exp, NEW must \in BOOLEAN,
               Request(c, op, s, exp, must), Listening
        PROVE  SerialWriter'
    <2>1. c \in Slot
      BY DEF Slot
    <2>2. Chained'
      BY <1>2, <2>1, RequestChain
    <2>3. pc' # "idle" => up' /\ queue' # <<>>
      BY <1>2 DEF Request, SerialWriter, TypeOK
    <2>4. up'
      BY <1>2 DEF Request, Listening
    <2> QED
      BY <2>2, <2>3, <2>4 DEF SerialWriter, Chained
  <1>3. ASSUME NEW c \in Caller, NEW s \in Sid, CallAdd(c, s) \/ CallRemove(c, s)
        PROVE  SerialWriter'
    BY <1>2, <1>3 DEF CallAdd, CallRemove
  <1>4. ASSUME NEW c \in Caller, CallInit(c)
        PROVE  SerialWriter'
    BY <1>2, <1>4 DEF CallInit
  <1>5. ASSUME NEW c \in Caller, Return(c)
        PROVE  SerialWriter'
    <2>1. c \in Slot /\ call[c].res # "pending" /\ call[c] # NoCall
      BY <1>5 DEF Slot, Return, NoCall
    <2>2. up
      BY <2>1 DEF SerialWriter
    <2>3. \A i \in 1..Len(queue) : queue[i] \in Slot /\ queue[i] # c
      BY <2>1 DEF SerialWriter, TypeOK
    <2>4. \A i \in 1..Len(queue) : call'[queue[i]] = call[queue[i]]
      BY <1>5, <2>3 DEF Return, TypeOK
    <2> QED
      BY <1>5, <2>2, <2>4 DEF SerialWriter, Return
  <1>6. ASSUME up, up' = up, queue # <<>>, NEW res, Settle(res), pc' = "idle"
        PROVE  SerialWriter'
    BY <1>6, SettleChain DEF SerialWriter, Chained
  <1>7. CASE StartAdd
    <2>1. CASE UNCHANGED <<call, queue>>
      BY <1>7, <2>1 DEF StartAdd, Running, SerialWriter
    <2>2. CASE ~UNCHANGED <<call, queue>>
      BY <1>6, <1>7, <2>2 DEF StartAdd, Running
    <2> QED
      BY <2>1, <2>2
  <1>8. CASE StartRemove
    <2>1. CASE UNCHANGED <<call, queue>>
      BY <1>8, <2>1 DEF StartRemove, Running, SerialWriter
    <2>2. CASE ~UNCHANGED <<call, queue>>
      BY <1>6, <1>8, <2>2 DEF StartRemove, Running
    <2> QED
      BY <2>1, <2>2
  <1>9. CASE LoadDocument \/ LoadRefused
    BY <1>6, <1>9 DEF LoadDocument, LoadRefused, Running
  <1>10. CASE DirSync \/ PersistFails
    BY <1>6, <1>10 DEF DirSync, PersistFails, SerialWriter
  <1>11. CASE LoadMissing \/ WriteTemporary \/ Rename
    BY <1>11 DEF LoadMissing, WriteTemporary, Rename, Running, SerialWriter
  <1>12. CASE BootProcess
    <2>1. queue' = <<Boot>> /\ Len(queue') = 1 /\ queue'[1] = Boot
      BY <1>12 DEF BootProcess
    <2>2. call'[Boot].res = "pending"
      BY <1>12 DEF BootProcess, TypeOK, Slot
    <2> QED
      BY <1>12, <2>1, <2>2 DEF BootProcess, SerialWriter
  <1>13. CASE ExitAtBoot \/ Crash \/ PowerLoss
    <2>1. Forget
      BY <1>13 DEF ExitAtBoot, Crash, PowerLoss
    <2>2. Len(queue') = 0
      BY <2>1 DEF Forget
    <2> QED
      BY <2>1, <2>2 DEF Forget, SerialWriter
  <1>14. CASE LoseStorage \/ Tick
    BY <1>14 DEF LoseStorage, Tick, process, SerialWriter
  <1> QED
    BY <1>1, <1>3, <1>4, <1>5, <1>7, <1>8, <1>9, <1>10, <1>11, <1>12, <1>13, <1>14
    DEF Next, Writer

-----------------------------------------------------------------------------
(* Sids are used once.                                                     *)

\* Steps that change no call except for how it settled, and grant nothing.
LEMMA FreshFrame ==
    ASSUME TypeOK, FreshSids, NEW c \in Slot,
           \A d \in Slot : d # c => call'[d] = call[d],
           \/ call'[c] = NoCall
           \/ call'[c] = call[c]
           \/ call'[c].op = call[c].op /\ call'[c].sid = call[c].sid /\ call'[c].res # "pending",
           told' = told, issued' = issued, leaving' = leaving,
           revoked' \subseteq leaving
    PROVE  FreshSids'
  BY DEF FreshSids, NoCall

\* Every step keeps the sids of logins, logouts and grants apart.
LEMMA FreshStep ==
    ASSUME TypeOK, TypeOK', SerialWriter, FreshSids, Persistence, [Next]_vars
    PROVE  FreshSids'
  <1>1. CASE UNCHANGED vars
    BY <1>1 DEF FreshSids, vars, process, history
  <1>2. ASSUME NEW c \in Caller, NEW s \in Sid, CallAdd(c, s)
        PROVE  FreshSids'
    <2>1. c \in Slot /\ call[c] = NoCall
      BY <1>2 DEF Slot, CallAdd, Request
    <2>2. call'[c].op = "add" /\ call'[c].sid = s
          /\ \A d \in Slot : d # c => call'[d] = call[d]
      BY <1>2, <2>1 DEF CallAdd, Request, TypeOK
    <2>3. s \notin issued /\ issued' = issued \cup {s}
          /\ UNCHANGED <<told, leaving, revoked>>
      BY <1>2 DEF CallAdd
    <2> QED
      BY <2>1, <2>2, <2>3 DEF FreshSids
  <1>3. ASSUME NEW c \in Caller, NEW s \in Sid, CallRemove(c, s)
        PROVE  FreshSids'
    <2>1. c \in Slot /\ call[c] = NoCall
      BY <1>3 DEF Slot, CallRemove, Request
    <2>2. call'[c].op = "remove" /\ call'[c].sid = s
          /\ \A d \in Slot : d # c => call'[d] = call[d]
      BY <1>3, <2>1 DEF CallRemove, Request, TypeOK
    <2>3. /\ leaving' = leaving \cup {s} /\ UNCHANGED <<issued, told, revoked>>
          /\ \E k \in told : k.sid = s
      BY <1>3 DEF CallRemove
    <2> QED
      BY <2>1, <2>2, <2>3 DEF FreshSids
  <1>4. ASSUME NEW c \in Caller, CallInit(c)
        PROVE  FreshSids'
    <2>1. c \in Slot
      BY DEF Slot
    <2>2. call'[c].op = "init" /\ \A d \in Slot : d # c => call'[d] = call[d]
      BY <1>4, <2>1 DEF CallInit, Request, TypeOK
    <2> QED
      BY <1>4, <2>1, <2>2 DEF CallInit, FreshSids, history
  <1>5. ASSUME NEW c \in Caller, Return(c)
        PROVE  FreshSids'
    BY <1>5, FreshFrame DEF Return, Slot, TypeOK, history, FreshSids
  <1>6. ASSUME queue # <<>>, NEW res \in {"ok", "full", "unavailable"}, Settle(res)
        PROVE  /\ Head1 \in Slot
               /\ \A d \in Slot : d # Head1 => call'[d] = call[d]
               /\ call'[Head1].op = call[Head1].op /\ call'[Head1].sid = call[Head1].sid
               /\ call'[Head1].res # "pending"
    BY <1>6 DEF Settle, Head1, TypeOK, CallRecord
  <1>7. CASE StartAdd
    <2>1. Running("add") /\ UNCHANGED history
      BY <1>7 DEF StartAdd
    <2>2. CASE Settle("unavailable") \/ Settle("full")
      BY <1>6, <2>1, <2>2, FreshFrame DEF Running, history, FreshSids
    <2>3. CASE UNCHANGED <<call, queue>>
      BY <2>1, <2>3 DEF history, FreshSids
    <2> QED
      BY <1>7, <2>2, <2>3 DEF StartAdd
  <1>8. CASE StartRemove
    <2>1. Running("remove") /\ Head1 \in Slot /\ UNCHANGED <<issued, told, leaving>>
      BY <1>8 DEF StartRemove, Running, TypeOK, Head1
    <2>2. revoked' \subseteq leaving
      BY <1>8, <2>1 DEF StartRemove, Running, FreshSids
    <2>3. CASE Settle("unavailable") \/ Settle("ok")
      BY <1>6, <2>1, <2>2, <2>3, FreshFrame DEF Running
    <2>4. CASE UNCHANGED <<call, queue>>
      BY <2>1, <2>2, <2>4, FreshFrame
    <2> QED
      BY <1>8, <2>3, <2>4 DEF StartRemove
  <1>9. CASE LoadDocument \/ LoadRefused \/ PersistFails
    <2>1. queue # <<>> /\ UNCHANGED history /\ (Settle("ok") \/ Settle("unavailable"))
      BY <1>9 DEF LoadDocument, LoadRefused, PersistFails, Running, SerialWriter
    <2> QED
      BY <1>6, <2>1, FreshFrame DEF history, FreshSids
  <1>10. CASE DirSync
    <2>1. /\ queue # <<>> /\ Settle("ok")
          /\ call[Head1].op \in {"add", "remove", "init"}
      BY <1>10 DEF DirSync, SerialWriter, Persistence
    <2>2. Head1 \in Slot /\ call[Head1].res = "pending"
      BY <2>1 DEF SerialWriter, TypeOK, Head1
    <2>3. CASE call[Head1].op = "add"
      <3>1. /\ told' = told \cup {[sid |-> call[Head1].sid, exp |-> call[Head1].exp]}
            /\ UNCHANGED <<issued, leaving, revoked>>
        BY <1>10, <2>3 DEF DirSync
      <3> QED
        BY <1>6, <2>1, <2>2, <2>3, <3>1 DEF FreshSids
    <2>4. CASE call[Head1].op # "add"
      <3>1. UNCHANGED <<issued, leaving, told>> /\ revoked' \subseteq leaving
        BY <1>10, <2>1, <2>2, <2>4 DEF DirSync, FreshSids
      <3> QED
        BY <1>6, <2>1, <2>2, <3>1, FreshFrame
    <2> QED
      BY <2>3, <2>4
  <1>11. CASE LoadMissing \/ WriteTemporary \/ Rename \/ Tick
    BY <1>11 DEF LoadMissing, WriteTemporary, Rename, Tick, process, history, FreshSids
  <1>12. CASE BootProcess
    <2>1. call'[Boot].op = "init" /\ \A d \in Slot : d # Boot => call'[d] = call[d]
      BY <1>12 DEF BootProcess, TypeOK, Slot
    <2> QED
      BY <1>12, <2>1 DEF BootProcess, FreshSids, history
  <1>13. CASE ExitAtBoot \/ Crash \/ PowerLoss \/ LoseStorage
    <2>1. /\ issued' = issued /\ leaving' = leaving
          /\ told' = told /\ revoked' \subseteq revoked
      BY <1>13 DEF ExitAtBoot, Crash, PowerLoss, LoseStorage, history
    <2>2. (\A c \in Slot : call'[c] = NoCall) \/ call' = call
      BY <1>13 DEF ExitAtBoot, Crash, PowerLoss, LoseStorage, Forget, process
    <2> QED
      BY <2>1, <2>2 DEF FreshSids, NoCall
  <1> QED
    BY <1>1, <1>2, <1>3, <1>4, <1>5, <1>7, <1>8, <1>9, <1>10, <1>11, <1>12, <1>13
    DEF Next, Writer

-----------------------------------------------------------------------------
(* Memory and document.                                                    *)

\* The operation in progress is not disturbed by calls made meanwhile.
LEMMA HeadKept ==
    ASSUME TypeOK, TypeOK', SerialWriter, queue # <<>>, NEW c \in Caller,
           \/ \E s \in Sid : CallAdd(c, s) \/ CallRemove(c, s)
           \/ CallInit(c) \/ Return(c)
    PROVE  /\ queue' # <<>> /\ Head1' = Head1 /\ call'[Head1] = call[Head1]
           /\ Head1 \in Slot
  <1>1. Head1 \in Slot /\ call[Head1].res = "pending" /\ Head1 = queue[1]
    BY DEF TypeOK, SerialWriter, Head1
  <1>2. Head1 # c
    BY <1>1 DEF CallAdd, CallRemove, CallInit, Request, Return, NoCall
  <1>3. call'[Head1] = call[Head1]
    BY <1>1, <1>2 DEF CallAdd, CallRemove, CallInit, Request, Return, TypeOK
  <1>4. queue' = queue \/ queue' = Append(queue, c)
    BY DEF CallAdd, CallRemove, CallInit, Request, Return
  <1>5. c \in Slot
    BY DEF Slot
  <1>6. Append(queue, c) # <<>> /\ Append(queue, c)[1] = queue[1]
    <2>1. 1 \in 1..Len(queue)
      BY DEF TypeOK
    <2> QED
      BY <1>5, <2>1, AppendProperties DEF TypeOK
  <1>7. queue' # <<>> /\ queue'[1] = queue[1]
    BY <1>4, <1>6
  <1>8. Head1' = queue'[1]
    BY <1>7 DEF Head1, TypeOK
  <1> QED
    BY <1>1, <1>3, <1>7, <1>8

\* Steps of the callers leave memory, document and writer alone.
LEMMA CallerFrame ==
    ASSUME NEW c \in Caller,
           \/ \E s \in Sid : CallAdd(c, s) \/ CallRemove(c, s)
           \/ CallInit(c) \/ Return(c)
    PROVE  UNCHANGED <<now, up, epoch, sessions, initialized, healthy, pc, file, durable, synced,
                       usedEpochs>>
  BY DEF CallAdd, CallRemove, CallInit, Request, Return, disk

\* Every step keeps memory and document in the relation that the writer's
\* place in the operation describes.
LEMMA PersistStep ==
    ASSUME TypeOK, TypeOK', SerialWriter, Persistence, MemoryMatchesDisk, [Next]_vars
    PROVE  Persistence' /\ MemoryMatchesDisk'
  <1> USE DEF Persistence, MemoryMatchesDisk, Usable, Live, Differ
  <1>1. CASE UNCHANGED vars
    BY <1>1 DEF vars, process, disk, Head1, Snapshot
  <1>2. ASSUME NEW c \in Caller,
               \/ \E s \in Sid : CallAdd(c, s) \/ CallRemove(c, s)
               \/ CallInit(c) \/ Return(c)
        PROVE  Persistence' /\ MemoryMatchesDisk'
    <2>1. UNCHANGED <<now, up, epoch, sessions, initialized, healthy, pc, file, durable>>
      BY <1>2, CallerFrame
    <2>2. pc # "idle" => Head1' = Head1 /\ call'[Head1] = call[Head1]
      BY <1>2, HeadKept DEF SerialWriter
    <2> QED
      BY <2>1, <2>2 DEF Snapshot
  <1>3. CASE StartAdd
    <2>0. Head1 \in Slot /\ call[Head1] \in CallRecord /\ call[Head1].op = "add"
      BY <1>3 DEF StartAdd, Running, TypeOK, Head1
    <2>1. /\ UNCHANGED <<now, up, epoch, initialized, healthy, file, durable>> /\ pc = "idle"
          /\ Head1 \in Slot /\ call[Head1].sid \in Sid /\ call[Head1].op = "add"
          /\ call[Head1].exp \in Nat
      BY <1>3, <2>0 DEF StartAdd, disk, CallRecord
    <2>2. CASE pc' = "idle"
      <3>1. sessions' = sessions \/ sessions' = Pruned
        BY <1>3, <2>2 DEF StartAdd
      <3>2. \A s \in Sid : Live(sessions, s) => sessions'[s] = sessions[s]
        BY <3>1 DEF Pruned
      <3>3. \A s \in Sid : sessions'[s] > now => sessions'[s] = sessions[s]
        BY <3>1 DEF Pruned, TypeOK
      <3> QED
        BY <2>1, <2>2, <3>2, <3>3
    <2>3. CASE pc' # "idle"
      <3>1. /\ UNCHANGED <<call, queue>> /\ Usable /\ pc' = "write"
            /\ sessions' = [Pruned EXCEPT ![call[Head1].sid] = call[Head1].exp]
        BY <1>3, <2>1, <2>3 DEF StartAdd
      <3>2. Head1' = Head1
        BY <3>1 DEF Head1
      <3>3. /\ sessions'[call[Head1].sid] = call[Head1].exp
            /\ \A s \in Sid \ {call[Head1].sid} :
                  sessions'[s] = IF sessions[s] > now THEN sessions[s] ELSE 0
        BY <2>1, <3>1 DEF Pruned, TypeOK
      <3>4. \A s \in Sid \ {call[Head1].sid} : ~Differ(sessions', file.sessions, s)
        BY <2>1, <3>1, <3>3 DEF TypeOK
      <3> QED
        BY <2>1, <3>1, <3>2, <3>3, <3>4
    <2> QED
      BY <2>2, <2>3
  <1>4. CASE StartRemove
    <2>1. /\ UNCHANGED <<now, up, epoch, initialized, healthy, file, durable>> /\ pc = "idle"
          /\ Head1 \in Slot /\ call[Head1].sid \in Sid /\ call[Head1].op = "remove"
      BY <1>4 DEF StartRemove, disk, Running, TypeOK, Head1, CallRecord
    <2>2. CASE pc' = "idle"
      <3>1. sessions' = sessions
        BY <1>4, <2>2 DEF StartRemove
      <3> QED
        BY <2>1, <2>2, <3>1
    <2>3. CASE pc' # "idle"
      <3>1. /\ UNCHANGED <<call, queue>> /\ Usable /\ pc' = "write"
            /\ sessions' = [sessions EXCEPT ![call[Head1].sid] = 0]
        BY <1>4, <2>1, <2>3 DEF StartRemove
      <3>2. Head1' = Head1
        BY <3>1 DEF Head1
      <3>3. /\ sessions'[call[Head1].sid] = 0
            /\ \A s \in Sid \ {call[Head1].sid} : sessions'[s] = sessions[s]
        BY <2>1, <3>1 DEF TypeOK
      <3> QED
        BY <2>1, <3>1, <3>2, <3>3
    <2> QED
      BY <2>2, <2>3
  <1>5. CASE LoadDocument
    BY <1>5 DEF LoadDocument, disk
  <1>6. CASE LoadMissing
    <2>1. /\ UNCHANGED <<now, up, initialized, healthy, queue, call, file, durable>>
          /\ sessions' = Empty /\ pc' = "write" /\ file.st = "missing" /\ call[Head1].op = "init"
      BY <1>6 DEF LoadMissing, Running, disk
    <2>2. Head1' = Head1
      BY <2>1 DEF Head1
    <2> QED
      BY <2>1, <2>2
  <1>7. CASE LoadRefused
    BY <1>7 DEF LoadRefused, disk
  <1>8. CASE WriteTemporary
    <2>1. /\ UNCHANGED <<now, up, epoch, sessions, initialized, healthy, queue, call, file, durable>>
          /\ pc = "write" /\ pc' = "rename"
      BY <1>8 DEF WriteTemporary, disk
    <2>2. Head1' = Head1
      BY <2>1 DEF Head1
    <2> QED
      BY <2>1, <2>2
  <1>9. CASE Rename
    <2>1. /\ UNCHANGED <<now, up, epoch, sessions, initialized, healthy, queue, call, durable>>
          /\ pc = "rename" /\ pc' = "dirsync" /\ file' = Snapshot
      BY <1>9 DEF Rename
    <2>2. Head1' = Head1 /\ Snapshot' = Snapshot
      BY <2>1 DEF Head1, Snapshot
    <2> QED
      BY <2>1, <2>2 DEF Snapshot
  <1>10. CASE DirSync
    <2>1. /\ UNCHANGED <<now, up, epoch, sessions, file>>
          /\ pc = "dirsync" /\ pc' = "idle" /\ file = Snapshot /\ durable' \in {file, durable}
      BY <1>10 DEF DirSync
    <2> QED
      BY <2>1 DEF Snapshot
  <1>11. CASE PersistFails
    BY <1>11 DEF PersistFails, disk
  <1>12. CASE BootProcess
    BY <1>12 DEF BootProcess, disk, SerialWriter
  <1>13. CASE ExitAtBoot \/ Crash
    BY <1>13 DEF ExitAtBoot, Crash, Forget, disk
  <1>14. CASE PowerLoss \/ LoseStorage
    <2>1. ~initialized' /\ pc' = "idle"
      BY <1>14 DEF PowerLoss, LoseStorage, Forget, process, SerialWriter
    <2>2. file' \in {file, durable, Missing, Corrupt} /\ durable' = file'
      BY <1>14 DEF PowerLoss, LoseStorage
    <2> QED
      BY <2>1, <2>2 DEF Missing, Corrupt
  <1>15. CASE Tick
    <2>1. UNCHANGED <<up, epoch, sessions, initialized, healthy, queue, call, pc, file, durable>>
          /\ now' = now + 1
      BY <1>15 DEF Tick, process, disk
    <2>2. Head1' = Head1 /\ Snapshot' = Snapshot
      BY <2>1 DEF Head1, Snapshot
    <2>3. \A n \in Nat : n > now' => n > now
      BY <2>1 DEF TypeOK
    <2>4. \A s \in Sid : sessions[s] \in Nat /\ file.sessions[s] \in Nat
      BY DEF TypeOK, Document
    <2> QED
      BY <2>1, <2>2, <2>3, <2>4
  <1> QED
    BY <1>1, <1>2, <1>3, <1>4, <1>5, <1>6, <1>7, <1>8, <1>9, <1>10, <1>11, <1>12, <1>13,
       <1>14, <1>15 DEF Next, Writer

-----------------------------------------------------------------------------
(* What the answers promise.                                               *)

\* The running operation: a pending call on behalf of one sid.
LEMMA RunningCall ==
    ASSUME TypeOK, SerialWriter, FreshSids, queue # <<>>
    PROVE  LET k == call[Head1] IN
           /\ Head1 \in Slot /\ k.res = "pending" /\ k \in CallRecord
           /\ k.op \in {"add", "remove"} => k.sid \in Sid
           /\ k.op = "add" => k.sid \notin leaving /\ \A g \in told : g.sid # k.sid
           /\ k.op = "remove" => k.sid \in leaving
  <1>1. Head1 \in Slot /\ call[Head1].res = "pending"
    BY DEF TypeOK, SerialWriter, Head1
  <1>2. call[Head1] \in CallRecord
    BY <1>1 DEF TypeOK
  <1>3. call[Head1].op \in {"add", "remove"} => call[Head1].sid \in Sid
    BY <1>2 DEF CallRecord
  <1> QED
    BY <1>1, <1>2, <1>3 DEF FreshSids

\* Numbers as TypeOK gives them.
LEMMA Numbers ==
    ASSUME TypeOK
    PROVE  /\ now \in Nat
           /\ \A s \in Sid : sessions[s] \in Nat /\ file.sessions[s] \in Nat
                             /\ durable.sessions[s] \in Nat
           /\ \A g \in told : g.sid \in Sid /\ g.exp \in Nat
           /\ granted \subseteq told
           /\ \A c \in Slot : call[c].exp \in Nat
  BY DEF TypeOK, Document, CallRecord

\* Every step keeps the records of answered logins on disk and in memory.
LEMMA GrantedStep ==
    ASSUME TypeOK, TypeOK', SerialWriter, FreshSids, Persistence, MemoryMatchesDisk,
           GrantedDurable, GrantedVerifies, [Next]_vars
    PROVE  GrantedDurable' /\ GrantedVerifies'
  <1> USE Numbers DEF GrantedDurable, GrantedVerifies, Holds, Has, Usable
  <1>1. CASE UNCHANGED vars
    BY <1>1 DEF vars, process, disk, history
  <1>2. ASSUME NEW c \in Caller,
               \/ \E s \in Sid : CallAdd(c, s) \/ CallRemove(c, s)
               \/ CallInit(c) \/ Return(c)
        PROVE  GrantedDurable' /\ GrantedVerifies'
    <2>1. granted' = granted /\ leaving \subseteq leaving'
      BY <1>2 DEF CallAdd, CallRemove, CallInit, Return, history
    <2> QED
      BY <1>2, <2>1, CallerFrame
  <1>3. CASE StartAdd
    <2>1. /\ UNCHANGED <<now, initialized, healthy, disk, history>> /\ queue # <<>>
          /\ call[Head1].op = "add"
      BY <1>3 DEF StartAdd, Running
    <2>2. \A s \in Sid : sessions[s] > now /\ s # call[Head1].sid => sessions'[s] = sessions[s]
      BY <1>3, <2>1, RunningCall DEF StartAdd, Pruned, Live, TypeOK
    <2> QED
      BY <2>1, <2>2, RunningCall DEF disk, history
  <1>4. CASE StartRemove
    <2>1. /\ UNCHANGED <<now, initialized, healthy, disk, granted, leaving>> /\ queue # <<>>
          /\ call[Head1].op = "remove"
      BY <1>4 DEF StartRemove, Running
    <2>2. \A s \in Sid : s # call[Head1].sid => sessions'[s] = sessions[s]
      BY <1>4, <2>1, RunningCall DEF StartRemove, TypeOK
    <2> QED
      BY <2>1, <2>2, RunningCall DEF disk
  <1>5. CASE LoadDocument
    BY <1>5 DEF LoadDocument, disk, history
  <1>6. CASE LoadMissing \/ LoadRefused
    <2>1. /\ UNCHANGED <<now, initialized, healthy, disk, history>>
          /\ Usable => sessions' = sessions
      BY <1>6 DEF LoadMissing, LoadRefused, Persistence
    <2> QED
      BY <2>1 DEF disk, history
  <1>7. CASE WriteTemporary
    BY <1>7 DEF WriteTemporary, disk, history
  <1>8. CASE Rename
    <2>1. /\ UNCHANGED <<now, sessions, initialized, healthy, durable, synced, history>>
          /\ file' = Snapshot /\ pc = "rename"
      BY <1>8 DEF Rename
    <2>2. Usable \/ file.st # "doc"
      BY <2>1 DEF Persistence
    <2> QED
      BY <2>1, <2>2 DEF Snapshot, history
  <1>9. CASE DirSync
    <2>1. /\ UNCHANGED <<now, epoch, sessions, file, leaving>> /\ file = Snapshot
          /\ synced' => durable' = file
      BY <1>9 DEF DirSync, Persistence
    <2>2. \A g \in granted' : g \in granted
            \/ (g.sid = call[Head1].sid /\ g.exp = call[Head1].exp /\ call[Head1].op = "add")
      <3>1. call[Head1].op = "add" =>
              granted' = granted \cup {[sid |-> call[Head1].sid, exp |-> call[Head1].exp]}
        BY <1>9 DEF DirSync
      <3>2. call[Head1].op # "add" => granted' = granted
        BY <1>9 DEF DirSync
      <3> QED
        BY <3>1, <3>2
    <2>3. call[Head1].op = "add" => sessions[call[Head1].sid] = call[Head1].exp
      BY <1>9 DEF DirSync, Persistence
    <2>4. \A g \in granted' : g.exp > now /\ g.sid \notin leaving
            => Snapshot.st = "doc" /\ Snapshot.sessions[g.sid] = g.exp
               /\ sessions[g.sid] = g.exp
      BY <2>1, <2>2, <2>3 DEF Snapshot
    <2> QED
      BY <2>1, <2>4
  <1>10. CASE PersistFails
    BY <1>10 DEF PersistFails, disk, history
  <1>11. CASE BootProcess
    BY <1>11 DEF BootProcess, disk, history
  <1>12. CASE ExitAtBoot \/ Crash
    BY <1>12 DEF ExitAtBoot, Crash, Forget, disk, history
  <1>13. CASE PowerLoss
    BY <1>13 DEF PowerLoss, Forget
  <1>14. CASE LoseStorage
    BY <1>14 DEF LoseStorage
  <1>15. CASE Tick
    BY <1>15 DEF Tick, process, disk, history
  <1> QED
    BY <1>1, <1>2, <1>3, <1>4, <1>5, <1>6, <1>7, <1>8, <1>9, <1>10, <1>11, <1>12, <1>13,
       <1>14, <1>15 DEF Next, Writer

\* Every step keeps the records of answered logouts out of both.
LEMMA RevokedStep ==
    ASSUME TypeOK, TypeOK', SerialWriter, FreshSids, Persistence, MemoryMatchesDisk, Undoable,
           RevokedGone, [Next]_vars
    PROVE  RevokedGone'
  <1> USE Numbers DEF RevokedGone, Live
  <1>0. revoked \subseteq Sid /\ revoked \subseteq leaving
    BY DEF TypeOK, FreshSids
  <1>1. CASE UNCHANGED vars
    BY <1>1 DEF vars, process, disk, history
  <1>2. ASSUME NEW c \in Caller,
               \/ \E s \in Sid : CallAdd(c, s) \/ CallRemove(c, s)
               \/ CallInit(c) \/ Return(c)
        PROVE  RevokedGone'
    <2>1. revoked' = revoked
      BY <1>2 DEF CallAdd, CallRemove, CallInit, Return, history
    <2> QED
      BY <1>2, <2>1, CallerFrame
  <1>3. CASE StartAdd
    <2>1. /\ UNCHANGED <<now, disk, history>> /\ queue # <<>>
          /\ call[Head1].op = "add"
      BY <1>3 DEF StartAdd, Running
    <2>2. \A s \in Sid : s # call[Head1].sid => sessions'[s] \in {sessions[s], 0}
      BY <1>3, <2>1, RunningCall DEF StartAdd, Pruned, TypeOK
    <2> QED
      BY <1>0, <2>1, <2>2, RunningCall DEF disk, history
  <1>4. CASE StartRemove
    <2>1. /\ UNCHANGED <<now, disk, initialized, healthy>> /\ queue # <<>> /\ pc = "idle"
          /\ call[Head1].op = "remove"
      BY <1>4 DEF StartRemove, Running
    <2>2. \A s \in Sid : sessions'[s] \in {sessions[s], 0}
      BY <1>4, <2>1, RunningCall DEF StartRemove, TypeOK
    <2>3. CASE revoked' = revoked
      BY <1>0, <2>1, <2>2, <2>3 DEF disk
    <2>4. CASE revoked' # revoked
      <3> DEFINE s == call[Head1].sid
      <3>1. /\ Usable /\ sessions[s] = 0 /\ revoked' = revoked \cup {s}
            /\ sessions' = sessions
        BY <1>4, <2>4 DEF StartRemove
      <3>2. ~Live(file.sessions, s)
        BY <2>1, <3>1, RunningCall DEF MemoryMatchesDisk
      <3>3. synced => ~Differ(durable.sessions, file.sessions, s)
        BY <2>1, RunningCall DEF Undoable
      <3>4. synced => ~Live(durable.sessions, s)
        BY <2>1, <3>2, <3>3, RunningCall DEF Differ
      <3> QED
        BY <1>0, <2>1, <3>1, <3>2, <3>4 DEF disk
    <2> QED
      BY <2>3, <2>4
  <1>5. CASE LoadDocument
    BY <1>5 DEF LoadDocument, disk, history
  <1>6. CASE LoadMissing \/ LoadRefused
    <2>1. UNCHANGED <<now, disk, history>> /\ sessions' \in {sessions, Empty}
      BY <1>6 DEF LoadMissing, LoadRefused
    <2> QED
      BY <1>0, <2>1, EmptyType DEF disk, history
  <1>7. CASE WriteTemporary
    BY <1>7 DEF WriteTemporary, disk, history
  <1>8. CASE Rename
    BY <1>8 DEF Rename, Snapshot, history
  <1>9. CASE DirSync
    <2>1. /\ UNCHANGED <<now, sessions, file>> /\ file = Snapshot
          /\ synced' => durable' = file
      BY <1>9 DEF DirSync, Persistence
    <2>2. \A s \in revoked' : s \in revoked
            \/ (s = call[Head1].sid /\ call[Head1].op = "remove")
      <3>1. call[Head1].op = "remove" => revoked' = revoked \cup {call[Head1].sid}
        BY <1>9 DEF DirSync
      <3>2. call[Head1].op # "remove" => revoked' = revoked
        BY <1>9 DEF DirSync
      <3> QED
        BY <3>1, <3>2
    <2>3. call[Head1].op = "remove" => sessions[call[Head1].sid] = 0
      BY <1>9 DEF DirSync, Persistence
    <2>4. \A s \in revoked' : ~(sessions[s] > now)
      BY <2>2, <2>3
    <2> QED
      BY <2>1, <2>4 DEF Snapshot
  <1>10. CASE PersistFails
    BY <1>10 DEF PersistFails, disk, history
  <1>11. CASE BootProcess
    BY <1>11 DEF BootProcess, disk, history
  <1>12. CASE ExitAtBoot \/ Crash
    BY <1>0, <1>12, EmptyType DEF ExitAtBoot, Crash, Forget, disk, history
  <1>13. CASE PowerLoss
    BY <1>0, <1>13, EmptyType DEF PowerLoss, Forget
  <1>14. CASE LoseStorage
    <2>1. file' \in {Missing, Corrupt} /\ durable' = file'
      BY <1>14 DEF LoseStorage
    <2>2. Missing.sessions = Empty /\ Corrupt.sessions = Empty
      BY DEF Missing, Corrupt
    <2>3. \A s \in Sid : file'.sessions[s] = 0 /\ durable'.sessions[s] = 0
      BY <2>1, <2>2, EmptyType
    <2> QED
      BY <1>0, <1>14, <2>3 DEF LoseStorage, process
  <1>15. CASE Tick
    BY <1>0, <1>15 DEF Tick, process, disk, history
  <1> QED
    BY <1>1, <1>2, <1>3, <1>4, <1>5, <1>6, <1>7, <1>8, <1>9, <1>10, <1>11, <1>12, <1>13,
       <1>14, <1>15 DEF Next, Writer

\* Every step keeps what a power loss could undo to unanswered calls.
LEMMA UndoableStep ==
    ASSUME TypeOK, TypeOK', SerialWriter, FreshSids, Persistence, MemoryMatchesDisk, Undoable,
           [Next]_vars
    PROVE  Undoable'
  <1> USE Numbers DEF Undoable, Differ, Live
  <1>1. CASE UNCHANGED vars
    BY <1>1 DEF vars, process, disk, history
  <1>2. ASSUME UNCHANGED <<now, file, durable, synced>>,
               told' = told, leaving' = leaving,
               pc # "dirsync" \/ \A c \in Slot : call'[c] = NoCall \/ pc' = "dirsync",
               \A c \in Slot : call'[c].op = "remove" /\ call'[c].res = "pending"
                                 => call'[c] = call[c]
        PROVE  Undoable'
    BY <1>2 DEF NoCall
  <1>3. ASSUME NEW c \in Caller, NEW s \in Sid, CallAdd(c, s) \/ CallInit(c) \/ Return(c)
        PROVE  Undoable'
    <2>1. UNCHANGED <<now, file, durable, synced, pc>> /\ told' = told /\ leaving' = leaving
      BY <1>3, CallerFrame DEF CallAdd, CallInit, Return, history
    <2>2. c \in Slot /\ \A d \in Slot : d # c => call'[d] = call[d]
      BY <1>3 DEF Slot, CallAdd, CallInit, Request, Return, TypeOK
    <2>3. call'[c].op # "remove" \/ call'[c].res # "pending"
      BY <1>3, <2>2 DEF CallAdd, CallInit, Request, Return, TypeOK, NoCall
    <2> QED
      BY <1>2, <2>1, <2>2, <2>3
  <1>4. ASSUME NEW c \in Caller, NEW s \in Sid, CallRemove(c, s)
        PROVE  Undoable'
    <2>1. UNCHANGED <<now, file, durable, synced, pc>> /\ told' = told
          /\ leaving' = leaving \cup {s}
      BY <1>4, CallerFrame DEF CallRemove
    <2>2. c \in Slot /\ call'[c].sid = s /\ \A d \in Slot : d # c => call'[d] = call[d]
      BY <1>4 DEF Slot, CallRemove, Request, TypeOK
    <2>3. PICK g \in told : g.sid = s /\ Has(s, g.exp) /\ g.exp > now
      BY <1>4 DEF CallRemove
    <2>4. Usable /\ Live(sessions, s)
      BY <2>3 DEF Has
    <2>5. ASSUME pc # "dirsync" PROVE Live(file.sessions, s)
      <3>1. CASE pc = "idle"
        BY <2>4, <3>1 DEF MemoryMatchesDisk
      <3>2. CASE pc # "idle"
        <4>1. queue # <<>>
          BY <3>2 DEF SerialWriter
        <4>2. /\ call[Head1].op \in {"add", "remove"}
              /\ call[Head1].op = "remove" => sessions[call[Head1].sid] = 0
              /\ \A x \in Sid \ {call[Head1].sid} : ~Differ(sessions, file.sessions, x)
          BY <2>4, <2>5, <3>2 DEF Persistence
        <4>3. s # call[Head1].sid
          BY <2>3, <2>4, <4>1, <4>2, RunningCall
        <4> QED
          BY <2>4, <4>2, <4>3
      <3> QED
        BY <3>1, <3>2
    <2> QED
      BY <2>1, <2>2, <2>3, <2>5
  <1>5. ASSUME queue # <<>>, NEW res \in {"ok", "full", "unavailable"}, Settle(res)
        PROVE  \A c \in Slot : call'[c].op = "remove" /\ call'[c].res = "pending"
                                 => call'[c] = call[c]
    BY <1>5 DEF Settle, Head1, TypeOK, CallRecord
  <1>6. CASE StartAdd
    <2>1. UNCHANGED <<now, disk, history>> /\ pc = "idle" /\ queue # <<>>
      BY <1>6 DEF StartAdd, Running
    <2>2. Settle("unavailable") \/ Settle("full") \/ call' = call
      BY <1>6 DEF StartAdd
    <2> QED
      BY <1>2, <1>5, <2>1, <2>2 DEF disk, history
  <1>7. CASE StartRemove
    <2>1. UNCHANGED <<now, disk, told, leaving>> /\ pc = "idle" /\ queue # <<>>
      BY <1>7 DEF StartRemove, Running
    <2>2. Settle("unavailable") \/ Settle("ok") \/ call' = call
      BY <1>7 DEF StartRemove
    <2> QED
      BY <1>2, <1>5, <2>1, <2>2 DEF disk
  <1>8. CASE LoadDocument \/ LoadRefused
    <2>1. UNCHANGED <<now, disk, history>> /\ pc = "idle" /\ queue # <<>>
          /\ (Settle("unavailable") \/ Settle("ok"))
      BY <1>8 DEF LoadDocument, LoadRefused, Running
    <2> QED
      BY <1>2, <1>5, <2>1 DEF disk, history
  <1>9. CASE LoadMissing \/ WriteTemporary
    BY <1>2, <1>9 DEF LoadMissing, WriteTemporary, disk, history
  <1>10. CASE Rename
    <2> DEFINE k == call[Head1]
    <2>1. /\ UNCHANGED <<now, durable, synced, history>> /\ pc = "rename" /\ pc' = "dirsync"
          /\ queue # <<>> /\ file'.sessions = sessions
      BY <1>10 DEF Rename, Snapshot, SerialWriter
    <2>2. /\ k.op = "remove" => sessions[k.sid] = 0
          /\ k.op = "init" => sessions = Empty /\ file.sessions = Empty
          /\ k.op # "init" => \A x \in Sid \ {k.sid} : ~Differ(sessions, file.sessions, x)
          /\ k.op \in {"add", "remove", "init"}
      BY <2>1 DEF Persistence
    <2> SUFFICES ASSUME synced, NEW s \in Sid, Differ(durable.sessions, sessions, s)
                 PROVE  (\A g \in told : g.sid # s) \/ (s \in leaving /\ ~Live(sessions, s))
      BY <2>1 DEF history
    <2>3. CASE k.op = "init"
      BY <2>2, <2>3, EmptyType
    <2>4. CASE k.op # "init" /\ s = k.sid
      BY <2>1, <2>2, <2>4, RunningCall
    <2>5. CASE k.op # "init" /\ s # k.sid
      <3>1. ~Differ(sessions, file.sessions, s)
        BY <2>2, <2>5
      <3>2. Differ(durable.sessions, file.sessions, s)
        BY <3>1
      <3> QED
        BY <3>1, <3>2
    <2> QED
      BY <2>3, <2>4, <2>5
  <1>11. CASE DirSync
    BY <1>11 DEF DirSync
  <1>12. CASE PersistFails
    <2>1. UNCHANGED <<now, disk, history>> /\ pc # "dirsync" /\ queue # <<>>
          /\ Settle("unavailable")
      BY <1>12 DEF PersistFails, SerialWriter
    <2> QED
      BY <1>2, <1>5, <2>1 DEF disk, history
  <1>13. CASE BootProcess
    <2>1. UNCHANGED <<now, pc, disk, history>> /\ pc = "idle"
      BY <1>13 DEF BootProcess, SerialWriter
    <2>2. call'[Boot].op = "init" /\ \A d \in Slot : d # Boot => call'[d] = call[d]
      BY <1>13 DEF BootProcess, TypeOK, Slot
    <2> QED
      BY <1>2, <2>1, <2>2 DEF disk, history
  <1>14. CASE ExitAtBoot \/ Crash
    <2>1. UNCHANGED <<now, disk, history>> /\ \A c \in Slot : call'[c] = NoCall
      BY <1>14 DEF ExitAtBoot, Crash, Forget
    <2> QED
      BY <1>2, <2>1 DEF disk, history, NoCall
  <1>15. CASE PowerLoss \/ LoseStorage
    BY <1>15 DEF PowerLoss, LoseStorage
  <1>16. CASE Tick
    BY <1>16 DEF Tick, process, disk, history
  <1> QED
    BY <1>1, <1>3, <1>4, <1>6, <1>7, <1>8, <1>9, <1>10, <1>11, <1>12, <1>13, <1>14, <1>15, <1>16
    DEF Next, Writer

-----------------------------------------------------------------------------
(* The theorems.                                                           *)

\* A store that has not started satisfies it.
LEMMA InitSafe == Init => IInv
  <1> SUFFICES ASSUME Init PROVE IInv
    OBVIOUS
  <1>1. queue = <<>> /\ Len(queue) = 0 /\ queue \in Seq(Slot)
    BY DEF Init
  <1>2. TypeOK
    BY <1>1, EmptyType DEF Init, TypeOK
  <1>3. \A c \in Slot : call[c] = NoCall
    BY DEF Init
  <1>4. SerialWriter
    BY <1>1 DEF Init, SerialWriter
  <1>5. FreshSids /\ Undoable
    BY <1>3 DEF Init, FreshSids, Undoable, NoCall
  <1>6. Persistence /\ MemoryMatchesDisk
    BY DEF Init, Persistence, MemoryMatchesDisk, Usable, Missing
  <1>7. GrantedDurable /\ GrantedVerifies /\ RevokedGone
    BY DEF Init, GrantedDurable, GrantedVerifies, RevokedGone
  <1> QED
    BY <1>2, <1>4, <1>5, <1>6, <1>7 DEF IInv

\* Every step keeps it.
LEMMA IInvStep == IInv /\ [Next]_vars => IInv'
  BY TypeStep, SerialStep, FreshStep, PersistStep, GrantedStep, RevokedStep, UndoableStep
  DEF IInv

\* The strengthening holds in every reachable state.
LEMMA Invariance == Spec => []IInv
  BY InitSafe, IInvStep, PTL DEF Spec

\* Every variable keeps its type, whatever the interleaving of requests,
\* failures and restarts.
THEOREM TypeCorrect == Spec => []TypeOK
  BY Invariance, PTL DEF IInv

\* A login that was answered is on disk until it expires, its owner logs out
\* or the storage is lost (sessionStore.ts: "Persist a new active session
\* BEFORE the cookie is issued").
THEOREM LoginsAreDurable == Spec => []GrantedDurable
  BY Invariance, PTL DEF IInv

\* ... and every process that can serve it accepts its cookie.
THEOREM LoginsVerify == Spec => []GrantedVerifies
  BY Invariance, PTL DEF IInv

\* A logout whose remove() resolved is final, across restarts and power loss.
THEOREM LogoutsAreFinal == Spec => []RevokedGone
  BY Invariance, PTL DEF IInv

\* A usable idle store agrees with its document.
THEOREM MemoryIsTheDocument == Spec => []MemoryMatchesDisk
  BY Invariance, PTL DEF IInv

\* A server never replaces a document it refuses to read.
THEOREM CorruptionIsKept == Spec => CorruptionKept
  <1>1. IInv /\ [Next]_vars => [up /\ file.st = "corrupt" => file' = file]_vars
    <2> SUFFICES ASSUME IInv, Next, up, file.st = "corrupt"
                 PROVE  file' = file
      BY DEF IInv
    <2>1. CASE Rename
      <3>1. pc = "rename" /\ pc # "idle" /\ pc # "dirsync"
        BY <2>1 DEF Rename
      <3> QED
        BY <3>1 DEF IInv, Persistence
    <2>2. CASE DirSync
      BY <2>2 DEF DirSync
    <2>3. CASE PowerLoss
      <3>1. durable = file /\ file' \in {file, durable}
        BY <2>3 DEF IInv, Persistence, PowerLoss
      <3> QED
        BY <3>1
    <2> QED
      BY <2>1, <2>2, <2>3, CallerFrame
      DEF Next, Writer, StartAdd, StartRemove, LoadDocument, LoadMissing, LoadRefused,
          WriteTemporary, PersistFails, BootProcess, ExitAtBoot, Crash, LoseStorage, Tick,
          process, disk
  <1> QED
    BY <1>1, Invariance, PTL DEF CorruptionKept, Spec

\* No step changes the epoch of a document that stays one.
LEMMA EpochStep ==
    ASSUME IInv, [Next]_vars, file.st = "doc", file'.st = "doc"
    PROVE  file'.epoch = file.epoch
  <1>0. CASE UNCHANGED vars
    BY <1>0 DEF vars, disk
  <1>1. CASE Rename
    <2>1. pc = "rename" /\ file'.epoch = epoch
      BY <1>1 DEF Rename, Snapshot
    <2>2. call[Head1].op # "init"
      BY <2>1 DEF IInv, Persistence
    <2> QED
      BY <2>1, <2>2 DEF IInv, Persistence
  <1>2. CASE DirSync
    BY <1>2 DEF DirSync
  <1>3. CASE PowerLoss
    BY <1>3 DEF IInv, Persistence, PowerLoss
  <1>4. CASE LoseStorage
    BY <1>4 DEF LoseStorage, Missing, Corrupt
  <1> QED
    BY <1>0, <1>1, <1>2, <1>3, <1>4, CallerFrame
    DEF Next, Writer, StartAdd, StartRemove, LoadDocument, LoadMissing, LoadRefused,
        WriteTemporary, PersistFails, BootProcess, ExitAtBoot, Crash, Tick, process, disk

\* Retained storage keeps its epoch.
THEOREM EpochIsRetained == Spec => EpochRetained
  <1>1. IInv /\ [Next]_vars
          => [file.st = "doc" /\ file'.st = "doc" => file'.epoch = file.epoch]_vars
    BY EpochStep
  <1> QED
    BY <1>1, Invariance, PTL DEF EpochRetained, Spec

\* A full store rejects, it never evicts.
THEOREM NothingIsEvicted == Spec => NoEviction
  <1>1. IInv /\ [Next]_vars =>
          [\A s \in Sid :
             up /\ up' /\ Live(sessions, s) /\ sessions'[s] # sessions[s] =>
                /\ queue # <<>>
                /\ \/ call[Head1].op \in {"add", "remove"} /\ call[Head1].sid = s
                   \/ call[Head1].op = "init" /\ sessions'[s] = file.sessions[s]]_vars
    <2> SUFFICES ASSUME IInv, Next, NEW s \in Sid, up, up', Live(sessions, s),
                        sessions'[s] # sessions[s]
                 PROVE  /\ queue # <<>>
                        /\ \/ call[Head1].op \in {"add", "remove"} /\ call[Head1].sid = s
                           \/ call[Head1].op = "init" /\ sessions'[s] = file.sessions[s]
      BY DEF IInv
    <2>1. TypeOK /\ SerialWriter /\ FreshSids /\ Persistence /\ MemoryMatchesDisk
      BY DEF IInv
    <2>2. CASE StartAdd
      <3>1. queue # <<>> /\ call[Head1].op = "add" /\ Usable /\ pc = "idle"
            /\ s = call[Head1].sid
        BY <2>1, <2>2 DEF StartAdd, Running, Pruned, TypeOK
      <3> QED
        BY <3>1
    <2>3. CASE StartRemove
      BY <2>1, <2>3 DEF StartRemove, Running, TypeOK
    <2>4. CASE LoadDocument
      BY <2>4 DEF LoadDocument, Running
    <2>5. CASE LoadMissing \/ LoadRefused
      BY <2>1, <2>5, EmptyType DEF LoadMissing, LoadRefused, Running, Persistence
    <2>6. CASE ExitAtBoot \/ Crash \/ PowerLoss \/ LoseStorage \/ BootProcess
      BY <2>6 DEF ExitAtBoot, Crash, PowerLoss, Forget, LoseStorage, BootProcess, process
    <2> QED
      BY <2>2, <2>3, <2>4, <2>5, <2>6, CallerFrame
      DEF Next, Writer, WriteTemporary, Rename, DirSync, PersistFails, Tick, process
  <1> QED
    BY <1>1, Invariance, PTL DEF NoEviction, Spec

-----------------------------------------------------------------------------
(* The cap.                                                                *)

\* A set of sids is finite, so its members can be counted.
LEMMA MembersCard ==
    ASSUME NEW m, NEW n, Members(n) \subseteq Members(m)
    PROVE  /\ IsFiniteSet(Members(m)) /\ Cardinality(Members(m)) \in Nat
           /\ Cardinality(Members(n)) \in Nat
           /\ Cardinality(Members(n)) <= Cardinality(Members(m))
  <1>1. Members(m) \subseteq Sid /\ Members(n) \subseteq Sid /\ IsFiniteSet(Sid)
    BY StoreAssumption DEF Members
  <1> QED
    BY <1>1, FS_Subset, FS_CardinalityType

\* The allowlist never outgrows its cap, in memory or in any document.
THEOREM CapHolds == Spec => []WithinCap
  <1>0. \A m : m = Empty => Cardinality(Members(m)) <= MaxSessions
    <2>1. Members(Empty) = {}
      BY EmptyType DEF Members
    <2> QED
      BY <2>1, FS_EmptySet, StoreAssumption
  <1>1. Init => WithinCap
    BY <1>0 DEF Init, WithinCap, Missing
  <1>2. IInv /\ WithinCap /\ [Next]_vars => WithinCap'
    <2> SUFFICES ASSUME IInv, WithinCap, [Next]_vars
                 PROVE  WithinCap'
      OBVIOUS
    <2> USE DEF WithinCap
    <2>1. CASE UNCHANGED vars
      BY <2>1 DEF vars, process, disk, Members
    <2>2. ASSUME UNCHANGED <<file, durable>>, Members(sessions') \subseteq Members(sessions)
          PROVE  WithinCap'
      BY <2>2, MembersCard, StoreAssumption
    <2>3. CASE StartAdd
      <3> DEFINE s == call[Head1].sid
      <3>1. UNCHANGED <<file, durable>> /\ TypeOK /\ queue # <<>>
        BY <2>3 DEF StartAdd, Running, disk, IInv
      <3>2. Members(Pruned) \subseteq Members(sessions)
        BY DEF Members, Pruned
      <3>3. Cardinality(Members(Pruned)) \in Nat /\ IsFiniteSet(Members(Pruned))
            /\ Cardinality(Members(Pruned)) <= MaxSessions
        BY <3>2, MembersCard, StoreAssumption
      <3>4. CASE sessions' = sessions \/ sessions' = Pruned
        BY <2>2, <3>1, <3>2, <3>4
      <3>5. CASE HasRoom(s) /\ sessions' = [Pruned EXCEPT ![s] = call[Head1].exp]
        <4>1. Members(sessions') \subseteq Members(Pruned) \cup {s}
          BY <3>5 DEF Members, Pruned
        <4>2. CASE Pruned[s] # 0
          <5>1. Head1 \in Slot /\ s \in Sid
            BY <2>3, <3>1 DEF StartAdd, Running, TypeOK, Head1, CallRecord
          <5>2. s \in Members(Pruned)
            BY <4>2, <5>1 DEF Members
          <5> QED
            BY <2>2, <3>1, <3>2, <4>1, <5>2
        <4>3. CASE Pruned[s] = 0
          <5>1. Cardinality(Members(Pruned)) < MaxSessions
            BY <3>5, <4>3 DEF HasRoom
          <5>2. /\ IsFiniteSet(Members(Pruned) \cup {s})
                /\ Cardinality(Members(Pruned) \cup {s}) <= Cardinality(Members(Pruned)) + 1
            BY <3>3, FS_AddElement
          <5>3. Cardinality(Members(sessions')) <= Cardinality(Members(Pruned) \cup {s})
            BY <4>1, <5>2, FS_Subset
          <5>4. /\ Cardinality(Members(sessions')) \in Nat
                /\ Cardinality(Members(Pruned) \cup {s}) \in Nat
            BY <4>1, <5>2, FS_Subset, FS_CardinalityType
          <5>5. Cardinality(Members(sessions')) <= MaxSessions
            BY <3>3, <5>1, <5>2, <5>3, <5>4, StoreAssumption
          <5> QED
            BY <3>1, <5>5
        <4> QED
          BY <4>2, <4>3
      <3> QED
        BY <2>3, <3>4, <3>5 DEF StartAdd
    <2>4. CASE StartRemove
      <3>1. /\ UNCHANGED <<file, durable>> /\ TypeOK
            /\ sessions' = sessions \/ sessions' = [sessions EXCEPT ![call[Head1].sid] = 0]
        BY <2>4 DEF StartRemove, disk, IInv
      <3>2. Members(sessions') \subseteq Members(sessions)
        BY <3>1 DEF Members, TypeOK
      <3> QED
        BY <2>2, <3>1, <3>2
    <2>5. CASE LoadDocument
      BY <2>5 DEF LoadDocument, disk
    <2>6. CASE LoadMissing \/ LoadRefused \/ ExitAtBoot \/ Crash
      <3>1. UNCHANGED <<file, durable>> /\ sessions' \in {sessions, Empty}
        BY <2>6 DEF LoadMissing, LoadRefused, ExitAtBoot, Crash, Forget, disk
      <3> QED
        BY <1>0, <3>1
    <2>7. CASE Rename
      BY <2>7 DEF Rename, Snapshot
    <2>8. CASE DirSync
      BY <2>8 DEF DirSync
    <2>9. CASE PowerLoss
      BY <1>0, <2>9 DEF PowerLoss, Forget
    <2>10. CASE LoseStorage
      <3>1. /\ sessions' = sessions /\ durable' = file'
            /\ file' \in {Missing, Corrupt}
        BY <2>10 DEF LoseStorage, process
      <3>2. file'.sessions = Empty
        BY <3>1 DEF Missing, Corrupt
      <3> QED
        BY <1>0, <3>1, <3>2
    <2> QED
      BY <2>1, <2>2, <2>3, <2>4, <2>5, <2>6, <2>7, <2>8, <2>9, <2>10, CallerFrame
      DEF Next, Writer, WriteTemporary, PersistFails, BootProcess, Tick, process, disk
  <1> QED
    BY <1>1, <1>2, Invariance, PTL DEF Spec
-----------------------------------------------------------------------------
(* The cookies (module SessionAuth).  The store's part of every step is a  *)
(* step of the store, so all the above holds of the routes as well.        *)

CookieTypes ==
    /\ tokenEpoch \in [Caller -> Nat]
    /\ cookies \subseteq [sid : Sid, epoch : Nat, exp : Nat]

\* The sid of a cookie is used up: no login in progress has it.
Spent ==
    \A k \in cookies :
        /\ k.sid \in issued
        /\ \A c \in Slot : call[c].op = "add" => call[c].sid # k.sid

\* Everything that speaks of one sid gives it one time of expiry.
OneExpiry ==
    \A g \in granted :
        /\ \A c \in Slot : call[c].op = "add" /\ call[c].sid = g.sid => call[c].exp = g.exp
        /\ \A k \in cookies : k.sid = g.sid => k.exp = g.exp

\* A login that can still succeed has put the document's epoch in its payload.
EpochFixed ==
    \A c \in Caller :
        call[c].op = "add" /\ call[c].res \in {"pending", "ok"} =>
            file.st = "doc" /\ tokenEpoch[c] = file.epoch

\* ... and so has the cookie that came of it.
EpochKept ==
    \A k \in cookies :
        k.exp > now /\ k.sid \notin leaving /\ (\E g \in granted : g.sid = k.sid) =>
            k.epoch = file.epoch

AuthInv == CookieTypes /\ Spent /\ OneExpiry /\ EpochFixed /\ EpochKept

\* The routes start the store as the startup sequence finds it, and the cookie
\* jar is empty.
LEMMA AuthInitSafe == AuthInit => AuthInv
  <1> SUFFICES ASSUME AuthInit PROVE AuthInv
    OBVIOUS
  <1>1. \A c \in Slot : call[c].op = "none"
    BY DEF AuthInit, Init, NoCall
  <1>2. \A c \in Caller : c \in Slot
    BY DEF Slot
  <1>3. granted = {} /\ cookies = {} /\ tokenEpoch \in [Caller -> Nat]
    BY DEF AuthInit, Init
  <1> QED
    BY <1>1, <1>2, <1>3 DEF AuthInv, CookieTypes, Spent, OneExpiry, EpochFixed, EpochKept

\* Every step of a route is a step of the store, or leaves it alone.
LEMMA AuthIsStore ==
    ASSUME CookieTypes, [AuthNext]_allVars
    PROVE  [Next]_vars
  <1>1. CASE UNCHANGED allVars
    BY <1>1 DEF allVars
  <1>2. ASSUME NEW c \in Caller, NEW k \in cookies, DeleteSession(c, k)
        PROVE  Next
    <2>1. k.sid \in Sid
      BY DEF CookieTypes
    <2> QED
      BY <1>2, <2>1 DEF DeleteSession, Next
  <1>3. CASE StoreStep
    BY <1>3 DEF StoreStep, Next
  <1>4. ASSUME NEW c \in Caller,
               (\E s \in Sid : PostSession(c, s)) \/ PostAnswered(c) \/ DeleteAnswered(c)
        PROVE  Next
    BY <1>4 DEF PostSession, PostAnswered, DeleteAnswered, Next
  <1>5. ASSUME NEW c \in Caller, NEW k \in cookies, DeleteUnverified(c, k)
        PROVE  UNCHANGED vars
    BY <1>5 DEF DeleteUnverified
  <1> QED
    BY <1>1, <1>2, <1>3, <1>4, <1>5 DEF AuthNext

\* A login is in progress because it was before, or because it was called.
LEMMA LoginFrame ==
    ASSUME IInv, IInv', Next, NEW c \in Slot, call'[c].op = "add", issued' = issued
    PROVE  /\ call[c].op = "add" /\ call'[c].sid = call[c].sid /\ call'[c].exp = call[c].exp
           /\ call'[c].res \in {"pending", "ok"} => call[c].res \in {"pending", "ok"}
           /\ up /\ up'
  <1> DEFINE Same == /\ call[c].op = "add" /\ call'[c].sid = call[c].sid
                     /\ call'[c].exp = call[c].exp
                     /\ call'[c].res \in {"pending", "ok"} => call[c].res \in {"pending", "ok"}
  <1>1. TypeOK /\ SerialWriter /\ FreshSids
    BY DEF IInv
  <1>2. ASSUME queue # <<>>, NEW res \in {"ok", "full", "unavailable"}, Settle(res)
        PROVE  Same
    <2>1. Head1 \in Slot /\ call[Head1].res = "pending" /\ call[Head1] \in CallRecord
      BY <1>1, <1>2, RunningCall
    <2>2. /\ call'[Head1].op = call[Head1].op /\ call'[Head1].sid = call[Head1].sid
          /\ call'[Head1].exp = call[Head1].exp
          /\ c # Head1 => call'[c] = call[c]
      BY <1>1, <1>2, <2>1 DEF Settle, TypeOK, CallRecord
    <2> QED
      BY <2>1, <2>2
  <1>3. ASSUME NEW d \in Caller,
               \/ \E s \in Sid : CallAdd(d, s) \/ CallRemove(d, s)
               \/ CallInit(d) \/ Return(d)
        PROVE  Same
    <2>1. d \in Slot
      BY DEF Slot
    <2>2. \A s \in Sid : ~CallAdd(d, s)
      BY DEF CallAdd
    <2>3. c # d => call'[c] = call[c]
      BY <1>1, <1>3, <2>1, <2>2 DEF CallRemove, CallInit, Return, Request, TypeOK
    <2>4. call'[d].op # "add"
      BY <1>1, <1>3, <2>1, <2>2 DEF CallRemove, CallInit, Return, Request, TypeOK, NoCall
    <2> QED
      BY <2>3, <2>4
  <1>4. ASSUME StartAdd \/ StartRemove \/ LoadDocument \/ LoadRefused
        PROVE  Same
    BY <1>2, <1>4 DEF StartAdd, StartRemove, LoadDocument, LoadRefused, Running
  <1>5. ASSUME DirSync \/ PersistFails
        PROVE  Same
    BY <1>1, <1>2, <1>5 DEF DirSync, PersistFails, SerialWriter
  <1>6. ASSUME LoadMissing \/ WriteTemporary \/ Rename \/ LoseStorage \/ Tick
        PROVE  Same
    <2>1. call' = call
      BY <1>6 DEF LoadMissing, WriteTemporary, Rename, LoseStorage, Tick, process
    <2> QED
      BY <2>1
  <1>7. ASSUME BootProcess
        PROVE  Same
    <2>1. call'[Boot].op = "init" /\ \A d \in Slot : d # Boot => call'[d] = call[d]
      BY <1>1, <1>7 DEF BootProcess, TypeOK, Slot
    <2> QED
      BY <2>1
  <1>8. ASSUME ExitAtBoot \/ Crash \/ PowerLoss
        PROVE  Same
    BY <1>8 DEF ExitAtBoot, Crash, PowerLoss, Forget, NoCall
  <1>9. Same
    BY <1>3, <1>4, <1>5, <1>6, <1>7, <1>8 DEF Next, Writer
  <1>10. up /\ up'
    BY <1>1, <1>9 DEF IInv, SerialWriter, NoCall
  <1> QED
    BY <1>9, <1>10

\* Whatever is granted was granted before or is the login just written.
LEMMA GrantFrame ==
    ASSUME IInv, [Next]_vars, NEW g \in granted'
    PROVE  \/ g \in granted
           \/ \E c \in Slot : /\ call[c].op = "add" /\ call[c].res = "pending"
                            /\ g.sid = call[c].sid /\ g.exp = call[c].exp
  <1>0. CASE UNCHANGED vars
    BY <1>0 DEF vars, history
  <1>1. CASE DirSync
    <2>1. Head1 \in Slot /\ call[Head1].res = "pending"
      BY <1>1, RunningCall DEF IInv, SerialWriter, DirSync
    <2> QED
      BY <1>1, <2>1 DEF DirSync
  <1>2. CASE \E c \in Caller : \/ \E s \in Sid : CallAdd(c, s) \/ CallRemove(c, s)
                             \/ CallInit(c) \/ Return(c)
    BY <1>2 DEF CallAdd, CallRemove, CallInit, Return, history
  <1> QED
    BY <1>0, <1>1, <1>2
    DEF Next, Writer, StartAdd, StartRemove, LoadDocument, LoadMissing, LoadRefused,
        WriteTemporary, Rename, PersistFails, BootProcess, ExitAtBoot, Crash, PowerLoss,
        LoseStorage, Tick, process, disk, history

\* A process that keeps running keeps its document.
LEMMA DocKept ==
    ASSUME IInv, [Next]_vars, up, up', file.st = "doc"
    PROVE  file'.st = "doc" /\ file'.epoch = file.epoch
  <1>1. file'.st = "doc"
    <2>0. CASE UNCHANGED vars
      BY <2>0 DEF vars, disk
    <2>1. CASE Rename
      BY <2>1 DEF Rename, Snapshot
    <2>2. CASE DirSync
      BY <2>2 DEF DirSync
    <2>3. CASE ExitAtBoot \/ Crash \/ PowerLoss
      BY <2>3 DEF ExitAtBoot, Crash, PowerLoss, Forget
    <2> QED
      BY <2>0, <2>1, <2>2, <2>3, CallerFrame
      DEF Next, Writer, StartAdd, StartRemove, LoadDocument, LoadMissing, LoadRefused,
          WriteTemporary, PersistFails, BootProcess, LoseStorage, Tick, process, disk
  <1> QED
    BY <1>1, EpochStep

\* Expiry and logout only ever progress.
LEMMA Onward ==
    ASSUME TypeOK, [Next]_vars
    PROVE  now' \in Nat /\ now <= now' /\ issued \subseteq issued' /\ leaving \subseteq leaving'
  <1>1. now \in Nat
    BY DEF TypeOK
  <1>2. now' = now \/ now' = now + 1
    BY CallerFrame
    DEF Next, Writer, StartAdd, StartRemove, LoadDocument, LoadMissing, LoadRefused,
        WriteTemporary, Rename, DirSync, PersistFails, BootProcess, ExitAtBoot, Crash, PowerLoss,
        LoseStorage, Tick, vars
  <1>3. issued \subseteq issued' /\ leaving \subseteq leaving'
    BY DEF Next, Writer, StartAdd, StartRemove, LoadDocument, LoadMissing, LoadRefused,
        WriteTemporary, Rename, DirSync, PersistFails, BootProcess, ExitAtBoot, Crash, PowerLoss,
        LoseStorage, Tick, vars, history, CallAdd, CallRemove, CallInit, Return
  <1> QED
    BY <1>1, <1>2, <1>3

\* What a cookie and a grant have in common outlives any step that leaves the
\* cookies alone.
LEMMA EpochKeptStep ==
    ASSUME IInv, IInv', AuthInv, [Next]_vars, NEW k \in cookies,
           k.exp > now', k.sid \notin leaving', NEW h \in granted', h.sid = k.sid
    PROVE  k.epoch = file'.epoch
  <1>1. h \in granted
    BY GrantFrame DEF AuthInv, Spent
  <1>2. k.sid \in Sid /\ k.exp \in Nat /\ h.exp = k.exp
    BY <1>1 DEF AuthInv, CookieTypes, OneExpiry
  <1>3. now \in Nat /\ k.exp > now /\ k.sid \notin leaving
    BY <1>2, Onward DEF IInv, TypeOK
  <1>4. file.st = "doc"
    BY <1>1, <1>2, <1>3 DEF IInv, GrantedDurable, Holds
  <1>5. file'.st = "doc"
    BY <1>2 DEF IInv, GrantedDurable, Holds
  <1>6. file'.epoch = file.epoch
    BY <1>4, <1>5, EpochStep
  <1> QED
    BY <1>1, <1>3, <1>6 DEF AuthInv, EpochKept

\* Steps that begin no login and set no cookie.
LEMMA QuietStep ==
    ASSUME IInv, IInv', AuthInv, Next, issued' = issued, cookies' = cookies,
           tokenEpoch' = IF up' THEN tokenEpoch ELSE [c \in Caller |-> 0]
    PROVE  AuthInv'
  <1>1. CookieTypes'
    BY DEF AuthInv, CookieTypes
  <1>2. Spent'
    BY LoginFrame DEF AuthInv, Spent
  <1>3. OneExpiry'
    <2> SUFFICES ASSUME NEW g \in granted'
                 PROVE  /\ \A c \in Slot : call'[c].op = "add" /\ call'[c].sid = g.sid
                                          => call'[c].exp = g.exp
                        /\ \A k \in cookies : k.sid = g.sid => k.exp = g.exp
      BY DEF OneExpiry
    <2>1. CASE g \in granted
      BY <2>1, LoginFrame DEF AuthInv, OneExpiry
    <2>2. CASE g \notin granted
      <3>1. PICK d \in Slot : /\ call[d].op = "add" /\ call[d].res = "pending"
                             /\ g.sid = call[d].sid /\ g.exp = call[d].exp
        BY <2>2, GrantFrame
      <3>2. \A c \in Slot : call[c].op = "add" /\ call[c].sid = g.sid => c = d
        BY <3>1 DEF IInv, FreshSids
      <3> QED
        BY <3>1, <3>2, LoginFrame DEF AuthInv, Spent
    <2> QED
      BY <2>1, <2>2
  <1>4. EpochFixed'
    <2> SUFFICES ASSUME NEW c \in Caller, call'[c].op = "add", call'[c].res \in {"pending", "ok"}
                 PROVE  file'.st = "doc" /\ tokenEpoch'[c] = file'.epoch
      BY DEF EpochFixed
    <2>1. c \in Slot
      BY DEF Slot
    <2>2. call[c].op = "add" /\ call[c].res \in {"pending", "ok"} /\ up /\ up'
      BY <2>1, LoginFrame
    <2>3. file.st = "doc" /\ tokenEpoch[c] = file.epoch
      BY <2>2 DEF AuthInv, EpochFixed
    <2> QED
      BY <2>2, <2>3, DocKept
  <1>5. EpochKept'
    BY EpochKeptStep DEF EpochKept
  <1> QED
    BY <1>1, <1>2, <1>3, <1>4, <1>5 DEF AuthInv

\* Every step of the routes keeps the cookies in agreement with the store.
LEMMA AuthStep ==
    ASSUME IInv, IInv', AuthInv, [AuthNext]_allVars
    PROVE  AuthInv'
  <1>1. CASE UNCHANGED <<vars, tokenEpoch, cookies>>
    BY <1>1 DEF vars, process, disk, history, AuthInv, CookieTypes, Spent, OneExpiry,
                EpochFixed, EpochKept
  <1>2. ASSUME NEW c \in Caller, NEW s \in Sid, PostSession(c, s)
        PROVE  AuthInv'
    <2>1. c \in Slot /\ Usable /\ epoch = GetEpoch /\ epoch \in Nat
      BY <1>2 DEF PostSession, GetEpoch, Slot, IInv, TypeOK
    <2>2. file.st = "doc" /\ file.epoch = epoch
      BY <2>1 DEF IInv, Persistence
    <2>3. /\ s \notin issued /\ issued' = issued \cup {s} /\ granted' = granted
          /\ leaving' = leaving /\ now' = now /\ file' = file /\ cookies' = cookies
          /\ tokenEpoch' = [tokenEpoch EXCEPT ![c] = epoch]
      BY <1>2, <2>1 DEF PostSession, CallAdd, Request, disk
    <2>4. /\ \A d \in Slot : d # c => call'[d] = call[d]
          /\ call'[c].sid = s
      BY <1>2, <2>1 DEF PostSession, CallAdd, Request, IInv, TypeOK
    <2>5. \A g \in granted : g.sid # s
      BY <2>3 DEF IInv, FreshSids, TypeOK
    <2>6. CookieTypes'
      BY <2>1, <2>3 DEF AuthInv, CookieTypes
    <2>7. Spent'
      BY <2>3, <2>4 DEF AuthInv, Spent
    <2>8. OneExpiry'
      BY <2>3, <2>4, <2>5 DEF AuthInv, OneExpiry
    <2>9. EpochFixed'
      BY <2>2, <2>3, <2>4 DEF AuthInv, CookieTypes, EpochFixed, Slot
    <2>10. EpochKept'
      BY <2>3 DEF AuthInv, EpochKept
    <2> QED
      BY <2>6, <2>7, <2>8, <2>9, <2>10 DEF AuthInv
  <1>3. ASSUME NEW c \in Caller, PostAnswered(c)
        PROVE  AuthInv'
    <2> DEFINE new == [sid |-> call[c].sid, epoch |-> tokenEpoch[c], exp |-> call[c].exp]
    <2>1. /\ c \in Slot /\ call[c].op = "add" /\ call[c] \in CallRecord /\ tokenEpoch[c] \in Nat
      BY <1>3 DEF PostAnswered, Slot, IInv, TypeOK, AuthInv, CookieTypes
    <2>2. call[c].sid \in Sid /\ call[c].exp \in Nat
      BY <2>1 DEF CallRecord
    <2>3. /\ UNCHANGED <<now, file, issued, granted, leaving>>
          /\ tokenEpoch' = [tokenEpoch EXCEPT ![c] = 0]
          /\ cookies' \subseteq cookies \cup {new}
          /\ new \in cookies' => new \in cookies \/ call[c].res = "ok"
      BY <1>3 DEF PostAnswered, Return, disk, history
    <2>4. /\ \A d \in Slot : d # c => call'[d] = call[d]
          /\ call'[c].op = "none"
      BY <1>3, <2>1 DEF PostAnswered, Return, IInv, TypeOK, NoCall
    <2>5. /\ new.sid = call[c].sid /\ new.epoch = tokenEpoch[c] /\ new.exp = call[c].exp
          /\ new \in [sid : Sid, epoch : Nat, exp : Nat]
      BY <2>1, <2>2
    <2> HIDE DEF new
    <2>6. CookieTypes'
      BY <2>3, <2>5 DEF AuthInv, CookieTypes
    <2>7. Spent'
      BY <2>1, <2>3, <2>4, <2>5 DEF AuthInv, Spent, IInv, FreshSids
    <2>8. OneExpiry'
      BY <2>1, <2>3, <2>4, <2>5 DEF AuthInv, OneExpiry
    <2>9. EpochFixed'
      BY <2>3, <2>4 DEF AuthInv, CookieTypes, EpochFixed, Slot
    <2>10. EpochKept'
      BY <2>1, <2>3, <2>5 DEF AuthInv, EpochFixed, EpochKept
    <2> QED
      BY <2>6, <2>7, <2>8, <2>9, <2>10 DEF AuthInv
  <1>4. ASSUME NEW c \in Caller, NEW k \in cookies, DeleteSession(c, k)
        PROVE  AuthInv'
    <2>1. IInv /\ UNCHANGED <<up, issued, cookies, tokenEpoch>> /\ up
      BY <1>4, CallerFrame DEF DeleteSession, CallRemove, Request, authVars, Listening
    <2>2. Next
      BY <1>4 DEF DeleteSession, AuthInv, CookieTypes, Next
    <2> QED
      BY <2>1, <2>2, QuietStep
  <1>5. ASSUME NEW c \in Caller, DeleteAnswered(c)
        PROVE  AuthInv'
    <2>1. UNCHANGED <<up, issued, cookies, tokenEpoch>> /\ Next
      BY <1>5 DEF DeleteAnswered, Return, Next, history
    <2>2. up
      <3>1. c \in Slot
        BY DEF Slot
      <3> QED
        BY <1>5, <3>1 DEF DeleteAnswered, IInv, SerialWriter, NoCall
    <2> QED
      BY <2>1, <2>2, QuietStep
  <1>6. CASE StoreStep
    <2>1. issued' = issued
      BY <1>6 DEF StoreStep, Writer, StartAdd, StartRemove, LoadDocument, LoadMissing, LoadRefused,
        WriteTemporary, Rename, DirSync, PersistFails, BootProcess, ExitAtBoot, Crash, PowerLoss,
        LoseStorage, Tick, history
    <2> QED
      BY <1>6, <2>1, QuietStep DEF StoreStep, Next
  <1> QED
    BY <1>1, <1>2, <1>3, <1>4, <1>5, <1>6 DEF AuthNext, allVars, authVars, DeleteUnverified

\* What a client may rely on follows.
LEMMA AuthInvGives == IInv /\ AuthInv => CookieSurvives
  <1> SUFFICES ASSUME IInv, AuthInv, NEW k \in cookies
               PROVE  /\ /\ k.exp > now /\ k.sid \notin leaving
                         /\ Usable /\ \E g \in granted : g.sid = k.sid
                         => Verifies(k)
                      /\ Verifies(k) =>
                            /\ file.st = "doc"
                            /\ file.epoch = k.epoch /\ file.sessions[k.sid] = k.exp
    BY DEF CookieSurvives
  <1>0. k.sid \in Sid /\ k.exp \in Nat /\ k.epoch \in Nat /\ now \in Nat
    BY DEF AuthInv, CookieTypes, IInv, TypeOK
  <1>1. ASSUME k.exp > now, k.sid \notin leaving, Usable, NEW g \in granted, g.sid = k.sid
        PROVE  Verifies(k)
    <2>1. g.exp = k.exp
      BY <1>1 DEF AuthInv, OneExpiry
    <2>2. Has(k.sid, k.exp)
      BY <1>1, <2>1 DEF IInv, GrantedVerifies
    <2>3. GetEpoch = k.epoch
      BY <1>1 DEF GetEpoch, IInv, Persistence, AuthInv, EpochKept
    <2> QED
      BY <1>1, <2>2, <2>3 DEF Verifies
  <1>2. ASSUME Verifies(k)
        PROVE  file.st = "doc" /\ file.epoch = k.epoch /\ file.sessions[k.sid] = k.exp
    <2>1. Usable /\ epoch = k.epoch /\ sessions[k.sid] = k.exp /\ k.exp > now
      BY <1>2 DEF Verifies, GetEpoch, Has
    <2>2. file.st = "doc" /\ file.epoch = epoch
      BY <2>1 DEF IInv, Persistence
    <2>3. Live(sessions, k.sid) /\ k.exp # 0
      BY <1>0, <2>1 DEF Live
    <2>4. CASE pc = "idle"
      BY <1>0, <2>1, <2>3, <2>4 DEF IInv, MemoryMatchesDisk
    <2>5. CASE pc = "dirsync"
      BY <2>1, <2>5 DEF IInv, Persistence, Snapshot
    <2>6. CASE pc # "idle" /\ pc # "dirsync"
      <3>1. queue # <<>> /\ Head1 \in Slot
        BY <2>6, RunningCall DEF IInv, SerialWriter
      <3>2. call[Head1].op \in {"add", "remove"}
        BY <2>1, <2>6 DEF IInv, Persistence
      <3>3. k.sid # call[Head1].sid
        BY <2>1, <2>3, <2>6, <3>1, <3>2 DEF IInv, Persistence, AuthInv, Spent
      <3>4. ~Differ(sessions, file.sessions, k.sid)
        BY <1>0, <2>6, <3>2, <3>3 DEF IInv, Persistence
      <3> QED
        BY <2>1, <2>2, <2>3, <3>4 DEF Differ
    <2> QED
      BY <2>1, <2>2, <2>4, <2>5, <2>6
  <1> QED
    BY <1>1, <1>2

\* The invariant of the store and that of the cookies hold together.
LEMMA AuthInvariance == AuthSpec => [](IInv /\ AuthInv)
  <1>1. AuthInit => IInv /\ AuthInv
    BY AuthInitSafe, InitSafe DEF AuthInit
  <1>2. IInv /\ AuthInv /\ [AuthNext]_allVars => IInv' /\ AuthInv'
    <2> SUFFICES ASSUME IInv, AuthInv, [AuthNext]_allVars PROVE IInv' /\ AuthInv'
      OBVIOUS
    <2>1. [Next]_vars
      BY AuthIsStore DEF AuthInv
    <2>2. IInv'
      BY <2>1, IInvStep
    <2> QED
      BY <2>2, AuthStep
  <1> QED
    BY <1>1, <1>2, PTL DEF AuthSpec

\* session.ts and sessionRoutes.ts use the store only through its operations:
\* whatever the clients do, the store behaves as its own specification says,
\* so that every theorem above holds of the routes too.
THEOREM RoutesUseTheStore == AuthSpec => Spec
  <1>1. AuthInit => Init
    BY DEF AuthInit
  <1>2. AuthInv /\ [AuthNext]_allVars => [Next]_vars
    BY AuthIsStore DEF AuthInv
  <1> QED
    BY <1>1, <1>2, AuthInvariance, PTL DEF AuthSpec, Spec

\* A cookie that was set keeps working until it expires, its owner logs out or
\* the storage is lost, and a cookie that verifies is on disk (the contract of
\* verifySessionToken and of POST /api/session in sessionRoutes.ts).
THEOREM CookiesSurvive == AuthSpec => []CookieSurvives
  <1>1. IInv /\ AuthInv => CookieSurvives
    BY AuthInvGives
  <1> QED
    BY <1>1, AuthInvariance, PTL
=============================================================================
