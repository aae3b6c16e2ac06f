------------------------------- MODULE SessionAuth -------------------------------
(***************************************************************************)
(* Login and logout over the session store: the session routes             *)
(* (src/routes/sessionRoutes.ts) and the token functions they call         *)
(* (src/middleware/session.ts).  A request that answers without changing   *)
(* anything (wrong key, rate limited, GET /api/session, a POST while the   *)
(* store has no epoch) is a stuttering step.                               *)
(*                                                                         *)
(* A signature cannot be forged, so the cookies that exist are those the   *)
(* server has issued; a client may have copied any of them.                *)
(***************************************************************************)
EXTENDS SessionStore

VARIABLES
    tokenEpoch,   \* the epoch a login in progress has put in its payload
    cookies,      \* cookies handed out, as [sid, epoch, exp]
    loggedOut     \* cookies for which a DELETE was answered 200

authVars == <<tokenEpoch, cookies, loggedOut>>
allVars  == <<vars, authVars>>

-----------------------------------------------------------------------------
\* verifySessionToken: local, synchronous, no I/O.
Verifies(k) == k.exp > now /\ GetEpoch = k.epoch /\ Has(k.sid, k.exp)

\* POST /api/session with the right key: issueSessionToken reads the epoch,
\* fixes the payload and calls add().
PostSession(c, s) ==
    /\ GetEpoch # 0
    /\ CallAdd(c, s)
    /\ tokenEpoch' = [tokenEpoch EXCEPT ![c] = GetEpoch]
    /\ UNCHANGED <<cookies, loggedOut>>

\* The cookie is signed and set once add() has resolved; a full or failed
\* store answers 503 and sets none.
PostAnswered(c) ==
    /\ call[c].op = "add"
    /\ Return(c)
    /\ tokenEpoch' = [tokenEpoch EXCEPT ![c] = 0]
    /\ cookies' = IF call[c].res # "ok" THEN cookies
                  ELSE cookies \cup {[sid |-> call[c].sid, epoch |-> tokenEpoch[c],
                                      exp |-> call[c].exp]}
    /\ UNCHANGED loggedOut

\* DELETE /api/session with a cookie that verifies calls remove().
DeleteSession(c, k) ==
    /\ Verifies(k)
    /\ CallRemove(c, k.sid)
    /\ UNCHANGED authVars

DeleteAnswered(c) ==
    /\ call[c].op = "remove"
    /\ Return(c)
    /\ loggedOut' = IF call[c].res # "ok" THEN loggedOut
                    ELSE loggedOut \cup {k \in cookies : k.sid = call[c].sid}
    /\ UNCHANGED <<tokenEpoch, cookies>>

\* revokeSessionToken returns at once for a cookie that does not verify, and
\* the route answers 200.
DeleteUnverified(c, k) ==
    /\ Listening
    /\ call[c] = NoCall
    /\ ~Verifies(k)
    /\ loggedOut' = loggedOut \cup {k}
    /\ UNCHANGED <<vars, tokenEpoch, cookies>>

-----------------------------------------------------------------------------
\* The store's own steps; a process that dies takes its requests with it.
StoreStep ==
    /\ Writer \/ BootProcess \/ ExitAtBoot \/ Crash \/ PowerLoss \/ LoseStorage \/ Tick
    /\ tokenEpoch' = IF up' THEN tokenEpoch ELSE [c \in Caller |-> 0]
    /\ UNCHANGED <<cookies, loggedOut>>

AuthInit ==
    /\ Init
    /\ tokenEpoch = [c \in Caller |-> 0]
    /\ cookies = {} /\ loggedOut = {}

AuthNext ==
    \/ \E c \in Caller :
          \/ \E s \in Sid : PostSession(c, s)
          \/ PostAnswered(c)
          \/ DeleteAnswered(c)
          \/ \E k \in cookies : DeleteSession(c, k) \/ DeleteUnverified(c, k)
    \/ StoreStep

AuthSpec == AuthInit /\ [][AuthNext]_allVars /\ Fairness

-----------------------------------------------------------------------------
(* What a client may rely on, beside the promises of the store.            *)

\* A cookie that was set keeps working: in every process that serves, until
\* it expires, its owner starts a logout or the storage is lost.  And nobody
\* is admitted on the strength of memory alone: a cookie that verifies has its
\* record in the document, under the document's epoch, so a restart admits the
\* same cookies.
CookieSurvives ==
    \A k \in cookies :
        /\ /\ k.exp > now /\ k.sid \notin leaving
           /\ Usable /\ \E g \in granted : g.sid = k.sid
           => Verifies(k)
        /\ Verifies(k) =>
              /\ file.st = "doc"
              /\ file.epoch = k.epoch /\ file.sessions[k.sid] = k.exp

\* sessionRoutes.ts:135-137, on DELETE: a copied cookie stops working at once,
\* even across a server restart that keeps the same session storage.
LogoutIsFinal == \A k \in loggedOut : ~Verifies(k)
=============================================================================
