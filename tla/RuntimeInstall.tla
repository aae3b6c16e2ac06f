----------------------------- MODULE RuntimeInstall -----------------------------
(***************************************************************************)
(* The installer of the pinned yt-dlp executable                           *)
(* (scripts/bootstrap-runtime.mjs), as npm's prestart and the starting     *)
(* server run it (scripts/ensure-runtime.mjs, ensureRuntimeAtBoot() in     *)
(* src/index.ts).  Several installer processes may run at once, each may   *)
(* die at any point, and all they share is the disk: the binary, its       *)
(* receipt and the lock directory.                                         *)
(*                                                                         *)
(* A file is known by the version it answers and by whether its bytes are  *)
(* the official ones of that version; a SHA-256 identifies the file.       *)
(***************************************************************************)
EXTENDS Naturals, FiniteSets

CONSTANTS
    Process,       \* installer processes
    Version,       \* yt-dlp release tags
    Nobody,        \* no process
    MaxUpgrades,   \* bound: changes of the pinned version
    MaxDamage      \* bound: crashes, drifted files and lost networks

ASSUME InstallAssumption ==
    /\ Nobody \notin Process /\ Nobody \notin Version
    /\ MaxUpgrades \in Nat /\ MaxDamage \in Nat

VARIABLES
    pinned,    \* the effective requested version of the next start
    bin,       \* .runtime/bin/yt-dlp
    receipt,   \* .yt-dlp.verified.json: the version and the file it hashes
    lock,      \* the lock directory, as [owner, stale]
    proc,      \* [process -> its installer]
    upgrades, damage

installVars == <<pinned, bin, receipt, lock, proc, upgrades, damage>>

File == [version : Version, official : BOOLEAN]
Official(v) == [version |-> v, official |-> TRUE]
NoFile == [version |-> Nobody, official |-> FALSE]
NoReceipt == [version |-> Nobody, of |-> NoFile]
NoLock == [owner |-> Nobody, stale |-> FALSE]
Idle == [pc |-> "idle", want |-> Nobody, force |-> FALSE, file |-> NoFile]

Place == {"idle", "lock", "remove", "probe", "receipt", "manifest", "download", "verify", "rename",
          "write", "ok", "undo", "installed", "explicit", "failed"}

At(p, where) == proc[p].pc = where
Go(p, where) == proc' = [proc EXCEPT ![p].pc = where]
GoWith(p, where, f) ==
    proc' = [proc EXCEPT ![p] = [pc |-> where, want |-> @.want, force |-> @.force, file |-> f]]

-----------------------------------------------------------------------------
\* ensureRuntime(): an operator's own executable is only asked its version;
\* otherwise the managed one is installed.
Ensure(p) ==
    /\ At(p, "idle")
    /\ \E force \in BOOLEAN :
          proc' = [proc EXCEPT ![p] = [pc |-> "lock", want |-> pinned, force |-> force,
                                       file |-> NoFile]]
    /\ UNCHANGED <<pinned, bin, receipt, lock, upgrades, damage>>

\* verifyExplicitPath(): absolute, present and answering exactly the version.
EnsureExplicit(p) ==
    /\ At(p, "idle")
    /\ \E f \in File \cup {NoFile} :
          proc' = [proc EXCEPT ![p] = [pc |-> IF f.version = pinned THEN "explicit" ELSE "failed",
                                       want |-> pinned, force |-> FALSE, file |-> f]]
    /\ UNCHANGED <<pinned, bin, receipt, lock, upgrades, damage>>

-----------------------------------------------------------------------------
\* acquireInstallLock(): mkdir() succeeds for one; the others look at the
\* age of the directory and either remove it or wait, for a minute.
Acquire(p) ==
    /\ At(p, "lock") /\ lock = NoLock
    /\ lock' = [owner |-> p, stale |-> FALSE]
    /\ Go(p, "probe")
    /\ UNCHANGED <<pinned, bin, receipt, upgrades, damage>>

SeeStale(p) ==
    /\ At(p, "lock") /\ lock # NoLock /\ lock.stale
    /\ Go(p, "remove")
    /\ UNCHANGED <<pinned, bin, receipt, lock, upgrades, damage>>

\* rmSync() removes what is there by now.
RemoveStale(p) ==
    /\ At(p, "remove")
    /\ lock' = NoLock
    /\ Go(p, "lock")
    /\ UNCHANGED <<pinned, bin, receipt, upgrades, damage>>

GiveUp(p) ==
    /\ At(p, "lock") /\ lock # NoLock /\ ~lock.stale
    /\ Go(p, "failed")
    /\ UNCHANGED <<pinned, bin, receipt, lock, upgrades, damage>>

-----------------------------------------------------------------------------
\* The version of the installed binary decides.
Probe(p) ==
    /\ At(p, "probe")
    /\ Go(p, IF ~proc[p].force /\ bin.version = proc[p].want THEN "receipt" ELSE "download")
    /\ UNCHANGED <<pinned, bin, receipt, lock, upgrades, damage>>

CheckReceiptVersion(p) ==
    /\ At(p, "receipt")
    /\ GoWith(p, IF receipt.version = proc[p].want THEN "ok" ELSE "manifest", bin)
    /\ UNCHANGED <<pinned, bin, receipt, lock, upgrades, damage>>

\* readReceipt() and the hash of the bytes that are there.
CheckReceipt(p) ==
    /\ At(p, "receipt")
    /\ GoWith(p, IF receipt.version = proc[p].want /\ receipt.of = bin THEN "ok" ELSE "manifest", bin)
    /\ UNCHANGED <<pinned, bin, receipt, lock, upgrades, damage>>

\* The existing bytes against the official manifest.
Reverify(p) ==
    /\ At(p, "manifest")
    /\ IF proc[p].file = Official(proc[p].want)
       THEN /\ receipt' = [version |-> proc[p].want, of |-> proc[p].file]
            /\ Go(p, "ok")
       ELSE Go(p, "download") /\ UNCHANGED receipt
    /\ UNCHANGED <<pinned, bin, lock, upgrades, damage>>

\* fetchBytes() into a temporary file: a good answer is a file of the
\* release, or whatever else the network delivered.
Download(p) ==
    /\ At(p, "download")
    /\ \E f \in File : GoWith(p, "verify", f)
    /\ UNCHANGED <<pinned, bin, receipt, lock, upgrades, damage>>

VerifyVersion(p) ==
    /\ At(p, "verify")
    /\ Go(p, IF proc[p].file.version = proc[p].want THEN "rename" ELSE "undo")
    /\ UNCHANGED <<pinned, bin, receipt, lock, upgrades, damage>>

\* The checksum first, then the version the temporary file answers.
Verify(p) ==
    /\ At(p, "verify")
    /\ Go(p, IF proc[p].file = Official(proc[p].want) THEN "rename" ELSE "undo")
    /\ UNCHANGED <<pinned, bin, receipt, lock, upgrades, damage>>

Rename(p) ==
    /\ At(p, "rename")
    /\ bin' = proc[p].file
    /\ Go(p, "write")
    /\ UNCHANGED <<pinned, receipt, lock, upgrades, damage>>

WriteReceipt(p) ==
    /\ At(p, "write")
    /\ receipt' = [version |-> proc[p].want, of |-> proc[p].file]
    /\ Go(p, "ok")
    /\ UNCHANGED <<pinned, bin, lock, upgrades, damage>>

\* Manifest or release out of reach: nothing is trusted.
NetworkFails(p) ==
    /\ \E where \in {"manifest", "download", "verify"} : At(p, where)
    /\ damage < MaxDamage /\ damage' = damage + 1
    /\ Go(p, "undo")
    /\ UNCHANGED <<pinned, bin, receipt, lock, upgrades>>

\* finally { release() }: removes the directory, whoever's it is.
Release(p) ==
    /\ At(p, "ok") \/ At(p, "undo")
    /\ lock' = NoLock
    /\ Go(p, IF At(p, "ok") THEN "installed" ELSE "failed")
    /\ UNCHANGED <<pinned, bin, receipt, upgrades, damage>>

\* The process exits; a start that was not ok does not go on to serve.
Exit(p) ==
    /\ \E where \in {"installed", "explicit", "failed"} : At(p, where)
    /\ proc' = [proc EXCEPT ![p] = Idle]
    /\ UNCHANGED <<pinned, bin, receipt, lock, upgrades, damage>>

-----------------------------------------------------------------------------
\* The process is killed, at the server's four-minute limit or by anything
\* else; a receipt being written may be cut short.
Killed(p) ==
    /\ ~At(p, "idle")
    /\ damage < MaxDamage /\ damage' = damage + 1
    /\ proc' = [proc EXCEPT ![p] = Idle]
    /\ receipt' \in {receipt} \cup IF At(p, "write") \/ At(p, "manifest") THEN {NoReceipt} ELSE {}
    /\ UNCHANGED <<pinned, bin, lock, upgrades>>

\* Ten minutes pass only for a lock whose owner is gone: the waits of one
\* install add up to less.
Holding(p) == proc[p].pc \in {"probe", "receipt", "manifest", "download", "verify", "rename",
                              "write", "ok", "undo"}
LockAges ==
    /\ lock # NoLock /\ ~lock.stale /\ ~Holding(lock.owner)
    /\ lock' = [lock EXCEPT !.stale = TRUE]
    /\ UNCHANGED <<pinned, bin, receipt, proc, upgrades, damage>>

\* The bytes on disk drift, or someone puts another file there.
Drift ==
    /\ damage < MaxDamage /\ damage' = damage + 1
    /\ bin' \in {[version |-> v, official |-> FALSE] : v \in Version}
    /\ UNCHANGED <<pinned, receipt, lock, proc, upgrades>>

Upgrade ==
    /\ upgrades < MaxUpgrades /\ upgrades' = upgrades + 1
    /\ pinned' \in Version \ {pinned}
    /\ UNCHANGED <<bin, receipt, lock, proc, damage>>

-----------------------------------------------------------------------------
InstallInit ==
    /\ pinned \in Version
    /\ bin = NoFile /\ receipt = NoReceipt /\ lock = NoLock
    /\ proc = [p \in Process |-> Idle]
    /\ upgrades = 0 /\ damage = 0

Step(p) ==
    \/ Acquire(p) \/ SeeStale(p) \/ RemoveStale(p)
    \/ Probe(p) \/ CheckReceipt(p) \/ Reverify(p) \/ Download(p) \/ Verify(p)
    \/ Rename(p) \/ WriteReceipt(p) \/ Release(p) \/ Exit(p)

InstallNext ==
    \/ \E p \in Process : Ensure(p) \/ EnsureExplicit(p) \/ Step(p) \/ GiveUp(p)
                          \/ NetworkFails(p) \/ Killed(p)
    \/ LockAges \/ Drift \/ Upgrade

InstallSpec == InstallInit /\ [][InstallNext]_installVars

-----------------------------------------------------------------------------
InstallTypeOK ==
    /\ pinned \in Version
    /\ bin \in File \cup {NoFile}
    /\ receipt \in [version : Version, of : File] \cup {NoReceipt}
    /\ lock \in [owner : Process, stale : BOOLEAN] \cup {NoLock}
    /\ proc \in [Process -> [pc : Place, want : Version \cup {Nobody}, force : BOOLEAN,
                             file : File \cup {NoFile}]]
    /\ upgrades \in 0..MaxUpgrades /\ damage \in 0..MaxDamage

\* Whatever dies, races or drifts, a receipt on disk stands for official
\* bytes, so an install that ends well - by the receipt, by the manifest or
\* by a download - has seen the official bytes of the version it wanted, and
\* an operator's executable answered exactly that version.
OkIsOfficial ==
    /\ InstallTypeOK
    /\ receipt # NoReceipt => receipt.of = Official(receipt.version)
    /\ \A p \in Process :
          /\ At(p, "ok") \/ At(p, "installed") => proc[p].file = Official(proc[p].want)
          /\ At(p, "explicit") => proc[p].file.version = proc[p].want

\* A binary that is in place stays until official bytes replace it: neither
\* a failed nor a killed installer, nor two at once, leave none or a worse
\* one.  (A file that drifts is outside the installer.)
NeverWorse ==
    [][bin' # bin => damage' # damage \/ \E v \in Version : bin' = Official(v)]_installVars
=============================================================================
