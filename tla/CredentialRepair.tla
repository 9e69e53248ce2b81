-------------------------- MODULE CredentialRepair --------------------------
(***************************************************************************)
(* One provider account shared by several routers of one computer          *)
(* (src/src/credentials.rs, auth.rs, accounts.rs, downstream.rs).          *)
(*                                                                         *)
(* The login of the account is a file with an access token and a refresh   *)
(* token.  Using the refresh token may rotate it, so exactly one process   *)
(* may do so at a time and nobody may use it twice: repairs run under an   *)
(* operating-system lock, and a shared record says which credential was    *)
(* last repaired and how it ended.  Adapters run from private copies that  *)
(* hold the access token only, in runtime directories that every launch    *)
(* sweeps.  A person may sign in again through a router (under the lock)   *)
(* or with the provider's own program (without it).                        *)
(*                                                                         *)
(* Abstractions: a token is a number; the fingerprint of a credential is   *)
(* the credential itself; an epoch (a fresh UUID) is a fresh number; one   *)
(* job per router stands for its requests, probes and repairs, because two *)
(* repairs of one router meet at the lock exactly as two routers do.       *)
(***************************************************************************)
EXTENDS Naturals, FiniteSets

CONSTANTS
    Routers,      \* router processes that share the account
    None,
    Budgets       \* bounds of a behaviour: [faults, expiries, acts], where
                  \* faults are crashes, lost answers, failed writes and
                  \* revocations, expiries are access tokens that run out or
                  \* are refreshed early, acts are people's: a sign-in or
                  \* a cancelled session

\* The content of the file, what a request remembers of it, who holds the lock,
\* and how a repair ends.
CredentialSet == [access : Nat, refresh : Nat]
MarkerSet == [gen : CredentialSet, epoch : Nat]
Holders == [who : Routers, what : {"repair", "login"}]
Outcomes == {"repaired", "rejected", "unknown"}

ASSUME CredentialAssumption ==
    /\ None \notin Routers /\ None \notin CredentialSet
    /\ None \notin MarkerSet /\ None \notin Holders /\ None \notin Outcomes
    /\ Budgets \subseteq [faults : Nat, expiries : Nat, acts : Nat]

VARIABLES
    store,    \* the credential file: [access, refresh]
    rec,      \* the repair record: [gen, epoch, outcome, recent]
    holder,   \* who holds the repair lock: None or [who, what]
    grants,   \* refresh tokens the provider honours
    good,     \* access tokens the provider honours
    last,     \* the last token it issued
    epochs,   \* the last epoch any router wrote
    job,      \* per router: a request and the repair it asks for
    login,    \* per router: the phases of a sign-in
    adapter,  \* per router: the adapter process and its copy of the login
    dir,      \* per router: its runtime directory: none, open or held
    tracker,  \* per router: it believes that the account is signed out
    pin,      \* per router: a session's pin to the adapter
    left,     \* what remains of the budget
    lost,     \* a rotated refresh token that no file holds (ghost)
    raced     \* a write outside the lock fell into another's window (ghost)

vars == <<store, rec, holder, grants, good, last, epochs, job, login, adapter,
          dir, tracker, pin, left, lost, raced>>

provider == <<grants, good, last>>
local == <<login, adapter, dir, tracker, pin>>
ghosts == <<lost, raced>>

NoRecord == [gen |-> None, epoch |-> 0, outcome |-> None, recent |-> FALSE]
NoJob == [at |-> "idle", token |-> 0, saw |-> None, count |-> 0, cred |-> None,
          value |-> None, outcome |-> None, awaited |-> TRUE]
NoAdapter == [at |-> "down", access |-> 0, copy |-> None, mark |-> None, count |-> 0]
NoLogin == [at |-> "no", ok |-> FALSE, write |-> None]

Repairing == {"waiting", "refreshing", "answered", "writing", "recording"}

Records == [gen : CredentialSet \cup {None}, epoch : Nat,
            outcome : Outcomes \cup {None}, recent : BOOLEAN]
Jobs == [at : Repairing \cup {"idle", "sent", "done"}, token : Nat,
         saw : MarkerSet \cup {None}, count : Nat,
         cred : CredentialSet \cup {None}, value : CredentialSet \cup {None},
         outcome : Outcomes \cup {None}, awaited : BOOLEAN]
Logins == [at : {"no", "retiring", "signing", "published", "ended", "open", "noting"},
           ok : BOOLEAN, write : Records \cup {None}]
Adapters == [at : {"down", "swept", "made", "up"}, access : Nat,
             copy : CredentialSet \cup {None}, mark : MarkerSet \cup {None}, count : Nat]

TypeOK ==
    /\ store \in CredentialSet
    /\ rec \in Records
    /\ holder \in Holders \cup {None}
    /\ grants \subseteq Nat /\ good \subseteq Nat
    /\ last \in Nat /\ epochs \in Nat
    /\ job \in [Routers -> Jobs]
    /\ login \in [Routers -> Logins]
    /\ adapter \in [Routers -> Adapters]
    /\ dir \in [Routers -> {"none", "open", "held"}]
    /\ tracker \in [Routers -> BOOLEAN]
    /\ pin \in [Routers -> {"fresh", "stale", "queued"}]
    /\ left \in [faults : Nat, expiries : Nat, acts : Nat]
    /\ lost \in BOOLEAN /\ raced \in BOOLEAN

(***************************************************************************)
(* The record of a credential.                                             *)
(***************************************************************************)
\* The record, when it is about the credential in the file.
Previous == IF rec.gen = store THEN rec ELSE NoRecord

\* A marker that forgets the epoch.
MarkerPlain(cred, r) == [gen |-> cred, epoch |-> 0]

\* What a request remembers of the credential it was sent with.
Marker(cred, r) == [gen |-> cred, epoch |-> IF r.gen = cred THEN r.epoch ELSE 0]

\* Only a completed repair of the credential in the file makes it unavailable.
Rejected == Previous.outcome = "rejected"

\* What record_success would write, None when it keeps a rejection.
SuccessRecord ==
    IF Rejected THEN None
    ELSE [gen |-> store, epoch |-> Previous.epoch, outcome |-> "repaired", recent |-> FALSE]

InUse(q) == job[q].at \in {"writing", "recording"}
Fault == left.faults > 0
Spend(f) == [left EXCEPT ![f] = @ - 1]

(***************************************************************************)
(* Runtime directories and adapters.                                       *)
(***************************************************************************)
\* Every sweep and every publication of a lock file is made under the
\* allocation lock of the runtimes' parent directory.
AllocationOpen(r) == TRUE

AllocationFree(r) == \A q \in Routers : adapter[q].at \notin {"swept", "made"}

\* Removes the runtimes whose lock can be taken.
Swept == [q \in Routers |-> IF dir[q] = "open" THEN "none" ELSE dir[q]]

\* credentials::runtime: refuses a rejected login, reads it, takes the
\* allocation lock and sweeps.
Launch(r) ==
    /\ adapter[r].at = "down"
    /\ login[r].at = "no"
    /\ ~Rejected
    /\ AllocationFree(r)
    /\ adapter' = [adapter EXCEPT ![r] = [NoAdapter EXCEPT !.at = "swept", !.copy = store]]
    /\ dir' = Swept
    /\ UNCHANGED <<store, rec, holder, provider, epochs, job, login, tracker, pin,
                   left, ghosts>>

\* The directory with its lock file, before the lock is taken.
MakeRuntime(r) ==
    /\ adapter[r].at = "swept"
    /\ adapter' = [adapter EXCEPT ![r].at = "made"]
    /\ dir' = [dir EXCEPT ![r] = "open"]
    /\ UNCHANGED <<store, rec, holder, provider, epochs, job, login, tracker, pin,
                   left, ghosts>>

\* The lock, the marker of the copied credential and the access-only copy;
\* start_downstream gives up when a sign-in began meanwhile, and dropping the
\* runtime removes its directory.
HoldRuntime(r) ==
    /\ adapter[r].at = "made"
    /\ IF login[r].at = "no"
       THEN /\ adapter' = [adapter EXCEPT ![r] =
                  [@ EXCEPT !.at = "up", !.access = adapter[r].copy.access,
                            !.mark = Marker(adapter[r].copy, rec), !.count = epochs]]
            /\ dir' = [dir EXCEPT ![r] = IF @ = "open" THEN "held" ELSE @]
       ELSE /\ adapter' = [adapter EXCEPT ![r] = NoAdapter]
            /\ dir' = [dir EXCEPT ![r] = "none"]
    /\ UNCHANGED <<store, rec, holder, provider, epochs, job, login, tracker, pin,
                   left, ghosts>>

(***************************************************************************)
(* Requests.                                                               *)
(***************************************************************************)
Asks(r, token, saw, count, at) ==
    job' = [job EXCEPT ![r] = [NoJob EXCEPT !.at = at, !.token = token,
                                           !.saw = saw, !.count = count]]

\* A prompt, a probe or a delegate: the adapter uses its launch copy.
RequestAdapter(r) ==
    /\ job[r].at = "idle" /\ login[r].at \in {"no", "open", "noting"}
    /\ adapter[r].at = "up" /\ ~tracker[r]
    /\ Asks(r, adapter[r].access, adapter[r].mark, adapter[r].count, "sent")
    /\ pin' = [pin EXCEPT ![r] = "fresh"]
    /\ UNCHANGED <<store, rec, holder, provider, epochs, login, adapter, dir, tracker,
                   left, ghosts>>

\* A proxied request, a usage reading or a probe reads the file each time; one
\* whose token is in its last minute asks for a repair first.
RequestCurrent(r) ==
    /\ job[r].at = "idle" /\ login[r].at \in {"no", "open", "noting"}
    /\ ~Rejected
    /\ \E early \in BOOLEAN :
         /\ early => left.expiries > 0
         /\ left' = IF early THEN Spend("expiries") ELSE left
         /\ Asks(r, store.access, Marker(store, rec), epochs,
                 IF early THEN "waiting" ELSE "sent")
    /\ UNCHANGED <<store, rec, holder, provider, epochs, local, ghosts>>

\* The provider accepts the token. A probe reports it to the record, unless
\* the lock times out or the marker is no longer the current one.
Served(r) ==
    /\ job[r].at = "sent" /\ job[r].token \in good
    /\ job' = [job EXCEPT ![r] = NoJob]
    /\ rec' = IF holder = None /\ job[r].saw = Marker(store, rec) /\ SuccessRecord # None
              THEN SuccessRecord ELSE rec
    /\ tracker' = [tracker EXCEPT ![r] = Rejected]
    /\ UNCHANGED <<store, holder, provider, epochs, login, adapter, dir, pin, left, ghosts>>

Denied(r) ==
    /\ job[r].at = "sent" /\ job[r].token \notin good
    /\ job' = [job EXCEPT ![r].at = "waiting"]
    /\ UNCHANGED <<store, rec, holder, provider, epochs, local, left, ghosts>>

(***************************************************************************)
(* The repair, under the lock.                                             *)
(***************************************************************************)
Ends(r, outcome) == job' = [job EXCEPT ![r] = [@ EXCEPT !.at = "done", !.outcome = outcome]]

Free(r) == holder = None

\* The waiter re-reads the file and the record, and leaves when somebody has
\* repaired the credential it saw, rejected it, or tried a moment ago.
Answered(r) ==
    IF job[r].saw # Marker(store, rec)
    THEN IF Previous.outcome = None THEN "repaired" ELSE Previous.outcome
    ELSE CASE Previous.outcome = "rejected" -> "rejected"
           [] Previous.outcome = "unknown" /\ Previous.recent -> "unknown"
           [] OTHER -> None

AcquireRepair(r) ==
    /\ job[r].at = "waiting"
    /\ Free(r)
    /\ IF Answered(r) # None
       THEN Ends(r, Answered(r)) /\ UNCHANGED holder
       ELSE /\ job' = [job EXCEPT ![r] = [@ EXCEPT !.at = "refreshing", !.cred = store]]
            /\ holder' = [who |-> r, what |-> "repair"]
    /\ UNCHANGED <<store, rec, provider, epochs, local, left, ghosts>>

\* After 25 seconds a waiter leaves without an answer.
AcquireTimesOut(r) ==
    /\ job[r].at = "waiting" /\ ~Free(r)
    /\ Ends(r, "unknown")
    /\ UNCHANGED <<store, rec, holder, provider, epochs, local, left, ghosts>>

\* The provider answers: new tokens, of which the refresh token may be the old
\* one, or a definitive refusal. The answer may be lost on its way, or come
\* after the 20 seconds the repair waits.
Refresh(r) ==
    /\ job[r].at = "refreshing"
    /\ \E rotates \in BOOLEAN, arrives \in BOOLEAN :
         LET live == job[r].cred.refresh \in grants
             new == [access |-> last + 1,
                     refresh |-> IF rotates THEN last + 1 ELSE job[r].cred.refresh]
         IN /\ ~arrives => Fault
            /\ ~live => ~rotates
            /\ left' = IF arrives THEN left ELSE Spend("faults")
            /\ last' = IF live THEN last + 1 ELSE last
            /\ grants' = IF live THEN (grants \ {job[r].cred.refresh}) \cup {new.refresh}
                         ELSE grants
            /\ good' = IF live THEN good \cup {new.access} ELSE good
            /\ job' = [job EXCEPT ![r] = [@ EXCEPT
                  !.at = "answered",
                  !.value = IF live /\ arrives THEN new ELSE None,
                  !.outcome = CASE ~arrives -> "unknown"
                                [] live -> "repaired"
                                [] OTHER -> "rejected"]]
            /\ lost' = (lost \/ (live /\ rotates /\ ~arrives))
    /\ UNCHANGED <<store, rec, holder, epochs, local, raced>>

Release(r) == holder' = None

\* The answer is applied to whatever the file holds by now.
CompareSkips(r) ==
    /\ job[r].at = "answered"
    /\ job' = [job EXCEPT ![r].at = "writing"]
    /\ UNCHANGED <<store, rec, holder, provider, epochs, local, left, ghosts>>

\* A newer write of the file wins over the answer.
Compare(r) ==
    /\ job[r].at = "answered"
    /\ IF store # job[r].cred
       THEN /\ Ends(r, "repaired") /\ Release(r)
            /\ lost' = (lost \/ (job[r].value # None
                                 /\ job[r].value.refresh # job[r].cred.refresh
                                 /\ store.refresh \notin grants))
       ELSE /\ job' = [job EXCEPT ![r].at = "writing"]
            /\ UNCHANGED <<holder, lost>>
    /\ UNCHANGED <<store, rec, provider, epochs, local, left, raced>>

Write(r) ==
    /\ job[r].at = "writing"
    /\ \/ /\ store' = IF job[r].value = None THEN store ELSE job[r].value
          /\ job' = [job EXCEPT ![r].at = "recording"]
          /\ UNCHANGED <<holder, left, lost>>
       \/ /\ Fault /\ job[r].value # None
          /\ left' = Spend("faults")
          /\ Ends(r, "unknown") /\ Release(r)
          /\ lost' = (lost \/ job[r].value.refresh # job[r].cred.refresh)
          /\ UNCHANGED store
    /\ UNCHANGED <<rec, provider, epochs, local, raced>>

\* The record is about the file as it is read once more.
Record(r) ==
    /\ job[r].at = "recording"
    /\ rec' = [gen |-> store, epoch |-> epochs + 1, outcome |-> job[r].outcome, recent |-> TRUE]
    /\ epochs' = epochs + 1
    /\ Ends(r, job[r].outcome) /\ Release(r)
    /\ UNCHANGED <<store, provider, local, left, ghosts>>

\* The requester syncs what it believes with the record; after a repair the
\* adapter restarts unless its copy is the current one.
Finish(r) ==
    /\ job[r].at = "done"
    /\ job' = [job EXCEPT ![r] = NoJob]
    /\ tracker' = [tracker EXCEPT ![r] = Rejected]
    /\ LET restarts == /\ job[r].awaited /\ job[r].outcome = "repaired"
                       /\ adapter[r].at = "up"
                       /\ adapter[r].mark # Marker(store, rec)
       IN /\ adapter' = [adapter EXCEPT ![r] = IF restarts THEN NoAdapter ELSE @]
          /\ dir' = [dir EXCEPT ![r] = IF restarts THEN "none" ELSE @]
    /\ UNCHANGED <<store, rec, holder, provider, epochs, login, pin, left, ghosts>>

\* Cancelling the session ends the wait and with it the repair.
CancelEnds(r) ==
    /\ job[r].at \in Repairing /\ job[r].awaited
    /\ left.acts > 0
    /\ left' = Spend("acts")
    /\ job' = [job EXCEPT ![r] = NoJob]
    /\ holder' = IF holder = [who |-> r, what |-> "repair"] THEN None ELSE holder
    /\ UNCHANGED <<store, rec, provider, epochs, local, ghosts>>

\* Cancelling the session ends the wait; the repair is a task of its own.
Cancel(r) ==
    /\ job[r].at \in Repairing /\ job[r].awaited
    /\ left.acts > 0
    /\ left' = Spend("acts")
    /\ job' = [job EXCEPT ![r].awaited = FALSE]
    /\ UNCHANGED <<store, rec, holder, provider, epochs, local, ghosts>>

(***************************************************************************)
(* Signing in again.                                                       *)
(***************************************************************************)
\* /login: one sign-in per account and router; its adapters are retired.
LoginStart(r) ==
    /\ login[r].at = "no" /\ left.acts > 0
    /\ left' = Spend("acts")
    /\ login' = [login EXCEPT ![r] = [NoLogin EXCEPT !.at = "retiring"]]
    /\ adapter' = [adapter EXCEPT ![r] = IF @.at = "up" THEN NoAdapter ELSE @]
    /\ dir' = [dir EXCEPT ![r] = IF adapter[r].at = "up" THEN "none" ELSE @]
    /\ pin' = [pin EXCEPT ![r] = IF adapter[r].at = "up" THEN "stale" ELSE @]
    /\ UNCHANGED <<store, rec, holder, provider, epochs, job, tracker, ghosts>>

\* The sign-in runs under the repair lock, in a private runtime.
LoginLock(r) ==
    /\ login[r].at = "retiring" /\ Free(r)
    /\ holder' = [who |-> r, what |-> "login"]
    /\ login' = [login EXCEPT ![r].at = "signing"]
    /\ UNCHANGED <<store, rec, provider, epochs, job, adapter, dir, tracker, pin, left, ghosts>>

\* The provider's program succeeds and its login replaces the file.
LoginPublish(r) ==
    /\ login[r].at = "signing"
    /\ last' = last + 1
    /\ store' = [access |-> last + 1, refresh |-> last + 1]
    /\ grants' = grants \cup {last + 1} /\ good' = good \cup {last + 1}
    /\ login' = [login EXCEPT ![r].at = "published"]
    /\ UNCHANGED <<rec, holder, epochs, job, adapter, dir, tracker, pin, left, ghosts>>

\* login_succeeded, and the end of run_login drops the lock.
LoginRecord(r) ==
    /\ login[r].at = "published"
    /\ rec' = [gen |-> store, epoch |-> epochs + 1, outcome |-> "repaired", recent |-> FALSE]
    /\ epochs' = epochs + 1
    /\ Release(r)
    /\ login' = [login EXCEPT ![r] = [@ EXCEPT !.at = "ended", !.ok = TRUE]]
    /\ UNCHANGED <<store, provider, job, adapter, dir, tracker, pin, left, ghosts>>

\* The adapter did not stop, the lock timed out, or the sign-in failed, was
\* cancelled or took ten minutes.
LoginFails(r) ==
    /\ login[r].at \in {"retiring", "signing"}
    /\ holder' = IF login[r].at = "signing" THEN None ELSE holder
    /\ login' = [login EXCEPT ![r].at = "ended"]
    /\ UNCHANGED <<store, rec, provider, epochs, job, adapter, dir, tracker, pin, left, ghosts>>

\* The account opens before its sessions learn of the handoff.
OpensFirst(r) == pin' = pin

\* Handoffs are queued before the account is available again.
QueueHandoffs(r) == pin' = [pin EXCEPT ![r] = IF @ = "stale" THEN "queued" ELSE @]

LoginOpen(r) ==
    /\ login[r].at = "ended"
    /\ QueueHandoffs(r)
    /\ login' = [login EXCEPT ![r].at = IF login[r].ok THEN "open" ELSE "no"]
    /\ UNCHANGED <<store, rec, holder, provider, epochs, job, adapter, dir, tracker, left, ghosts>>

\* record_success of start_login runs after the lock is gone: what it read ...
LoginNotes(r) ==
    /\ login[r].at = "open"
    /\ login' = [login EXCEPT ![r] = [@ EXCEPT !.at = "noting", !.write = SuccessRecord]]
    /\ UNCHANGED <<store, rec, holder, provider, epochs, job, adapter, dir, tracker, pin, left,
                   ghosts>>

\* ... is what it writes.
LoginNoted(r) ==
    /\ login[r].at = "noting"
    /\ rec' = IF login[r].write = None THEN rec ELSE login[r].write
    /\ raced' = (raced \/ (login[r].write # None /\ login[r].write # SuccessRecord))
    /\ login' = [login EXCEPT ![r] = NoLogin]
    /\ tracker' = [tracker EXCEPT ![r] = FALSE]
    /\ UNCHANGED <<store, holder, provider, epochs, job, adapter, dir, pin, left, lost>>

\* The provider's own program signs in and writes the file without the lock.
NativeLogin ==
    /\ left.acts > 0
    /\ left' = Spend("acts")
    /\ last' = last + 1
    /\ store' = [access |-> last + 1, refresh |-> last + 1]
    /\ grants' = grants \cup {last + 1} /\ good' = good \cup {last + 1}
    /\ raced' = (raced \/ \E q \in Routers : InUse(q))
    /\ UNCHANGED <<rec, holder, epochs, job, local, lost>>

(***************************************************************************)
(* The provider, time and crashes.                                         *)
(***************************************************************************)
Expire ==
    /\ left.expiries > 0 /\ good # {}
    /\ left' = Spend("expiries")
    /\ good' = {}
    /\ UNCHANGED <<store, rec, holder, grants, last, epochs, job, local, ghosts>>

\* The provider ends every grant of the account.
Revoke ==
    /\ Fault /\ grants # {}
    /\ left' = Spend("faults")
    /\ grants' = {} /\ good' = {}
    /\ UNCHANGED <<store, rec, holder, last, epochs, job, local, ghosts>>

\* RETRY_DELAY passes.
Cool ==
    /\ rec.recent
    /\ rec' = [rec EXCEPT !.recent = FALSE]
    /\ UNCHANGED <<store, holder, provider, epochs, job, local, left, ghosts>>

\* The belief that an account is signed out ages, or a selection probes again.
Reconsider(r) ==
    /\ tracker[r] # Rejected
    /\ tracker' = [tracker EXCEPT ![r] = Rejected]
    /\ UNCHANGED <<store, rec, holder, provider, epochs, job, login, adapter, dir, pin, left,
                   ghosts>>

\* A lock that outlives its process.
HolderStays(r) == holder

\* The operating system releases the lock of a dead router.
HolderAfter(r) == IF holder # None /\ holder.who = r THEN None ELSE holder

\* A router dies; its runtime directory stays, with no lock on it.
Crash(r) ==
    /\ Fault
    /\ left' = Spend("faults")
    /\ holder' = HolderAfter(r)
    /\ lost' = (lost \/ (/\ job[r].at \in {"answered", "writing"} /\ job[r].value # None
                         /\ job[r].value.refresh # job[r].cred.refresh))
    /\ job' = [job EXCEPT ![r] = NoJob]
    /\ login' = [login EXCEPT ![r] = NoLogin]
    /\ adapter' = [adapter EXCEPT ![r] = NoAdapter]
    /\ dir' = [dir EXCEPT ![r] = IF @ = "held" THEN "open" ELSE @]
    /\ tracker' = [tracker EXCEPT ![r] = FALSE]
    /\ pin' = [pin EXCEPT ![r] = "fresh"]
    /\ UNCHANGED <<store, rec, provider, epochs, raced>>

-----------------------------------------------------------------------------
Init ==
    /\ store = [access |-> 1, refresh |-> 1]
    /\ rec = NoRecord
    /\ holder = None
    /\ grants = {1} /\ good = {1} /\ last = 1 /\ epochs = 0
    /\ job = [r \in Routers |-> NoJob]
    /\ login = [r \in Routers |-> NoLogin]
    /\ adapter = [r \in Routers |-> [at |-> "up", access |-> 1, copy |-> store,
                                     mark |-> Marker(store, rec), count |-> 0]]
    /\ dir = [r \in Routers |-> "held"]
    /\ tracker = [r \in Routers |-> FALSE]
    /\ pin = [r \in Routers |-> "fresh"]
    /\ left \in Budgets
    /\ lost = FALSE /\ raced = FALSE

RepairStep(r) == AcquireRepair(r) \/ Refresh(r) \/ Compare(r) \/ Write(r) \/ Record(r) \/ Finish(r)
LaunchStep(r) == Launch(r) \/ MakeRuntime(r) \/ HoldRuntime(r)
LoginStep(r) == LoginRecord(r) \/ LoginOpen(r) \/ LoginNotes(r) \/ LoginNoted(r)

Next ==
    \/ \E r \in Routers :
         \/ LaunchStep(r) \/ RepairStep(r) \/ LoginStep(r)
         \/ RequestAdapter(r) \/ RequestCurrent(r) \/ Served(r) \/ Denied(r)
         \/ AcquireTimesOut(r) \/ Cancel(r)
         \/ LoginStart(r) \/ LoginLock(r) \/ LoginPublish(r) \/ LoginFails(r)
         \/ Reconsider(r) \/ Crash(r)
    \/ NativeLogin \/ Expire \/ Revoke \/ Cool

Spec == Init /\ [][Next]_vars

\* Timers fire and tasks run on; the provider answers; a waiter gets the lock
\* some time; the sign-in ends by its deadline; requests that read the file go
\* on (every selection and every usage reading sends one); people, faults and
\* the adapters' own requests owe nothing.
Fairness ==
    /\ WF_vars(Cool)
    /\ \A r \in Routers :
         /\ SF_vars(RepairStep(r)) /\ SF_vars(RequestCurrent(r))
         /\ WF_vars(Served(r) \/ Denied(r) \/ LoginStep(r) \/ LoginFails(r))

LiveSpec == Spec /\ Fairness

(***************************************************************************)
(* Properties.                                                             *)
(***************************************************************************)
Revoked == grants = {}

\* A rotated refresh token reaches the file: whatever interleaving of repairs,
\* sign-ins, cancelled sessions and crashes, when nobody holds the lock the
\* file's refresh token is one the provider honours, unless the answer or the
\* process died between the provider's rotation and the write.
RefreshKept ==
    holder = None /\ ~lost /\ ~raced => store.refresh \in grants \/ Revoked

\* The record condemns only a dead login: while the record rejects the
\* credential in the file, the provider does not honour its refresh token.
RejectedIsDead ==
    Rejected /\ ~raced => store.refresh \notin grants

\* A running adapter has its runtime directory: no launch of a sibling sweeps
\* a runtime that a live router published and was about to lock.
RuntimeKept ==
    \A r \in Routers : adapter[r].at = "up" => dir[r] = "held"

\* One denial costs one refresh: a router calls the provider only for a
\* credential nobody has tried to repair since that router read it.
OneRefreshPerDenial ==
    [][\A r \in Routers :
         job[r].at = "refreshing" /\ job'[r].at = "answered" /\ ~raced
            => epochs = job[r].count]_vars

\* No prompt reaches a replaced adapter before its session knows of the
\* handoff: a pin that a sign-in left stale is queued for a handoff first.
HandoffBeforePrompt ==
    [][\A r \in Routers : job[r].at = "idle" /\ job'[r].at = "sent"
                          /\ pin'[r] # pin[r] => pin[r] # "stale"]_vars

\* An account whose refresh token is honoured comes back: the file gets an
\* access token the provider honours, unless that refresh token dies first.
AccountRecovers ==
    [](store.refresh \in grants ~> (store.access \in good \/ store.refresh \notin grants))

\* A newer login wins: once a sign-in wrote the file, no repair that began
\* before it puts another credential there, or a rejection of it on record.
NewerLoginWins ==
    [][\A r \in Routers :
         /\ job[r].at = "writing" /\ job[r].cred # store => store' = store
         /\ job[r].at = "recording" /\ rec'.outcome = "rejected" /\ rec' # rec
              => rec'.gen = job[r].cred]_vars
=============================================================================
