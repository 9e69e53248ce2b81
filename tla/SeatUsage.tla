------------------------------ MODULE SeatUsage ------------------------------
(***************************************************************************)
(* What the routers of one machine know of one account's plan usage        *)
(* (src/src/usage_cache.rs, usage.rs, headroom.rs).                        *)
(*                                                                         *)
(* Every poll - the periodic one and the one after each turn - asks the    *)
(* shared snapshot file first, fetches only when a refresh is due and the  *)
(* cross-process lock file is its own, and installs cordons and seat       *)
(* availability in its router.  Routers die with the lock in hand, logins  *)
(* rotate and change, fetches fail, and clients send hints.                *)
(*                                                                         *)
(* Abstractions: a payload is the level of its binding window with the     *)
(* moment it was measured; one window binds; time is counted in refresh    *)
(* intervals up to the longest backoff.                                    *)
(***************************************************************************)
EXTENDS Naturals, FiniteSets

CONSTANTS
    Polls,          \* poll tasks
    Routers,
    Home,           \* [Polls -> Routers]
    Models,         \* the account's candidates
    Scoped,         \* those that a weekly window of their own covers
    MAX_BACKOFF,    \* the longest wait, in refresh intervals
    Budgets         \* of a behaviour: changes of the seat (use) and of the login;
                    \* failed fetches and deaths (fault); hints; the routers,
                    \* the poll tasks (none without a usage source), the prompts,
                    \* and the level at the start

\* free; the scoped models' own window is at its limit or its reserve; the plan
\* is used up and paid overage goes on; nothing is left.
Levels == {"free", "scoped", "overage", "full"}

ASSUME UsageAssumption ==
    /\ Home \in [Polls -> Routers]
    /\ IsFiniteSet(Models) /\ Scoped \subseteq Models
    /\ MAX_BACKOFF \in Nat \ {0}
    /\ \A b \in Budgets : {"use", "login", "fault", "hint", "routers", "polls", "prompts",
                           "level"} \subseteq DOMAIN b
                        /\ b.routers \subseteq Routers /\ b.level \in Levels

VARIABLES
    seat,      \* the provider's truth, per account: [level, stamp, window]
    login,     \* the credential file: [acct, gen]
    snap,      \* the snapshot file
    lock,      \* the lock file: [by, stale]
    poll,      \* per task: where it is and what it holds
    alive,     \* living routers
    known,     \* per router: the availability and cordon installed last
    hint,      \* per router: a client's view while it has not expired
    paid,      \* per router: may paid overage be used
    left,      \* what remains of the budget
    contested  \* somebody renamed a lock that was not stale any more (ghost)

seatVars == <<seat, login, snap, lock, poll, alive, known, hint, paid, left, contested>>

Measures == [level : Levels, stamp : Nat, window : Nat]
Accounts == {0, 1}
Logins == [acct : Accounts, gen : Nat]

\* `measure` is a set of at most one payload.
Snapshots == [some : BOOLEAN, login : Logins, age : 0..MAX_BACKOFF, fails : Nat,
              measure : SUBSET Measures]
NoSnapshot == [some |-> FALSE, login |-> [acct |-> 0, gen |-> 0], age |-> 0, fails |-> 0,
               measure |-> {}]

Places == {"idle", "lock", "break", "retry", "locked", "fetching", "answered", "install"}
Idle == [at |-> "idle", req |-> [acct |-> 0, gen |-> 0], saw |-> NoSnapshot, got |-> {},
         again |-> FALSE, fresh |-> FALSE]
PollRecords == [at : Places, req : Logins, saw : Snapshots, got : SUBSET Measures,
                again : BOOLEAN, fresh : BOOLEAN]

SeatTypeOK ==
    /\ seat \in [Accounts -> Measures] /\ login \in Logins /\ snap \in Snapshots
    /\ lock \in [by : SUBSET Polls, stale : BOOLEAN]
    /\ poll \in [Polls -> PollRecords]
    /\ alive \subseteq Routers /\ contested \in BOOLEAN

Seat == seat[login.acct]
NothingKnown == [avail |-> {}, cordon |-> {}]

Spend(f) == [left EXCEPT ![f] = @ - 1]

(***************************************************************************)
(* The refresh policy.                                                     *)
(***************************************************************************)
NextAttemptWait(fails) == IF 2^fails > MAX_BACKOFF THEN MAX_BACKOFF ELSE 2^fails

\* Due: another account, another access token, or the wait is over.
ShouldFetch(s, l) == ~s.some \/ s.login # l \/ s.age >= NextAttemptWait(s.fails)

OnSuccess(l, m) == [some |-> TRUE, login |-> l, age |-> 0, fails |-> 0,
                    measure |-> {m}]

\* The last payload stays for the same account; another one starts afresh.
OnFailure(s, l) ==
    IF s.some /\ s.login.acct = l.acct
    THEN [s EXCEPT !.login = l, !.age = 0,
                   !.fails = IF @ < MAX_BACKOFF THEN @ + 1 ELSE @]
    ELSE [NoSnapshot EXCEPT !.some = TRUE, !.login = l, !.fails = 1]

(***************************************************************************)
(* One poll: cached_usage_at, step by step.                                *)
(***************************************************************************)
MoveTo(p, place) == poll' = [poll EXCEPT ![p].at = place]
Served(s) == [Idle EXCEPT !.at = "install", !.got = s.measure]
Serve(p, s) == poll' = [poll EXCEPT ![p] = Served(s)]

PollReads(p) ==
    /\ poll[p].at = "idle" /\ Home[p] \in alive /\ p \in left.polls
    /\ poll' = [poll EXCEPT ![p] =
          IF ShouldFetch(snap, login)
          THEN [Idle EXCEPT !.at = "lock", !.req = login, !.saw = snap]
          ELSE Served(snap)]
    /\ UNCHANGED <<seat, login, snap, lock, alive, known, hint, paid, left, contested>>

\* Somebody else fetches: the cache as it was read, unless it is of another
\* account.
Contended(p) ==
    Serve(p, IF poll[p].saw.login.acct = poll[p].req.acct THEN poll[p].saw ELSE NoSnapshot)

Took(p) == lock' = [by |-> {p}, stale |-> FALSE] /\ MoveTo(p, "locked")

\* The lock file is opened, not created anew.
TryLockOpens(p) ==
    /\ poll[p].at = "lock" /\ Took(p)
    /\ UNCHANGED <<seat, login, snap, alive, known, hint, paid, left, contested>>

TryLock(p) ==
    /\ poll[p].at = "lock"
    /\ \/ lock.by = {} /\ Took(p)
       \/ lock.by # {} /\ ~lock.stale /\ Contended(p) /\ UNCHANGED lock
       \/ lock.by # {} /\ lock.stale /\ MoveTo(p, "break") /\ UNCHANGED lock
    /\ UNCHANGED <<seat, login, snap, alive, known, hint, paid, left, contested>>

\* The rename takes whatever lies at the path now.
BreakLock(p) ==
    /\ poll[p].at = "break"
    /\ lock' = [by |-> {}, stale |-> FALSE]
    /\ contested' = (contested \/ (lock.by # {} /\ ~lock.stale))
    /\ MoveTo(p, "retry")
    /\ UNCHANGED <<seat, login, snap, alive, known, hint, paid, left>>

RetryLock(p) ==
    /\ poll[p].at = "retry"
    /\ \/ lock.by = {} /\ Took(p)
       \/ lock.by # {} /\ Contended(p) /\ UNCHANGED lock
    /\ UNCHANGED <<seat, login, snap, alive, known, hint, paid, left, contested>>

\* The lock goes only while it is the task's own.
Unlocked(p) == IF lock.by = {p} THEN [by |-> {}, stale |-> FALSE] ELSE lock

\* The task fetches on what it read before it had the lock.
RereadOld(p) == poll[p].saw

\* Under the lock the snapshot is read again: another task's outcome is what
\* counts.
Reread(p) == snap

UnderLock(p) ==
    /\ poll[p].at = "locked"
    /\ IF ShouldFetch(Reread(p), login)
       THEN /\ poll' = [poll EXCEPT ![p] = [@ EXCEPT !.at = "fetching", !.req = login,
                                                     !.saw = Reread(p)]]
            /\ UNCHANGED lock
       ELSE Serve(p, snap) /\ lock' = Unlocked(p)
    /\ UNCHANGED <<seat, login, snap, alive, known, hint, paid, left, contested>>

\* The provider answers whoever asks with its usage of this moment.
Answer(p) ==
    /\ poll[p].at = "fetching"
    /\ poll' = [poll EXCEPT ![p] = [@ EXCEPT !.at = "answered", !.got = {seat[poll[p].req.acct]}, !.fresh = TRUE]]
    /\ UNCHANGED <<seat, login, snap, lock, alive, known, hint, paid, left, contested>>

\* A fetch fails. A refused token is tried once more if the login has changed.
FetchFails(p, refused) ==
    /\ poll[p].at = "fetching" /\ left.fault > 0
    /\ left' = Spend("fault")
    /\ poll' = [poll EXCEPT ![p] =
          IF refused /\ login # @.req /\ ~@.again THEN [@ EXCEPT !.req = login, !.again = TRUE]
          ELSE [@ EXCEPT !.at = "answered", !.got = {}, !.fresh = FALSE]]
    /\ UNCHANGED <<seat, login, snap, lock, alive, known, hint, paid, contested>>

\* The outcome is written and the lock dropped.
WriteSnapshot(p) ==
    /\ poll[p].at = "answered"
    /\ LET s == IF poll[p].fresh THEN OnSuccess(poll[p].req, CHOOSE m \in poll[p].got : TRUE)
                ELSE OnFailure(poll[p].saw, poll[p].req)
       IN snap' = s /\ Serve(p, s)
    /\ lock' = Unlocked(p)
    /\ UNCHANGED <<seat, login, alive, known, hint, paid, left, contested>>

\* Windows at their limit or their reserve, unless paid overage goes on.
CordonsOf(got) == {m \in got : m.level \in {"scoped", "full"}}

\* Cordons and availability of this account are replaced; without a payload the
\* router forgets the availability and keeps an unexpired cordon.
Install(p) ==
    /\ poll[p].at = "install"
    /\ known' = [known EXCEPT ![Home[p]] =
          IF poll[p].got = {} THEN [@ EXCEPT !.avail = {}]
          ELSE [avail |-> poll[p].got, cordon |-> CordonsOf(poll[p].got)]]
    /\ poll' = [poll EXCEPT ![p] = Idle]
    /\ UNCHANGED <<seat, login, snap, lock, alive, hint, paid, left, contested>>

PollStep(p) ==
    /\ Home[p] \in alive
    /\ \/ TryLock(p) \/ BreakLock(p) \/ RetryLock(p) \/ UnderLock(p) \/ Answer(p)
       \/ WriteSnapshot(p) \/ Install(p)

(***************************************************************************)
(* Around the polls.                                                       *)
(***************************************************************************)
\* A lock is a lock, however old.
TickKeepsLock ==
    /\ snap.some /\ snap.age < MAX_BACKOFF
    /\ snap' = [snap EXCEPT !.age = @ + 1]
    /\ UNCHANGED <<seat, login, lock, poll, alive, known, hint, paid, left, contested>>

\* A refresh interval passes; a lock whose holder is dead grows stale.
Tick ==
    /\ \/ snap.some /\ snap.age < MAX_BACKOFF
       \/ \E p \in lock.by : Home[p] \notin alive /\ ~lock.stale
    /\ snap' = [snap EXCEPT !.age = IF snap.some /\ @ < MAX_BACKOFF THEN @ + 1 ELSE @]
    /\ lock' = [lock EXCEPT !.stale = @ \/ \E p \in lock.by : Home[p] \notin alive]
    /\ UNCHANGED <<seat, login, poll, alive, known, hint, paid, left, contested>>

\* Work on the account uses its plan up, or the window is reset.
UseSeat(l) ==
    /\ left.use > 0 /\ l # Seat.level
    /\ left' = Spend("use")
    /\ seat' = [seat EXCEPT ![login.acct] =
          [level |-> l, stamp |-> @.stamp + 1,
           window |-> IF l = "free" THEN @.window + 1 ELSE @.window]]
    /\ UNCHANGED <<login, snap, lock, poll, alive, known, hint, paid, contested>>

\* The access token rotates, or somebody signs in to another account.
ChangeLogin(swap) ==
    /\ left.login > 0 /\ (swap => login.acct = 0)
    /\ left' = Spend("login")
    /\ login' = [acct |-> IF swap THEN login.acct + 1 ELSE login.acct, gen |-> login.gen + 1]
    /\ UNCHANGED <<seat, snap, lock, poll, alive, known, hint, paid, contested>>

RouterDies(r) ==
    /\ r \in alive /\ left.fault > 0 /\ Cardinality(alive) > 1
    /\ left' = Spend("fault")
    /\ alive' = alive \ {r}
    /\ poll' = [p \in Polls |-> IF Home[p] = r THEN Idle ELSE poll[p]]
    /\ known' = [known EXCEPT ![r] = NothingKnown]
    /\ UNCHANGED <<seat, login, snap, lock, hint, paid, contested>>

\* A client's hint, or what it says of paid overage.
Hint(r) ==
    /\ r \in alive /\ left.hint > 0
    /\ left' = Spend("hint")
    /\ \/ hint' = [hint EXCEPT ![r] = {Seat.level}] /\ UNCHANGED paid
       \/ paid' = [paid EXCEPT ![r] = ~@] /\ UNCHANGED hint
    /\ UNCHANGED <<seat, login, snap, lock, poll, alive, known, contested>>

HintExpires(r) ==
    /\ hint[r] # {}
    /\ hint' = [hint EXCEPT ![r] = {}]
    /\ UNCHANGED <<seat, login, snap, lock, poll, alive, known, paid, left, contested>>

\* What routing asks of a model: an unexpired cordon over it, or a seat without
\* plan or overage for it. A hint goes before the poll.
Covers(l, m) == l = "full" \/ (l = "scoped" /\ m \in Scoped)
UsageCordon(r, m) ==
    {c \in known[r].cordon : c.window = Seat.window /\ Covers(c.level, m)}
Availability(r) == IF hint[r] # {} THEN hint[r] ELSE {a.level : a \in known[r].avail}
SeatExhausted(r, m) ==
    \E l \in Availability(r) : Covers(l, m) \/ (l = "overage" /\ ~paid[r])
Routeable(r, m) == UsageCordon(r, m) = {} /\ ~SeatExhausted(r, m)

-----------------------------------------------------------------------------
SeatInit ==
    /\ login = [acct |-> 0, gen |-> 0]
    /\ snap = NoSnapshot
    /\ lock = [by |-> {}, stale |-> FALSE]
    /\ poll = [p \in Polls |-> Idle]
    /\ known = [r \in Routers |-> NothingKnown]
    /\ hint = [r \in Routers |-> {}]
    /\ paid = [r \in Routers |-> TRUE]
    /\ left \in Budgets
    /\ alive = left.routers
    /\ seat = [a \in Accounts |-> [level |-> left.level, stamp |-> 0, window |-> 0]]
    /\ contested = FALSE

SeatNext ==
    \/ \E p \in Polls : PollReads(p) \/ PollStep(p)
                      \/ \E refused \in BOOLEAN : FetchFails(p, refused)
    \/ Tick
    \/ \E l \in Levels : UseSeat(l)
    \/ \E swap \in BOOLEAN : ChangeLogin(swap)
    \/ \E r \in Routers : RouterDies(r) \/ Hint(r) \/ HintExpires(r)

(***************************************************************************)
(* Properties.                                                             *)
(***************************************************************************)
Fetchers == {p \in Polls : poll[p].at \in {"fetching", "answered"} /\ Home[p] \in alive}

\* The box asks the provider once at a time, whatever died with the lock,
\* except when two tasks break one stale lock (see the README).
OneFetcher == Cardinality(Fetchers) <= 1 \/ contested
OneBreaker == Cardinality(Fetchers) <= 1

\* A success is not undone: the snapshot of an account never goes back to an
\* older measure, neither by a failure nor by a task that started earlier.
SnapshotAdvances ==
    [][~contested /\ snap.login.acct = snap'.login.acct
       => \A m \in snap.measure : \E n \in snap'.measure : n.stamp >= m.stamp]_seatVars

Polled(r) == r \in alive /\ \E p \in left.polls : Home[p] = r
Agrees(r) ==
    \A m \in Models :
        Routeable(r, m) <=> ~Covers(Seat.level, m) /\ (Seat.level = "overage" => paid[r])

\* What is used up is found out, and what comes back too: once the seat and the
\* login stay as they are, every router that lives on and polls ends up routing
\* to exactly the models that have budget, whoever died with the lock and
\* whatever fetches failed or hints said meanwhile.
SeatFollowed == <>[](\A r \in Routers : Polled(r) => Agrees(r))
=============================================================================
