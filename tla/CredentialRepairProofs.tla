----------------------- MODULE CredentialRepairProofs -----------------------
(***************************************************************************)
(* Proofs about one account shared by any number of routers, with any      *)
(* budget of faults, expiries and acts of people (src/src/credentials.rs). *)
(*                                                                         *)
(* The argument has four layers.  The lock: whoever repairs or signs in    *)
(* holds it (LockInv).  Numbers: a token that nobody has applied is in no  *)
(* file, record, copy or request, so the file never returns to an earlier  *)
(* credential (SeenInv).  Markers: a request whose marker is still current *)
(* was sent after the last repair (StampInv).  The flight: between the     *)
(* provider's answer and the write, the rotated token is in the hands of   *)
(* the one repair at work, or lost, or a writer outside the lock raced     *)
(* (FlightInv).                                                            *)
(***************************************************************************)
EXTENDS CredentialRepair, TLAPS

(***************************************************************************)
(* The inductive invariants.                                               *)
(***************************************************************************)
InRepair == {"refreshing", "answered", "writing", "recording"}

\* Types, with what a phase has read before it.
GoodJob(j) == j \in Jobs /\ (j.at \in InRepair => j.cred \in CredentialSet)
GoodAdapter(a) ==
    a \in Adapters /\ (a.at \in {"swept", "made"} => a.copy \in CredentialSet)

TypeInv == TypeOK /\ \A r \in Routers : GoodJob(job[r]) /\ GoodAdapter(adapter[r])

\* A repair at work, and a sign-in at work, hold the lock.
LockInv ==
    \A r \in Routers :
        /\ job[r].at \in InRepair => holder = [who |-> r, what |-> "repair"]
        /\ login[r].at \in {"signing", "published"} =>
              holder = [who |-> r, what |-> "login"]

\* A live adapter has its directory.
DirInv ==
    \A r \in Routers :
        /\ adapter[r].at = "made" => dir[r] = "open"
        /\ adapter[r].at = "up" => dir[r] = "held"

\* A stale pin waits for the end of the sign-in that made it stale.
PinInv ==
    \A r \in Routers :
        pin[r] = "stale" => login[r].at \in {"retiring", "signing", "published", "ended"}

\* An access token that no file, record, copy or request names.
Unseen(a) ==
    /\ store.access # a
    /\ rec.gen # None => rec.gen.access # a
    /\ \A r \in Routers :
         /\ job[r].saw # None => job[r].saw.gen.access # a
         /\ job[r].cred # None => job[r].cred.access # a
         /\ adapter[r].mark # None => adapter[r].mark.gen.access # a
         /\ adapter[r].copy # None => adapter[r].copy.access # a
         /\ login[r].write # None => login[r].write.gen.access # a

\* A repair that has its answer and has not applied it.
Pending(r) == job[r].at \in {"answered", "writing"} /\ job[r].value # None

\* A token the provider has not issued yet, and one that has not been applied
\* yet, is unseen: so a file that is written never equals an earlier one.
SeenInv ==
    /\ \A a \in Nat : a > last => Unseen(a)
    /\ \A r \in Routers : Pending(r) => Unseen(job[r].value.access)
    /\ store.refresh <= last
    /\ \A r \in Routers :
         /\ job[r].cred # None => job[r].cred.refresh <= last
         /\ job[r].value # None => job[r].value.access <= last /\ job[r].value.refresh <= last

\* A marker taken when c epochs were written: if it is still the current one,
\* no epoch was written since.
Stamped(m, c) ==
    m # None => /\ m.epoch <= c /\ c <= epochs
                /\ ~raced /\ m = Marker(store, rec) => c = epochs

StampInv ==
    /\ rec.epoch <= epochs
    /\ \A r \in Routers :
         /\ Stamped(job[r].saw, job[r].count)
         /\ Stamped(adapter[r].mark, adapter[r].count)
         /\ login[r].write # None =>
              /\ login[r].write.epoch <= epochs
              /\ login[r].write.outcome = "repaired"
         /\ job[r].at = "refreshing" /\ ~raced => job[r].count = epochs

\* What a repair knows of the file and of the grant it spent.
Flight(r) ==
    /\ job[r].at \in {"refreshing", "answered"} =>
          store = job[r].cred \/ store.refresh # job[r].cred.refresh
    /\ job[r].at = "writing" /\ ~raced => store = job[r].cred
    /\ job[r].at = "recording" /\ ~raced =>
          store = (IF job[r].value = None THEN job[r].cred ELSE job[r].value)
    /\ job[r].at \in {"answered", "writing", "recording"} /\ job[r].outcome = "rejected" =>
          job[r].value = None /\ job[r].cred.refresh \notin grants
    /\ Pending(r) /\ store = job[r].cred => job[r].value.refresh \in grants \/ Revoked

\* The rotated token is in the file or on its way there.
TokenInv ==
    lost \/ raced \/ Revoked \/ store.refresh \in grants
    \/ \E r \in Routers : /\ Pending(r) /\ store = job[r].cred
                          /\ job[r].value.refresh # job[r].cred.refresh

FlightInv ==
    /\ \A r \in Routers : Flight(r)
    /\ TokenInv
    /\ RejectedIsDead

-----------------------------------------------------------------------------
\* The provider honours the token it was sent, what it issues then, and the
\* whole of its answer.
Live(r) == job[r].cred.refresh \in grants
Issued(r, rotates) ==
    [access |-> last + 1, refresh |-> IF rotates THEN last + 1 ELSE job[r].cred.refresh]

Answers(r, rotates, arrives) ==
    /\ ~arrives => Fault
    /\ ~Live(r) => ~rotates
    /\ left' = IF arrives THEN left ELSE Spend("faults")
    /\ last' = IF Live(r) THEN last + 1 ELSE last
    /\ grants' = IF Live(r) THEN (grants \ {job[r].cred.refresh})
                                 \cup {Issued(r, rotates).refresh}
                 ELSE grants
    /\ good' = IF Live(r) THEN good \cup {Issued(r, rotates).access} ELSE good
    /\ job' = [job EXCEPT ![r] = [job[r] EXCEPT
          !.at = "answered",
          !.value = IF Live(r) /\ arrives THEN Issued(r, rotates) ELSE None,
          !.outcome = CASE ~arrives -> "unknown"
                        [] Live(r) -> "repaired"
                        [] OTHER -> "rejected"]]
    /\ lost' = (lost \/ (Live(r) /\ rotates /\ ~arrives))

-----------------------------------------------------------------------------
(* Types *)

\* The records that the actions write.
LEMMA NewJob ==
    ASSUME NEW j, GoodJob(j)
    PROVE  /\ GoodJob(NoJob)
           /\ GoodJob([j EXCEPT !.at = "waiting"])
           /\ GoodJob([j EXCEPT !.awaited = FALSE])
           /\ \A o \in Outcomes \cup {None} :
                GoodJob([j EXCEPT !.at = "done", !.outcome = o])
           /\ \A c \in CredentialSet : GoodJob([j EXCEPT !.at = "refreshing", !.cred = c])
           /\ j.at \in InRepair =>
                /\ GoodJob([j EXCEPT !.at = "writing"])
                /\ GoodJob([j EXCEPT !.at = "recording"])
                /\ \A v \in CredentialSet \cup {None}, o \in Outcomes \cup {None} :
                     GoodJob([j EXCEPT !.at = "answered", !.value = v, !.outcome = o])
           /\ \A t \in Nat, m \in MarkerSet \cup {None}, c \in Nat, a \in {"sent", "waiting"} :
                GoodJob([NoJob EXCEPT !.at = a, !.token = t, !.saw = m, !.count = c])
  <1> USE DEF GoodJob, Jobs, InRepair, Repairing, NoJob
  <1>1. GoodJob(NoJob)
    OBVIOUS
  <1>2. GoodJob([j EXCEPT !.at = "waiting"]) /\ GoodJob([j EXCEPT !.awaited = FALSE])
    OBVIOUS
  <1>3. \A o \in Outcomes \cup {None} : GoodJob([j EXCEPT !.at = "done", !.outcome = o])
    OBVIOUS
  <1>4. \A c \in CredentialSet : GoodJob([j EXCEPT !.at = "refreshing", !.cred = c])
    OBVIOUS
  <1>5. ASSUME j.at \in InRepair
        PROVE  GoodJob([j EXCEPT !.at = "writing"]) /\ GoodJob([j EXCEPT !.at = "recording"])
    BY <1>5
  <1>6. ASSUME j.at \in InRepair, NEW v \in CredentialSet \cup {None},
               NEW o \in Outcomes \cup {None}
        PROVE  GoodJob([j EXCEPT !.at = "answered", !.value = v, !.outcome = o])
    BY <1>6
  <1>7. ASSUME NEW t \in Nat, NEW m \in MarkerSet \cup {None}, NEW c \in Nat,
               NEW a \in {"sent", "waiting"}
        PROVE  GoodJob([NoJob EXCEPT !.at = a, !.token = t, !.saw = m, !.count = c])
    OBVIOUS
  <1> HIDE DEF GoodJob, Jobs, InRepair, Repairing, NoJob
  <1> QED
    BY <1>1, <1>2, <1>3, <1>4, <1>5, <1>6, <1>7

\* The same of the adapters ...
LEMMA NewAdapter ==
    ASSUME NEW x, GoodAdapter(x)
    PROVE  /\ GoodAdapter(NoAdapter)
           /\ \A c \in CredentialSet : GoodAdapter([NoAdapter EXCEPT !.at = "swept", !.copy = c])
           /\ x.at \in {"swept", "made"} => GoodAdapter([x EXCEPT !.at = "made"])
           /\ \A t \in Nat, m \in MarkerSet, c \in Nat :
                GoodAdapter([x EXCEPT !.at = "up", !.access = t, !.mark = m, !.count = c])
  BY DEF GoodAdapter, Adapters, NoAdapter

\* ... of the sign-ins ...
LEMMA NewLogin ==
    ASSUME NEW l \in Logins
    PROVE  /\ NoLogin \in Logins
           /\ [NoLogin EXCEPT !.at = "retiring"] \in Logins
           /\ \A a \in {"no", "signing", "published", "ended", "open"} :
                [l EXCEPT !.at = a] \in Logins
           /\ [l EXCEPT !.at = "ended", !.ok = TRUE] \in Logins
           /\ \A w \in Records \cup {None} :
                [l EXCEPT !.at = "noting", !.write = w] \in Logins
  BY DEF Logins, NoLogin

\* ... and of the repair record.
LEMMA NewRecord ==
    ASSUME TypeOK
    PROVE  /\ SuccessRecord \in Records \cup {None}
           /\ \A o \in Outcomes \cup {None}, b \in BOOLEAN :
                [gen |-> store, epoch |-> epochs + 1, outcome |-> o, recent |-> b] \in Records
           /\ [rec EXCEPT !.recent = FALSE] \in Records
           /\ Marker(store, rec) \in MarkerSet
           /\ \A c \in CredentialSet : Marker(c, rec) \in MarkerSet
           /\ Previous.outcome \in Outcomes \cup {None}
  <1> USE DEF TypeOK, Records, Outcomes
  <1>1. Previous \in Records
    BY DEF Previous, NoRecord
  <1>2. SuccessRecord \in Records \cup {None}
    <2>1. Previous.epoch \in Nat
      BY <1>1
    <2> QED
      BY <2>1 DEF SuccessRecord
  <1>3. \A o \in Outcomes \cup {None}, b \in BOOLEAN :
          [gen |-> store, epoch |-> epochs + 1, outcome |-> o, recent |-> b] \in Records
    OBVIOUS
  <1>4. [rec EXCEPT !.recent = FALSE] \in Records
    OBVIOUS
  <1>5. \A c \in CredentialSet : Marker(c, rec) \in MarkerSet
    BY DEF Marker, MarkerSet
  <1>6. Previous.outcome \in Outcomes \cup {None}
    BY <1>1
  <1> QED
    BY <1>2, <1>3, <1>4, <1>5, <1>6

\* What an opaque record is known to carry.
LEMMA JobFields ==
    ASSUME NEW j, GoodJob(j)
    PROVE  /\ j \in Jobs
           /\ j.token \in Nat /\ j.saw \in MarkerSet \cup {None} /\ j.count \in Nat
           /\ j.value \in CredentialSet \cup {None} /\ j.outcome \in Outcomes \cup {None}
           /\ j.cred \in CredentialSet \cup {None}
           /\ j.at \in InRepair => j.cred \in CredentialSet
  BY DEF GoodJob, Jobs

\* The same of an adapter.
LEMMA AdapterFields ==
    ASSUME NEW x, GoodAdapter(x)
    PROVE  /\ x \in Adapters
           /\ x.access \in Nat /\ x.mark \in MarkerSet \cup {None} /\ x.count \in Nat
           /\ x.copy \in CredentialSet \cup {None}
           /\ x.at \in {"swept", "made"} => x.copy \in CredentialSet
           /\ \A c \in CredentialSet : c.access \in Nat
  BY DEF GoodAdapter, Adapters, CredentialSet

\* Writing one router's request, or adapter, keeps the others.
LEMMA PutJob ==
    ASSUME TypeInv, NEW r \in Routers, NEW j, GoodJob(j), job' = [job EXCEPT ![r] = j]
    PROVE  job' \in [Routers -> Jobs] /\ \A q \in Routers : GoodJob(job'[q])
  BY DEF TypeInv, TypeOK, GoodJob

LEMMA PutAdapter ==
    ASSUME TypeInv, NEW r \in Routers, NEW x, GoodAdapter(x),
           adapter' = [adapter EXCEPT ![r] = x]
    PROVE  adapter' \in [Routers -> Adapters] /\ \A q \in Routers : GoodAdapter(adapter'[q])
  BY DEF TypeInv, TypeOK, GoodAdapter

\* Spending needs something left.
LEMMA SpendTypes ==
    ASSUME TypeOK, NEW f \in {"faults", "expiries", "acts"}, left[f] > 0
    PROVE  Spend(f) \in [faults : Nat, expiries : Nat, acts : Nat]
  BY DEF TypeOK, Spend

\* What a sign-in is about to write is a record.
LEMMA LoginFields ==
    ASSUME TypeOK, NEW r \in Routers
    PROVE  login[r].write \in Records \cup {None}
  BY DEF TypeOK, Logins

\* What the provider's answer changes.
LEMMA RefreshWrites ==
    ASSUME TypeInv, NEW r \in Routers, Refresh(r)
    PROVE  /\ \E v \in CredentialSet \cup {None}, o \in Outcomes, n \in Nat,
                 g \in SUBSET Nat, k \in SUBSET Nat :
                /\ job' = [job EXCEPT ![r] =
                              [job[r] EXCEPT !.at = "answered", !.value = v, !.outcome = o]]
                /\ last' = n /\ grants' = g /\ good' = k
           /\ left' \in [faults : Nat, expiries : Nat, acts : Nat]
           /\ lost' \in BOOLEAN
  <1>1. PICK rotates \in BOOLEAN, arrives \in BOOLEAN : Answers(r, rotates, arrives)
    BY DEF Refresh, Answers, Live, Issued
  <1>2. job[r].cred \in CredentialSet /\ job[r].cred.refresh \in Nat
    BY JobFields DEF TypeInv, Refresh, InRepair, CredentialSet
  <1>3. Issued(r, rotates) \in CredentialSet /\ Issued(r, rotates).refresh \in Nat
        /\ Issued(r, rotates).access \in Nat
    BY <1>2 DEF TypeInv, TypeOK, Issued, CredentialSet
  <1>4. left' \in [faults : Nat, expiries : Nat, acts : Nat]
    BY <1>1, SpendTypes DEF Answers, Fault, TypeInv, TypeOK
  <1>5. lost' \in BOOLEAN
    BY <1>1 DEF Answers, TypeInv, TypeOK
  <1>6. last' \in Nat /\ grants' \in SUBSET Nat /\ good' \in SUBSET Nat
    BY <1>1, <1>3 DEF Answers, TypeInv, TypeOK
  <1>7. \E v \in CredentialSet \cup {None}, o \in Outcomes :
          job' = [job EXCEPT ![r] =
                     [job[r] EXCEPT !.at = "answered", !.value = v, !.outcome = o]]
    <2>1. (IF Live(r) /\ arrives THEN Issued(r, rotates) ELSE None)
             \in CredentialSet \cup {None}
      BY <1>3
    <2>2. (CASE ~arrives -> "unknown" [] Live(r) -> "repaired" [] OTHER -> "rejected")
             \in Outcomes
      BY DEF Outcomes
    <2> QED
      BY <1>1, <2>1, <2>2 DEF Answers
  <1> QED
    BY <1>4, <1>5, <1>6, <1>7

\* Every step keeps the types, and what its phase has read.
LEMMA TypeStep ==
    ASSUME CredentialAssumption, TypeInv, [Next]_vars
    PROVE  TypeInv'
  <1> USE DEF provider, local, ghosts
  <1>0. /\ TypeOK
        /\ \A r \in Routers : /\ GoodJob(job[r]) /\ GoodAdapter(adapter[r])
                               /\ login[r] \in Logins
    BY DEF TypeInv, TypeOK
  <1>1. ASSUME NEW r \in Routers, Launch(r) PROVE TypeInv'
    <2>1. GoodAdapter([NoAdapter EXCEPT !.at = "swept", !.copy = store])
      BY <1>0, NewAdapter DEF TypeInv, TypeOK
    <2>2. adapter' = [adapter EXCEPT ![r] = [NoAdapter EXCEPT !.at = "swept", !.copy = store]]
      BY <1>1 DEF Launch, Swept
    <2> QED
      BY <1>1, <1>0, <2>1, <2>2, PutAdapter DEF Launch, Swept, TypeInv, TypeOK
  <1>2. ASSUME NEW r \in Routers, MakeRuntime(r) PROVE TypeInv'
    <2>1. GoodAdapter([adapter[r] EXCEPT !.at = "made"])
      BY <1>0, NewAdapter, <1>2 DEF MakeRuntime
    <2>2. adapter' = [adapter EXCEPT ![r] = [adapter[r] EXCEPT !.at = "made"]]
      BY <1>2 DEF MakeRuntime
    <2> QED
      BY <1>2, <1>0, <2>1, <2>2, PutAdapter DEF MakeRuntime, TypeInv, TypeOK
  <1>3. ASSUME NEW r \in Routers, HoldRuntime(r) PROVE TypeInv'
    <2>1. CASE login[r].at = "no"
      <3>1. /\ adapter[r].copy \in CredentialSet /\ adapter[r].copy.access \in Nat
            /\ Marker(adapter[r].copy, rec) \in MarkerSet
        BY <1>3, <1>0, AdapterFields, NewRecord DEF HoldRuntime
      <3>2. GoodAdapter([adapter[r] EXCEPT !.at = "up", !.access = adapter[r].copy.access,
                            !.mark = Marker(adapter[r].copy, rec), !.count = epochs])
        BY <1>0, <3>1, NewAdapter DEF TypeOK
      <3>3. adapter' = [adapter EXCEPT ![r] =
                  [adapter[r] EXCEPT !.at = "up", !.access = adapter[r].copy.access,
                            !.mark = Marker(adapter[r].copy, rec), !.count = epochs]]
        BY <1>3, <2>1 DEF HoldRuntime
      <3> QED
        BY <1>3, <2>1, <1>0, <3>2, <3>3, PutAdapter DEF HoldRuntime, TypeInv, TypeOK
    <2>2. CASE login[r].at # "no"
      <3>1. GoodAdapter(NoAdapter)
        BY <1>0, NewAdapter
      <3>2. adapter' = [adapter EXCEPT ![r] = NoAdapter]
        BY <1>3, <2>2 DEF HoldRuntime
      <3> QED
        BY <1>3, <2>2, <1>0, <3>1, <3>2, PutAdapter DEF HoldRuntime, TypeInv, TypeOK
    <2> QED
      BY <2>1, <2>2
  <1>4. ASSUME NEW r \in Routers, RequestAdapter(r) PROVE TypeInv'
    <2>1. GoodJob([NoJob EXCEPT !.at = "sent", !.token = adapter[r].access,
                              !.saw = adapter[r].mark, !.count = adapter[r].count])
      BY <1>0, NewJob, AdapterFields
    <2>2. job' = [job EXCEPT ![r] = [NoJob EXCEPT !.at = "sent", !.token = adapter[r].access,
                              !.saw = adapter[r].mark, !.count = adapter[r].count]]
      BY <1>4 DEF RequestAdapter, Asks
    <2> QED
      BY <1>4, <1>0, <2>1, <2>2, PutJob DEF RequestAdapter, Asks, TypeInv, TypeOK
  <1>5. ASSUME NEW r \in Routers, RequestCurrent(r) PROVE TypeInv'
    <2>1. PICK early \in BOOLEAN :
            /\ early => left.expiries > 0
            /\ left' = IF early THEN Spend("expiries") ELSE left
            /\ Asks(r, store.access, Marker(store, rec), epochs,
                    IF early THEN "waiting" ELSE "sent")
      BY <1>5 DEF RequestCurrent
    <2>2. store.access \in Nat /\ Marker(store, rec) \in MarkerSet
      BY <1>0, NewRecord DEF TypeOK, CredentialSet
    <2>3. GoodJob([NoJob EXCEPT !.at = IF early THEN "waiting" ELSE "sent",
                                !.token = store.access, !.saw = Marker(store, rec),
                                !.count = epochs])
      BY <1>0, <2>2, NewJob DEF TypeOK
    <2>4. job' = [job EXCEPT ![r] =
                    [NoJob EXCEPT !.at = IF early THEN "waiting" ELSE "sent",
                                  !.token = store.access, !.saw = Marker(store, rec),
                                  !.count = epochs]]
      BY <2>1 DEF Asks
    <2> QED
      BY <1>5, <1>0, <2>1, <2>3, <2>4, PutJob, SpendTypes
      DEF RequestCurrent, TypeInv, TypeOK
  <1>6. ASSUME NEW r \in Routers, Served(r) PROVE TypeInv'
    <2>1. GoodJob(NoJob)
      BY <1>0, NewJob
    <2>2. job' = [job EXCEPT ![r] = NoJob]
      BY <1>6 DEF Served
    <2>3. rec' \in Records /\ tracker' \in [Routers -> BOOLEAN]
      BY <1>6, <1>0, NewRecord DEF Served, Rejected, TypeOK
    <2> QED
      BY <1>6, <1>0, <2>1, <2>2, <2>3, PutJob DEF Served, TypeInv, TypeOK
  <1>7. ASSUME NEW r \in Routers, Denied(r) PROVE TypeInv'
    <2>1. GoodJob([job[r] EXCEPT !.at = "waiting"])
      BY <1>0, NewJob
    <2>2. job' = [job EXCEPT ![r] = [job[r] EXCEPT !.at = "waiting"]]
      BY <1>7 DEF Denied
    <2> QED
      BY <1>7, <1>0, <2>1, <2>2, PutJob DEF Denied, TypeInv, TypeOK
  <1>8. ASSUME NEW r \in Routers, AcquireRepair(r) PROVE TypeInv'
    <2>1. CASE Answered(r) # None
      <3>1. Answered(r) \in Outcomes
        BY <1>0, <2>1, NewRecord DEF Answered, Outcomes
      <3>2. GoodJob([job[r] EXCEPT !.at = "done", !.outcome = Answered(r)])
        BY <1>0, <3>1, NewJob
      <3>3. job' = [job EXCEPT ![r] = [job[r] EXCEPT !.at = "done", !.outcome = Answered(r)]]
        BY <1>8, <2>1 DEF AcquireRepair, Ends
      <3> QED
        BY <1>8, <1>0, <2>1, <3>2, <3>3, PutJob DEF AcquireRepair, TypeInv, TypeOK
    <2>2. CASE Answered(r) = None
      <3>1. GoodJob([job[r] EXCEPT !.at = "refreshing", !.cred = store])
        BY <1>0, NewJob DEF TypeOK
      <3>2. job' = [job EXCEPT ![r] = [job[r] EXCEPT !.at = "refreshing", !.cred = store]]
        BY <1>8, <2>2 DEF AcquireRepair
      <3>3. holder' \in Holders
        BY <1>8, <2>2 DEF AcquireRepair, Holders
      <3> QED
        BY <1>8, <1>0, <2>2, <3>1, <3>2, <3>3, PutJob DEF AcquireRepair, TypeInv, TypeOK
    <2> QED
      BY <2>1, <2>2
  <1>9. ASSUME NEW r \in Routers, AcquireTimesOut(r) PROVE TypeInv'
    <2>1. GoodJob([job[r] EXCEPT !.at = "done", !.outcome = "unknown"])
      BY <1>0, NewJob DEF Outcomes
    <2>2. job' = [job EXCEPT ![r] = [job[r] EXCEPT !.at = "done", !.outcome = "unknown"]]
      BY <1>9 DEF AcquireTimesOut, Ends
    <2> QED
      BY <1>9, <1>0, <2>1, <2>2, PutJob DEF AcquireTimesOut, Ends, TypeInv, TypeOK
  <1>10. ASSUME NEW r \in Routers, Refresh(r) PROVE TypeInv'
    <2>1. PICK v \in CredentialSet \cup {None}, o \in Outcomes, n \in Nat,
               g \in SUBSET Nat, k \in SUBSET Nat :
            /\ job' = [job EXCEPT ![r] =
                          [job[r] EXCEPT !.at = "answered", !.value = v, !.outcome = o]]
            /\ last' = n /\ grants' = g /\ good' = k
      BY <1>10, RefreshWrites
    <2>2. GoodJob([job[r] EXCEPT !.at = "answered", !.value = v, !.outcome = o])
      BY <1>10, <1>0, NewJob DEF Refresh, InRepair
    <2> QED
      BY <1>10, <1>0, <2>1, <2>2, PutJob, RefreshWrites DEF Refresh, TypeInv, TypeOK
  <1>11. ASSUME NEW r \in Routers, Compare(r) PROVE TypeInv'
    <2>1. CASE store # job[r].cred
      <3>1. GoodJob([job[r] EXCEPT !.at = "done", !.outcome = "repaired"])
        BY <1>0, NewJob DEF Outcomes
      <3>2. job' = [job EXCEPT ![r] = [job[r] EXCEPT !.at = "done", !.outcome = "repaired"]]
        BY <1>11, <2>1 DEF Compare, Ends
      <3> QED
        BY <1>11, <1>0, <2>1, <3>1, <3>2, PutJob DEF Compare, Release, TypeInv, TypeOK
    <2>2. CASE store = job[r].cred
      <3>1. GoodJob([job[r] EXCEPT !.at = "writing"])
        BY <1>11, <1>0, NewJob DEF Compare, InRepair
      <3>2. job' = [job EXCEPT ![r] = [job[r] EXCEPT !.at = "writing"]]
        BY <1>11, <2>2 DEF Compare
      <3> QED
        BY <1>11, <1>0, <2>2, <3>1, <3>2, PutJob DEF Compare, TypeInv, TypeOK
    <2> QED
      BY <2>1, <2>2
  <1>12. ASSUME NEW r \in Routers, Write(r) PROVE TypeInv'
    <2>1. CASE /\ store' = (IF job[r].value = None THEN store ELSE job[r].value)
               /\ job' = [job EXCEPT ![r].at = "recording"]
               /\ UNCHANGED <<holder, left, lost>>
      <3>1. GoodJob([job[r] EXCEPT !.at = "recording"])
        BY <1>12, <1>0, NewJob DEF Write, InRepair
      <3>2. job' = [job EXCEPT ![r] = [job[r] EXCEPT !.at = "recording"]]
        BY <2>1
      <3>3. store' \in CredentialSet
        BY <1>0, <2>1, JobFields DEF TypeOK
      <3> QED
        BY <1>12, <1>0, <2>1, <3>1, <3>2, <3>3, PutJob DEF Write, TypeInv, TypeOK
    <2>2. CASE /\ Fault /\ left' = Spend("faults")
               /\ Ends(r, "unknown") /\ Release(r)
               /\ lost' = (lost \/ job[r].value.refresh # job[r].cred.refresh)
               /\ UNCHANGED store
      <3>1. GoodJob([job[r] EXCEPT !.at = "done", !.outcome = "unknown"])
        BY <1>0, NewJob DEF Outcomes
      <3>2. job' = [job EXCEPT ![r] = [job[r] EXCEPT !.at = "done", !.outcome = "unknown"]]
        BY <2>2 DEF Ends
      <3> QED
        BY <1>12, <1>0, <2>2, <3>1, <3>2, PutJob, SpendTypes
        DEF Write, Release, Fault, TypeInv, TypeOK
    <2> QED
      BY <1>12, <2>1, <2>2 DEF Write
  <1>13. ASSUME NEW r \in Routers, Record(r) PROVE TypeInv'
    <2>1. GoodJob([job[r] EXCEPT !.at = "done", !.outcome = job[r].outcome])
      BY <1>0, NewJob, JobFields
    <2>2. job' = [job EXCEPT ![r] = [job[r] EXCEPT !.at = "done", !.outcome = job[r].outcome]]
      BY <1>13 DEF Record, Ends
    <2>3. rec' \in Records
      BY <1>13, <1>0, NewRecord, JobFields DEF Record
    <2>4. /\ epochs' \in Nat /\ holder' = None
          /\ UNCHANGED <<store, provider, local, left, ghosts>>
      BY <1>13 DEF Record, Release, TypeInv, TypeOK
    <2> QED
      BY <2>1, <2>2, <2>3, <2>4, PutJob DEF TypeInv, TypeOK
  <1>14. ASSUME NEW r \in Routers, Finish(r) PROVE TypeInv'
    <2>1. GoodJob(NoJob) /\ GoodAdapter(NoAdapter)
      BY <1>0, NewJob, NewAdapter
    <2>2. job' = [job EXCEPT ![r] = NoJob]
      BY <1>14 DEF Finish
    <2>3. PICK x \in {NoAdapter, adapter[r]} : adapter' = [adapter EXCEPT ![r] = x]
      BY <1>14 DEF Finish
    <2>4. PICK y \in {"none", dir[r]} : dir' = [dir EXCEPT ![r] = y]
      BY <1>14 DEF Finish
    <2> QED
      BY <1>14, <1>0, <2>1, <2>2, <2>3, <2>4, PutJob, PutAdapter
      DEF Finish, Rejected, TypeInv, TypeOK
  <1>15. ASSUME NEW r \in Routers, Cancel(r) PROVE TypeInv'
    <2>1. GoodJob([job[r] EXCEPT !.awaited = FALSE])
      BY <1>0, NewJob
    <2>2. job' = [job EXCEPT ![r] = [job[r] EXCEPT !.awaited = FALSE]]
      BY <1>15 DEF Cancel
    <2> QED
      BY <1>15, <1>0, <2>1, <2>2, PutJob, SpendTypes DEF Cancel, TypeInv, TypeOK
  <1>16. ASSUME NEW r \in Routers, LoginStart(r) PROVE TypeInv'
    <2>1. GoodAdapter(NoAdapter) /\ [NoLogin EXCEPT !.at = "retiring"] \in Logins
      BY <1>0, NewLogin, NewAdapter
    <2>2. login' = [login EXCEPT ![r] = [NoLogin EXCEPT !.at = "retiring"]]
      BY <1>16 DEF LoginStart
    <2>3. PICK x \in {NoAdapter, adapter[r]} : adapter' = [adapter EXCEPT ![r] = x]
      BY <1>16 DEF LoginStart
    <2>4. left' \in [faults : Nat, expiries : Nat, acts : Nat]
      BY <1>16, <1>0, SpendTypes DEF LoginStart
    <2>5. /\ dir' \in [Routers -> {"none", "open", "held"}]
          /\ pin' \in [Routers -> {"fresh", "stale", "queued"}]
      BY <1>16 DEF LoginStart, TypeInv, TypeOK
    <2>6. /\ adapter' \in [Routers -> Adapters]
          /\ \A q \in Routers : GoodAdapter(adapter'[q])
      BY <1>0, <2>1, <2>3, PutAdapter
    <2>7. UNCHANGED <<store, rec, holder, provider, epochs, job, tracker, ghosts>>
      BY <1>16 DEF LoginStart
    <2> QED
      BY <2>1, <2>2, <2>4, <2>5, <2>6, <2>7 DEF TypeInv, TypeOK
  <1>17. ASSUME NEW r \in Routers, LoginLock(r) PROVE TypeInv'
    <2>1. [login[r] EXCEPT !.at = "signing"] \in Logins
      BY <1>0, NewLogin
    <2>2. login' = [login EXCEPT ![r] = [login[r] EXCEPT !.at = "signing"]]
      BY <1>17 DEF LoginLock, Holders
    <2> QED
      BY <1>17, <1>0, <2>1, <2>2 DEF LoginLock, Holders, TypeInv, TypeOK
  <1>18. ASSUME NEW r \in Routers, LoginPublish(r) PROVE TypeInv'
    <2>1. [login[r] EXCEPT !.at = "published"] \in Logins
      BY <1>0, NewLogin
    <2>2. login' = [login EXCEPT ![r] = [login[r] EXCEPT !.at = "published"]]
      BY <1>18 DEF LoginPublish, CredentialSet
    <2> QED
      BY <1>18, <1>0, <2>1, <2>2 DEF LoginPublish, CredentialSet, TypeInv, TypeOK
  <1>19. ASSUME NEW r \in Routers, LoginRecord(r) PROVE TypeInv'
    <2>1. [login[r] EXCEPT !.at = "ended", !.ok = TRUE] \in Logins
      BY <1>0, NewLogin
    <2>2. login' = [login EXCEPT ![r] = [login[r] EXCEPT !.at = "ended", !.ok = TRUE]]
      BY <1>19 DEF LoginRecord, Release
    <2>3. rec' \in Records
      BY <1>19, <1>0, NewRecord DEF LoginRecord, Outcomes
    <2> QED
      BY <1>19, <1>0, <2>1, <2>2, <2>3 DEF LoginRecord, Release, TypeInv, TypeOK
  <1>20. ASSUME NEW r \in Routers, LoginFails(r) PROVE TypeInv'
    <2>1. [login[r] EXCEPT !.at = "ended"] \in Logins
      BY <1>0, NewLogin
    <2>2. login' = [login EXCEPT ![r] = [login[r] EXCEPT !.at = "ended"]]
      BY <1>20 DEF LoginFails
    <2> QED
      BY <1>20, <1>0, <2>1, <2>2 DEF LoginFails, TypeInv, TypeOK
  <1>21. ASSUME NEW r \in Routers, LoginOpen(r) PROVE TypeInv'
    <2>1. [login[r] EXCEPT !.at = IF login[r].ok THEN "open" ELSE "no"] \in Logins
      BY <1>0, NewLogin
    <2>2. login' = [login EXCEPT ![r] = [login[r] EXCEPT !.at = IF login[r].ok THEN "open" ELSE "no"]]
      BY <1>21 DEF LoginOpen, QueueHandoffs
    <2> QED
      BY <1>21, <1>0, <2>1, <2>2 DEF LoginOpen, QueueHandoffs, TypeInv, TypeOK
  <1>22. ASSUME NEW r \in Routers, LoginNotes(r) PROVE TypeInv'
    <2>1. [login[r] EXCEPT !.at = "noting", !.write = SuccessRecord] \in Logins
      BY <1>0, NewLogin, NewRecord DEF TypeInv
    <2>2. login' = [login EXCEPT ![r] = [login[r] EXCEPT !.at = "noting", !.write = SuccessRecord]]
      BY <1>22 DEF LoginNotes
    <2> QED
      BY <1>22, <1>0, <2>1, <2>2, NewRecord DEF LoginNotes, TypeInv, TypeOK
  <1>23. ASSUME NEW r \in Routers, LoginNoted(r) PROVE TypeInv'
    <2>1. NoLogin \in Logins
      BY <1>0, NewLogin
    <2>2. login' = [login EXCEPT ![r] = NoLogin]
      BY <1>23 DEF LoginNoted
    <2> QED
      BY <1>23, <1>0, <2>1, <2>2, LoginFields DEF LoginNoted, TypeInv, TypeOK
  <1>24. ASSUME NEW r \in Routers, Reconsider(r) PROVE TypeInv'
    BY <1>24, <1>0 DEF Reconsider, Rejected, TypeInv, TypeOK
  <1>25. ASSUME NEW r \in Routers, Crash(r) PROVE TypeInv'
    <2>1. GoodJob(NoJob) /\ GoodAdapter(NoAdapter) /\ NoLogin \in Logins
      BY <1>0, NewJob, NewAdapter, NewLogin
    <2>2. /\ job' = [job EXCEPT ![r] = NoJob] /\ adapter' = [adapter EXCEPT ![r] = NoAdapter]
          /\ login' = [login EXCEPT ![r] = NoLogin]
      BY <1>25 DEF Crash
    <2>3. left' \in [faults : Nat, expiries : Nat, acts : Nat] /\ lost' \in BOOLEAN
      BY <1>25, <1>0, SpendTypes DEF Crash, Fault, TypeOK
    <2>4. /\ dir' \in [Routers -> {"none", "open", "held"}]
          /\ pin' \in [Routers -> {"fresh", "stale", "queued"}]
          /\ tracker' \in [Routers -> BOOLEAN]
      BY <1>25 DEF Crash, TypeInv, TypeOK
    <2>5. holder' \in Holders \cup {None}
      BY <1>25 DEF Crash, HolderAfter, TypeInv, TypeOK
    <2>6. /\ job' \in [Routers -> Jobs] /\ adapter' \in [Routers -> Adapters]
          /\ \A q \in Routers : GoodJob(job'[q]) /\ GoodAdapter(adapter'[q])
      BY <2>1, <2>2, PutJob, PutAdapter
    <2>7. UNCHANGED <<store, rec, provider, epochs, raced>>
      BY <1>25 DEF Crash
    <2> QED
      BY <2>1, <2>2, <2>3, <2>4, <2>5, <2>6, <2>7 DEF TypeInv, TypeOK
  <1>26. CASE NativeLogin
    BY <1>26, <1>0, SpendTypes DEF NativeLogin, CredentialSet, TypeInv, TypeOK
  <1>27. CASE Expire
    BY <1>27, <1>0, SpendTypes DEF Expire, TypeInv, TypeOK
  <1>28. CASE Revoke
    BY <1>28, <1>0, SpendTypes DEF Revoke, Fault, TypeInv, TypeOK
  <1>29. CASE Cool
    BY <1>29, <1>0, NewRecord DEF Cool, TypeInv, TypeOK
  <1>30. CASE UNCHANGED vars
    BY <1>30 DEF vars, TypeInv, TypeOK
  <1> QED
    BY <1>1, <1>2, <1>3, <1>4, <1>5, <1>6, <1>7, <1>8, <1>9, <1>10, <1>11, <1>12, <1>13,
       <1>14, <1>15, <1>16, <1>17, <1>18, <1>19, <1>20, <1>21, <1>22, <1>23, <1>24, <1>25,
       <1>26, <1>27, <1>28, <1>29, <1>30
    DEF Next, LaunchStep, RepairStep, LoginStep

\* Every step keeps the lock with the one who works under it.
LEMMA LockStep ==
    ASSUME CredentialAssumption, TypeInv, LockInv, [Next]_vars
    PROVE  LockInv'
  <1> USE DEF provider, local, ghosts
  <1>0. /\ job \in [Routers -> Jobs] /\ login \in [Routers -> Logins]
        /\ adapter \in [Routers -> Adapters] /\ dir \in [Routers -> {"none", "open", "held"}]
        /\ pin \in [Routers -> {"fresh", "stale", "queued"}]
        /\ holder \in Holders \cup {None}
    BY DEF TypeInv, TypeOK
  <1>1. ASSUME NEW r \in Routers, RequestAdapter(r) PROVE LockInv'
    BY <1>1, <1>0 DEF RequestAdapter, Asks, NoJob, LockInv, InRepair, Holders, Jobs
  <1>2. ASSUME NEW r \in Routers, RequestCurrent(r) PROVE LockInv'
    BY <1>2, <1>0 DEF RequestCurrent, Asks, NoJob, LockInv, InRepair, Holders, Jobs
  <1>3. ASSUME NEW r \in Routers, Served(r) PROVE LockInv'
    BY <1>3, <1>0 DEF Served, NoJob, LockInv, InRepair, Holders, Jobs
  <1>4. ASSUME NEW r \in Routers, Denied(r) PROVE LockInv'
    BY <1>4, <1>0 DEF Denied, LockInv, InRepair, Holders, Jobs
  <1>5. ASSUME NEW r \in Routers, AcquireRepair(r) PROVE LockInv'
    <2>1. CASE Answered(r) # None
      <3>1. /\ job' = [job EXCEPT ![r] = [job[r] EXCEPT !.at = "done", !.outcome = Answered(r)]]
            /\ UNCHANGED <<login, holder>>
        BY <1>5, <2>1 DEF AcquireRepair, Ends
      <3> QED
        BY <1>0, <3>1 DEF LockInv, InRepair, Jobs
    <2>2. CASE Answered(r) = None
      <3>1. /\ holder = None
            /\ holder' = [who |-> r, what |-> "repair"] /\ UNCHANGED login
            /\ job' = [job EXCEPT ![r] = [job[r] EXCEPT !.at = "refreshing", !.cred = store]]
        BY <1>5, <2>2 DEF AcquireRepair, Free
      <3>2. \A q \in Routers : job[q].at \notin InRepair
                               /\ login[q].at \notin {"signing", "published"}
        BY <3>1 DEF LockInv, CredentialAssumption, Holders
      <3> QED
        BY <1>0, <3>1, <3>2 DEF LockInv
    <2> QED
      BY <2>1, <2>2
  <1>6. ASSUME NEW r \in Routers, AcquireTimesOut(r) PROVE LockInv'
    BY <1>6, <1>0 DEF AcquireTimesOut, Ends, LockInv, InRepair, Holders, Jobs
  <1>7. ASSUME NEW r \in Routers, Refresh(r) PROVE LockInv'
    BY <1>7, <1>0 DEF Refresh, LockInv, InRepair, Holders, Jobs
  <1>8. ASSUME NEW r \in Routers, Compare(r) PROVE LockInv'
    <2>1. \A q \in Routers \ {r} : job[q].at \notin InRepair
      BY <1>8 DEF Compare, LockInv, InRepair
    <2>2. \A q \in Routers : login[q].at \notin {"signing", "published"}
      BY <1>8 DEF Compare, LockInv, InRepair
    <2>3. CASE store # job[r].cred
      <3>1. job' = [job EXCEPT ![r] = [job[r] EXCEPT !.at = "done", !.outcome = "repaired"]]
            /\ UNCHANGED login
        BY <1>8, <2>3 DEF Compare, Ends
      <3> QED
        BY <1>0, <2>1, <2>2, <3>1 DEF LockInv, InRepair, Jobs
    <2>4. CASE store = job[r].cred
      BY <1>8, <1>0, <2>4 DEF Compare, LockInv, InRepair, Jobs
    <2> QED
      BY <2>3, <2>4
  <1>9. ASSUME NEW r \in Routers, Write(r) PROVE LockInv'
    <2>1. \A q \in Routers \ {r} : job[q].at \notin InRepair
      BY <1>9 DEF Write, LockInv, InRepair
    <2>2. \A q \in Routers : login[q].at \notin {"signing", "published"}
      BY <1>9 DEF Write, LockInv, InRepair
    <2>3. /\ job[r].at = "writing" /\ UNCHANGED login
          /\ \/ /\ job' = [job EXCEPT ![r] = [job[r] EXCEPT !.at = "recording"]]
                /\ UNCHANGED holder
             \/ job' = [job EXCEPT ![r] = [job[r] EXCEPT !.at = "done", !.outcome = "unknown"]]
      BY <1>9 DEF Write, Ends
    <2>4. CASE job' = [job EXCEPT ![r] = [job[r] EXCEPT !.at = "done", !.outcome = "unknown"]]
      BY <1>0, <2>1, <2>2, <2>3, <2>4 DEF LockInv, InRepair, Jobs
    <2>5. CASE /\ job' = [job EXCEPT ![r] = [job[r] EXCEPT !.at = "recording"]]
               /\ UNCHANGED holder
      BY <1>0, <2>1, <2>2, <2>3, <2>5 DEF LockInv, InRepair, Jobs
    <2> QED
      BY <2>3, <2>4, <2>5
  <1>10. ASSUME NEW r \in Routers, Record(r) PROVE LockInv'
    BY <1>10, <1>0 DEF Record, Ends, Release, LockInv, InRepair, Holders, Jobs
  <1>11. ASSUME NEW r \in Routers, Finish(r) PROVE LockInv'
    BY <1>11, <1>0 DEF Finish, NoJob, NoAdapter, LockInv, InRepair, Holders, Jobs
  <1>12. ASSUME NEW r \in Routers, Cancel(r) PROVE LockInv'
    BY <1>12, <1>0 DEF Cancel, LockInv, InRepair, Holders, Jobs
  <1>13. ASSUME NEW r \in Routers, LoginStart(r) PROVE LockInv'
    BY <1>13, <1>0 DEF LoginStart, NoLogin, NoAdapter, LockInv, InRepair, Holders, Logins
  <1>14. ASSUME NEW r \in Routers, LoginLock(r) PROVE LockInv'
    BY <1>14, <1>0 DEF LoginLock, Free, LockInv, InRepair, Holders, Logins
  <1>15. ASSUME NEW r \in Routers, LoginPublish(r) PROVE LockInv'
    BY <1>15, <1>0 DEF LoginPublish, LockInv, InRepair, Holders, Logins
  <1>16. ASSUME NEW r \in Routers, LoginRecord(r) PROVE LockInv'
    BY <1>16, <1>0 DEF LoginRecord, Release, LockInv, InRepair, Holders, Jobs, Logins
  <1>17. ASSUME NEW r \in Routers, LoginFails(r) PROVE LockInv'
    BY <1>17, <1>0 DEF LoginFails, LockInv, InRepair, Holders, Logins
  <1>18. ASSUME NEW r \in Routers, LoginOpen(r) PROVE LockInv'
    BY <1>18, <1>0 DEF LoginOpen, QueueHandoffs, LockInv, InRepair, Holders, Logins
  <1>19. ASSUME NEW r \in Routers, LoginNotes(r) PROVE LockInv'
    BY <1>19, <1>0 DEF LoginNotes, LockInv, InRepair, Holders, Logins
  <1>20. ASSUME NEW r \in Routers, LoginNoted(r) PROVE LockInv'
    BY <1>20, <1>0 DEF LoginNoted, NoLogin, LockInv, InRepair, Holders, Logins
  <1>21. ASSUME NEW r \in Routers, Crash(r) PROVE LockInv'
    BY <1>21, <1>0
    DEF Crash, NoJob, NoLogin, NoAdapter, HolderAfter, LockInv, InRepair, Holders, Jobs,
        Logins
  <1>22. CASE UNCHANGED <<job, login, holder>>
    BY <1>22 DEF LockInv, InRepair, Holders
  <1>23. ASSUME NEW r \in Routers,
            Launch(r) \/ MakeRuntime(r) \/ HoldRuntime(r) \/ Reconsider(r)
         PROVE  UNCHANGED <<job, login, holder>>
    BY <1>23 DEF Launch, MakeRuntime, HoldRuntime, Reconsider
  <1>24. ASSUME NativeLogin \/ Expire \/ Revoke \/ Cool
         PROVE  UNCHANGED <<job, login, holder>>
    BY <1>24 DEF NativeLogin, Expire, Revoke, Cool
  <1> QED
    BY <1>1, <1>2, <1>3, <1>4, <1>5, <1>6, <1>7, <1>8, <1>9, <1>10, <1>11, <1>12, <1>13,
       <1>14, <1>15, <1>16, <1>17, <1>18, <1>19, <1>20, <1>21, <1>22, <1>23, <1>24
    DEF Next, LaunchStep, RepairStep, LoginStep, vars

\* A sweep finds no directory between its making and its lock.
LEMMA DirStep ==
    ASSUME CredentialAssumption, TypeInv, DirInv, [Next]_vars
    PROVE  DirInv'
  <1> USE DEF provider, local, ghosts
  <1>0. /\ job \in [Routers -> Jobs] /\ login \in [Routers -> Logins]
        /\ adapter \in [Routers -> Adapters] /\ dir \in [Routers -> {"none", "open", "held"}]
        /\ pin \in [Routers -> {"fresh", "stale", "queued"}]
        /\ holder \in Holders \cup {None}
    BY DEF TypeInv, TypeOK
  <1>1. ASSUME NEW r \in Routers, Launch(r) PROVE DirInv'
    BY <1>1, <1>0 DEF Launch, Swept, NoAdapter, AllocationFree, DirInv, Adapters
  <1>2. ASSUME NEW r \in Routers, MakeRuntime(r) PROVE DirInv'
    BY <1>2, <1>0 DEF MakeRuntime, DirInv, Adapters
  <1>3. ASSUME NEW r \in Routers, HoldRuntime(r) PROVE DirInv'
    <2>1. CASE login[r].at = "no"
      <3>1. PICK x : x.at = "up" /\ adapter' = [adapter EXCEPT ![r] = x]
        <4> DEFINE X == [adapter[r] EXCEPT !.at = "up", !.access = adapter[r].copy.access,
                            !.mark = Marker(adapter[r].copy, rec), !.count = epochs]
        <4>1. X.at = "up"
          BY <1>0 DEF Adapters
        <4>2. adapter' = [adapter EXCEPT ![r] = X]
          BY <1>3, <2>1 DEF HoldRuntime
        <4> QED
          BY <4>1, <4>2
      <3>2. adapter[r].at = "made" /\ dir' = [dir EXCEPT ![r] = IF @ = "open" THEN "held" ELSE @]
        BY <1>3, <2>1 DEF HoldRuntime
      <3> QED
        BY <1>0, <3>1, <3>2 DEF DirInv
    <2>2. CASE login[r].at # "no"
      BY <1>3, <2>2, <1>0 DEF HoldRuntime, NoAdapter, DirInv
    <2> QED
      BY <2>1, <2>2
  <1>4. ASSUME NEW r \in Routers, Finish(r) PROVE DirInv'
    BY <1>4, <1>0 DEF Finish, NoJob, NoAdapter, DirInv, Adapters
  <1>5. ASSUME NEW r \in Routers, LoginStart(r) PROVE DirInv'
    BY <1>5, <1>0 DEF LoginStart, NoLogin, NoAdapter, DirInv, Adapters
  <1>6. ASSUME NEW r \in Routers, Crash(r) PROVE DirInv'
    BY <1>6, <1>0 DEF Crash, NoJob, NoLogin, NoAdapter, HolderAfter, DirInv, Adapters
  <1>7. CASE UNCHANGED <<adapter, dir>>
    BY <1>7 DEF DirInv
  <1>8. ASSUME NEW r \in Routers,
            RequestAdapter(r) \/ RequestCurrent(r) \/ Served(r) \/ Denied(r)
             \/ AcquireRepair(r) \/ AcquireTimesOut(r) \/ Refresh(r)
             \/ Compare(r) \/ Write(r) \/ Record(r) \/ Cancel(r)
             \/ LoginLock(r) \/ LoginPublish(r) \/ LoginRecord(r)
             \/ LoginFails(r) \/ LoginOpen(r) \/ LoginNotes(r)
             \/ LoginNoted(r) \/ Reconsider(r)
         PROVE  UNCHANGED <<adapter, dir>>
    BY <1>8
    DEF RequestAdapter, RequestCurrent, Served, Denied, AcquireRepair, AcquireTimesOut,
        Refresh, Compare, Write, Record, Cancel, LoginLock, LoginPublish, LoginRecord,
        LoginFails, LoginOpen, LoginNotes, LoginNoted, Reconsider
  <1>9. ASSUME NativeLogin \/ Expire \/ Revoke \/ Cool
         PROVE  UNCHANGED <<adapter, dir>>
    BY <1>9 DEF NativeLogin, Expire, Revoke, Cool
  <1> QED
    BY <1>1, <1>2, <1>3, <1>4, <1>5, <1>6, <1>7, <1>8, <1>9
    DEF Next, LaunchStep, RepairStep, LoginStep, vars

\* A pin goes stale only as a sign-in begins, and the sign-in queues it.
LEMMA PinStep ==
    ASSUME CredentialAssumption, TypeInv, PinInv, [Next]_vars
    PROVE  PinInv'
  <1> USE DEF provider, local, ghosts
  <1>0. /\ job \in [Routers -> Jobs] /\ login \in [Routers -> Logins]
        /\ adapter \in [Routers -> Adapters] /\ dir \in [Routers -> {"none", "open", "held"}]
        /\ pin \in [Routers -> {"fresh", "stale", "queued"}]
        /\ holder \in Holders \cup {None}
    BY DEF TypeInv, TypeOK
  <1>1. ASSUME NEW r \in Routers, RequestAdapter(r) PROVE PinInv'
    BY <1>1, <1>0 DEF RequestAdapter, Asks, NoJob, PinInv
  <1>2. ASSUME NEW r \in Routers, LoginStart(r) PROVE PinInv'
    BY <1>2, <1>0 DEF LoginStart, NoLogin, NoAdapter, PinInv, Logins
  <1>3. ASSUME NEW r \in Routers, LoginLock(r) PROVE PinInv'
    BY <1>3, <1>0 DEF LoginLock, Free, PinInv, Logins
  <1>4. ASSUME NEW r \in Routers, LoginPublish(r) PROVE PinInv'
    BY <1>4, <1>0 DEF LoginPublish, PinInv, Logins
  <1>5. ASSUME NEW r \in Routers, LoginRecord(r) PROVE PinInv'
    BY <1>5, <1>0 DEF LoginRecord, Release, PinInv, Logins
  <1>6. ASSUME NEW r \in Routers, LoginFails(r) PROVE PinInv'
    BY <1>6, <1>0 DEF LoginFails, PinInv, Logins
  <1>7. ASSUME NEW r \in Routers, LoginOpen(r) PROVE PinInv'
    BY <1>7, <1>0 DEF LoginOpen, QueueHandoffs, PinInv, Logins
  <1>8. ASSUME NEW r \in Routers, LoginNotes(r) PROVE PinInv'
    BY <1>8, <1>0 DEF LoginNotes, PinInv, Logins
  <1>9. ASSUME NEW r \in Routers, LoginNoted(r) PROVE PinInv'
    BY <1>9, <1>0 DEF LoginNoted, NoLogin, PinInv, Logins
  <1>10. ASSUME NEW r \in Routers, Crash(r) PROVE PinInv'
    BY <1>10, <1>0 DEF Crash, NoJob, NoLogin, NoAdapter, HolderAfter, PinInv, Logins
  <1>11. CASE UNCHANGED <<login, pin>>
    BY <1>11 DEF PinInv
  <1>12. ASSUME NEW r \in Routers,
            Launch(r) \/ MakeRuntime(r) \/ HoldRuntime(r) \/ RequestCurrent(r)
             \/ Served(r) \/ Denied(r) \/ AcquireRepair(r)
             \/ AcquireTimesOut(r) \/ Refresh(r) \/ Compare(r) \/ Write(r)
             \/ Record(r) \/ Finish(r) \/ Cancel(r) \/ Reconsider(r)
         PROVE  UNCHANGED <<login, pin>>
    BY <1>12
    DEF Launch, MakeRuntime, HoldRuntime, RequestCurrent, Served, Denied, AcquireRepair,
        AcquireTimesOut, Refresh, Compare, Write, Record, Finish, Cancel, Reconsider
  <1>13. ASSUME NativeLogin \/ Expire \/ Revoke \/ Cool
         PROVE  UNCHANGED <<login, pin>>
    BY <1>13 DEF NativeLogin, Expire, Revoke, Cool
  <1> QED
    BY <1>1, <1>2, <1>3, <1>4, <1>5, <1>6, <1>7, <1>8, <1>9, <1>10, <1>11, <1>12, <1>13
    DEF Next, LaunchStep, RepairStep, LoginStep, vars

-----------------------------------------------------------------------------
(* What a step may put into a request, a runtime or a sign-in: what it held, *)
(* what the file and the record hold now, or nothing.                        *)

JobMoves ==
    \A q \in Routers :
        \/ job'[q].saw = None /\ job'[q].cred = None
        \/ /\ job'[q].saw = job[q].saw /\ job'[q].count = job[q].count
           /\ job'[q].cred \in {job[q].cred, store}
        \/ /\ job'[q].saw = adapter[q].mark /\ job'[q].count = adapter[q].count
           /\ job'[q].cred = None
        \/ /\ job'[q].saw = Marker(store, rec) /\ job'[q].count = epochs
           /\ job'[q].cred = None

AdapterMoves ==
    \A q \in Routers :
        \/ /\ adapter'[q].mark = adapter[q].mark /\ adapter'[q].count = adapter[q].count
           /\ adapter'[q].copy = adapter[q].copy
        \/ adapter'[q].copy \in {None, store} /\ adapter'[q].mark = None
        \/ /\ adapter[q].copy \in CredentialSet /\ adapter'[q].copy = adapter[q].copy
           /\ adapter'[q].mark = Marker(adapter[q].copy, rec)
           /\ adapter'[q].count = epochs

LoginMoves ==
    \A q \in Routers : login'[q].write \in {None, login[q].write, SuccessRecord}

\* Every step is such a move of the requests ...
LEMMA JobMove ==
    ASSUME CredentialAssumption, TypeInv, [Next]_vars
    PROVE  JobMoves
  <1> USE DEF provider, local, ghosts
  <1>0. /\ job \in [Routers -> Jobs] /\ login \in [Routers -> Logins]
        /\ adapter \in [Routers -> Adapters] /\ dir \in [Routers -> {"none", "open", "held"}]
        /\ pin \in [Routers -> {"fresh", "stale", "queued"}]
        /\ holder \in Holders \cup {None}
    BY DEF TypeInv, TypeOK
  <1>1. ASSUME NEW r \in Routers, RequestAdapter(r) PROVE JobMoves
    BY <1>1, <1>0 DEF RequestAdapter, Asks, NoJob, JobMoves, Jobs
  <1>2. ASSUME NEW r \in Routers, RequestCurrent(r) PROVE JobMoves
    <2>1. PICK x : /\ x \in {"waiting", "sent"}
                   /\ job' = [job EXCEPT ![r] = [NoJob EXCEPT !.at = x, !.token = store.access,
                                     !.saw = Marker(store, rec), !.count = epochs]]
      BY <1>2 DEF RequestCurrent, Asks
    <2> QED
      BY <1>0, <2>1 DEF JobMoves, NoJob
  <1>3. ASSUME NEW r \in Routers, Served(r) PROVE JobMoves
    BY <1>3, <1>0 DEF Served, NoJob, JobMoves, Jobs
  <1>4. ASSUME NEW r \in Routers, Denied(r) PROVE JobMoves
    BY <1>4, <1>0 DEF Denied, JobMoves, Jobs
  <1>5. ASSUME NEW r \in Routers, AcquireRepair(r) PROVE JobMoves
    <2>1. CASE Answered(r) # None
      <3>1. job' = [job EXCEPT ![r] = [job[r] EXCEPT !.at = "done", !.outcome = Answered(r)]]
        BY <1>5, <2>1 DEF AcquireRepair, Ends
      <3> QED
        BY <1>0, <3>1 DEF JobMoves, Jobs
    <2>2. CASE Answered(r) = None
      <3>1. job' = [job EXCEPT ![r] = [job[r] EXCEPT !.at = "refreshing", !.cred = store]]
        BY <1>5, <2>2 DEF AcquireRepair
      <3> QED
        BY <1>0, <3>1 DEF JobMoves, Jobs
    <2> QED
      BY <2>1, <2>2
  <1>6. ASSUME NEW r \in Routers, AcquireTimesOut(r) PROVE JobMoves
    BY <1>6, <1>0 DEF AcquireTimesOut, Ends, JobMoves, Jobs
  <1>7. ASSUME NEW r \in Routers, Refresh(r) PROVE JobMoves
    <2>1. PICK v, o : job' = [job EXCEPT ![r] =
                          [job[r] EXCEPT !.at = "answered", !.value = v, !.outcome = o]]
      BY <1>7, RefreshWrites
    <2> QED
      BY <1>0, <2>1 DEF JobMoves, Jobs
  <1>8. ASSUME NEW r \in Routers, Compare(r) PROVE JobMoves
    <2>1. CASE job' = [job EXCEPT ![r] = [job[r] EXCEPT !.at = "done", !.outcome = "repaired"]]
      BY <1>0, <2>1 DEF JobMoves, Jobs
    <2>2. CASE job' = [job EXCEPT ![r] = [job[r] EXCEPT !.at = "writing"]]
      BY <1>0, <2>2 DEF JobMoves, Jobs
    <2> QED
      BY <1>8, <2>1, <2>2 DEF Compare, Ends
  <1>9. ASSUME NEW r \in Routers, Write(r) PROVE JobMoves
    <2>1. CASE job' = [job EXCEPT ![r] = [job[r] EXCEPT !.at = "done", !.outcome = "unknown"]]
      BY <1>0, <2>1 DEF JobMoves, Jobs
    <2>2. CASE job' = [job EXCEPT ![r] = [job[r] EXCEPT !.at = "recording"]]
      BY <1>0, <2>2 DEF JobMoves, Jobs
    <2> QED
      BY <1>9, <2>1, <2>2 DEF Write, Ends
  <1>10. ASSUME NEW r \in Routers, Record(r) PROVE JobMoves
    BY <1>10, <1>0 DEF Record, Ends, Release, JobMoves, Jobs
  <1>11. ASSUME NEW r \in Routers, Finish(r) PROVE JobMoves
    BY <1>11, <1>0 DEF Finish, NoJob, NoAdapter, JobMoves, Jobs
  <1>12. ASSUME NEW r \in Routers, Cancel(r) PROVE JobMoves
    BY <1>12, <1>0 DEF Cancel, JobMoves, Jobs
  <1>13. ASSUME NEW r \in Routers, LoginRecord(r) PROVE JobMoves
    BY <1>13, <1>0 DEF LoginRecord, Release, JobMoves, Jobs
  <1>14. ASSUME NEW r \in Routers, Crash(r) PROVE JobMoves
    BY <1>14, <1>0 DEF Crash, NoJob, NoLogin, NoAdapter, HolderAfter, JobMoves, Jobs
  <1>15. CASE UNCHANGED <<job>>
    BY <1>15 DEF JobMoves
  <1>16. ASSUME NEW r \in Routers,
            Launch(r) \/ MakeRuntime(r) \/ HoldRuntime(r) \/ LoginStart(r)
             \/ LoginLock(r) \/ LoginPublish(r) \/ LoginFails(r)
             \/ LoginOpen(r) \/ LoginNotes(r) \/ LoginNoted(r)
             \/ Reconsider(r)
         PROVE  UNCHANGED <<job>>
    BY <1>16
    DEF Launch, MakeRuntime, HoldRuntime, LoginStart, LoginLock, LoginPublish, LoginFails,
        LoginOpen, LoginNotes, LoginNoted, Reconsider
  <1>17. ASSUME NativeLogin \/ Expire \/ Revoke \/ Cool
         PROVE  UNCHANGED <<job>>
    BY <1>17 DEF NativeLogin, Expire, Revoke, Cool
  <1> QED
    BY <1>1, <1>2, <1>3, <1>4, <1>5, <1>6, <1>7, <1>8, <1>9, <1>10, <1>11, <1>12, <1>13,
       <1>14, <1>15, <1>16, <1>17
    DEF Next, LaunchStep, RepairStep, LoginStep, vars

\* ... of the adapters ...
LEMMA AdapterMove ==
    ASSUME CredentialAssumption, TypeInv, [Next]_vars
    PROVE  AdapterMoves
  <1> USE DEF provider, local, ghosts
  <1>0. /\ job \in [Routers -> Jobs] /\ login \in [Routers -> Logins]
        /\ adapter \in [Routers -> Adapters] /\ dir \in [Routers -> {"none", "open", "held"}]
        /\ pin \in [Routers -> {"fresh", "stale", "queued"}]
        /\ holder \in Holders \cup {None}
    BY DEF TypeInv, TypeOK
  <1>1. ASSUME NEW r \in Routers, Launch(r) PROVE AdapterMoves
    <2>1. adapter' = [adapter EXCEPT ![r] = [NoAdapter EXCEPT !.at = "swept", !.copy = store]]
      BY <1>1 DEF Launch
    <2> QED
      BY <1>0, <2>1 DEF AdapterMoves, NoAdapter
  <1>2. ASSUME NEW r \in Routers, MakeRuntime(r) PROVE AdapterMoves
    BY <1>2, <1>0 DEF MakeRuntime, AdapterMoves, Adapters
  <1>3. ASSUME NEW r \in Routers, HoldRuntime(r) PROVE AdapterMoves
    <2>1. CASE login[r].at = "no"
      <3>1. adapter[r].copy \in CredentialSet
        BY <1>3, AdapterFields DEF HoldRuntime, TypeInv
      <3>2. PICK t : adapter' = [adapter EXCEPT ![r] =
                  [adapter[r] EXCEPT !.at = "up", !.access = t,
                            !.mark = Marker(adapter[r].copy, rec), !.count = epochs]]
        BY <1>3, <2>1 DEF HoldRuntime
      <3> QED
        BY <1>0, <3>1, <3>2 DEF AdapterMoves, Adapters
    <2>2. CASE login[r].at # "no"
      BY <1>3, <1>0, <2>2 DEF HoldRuntime, NoAdapter, AdapterMoves
    <2> QED
      BY <2>1, <2>2
  <1>4. ASSUME NEW r \in Routers, Finish(r) PROVE AdapterMoves
    BY <1>4, <1>0 DEF Finish, NoJob, NoAdapter, AdapterMoves, Adapters
  <1>5. ASSUME NEW r \in Routers, LoginStart(r) PROVE AdapterMoves
    BY <1>5, <1>0 DEF LoginStart, NoLogin, NoAdapter, AdapterMoves, Adapters
  <1>6. ASSUME NEW r \in Routers, Crash(r) PROVE AdapterMoves
    BY <1>6, <1>0 DEF Crash, NoJob, NoLogin, NoAdapter, HolderAfter, AdapterMoves, Adapters
  <1>7. CASE UNCHANGED <<adapter>>
    BY <1>7 DEF AdapterMoves
  <1>8. ASSUME NEW r \in Routers,
            RequestAdapter(r) \/ RequestCurrent(r) \/ Served(r) \/ Denied(r)
             \/ AcquireRepair(r) \/ AcquireTimesOut(r) \/ Refresh(r)
             \/ Compare(r) \/ Write(r) \/ Record(r) \/ Cancel(r)
             \/ LoginLock(r) \/ LoginPublish(r) \/ LoginRecord(r)
             \/ LoginFails(r) \/ LoginOpen(r) \/ LoginNotes(r)
             \/ LoginNoted(r) \/ Reconsider(r)
         PROVE  UNCHANGED <<adapter>>
    BY <1>8
    DEF RequestAdapter, RequestCurrent, Served, Denied, AcquireRepair, AcquireTimesOut,
        Refresh, Compare, Write, Record, Cancel, LoginLock, LoginPublish, LoginRecord,
        LoginFails, LoginOpen, LoginNotes, LoginNoted, Reconsider
  <1>9. ASSUME NativeLogin \/ Expire \/ Revoke \/ Cool
         PROVE  UNCHANGED <<adapter>>
    BY <1>9 DEF NativeLogin, Expire, Revoke, Cool
  <1> QED
    BY <1>1, <1>2, <1>3, <1>4, <1>5, <1>6, <1>7, <1>8, <1>9
    DEF Next, LaunchStep, RepairStep, LoginStep, vars

\* ... and of the sign-ins.
LEMMA LoginMove ==
    ASSUME CredentialAssumption, TypeInv, [Next]_vars
    PROVE  LoginMoves
  <1> USE DEF provider, local, ghosts
  <1>0. /\ job \in [Routers -> Jobs] /\ login \in [Routers -> Logins]
        /\ adapter \in [Routers -> Adapters] /\ dir \in [Routers -> {"none", "open", "held"}]
        /\ pin \in [Routers -> {"fresh", "stale", "queued"}]
        /\ holder \in Holders \cup {None}
    BY DEF TypeInv, TypeOK
  <1>1. ASSUME NEW r \in Routers, LoginStart(r) PROVE LoginMoves
    BY <1>1, <1>0 DEF LoginStart, NoLogin, NoAdapter, LoginMoves, Logins
  <1>2. ASSUME NEW r \in Routers, LoginLock(r) PROVE LoginMoves
    BY <1>2, <1>0 DEF LoginLock, Free, LoginMoves, Logins
  <1>3. ASSUME NEW r \in Routers, LoginPublish(r) PROVE LoginMoves
    BY <1>3, <1>0 DEF LoginPublish, LoginMoves, Logins
  <1>4. ASSUME NEW r \in Routers, LoginRecord(r) PROVE LoginMoves
    BY <1>4, <1>0 DEF LoginRecord, Release, LoginMoves, Logins
  <1>5. ASSUME NEW r \in Routers, LoginFails(r) PROVE LoginMoves
    BY <1>5, <1>0 DEF LoginFails, LoginMoves, Logins
  <1>6. ASSUME NEW r \in Routers, LoginOpen(r) PROVE LoginMoves
    BY <1>6, <1>0 DEF LoginOpen, QueueHandoffs, LoginMoves, Logins
  <1>7. ASSUME NEW r \in Routers, LoginNotes(r) PROVE LoginMoves
    <2>1. login' = [login EXCEPT ![r] = [login[r] EXCEPT !.at = "noting", !.write = SuccessRecord]]
      BY <1>7 DEF LoginNotes
    <2> QED
      BY <1>0, <2>1 DEF LoginMoves, Logins
  <1>8. ASSUME NEW r \in Routers, LoginNoted(r) PROVE LoginMoves
    BY <1>8, <1>0 DEF LoginNoted, NoLogin, LoginMoves, Logins
  <1>9. ASSUME NEW r \in Routers, Crash(r) PROVE LoginMoves
    BY <1>9, <1>0 DEF Crash, NoJob, NoLogin, NoAdapter, HolderAfter, LoginMoves, Logins
  <1>10. CASE UNCHANGED <<login>>
    BY <1>10 DEF LoginMoves
  <1>11. ASSUME NEW r \in Routers,
            Launch(r) \/ MakeRuntime(r) \/ HoldRuntime(r) \/ RequestAdapter(r)
             \/ RequestCurrent(r) \/ Served(r) \/ Denied(r)
             \/ AcquireRepair(r) \/ AcquireTimesOut(r) \/ Refresh(r)
             \/ Compare(r) \/ Write(r) \/ Record(r) \/ Finish(r) \/ Cancel(r)
             \/ Reconsider(r)
         PROVE  UNCHANGED <<login>>
    BY <1>11
    DEF Launch, MakeRuntime, HoldRuntime, RequestAdapter, RequestCurrent, Served, Denied,
        AcquireRepair, AcquireTimesOut, Refresh, Compare, Write, Record, Finish, Cancel,
        Reconsider
  <1>12. ASSUME NativeLogin \/ Expire \/ Revoke \/ Cool
         PROVE  UNCHANGED <<login>>
    BY <1>12 DEF NativeLogin, Expire, Revoke, Cool
  <1> QED
    BY <1>1, <1>2, <1>3, <1>4, <1>5, <1>6, <1>7, <1>8, <1>9, <1>10, <1>11, <1>12
    DEF Next, LaunchStep, RepairStep, LoginStep, vars

-----------------------------------------------------------------------------
(* A token that is not applied yet is unseen.                              *)

\* What a step leaves in the record.
LEMMA RecordMove ==
    ASSUME CredentialAssumption, TypeInv, [Next]_vars
    PROVE  \/ rec'.gen \in {rec.gen, store}
           \/ \E q \in Routers : login[q].write # None /\ rec'.gen = login[q].write.gen
  <1> USE DEF provider, local, ghosts
  <1>1. SuccessRecord # None => SuccessRecord.gen = store
    BY DEF SuccessRecord
  <1>2. ASSUME NEW r \in Routers, Served(r)
        PROVE  rec'.gen \in {rec.gen, store}
    BY <1>1, <1>2 DEF Served
  <1>3. ASSUME NEW r \in Routers, Record(r) PROVE rec'.gen = store
    BY <1>3 DEF Record
  <1>4. ASSUME NEW r \in Routers, LoginRecord(r) PROVE rec'.gen = store
    BY <1>4 DEF LoginRecord
  <1>5. ASSUME NEW r \in Routers, LoginNoted(r)
        PROVE  rec' = rec \/ (login[r].write # None /\ rec' = login[r].write)
    BY <1>5 DEF LoginNoted
  <1>6. CASE Cool
    BY <1>6 DEF Cool, TypeInv, TypeOK, Records
  <1>7. ASSUME NEW r \in Routers,
               \/ LaunchStep(r) \/ AcquireRepair(r) \/ Refresh(r) \/ Compare(r) \/ Write(r)
               \/ Finish(r) \/ LoginOpen(r) \/ LoginNotes(r)
        PROVE  UNCHANGED rec
    BY <1>7
    DEF LaunchStep, Launch, MakeRuntime, HoldRuntime, AcquireRepair, Refresh, Compare,
                Write, Finish, LoginOpen, LoginNotes
  <1>8. ASSUME NEW r \in Routers,
               \/ RequestAdapter(r) \/ RequestCurrent(r) \/ Denied(r) \/ AcquireTimesOut(r)
               \/ Cancel(r) \/ LoginStart(r) \/ LoginLock(r) \/ LoginPublish(r)
               \/ LoginFails(r) \/ Reconsider(r) \/ Crash(r)
        PROVE  UNCHANGED rec
    BY <1>8 DEF RequestAdapter, RequestCurrent, Denied, AcquireTimesOut, Cancel, LoginStart,
                LoginLock, LoginPublish, LoginFails, Reconsider, Crash
  <1>9. CASE NativeLogin \/ Expire \/ Revoke \/ UNCHANGED vars
    BY <1>9 DEF NativeLogin, Expire, Revoke, vars
  <1> QED
    BY <1>2, <1>3, <1>4, <1>5, <1>6, <1>7, <1>8, <1>9 DEF Next, RepairStep, LoginStep

\* What a step leaves in the file.
LEMMA StoreMove ==
    ASSUME CredentialAssumption, TypeInv, [Next]_vars
    PROVE  \/ store' = store /\ last' \in {last, last + 1}
           \/ /\ store' = [access |-> last + 1, refresh |-> last + 1] /\ last' = last + 1
              /\ UNCHANGED job
              /\ NativeLogin \/ \E r \in Routers : LoginPublish(r)
           \/ /\ last' = last
              /\ \E r \in Routers : /\ Write(r) /\ job[r].value # None
                                    /\ store' = job[r].value
                                    /\ job' = [job EXCEPT ![r].at = "recording"]
  <1> USE DEF provider, local, ghosts
  <1>1. ASSUME NEW r \in Routers, Write(r)
        PROVE  /\ last' = last
               /\ \/ store' = store
                  \/ /\ job[r].value # None /\ store' = job[r].value
                     /\ job' = [job EXCEPT ![r].at = "recording"]
    BY <1>1 DEF Write
  <1>2. CASE NativeLogin \/ \E r \in Routers : LoginPublish(r)
    BY <1>2 DEF NativeLogin, LoginPublish
  <1>3. ASSUME NEW r \in Routers, Refresh(r) PROVE store' = store /\ last' \in {last, last + 1}
    BY <1>3 DEF Refresh
  <1>4. ASSUME NEW r \in Routers,
               \/ LaunchStep(r) \/ AcquireRepair(r) \/ Compare(r) \/ Record(r)
               \/ Finish(r) \/ LoginStep(r)
        PROVE  UNCHANGED <<store, last>>
    BY <1>4
    DEF LaunchStep, LoginStep, Launch, MakeRuntime, HoldRuntime, AcquireRepair, Compare,
                Record, Finish, LoginOpen, LoginNotes, LoginNoted, LoginRecord
  <1>5. ASSUME NEW r \in Routers,
               \/ RequestAdapter(r) \/ RequestCurrent(r) \/ Served(r) \/ Denied(r)
               \/ AcquireTimesOut(r) \/ Cancel(r) \/ LoginStart(r) \/ LoginLock(r)
               \/ LoginFails(r) \/ Reconsider(r) \/ Crash(r)
        PROVE  UNCHANGED <<store, last>>
    BY <1>5 DEF RequestAdapter, RequestCurrent, Served, Denied, AcquireTimesOut, Cancel,
                LoginStart, LoginLock, LoginFails, Reconsider, Crash
  <1>6. CASE Expire \/ Revoke \/ Cool \/ UNCHANGED vars
    BY <1>6 DEF Expire, Revoke, Cool, vars
  <1> QED
    BY <1>1, <1>2, <1>3, <1>4, <1>5, <1>6 DEF Next, RepairStep

\* No step shows a token except by writing it to the file.
LEMMA UnseenStep ==
    ASSUME CredentialAssumption, TypeInv, [Next]_vars, NEW a, Unseen(a), store'.access # a
    PROVE  Unseen(a)'
  <1>1. rec'.gen # None => rec'.gen.access # a
    BY RecordMove DEF Unseen, TypeInv, TypeOK
  <1>2. \A c : Marker(c, rec).gen = c
    BY DEF Marker
  <1>3. SuccessRecord # None => SuccessRecord.gen = store
    BY DEF SuccessRecord
  <1>4. \A q \in Routers : /\ job'[q].saw # None => job'[q].saw.gen.access # a
                           /\ job'[q].cred # None => job'[q].cred.access # a
    BY <1>2, JobMove DEF JobMoves, Unseen
  <1>5. \A q \in Routers : /\ adapter'[q].mark # None => adapter'[q].mark.gen.access # a
                           /\ adapter'[q].copy # None => adapter'[q].copy.access # a
    BY <1>2, AdapterMove DEF AdapterMoves, Unseen, CredentialAssumption
  <1>6. \A q \in Routers : login'[q].write # None => login'[q].write.gen.access # a
    BY <1>3, LoginMove DEF LoginMoves, Unseen
  <1> QED
    BY <1>1, <1>4, <1>5, <1>6 DEF Unseen

\* A value is what the provider issued, and it is pending until it is applied.
ValueMoves ==
    \A q \in Routers :
        \/ job'[q].value = None
        \/ /\ job'[q].value = job[q].value
           /\ job'[q].at \in {"answered", "writing"} => job[q].at \in {"answered", "writing"}
        \/ /\ job[q].at = "refreshing" /\ Live(q) /\ last' = last + 1 /\ store' = store
           /\ \E rotates \in BOOLEAN : job'[q].value = Issued(q, rotates)

\* Every step is such a move of the answers.
LEMMA ValueMove ==
    ASSUME CredentialAssumption, TypeInv, [Next]_vars
    PROVE  ValueMoves
  <1> USE DEF provider, local, ghosts
  <1>0. /\ job \in [Routers -> Jobs] /\ login \in [Routers -> Logins]
        /\ adapter \in [Routers -> Adapters] /\ dir \in [Routers -> {"none", "open", "held"}]
        /\ pin \in [Routers -> {"fresh", "stale", "queued"}]
        /\ holder \in Holders \cup {None}
    BY DEF TypeInv, TypeOK
  <1>1. ASSUME NEW r \in Routers, RequestAdapter(r) PROVE ValueMoves
    BY <1>1, <1>0 DEF RequestAdapter, Asks, NoJob, ValueMoves, Jobs
  <1>2. ASSUME NEW r \in Routers, RequestCurrent(r) PROVE ValueMoves
    <2>1. PICK x : /\ x \in {"waiting", "sent"}
                   /\ job' = [job EXCEPT ![r] = [NoJob EXCEPT !.at = x, !.token = store.access,
                                     !.saw = Marker(store, rec), !.count = epochs]]
      BY <1>2 DEF RequestCurrent, Asks
    <2> QED
      BY <1>0, <2>1 DEF ValueMoves, NoJob
  <1>3. ASSUME NEW r \in Routers, Served(r) PROVE ValueMoves
    BY <1>3, <1>0 DEF Served, NoJob, ValueMoves, Jobs
  <1>4. ASSUME NEW r \in Routers, Denied(r) PROVE ValueMoves
    BY <1>4, <1>0 DEF Denied, ValueMoves, Jobs
  <1>5. ASSUME NEW r \in Routers, AcquireRepair(r) PROVE ValueMoves
    <2>1. CASE Answered(r) # None
      <3>1. job' = [job EXCEPT ![r] = [job[r] EXCEPT !.at = "done", !.outcome = Answered(r)]]
        BY <1>5, <2>1 DEF AcquireRepair, Ends
      <3> QED
        BY <1>0, <3>1 DEF ValueMoves, Jobs
    <2>2. CASE Answered(r) = None
      <3>1. job' = [job EXCEPT ![r] = [job[r] EXCEPT !.at = "refreshing", !.cred = store]]
        BY <1>5, <2>2 DEF AcquireRepair
      <3> QED
        BY <1>0, <3>1 DEF ValueMoves, Jobs
    <2> QED
      BY <2>1, <2>2
  <1>6. ASSUME NEW r \in Routers, AcquireTimesOut(r) PROVE ValueMoves
    BY <1>6, <1>0 DEF AcquireTimesOut, Ends, ValueMoves, Jobs
  <1>7. ASSUME NEW r \in Routers, Refresh(r) PROVE ValueMoves
    <2>1. PICK rotates \in BOOLEAN, arrives \in BOOLEAN : Answers(r, rotates, arrives)
      BY <1>7 DEF Refresh, Answers, Live, Issued
    <2>2. \A q \in Routers \ {r} : job'[q] = job[q]
      BY <1>0, <2>1 DEF Answers
    <2>3. job'[r].value = IF Live(r) /\ arrives THEN Issued(r, rotates) ELSE None
      BY <1>0, <2>1 DEF Answers, Jobs
    <2>4. Live(r) => last' = last + 1
      BY <2>1 DEF Answers
    <2>5. job[r].at = "refreshing" /\ store' = store
      BY <1>7 DEF Refresh
    <2> QED
      BY <2>2, <2>3, <2>4, <2>5 DEF ValueMoves, Pending
  <1>8. ASSUME NEW r \in Routers, Compare(r) PROVE ValueMoves
    <2>0. job[r].at = "answered"
      BY <1>8 DEF Compare
    <2>1. CASE job' = [job EXCEPT ![r] = [job[r] EXCEPT !.at = "done", !.outcome = "repaired"]]
      BY <1>0, <2>0, <2>1 DEF ValueMoves, Jobs
    <2>2. CASE job' = [job EXCEPT ![r] = [job[r] EXCEPT !.at = "writing"]]
      BY <1>0, <2>0, <2>2 DEF ValueMoves, Jobs
    <2> QED
      BY <1>8, <2>1, <2>2 DEF Compare, Ends
  <1>9. ASSUME NEW r \in Routers, Write(r) PROVE ValueMoves
    <2>0. job[r].at = "writing"
      BY <1>9 DEF Write
    <2>1. CASE job' = [job EXCEPT ![r] = [job[r] EXCEPT !.at = "done", !.outcome = "unknown"]]
      BY <1>0, <2>0, <2>1 DEF ValueMoves, Jobs
    <2>2. CASE job' = [job EXCEPT ![r] = [job[r] EXCEPT !.at = "recording"]]
      BY <1>0, <2>0, <2>2 DEF ValueMoves, Jobs
    <2> QED
      BY <1>9, <2>1, <2>2 DEF Write, Ends
  <1>10. ASSUME NEW r \in Routers, Record(r) PROVE ValueMoves
    BY <1>10, <1>0 DEF Record, Ends, Release, ValueMoves, Jobs
  <1>11. ASSUME NEW r \in Routers, Finish(r) PROVE ValueMoves
    BY <1>11, <1>0 DEF Finish, NoJob, NoAdapter, ValueMoves, Jobs
  <1>12. ASSUME NEW r \in Routers, Cancel(r) PROVE ValueMoves
    BY <1>12, <1>0 DEF Cancel, ValueMoves, Jobs
  <1>13. ASSUME NEW r \in Routers, LoginRecord(r) PROVE ValueMoves
    BY <1>13, <1>0 DEF LoginRecord, Release, ValueMoves, Jobs
  <1>14. ASSUME NEW r \in Routers, Crash(r) PROVE ValueMoves
    BY <1>14, <1>0 DEF Crash, NoJob, NoLogin, NoAdapter, HolderAfter, ValueMoves, Jobs
  <1>15. CASE UNCHANGED <<job>>
    BY <1>15 DEF ValueMoves
  <1>16. ASSUME NEW r \in Routers,
            Launch(r) \/ MakeRuntime(r) \/ HoldRuntime(r) \/ LoginStart(r)
             \/ LoginLock(r) \/ LoginPublish(r) \/ LoginFails(r)
             \/ LoginOpen(r) \/ LoginNotes(r) \/ LoginNoted(r)
             \/ Reconsider(r)
         PROVE  UNCHANGED <<job>>
    BY <1>16
    DEF Launch, MakeRuntime, HoldRuntime, LoginStart, LoginLock, LoginPublish, LoginFails,
        LoginOpen, LoginNotes, LoginNoted, Reconsider
  <1>17. ASSUME NativeLogin \/ Expire \/ Revoke \/ Cool
         PROVE  UNCHANGED <<job>>
    BY <1>17 DEF NativeLogin, Expire, Revoke, Cool
  <1> QED
    BY <1>1, <1>2, <1>3, <1>4, <1>5, <1>6, <1>7, <1>8, <1>9, <1>10, <1>11, <1>12, <1>13,
       <1>14, <1>15, <1>16, <1>17
    DEF Next, LaunchStep, RepairStep, LoginStep, vars

\* Every step keeps new tokens unseen.
LEMMA SeenStep ==
    ASSUME CredentialAssumption, TypeInv, LockInv, SeenInv, [Next]_vars
    PROVE  SeenInv'
  <1>0. /\ last \in Nat /\ last' \in {last, last + 1} /\ store \in CredentialSet
        /\ store.access \in Nat /\ store.refresh \in Nat
        /\ \A q \in Routers : GoodJob(job[q])
    BY StoreMove DEF TypeInv, TypeOK, CredentialSet
  <1>a. ~(store.access > last)
    BY <1>0 DEF SeenInv, Unseen
  <1>1. store'.access <= last' /\ store'.access \in Nat
    <2>1. CASE store' = store
      BY <1>0, <1>a, <2>1
    <2>2. CASE store' = [access |-> last + 1, refresh |-> last + 1] /\ last' = last + 1
      BY <1>0, <2>2
    <2>3. ASSUME NEW r \in Routers, last' = last, job[r].value # None, store' = job[r].value
          PROVE  store'.access <= last' /\ store'.access \in Nat
      BY <1>0, <2>3, JobFields DEF SeenInv, CredentialSet
    <2> QED
      BY <2>1, <2>2, <2>3, StoreMove
  <1>2. ASSUME NEW a \in Nat, a > last' PROVE Unseen(a)'
    <2>1. a > last /\ store'.access # a
      BY <1>0, <1>1, <1>2
    <2> QED
      BY <2>1, UnseenStep DEF SeenInv
  <1>3. ASSUME NEW r \in Routers, Pending(r)' PROVE Unseen(job[r].value.access)'
    <2>1. CASE /\ job'[r].value = job[r].value /\ job[r].at \in {"answered", "writing"}
      <3>1. Pending(r)
        BY <1>3, <2>1 DEF Pending
      <3>2. Unseen(job[r].value.access)
        BY <3>1 DEF SeenInv
      <3>3. store'.access # job[r].value.access
        <4>1. CASE store' = store
          BY <3>2, <4>1 DEF Unseen
        <4>2. CASE store' = [access |-> last + 1, refresh |-> last + 1]
          <5>1. job[r].value.access <= last /\ job[r].value.access \in Nat
            BY <1>0, <3>1, JobFields DEF SeenInv, Pending, CredentialSet
          <5> QED
            BY <1>0, <4>2, <5>1
        <4>3. ASSUME NEW q \in Routers, Write(q), job' = [job EXCEPT ![q].at = "recording"]
              PROVE  FALSE
          <5>1. job[q].at = "writing" /\ job[q].at \in InRepair /\ job[r].at \in InRepair
            BY <4>3, <2>1 DEF Write, InRepair
          <5>2. q = r
            BY <5>1 DEF LockInv
          <5>3. job'[r].at = "recording"
            BY <4>3, <5>2 DEF TypeInv, TypeOK, Jobs
          <5> QED
            BY <1>3, <5>3 DEF Pending
        <4> QED
          BY <4>1, <4>2, <4>3, StoreMove
      <3> QED
        BY <2>1, <3>2, <3>3, UnseenStep
    <2>2. ASSUME NEW rotates \in BOOLEAN, job'[r].value = Issued(r, rotates), store' = store
          PROVE  Unseen(job[r].value.access)'
      <3>1. job'[r].value.access = last + 1
        BY <2>2 DEF Issued
      <3>2. PICK n \in Nat : n = last + 1
        BY <1>0
      <3>3. Unseen(n) /\ store'.access # n
        BY <1>0, <1>a, <2>2, <3>2 DEF SeenInv
      <3>4. Unseen(n)'
        BY <3>3, UnseenStep
      <3>5. n = job'[r].value.access
        BY <3>1, <3>2
      <3> QED
        BY <3>4, <3>5
    <2> QED
      BY <1>3, <2>1, <2>2, ValueMove DEF ValueMoves, Pending
  <1>4. store'.refresh <= last'
    <2>1. CASE store' = store
      BY <1>0, <2>1 DEF SeenInv
    <2>2. CASE store' = [access |-> last + 1, refresh |-> last + 1] /\ last' = last + 1
      BY <1>0, <2>2
    <2>3. ASSUME NEW r \in Routers, last' = last, job[r].value # None, store' = job[r].value
          PROVE  store'.refresh <= last'
      BY <2>3 DEF SeenInv
    <2> QED
      BY <2>1, <2>2, <2>3, StoreMove
  <1>5. ASSUME NEW r \in Routers, job'[r].cred # None PROVE job'[r].cred.refresh <= last'
    <2>1. job'[r].cred \in {job[r].cred, store}
      BY <1>5, JobMove DEF JobMoves
    <2>2. job'[r].cred.refresh \in Nat /\ job'[r].cred.refresh <= last
      BY <1>0, <1>5, <2>1, JobFields DEF SeenInv, CredentialSet
    <2> QED
      BY <1>0, <2>2
  <1>6. ASSUME NEW r \in Routers, job'[r].value # None
        PROVE  job'[r].value.access <= last' /\ job'[r].value.refresh <= last'
    <2>1. CASE job'[r].value = job[r].value
      BY <1>0, <1>6, <2>1, JobFields DEF SeenInv, CredentialSet
    <2>2. ASSUME NEW rotates \in BOOLEAN, job'[r].value = Issued(r, rotates),
                 job[r].at = "refreshing", last' = last + 1
          PROVE  job'[r].value.access <= last' /\ job'[r].value.refresh <= last'
      <3>1. job[r].cred.refresh \in Nat /\ job[r].cred.refresh <= last
        BY <1>0, <2>2, JobFields DEF SeenInv, CredentialSet, InRepair, CredentialAssumption
      <3> QED
        BY <1>0, <2>2, <3>1 DEF Issued
    <2> QED
      BY <1>6, <2>1, <2>2, ValueMove DEF ValueMoves
  <1> QED
    BY <1>2, <1>3, <1>4, <1>5, <1>6 DEF SeenInv

-----------------------------------------------------------------------------
(* The marker of a request tells whether anybody repaired since.           *)

\* A repair begins under the marker that is current, and goes on with it.
RefreshingMoves ==
    \A q \in Routers :
        job'[q].at = "refreshing" =>
            /\ job'[q].count = job[q].count
            /\ \/ job[q].at = "refreshing"
               \/ job[q].saw = Marker(store, rec) /\ UNCHANGED <<epochs, raced>>

\* Every step is such a move of the repairs.
LEMMA RefreshingMove ==
    ASSUME CredentialAssumption, TypeInv, [Next]_vars
    PROVE  RefreshingMoves
  <1> USE DEF provider, local, ghosts
  <1>0. /\ job \in [Routers -> Jobs] /\ login \in [Routers -> Logins]
        /\ adapter \in [Routers -> Adapters] /\ dir \in [Routers -> {"none", "open", "held"}]
        /\ pin \in [Routers -> {"fresh", "stale", "queued"}]
        /\ holder \in Holders \cup {None}
    BY DEF TypeInv, TypeOK
  <1>1. ASSUME NEW r \in Routers, RequestAdapter(r) PROVE RefreshingMoves
    BY <1>1, <1>0 DEF RequestAdapter, Asks, NoJob, RefreshingMoves, Jobs
  <1>2. ASSUME NEW r \in Routers, RequestCurrent(r) PROVE RefreshingMoves
    <2>1. PICK x : /\ x \in {"waiting", "sent"}
                   /\ job' = [job EXCEPT ![r] = [NoJob EXCEPT !.at = x, !.token = store.access,
                                     !.saw = Marker(store, rec), !.count = epochs]]
      BY <1>2 DEF RequestCurrent, Asks
    <2> QED
      BY <1>0, <2>1 DEF RefreshingMoves, NoJob
  <1>3. ASSUME NEW r \in Routers, Served(r) PROVE RefreshingMoves
    BY <1>3, <1>0 DEF Served, NoJob, RefreshingMoves, Jobs
  <1>4. ASSUME NEW r \in Routers, Denied(r) PROVE RefreshingMoves
    BY <1>4, <1>0 DEF Denied, RefreshingMoves, Jobs
  <1>5. ASSUME NEW r \in Routers, AcquireRepair(r) PROVE RefreshingMoves
    <2>1. CASE Answered(r) # None
      <3>1. job' = [job EXCEPT ![r] = [job[r] EXCEPT !.at = "done", !.outcome = Answered(r)]]
        BY <1>5, <2>1 DEF AcquireRepair, Ends
      <3> QED
        BY <1>0, <3>1 DEF RefreshingMoves, Jobs
    <2>2. CASE Answered(r) = None
      <3>1. job' = [job EXCEPT ![r] = [job[r] EXCEPT !.at = "refreshing", !.cred = store]]
        BY <1>5, <2>2 DEF AcquireRepair
      <3>2. job[r].saw = Marker(store, rec)
        <4>1. job[r].saw # Marker(store, rec) => Answered(r) \in Outcomes
          BY NewRecord DEF Answered, Outcomes, TypeInv
        <4> QED
          BY <2>2, <4>1 DEF CredentialAssumption
      <3>3. UNCHANGED <<epochs, raced, store, rec>>
        BY <1>5 DEF AcquireRepair
      <3> QED
        BY <1>0, <3>1, <3>2, <3>3 DEF RefreshingMoves, Jobs
    <2> QED
      BY <2>1, <2>2
  <1>6. ASSUME NEW r \in Routers, AcquireTimesOut(r) PROVE RefreshingMoves
    BY <1>6, <1>0 DEF AcquireTimesOut, Ends, RefreshingMoves, Jobs
  <1>7. ASSUME NEW r \in Routers, Refresh(r) PROVE RefreshingMoves
    <2>1. PICK v, o : job' = [job EXCEPT ![r] =
                          [job[r] EXCEPT !.at = "answered", !.value = v, !.outcome = o]]
      BY <1>7, RefreshWrites
    <2> QED
      BY <1>0, <2>1 DEF RefreshingMoves, Jobs
  <1>8. ASSUME NEW r \in Routers, Compare(r) PROVE RefreshingMoves
    <2>1. CASE job' = [job EXCEPT ![r] = [job[r] EXCEPT !.at = "done", !.outcome = "repaired"]]
      BY <1>0, <2>1 DEF RefreshingMoves, Jobs
    <2>2. CASE job' = [job EXCEPT ![r] = [job[r] EXCEPT !.at = "writing"]]
      BY <1>0, <2>2 DEF RefreshingMoves, Jobs
    <2> QED
      BY <1>8, <2>1, <2>2 DEF Compare, Ends
  <1>9. ASSUME NEW r \in Routers, Write(r) PROVE RefreshingMoves
    <2>1. CASE job' = [job EXCEPT ![r] = [job[r] EXCEPT !.at = "done", !.outcome = "unknown"]]
      BY <1>0, <2>1 DEF RefreshingMoves, Jobs
    <2>2. CASE job' = [job EXCEPT ![r] = [job[r] EXCEPT !.at = "recording"]]
      BY <1>0, <2>2 DEF RefreshingMoves, Jobs
    <2> QED
      BY <1>9, <2>1, <2>2 DEF Write, Ends
  <1>10. ASSUME NEW r \in Routers, Record(r) PROVE RefreshingMoves
    BY <1>10, <1>0 DEF Record, Ends, Release, RefreshingMoves, Jobs
  <1>11. ASSUME NEW r \in Routers, Finish(r) PROVE RefreshingMoves
    BY <1>11, <1>0 DEF Finish, NoJob, NoAdapter, RefreshingMoves, Jobs
  <1>12. ASSUME NEW r \in Routers, Cancel(r) PROVE RefreshingMoves
    BY <1>12, <1>0 DEF Cancel, RefreshingMoves, Jobs
  <1>13. ASSUME NEW r \in Routers, LoginRecord(r) PROVE RefreshingMoves
    BY <1>13, <1>0 DEF LoginRecord, Release, RefreshingMoves, Jobs
  <1>14. ASSUME NEW r \in Routers, Crash(r) PROVE RefreshingMoves
    BY <1>14, <1>0 DEF Crash, NoJob, NoLogin, NoAdapter, HolderAfter, RefreshingMoves, Jobs
  <1>15. CASE UNCHANGED <<job>>
    BY <1>15 DEF RefreshingMoves
  <1>16. ASSUME NEW r \in Routers,
            Launch(r) \/ MakeRuntime(r) \/ HoldRuntime(r) \/ LoginStart(r)
             \/ LoginLock(r) \/ LoginPublish(r) \/ LoginFails(r)
             \/ LoginOpen(r) \/ LoginNotes(r) \/ LoginNoted(r)
             \/ Reconsider(r)
         PROVE  UNCHANGED <<job>>
    BY <1>16
    DEF Launch, MakeRuntime, HoldRuntime, LoginStart, LoginLock, LoginPublish, LoginFails,
        LoginOpen, LoginNotes, LoginNoted, Reconsider
  <1>17. ASSUME NativeLogin \/ Expire \/ Revoke \/ Cool
         PROVE  UNCHANGED <<job>>
    BY <1>17 DEF NativeLogin, Expire, Revoke, Cool
  <1> QED
    BY <1>1, <1>2, <1>3, <1>4, <1>5, <1>6, <1>7, <1>8, <1>9, <1>10, <1>11, <1>12, <1>13,
       <1>14, <1>15, <1>16, <1>17
    DEF Next, LaunchStep, RepairStep, LoginStep, vars

\* A new epoch is written for the credential in the file, by a router that
\* holds the lock; any other write of the record keeps the marker, unless it
\* raced.
NewEpoch ==
    /\ epochs' = epochs + 1 /\ store' = store
    /\ rec'.gen = store /\ rec'.epoch = epochs + 1
    /\ \E r \in Routers : job[r].at = "recording" \/ login[r].at = "published"

OldEpoch ==
    /\ epochs' = epochs /\ rec'.epoch \in Nat /\ rec'.epoch <= epochs
    /\ \/ rec'.gen = rec.gen /\ rec'.epoch = rec.epoch
       \/ store' = store /\ (~raced' => Marker(store, rec') = Marker(store, rec))

\* A new epoch is written for the credential in the file by a router at its record;
\* any other write of the record keeps the marker, unless it raced.
LEMMA EpochMove ==
    ASSUME CredentialAssumption, TypeInv, StampInv, [Next]_vars
    PROVE  (raced => raced') /\ (NewEpoch \/ OldEpoch)
  <1> USE DEF provider, local, ghosts
  <1>0. /\ rec \in Records /\ rec.epoch \in Nat /\ rec.epoch <= epochs /\ epochs \in Nat
        /\ raced \in BOOLEAN
    BY DEF TypeInv, TypeOK, Records, StampInv
  <1>1. ASSUME SuccessRecord # None
        PROVE  /\ SuccessRecord.gen = store /\ SuccessRecord.epoch \in Nat
               /\ SuccessRecord.epoch <= epochs
               /\ Marker(store, SuccessRecord) = Marker(store, rec)
    BY <1>0, <1>1 DEF SuccessRecord, Previous, NoRecord, Marker
  <1>2. ASSUME NEW r \in Routers, Served(r)
        PROVE  /\ UNCHANGED <<store, epochs, raced>>
               /\ rec' = rec \/ (SuccessRecord # None /\ rec' = SuccessRecord)
    BY <1>2 DEF Served
  <1>3. ASSUME NEW r \in Routers, Record(r)
        PROVE  /\ UNCHANGED <<store, raced>> /\ epochs' = epochs + 1
               /\ rec'.gen = store /\ rec'.epoch = epochs + 1
               /\ job[r].at = "recording"
    BY <1>3 DEF Record
  <1>4. ASSUME NEW r \in Routers, LoginRecord(r)
        PROVE  /\ UNCHANGED <<store, raced>> /\ epochs' = epochs + 1
               /\ rec'.gen = store /\ rec'.epoch = epochs + 1
               /\ login[r].at = "published"
    BY <1>4 DEF LoginRecord
  <1>5. ASSUME NEW r \in Routers, LoginNoted(r)
        PROVE  /\ UNCHANGED <<store, epochs>> /\ (raced => raced')
               /\ \/ rec' = rec
                  \/ /\ login[r].write # None /\ rec' = login[r].write
                     /\ ~raced' => SuccessRecord # None /\ rec' = SuccessRecord
    BY <1>5 DEF LoginNoted
  <1>6. ASSUME Cool
        PROVE  rec'.gen = rec.gen /\ rec'.epoch = rec.epoch /\ UNCHANGED <<epochs, raced>>
    BY <1>0, <1>6 DEF Cool, Records
  <1>7. ASSUME NEW r \in Routers,
               \/ LaunchStep(r) \/ AcquireRepair(r) \/ Refresh(r) \/ Compare(r) \/ Write(r)
               \/ Finish(r) \/ LoginOpen(r) \/ LoginNotes(r)
        PROVE  UNCHANGED <<rec, epochs, raced>>
    BY <1>7
    DEF LaunchStep, Launch, MakeRuntime, HoldRuntime, AcquireRepair, Refresh, Compare,
                Write, Finish, LoginOpen, LoginNotes
  <1>8. ASSUME NEW r \in Routers,
               \/ RequestAdapter(r) \/ RequestCurrent(r) \/ Denied(r) \/ AcquireTimesOut(r)
               \/ Cancel(r) \/ LoginStart(r) \/ LoginLock(r) \/ LoginPublish(r)
               \/ LoginFails(r) \/ Reconsider(r) \/ Crash(r)
        PROVE  UNCHANGED <<rec, epochs, raced>>
    BY <1>8 DEF RequestAdapter, RequestCurrent, Denied, AcquireTimesOut, Cancel, LoginStart,
                LoginLock, LoginPublish, LoginFails, Reconsider, Crash
  <1>9. ASSUME NativeLogin \/ Expire \/ Revoke \/ UNCHANGED vars
        PROVE  UNCHANGED <<rec, epochs>> /\ (raced => raced')
    <2>1. CASE NativeLogin
      BY <1>0, <2>1 DEF NativeLogin
    <2>2. CASE Expire \/ Revoke \/ UNCHANGED vars
      BY <2>2 DEF Expire, Revoke, vars
    <2> QED
      BY <1>9, <2>1, <2>2
  <1>10. ASSUME NEW r \in Routers, Served(r) \/ LoginNoted(r)
         PROVE  /\ (raced => raced') /\ epochs' = epochs /\ store' = store
                /\ rec'.epoch \in Nat /\ rec'.epoch <= epochs
                /\ ~raced' => Marker(store, rec') = Marker(store, rec)
    <2>1. login[r].write # None => login[r].write.epoch \in Nat /\ login[r].write.epoch <= epochs
      BY LoginFields DEF TypeInv, StampInv, Records
    <2> QED
      BY <1>0, <1>1, <1>2, <1>5, <1>10, <2>1
  <1> DEFINE Goal == (raced => raced') /\ (NewEpoch \/ OldEpoch)
  <1>11. ASSUME NEW r \in Routers, Record(r) \/ LoginRecord(r) PROVE Goal
    BY <1>3, <1>4, <1>11 DEF NewEpoch
  <1>12. ASSUME NEW r \in Routers, Served(r) \/ LoginNoted(r) PROVE Goal
    BY <1>10, <1>12 DEF OldEpoch
  <1>13. ASSUME UNCHANGED <<rec, epochs>>, raced => raced' PROVE Goal
    BY <1>0, <1>13 DEF OldEpoch
  <1>14. ASSUME Cool PROVE Goal
    BY <1>0, <1>6, <1>14 DEF OldEpoch
  <1>15. ASSUME UNCHANGED <<rec, epochs, raced>> PROVE Goal
    BY <1>13, <1>15
  <1> HIDE DEF Goal
  <1>16. ASSUME NEW r \in Routers,
                LaunchStep(r) \/ RepairStep(r) \/ LoginStep(r) \/ Served(r)
         PROVE  Goal
    BY <1>7, <1>11, <1>12, <1>15, <1>16 DEF RepairStep, LoginStep
  <1>17. ASSUME NativeLogin \/ Expire \/ Revoke \/ UNCHANGED vars PROVE Goal
    BY <1>9, <1>13, <1>17
  <1>18. Goal
    BY <1>8, <1>12, <1>14, <1>15, <1>16, <1>17 DEF Next
  <1> QED
    BY <1>18 DEF Goal

\* The file never comes to hold a credential that somebody has seen.
LEMMA NewStore ==
    ASSUME CredentialAssumption, TypeInv, SeenInv, [Next]_vars, store' # store
    PROVE  Unseen(store'.access)
  <1>1. last \in Nat
    BY DEF TypeInv, TypeOK
  <1>2. CASE store' = [access |-> last + 1, refresh |-> last + 1]
    BY <1>1, <1>2 DEF SeenInv
  <1>3. ASSUME NEW r \in Routers, Write(r), job[r].value # None, store' = job[r].value
        PROVE  Unseen(store'.access)
    BY <1>3 DEF SeenInv, Pending, Write
  <1> QED
    BY <1>2, <1>3, StoreMove

\* A marker that somebody holds stays as telling as it is.
LEMMA StampKept ==
    ASSUME CredentialAssumption, TypeInv, SeenInv, StampInv, [Next]_vars,
           NEW m \in MarkerSet, NEW c \in Nat, Stamped(m, c),
           \A a : Unseen(a) => m.gen.access # a
    PROVE  m.epoch <= c /\ c <= epochs' /\ (~raced' /\ m = Marker(store', rec') => c = epochs')
  <1>1. /\ m.epoch \in Nat /\ m.epoch <= c /\ c <= epochs /\ epochs \in Nat /\ m # None
        /\ ~raced /\ m = Marker(store, rec) => c = epochs
    BY DEF Stamped, MarkerSet, CredentialAssumption, TypeInv, TypeOK
  <1>2. CASE epochs' = epochs + 1 /\ rec'.gen = store' /\ rec'.epoch = epochs + 1
    <2>1. Marker(store', rec').epoch = epochs + 1
      BY <1>2 DEF Marker
    <2> QED
      BY <1>1, <1>2, <2>1
  <1>3. CASE epochs' = epochs /\ store' # store
    <2>1. Marker(store', rec').gen = store'
      BY DEF Marker
    <2> QED
      BY <1>1, <1>3, <2>1, NewStore
  <1>4. CASE epochs' = epochs /\ store' = store /\ (raced => raced')
             /\ (~raced' => Marker(store, rec') = Marker(store, rec))
    BY <1>1, <1>4
  <1>5. ASSUME rec'.gen = rec.gen, rec'.epoch = rec.epoch
        PROVE  Marker(store, rec') = Marker(store, rec)
    BY <1>5 DEF Marker
  <1> QED
    BY <1>2, <1>3, <1>4, <1>5, EpochMove DEF NewEpoch, OldEpoch

\* Every step keeps the markers telling.
LEMMA StampStep ==
    ASSUME CredentialAssumption, TypeInv, LockInv, SeenInv, StampInv, [Next]_vars
    PROVE  StampInv'
  <1>0. /\ epochs \in Nat /\ rec.epoch \in Nat /\ rec.epoch <= epochs /\ store \in CredentialSet
        /\ rec \in Records /\ TypeOK
        /\ \A q \in Routers : GoodJob(job[q]) /\ GoodAdapter(adapter[q])
    BY DEF TypeInv, TypeOK, StampInv, Records
  <1>1. rec'.epoch <= epochs'
    BY <1>0, EpochMove DEF NewEpoch, OldEpoch
  <1>2. \A d \in CredentialSet : /\ Marker(d, rec) \in MarkerSet /\ Marker(d, rec).gen = d
                                 /\ Marker(d, rec).epoch <= epochs
                                 /\ Stamped(Marker(d, rec), epochs)
    BY <1>0, NewRecord DEF Marker, Stamped
  <1>3. ASSUME NEW m \in MarkerSet, NEW c \in Nat, Stamped(m, c),
               \A a : Unseen(a) => m.gen.access # a
        PROVE  m.epoch <= c /\ c <= epochs' /\ (~raced' /\ m = Marker(store', rec') => c = epochs')
    BY <1>3, StampKept
  <1>4. ASSUME NEW d \in CredentialSet, \A a : Unseen(a) => d.access # a
        PROVE  /\ Marker(d, rec).epoch <= epochs /\ epochs <= epochs'
               /\ ~raced' /\ Marker(d, rec) = Marker(store', rec') => epochs = epochs'
    BY <1>0, <1>2, <1>3, <1>4
  <1>5. ASSUME NEW q \in Routers PROVE Stamped(job[q].saw, job[q].count)'
    <2>1. CASE job'[q].saw = None
      BY <2>1 DEF Stamped
    <2>2. CASE /\ job'[q].saw = job[q].saw /\ job'[q].count = job[q].count
               /\ job[q].saw # None
      <3>1. job[q].saw \in MarkerSet /\ job[q].count \in Nat
        BY <1>0, <2>2, JobFields
      <3>2. Stamped(job[q].saw, job[q].count) /\ \A a : Unseen(a) => job[q].saw.gen.access # a
        BY <2>2 DEF StampInv, Unseen
      <3> QED
        BY <1>3, <2>2, <3>1, <3>2 DEF Stamped
    <2>3. CASE /\ job'[q].saw = adapter[q].mark /\ job'[q].count = adapter[q].count
               /\ adapter[q].mark # None
      <3>1. adapter[q].mark \in MarkerSet /\ adapter[q].count \in Nat
        BY <1>0, <2>3, AdapterFields
      <3>2. Stamped(adapter[q].mark, adapter[q].count)
            /\ \A a : Unseen(a) => adapter[q].mark.gen.access # a
        BY <2>3 DEF StampInv, Unseen
      <3> QED
        BY <1>3, <2>3, <3>1, <3>2 DEF Stamped
    <2>4. CASE job'[q].saw = Marker(store, rec) /\ job'[q].count = epochs
      <3>1. \A a : Unseen(a) => store.access # a
        BY DEF Unseen
      <3> QED
        BY <1>0, <1>4, <2>4, <3>1 DEF Stamped
    <2> QED
      BY <2>1, <2>2, <2>3, <2>4, JobMove DEF JobMoves
  <1>6. ASSUME NEW q \in Routers PROVE Stamped(adapter[q].mark, adapter[q].count)'
    <2>1. CASE adapter'[q].mark = None
      BY <2>1 DEF Stamped
    <2>2. CASE /\ adapter'[q].mark = adapter[q].mark /\ adapter'[q].count = adapter[q].count
               /\ adapter[q].mark # None
      <3>1. adapter[q].mark \in MarkerSet /\ adapter[q].count \in Nat
        BY <1>0, <2>2, AdapterFields
      <3>2. Stamped(adapter[q].mark, adapter[q].count)
            /\ \A a : Unseen(a) => adapter[q].mark.gen.access # a
        BY <2>2 DEF StampInv, Unseen
      <3> QED
        BY <1>3, <2>2, <3>1, <3>2 DEF Stamped
    <2>3. CASE /\ adapter[q].copy \in CredentialSet
               /\ adapter'[q].mark = Marker(adapter[q].copy, rec)
               /\ adapter'[q].count = epochs
      <3>1. \A a : Unseen(a) => adapter[q].copy.access # a
        BY <2>3 DEF Unseen, CredentialAssumption
      <3> QED
        BY <1>4, <2>3, <3>1 DEF Stamped
    <2> QED
      BY <2>1, <2>2, <2>3, AdapterMove DEF AdapterMoves
  <1>7. ASSUME NEW q \in Routers, login'[q].write # None
        PROVE  login'[q].write.epoch <= epochs' /\ login'[q].write.outcome = "repaired"
    <2>1. epochs' \in Nat /\ epochs <= epochs'
      BY <1>0, EpochMove DEF NewEpoch, OldEpoch
    <2>2. SuccessRecord # None =>
            /\ SuccessRecord.epoch \in Nat /\ SuccessRecord.epoch <= epochs
            /\ SuccessRecord.outcome = "repaired"
      BY <1>0 DEF SuccessRecord, Previous, NoRecord
    <2>3. login[q].write # None =>
            /\ login[q].write.epoch \in Nat /\ login[q].write.epoch <= epochs
            /\ login[q].write.outcome = "repaired"
      BY <1>0, LoginFields DEF StampInv, Records
    <2> QED
      BY <1>0, <1>7, <2>1, <2>2, <2>3, LoginMove DEF LoginMoves
  <1>8. ASSUME NEW q \in Routers, job'[q].at = "refreshing", ~raced'
        PROVE  job'[q].count = epochs'
    <2>1. job'[q].count = job[q].count /\ ~raced
      BY <1>8, RefreshingMove, EpochMove DEF RefreshingMoves
    <2>2. CASE job[q].saw = Marker(store, rec) /\ epochs' = epochs
      <3>1. job[q].saw # None
        BY <1>0, <2>2, NewRecord DEF CredentialAssumption
      <3> QED
        BY <2>1, <2>2, <3>1 DEF StampInv, Stamped
    <2>3. CASE job[q].at = "refreshing"
      <3>1. job[q].count = epochs /\ holder = [who |-> q, what |-> "repair"]
        BY <2>1, <2>3 DEF StampInv, LockInv, InRepair
      <3>2. \A r \in Routers : /\ login[r].at # "published"
                               /\ job[r].at = "recording" => r = q
        BY <3>1 DEF LockInv, InRepair
      <3>3. epochs' = epochs
        BY <2>3, <3>2, EpochMove DEF NewEpoch, OldEpoch
      <3> QED
        BY <2>1, <3>1, <3>3
    <2> QED
      BY <1>8, <2>2, <2>3, RefreshingMove DEF RefreshingMoves
  <1> QED
    BY <1>1, <1>5, <1>6, <1>7, <1>8 DEF StampInv

-----------------------------------------------------------------------------
(* The rotated token reaches the file.                                     *)

\* A step that leaves the repair of q where it is.
Calm(q) ==
    \/ job[q].at \notin InRepair /\ job'[q].at \notin InRepair
    \/ /\ job'[q].at = job[q].at /\ job'[q].cred = job[q].cred
       /\ job'[q].value = job[q].value /\ job'[q].outcome = job[q].outcome

CalmMoves ==
    \A q \in Routers :
        \/ Calm(q) \/ Crash(q)
        \/ AcquireRepair(q) \/ Refresh(q) \/ Compare(q) \/ Write(q) \/ Record(q)

\* Every step is calm for a repair, or is its own, or kills it.
LEMMA CalmMove ==
    ASSUME CredentialAssumption, TypeInv, [Next]_vars
    PROVE  CalmMoves
  <1> USE DEF provider, local, ghosts
  <1>0. /\ job \in [Routers -> Jobs] /\ login \in [Routers -> Logins]
        /\ adapter \in [Routers -> Adapters] /\ dir \in [Routers -> {"none", "open", "held"}]
        /\ pin \in [Routers -> {"fresh", "stale", "queued"}]
        /\ holder \in Holders \cup {None}
    BY DEF TypeInv, TypeOK
  <1>1. ASSUME NEW r \in Routers, RequestAdapter(r) PROVE CalmMoves
    BY <1>1, <1>0 DEF RequestAdapter, Asks, NoJob, CalmMoves, Calm, InRepair, Jobs
  <1>2. ASSUME NEW r \in Routers, RequestCurrent(r) PROVE CalmMoves
    BY <1>2, <1>0 DEF RequestCurrent, Asks, NoJob, CalmMoves, Calm, InRepair, Jobs
  <1>3. ASSUME NEW r \in Routers, Served(r) PROVE CalmMoves
    BY <1>3, <1>0 DEF Served, NoJob, CalmMoves, Calm, InRepair, Jobs
  <1>4. ASSUME NEW r \in Routers, Denied(r) PROVE CalmMoves
    BY <1>4, <1>0 DEF Denied, CalmMoves, Calm, InRepair, Jobs
  <1>5. ASSUME NEW r \in Routers, AcquireRepair(r) PROVE CalmMoves
    <2>1. \A q \in Routers \ {r} : job'[q] = job[q]
      BY <1>5, <1>0 DEF AcquireRepair, Ends
    <2> QED
      BY <1>5, <2>1 DEF CalmMoves, Calm
  <1>6. ASSUME NEW r \in Routers, AcquireTimesOut(r) PROVE CalmMoves
    BY <1>6, <1>0 DEF AcquireTimesOut, Ends, CalmMoves, Calm, InRepair, Jobs
  <1>7. ASSUME NEW r \in Routers, Refresh(r) PROVE CalmMoves
    <2>1. \A q \in Routers \ {r} : job'[q] = job[q]
      BY <1>7, <1>0 DEF Refresh
    <2> QED
      BY <1>7, <2>1 DEF CalmMoves, Calm
  <1>8. ASSUME NEW r \in Routers, Compare(r) PROVE CalmMoves
    <2>1. \A q \in Routers \ {r} : job'[q] = job[q]
      BY <1>8, <1>0 DEF Compare, Ends
    <2> QED
      BY <1>8, <2>1 DEF CalmMoves, Calm
  <1>9. ASSUME NEW r \in Routers, Write(r) PROVE CalmMoves
    <2>1. \A q \in Routers \ {r} : job'[q] = job[q]
      BY <1>9, <1>0 DEF Write, Ends
    <2> QED
      BY <1>9, <2>1 DEF CalmMoves, Calm
  <1>10. ASSUME NEW r \in Routers, Record(r) PROVE CalmMoves
    <2>1. \A q \in Routers \ {r} : job'[q] = job[q]
      BY <1>10, <1>0 DEF Record, Ends
    <2> QED
      BY <1>10, <2>1 DEF CalmMoves, Calm
  <1>11. ASSUME NEW r \in Routers, Finish(r) PROVE CalmMoves
    BY <1>11, <1>0 DEF Finish, NoJob, NoAdapter, CalmMoves, Calm, InRepair, Jobs
  <1>12. ASSUME NEW r \in Routers, Cancel(r) PROVE CalmMoves
    BY <1>12, <1>0 DEF Cancel, CalmMoves, Calm, InRepair, Jobs
  <1>13. ASSUME NEW r \in Routers, LoginRecord(r) PROVE CalmMoves
    BY <1>13, <1>0 DEF LoginRecord, Release, CalmMoves, Calm, InRepair, Jobs
  <1>14. ASSUME NEW r \in Routers, Crash(r) PROVE CalmMoves
    <2>1. \A q \in Routers \ {r} : job'[q] = job[q]
      BY <1>14, <1>0 DEF Crash
    <2> QED
      BY <1>14, <2>1 DEF CalmMoves, Calm
  <1>15. CASE UNCHANGED <<job>>
    BY <1>15 DEF CalmMoves, Calm
  <1>16. ASSUME NEW r \in Routers,
            Launch(r) \/ MakeRuntime(r) \/ HoldRuntime(r) \/ LoginStart(r)
             \/ LoginLock(r) \/ LoginPublish(r) \/ LoginFails(r)
             \/ LoginOpen(r) \/ LoginNotes(r) \/ LoginNoted(r)
             \/ Reconsider(r)
         PROVE  UNCHANGED <<job>>
    BY <1>16
    DEF Launch, MakeRuntime, HoldRuntime, LoginStart, LoginLock, LoginPublish, LoginFails,
        LoginOpen, LoginNotes, LoginNoted, Reconsider
  <1>17. ASSUME NativeLogin \/ Expire \/ Revoke \/ Cool
         PROVE  UNCHANGED <<job>>
    BY <1>17 DEF NativeLogin, Expire, Revoke, Cool
  <1> QED
    BY <1>1, <1>2, <1>3, <1>4, <1>5, <1>6, <1>7, <1>8, <1>9, <1>10, <1>11, <1>12, <1>13,
       <1>14, <1>15, <1>16, <1>17
    DEF Next, LaunchStep, RepairStep, LoginStep, vars

\* The lock keeps every other repair, and every sign-in, out.
LEMMA Alone ==
    ASSUME TypeInv, LockInv, NEW r \in Routers, job[r].at \in InRepair
    PROVE  /\ \A q \in Routers : job[q].at \in InRepair => q = r
           /\ \A q \in Routers : login[q].at \notin {"signing", "published"}
  BY DEF LockInv

\* What a step that is nobody's repair changes of the file and of the grants.
LEMMA GrantMove ==
    ASSUME CredentialAssumption, TypeInv, [Next]_vars
    PROVE  \/ UNCHANGED <<store, grants>>
           \/ store' = store /\ grants' = {}
           \/ /\ store' = [access |-> last + 1, refresh |-> last + 1]
              /\ grants' = grants \cup {last + 1}
              /\ NativeLogin \/ \E r \in Routers : LoginPublish(r)
           \/ \E r \in Routers : Refresh(r) \/ Write(r)
  <1> USE DEF provider, local, ghosts
  <1>1. CASE NativeLogin \/ \E r \in Routers : LoginPublish(r)
    BY <1>1 DEF NativeLogin, LoginPublish
  <1>2. CASE Revoke
    BY <1>2 DEF Revoke
  <1>3. ASSUME NEW r \in Routers,
               \/ LaunchStep(r) \/ AcquireRepair(r) \/ Compare(r) \/ Record(r)
               \/ Finish(r) \/ LoginStep(r)
        PROVE  UNCHANGED <<store, grants>>
    BY <1>3
    DEF LaunchStep, LoginStep, Launch, MakeRuntime, HoldRuntime, AcquireRepair, Compare,
                Record, Finish, LoginOpen, LoginNotes, LoginNoted, LoginRecord
  <1>4. ASSUME NEW r \in Routers,
               \/ RequestAdapter(r) \/ RequestCurrent(r) \/ Served(r) \/ Denied(r)
               \/ AcquireTimesOut(r) \/ Cancel(r) \/ LoginStart(r) \/ LoginLock(r)
               \/ LoginFails(r) \/ Reconsider(r) \/ Crash(r)
        PROVE  UNCHANGED <<store, grants>>
    BY <1>4 DEF RequestAdapter, RequestCurrent, Served, Denied, AcquireTimesOut, Cancel,
                LoginStart, LoginLock, LoginFails, Reconsider, Crash
  <1>5. CASE Expire \/ Cool \/ UNCHANGED vars
    BY <1>5 DEF Expire, Cool, vars
  <1> QED
    BY <1>1, <1>2, <1>3, <1>4, <1>5 DEF Next, RepairStep

\* The ghosts only rise.
LEMMA GhostsRise ==
    ASSUME CredentialAssumption, TypeInv, [Next]_vars
    PROVE  (lost => lost') /\ (raced => raced')
  <1> USE DEF provider, local, ghosts
  <1>1. ASSUME NEW r \in Routers, Refresh(r) PROVE (lost => lost') /\ raced' = raced
    BY <1>1 DEF Refresh
  <1>2. ASSUME NEW r \in Routers, Compare(r) PROVE (lost => lost') /\ raced' = raced
    BY <1>2 DEF Compare
  <1>3. ASSUME NEW r \in Routers, Write(r) PROVE (lost => lost') /\ raced' = raced
    <2>1. (UNCHANGED lost \/ lost' = (lost \/ job[r].value.refresh # job[r].cred.refresh))
          /\ raced' = raced
      BY <1>3 DEF Write
    <2>2. lost \in BOOLEAN
      BY DEF TypeInv, TypeOK
    <2> QED
      BY <2>1, <2>2
  <1>4. ASSUME NEW r \in Routers, Crash(r) PROVE (lost => lost') /\ raced' = raced
    BY <1>4 DEF Crash
  <1>5. ASSUME NEW r \in Routers, LoginNoted(r) PROVE lost' = lost /\ (raced => raced')
    BY <1>5 DEF LoginNoted
  <1>6. ASSUME NativeLogin PROVE lost' = lost /\ (raced => raced')
    BY <1>6 DEF NativeLogin
  <1>7. ASSUME NEW r \in Routers,
               \/ LaunchStep(r) \/ AcquireRepair(r) \/ Record(r) \/ Finish(r)
               \/ LoginOpen(r) \/ LoginNotes(r) \/ LoginRecord(r)
        PROVE  UNCHANGED <<lost, raced>>
    BY <1>7 DEF LaunchStep, Launch, MakeRuntime, HoldRuntime, AcquireRepair,
                Record, Finish, LoginOpen, LoginNotes, LoginRecord
  <1>8. ASSUME NEW r \in Routers,
               \/ RequestAdapter(r) \/ RequestCurrent(r) \/ Served(r) \/ Denied(r)
               \/ AcquireTimesOut(r) \/ Cancel(r) \/ LoginStart(r) \/ LoginLock(r)
               \/ LoginPublish(r) \/ LoginFails(r) \/ Reconsider(r)
        PROVE  UNCHANGED <<lost, raced>>
    BY <1>8 DEF RequestAdapter, RequestCurrent, Served, Denied, AcquireTimesOut, Cancel,
                LoginStart, LoginLock, LoginPublish, LoginFails, Reconsider
  <1>9. ASSUME Expire \/ Revoke \/ Cool \/ UNCHANGED vars PROVE UNCHANGED <<lost, raced>>
    BY <1>9 DEF Expire, Revoke, Cool, vars
  <1> QED
    BY <1>1, <1>2, <1>3, <1>4, <1>5, <1>6, <1>7, <1>8, <1>9
    DEF Next, RepairStep, LoginStep

\* What a rejection is, in terms of the record.
LEMMA RejectedMeans ==
    ASSUME CredentialAssumption
    PROVE  /\ Rejected <=> rec.gen = store /\ rec.outcome = "rejected"
           /\ Rejected' <=> rec'.gen = store' /\ rec'.outcome = "rejected"
  BY DEF Rejected, Previous, NoRecord, CredentialAssumption, Outcomes

\* Only a completed repair rejects.
LEMMA RejectionMove ==
    ASSUME CredentialAssumption, TypeInv, StampInv, [Next]_vars, rec'.outcome = "rejected"
    PROVE  \/ rec'.gen = rec.gen /\ rec.outcome = "rejected"
           \/ \E r \in Routers : Record(r) /\ job[r].outcome = "rejected" /\ rec'.gen = store
  <1> USE DEF provider, local, ghosts
  <1>1. SuccessRecord # None => SuccessRecord.outcome = "repaired"
    BY DEF SuccessRecord
  <1>2. ASSUME NEW r \in Routers, Served(r) PROVE rec' = rec
    BY <1>1, <1>2 DEF Served
  <1>3. ASSUME NEW r \in Routers, Record(r)
        PROVE  job[r].outcome = "rejected" /\ rec'.gen = store
    BY <1>3 DEF Record
  <1>4. ASSUME NEW r \in Routers, LoginRecord(r) PROVE FALSE
    BY <1>4 DEF LoginRecord
  <1>5. ASSUME NEW r \in Routers, LoginNoted(r) PROVE rec' = rec
    BY <1>5 DEF LoginNoted, StampInv
  <1>6. ASSUME Cool PROVE rec'.gen = rec.gen /\ rec.outcome = "rejected"
    BY <1>6 DEF Cool, TypeInv, TypeOK, Records
  <1>7. ASSUME NEW r \in Routers,
               \/ LaunchStep(r) \/ AcquireRepair(r) \/ Refresh(r) \/ Compare(r) \/ Write(r)
               \/ Finish(r) \/ LoginOpen(r) \/ LoginNotes(r)
        PROVE  UNCHANGED rec
    BY <1>7
    DEF LaunchStep, Launch, MakeRuntime, HoldRuntime, AcquireRepair, Refresh, Compare,
                Write, Finish, LoginOpen, LoginNotes
  <1>8. ASSUME NEW r \in Routers,
               \/ RequestAdapter(r) \/ RequestCurrent(r) \/ Denied(r) \/ AcquireTimesOut(r)
               \/ Cancel(r) \/ LoginStart(r) \/ LoginLock(r) \/ LoginPublish(r)
               \/ LoginFails(r) \/ Reconsider(r) \/ Crash(r)
        PROVE  UNCHANGED rec
    BY <1>8 DEF RequestAdapter, RequestCurrent, Denied, AcquireTimesOut, Cancel, LoginStart,
                LoginLock, LoginPublish, LoginFails, Reconsider, Crash
  <1>9. ASSUME NativeLogin \/ Expire \/ Revoke \/ UNCHANGED vars PROVE UNCHANGED rec
    BY <1>9 DEF NativeLogin, Expire, Revoke, vars
  <1> QED
    BY <1>2, <1>3, <1>4, <1>5, <1>6, <1>7, <1>8, <1>9 DEF Next, RepairStep, LoginStep

\* Numbers of the tokens at hand.
LEMMA Numbers ==
    ASSUME CredentialAssumption, TypeInv, SeenInv
    PROVE  /\ last \in Nat /\ store.access \in Nat /\ store.refresh \in Nat
           /\ store.access <= last /\ store.refresh <= last
           /\ store \in CredentialSet
           /\ \A q \in Routers : job[q].at \in InRepair =>
                /\ job[q].cred \in CredentialSet
                /\ job[q].cred.refresh \in Nat /\ job[q].cred.refresh <= last
                /\ job[q].cred.access \in Nat /\ job[q].cred.access <= last
           /\ \A q \in Routers : Pending(q) =>
                job[q].value \in CredentialSet /\ job[q].value # job[q].cred
  <1>1. /\ last \in Nat /\ store.access \in Nat /\ store.refresh \in Nat
        /\ store \in CredentialSet
    BY DEF TypeInv, TypeOK, CredentialSet
  <1>2. ~(store.access > last) /\ store.refresh <= last
    BY <1>1 DEF SeenInv, Unseen
  <1>3. ASSUME NEW q \in Routers, job[q].at \in InRepair
        PROVE  /\ job[q].cred \in CredentialSet /\ job[q].cred # None
               /\ job[q].cred.refresh \in Nat /\ job[q].cred.refresh <= last
               /\ job[q].cred.access \in Nat /\ job[q].cred.access <= last
    <2>1. /\ job[q].cred \in CredentialSet /\ job[q].cred # None
          /\ job[q].cred.refresh \in Nat /\ job[q].cred.access \in Nat
      BY <1>3, JobFields DEF TypeInv, CredentialSet, CredentialAssumption
    <2>2. job[q].cred.refresh <= last /\ ~(job[q].cred.access > last)
      BY <1>1, <2>1 DEF SeenInv, Unseen
    <2> QED
      BY <1>1, <2>1, <2>2
  <1>4. ASSUME NEW q \in Routers, Pending(q)
        PROVE  job[q].value \in CredentialSet /\ job[q].value # job[q].cred
    <2>1. job[q].value \in CredentialSet
      BY <1>4, JobFields DEF TypeInv, Pending
    <2>2. job[q].cred # None
      BY <1>3, <1>4 DEF Pending, InRepair
    <2>3. job[q].cred.access # job[q].value.access
      BY <1>4, <2>2 DEF SeenInv, Unseen
    <2> QED
      BY <2>1, <2>3
  <1> QED
    BY <1>1, <1>2, <1>3, <1>4

RepairInv == TypeInv /\ LockInv /\ SeenInv /\ StampInv /\ FlightInv

\* A repair that begins knows the file.
LEMMA FlightAcquire ==
    ASSUME CredentialAssumption, RepairInv, NEW r \in Routers, AcquireRepair(r),
           \A q \in Routers \ {r} : job'[q] = job[q]
    PROVE  \A q \in Routers : Flight(q)'
  <1> USE DEF provider, local, ghosts
  <1>1. UNCHANGED <<store, grants, raced>> /\ job[r].at = "waiting"
    BY DEF AcquireRepair
  <1>2. ASSUME NEW q \in Routers, q # r PROVE Flight(q)'
    BY <1>1, <1>2 DEF RepairInv, FlightInv, Flight, Pending, Revoked
  <1>3. \/ job'[r].at = "done"
        \/ job'[r].at = "refreshing" /\ job'[r].cred = store
    <2>1. job \in [Routers -> Jobs]
      BY DEF RepairInv, TypeInv, TypeOK
    <2>2. CASE Answered(r) # None
      <3>1. job' = [job EXCEPT ![r] = [job[r] EXCEPT !.at = "done", !.outcome = Answered(r)]]
        BY <2>2 DEF AcquireRepair, Ends
      <3> QED
        BY <2>1, <3>1 DEF Jobs
    <2>3. CASE Answered(r) = None
      <3>1. job' = [job EXCEPT ![r] = [job[r] EXCEPT !.at = "refreshing", !.cred = store]]
        BY <2>3 DEF AcquireRepair
      <3> QED
        BY <2>1, <3>1 DEF Jobs
    <2> QED
      BY <2>2, <2>3
  <1>4. Flight(r)'
    BY <1>1, <1>3 DEF Flight, Pending
  <1> QED
    BY <1>2, <1>4

\* The token a live grant is exchanged for is honoured, and the file, if it
\* still holds that grant, waits for it.
LEMMA FlightRefresh ==
    ASSUME CredentialAssumption, RepairInv, NEW r \in Routers, Refresh(r)
    PROVE  (\A q \in Routers : Flight(q)') /\ TokenInv'
  <1>1. PICK rotates \in BOOLEAN, arrives \in BOOLEAN : Answers(r, rotates, arrives)
    BY DEF Refresh, Answers, Live, Issued
  <1> DEFINE new == Issued(r, rotates)
  <1>2. /\ job[r].at = "refreshing" /\ job[r].at \in InRepair
        /\ UNCHANGED <<store, raced>>
    BY DEF Refresh, InRepair, ghosts
  <1>3. \A q \in Routers : job[q].at \in InRepair => q = r
    BY <1>2, Alone DEF RepairInv
  <1>4. /\ last \in Nat /\ job[r].cred.refresh \in Nat /\ job[r].cred.refresh <= last
        /\ job[r].cred \in CredentialSet
        /\ store = job[r].cred \/ store.refresh # job[r].cred.refresh
    BY <1>2, Numbers DEF RepairInv, FlightInv, Flight
  <1>5. /\ job'[r].at = "answered" /\ job'[r].cred = job[r].cred
        /\ job'[r].value = IF Live(r) /\ arrives THEN new ELSE None
        /\ job'[r].outcome = "rejected" => ~Live(r)
        /\ \A q \in Routers \ {r} : job'[q] = job[q]
    <2>1. job \in [Routers -> Jobs]
      BY DEF RepairInv, TypeInv, TypeOK
    <2>2. /\ job'[r].at = "answered" /\ job'[r].cred = job[r].cred
          /\ job'[r].value = IF Live(r) /\ arrives THEN new ELSE None
          /\ job'[r].outcome = CASE ~arrives -> "unknown"
                                 [] Live(r) -> "repaired"
                                 [] OTHER -> "rejected"
      BY <1>1, <2>1 DEF Answers, Jobs
    <2>3. \A q \in Routers \ {r} : job'[q] = job[q]
      BY <1>1, <2>1 DEF Answers
    <2> QED
      BY <2>2, <2>3
  <1>6. ASSUME NEW q \in Routers, q # r PROVE Flight(q)'
    <2>1. job[q].at \notin InRepair /\ job'[q] = job[q]
      BY <1>3, <1>5, <1>6
    <2> QED
      BY <2>1 DEF Flight, Pending, InRepair
  <1>7. CASE ~Live(r)
    <2>1. grants' = grants /\ job'[r].value = None /\ job[r].cred.refresh \notin grants
      BY <1>1, <1>5, <1>7 DEF Answers, Live
    <2>2. Flight(r)'
      BY <1>2, <1>4, <1>5, <2>1 DEF Flight, Pending
    <2>3. \A q \in Routers : ~Pending(q)
      BY <1>2, <1>3 DEF Pending, InRepair
    <2>4. TokenInv'
      BY <1>2, <2>1, <2>3, GhostsRise
      DEF RepairInv, FlightInv, TokenInv, Revoked, Next, RepairStep
    <2> QED
      BY <1>6, <2>2, <2>4
  <1>8. CASE Live(r)
    <2>1. /\ new \in CredentialSet /\ new # None
          /\ new.refresh = IF rotates THEN last + 1 ELSE job[r].cred.refresh
      BY <1>4 DEF Issued, CredentialSet, CredentialAssumption, RepairInv, TypeInv, TypeOK
    <2>2. grants' = (grants \ {job[r].cred.refresh}) \cup {new.refresh}
      BY <1>1, <1>8 DEF Answers
    <2>3. job'[r].outcome # "rejected"
      BY <1>5, <1>8
    <2>4. Flight(r)'
      BY <1>2, <1>4, <1>5, <2>1, <2>2, <2>3 DEF Flight, Pending
    <2>5. \A q \in Routers : ~Pending(q)
      BY <1>2, <1>3 DEF Pending, InRepair
    <2>6. TokenInv'
      <3>1. lost' = (lost \/ (rotates /\ ~arrives))
        BY <1>1, <1>8 DEF Answers
      <3>2. CASE lost \/ raced \/ Revoked
        <4>1. ~Revoked
          BY <1>8 DEF Live, Revoked
        <4> QED
          BY <1>2, <3>1, <3>2, <4>1 DEF TokenInv
      <3>3. CASE rotates /\ ~arrives
        BY <3>1, <3>3 DEF TokenInv
      <3>4. CASE store # job[r].cred /\ store.refresh \in grants
        <4>1. store'.refresh \in grants'
          BY <1>2, <1>4, <2>2, <3>4
        <4> QED
          BY <4>1 DEF TokenInv
      <3>5. CASE store = job[r].cred /\ ~rotates
        <4>1. store'.refresh \in grants'
          BY <1>2, <2>1, <2>2, <3>5
        <4> QED
          BY <4>1 DEF TokenInv
      <3>6. CASE store = job[r].cred /\ rotates /\ arrives
        <4>1. /\ job'[r].value = new /\ new.refresh # job[r].cred.refresh
              /\ store' = job'[r].cred
          BY <1>2, <1>4, <1>5, <1>8, <2>1, <3>6
        <4>2. Pending(r)'
          BY <1>5, <2>1, <4>1 DEF Pending
        <4> QED
          BY <1>5, <4>1, <4>2 DEF TokenInv
      <3> QED
        BY <2>5, <3>2, <3>3, <3>4, <3>5, <3>6 DEF RepairInv, FlightInv, TokenInv
    <2> QED
      BY <1>6, <2>4, <2>6
  <1> QED
    BY <1>7, <1>8

\* The fields of a repair at a step of its own.
LEMMA FlightOthers ==
    ASSUME TypeInv, LockInv, NEW r \in Routers, job[r].at \in InRepair,
           \A q \in Routers \ {r} : job'[q] = job[q]
    PROVE  \A q \in Routers \ {r} : ~Pending(q) /\ ~Pending(q)' /\ Flight(q)'
  <1>1. \A q \in Routers \ {r} : job'[q].at \notin InRepair /\ job[q].at \notin InRepair
    BY Alone
  <1> QED
    BY <1>1 DEF Flight, Pending, InRepair

\* The comparison finds the file unchanged, or gives way to a newer one.
LEMMA FlightCompare ==
    ASSUME CredentialAssumption, RepairInv, NEW r \in Routers, Compare(r)
    PROVE  (\A q \in Routers : Flight(q)') /\ TokenInv'
  <1>1. job \in [Routers -> Jobs] /\ lost \in BOOLEAN
    BY DEF RepairInv, TypeInv, TypeOK
  <1>2. /\ job[r].at = "answered" /\ job[r].at \in InRepair
        /\ UNCHANGED <<store, grants, raced>>
    BY DEF Compare, InRepair, provider
  <1>3. \A q \in Routers \ {r} : job'[q] = job[q]
    BY <1>1 DEF Compare, Ends
  <1>4. \A q \in Routers \ {r} : ~Pending(q) /\ ~Pending(q)' /\ Flight(q)'
    BY <1>2, <1>3, FlightOthers DEF RepairInv
  <1>5. CASE store # job[r].cred
    <2>1. job'[r].at = "done"
      <3>1. job' = [job EXCEPT ![r] = [job[r] EXCEPT !.at = "done", !.outcome = "repaired"]]
        BY <1>5 DEF Compare, Ends
      <3> QED
        BY <1>1, <3>1 DEF Jobs
    <2>2. Flight(r)'
      BY <2>1 DEF Flight, Pending
    <2>3. lost => lost'
      BY <1>1, <1>5 DEF Compare
    <2>4. TokenInv'
      BY <1>2, <1>4, <1>5, <2>3 DEF RepairInv, FlightInv, TokenInv, Revoked
    <2> QED
      BY <1>4, <2>2, <2>4
  <1>6. CASE store = job[r].cred
    <2>1. /\ job'[r].at = "writing" /\ job'[r].cred = job[r].cred
          /\ job'[r].value = job[r].value /\ job'[r].outcome = job[r].outcome
          /\ lost' = lost
      BY <1>1, <1>6 DEF Compare, Jobs
    <2>2. Flight(r)'
      BY <1>2, <1>6, <2>1 DEF RepairInv, FlightInv, Flight, Pending, Revoked
    <2>3. TokenInv'
      BY <1>2, <1>4, <2>1 DEF RepairInv, FlightInv, TokenInv, Revoked, Pending
    <2> QED
      BY <1>4, <2>2, <2>3
  <1> QED
    BY <1>5, <1>6

\* The write puts the honoured token into the file.
LEMMA FlightWrite ==
    ASSUME CredentialAssumption, RepairInv, NEW r \in Routers, Write(r)
    PROVE  (\A q \in Routers : Flight(q)') /\ TokenInv'
  <1>1. job \in [Routers -> Jobs] /\ lost \in BOOLEAN
    BY DEF RepairInv, TypeInv, TypeOK
  <1>2. /\ job[r].at = "writing" /\ job[r].at \in InRepair /\ UNCHANGED <<grants, raced>>
    BY DEF Write, InRepair, provider
  <1>3. \A q \in Routers \ {r} : job'[q] = job[q]
    BY <1>1 DEF Write, Ends
  <1>4. \A q \in Routers \ {r} : ~Pending(q) /\ ~Pending(q)' /\ Flight(q)'
    BY <1>2, <1>3, FlightOthers DEF RepairInv
  <1>5. Flight(r) /\ TokenInv
    BY DEF RepairInv, FlightInv
  <1>6. CASE /\ store' = (IF job[r].value = None THEN store ELSE job[r].value)
             /\ job' = [job EXCEPT ![r].at = "recording"]
             /\ lost' = lost
    <2>1. /\ job'[r].at = "recording" /\ job'[r].cred = job[r].cred
          /\ job'[r].value = job[r].value /\ job'[r].outcome = job[r].outcome
      BY <1>1, <1>6 DEF Jobs
    <2>2. Flight(r)'
      BY <1>2, <1>5, <1>6, <2>1 DEF Flight, Pending
    <2>3. TokenInv'
      <3>1. CASE lost \/ raced
        BY <1>2, <1>6, <3>1 DEF TokenInv
      <3>2. CASE ~raced /\ ~lost /\ job[r].value = None
        <4>1. ~Pending(r) /\ store' = store
          BY <1>6, <3>2 DEF Pending
        <4> QED
          BY <1>2, <1>4, <1>5, <3>2, <4>1 DEF TokenInv, Revoked
      <3>3. CASE ~raced /\ job[r].value # None
        <4>1. Pending(r) /\ store = job[r].cred /\ store' = job[r].value
          BY <1>2, <1>5, <1>6, <3>3 DEF Pending, Flight
        <4> QED
          BY <1>2, <1>5, <4>1 DEF Flight, TokenInv, Revoked
      <3> QED
        BY <3>1, <3>2, <3>3
    <2> QED
      BY <1>4, <2>2, <2>3
  <1>7. CASE /\ Ends(r, "unknown") /\ store' = store /\ job[r].value # None
             /\ lost' = (lost \/ job[r].value.refresh # job[r].cred.refresh)
    <2>1. job'[r].at = "done"
      BY <1>1, <1>7 DEF Ends, Jobs
    <2>2. Flight(r)'
      BY <2>1 DEF Flight, Pending
    <2>3. TokenInv'
      <3>1. CASE lost \/ raced \/ job[r].value.refresh # job[r].cred.refresh
        BY <1>1, <1>2, <1>7, <3>1 DEF TokenInv
      <3>2. CASE /\ ~lost /\ ~raced /\ job[r].value.refresh = job[r].cred.refresh
        BY <1>2, <1>4, <1>5, <1>7, <3>2 DEF TokenInv, Revoked
      <3> QED
        BY <3>1, <3>2
    <2> QED
      BY <1>4, <2>2, <2>3
  <1> QED
    BY <1>6, <1>7 DEF Write

\* The record ends the repair.
LEMMA FlightRecord ==
    ASSUME CredentialAssumption, RepairInv, NEW r \in Routers, Record(r)
    PROVE  (\A q \in Routers : Flight(q)') /\ TokenInv'
  <1>1. job \in [Routers -> Jobs]
    BY DEF RepairInv, TypeInv, TypeOK
  <1>2. /\ job[r].at = "recording" /\ job[r].at \in InRepair
        /\ UNCHANGED <<store, grants, raced, lost>>
    BY DEF Record, InRepair, provider, ghosts
  <1>3. job'[r].at = "done" /\ \A q \in Routers \ {r} : job'[q] = job[q]
    BY <1>1 DEF Record, Ends, Jobs
  <1>4. \A q \in Routers \ {r} : ~Pending(q) /\ ~Pending(q)' /\ Flight(q)'
    BY <1>2, <1>3, FlightOthers DEF RepairInv
  <1>5. Flight(r)'
    BY <1>3 DEF Flight, Pending
  <1>6. ~Pending(r)
    BY <1>2 DEF Pending
  <1>7. TokenInv'
    BY <1>2, <1>4, <1>6 DEF RepairInv, FlightInv, TokenInv, Revoked
  <1> QED
    BY <1>4, <1>5, <1>7

\* A router that dies with a rotated token loses it.
LEMMA FlightCrash ==
    ASSUME CredentialAssumption, RepairInv, NEW r \in Routers, Crash(r)
    PROVE  (\A q \in Routers : Flight(q)') /\ TokenInv'
  <1>1. job \in [Routers -> Jobs] /\ lost \in BOOLEAN
    BY DEF RepairInv, TypeInv, TypeOK
  <1>2. UNCHANGED <<store, grants, raced>>
    BY DEF Crash, provider
  <1>3. job'[r].at = "idle" /\ \A q \in Routers \ {r} : job'[q] = job[q]
    BY <1>1 DEF Crash, NoJob
  <1>4. \A q \in Routers \ {r} : Flight(q)' /\ (Pending(q) => Pending(q)')
    BY <1>2, <1>3 DEF RepairInv, FlightInv, Flight, Pending, Revoked
  <1>5. Flight(r)'
    BY <1>3 DEF Flight, Pending
  <1>6. lost' = (lost \/ (Pending(r) /\ job[r].value.refresh # job[r].cred.refresh))
    BY DEF Crash, Pending
  <1>7. TokenInv'
    BY <1>1, <1>2, <1>3, <1>4, <1>6 DEF RepairInv, FlightInv, TokenInv, Revoked
  <1> QED
    BY <1>4, <1>5, <1>7

\* Any other step leaves every repair where it is; it may write the file only
\* outside the window of a repair, or as a race.
LEMMA FlightCalm ==
    ASSUME CredentialAssumption, RepairInv, [Next]_vars, \A q \in Routers : Calm(q),
           \A q \in Routers : ~Refresh(q) /\ ~Write(q)
    PROVE  (\A q \in Routers : Flight(q)') /\ TokenInv'
  <1>0. /\ lost \in BOOLEAN /\ raced \in BOOLEAN /\ (lost => lost') /\ (raced => raced')
    BY GhostsRise DEF RepairInv, TypeInv, TypeOK
  <1>1. \A q \in Routers :
          /\ Pending(q)' <=> Pending(q)
          /\ job[q].at \in InRepair \/ job'[q].at \in InRepair =>
               /\ job'[q].at = job[q].at /\ job'[q].cred = job[q].cred
               /\ job'[q].value = job[q].value /\ job'[q].outcome = job[q].outcome
    BY DEF Calm, Pending, InRepair
  <1>2. CASE UNCHANGED <<store, grants>>
    <2>1. \A q \in Routers : Flight(q)'
      BY <1>0, <1>1, <1>2 DEF RepairInv, FlightInv, Flight, Pending, InRepair, Revoked
    <2>2. TokenInv'
      BY <1>0, <1>1, <1>2 DEF RepairInv, FlightInv, TokenInv, Pending, InRepair, Revoked
    <2> QED
      BY <2>1, <2>2
  <1>3. CASE store' = store /\ grants' = {}
    <2>1. \A q \in Routers : Flight(q)'
      BY <1>0, <1>1, <1>3 DEF RepairInv, FlightInv, Flight, Pending, InRepair, Revoked
    <2>2. TokenInv'
      BY <1>3 DEF TokenInv, Revoked
    <2> QED
      BY <2>1, <2>2
  <1>4. ASSUME store' = [access |-> last + 1, refresh |-> last + 1],
               grants' = grants \cup {last + 1},
               NativeLogin \/ \E r \in Routers : LoginPublish(r)
        PROVE  (\A q \in Routers : Flight(q)') /\ TokenInv'
    <2>1. TokenInv'
      BY <1>4 DEF TokenInv
    <2>2. ASSUME NEW q \in Routers PROVE Flight(q)'
      <3>1. CASE job'[q].at \notin InRepair
        BY <3>1 DEF Flight, Pending, InRepair
      <3>2. CASE job'[q].at \in InRepair
        <4>1. /\ last \in Nat /\ job[q].at \in InRepair
              /\ job[q].cred.refresh \in Nat /\ job[q].cred.refresh <= last
              /\ job[q].cred.access \in Nat /\ job[q].cred.access <= last
              /\ job'[q].at = job[q].at /\ job'[q].cred = job[q].cred
              /\ job'[q].value = job[q].value /\ job'[q].outcome = job[q].outcome
          BY <1>1, <3>2, Numbers DEF RepairInv
        <4>2. NativeLogin
          BY <1>4, <4>1, Alone DEF RepairInv, LoginPublish
        <4>3. job[q].at \in {"writing", "recording"} => raced'
          BY <4>2 DEF NativeLogin, InUse
        <4>4. /\ store'.refresh # job[q].cred.refresh /\ store' # job[q].cred
              /\ job[q].cred.refresh \notin grants => job[q].cred.refresh \notin grants'
          BY <1>4, <4>1
        <4>5. Flight(q)
          BY DEF RepairInv, FlightInv
        <4> QED
          BY <4>1, <4>3, <4>4, <4>5 DEF Flight, Pending
      <3> QED
        BY <3>1, <3>2
    <2> QED
      BY <2>1, <2>2
  <1> QED
    BY <1>2, <1>3, <1>4, GrantMove DEF RepairInv

\* While the record rejects the file, its grant stays dead.
LEMMA RejectedStep ==
    ASSUME CredentialAssumption, RepairInv, [Next]_vars
    PROVE  RejectedIsDead'
  <1>0. /\ raced \in BOOLEAN /\ (raced => raced')
        /\ last \in Nat /\ store.refresh \in Nat /\ store.refresh <= last
    BY GhostsRise, Numbers DEF RepairInv, TypeInv, TypeOK
  <1> SUFFICES ASSUME rec'.gen = store', rec'.outcome = "rejected", ~raced'
               PROVE  store'.refresh \notin grants'
    BY RejectedMeans DEF RejectedIsDead
  <1>1. ASSUME NEW r \in Routers, Record(r), job[r].outcome = "rejected"
        PROVE  store'.refresh \notin grants'
    <2>1. job[r].at = "recording" /\ UNCHANGED <<store, grants>>
      BY <1>1 DEF Record, provider
    <2> QED
      BY <1>0, <1>1, <2>1 DEF RepairInv, FlightInv, Flight
  <1>2. ASSUME rec'.gen = rec.gen, rec.outcome = "rejected"
        PROVE  store'.refresh \notin grants'
    <2>1. store' = store
      <3>1. ASSUME store' # store PROVE FALSE
        <4>1. Unseen(store'.access)
          BY <3>1, NewStore DEF RepairInv
        <4>2. store \in CredentialSet /\ rec \in Records
          BY DEF RepairInv, TypeInv, TypeOK
        <4>3. rec.gen # None
          <5>1. store' \in CredentialSet
            BY TypeStep DEF RepairInv, TypeInv, TypeOK
          <5> QED
            BY <1>2, <5>1 DEF CredentialAssumption
        <4> QED
          BY <1>2, <4>1, <4>3 DEF Unseen
      <3> QED
        BY <3>1
    <2>2. rec.gen = store /\ store.refresh \notin grants
      BY <1>0, <1>2, <2>1, RejectedMeans DEF RepairInv, FlightInv, RejectedIsDead
    <2>3. ASSUME NEW r \in Routers, Refresh(r) PROVE store.refresh \notin grants'
      <3>1. PICK rotates \in BOOLEAN, arrives \in BOOLEAN : Answers(r, rotates, arrives)
        BY <2>3 DEF Refresh, Answers, Live, Issued
      <3>2. CASE ~Live(r)
        BY <2>2, <3>1, <3>2 DEF Answers
      <3>3. CASE Live(r)
        <4>1. grants' = (grants \ {job[r].cred.refresh}) \cup {Issued(r, rotates).refresh}
          BY <3>1, <3>3 DEF Answers
        <4>2. Issued(r, rotates).refresh \in {last + 1, job[r].cred.refresh}
          BY DEF Issued
        <4>3. store.refresh # last + 1 /\ store.refresh # job[r].cred.refresh
          BY <1>0, <2>2, <3>3 DEF Live
        <4> QED
          BY <2>2, <4>1, <4>2, <4>3
      <3> QED
        BY <3>2, <3>3
    <2>4. ASSUME NEW r \in Routers, Write(r) PROVE grants' = grants
      BY <2>4 DEF Write, provider
    <2>5. store' # [access |-> last + 1, refresh |-> last + 1]
      BY <1>0, <2>1
    <2> QED
      BY <2>1, <2>2, <2>3, <2>4, <2>5, GrantMove DEF RepairInv
  <1> QED
    BY <1>1, <1>2, RejectionMove DEF RepairInv

\* Every step keeps the token on its way.
LEMMA FlightStep ==
    ASSUME CredentialAssumption, RepairInv, [Next]_vars
    PROVE  FlightInv'
  <1> DEFINE Goal == (\A q \in Routers : Flight(q)') /\ TokenInv'
  <1>1. ASSUME NEW r \in Routers, AcquireRepair(r) PROVE Goal
    <2>1. /\ UNCHANGED <<store, grants, raced, lost>>
          /\ job[r].at = "waiting"
      BY <1>1 DEF AcquireRepair, provider, ghosts
    <2>2. \A q \in Routers \ {r} : job'[q] = job[q]
      BY <1>1 DEF AcquireRepair, Ends, RepairInv, TypeInv, TypeOK
    <2>3. \A q \in Routers : Flight(q)'
      BY <1>1, <2>2, FlightAcquire
    <2>4. ~Pending(r) /\ \A q \in Routers \ {r} : Pending(q) => Pending(q)'
      BY <2>1, <2>2 DEF Pending
    <2>5. TokenInv'
      BY <2>1, <2>2, <2>4 DEF RepairInv, FlightInv, TokenInv, Revoked
    <2> QED
      BY <2>3, <2>5
  <1>2. ASSUME NEW r \in Routers, Refresh(r) PROVE Goal
    BY <1>2, FlightRefresh
  <1>3. ASSUME NEW r \in Routers, Compare(r) PROVE Goal
    BY <1>3, FlightCompare
  <1>4. ASSUME NEW r \in Routers, Write(r) PROVE Goal
    BY <1>4, FlightWrite
  <1>5. ASSUME NEW r \in Routers, Record(r) PROVE Goal
    BY <1>5, FlightRecord
  <1>6. ASSUME NEW r \in Routers, Crash(r) PROVE Goal
    BY <1>6, FlightCrash
  <1>7. ASSUME \A q \in Routers : Calm(q), \A q \in Routers : ~Refresh(q) /\ ~Write(q)
        PROVE  Goal
    BY <1>7, FlightCalm
  <1> HIDE DEF Goal
  <1>8. Goal
    BY <1>1, <1>2, <1>3, <1>4, <1>5, <1>6, <1>7, CalmMove DEF CalmMoves, RepairInv
  <1>9. Goal /\ RejectedIsDead'
    BY <1>8, RejectedStep
  <1> QED
    BY <1>9 DEF Goal, FlightInv

\* A pin changes as a request is sent, as the router restarts, or without a
\* change of the request.
PinMoves ==
    \A q \in Routers :
        pin'[q] # pin[q] => RequestAdapter(q) \/ job'[q].at = "idle" \/ job'[q] = job[q]

\* Every step is such a move of the pins.
LEMMA PinMove ==
    ASSUME CredentialAssumption, TypeInv, [Next]_vars
    PROVE  PinMoves
  <1> USE DEF provider, local, ghosts
  <1>0. /\ job \in [Routers -> Jobs] /\ login \in [Routers -> Logins]
        /\ adapter \in [Routers -> Adapters] /\ dir \in [Routers -> {"none", "open", "held"}]
        /\ pin \in [Routers -> {"fresh", "stale", "queued"}]
        /\ holder \in Holders \cup {None}
    BY DEF TypeInv, TypeOK
  <1>1. ASSUME NEW r \in Routers, RequestAdapter(r) PROVE PinMoves
    BY <1>1, <1>0 DEF RequestAdapter, PinMoves
  <1>2. ASSUME NEW r \in Routers, LoginStart(r) PROVE PinMoves
    BY <1>2, <1>0 DEF LoginStart, NoLogin, NoAdapter, PinMoves
  <1>3. ASSUME NEW r \in Routers, LoginOpen(r) PROVE PinMoves
    BY <1>3, <1>0 DEF LoginOpen, QueueHandoffs, PinMoves
  <1>4. ASSUME NEW r \in Routers, Crash(r) PROVE PinMoves
    BY <1>4, <1>0 DEF Crash, NoJob, NoLogin, NoAdapter, HolderAfter, PinMoves
  <1>5. CASE UNCHANGED <<pin>>
    BY <1>5 DEF PinMoves
  <1>6. ASSUME NEW r \in Routers,
            Launch(r) \/ MakeRuntime(r) \/ HoldRuntime(r) \/ RequestCurrent(r)
             \/ Served(r) \/ Denied(r) \/ AcquireRepair(r)
             \/ AcquireTimesOut(r) \/ Refresh(r) \/ Compare(r) \/ Write(r)
             \/ Record(r) \/ Finish(r) \/ Cancel(r) \/ LoginLock(r)
             \/ LoginPublish(r) \/ LoginRecord(r) \/ LoginFails(r)
             \/ LoginNotes(r) \/ LoginNoted(r) \/ Reconsider(r)
         PROVE  UNCHANGED <<pin>>
    BY <1>6
    DEF Launch, MakeRuntime, HoldRuntime, RequestCurrent, Served, Denied, AcquireRepair,
        AcquireTimesOut, Refresh, Compare, Write, Record, Finish, Cancel, LoginLock,
        LoginPublish, LoginRecord, LoginFails, LoginNotes, LoginNoted, Reconsider
  <1>7. ASSUME NativeLogin \/ Expire \/ Revoke \/ Cool
         PROVE  UNCHANGED <<pin>>
    BY <1>7 DEF NativeLogin, Expire, Revoke, Cool
  <1> QED
    BY <1>1, <1>2, <1>3, <1>4, <1>5, <1>6, <1>7
    DEF Next, LaunchStep, RepairStep, LoginStep, vars

-----------------------------------------------------------------------------
(* The theorems *)

\* The invariant holds at the start: every router runs with the login in the file.
LEMMA RepairInit ==
    ASSUME CredentialAssumption, Init
    PROVE  RepairInv /\ DirInv /\ PinInv
  <1>1. \A r \in Routers :
          /\ job[r] = NoJob /\ login[r] = NoLogin
          /\ adapter[r] = [at |-> "up", access |-> 1, copy |-> store,
                           mark |-> Marker(store, rec), count |-> 0]
          /\ dir[r] = "held" /\ pin[r] = "fresh"
    BY DEF Init
  <1>2. /\ store = [access |-> 1, refresh |-> 1] /\ store \in CredentialSet
        /\ rec = NoRecord /\ rec \in Records /\ last = 1 /\ grants = {1} /\ epochs = 0
        /\ Marker(store, rec) = [gen |-> store, epoch |-> 0] /\ Marker(store, rec) \in MarkerSet
    BY DEF Init, CredentialSet, Records, NoRecord, Marker, MarkerSet, CredentialAssumption
  <1>3. TypeInv
    <2>1. \A r \in Routers : GoodJob(job[r]) /\ login[r] \in Logins
      <3>1. NoJob \in Jobs /\ NoJob.at \notin InRepair
        BY DEF Jobs, NoJob, InRepair
      <3>2. NoLogin \in Logins
        BY DEF Logins, NoLogin
      <3> QED
        BY <1>1, <3>1, <3>2 DEF GoodJob
    <2>2. \A r \in Routers : GoodAdapter(adapter[r])
      BY <1>1, <1>2 DEF GoodAdapter, Adapters
    <2>3. TypeOK
      <3>1. left \in [faults : Nat, expiries : Nat, acts : Nat]
        BY DEF Init, CredentialAssumption
      <3>2. /\ job \in [Routers -> Jobs] /\ login \in [Routers -> Logins]
            /\ adapter \in [Routers -> Adapters]
        BY <2>1, <2>2 DEF Init, GoodJob, GoodAdapter
      <3> QED
        <4>1. holder \in Holders \cup {None} /\ good \subseteq Nat /\ grants \subseteq Nat
          BY DEF Init
        <4>3. lost \in BOOLEAN /\ raced \in BOOLEAN
          BY DEF Init
        <4>2. /\ dir \in [Routers -> {"none", "open", "held"}]
              /\ tracker \in [Routers -> BOOLEAN]
              /\ pin \in [Routers -> {"fresh", "stale", "queued"}]
          BY DEF Init
        <4> QED
          BY <1>2, <3>1, <3>2, <4>1, <4>2, <4>3 DEF TypeOK
    <2> QED
      BY <2>1, <2>2, <2>3 DEF TypeInv
  <1>4. LockInv /\ DirInv /\ PinInv
    BY <1>1 DEF LockInv, DirInv, PinInv, NoJob, NoLogin, InRepair
  <1>5. SeenInv
    <2>1. ASSUME NEW a \in Nat, a > last PROVE Unseen(a)
      BY <1>1, <1>2, <2>1 DEF Unseen, NoJob, NoLogin, NoRecord
    <2> QED
      BY <1>1, <1>2, <2>1 DEF SeenInv, Pending, NoJob
  <1>6. StampInv
    <2>1. rec.epoch = 0
      BY <1>2 DEF NoRecord
    <2>2. ASSUME NEW r \in Routers
          PROVE  /\ Stamped(job[r].saw, job[r].count)
                 /\ login[r].write = None /\ job[r].at = "idle"
      BY <1>1 DEF Stamped, NoJob, NoLogin
    <2>3. ASSUME NEW r \in Routers
          PROVE  Stamped(adapter[r].mark, adapter[r].count)
      <3>1. adapter[r].mark.epoch = 0 /\ adapter[r].count = 0
        BY <1>1, <1>2
      <3> QED
        BY <1>2, <3>1 DEF Stamped
    <2> QED
      BY <1>2, <2>1, <2>2, <2>3 DEF StampInv
  <1>7. FlightInv
    <2>1. TokenInv
      BY <1>2 DEF TokenInv
    <2>2. RejectedIsDead
      BY <1>2, RejectedMeans DEF RejectedIsDead, NoRecord, CredentialAssumption, Outcomes
    <2> QED
      BY <1>1, <2>1, <2>2 DEF FlightInv, Flight, Pending, NoJob
  <1> QED
    BY <1>3, <1>4, <1>5, <1>6, <1>7 DEF RepairInv

\* Every step keeps the whole.
LEMMA InvariantStep ==
    ASSUME CredentialAssumption, RepairInv, DirInv, PinInv, [Next]_vars
    PROVE  RepairInv' /\ DirInv' /\ PinInv'
  BY TypeStep, LockStep, DirStep, PinStep, SeenStep, StampStep, FlightStep DEF RepairInv

\* The inductive invariant of the shared account: types, the lock, the tokens
\* that nobody has seen, the markers, and the repair in flight (repair_with,
\* login_runtime, RuntimeCredential).
THEOREM CredentialInvariant == Spec => [](RepairInv /\ DirInv /\ PinInv)
  <1>1. Init => RepairInv /\ DirInv /\ PinInv
    BY CredentialAssumption, RepairInit
  <1>2. RepairInv /\ DirInv /\ PinInv /\ [Next]_vars => (RepairInv /\ DirInv /\ PinInv)'
    BY CredentialAssumption, InvariantStep
  <1> QED
    BY <1>1, <1>2, PTL DEF Spec

\* Every variable of the account keeps its type.
THEOREM CredentialTypes == Spec => []TypeOK
  <1>1. RepairInv => TypeOK
    BY DEF RepairInv, TypeInv
  <1> QED
    BY <1>1, CredentialInvariant, PTL

\* A rotated refresh token reaches the file (repair_with, Cancel, login): for
\* any number of routers, crashes, lost answers and sign-ins, when nobody holds
\* the lock the file's refresh token is honoured, unless the answer was lost.
THEOREM RotationKept == Spec => []RefreshKept
  <1>1. RepairInv => RefreshKept
    <2> SUFFICES ASSUME RepairInv, holder = None, ~lost, ~raced
                 PROVE  store.refresh \in grants \/ Revoked
      BY DEF RefreshKept
    <2>1. \A r \in Routers : [who |-> r, what |-> "repair"] # None
      BY CredentialAssumption DEF CredentialAssumption, Holders
    <2>2. \A r \in Routers : ~Pending(r)
      BY <2>1 DEF RepairInv, LockInv, Pending, InRepair
    <2> QED
      BY <2>2 DEF RepairInv, FlightInv, TokenInv
  <1> QED
    BY <1>1, CredentialInvariant, PTL

\* The record condemns only a dead login (repair_with: the comparison before the
\* record; record_success).
THEOREM RejectionsAreDead == Spec => []RejectedIsDead
  <1>1. RepairInv => RejectedIsDead
    BY DEF RepairInv, FlightInv
  <1> QED
    BY <1>1, CredentialInvariant, PTL

\* A running adapter keeps its runtime directory (sweep_runtimes under the
\* allocation lock of RuntimeCredential::create).
THEOREM RuntimesKept == Spec => []RuntimeKept
  <1>1. DirInv => RuntimeKept
    BY DEF DirInv, RuntimeKept
  <1> QED
    BY <1>1, CredentialInvariant, PTL

\* One denial costs one refresh (repair_with: the marker is compared again under
\* the lock).
THEOREM DenialsRepairedOnce == Spec => OneRefreshPerDenial
  <1>1. RepairInv /\ [Next]_vars =>
          [\A r \in Routers :
             job[r].at = "refreshing" /\ job'[r].at = "answered" /\ ~raced
                => epochs = job[r].count]_vars
    BY DEF RepairInv, StampInv
  <1> QED
    BY <1>1, CredentialInvariant, PTL DEF Spec, OneRefreshPerDenial

\* No prompt reaches a replaced adapter before its session knows of the handoff
\* (start_login: queue_relogin_handoffs before the account opens).
THEOREM HandoffsBeforePrompts == Spec => HandoffBeforePrompt
  <1>1. RepairInv /\ PinInv /\ [Next]_vars =>
          [\A r \in Routers : job[r].at = "idle" /\ job'[r].at = "sent"
                              /\ pin'[r] # pin[r] => pin[r] # "stale"]_vars
    <2> SUFFICES ASSUME RepairInv, PinInv, [Next]_vars, NEW r \in Routers,
                        job[r].at = "idle", job'[r].at = "sent", pin'[r] # pin[r]
                 PROVE  pin[r] # "stale"
      OBVIOUS
    <2>1. RequestAdapter(r)
      BY CredentialAssumption, PinMove DEF PinMoves, RepairInv
    <2> QED
      BY <2>1 DEF PinInv, RequestAdapter
  <1> QED
    BY <1>1, CredentialInvariant, PTL DEF Spec, HandoffBeforePrompt
=============================================================================
