--------------------------- MODULE McpSignInProofs ---------------------------
(***************************************************************************)
(* Proofs about the shared sign-in of an MCP server, for any number of     *)
(* routers and flows and any budget (src/src/mcp_oauth.rs, mcp_broker.rs,  *)
(* mcp_menu.rs).                                                           *)
(*                                                                         *)
(* The invariant says who has a refresh token in use.  A call has its      *)
(* scope's lock from the reading of the tokens to their writing, so what   *)
(* is stored is what it read (Fenced) unless a sign-out removed it, and a  *)
(* refresh token is in use at one scope only, or by the one sign-in that   *)
(* got it (Apart).  A token that was rotated away is then out of use but   *)
(* for the call that has its successor in hand (Rotated).                  *)
(*                                                                         *)
(* Most actions bring no token and begin no flow: one lemma (QuietKeeps)   *)
(* keeps the invariant for all of them.                                    *)
(***************************************************************************)
EXTENDS McpSignIn, TLAPS

------------------------------------------------------------------------------
(* The inductive invariant *)

\* A call that holds its scope's lock and works on the tokens it read there.
Fetching(r) == call[r].at \in {"refresh", "answered", "transient", "refused"}
Locked(r) == Fetching(r) \/ call[r].at = "lockedhelp"
Held(r, what) == [who |-> r, what |-> what]

\* Who works under a lock holds it.
Locks ==
    \A r \in Routers :
        /\ Locked(r) => holder[call[r].scope] = Held(r, "call")
        /\ menu[r].at = "second" => holder["system"] = Held(r, "menu")
        /\ menu[r].at = "starting" => holder[menu[r].to] = Held(r, "menu")

\* Tokens that somebody remembers.
Known ==
    ({store[s].tok : s \in Scopes} \cup {call[r].snap : r \in Routers}
        \cup {call[r].new : r \in Routers} \cup {task[t].got : t \in Tasks}) \ {None}

Used(f) == flows[f].who # None

\* Numbers name what was issued, and a bearer names its token.
Issued ==
    /\ grants \cup good \cup spent \subseteq 1 .. last
    /\ \A r \in Routers : call[r].token <= last
    /\ \A r \in Routers : supplied[r] # None => supplied[r].token <= last
    /\ \A a \in Known :
          /\ a.access <= last /\ a.refresh <= last
          /\ a.by # 0 => Used(a.by)

Same(a, b) == a.access = b.access /\ a.refresh = b.refresh /\ a.by = b.by

Named == \A a, b \in Known : a.access = b.access => Same(a, b)

\* What the steps of a call and of a sign-in have at hand.
AtHand ==
    /\ \A r \in Routers :
          /\ call[r].at = "wait" \/ Fetching(r) => call[r].snap # None /\ ~call[r].snap.failed
          /\ call[r].at = "answered" =>
                /\ call[r].new # None /\ ~call[r].new.failed /\ call[r].new.by = call[r].snap.by
          /\ call[r].at = "refused" => call[r].snap.refresh \notin grants
          /\ call[r].at = "marking" => call[r].token \notin good
          /\ menu[r].at = "begun" => menu[r].flow # None
    /\ \A t \in Tasks :
          /\ task[t].at = "install" => task[t].got # None
          /\ task[t].got # None => task[t].got.by = t[1] /\ ~task[t].got.failed

\* Under a call's lock the store has what the call read, or was signed out.
Fenced ==
    \A r \in Routers : Fetching(r) =>
        \/ store[call[r].scope].tok = None
        \/ Same(store[call[r].scope].tok, call[r].snap)

\* A refresh token that is in use at a scope.
Custody(s, x) ==
    \/ store[s].tok # None /\ store[s].tok.refresh = x
    \/ \E r \in Routers : /\ Fetching(r) /\ call[r].scope = s
                          /\ \/ call[r].snap.refresh = x
                             \/ call[r].at = "answered" /\ call[r].new.refresh = x

\* A sign-in has the refresh token x, and nobody else has.
Reserved(t, x) ==
    /\ x \notin spent
    /\ \A s \in Scopes : ~Custody(s, x)
    /\ \A u \in Tasks : u # t /\ task[u].got # None => task[u].got.refresh # x

\* A refresh token is in use at one scope, or by one sign-in that is not over.
Apart ==
    /\ \A x \in 1 .. last : ~(Custody("system", x) /\ Custody("project", x))
    /\ \A t \in Tasks, x \in 1 .. last :
          task[t].got # None /\ task[t].got.refresh = x => Reserved(t, x)

\* A refresh token that was rotated away is out of use, but for the call that
\* has its successor, unless the successor was lost.
Rotated ==
    /\ grants \cap spent = {}
    /\ \A s \in Scopes : store[s].tok # None /\ store[s].tok.refresh \in spent \ lost =>
          \E r \in Routers : call[r].at = "answered" /\ call[r].scope = s
    /\ \A r \in Routers : Fetching(r) =>
          IF call[r].at = "answered" THEN call[r].new.refresh \notin spent
          ELSE call[r].snap.refresh \notin spent \ lost

\* Flows begin in their order, and the one a store waits for is newer than its
\* tokens.
Newest ==
    /\ \A f, g \in Flows : Used(f) /\ g < f => Used(g)
    /\ \A s \in Scopes : store[s].tok # None => store[s].configured
    /\ \A s \in Scopes : store[s].flow # None =>
          /\ Used(store[s].flow)
          /\ store[s].tok # None => store[s].tok.by <= store[s].flow
          /\ \A r \in Routers : Fetching(r) /\ call[r].scope = s =>
                call[r].snap.by <= store[s].flow

McpInv ==
    /\ TypeOK /\ Locks /\ Issued /\ Named /\ AtHand /\ Fenced /\ Apart /\ Rotated /\ Newest
    /\ GrantSpentOnce /\ FailedIsDead

\* Whoever waits for a flow waits for one that began.
Begun ==
    /\ \A t \in Tasks : task[t].at # "no" => Used(t[1])
    /\ \A r \in Routers : menu[r].at = "begun" => Used(menu[r].flow)
    /\ \A r \in Routers : pending[r] # None => Used(pending[r])

------------------------------------------------------------------------------
(* Types *)

\* The fields of the records, what a write to one of them leaves alone, and one
\* lemma per action: it keeps the types.

\* The writes to a store.
WithTok(f, s, x) == [f EXCEPT ![s].tok = x, ![s].configured = TRUE]
WithFlow(f, s, x) == [f EXCEPT ![s].flow = x]
WithFailed(f, s) == [f EXCEPT ![s].tok.failed = TRUE]
WithLife(f, s, x) == [f EXCEPT ![s].tok.life = x]

LEMMA WithTokWrites ==
    ASSUME NEW f \in [Scopes -> StoreSet], NEW s \in Scopes, NEW x \in TokenSet \cup {None}
    PROVE  /\ WithTok(f, s, x) \in [Scopes -> StoreSet]
           /\ WithTok(f, s, x)[s].tok = x
           /\ WithTok(f, s, x)[s].configured
           /\ WithTok(f, s, x)[s].flow = f[s].flow
           /\ \A i \in Scopes : i # s => WithTok(f, s, x)[i] = f[i]
<1> DEFINE y == [f[s] EXCEPT !.tok = x, !.configured = TRUE]
<1>1. f[s] \in StoreSet
    OBVIOUS
<1>2. y \in StoreSet /\ y.tok = x /\ y.configured /\ y.flow = f[s].flow
    BY <1>1 DEF StoreSet
<1>3. WithTok(f, s, x) = [f EXCEPT ![s] = y]
    BY DEF WithTok
<1> HIDE DEF y
<1> QED BY <1>2, <1>3

LEMMA WithFlowWrites ==
    ASSUME NEW f \in [Scopes -> StoreSet], NEW s \in Scopes, NEW x \in Flows \cup {None}
    PROVE  /\ WithFlow(f, s, x) \in [Scopes -> StoreSet]
           /\ WithFlow(f, s, x)[s].flow = x
           /\ WithFlow(f, s, x)[s].tok = f[s].tok
           /\ WithFlow(f, s, x)[s].configured = f[s].configured
           /\ \A i \in Scopes : i # s => WithFlow(f, s, x)[i] = f[i]
<1> DEFINE y == [f[s] EXCEPT !.flow = x]
<1>1. f[s] \in StoreSet
    OBVIOUS
<1>2. /\ y \in StoreSet /\ y.flow = x /\ y.tok = f[s].tok
      /\ y.configured = f[s].configured
    BY <1>1 DEF StoreSet
<1>3. WithFlow(f, s, x) = [f EXCEPT ![s] = y]
    BY DEF WithFlow
<1> HIDE DEF y
<1> QED BY <1>2, <1>3

LEMMA WithFailedWrites ==
    ASSUME NEW f \in [Scopes -> StoreSet], NEW s \in Scopes, f[s].tok \in TokenSet
    PROVE  /\ WithFailed(f, s) \in [Scopes -> StoreSet]
           /\ WithFailed(f, s)[s].tok \in TokenSet
           /\ WithFailed(f, s)[s].tok.failed
           /\ WithFailed(f, s)[s].tok.access = f[s].tok.access
           /\ WithFailed(f, s)[s].tok.refresh = f[s].tok.refresh
           /\ WithFailed(f, s)[s].tok.by = f[s].tok.by
           /\ WithFailed(f, s)[s].configured = f[s].configured
           /\ WithFailed(f, s)[s].flow = f[s].flow
           /\ \A i \in Scopes : i # s => WithFailed(f, s)[i] = f[i]
<1> DEFINE y == [f[s].tok EXCEPT !.failed = TRUE]
<1> DEFINE z == [f[s] EXCEPT !.tok = y]
<1>1. f[s] \in StoreSet
    OBVIOUS
<1>2. /\ y \in TokenSet /\ y.failed /\ y.access = f[s].tok.access
      /\ y.refresh = f[s].tok.refresh /\ y.by = f[s].tok.by
    BY DEF TokenSet
<1>3. WithFailed(f, s) = [f EXCEPT ![s] = z]
    BY DEF WithFailed
<1> HIDE DEF y
<1>4. z \in StoreSet /\ z.tok = y /\ z.configured = f[s].configured /\ z.flow = f[s].flow
    BY <1>1, <1>2 DEF StoreSet
<1> HIDE DEF z
<1> QED BY <1>2, <1>3, <1>4

LEMMA WithLifeWrites ==
    ASSUME NEW f \in [Scopes -> StoreSet], NEW s \in Scopes, f[s].tok \in TokenSet,
           NEW x \in Lifetimes
    PROVE  /\ WithLife(f, s, x) \in [Scopes -> StoreSet]
           /\ WithLife(f, s, x)[s].tok \in TokenSet
           /\ WithLife(f, s, x)[s].tok.failed = f[s].tok.failed
           /\ WithLife(f, s, x)[s].tok.access = f[s].tok.access
           /\ WithLife(f, s, x)[s].tok.refresh = f[s].tok.refresh
           /\ WithLife(f, s, x)[s].tok.by = f[s].tok.by
           /\ WithLife(f, s, x)[s].configured = f[s].configured
           /\ WithLife(f, s, x)[s].flow = f[s].flow
           /\ \A i \in Scopes : i # s => WithLife(f, s, x)[i] = f[i]
<1> DEFINE y == [f[s].tok EXCEPT !.life = x]
<1> DEFINE z == [f[s] EXCEPT !.tok = y]
<1>1. f[s] \in StoreSet
    OBVIOUS
<1>2. /\ y \in TokenSet /\ y.failed = f[s].tok.failed /\ y.access = f[s].tok.access
      /\ y.refresh = f[s].tok.refresh /\ y.by = f[s].tok.by
    BY DEF TokenSet
<1>3. WithLife(f, s, x) = [f EXCEPT ![s] = z]
    BY DEF WithLife
<1> HIDE DEF y
<1>4. z \in StoreSet /\ z.tok = y /\ z.configured = f[s].configured /\ z.flow = f[s].flow
    BY <1>1, <1>2 DEF StoreSet
<1> HIDE DEF z
<1> QED BY <1>2, <1>3, <1>4

LEMMA CallFields ==
    ASSUME NEW c \in CallSet
    PROVE  /\ c.at \in CallStates /\ c.scope \in Scopes /\ c.token \in Nat
           /\ c.snap \in TokenSet \cup {None} /\ c.new \in TokenSet \cup {None}
           /\ c.forced \in BOOLEAN /\ c.listed \in BOOLEAN
BY DEF CallSet

LEMMA CallExcept ==
    ASSUME NEW c \in CallSet
    PROVE  /\ \A a \in CallStates : [c EXCEPT !.at = a] \in CallSet
           /\ \A a \in CallStates, n \in Nat : [c EXCEPT !.at = a, !.token = n] \in CallSet
           /\ \A a \in CallStates, x \in TokenSet \cup {None} :
                 [c EXCEPT !.at = a, !.new = x] \in CallSet
BY DEF CallSet

\* What the stores hold.
LEMMA StoreFields ==
    ASSUME TypeOK, NEW s \in Scopes
    PROVE  /\ store[s] \in StoreSet
           /\ store[s].tok \in TokenSet \cup {None} /\ store[s].configured \in BOOLEAN
           /\ store[s].flow \in Flows \cup {None}
BY DEF TypeOK, StoreSet

LEMMA TokenFields ==
    ASSUME NEW a \in TokenSet
    PROVE  /\ a.access \in Nat /\ a.refresh \in Nat /\ a.failed \in BOOLEAN
           /\ a.life \in Lifetimes /\ a.by \in 0 .. MaxFlows
BY DEF TokenSet

LEMMA Budgeted ==
    ASSUME TypeOK, NEW f \in {"calls", "ages", "acts", "stops", "faults"}, left[f] > 0
    PROVE  Spend(f) \in BudgetSet
BY DEF TypeOK, BudgetSet, Spend

LEMMA FaultBudgeted == TypeOK /\ Fault => Spend("faults") \in BudgetSet
BY DEF TypeOK, BudgetSet, Spend, Fault

LEMMA LookType ==
    ASSUME TypeOK, NEW r \in Routers, NEW c \in CallSet, NEW forced \in BOOLEAN,
           NEW next \in CallStates, Look(r, c, forced, next)
    PROVE  call' \in [Routers -> CallSet]
<1>1. store[c.scope] \in StoreSet
    BY DEF TypeOK, CallSet
<1>2. Usable(c.scope) => store[c.scope].tok \in TokenSet /\ store[c.scope].tok.access \in Nat
    BY <1>1 DEF Usable, TokenSet, StoreSet
<1>3. store[c.scope].tok \in TokenSet \cup {None}
    BY <1>1 DEF StoreSet
<1> QED BY <1>1, <1>2, <1>3 DEF TypeOK, Look, CallStates, CallSet

LEMMA TypeRequest == ASSUME TypeOK, NEW r \in Routers, Request(r) PROVE TypeOK'
<1>1. NoCall \in CallSet
    BY DEF NoCall, CallStates, Scopes, CallSet
<1>2. entry[r] \in Scopes
    BY DEF TypeOK, Request
<1>3. PICK l \in BOOLEAN : Look(r, [NoCall EXCEPT !.scope = entry[r], !.listed = l], FALSE, "first")
    BY DEF Request
<1>4. [NoCall EXCEPT !.scope = entry[r], !.listed = l] \in CallSet
    BY <1>1, <1>2 DEF CallSet
<1>5. call' \in [Routers -> CallSet]
    BY <1>4, <1>3, LookType DEF CallStates
<1>6. left' \in BudgetSet
    BY DEF TypeOK, Request, Spend, BudgetSet
<1> QED BY <1>5, <1>6 DEF TypeOK, Request, server, people, ghosts

LEMMA TypeAcquire == ASSUME TypeOK, NEW r \in Routers, Acquire(r) PROVE TypeOK'
<1>1. call[r] \in CallSet /\ call[r].scope \in Scopes
    BY CallFields DEF TypeOK
<1>2. store[call[r].scope].tok # None => store[call[r].scope].tok.access \in Nat
    BY <1>1, StoreFields, TokenFields
<1>3. \A a \in CallStates : [call[r] EXCEPT !.at = a] \in CallSet
    BY <1>1, CallExcept
<1>4. \A a \in CallStates, n \in Nat : [call[r] EXCEPT !.at = a, !.token = n] \in CallSet
    BY <1>1, CallExcept
<1>5. call' \in [Routers -> CallSet]
    <2>1. CASE ~Usable(call[r].scope)
        BY <2>1, <1>3 DEF TypeOK, Acquire, CallStates
    <2>2. CASE Usable(call[r].scope) /\ Reusable(r)
        BY <2>2, <1>2, <1>4 DEF TypeOK, Acquire, CallStates, Usable, Ready
    <2>3. CASE Usable(call[r].scope) /\ ~Reusable(r)
        BY <2>3, <1>3 DEF TypeOK, Acquire, CallStates
    <2> QED BY <2>1, <2>2, <2>3
<1>6. holder' \in [Scopes -> HolderSet \cup {None}]
    BY <1>1 DEF TypeOK, Acquire, HolderSet
<1> QED BY <1>5, <1>6 DEF TypeOK, Acquire, server, people, ghosts

LEMMA TypeLockTimeout == ASSUME TypeOK, NEW r \in Routers, LockTimeout(r) PROVE TypeOK'
<1>1. call' \in [Routers -> CallSet]
    BY CallExcept DEF TypeOK, LockTimeout, CallStates
<1> QED BY <1>1, FaultBudgeted DEF TypeOK, LockTimeout, server, people, ghosts

LEMMA TypeRefresh == ASSUME TypeOK, AtHand, NEW r \in Routers, Refresh(r) PROVE TypeOK'
<1>1. call[r] \in CallSet /\ call[r].snap \in TokenSet
    BY CallFields DEF TypeOK, Refresh, AtHand, Fetching
<1>2. call[r].snap.refresh \in Nat
    BY <1>1, TokenFields
<1> DEFINE new(rotates) == [call[r].snap EXCEPT !.access = last + 1, !.life = "long",
                                    !.refresh = IF rotates THEN last + 2 ELSE @]
<1>3. \A b \in BOOLEAN : new(b) \in TokenSet
    <2>1. last + 1 \in Nat /\ last + 2 \in Nat /\ "long" \in Lifetimes
        BY DEF TypeOK, Lifetimes
    <2> QED BY <1>1, <2>1 DEF TokenSet
<1>4. \A a \in CallStates : [call[r] EXCEPT !.at = a] \in CallSet
    BY <1>1, CallExcept
<1>5. \A a \in CallStates, b \in BOOLEAN : [call[r] EXCEPT !.at = a, !.new = new(b)] \in CallSet
    BY <1>1, <1>3, CallExcept
<1>6. again' \subseteq Nat
    BY <1>2 DEF TypeOK, Refresh
<1>7. call' \in [Routers -> CallSet]
    BY <1>4, <1>5 DEF TypeOK, Refresh, CallStates
<1>8. left' \in BudgetSet
    BY FaultBudgeted DEF TypeOK, Refresh
<1>9. last' \in Nat /\ good' \subseteq Nat /\ grants' \subseteq Nat /\ spent' \subseteq Nat
      /\ lost' \subseteq Nat
    <2>1. last + 1 \in Nat /\ last + 2 \in Nat
        BY DEF TypeOK
    <2>2. CASE UNCHANGED <<server, spent, lost>>
        BY <2>2 DEF TypeOK, server
    <2>3. CASE ~UNCHANGED <<server, spent, lost>>
        <3>1. PICK rotates \in BOOLEAN, arrives \in BOOLEAN :
                 /\ last' = last + 2
                 /\ good' = good \cup {last + 1}
                 /\ grants' = IF rotates THEN (grants \ {call[r].snap.refresh}) \cup {last + 2} ELSE grants
                 /\ spent' = IF rotates THEN spent \cup {call[r].snap.refresh} ELSE spent
                 /\ lost' = IF rotates /\ ~arrives THEN lost \cup {call[r].snap.refresh} ELSE lost
            BY <2>3 DEF Refresh
        <3> QED BY <3>1, <2>1, <1>2 DEF TypeOK
    <2> QED BY <2>2, <2>3
<1> QED BY <1>6, <1>7, <1>8, <1>9 DEF TypeOK, Refresh, people

LEMMA TypeWriteTokens == ASSUME TypeOK, AtHand, NEW r \in Routers, WriteTokens(r) PROVE TypeOK'
<1>1. call[r] \in CallSet /\ call[r].snap \in TokenSet /\ call[r].new \in TokenSet
      /\ call[r].scope \in Scopes
    BY CallFields DEF TypeOK, WriteTokens, AtHand, Fetching
<1>2. call[r].snap.refresh \in Nat /\ call[r].new.access \in Nat
    BY <1>1, TokenFields
<1>3. call' \in [Routers -> CallSet]
    <2>1. \A a \in CallStates : [call[r] EXCEPT !.at = a] \in CallSet
        BY <1>1, CallExcept
    <2>2. [call[r] EXCEPT !.at = Ready(call[r]), !.token = call[r].new.access] \in CallSet
        BY <1>1, <1>2, CallExcept DEF CallStates, Ready
    <2> QED BY <2>1, <2>2 DEF TypeOK, WriteTokens, CallStates
<1>4. store' \in [Scopes -> StoreSet]
    <2>1. store' \in {store, WithTok(store, call[r].scope, call[r].new)}
        BY DEF WriteTokens, WithTok
    <2> QED BY <1>1, <2>1, WithTokWrites DEF TypeOK
<1>5. holder' \in [Scopes -> HolderSet \cup {None}]
    BY <1>1 DEF TypeOK, WriteTokens, Release, HolderSet
<1>6. left' \in BudgetSet /\ lost' \subseteq Nat
    BY <1>2, FaultBudgeted DEF TypeOK, WriteTokens
<1> QED BY <1>3, <1>4, <1>5, <1>6 DEF TypeOK, WriteTokens, server, people

LEMMA TypeTransient == ASSUME TypeOK, AtHand, NEW r \in Routers, Transient(r) PROVE TypeOK'
<1>1. call[r] \in CallSet /\ call[r].snap \in TokenSet /\ call[r].scope \in Scopes
    BY CallFields DEF TypeOK, Transient, AtHand, Fetching
<1>2. call[r].snap.access \in Nat
    BY <1>1, TokenFields
<1>3. call' \in [Routers -> CallSet]
    BY <1>1, <1>2, CallExcept DEF TypeOK, Transient, CallStates
<1>4. holder' \in [Scopes -> HolderSet \cup {None}]
    BY <1>1 DEF TypeOK, Transient, Release, HolderSet
<1> QED BY <1>3, <1>4 DEF TypeOK, Transient, server, people, ghosts

LEMMA TypeMarkFailed == ASSUME TypeOK, AtHand, NEW r \in Routers, MarkFailed(r) PROVE TypeOK'
<1>1. call[r] \in CallSet /\ call[r].snap \in TokenSet /\ call[r].scope \in Scopes
    BY CallFields DEF TypeOK, MarkFailed, AtHand, Fetching
<1>2. [call[r].snap EXCEPT !.failed = TRUE] \in TokenSet
    BY <1>1 DEF TokenSet
<1>3. call' \in [Routers -> CallSet]
    BY <1>1, CallExcept DEF TypeOK, MarkFailed, CallStates
<1>4. holder' \in [Scopes -> HolderSet \cup {None}]
    BY <1>1 DEF TypeOK, MarkFailed, Release, HolderSet
<1>5. store' \in [Scopes -> StoreSet]
    <2>1. store' = WithTok(store, call[r].scope, [call[r].snap EXCEPT !.failed = TRUE])
        BY DEF MarkFailed, WithTok
    <2> QED BY <1>1, <1>2, <2>1, WithTokWrites DEF TypeOK
<1> QED BY <1>3, <1>4, <1>5 DEF TypeOK, MarkFailed, server, people, ghosts

LEMMA TypeHelper == ASSUME TypeOK, NEW r \in Routers, Helper(r) PROVE TypeOK'
<1>1. call[r] \in CallSet /\ call[r].scope \in Scopes
    BY CallFields DEF TypeOK
<1>2. ASSUME NEW answer \in [token : Nat, deny : BOOLEAN], Supplied(r, answer)
      PROVE  call' \in [Routers -> CallSet]
    BY <1>1, <1>2, CallExcept DEF TypeOK, Supplied, Ready, CallStates
<1>3. holder' \in [Scopes -> HolderSet \cup {None}]
    BY <1>1 DEF TypeOK, Helper, Release, HolderSet
<1>4. call' \in [Routers -> CallSet] /\ supplied' \in [Routers -> [token : Nat, deny : BOOLEAN] \cup {None}]
      /\ good' \subseteq Nat /\ last' \in Nat
    <2>1. CASE supplied[r] # None /\ Supplied(r, supplied[r]) /\ UNCHANGED <<supplied, good, last>>
        <3>1. supplied[r] \in [token : Nat, deny : BOOLEAN]
            BY <2>1 DEF TypeOK
        <3> QED BY <2>1, <3>1, <1>2 DEF TypeOK
    <2>2. ASSUME NEW grant \in BOOLEAN, NEW deny \in BOOLEAN,
                 LET answer == [token |-> IF grant THEN last + 1 ELSE 0, deny |-> grant /\ deny] IN
                 /\ supplied' = [supplied EXCEPT ![r] = answer]
                 /\ Supplied(r, answer)
                 /\ last' = last + 1
                 /\ good' = IF grant THEN good \cup {last + 1} ELSE good
          PROVE  call' \in [Routers -> CallSet]
                 /\ supplied' \in [Routers -> [token : Nat, deny : BOOLEAN] \cup {None}]
                 /\ good' \subseteq Nat /\ last' \in Nat
        <3> DEFINE answer == [token |-> IF grant THEN last + 1 ELSE 0, deny |-> grant /\ deny]
        <3>1. answer \in [token : Nat, deny : BOOLEAN]
            BY DEF TypeOK
        <3>2. Supplied(r, answer) /\ supplied' = [supplied EXCEPT ![r] = answer]
            BY <2>2
        <3>3. last' \in Nat /\ good' \subseteq Nat
            BY <2>2 DEF TypeOK
        <3> HIDE DEF answer
        <3> QED BY <3>1, <3>2, <3>3, <1>2 DEF TypeOK
    <2> QED BY <2>1, <2>2 DEF Helper
<1> QED BY <1>3, <1>4 DEF TypeOK, Helper, server, people, ghosts

LEMMA TypeForward == ASSUME TypeOK, NEW r \in Routers, Forward(r) PROVE TypeOK'
<1>1. call[r] \in CallSet /\ \A a \in CallStates : [call[r] EXCEPT !.at = a] \in CallSet
    BY CallExcept DEF TypeOK
<1>2. Look(r, call[r], TRUE, "second") => call' \in [Routers -> CallSet]
    BY <1>1, LookType DEF CallStates
<1>3. call' \in [Routers -> CallSet]
    BY <1>1, <1>2 DEF TypeOK, Forward, CallStates
<1> QED BY <1>3, FaultBudgeted DEF TypeOK, Forward, server, people, ghosts

LEMMA TypeForwardAgain == ASSUME TypeOK, NEW r \in Routers, ForwardAgain(r) PROVE TypeOK'
<1>1. call' \in [Routers -> CallSet]
    <2>1. \A a \in CallStates : [call[r] EXCEPT !.at = a] \in CallSet
        BY CallExcept DEF TypeOK
    <2> QED BY <2>1 DEF TypeOK, ForwardAgain, CallStates
<1> QED BY <1>1, FaultBudgeted DEF TypeOK, ForwardAgain, server, people, ghosts

LEMMA TypeMarkAccessRejected ==
    ASSUME TypeOK, NEW r \in Routers, MarkAccessRejected(r) PROVE TypeOK'
<1>1. call' \in [Routers -> CallSet]
    BY CallExcept DEF TypeOK, MarkAccessRejected, CallStates
<1>2. call[r].scope \in Scopes
    BY CallFields DEF TypeOK
<1>3. store' \in [Scopes -> StoreSet]
    <2> DEFINE s == call[r].scope
    <2>1. CASE store[s].tok = None
        BY <2>1 DEF TypeOK, MarkAccessRejected
    <2>2. CASE store[s].tok # None
        <3>1. store[s].tok \in TokenSet
            BY <2>2, <1>2, StoreFields
        <3>2. store' \in {store, WithFailed(store, s)}
            BY DEF MarkAccessRejected, WithFailed
        <3> QED BY <3>1, <3>2, <1>2, WithFailedWrites DEF TypeOK
    <2> QED BY <2>1, <2>2
<1> QED BY <1>1, <1>3 DEF TypeOK, MarkAccessRejected, server, people, ghosts

LEMMA TypeAnswered == ASSUME TypeOK, NEW r \in Routers, Answered(r) PROVE TypeOK'
<1>1. NoCall \in CallSet
    BY DEF NoCall, CallStates, Scopes, CallSet
<1> QED BY <1>1 DEF TypeOK, Answered, server, people, ghosts

LEMMA TypeSessionServers == ASSUME TypeOK, NEW r \in Routers, SessionServers(r) PROVE TypeOK'
BY DEF TypeOK, SessionServers, server, people, ghosts

LEMMA TaskIds ==
    /\ \A t \in Tasks : t[1] \in Flows
    /\ \A f \in Flows, c \in Channels : <<f, c>> \in Tasks /\ <<f, c>>[1] = f
    /\ \A f \in Flows : <<f, "listener">> \in Tasks /\ <<f, "paste">> \in Tasks
BY DEF Tasks, Channels

LEMMA TaskFields ==
    ASSUME NEW x \in TaskSet
    PROVE  /\ x.at \in TaskStates /\ x.err \in BOOLEAN /\ x.got \in TokenSet \cup {None}
           /\ \A a \in TaskStates :
                 /\ [x EXCEPT !.at = a] \in TaskSet
                 /\ [x EXCEPT !.at = a].at = a /\ [x EXCEPT !.at = a].got = x.got
           /\ \A a \in TaskStates, b \in BOOLEAN :
                 /\ [x EXCEPT !.at = a, !.err = b] \in TaskSet
                 /\ [x EXCEPT !.at = a, !.err = b].at = a
                 /\ [x EXCEPT !.at = a, !.err = b].got = x.got
           /\ \A a \in TaskStates, y \in TokenSet \cup {None} :
                 /\ [x EXCEPT !.at = a, !.got = y] \in TaskSet
                 /\ [x EXCEPT !.at = a, !.got = y].at = a
                 /\ [x EXCEPT !.at = a, !.got = y].got = y
BY DEF TaskSet

\* Stopping a listener keeps what the tasks hold.
LEMMA StoppedTasks ==
    ASSUME NEW u \in [Tasks -> TaskSet], NEW f \in Flows
    PROVE  /\ Stopped(u, f) \in [Tasks -> TaskSet]
           /\ \A t \in Tasks :
                 /\ Stopped(u, f)[t].got = u[t].got
                 /\ Stopped(u, f)[t].at \in {u[t].at, "done"}
<1> DEFINE t0 == <<f, "listener">>
           y == IF u[t0].at = "listening" THEN [u[t0] EXCEPT !.at = "done"] ELSE u[t0]
<1>1. t0 \in Tasks
    BY TaskIds
<1>2. Stopped(u, f) = [u EXCEPT ![t0] = y]
    BY DEF Stopped
<1>3. y \in TaskSet /\ y.got = u[t0].got /\ y.at \in {u[t0].at, "done"}
    <2>1. u[t0] \in TaskSet
        BY <1>1
    <2> HIDE DEF t0
    <2> QED BY <2>1 DEF TaskSet, TaskStates
<1> HIDE DEF y, t0
<1> QED BY <1>1, <1>2, <1>3

\* One task of a flow and channel moves.
WithTask(u, t, a) == [u EXCEPT ![t].at = a]

LEMMA MovedTask ==
    ASSUME NEW u \in [Tasks -> TaskSet], NEW t \in Tasks,
           NEW a \in TaskStates
    PROVE  /\ WithTask(u, t, a) \in [Tasks -> TaskSet]
           /\ WithTask(u, t, a)[t].at = a
           /\ WithTask(u, t, a)[t].got = u[t].got
           /\ \A v \in Tasks : v # t => WithTask(u, t, a)[v] = u[v]
<1> DEFINE y == [u[t] EXCEPT !.at = a]
<1>1. WithTask(u, t, a) = [u EXCEPT ![t] = y]
    BY DEF WithTask
<1>2. y \in TaskSet /\ y.at = a /\ y.got = u[t].got
    <2>1. u[t] \in TaskSet
        OBVIOUS
    <2> QED BY <2>1 DEF TaskSet
<1> HIDE DEF y
<1> QED BY <1>1, <1>2

LEMMA MenuFields ==
    ASSUME NEW m \in MenuSet
    PROVE  /\ m.to \in Scopes /\ m.move \in BOOLEAN /\ m.cli \in BOOLEAN
           /\ m.flow \in Flows \cup {None}
           /\ \A a \in {"no", "first", "second", "start", "starting", "begun"} :
                 /\ [m EXCEPT !.at = a] \in MenuSet
                 /\ \A f \in Flows : [m EXCEPT !.at = a, !.flow = f] \in MenuSet
BY DEF MenuSet

LEMMA FlowFields ==
    ASSUME NEW x \in FlowSet
    PROVE  /\ x.who \in Routers \cup {None} /\ x.scope \in Scopes /\ x.cli \in BOOLEAN
           /\ [x EXCEPT !.live = FALSE] \in FlowSet /\ [x EXCEPT !.used = TRUE] \in FlowSet
           /\ [x EXCEPT !.live = FALSE].who = x.who /\ [x EXCEPT !.used = TRUE].who = x.who
BY DEF FlowSet

LEMMA Constants ==
    /\ NoMenu \in MenuSet /\ NoTask \in TaskSet /\ NoStore \in StoreSet /\ NoCall \in CallSet
    /\ \A s \in Scopes : Other(s) \in Scopes
BY DEF NoMenu, NoTask, NoStore, NoCall, MenuSet, TaskSet, StoreSet, CallSet, Scopes, Other,
       TaskStates, CallStates

LEMMA TypeChooseScope ==
    ASSUME TypeOK, NEW r \in Routers, NEW to \in Scopes, NEW move \in BOOLEAN, NEW cli \in BOOLEAN,
           ChooseScope(r, to, move, cli)
    PROVE  TypeOK'
<1>1. left' \in BudgetSet
    BY DEF TypeOK, ChooseScope, BudgetSet, Spend
<1>2. [at |-> IF to = selected THEN "start" ELSE "first", to |-> to, move |-> move, cli |-> cli,
       flow |-> None] \in MenuSet
    BY DEF MenuSet
<1>3. menu' \in [Routers -> MenuSet]
    BY <1>2 DEF TypeOK, ChooseScope
<1> QED BY <1>1, <1>3 DEF TypeOK, ChooseScope, server, ghosts

LEMMA TypeLockFirst == ASSUME TypeOK, NEW r \in Routers, LockFirst(r) PROVE TypeOK'
<1>1. menu' \in [Routers -> MenuSet]
    BY MenuFields DEF TypeOK, LockFirst
<1>2. holder' \in [Scopes -> HolderSet \cup {None}]
    BY DEF TypeOK, LockFirst, Scopes, HolderSet
<1> QED BY <1>1, <1>2 DEF TypeOK, LockFirst, server, ghosts

LEMMA TypeSetAccountScope == ASSUME TypeOK, NEW r \in Routers, SetAccountScope(r) PROVE TypeOK'
<1> DEFINE to == menu[r].to
           from == Other(to)
<1>1. menu[r] \in MenuSet /\ to \in Scopes /\ from \in Scopes
    BY Constants, MenuFields DEF TypeOK
<1>2. menu' \in [Routers -> MenuSet]
    <2>1. (IF menu[r].move THEN NoMenu ELSE [menu[r] EXCEPT !.at = "start"]) \in MenuSet
        BY <1>1, Constants, MenuFields
    <2> QED BY <2>1, Constants DEF TypeOK, SetAccountScope
<1>3. holder' \in [Scopes -> HolderSet \cup {None}]
    BY DEF TypeOK, SetAccountScope, Release, Scopes, HolderSet
<1>4. [store[from] EXCEPT !.flow = None] \in StoreSet
    BY <1>1, StoreFields DEF StoreSet
<1>5. store' \in {store, [store EXCEPT ![to] = [store[from] EXCEPT !.flow = None],
                                       ![from] = NoStore]}
    BY DEF SetAccountScope
<1> HIDE DEF from, to
<1>6. store' \in [Scopes -> StoreSet]
    BY <1>1, <1>4, <1>5, Constants DEF TypeOK
<1>7. entry' \in [Routers -> Scopes \cup {None}] /\ selected' \in Scopes
    BY <1>1 DEF TypeOK, SetAccountScope, to
<1> QED BY <1>2, <1>3, <1>6, <1>7 DEF TypeOK, SetAccountScope, server, ghosts

LEMMA TypeStartLock == ASSUME TypeOK, NEW r \in Routers, StartLock(r) PROVE TypeOK'
<1>1. menu' \in [Routers -> MenuSet]
    BY MenuFields DEF TypeOK, StartLock
<1>2. holder' \in [Scopes -> HolderSet \cup {None}]
    BY MenuFields DEF TypeOK, StartLock, HolderSet
<1> QED BY <1>1, <1>2 DEF TypeOK, StartLock, server, ghosts

LEMMA TypeStartFlow == ASSUME TypeOK, NEW r \in Routers, StartFlow(r) PROVE TypeOK'
<1>1. menu[r] \in MenuSet /\ menu[r].to \in Scopes /\ menu[r].cli \in BOOLEAN
    BY MenuFields DEF TypeOK
<1>2. menu' \in [Routers -> MenuSet]
    <2>1. \A f \in Flows : [menu[r] EXCEPT !.at = "begun", !.flow = f] \in MenuSet
        BY <1>1, MenuFields
    <2>2. menu' = [menu EXCEPT ![r] = NoMenu]
             \/ \E f \in Flows : menu' = [menu EXCEPT ![r] = [menu[r] EXCEPT !.at = "begun", !.flow = f]]
        <3>1. \A f : [menu EXCEPT ![r].at = "begun", ![r].flow = f]
                       = [menu EXCEPT ![r] = [menu[r] EXCEPT !.at = "begun", !.flow = f]]
            OBVIOUS
        <3> QED BY <3>1 DEF StartFlow, Unused
    <2> QED BY <2>1, <2>2, Constants DEF TypeOK
<1>3. holder' \in [Scopes -> HolderSet \cup {None}]
    BY <1>1 DEF TypeOK, StartFlow, Release, HolderSet
<1>4. [who |-> r, scope |-> menu[r].to, live |-> TRUE, used |-> FALSE, cli |-> menu[r].cli]
         \in FlowSet
    BY <1>1 DEF FlowSet
<1>5. flows' \in [Flows -> FlowSet]
    BY <1>4 DEF TypeOK, StartFlow, Unused
<1>6. store' \in [Scopes -> StoreSet]
    <2>1. store' = store \/ \E f \in Flows : store' = WithFlow(store, menu[r].to, f)
        BY DEF StartFlow, WithFlow, Unused
    <2> QED BY <1>1, <2>1, WithFlowWrites DEF TypeOK
<1>7. left' \in BudgetSet
    BY FaultBudgeted DEF TypeOK, StartFlow
<1> QED BY <1>2, <1>3, <1>5, <1>6, <1>7 DEF TypeOK, StartFlow, server, ghosts

LEMMA TypePend == ASSUME TypeOK, AtHand, NEW r \in Routers, Pend(r) PROVE TypeOK'
<1> DEFINE f == menu[r].flow
           listening == WithTask(task, <<f, "listener">>, "listening")
<1>1. f \in Flows
    BY MenuFields DEF TypeOK, Pend, AtHand
<1>2. menu' \in [Routers -> MenuSet]
    BY Constants DEF TypeOK, Pend
<1>3. pending' \in [Routers -> Flows \cup {None}]
    BY <1>1 DEF TypeOK, Pend
<1>4. listening \in [Tasks -> TaskSet]
    BY <1>1, TaskIds, MovedTask DEF TypeOK, TaskStates
<1>5. pending[r] # None => pending[r] \in Flows
    BY DEF TypeOK
<1>6. task' = listening \/ (pending[r] # None /\ task' = Stopped(listening, pending[r]))
    BY DEF Pend, WithTask
<1>7. clears' \subseteq Flows
    BY <1>5 DEF TypeOK, Pend
<1> HIDE DEF listening
<1>8. task' \in [Tasks -> TaskSet]
    BY <1>4, <1>5, <1>6, StoppedTasks
<1> QED BY <1>2, <1>3, <1>7, <1>8 DEF TypeOK, Pend, server, ghosts

LEMMA TypeCancel == ASSUME TypeOK, NEW r \in Routers, Cancel(r) PROVE TypeOK'
<1>1. pending[r] \in Flows
    BY DEF TypeOK, Cancel
<1>2. task' \in [Tasks -> TaskSet]
    BY <1>1, StoppedTasks DEF TypeOK, Cancel
<1>3. left' \in BudgetSet
    BY DEF TypeOK, Cancel, BudgetSet, Spend
<1> QED BY <1>1, <1>2, <1>3 DEF TypeOK, Cancel, server, ghosts

LEMMA TypeClearOwn == ASSUME TypeOK, NEW f \in Flows, ClearOwn(f) PROVE TypeOK'
<1>1. flows[f].scope \in Scopes
    BY FlowFields DEF TypeOK
<1>2. store' \in {store, WithFlow(store, flows[f].scope, None)}
    BY DEF ClearOwn, WithFlow
<1>3. store' \in [Scopes -> StoreSet]
    <2>1. None \in Flows \cup {None} /\ store \in [Scopes -> StoreSet]
        BY DEF TypeOK
    <2>2. WithFlow(store, flows[f].scope, None) \in [Scopes -> StoreSet]
        BY <1>1, <2>1, WithFlowWrites
    <2> QED BY <1>2, <2>1, <2>2
<1> QED BY <1>3, FaultBudgeted DEF TypeOK, ClearOwn, server, ghosts

LEMMA TypeCallback == ASSUME TypeOK, NEW f \in Flows, Callback(f) PROVE TypeOK'
<1> DEFINE t == <<f, "listener">>
<1>1. t \in Tasks
    BY TaskIds
<1>2. PICK err \in BOOLEAN :
        task' = [task EXCEPT ![t] =
                       [@ EXCEPT !.at = IF flows[f].cli THEN "read" ELSE "got", !.err = err]]
    BY DEF Callback
<1>3. task' \in [Tasks -> TaskSet]
    <2>1. task[t] \in TaskSet
        BY <1>1 DEF TypeOK
    <2>2. [task[t] EXCEPT !.at = IF flows[f].cli THEN "read" ELSE "got", !.err = err] \in TaskSet
        BY <2>1 DEF TaskSet, TaskStates
    <2> QED BY <1>1, <1>2, <2>2 DEF TypeOK
<1> QED BY <1>3 DEF TypeOK, Callback, server, ghosts

LEMMA TypeStillOurs == ASSUME TypeOK, NEW f \in Flows, StillOurs(f) PROVE TypeOK'
<1> DEFINE t == <<f, "listener">>
<1>1. t \in Tasks
    BY TaskIds
<1>2. \E a \in {"ours", "done", "read"} : task' = WithTask(task, t, a)
    BY DEF StillOurs, WithTask
<1>3. task' \in [Tasks -> TaskSet]
    <2> HIDE DEF t
    <2> QED BY <1>1, <1>2, MovedTask DEF TypeOK, TaskStates
<1>4. pending' \in [Routers -> Flows \cup {None}]
    BY DEF TypeOK, StillOurs
<1> QED BY <1>3, <1>4 DEF TypeOK, StillOurs, server, ghosts

LEMMA TypePaste == ASSUME TypeOK, NEW r \in Routers, Paste(r) PROVE TypeOK'
<1> DEFINE f == pending[r]
           t == <<f, "paste">>
<1>1. f \in Flows /\ t \in Tasks
    BY TaskIds DEF TypeOK, Paste
<1>2. PICK err \in BOOLEAN : task' = [Stopped(task, f) EXCEPT ![t].at = "read", ![t].err = err]
    BY DEF Paste
<1>3. Stopped(task, f) \in [Tasks -> TaskSet]
    BY <1>1, StoppedTasks DEF TypeOK
<1>4. [Stopped(task, f)[t] EXCEPT !.at = "read", !.err = err] \in TaskSet
    <2>1. Stopped(task, f)[t] \in TaskSet
        BY <1>1, <1>3
    <2> HIDE DEF t, f
    <2> QED BY <2>1 DEF TaskSet, TaskStates
<1>5. task' = [Stopped(task, f) EXCEPT ![t] = [Stopped(task, f)[t] EXCEPT !.at = "read", !.err = err]]
    BY <1>2
<1>6. task' \in [Tasks -> TaskSet]
    BY <1>1, <1>3, <1>4, <1>5
<1>7. left' \in BudgetSet
    BY DEF TypeOK, Paste, BudgetSet, Spend
<1> QED BY <1>6, <1>7 DEF TypeOK, Paste, server, ghosts

LEMMA TypeReadFlow == ASSUME TypeOK, NEW t \in Tasks, ReadFlow(t) PROVE TypeOK'
<1>1. t[1] \in Flows /\ flows[t[1]].scope \in Scopes
    BY TaskIds, FlowFields DEF TypeOK
<1>2. store' \in {store, WithFlow(store, flows[t[1]].scope, None)}
    BY DEF ReadFlow, WithFlow
<1>3. store' \in [Scopes -> StoreSet]
    <2>1. None \in Flows \cup {None} /\ store \in [Scopes -> StoreSet]
        BY DEF TypeOK
    <2>2. WithFlow(store, flows[t[1]].scope, None) \in [Scopes -> StoreSet]
        BY <1>1, <2>1, WithFlowWrites
    <2> QED BY <1>2, <2>1, <2>2
<1>4. \E a \in TaskStates : task' = WithTask(task, t, a)
    BY DEF ReadFlow, WithTask, TaskStates
<1>5. task' \in [Tasks -> TaskSet]
    BY <1>4, MovedTask DEF TypeOK
<1> QED BY <1>3, <1>5 DEF TypeOK, ReadFlow, server, ghosts

LEMMA TypeExchange == ASSUME TypeOK, NEW t \in Tasks, Exchange(t) PROVE TypeOK'
<1> DEFINE f == t[1]
           fresh(renewable) ==
              [access |-> last + 1, refresh |-> IF renewable THEN last + 2 ELSE 0,
               failed |-> FALSE, life |-> "long", by |-> f]
<1>1. f \in Flows /\ last + 1 \in Nat /\ last + 2 \in Nat
    BY TaskIds DEF TypeOK
<1>2. \A b \in BOOLEAN : fresh(b) \in TokenSet
    BY <1>1 DEF TokenSet, Flows, Lifetimes
<1>3. \/ \E b \in BOOLEAN : task' = [task EXCEPT ![t].at = "install", ![t].got = fresh(b)]
      \/ task' = WithTask(task, t, "done")
    BY DEF Exchange, WithTask
<1> HIDE DEF fresh
<1>4. task' \in [Tasks -> TaskSet]
    <2>1. CASE task' = WithTask(task, t, "done")
        BY <2>1, MovedTask DEF TypeOK, TaskStates
    <2>2. ASSUME NEW b \in BOOLEAN, task' = [task EXCEPT ![t].at = "install", ![t].got = fresh(b)]
          PROVE  task' \in [Tasks -> TaskSet]
        <3>0. task[t] \in TaskSet /\ fresh(b) \in TokenSet
            BY <1>2 DEF TypeOK
        <3>1. [task[t] EXCEPT !.at = "install", !.got = fresh(b)] \in TaskSet
            BY <3>0 DEF TaskSet, TaskStates
        <3>2. task' = [task EXCEPT ![t] = [task[t] EXCEPT !.at = "install", !.got = fresh(b)]]
            BY <2>2
        <3> QED BY <3>1, <3>2 DEF TypeOK
    <2> QED BY <2>1, <2>2, <1>3
<1>5. flows' \in [Flows -> FlowSet]
    <2>1. [flows[f] EXCEPT !.used = TRUE] \in FlowSet
        BY <1>1, FlowFields DEF TypeOK
    <2> QED BY <2>1 DEF TypeOK, Exchange
<1>6. grants' \subseteq Nat /\ good' \subseteq Nat /\ last' \in Nat
    BY <1>1 DEF TypeOK, Exchange, server
<1>7. left' \in BudgetSet
    BY FaultBudgeted DEF TypeOK, Exchange
<1> QED BY <1>4, <1>5, <1>6, <1>7 DEF TypeOK, Exchange, ghosts

LEMMA TypeInstallTokens ==
    ASSUME TypeOK, AtHand, NEW t \in Tasks, InstallTokens(t) PROVE TypeOK'
<1>1. t[1] \in Flows /\ flows[t[1]].scope \in Scopes
    BY TaskIds, FlowFields DEF TypeOK
<1>2. task[t].got \in TokenSet \cup {None}
    BY TaskFields DEF TypeOK
<1>3. [tok |-> task[t].got, configured |-> TRUE, flow |-> None] \in StoreSet
    BY <1>2 DEF StoreSet
<1>4. store' \in [Scopes -> StoreSet]
    BY <1>1, <1>3 DEF TypeOK, InstallTokens
<1>5. [NoTask EXCEPT !.at = "done"] \in TaskSet
    BY Constants, TaskFields DEF TaskStates
<1>6. task' \in [Tasks -> TaskSet]
    BY <1>5 DEF TypeOK, InstallTokens
<1> QED BY <1>4, <1>6 DEF TypeOK, InstallTokens, server, ghosts

LEMMA TypeExpireFlow == ASSUME TypeOK, NEW f \in Flows, ExpireFlow(f) PROVE TypeOK'
<1>1. flows' \in [Flows -> FlowSet]
    BY FlowFields DEF TypeOK, ExpireFlow
<1>2. task' \in [Tasks -> TaskSet]
    BY StoppedTasks DEF TypeOK, ExpireFlow
<1>3. left' \in BudgetSet
    BY DEF TypeOK, ExpireFlow, BudgetSet, Spend
<1> QED BY <1>1, <1>2, <1>3 DEF TypeOK, ExpireFlow, server, ghosts

LEMMA TypeLogout == ASSUME TypeOK, NEW s \in Scopes, Logout(s) PROVE TypeOK'
<1>1. left' \in BudgetSet
    BY DEF TypeOK, Logout, BudgetSet, Spend
<1> QED BY <1>1, Constants DEF TypeOK, Logout, server, people, ghosts

LEMMA TypeAge == ASSUME TypeOK, NEW s \in Scopes, Age(s) PROVE TypeOK'
<1>1. store[s].tok \in TokenSet
    BY StoreFields DEF Age
<1>2. \E x \in Lifetimes : store' = WithLife(store, s, x)
    BY DEF Age, WithLife, Lifetimes
<1>3. store' \in [Scopes -> StoreSet]
    BY <1>1, <1>2, WithLifeWrites DEF TypeOK
<1>4. left' \in BudgetSet
    BY DEF TypeOK, Age, BudgetSet, Spend
<1>5. good' \subseteq Nat
    BY DEF TypeOK, Age
<1> QED BY <1>3, <1>4, <1>5 DEF TypeOK, Age, people, ghosts

LEMMA TypeRevoke == ASSUME TypeOK, Revoke PROVE TypeOK'
<1>1. left' \in BudgetSet
    BY DEF TypeOK, Revoke, BudgetSet, Spend
<1>2. good' \subseteq Nat /\ grants' \subseteq Nat
    BY DEF TypeOK, Revoke
<1>3. supplied' \in [Routers -> [token : Nat, deny : BOOLEAN] \cup {None}]
    BY DEF TypeOK, Revoke
<1> QED BY <1>1, <1>2, <1>3 DEF TypeOK, Revoke, people, ghosts

LEMMA TypeCrash == ASSUME TypeOK, AtHand, NEW r \in Routers, Crash(r) PROVE TypeOK'
<1>1. call[r].at = "answered" => call[r].snap.refresh \in Nat
    BY CallFields, TokenFields DEF TypeOK, AtHand, Fetching
<1>2. lost' \subseteq Nat
    BY <1>1 DEF TypeOK, Crash
<1>3. call' \in [Routers -> CallSet] /\ menu' \in [Routers -> MenuSet]
    BY Constants DEF TypeOK, Crash
<1>4. holder' \in [Scopes -> HolderSet \cup {None}]
    BY DEF TypeOK, Crash, HolderSet
<1>5. [NoTask EXCEPT !.at = "done"] \in TaskSet
    BY Constants, TaskFields DEF TaskStates
<1>6. task' \in [Tasks -> TaskSet]
    BY <1>5 DEF TypeOK, Crash
<1>7. left' \in BudgetSet
    BY FaultBudgeted DEF Crash
<1> QED BY <1>2, <1>3, <1>4, <1>6, <1>7 DEF TypeOK, Crash, server, ghosts

------------------------------------------------------------------------------
(* Locks *)

\* Who gets, keeps and returns the lock of a scope, and what a call's step
\* changes of its record.

LEMMA HeldNotNone ==
    \A r \in Routers : Held(r, "call") # None /\ Held(r, "menu") # None
BY NoneAssumption DEF Held, HolderSet

\* A look at the stored tokens leaves a call without a lock.
LEMMA LookResult ==
    ASSUME TypeOK, NEW r \in Routers, NEW c \in CallSet, NEW forced \in BOOLEAN,
           NEW next \in {"first", "second"}, Look(r, c, forced, next)
    PROVE  /\ call'[r].at \in {"helping", "told", "wait", next}
           /\ call'[r].new = c.new /\ call'[r].scope = c.scope
           /\ call'[r].at # "wait" => call'[r].snap = c.snap
           /\ call'[r].at = "wait" => Usable(c.scope) /\ call'[r].snap = store[c.scope].tok
           /\ call'[r].token \in {c.token, store[c.scope].tok.access}
           /\ call'[r].token # c.token => Usable(c.scope)
           /\ \A q \in Routers : q # r => call'[q] = call[q]
<1>1. call \in [Routers -> CallSet]
    BY DEF TypeOK
<1> DEFINE tok == store[c.scope].tok
<1>2. CASE ~Usable(c.scope)
    <2> DEFINE d == [c EXCEPT !.at = IF HasSupplier(c.scope) THEN "helping" ELSE "told",
                              !.forced = forced]
    <2>1. call' = [call EXCEPT ![r] = d]
        BY <1>2 DEF Look
    <2>2. /\ d.at \in {"helping", "told"} /\ d.new = c.new /\ d.scope = c.scope
          /\ d.snap = c.snap /\ d.token = c.token
        BY DEF CallSet
    <2> HIDE DEF d
    <2> QED BY <1>1, <2>1, <2>2
<1>3. CASE Usable(c.scope) /\ ((forced /\ c.token # tok.access) \/ (~forced /\ tok.life = "long"))
    <2> DEFINE d == [c EXCEPT !.at = next, !.token = tok.access, !.forced = forced]
    <2>1. call' = [call EXCEPT ![r] = d]
        BY <1>3 DEF Look
    <2>2. /\ d.at = next /\ d.new = c.new /\ d.scope = c.scope
          /\ d.snap = c.snap /\ d.token = tok.access
        BY DEF CallSet
    <2> HIDE DEF d
    <2> QED BY <1>1, <1>3, <2>1, <2>2
<1>4. CASE Usable(c.scope) /\ ~((forced /\ c.token # tok.access) \/ (~forced /\ tok.life = "long"))
    <2> DEFINE d == [c EXCEPT !.at = "wait", !.snap = tok, !.forced = forced]
    <2>1. call' = [call EXCEPT ![r] = d]
        BY <1>4 DEF Look
    <2>2. /\ d.at = "wait" /\ d.new = c.new /\ d.scope = c.scope
          /\ d.snap = tok /\ d.token = c.token
        BY DEF CallSet
    <2> HIDE DEF d
    <2> QED BY <1>1, <1>4, <2>1, <2>2
<1> QED BY <1>2, <1>3, <1>4

\* The states in which a call holds no lock.
Free == CallStates \ {"refresh", "answered", "transient", "refused", "lockedhelp"}

\* A call that gives its lock up, or has none, leaves the others theirs.
LEMMA LocksKept ==
    ASSUME TypeOK, TypeOK', Locks, NEW r \in Routers, call'[r].at \in Free,
           \A q \in Routers : q # r => call'[q] = call[q],
           menu' = menu,
           holder' = holder \/ (Locked(r) /\ Release(call[r].scope))
    PROVE  Locks'
<1>1. \A q \in Routers : call[q].scope \in Scopes /\ menu[q].to \in Scopes
    BY CallFields, MenuFields DEF TypeOK
<1>2. ~Locked(r)'
    BY DEF Locked, Fetching, Free
<1>3. CASE holder' = holder
    BY <1>2, <1>3 DEF Locks, Locked, Fetching
<1>4. CASE Locked(r) /\ Release(call[r].scope)
    <2>1. holder[call[r].scope] = Held(r, "call")
        BY <1>4 DEF Locks
    <2>2. \A s \in Scopes : s # call[r].scope => holder'[s] = holder[s]
        BY <1>4 DEF Release
    <2>3. ASSUME NEW q \in Routers, q # r, Locked(q)'
          PROVE  holder'[call'[q].scope] = Held(q, "call")
        <3>1. Locked(q) /\ call'[q] = call[q]
            BY <2>3 DEF Locked, Fetching
        <3>2. holder[call[q].scope] = Held(q, "call")
            BY <3>1 DEF Locks
        <3>3. call[q].scope # call[r].scope
            BY <2>1, <2>3, <3>2 DEF Held
        <3> QED BY <1>1, <2>2, <3>1, <3>2, <3>3
    <2>4. \A q \in Routers, s \in Scopes :
             holder[s] = Held(q, "menu") => holder'[s] = holder[s]
        BY <2>1, <2>2 DEF Held
    <2>5. "system" \in Scopes
        BY DEF Scopes
    <2> QED BY <1>1, <1>2, <2>3, <2>4, <2>5 DEF Locks, Held
<1> QED BY <1>3, <1>4

\* Steps of sign-ins that hold no lock of their own.
LEMMA LocksQuiet ==
    ASSUME Locks, call' = call, holder' = holder,
           \A q \in Routers :
              menu'[q] = menu[q] \/ menu'[q].at \notin {"second", "starting"}
    PROVE  Locks'
BY DEF Locks, Locked, Fetching, Held

LEMMA TypeStep == TypeOK /\ AtHand /\ [Next]_vars => TypeOK'
<1> SUFFICES ASSUME TypeOK, AtHand, [Next]_vars PROVE TypeOK'
    OBVIOUS
<1>1. CASE UNCHANGED vars
    BY <1>1 DEF TypeOK, vars
<1>2. ASSUME NEW r \in Routers, CallStep(r) PROVE TypeOK'
    BY <1>2, TypeAcquire, TypeRefresh, TypeWriteTokens, TypeTransient, TypeMarkFailed, TypeHelper,
       TypeForward, TypeForwardAgain, TypeMarkAccessRejected, TypeAnswered DEF CallStep
<1>3. ASSUME NEW r \in Routers, MenuStep(r) PROVE TypeOK'
    BY <1>3, TypeLockFirst, TypeSetAccountScope, TypeStartLock, TypeStartFlow, TypePend
       DEF MenuStep
<1>4. ASSUME NEW r \in Routers,
             \/ Request(r) \/ SessionServers(r) \/ LockTimeout(r)
             \/ Cancel(r) \/ Paste(r) \/ Crash(r)
             \/ \E to \in Scopes, move \in BOOLEAN, cli \in BOOLEAN : ChooseScope(r, to, move, cli)
      PROVE  TypeOK'
    BY <1>4, TypeRequest, TypeSessionServers, TypeLockTimeout, TypeCancel, TypePaste, TypeCrash,
       TypeChooseScope
<1>5. ASSUME NEW f \in Flows, ClearOwn(f) \/ Callback(f) \/ StillOurs(f) \/ ExpireFlow(f)
      PROVE  TypeOK'
    BY <1>5, TypeClearOwn, TypeCallback, TypeStillOurs, TypeExpireFlow
<1>6. ASSUME NEW t \in Tasks, ReadFlow(t) \/ Exchange(t) \/ InstallTokens(t) PROVE TypeOK'
    BY <1>6, TypeReadFlow, TypeExchange, TypeInstallTokens
<1>7. ASSUME NEW s \in Scopes, Logout(s) \/ Age(s) PROVE TypeOK'
    BY <1>7, TypeLogout, TypeAge
<1>8. CASE Revoke
    BY <1>8, TypeRevoke
<1> QED BY <1>1, <1>2, <1>3, <1>4, <1>5, <1>6, <1>7, <1>8 DEF Next

\* Who works under a lock goes on under the same one.
LEMMA LocksHeld ==
    ASSUME Locks, menu' = menu, holder' = holder,
           \A q \in Routers : Locked(q)' => Locked(q) /\ call'[q].scope = call[q].scope
    PROVE  Locks'
<1>1. ASSUME NEW q \in Routers, Locked(q)' PROVE holder'[call'[q].scope] = Held(q, "call")
    BY <1>1 DEF Locks
<1> QED BY <1>1 DEF Locks, Held

\* What the steps of a call change of it.
LEMMA AtWrites ==
    ASSUME TypeOK, NEW r \in Routers, NEW a \in CallStates, call' = [call EXCEPT ![r].at = a]
    PROVE  /\ call'[r].at = a /\ call'[r].scope = call[r].scope /\ call'[r].token = call[r].token
           /\ call'[r].snap = call[r].snap /\ call'[r].new = call[r].new
           /\ \A q \in Routers : q # r => call'[q] = call[q]
<1> DEFINE d == [call[r] EXCEPT !.at = a]
<1>1. call[r] \in CallSet
    BY DEF TypeOK
<1>2. call' = [call EXCEPT ![r] = d]
    OBVIOUS
<1>3. /\ d.at = a /\ d.scope = call[r].scope /\ d.token = call[r].token
      /\ d.snap = call[r].snap /\ d.new = call[r].new
    BY <1>1 DEF CallSet
<1> HIDE DEF d
<1> QED BY <1>2, <1>3 DEF TypeOK

\* A call moves with a bearer, or with a successor.
AtToken(r, a, n) == [call EXCEPT ![r].at = a, ![r].token = n]
AtNew(r, a, x) == [call EXCEPT ![r].at = a, ![r].new = x]

LEMMA AtTokenWrites ==
    ASSUME TypeOK, NEW r \in Routers, NEW a \in CallStates, NEW n \in Nat,
           call' = AtToken(r, a, n)
    PROVE  /\ call'[r].at = a /\ call'[r].scope = call[r].scope /\ call'[r].token = n
           /\ call'[r].snap = call[r].snap /\ call'[r].new = call[r].new
           /\ \A q \in Routers : q # r => call'[q] = call[q]
<1> DEFINE d == [call[r] EXCEPT !.at = a, !.token = n]
<1>1. call[r] \in CallSet
    BY DEF TypeOK
<1>2. call' = [call EXCEPT ![r] = d]
    BY DEF AtToken
<1>3. /\ d.at = a /\ d.scope = call[r].scope /\ d.token = n
      /\ d.snap = call[r].snap /\ d.new = call[r].new
    BY <1>1 DEF CallSet
<1> HIDE DEF d
<1> QED BY <1>2, <1>3 DEF TypeOK

LEMMA AtNewWrites ==
    ASSUME TypeOK, NEW r \in Routers, NEW a \in CallStates, NEW x,
           call' = AtNew(r, a, x)
    PROVE  /\ call'[r].at = a /\ call'[r].scope = call[r].scope /\ call'[r].token = call[r].token
           /\ call'[r].snap = call[r].snap /\ call'[r].new = x
           /\ \A q \in Routers : q # r => call'[q] = call[q]
<1> DEFINE d == [call[r] EXCEPT !.at = a, !.new = x]
<1>1. call[r] \in CallSet
    BY DEF TypeOK
<1>2. call' = [call EXCEPT ![r] = d]
    BY DEF AtNew
<1>3. /\ d.at = a /\ d.scope = call[r].scope /\ d.token = call[r].token
      /\ d.snap = call[r].snap /\ d.new = x
    BY <1>1 DEF CallSet
<1> HIDE DEF d
<1> QED BY <1>2, <1>3 DEF TypeOK

------------------------------------------------------------------------------
(* Quiet steps *)

\* A step that brings no new token and starts no sign-in keeps every part of
\* the invariant, one lemma per part (access_token, with_lock, login_finish).

\* How a call may move in a step that brings no new token: it stays as it is,
\* or it works on under its lock without a successor in hand, or it has just got
\* the lock over the tokens it waited with, or it works under no lock.
Keeps(r) ==
    call'[r].scope = call[r].scope /\ call'[r].snap = call[r].snap /\ call'[r].new = call[r].new
Loses(r) == call[r].snap.refresh \in spent => call[r].snap.refresh \in lost'
WorksOn(r) ==
    /\ Fetching(r) /\ Keeps(r) /\ call'[r].at # "answered"
    /\ call[r].at = "answered" => Loses(r)
Begins(r) ==
    /\ call[r].at = "wait" /\ Keeps(r) /\ call'[r].at # "answered"
    /\ Usable(call[r].scope) /\ Same(store[call[r].scope].tok, call[r].snap)
    /\ store'[call[r].scope].tok = store[call[r].scope].tok
    /\ \A q \in Routers : call[q].scope = call[r].scope => ~Fetching(q)

CallQuiet(r) ==
    /\ Fetching(r)' => call'[r] = call[r] \/ WorksOn(r) \/ Begins(r)
    /\ call[r].at = "answered" => call'[r] = call[r] \/ Loses(r)
    /\ call'[r].at = "refused" => call'[r] = call[r] \/ call'[r].snap.refresh \notin grants'
    /\ call'[r].at = "wait" =>
          call'[r] = call[r] \/ (call'[r].snap # None /\ ~call'[r].snap.failed)
    /\ call'[r].at = "marking" => call'[r].token \notin good'
    /\ call'[r].snap \in {call[r].snap, None} \/ \E s \in Scopes : call'[r].snap = store[s].tok
    /\ call'[r].new \in {call[r].new, None}
    /\ call'[r].token <= last'

StoreQuiet(s) ==
    /\ store'[s].tok # None =>
          /\ store[s].tok # None /\ Same(store'[s].tok, store[s].tok) /\ store'[s].configured
          /\ store'[s].tok.failed => store[s].tok.failed \/ store[s].tok.access \notin good'
    /\ store'[s].flow \in {store[s].flow, None}

TaskQuiet(t) ==
    /\ task'[t].got # None => task'[t].got = task[t].got
    /\ task'[t].at = "install" => task[t].at = "install" /\ task'[t].got = task[t].got

\* A step that brings no new token and starts no sign-in.
Quiet ==
    /\ last <= last' /\ grants' \subseteq grants
    /\ \A a \in good' : a \in good \/ (last < a /\ a <= last')
    /\ spent' = spent /\ lost \subseteq lost' /\ again' \subseteq again \cup lost'
    /\ \A f \in Flows : flows'[f].who = flows[f].who
    /\ \A s \in Scopes : StoreQuiet(s)
    /\ \A t \in Tasks : TaskQuiet(t)
    /\ \A r \in Routers : CallQuiet(r)
    /\ \A r \in Routers : supplied'[r] # None => supplied'[r].token <= last'
    /\ \A r \in Routers : menu'[r].at = "begun" => menu'[r].flow # None

LEMMA KnownTokens ==
    ASSUME TypeOK
    PROVE  /\ Known \subseteq TokenSet
           /\ \A s \in Scopes : store[s].tok # None => store[s].tok \in Known
           /\ \A r \in Routers : call[r].snap # None => call[r].snap \in Known
           /\ \A r \in Routers : call[r].new # None => call[r].new \in Known
           /\ \A t \in Tasks : task[t].got # None => task[t].got \in Known
           /\ \A a \in Known : \/ \E s \in Scopes : a = store[s].tok
                               \/ \E r \in Routers : a = call[r].snap \/ a = call[r].new
                               \/ \E t \in Tasks : a = task[t].got
<1>1. \A s \in Scopes : store[s].tok \in TokenSet \cup {None}
    BY StoreFields
<1>2. \A r \in Routers : call[r].snap \in TokenSet \cup {None} /\ call[r].new \in TokenSet \cup {None}
    BY CallFields DEF TypeOK
<1>3. \A t \in Tasks : task[t].got \in TokenSet \cup {None}
    BY TaskFields DEF TypeOK
<1> QED BY <1>1, <1>2, <1>3 DEF Known

\* Every token is the same as one that was known.
LEMMA QuietKnown ==
    ASSUME TypeOK, TypeOK', Quiet
    PROVE  \A a \in Known' : \E b \in Known : Same(a, b)
<1>1. ASSUME NEW a \in Known' PROVE \E b \in Known : Same(a, b)
    <2>1. a # None
        BY <1>1 DEF Known
    <2>2. \/ \E s \in Scopes : a = store'[s].tok
          \/ \E r \in Routers : a = call'[r].snap \/ a = call'[r].new
          \/ \E t \in Tasks : a = task'[t].got
        BY <1>1, KnownTokens DEF Known
    <2>3. ASSUME NEW s \in Scopes, a = store'[s].tok PROVE \E b \in Known : Same(a, b)
        BY <2>1, <2>3, KnownTokens DEF Quiet, StoreQuiet
    <2>4. ASSUME NEW r \in Routers, a = call'[r].snap \/ a = call'[r].new
          PROVE  \E b \in Known : Same(a, b)
        <3>1. a \in Known
            BY <2>1, <2>4, KnownTokens DEF Quiet, CallQuiet
        <3> QED BY <3>1 DEF Same
    <2>5. ASSUME NEW t \in Tasks, a = task'[t].got PROVE \E b \in Known : Same(a, b)
        <3>1. a \in Known
            BY <2>1, <2>5, KnownTokens DEF Quiet, TaskQuiet
        <3> QED BY <3>1 DEF Same
    <2> QED BY <2>2, <2>3, <2>4, <2>5
<1> QED BY <1>1

LEMMA NamedKept ==
    ASSUME TypeOK, Named, \A a \in Known' : \E b \in Known : Same(a, b)
    PROVE  Named'
<1>1. ASSUME NEW a \in Known', NEW b \in Known', a.access = b.access PROVE Same(a, b)
    <2>1. PICK a1 \in Known : Same(a, a1)
        OBVIOUS
    <2>2. PICK b1 \in Known : Same(b, b1)
        OBVIOUS
    <2>3. a1.access = b1.access
        BY <1>1, <2>1, <2>2 DEF Same
    <2>4. Same(a1, b1)
        BY <2>3 DEF Named
    <2> QED BY <2>1, <2>2, <2>4 DEF Same
<1> QED BY <1>1 DEF Named, Same

LEMMA IssuedQuiet ==
    ASSUME TypeOK, TypeOK', Issued, Quiet
    PROVE  Issued'
<1>1. last \in Nat /\ last' \in Nat /\ last <= last'
    BY DEF TypeOK, Quiet
<1>2. (grants \cup good \cup spent \subseteq 1 .. last)'
    <2>1. spent' \subseteq 1 .. last' /\ grants' \subseteq 1 .. last'
        BY <1>1 DEF Issued, Quiet
    <2>2. good' \subseteq 1 .. last'
        BY <1>1 DEF Issued, Quiet, TypeOK
    <2> QED BY <2>1, <2>2
<1>3. (\A r \in Routers : call[r].token <= last)'
    BY DEF Quiet, CallQuiet
<1>4. (\A r \in Routers : supplied[r] # None => supplied[r].token <= last)'
    BY DEF Quiet
<1>5. ASSUME NEW a \in Known'
      PROVE  a.access <= last' /\ a.refresh <= last' /\ (a.by # 0 => Used(a.by)')
    <2>1. PICK b \in Known : Same(a, b)
        BY QuietKnown
    <2>2. b \in TokenSet /\ b.access \in Nat /\ b.refresh \in Nat /\ b.by \in 0 .. MaxFlows
        BY KnownTokens, TokenFields
    <2>3. b.access <= last /\ b.refresh <= last /\ (b.by # 0 => Used(b.by))
        BY DEF Issued
    <2>4. b.by # 0 => b.by \in Flows
        BY <2>2, McpAssumption DEF Flows
    <2>5. b.by # 0 => Used(b.by)'
        BY <2>3, <2>4 DEF Used, Quiet
    <2>6. a.access = b.access /\ a.refresh = b.refresh /\ a.by = b.by
        BY <2>1 DEF Same
    <2> QED BY <1>1, <2>2, <2>3, <2>5, <2>6
<1> QED BY <1>2, <1>3, <1>4, <1>5 DEF Issued

LEMMA AtHandQuiet ==
    ASSUME TypeOK, AtHand, Quiet
    PROVE  AtHand'
<1>1. ASSUME NEW r \in Routers
      PROVE  /\ call'[r].at = "wait" \/ Fetching(r)' => call'[r].snap # None /\ ~call'[r].snap.failed
             /\ call'[r].at = "answered" =>
                   /\ call'[r].new # None /\ ~call'[r].new.failed
                   /\ call'[r].new.by = call'[r].snap.by
             /\ call'[r].at = "refused" => call'[r].snap.refresh \notin grants'
             /\ call'[r].at = "marking" => call'[r].token \notin good'
             /\ menu'[r].at = "begun" => menu'[r].flow # None
    <2>1. CallQuiet(r)
        BY DEF Quiet
    <2>2. grants' \subseteq grants
        BY DEF Quiet
    <2>3. CASE call'[r] = call[r]
        BY <2>1, <2>2, <2>3 DEF AtHand, Fetching, CallQuiet, Quiet
    <2>4. CASE call'[r] # call[r] /\ Fetching(r)'
        <3>1. WorksOn(r) \/ Begins(r)
            BY <2>1, <2>4 DEF CallQuiet
        <3>2. call'[r].snap # None /\ ~call'[r].snap.failed /\ call'[r].at # "answered"
            BY <3>1 DEF WorksOn, Begins, AtHand, Keeps
        <3> QED BY <2>1, <2>4, <3>2 DEF CallQuiet, Quiet, Fetching
    <2>5. CASE call'[r] # call[r] /\ ~Fetching(r)'
        BY <2>1, <2>5 DEF CallQuiet, Quiet, Fetching
    <2> QED BY <2>3, <2>4, <2>5
<1>2. ASSUME NEW t \in Tasks
      PROVE  /\ task'[t].at = "install" => task'[t].got # None
             /\ task'[t].got # None => task'[t].got.by = t[1] /\ ~task'[t].got.failed
    BY DEF AtHand, Quiet, TaskQuiet
<1> QED BY <1>1, <1>2 DEF AtHand, Fetching

LEMMA FencedQuiet ==
    ASSUME TypeOK, Fenced, Quiet
    PROVE  Fenced'
<1>1. ASSUME NEW r \in Routers, Fetching(r)', store'[call'[r].scope].tok # None
      PROVE  Same(store'[call'[r].scope].tok, call'[r].snap)
    <2>1. call[r].scope \in Scopes
        BY CallFields DEF TypeOK
    <2>2. call'[r] = call[r] \/ WorksOn(r) \/ Begins(r)
        BY <1>1 DEF Quiet, CallQuiet
    <2>3. call'[r].scope = call[r].scope /\ call'[r].snap = call[r].snap
        BY <2>2 DEF WorksOn, Begins, Keeps
    <2>4. /\ store[call[r].scope].tok # None
          /\ Same(store'[call[r].scope].tok, store[call[r].scope].tok)
        BY <1>1, <2>1, <2>3 DEF Quiet, StoreQuiet
    <2>5. Same(store[call[r].scope].tok, call[r].snap)
        BY <1>1, <2>2, <2>4 DEF Fenced, WorksOn, Begins, Fetching
    <2> QED BY <2>3, <2>4, <2>5 DEF Same
<1> QED BY <1>1 DEF Fenced, Fetching, Same

LEMMA CustodyQuiet ==
    ASSUME TypeOK, Quiet, NEW s \in Scopes, NEW x, Custody(s, x)'
    PROVE  Custody(s, x)
<1>1. CASE store'[s].tok # None /\ store'[s].tok.refresh = x
    BY <1>1 DEF Quiet, StoreQuiet, Same, Custody
<1>2. ASSUME NEW r \in Routers, Fetching(r)', call'[r].scope = s,
             \/ call'[r].snap.refresh = x
             \/ call'[r].at = "answered" /\ call'[r].new.refresh = x
      PROVE  Custody(s, x)
    <2>1. call'[r] = call[r] \/ WorksOn(r) \/ Begins(r)
        BY <1>2 DEF Quiet, CallQuiet
    <2>2. CASE call'[r] = call[r]
        BY <1>2, <2>2 DEF Custody, Fetching
    <2>3. CASE WorksOn(r)
        BY <1>2, <2>3 DEF Custody, WorksOn, Keeps
    <2>4. CASE Begins(r)
        BY <1>2, <2>4 DEF Custody, Begins, Keeps, Same, Usable
    <2> QED BY <2>1, <2>2, <2>3, <2>4
<1> QED BY <1>1, <1>2 DEF Custody, Fetching

LEMMA ApartQuiet ==
    ASSUME TypeOK, TypeOK', Issued, AtHand, Apart, Quiet
    PROVE  Apart'
<1>1. last \in Nat /\ last' \in Nat /\ last <= last'
    BY DEF TypeOK, Quiet
<1>2. ASSUME NEW s \in Scopes, NEW x \in Nat, Custody(s, x) PROVE x <= last
    <2>1. store[s].tok # None => store[s].tok.refresh <= last
        BY KnownTokens DEF Issued
    <2>2. \A r \in Routers : call[r].snap # None => call[r].snap.refresh <= last
        BY KnownTokens DEF Issued
    <2>3. \A r \in Routers : call[r].new # None => call[r].new.refresh <= last
        BY KnownTokens DEF Issued
    <2> QED BY <1>2, <2>1, <2>2, <2>3 DEF Custody, AtHand, Fetching
<1>3. ASSUME NEW x \in 1 .. last' PROVE ~(Custody("system", x)' /\ Custody("project", x)')
    <2>1. SUFFICES ASSUME Custody("system", x)', Custody("project", x)' PROVE FALSE
        OBVIOUS
    <2>2. "system" \in Scopes /\ "project" \in Scopes
        BY DEF Scopes
    <2>3. Custody("system", x) /\ Custody("project", x)
        BY <2>1, <2>2, CustodyQuiet
    <2>4. x \in 1 .. last
        BY <1>1, <1>2, <2>2, <2>3
    <2> QED BY <2>3, <2>4 DEF Apart
<1>4. ASSUME NEW t \in Tasks, NEW x \in 1 .. last', task'[t].got # None,
             task'[t].got.refresh = x
      PROVE  Reserved(t, x)'
    <2>1. task'[t].got = task[t].got
        BY <1>4 DEF Quiet, TaskQuiet
    <2>2. \A u \in Tasks : task'[u].got # None => task'[u].got = task[u].got
        BY DEF Quiet, TaskQuiet
    <2>3. x \in 1 .. last
        <3>1. task[t].got.refresh <= last
            BY <1>4, <2>1, KnownTokens DEF Issued
        <3> QED BY <1>1, <1>4, <2>1, <3>1
    <2>4. Reserved(t, x)
        BY <1>4, <2>1, <2>3 DEF Apart
    <2>5. ASSUME NEW s \in Scopes PROVE ~Custody(s, x)'
        BY <2>4, CustodyQuiet DEF Reserved
    <2>6. \A u \in Tasks : u # t /\ task'[u].got # None => task'[u].got.refresh # x
        BY <2>2, <2>4 DEF Reserved
    <2>7. x \notin spent'
        BY <2>4 DEF Reserved, Quiet
    <2> QED BY <2>5, <2>6, <2>7 DEF Reserved
<1> QED BY <1>3, <1>4 DEF Apart

LEMMA CustodyIssued ==
    ASSUME TypeOK, Issued, AtHand, NEW s \in Scopes, NEW x, Custody(s, x)
    PROVE  x \in Nat /\ x <= last
<1>1. \A a \in Known : a.refresh \in Nat /\ a.refresh <= last
    BY KnownTokens, TokenFields DEF Issued
<1>2. store[s].tok # None => store[s].tok.refresh \in Nat /\ store[s].tok.refresh <= last
    BY <1>1, KnownTokens
<1>3. \A r \in Routers : call[r].snap # None =>
         call[r].snap.refresh \in Nat /\ call[r].snap.refresh <= last
    BY <1>1, KnownTokens
<1>4. \A r \in Routers : call[r].new # None =>
         call[r].new.refresh \in Nat /\ call[r].new.refresh <= last
    BY <1>1, KnownTokens
<1> QED BY <1>2, <1>3, <1>4 DEF Custody, AtHand, Fetching

LEMMA RotatedQuiet ==
    ASSUME TypeOK, Fenced, Rotated, Quiet
    PROVE  Rotated'
<1>1. (grants \cap spent = {})'
    BY DEF Rotated, Quiet
<1>2. ASSUME NEW s \in Scopes, store'[s].tok # None, store'[s].tok.refresh \in spent' \ lost'
      PROVE  \E r \in Routers : call'[r].at = "answered" /\ call'[r].scope = s
    <2>1. /\ store[s].tok # None /\ store[s].tok.refresh = store'[s].tok.refresh
        BY <1>2 DEF Quiet, StoreQuiet, Same
    <2>2. store[s].tok.refresh \in spent \ lost
        BY <1>2, <2>1 DEF Quiet
    <2>3. PICK r \in Routers : call[r].at = "answered" /\ call[r].scope = s
        BY <2>1, <2>2 DEF Rotated
    <2>4. Same(store[s].tok, call[r].snap)
        BY <2>1, <2>3 DEF Fenced, Fetching
    <2>5. ~Loses(r)
        BY <1>2, <2>1, <2>2, <2>4 DEF Loses, Same
    <2>6. call'[r] = call[r]
        BY <2>3, <2>5 DEF Quiet, CallQuiet
    <2> QED BY <2>3, <2>6
<1>3. ASSUME NEW r \in Routers, Fetching(r)'
      PROVE  IF call'[r].at = "answered" THEN call'[r].new.refresh \notin spent'
             ELSE call'[r].snap.refresh \notin spent' \ lost'
    <2>0. spent' = spent /\ lost \subseteq lost'
        BY DEF Quiet
    <2>1. call'[r] = call[r] \/ WorksOn(r) \/ Begins(r)
        BY <1>3 DEF Quiet, CallQuiet
    <2>2. CASE call'[r] = call[r]
        BY <1>3, <2>0, <2>2 DEF Rotated, Fetching
    <2>3. CASE WorksOn(r)
        BY <1>3, <2>0, <2>3 DEF Rotated, WorksOn, Keeps, Loses
    <2>4. CASE Begins(r)
        <3>1. call[r].scope \in Scopes /\ store[call[r].scope].tok # None
              /\ store[call[r].scope].tok.refresh = call[r].snap.refresh
            BY <2>4, CallFields DEF TypeOK, Begins, Usable, Same
        <3>2. ~\E q \in Routers : call[q].at = "answered" /\ call[q].scope = call[r].scope
            BY <2>4 DEF Begins, Fetching
        <3>3. call[r].snap.refresh \notin spent \ lost
            BY <3>1, <3>2 DEF Rotated
        <3> QED BY <2>0, <2>4, <3>3 DEF Begins, Keeps
    <2> QED BY <2>1, <2>2, <2>3, <2>4
<1> QED BY <1>1, <1>2, <1>3 DEF Rotated, Fetching

LEMMA NewestQuiet ==
    ASSUME TypeOK, Newest, Quiet
    PROVE  Newest'
<1>1. (\A f, g \in Flows : Used(f) /\ g < f => Used(g))'
    BY DEF Newest, Quiet, Used
<1>2. (\A s \in Scopes : store[s].tok # None => store[s].configured)'
    BY DEF Quiet, StoreQuiet
<1>3. ASSUME NEW s \in Scopes, store'[s].flow # None
      PROVE  /\ Used(store[s].flow)'
             /\ store'[s].tok # None => store'[s].tok.by <= store'[s].flow
             /\ \A r \in Routers : Fetching(r)' /\ call'[r].scope = s =>
                   call'[r].snap.by <= store'[s].flow
    <2>1. store'[s].flow = store[s].flow
        BY <1>3 DEF Quiet, StoreQuiet
    <2>2. store[s].flow \in Flows
        BY <1>3, <2>1, StoreFields
    <2>3. Used(store[s].flow)'
        BY <1>3, <2>1, <2>2 DEF Used, Newest, Quiet
    <2>4. store'[s].tok # None => store'[s].tok.by <= store'[s].flow
        BY <1>3, <2>1 DEF Newest, Quiet, StoreQuiet, Same
    <2>5. ASSUME NEW r \in Routers, Fetching(r)', call'[r].scope = s
          PROVE  call'[r].snap.by <= store'[s].flow
        <3>1. call'[r] = call[r] \/ WorksOn(r) \/ Begins(r)
            BY <2>5 DEF Quiet, CallQuiet
        <3>2. call[r].scope = s /\ call'[r].snap = call[r].snap
            BY <2>5, <3>1 DEF WorksOn, Begins, Keeps
        <3>3. call'[r] = call[r] \/ WorksOn(r) => Fetching(r)
            BY <2>5 DEF Fetching, WorksOn
        <3>4. Fetching(r) => call[r].snap.by <= store[s].flow
            BY <1>3, <2>1, <3>2 DEF Newest
        <3>5. Begins(r) => call[r].snap.by <= store[s].flow
            BY <1>3, <2>1, <3>2 DEF Newest, Begins, Same, Usable
        <3> QED BY <2>1, <3>1, <3>2, <3>3, <3>4, <3>5
    <2> QED BY <2>3, <2>4, <2>5
<1> QED BY <1>1, <1>2, <1>3 DEF Newest, Fetching

LEMMA FailedQuiet ==
    ASSUME TypeOK, Issued, FailedIsDead, Quiet
    PROVE  FailedIsDead'
<1>1. ASSUME NEW s \in Scopes, store'[s].tok # None, store'[s].tok.failed
      PROVE  store'[s].tok.access \notin good' \/ store'[s].tok.refresh \notin grants'
    <2>1. /\ store[s].tok # None
          /\ store'[s].tok.access = store[s].tok.access
          /\ store'[s].tok.refresh = store[s].tok.refresh
          /\ store[s].tok.failed \/ store[s].tok.access \notin good'
        BY <1>1 DEF Quiet, StoreQuiet, Same
    <2>2. store[s].tok \in Known /\ store[s].tok.access \in Nat
        BY <2>1, KnownTokens, TokenFields
    <2>3. store[s].tok.access <= last
        BY <2>2 DEF Issued
    <2>4. store[s].tok.access \in good' => store[s].tok.access \in good
        BY <2>2, <2>3 DEF TypeOK, Quiet
    <2>5. store[s].tok.failed =>
             store[s].tok.access \notin good \/ store[s].tok.refresh \notin grants
        BY <2>1 DEF FailedIsDead
    <2> QED BY <2>1, <2>4, <2>5 DEF Quiet
<1> QED BY <1>1 DEF FailedIsDead

\* A quiet step keeps the whole invariant, but for the locks.
LEMMA QuietKeeps ==
    ASSUME McpInv, TypeOK', Locks', Quiet
    PROVE  McpInv'
<1>1. Named'
    BY NamedKept, QuietKnown DEF McpInv
<1>2. GrantSpentOnce'
    BY DEF McpInv, GrantSpentOnce, Quiet
<1> QED BY <1>1, <1>2, IssuedQuiet, AtHandQuiet, FencedQuiet, ApartQuiet, RotatedQuiet, NewestQuiet,
           FailedQuiet DEF McpInv

------------------------------------------------------------------------------
(* The quiet actions of a request *)

\* What a quiet step of one actor leaves alone, and one lemma per action of
\* a request, of the helper and of time (mcp_broker.rs, mcp_oauth.rs).

LEMMA SameCallQuiet ==
    ASSUME McpInv, TypeOK', NEW r \in Routers, call'[r] = call[r], last <= last',
           \A a \in good' : a \in good \/ (last < a /\ a <= last')
    PROVE  CallQuiet(r)
<1>1. /\ call[r].token \in Nat /\ call[r].token <= last /\ last \in Nat /\ last' \in Nat
    BY CallFields DEF McpInv, TypeOK, Issued
<1>2. call[r].token <= last'
    BY <1>1
<1>3. call[r].at = "marking" => call[r].token \notin good'
    BY <1>1 DEF McpInv, AtHand
<1> QED BY <1>2, <1>3 DEF CallQuiet

LEMMA SameStoreQuiet ==
    ASSUME McpInv, NEW s \in Scopes, store'[s] = store[s]
    PROVE  StoreQuiet(s)
BY DEF McpInv, Newest, StoreQuiet, Same

LEMMA SameTaskQuiet ==
    ASSUME NEW t \in Tasks, task'[t] = task[t]
    PROVE  TaskQuiet(t)
BY DEF TaskQuiet

LEMMA SameMenu ==
    ASSUME McpInv, NEW r \in Routers, menu'[r] = menu[r]
    PROVE  menu'[r].at = "begun" => menu'[r].flow # None
BY DEF McpInv, AtHand

\* A step of one call that leaves the stores and the servers alone.
LEMMA CallStepQuiet ==
    ASSUME McpInv, TypeOK', NEW r \in Routers, CallQuiet(r),
           \A q \in Routers : q # r => call'[q] = call[q],
           UNCHANGED <<store, server, supplied, people, spent>>, lost \subseteq lost',
           again' \subseteq again \cup lost'
    PROVE  Quiet
<1>1. \A q \in Routers : CallQuiet(q)
    <2>1. last <= last' /\ \A a \in good' : a \in good \/ (last < a /\ a <= last')
        BY DEF McpInv, TypeOK, server
    <2> QED BY <2>1, SameCallQuiet
<1>2. \A s \in Scopes : StoreQuiet(s)
    BY SameStoreQuiet
<1>3. \A t \in Tasks : TaskQuiet(t)
    BY SameTaskQuiet DEF people
<1>4. \A q \in Routers : menu'[q].at = "begun" => menu'[q].flow # None
    BY SameMenu DEF people
<1>5. last <= last' /\ grants' \subseteq grants /\ good' = good /\ flows' = flows
    BY DEF McpInv, TypeOK, server, people
<1>6. \A q \in Routers : supplied'[q] # None => supplied'[q].token <= last'
    BY DEF McpInv, Issued, server
<1> QED BY <1>1, <1>2, <1>3, <1>4, <1>5, <1>6 DEF Quiet

\* A step of a sign-in that leaves the calls and the servers alone.
LEMMA PeopleStepQuiet ==
    ASSUME McpInv, TypeOK', UNCHANGED <<server, call, supplied, ghosts>>,
           \A s \in Scopes : StoreQuiet(s), \A t \in Tasks : TaskQuiet(t),
           \A f \in Flows : flows'[f].who = flows[f].who,
           \A r \in Routers : menu'[r].at = "begun" => menu'[r].flow # None
    PROVE  Quiet
<1>1. last <= last' /\ grants' \subseteq grants /\ good' = good
    BY DEF McpInv, TypeOK, server
<1>2. \A r \in Routers : CallQuiet(r)
    BY <1>1, SameCallQuiet
<1>3. \A q \in Routers : supplied'[q] # None => supplied'[q].token <= last'
    BY DEF McpInv, Issued, server
<1> QED BY <1>1, <1>2, <1>3 DEF Quiet, ghosts

\* A call that works under no lock and has a known bearer.
LEMMA FreeCallQuiet ==
    ASSUME McpInv, NEW r \in Routers, call'[r].at \in Free \ {"wait", "marking"},
           call[r].at # "answered" \/ Loses(r),
           call'[r].snap \in {call[r].snap, None}, call'[r].new \in {call[r].new, None},
           call'[r].token <= last'
    PROVE  CallQuiet(r)
BY DEF CallQuiet, Free, Fetching

\* The bearer a look finds is one that was issued.
LEMMA LookQuiet ==
    ASSUME McpInv, TypeOK', NEW r \in Routers, NEW c \in CallSet, NEW forced \in BOOLEAN,
           NEW next \in {"first", "second"}, Look(r, c, forced, next),
           call[r].at # "answered", c.token <= last,
           c.snap \in {call[r].snap, None}, c.new \in {call[r].new, None},
           UNCHANGED last
    PROVE  /\ CallQuiet(r) /\ call'[r].at \in Free
           /\ \A q \in Routers : q # r => call'[q] = call[q]
<1>1. TypeOK /\ c.scope \in Scopes
    BY CallFields DEF McpInv
<1>2. /\ call'[r].at \in {"helping", "told", "wait", next}
      /\ call'[r].new = c.new /\ call'[r].scope = c.scope
      /\ call'[r].at # "wait" => call'[r].snap = c.snap
      /\ call'[r].at = "wait" => Usable(c.scope) /\ call'[r].snap = store[c.scope].tok
      /\ call'[r].token \in {c.token, store[c.scope].tok.access}
      /\ call'[r].token # c.token => Usable(c.scope)
      /\ \A q \in Routers : q # r => call'[q] = call[q]
    BY <1>1, LookResult
<1>3. Usable(c.scope) => store[c.scope].tok.access <= last
    BY <1>1, KnownTokens DEF McpInv, Issued, Usable
<1>4. call'[r].token <= last'
    BY <1>2, <1>3
<1>5. call'[r].at \in Free
    BY <1>2 DEF Free, CallStates
<1>6. call'[r].at = "wait" => /\ call'[r].snap = store[c.scope].tok
                              /\ call'[r].snap # None /\ ~call'[r].snap.failed
    BY <1>2 DEF Usable
<1>7. CallQuiet(r)
    BY <1>1, <1>2, <1>4, <1>5, <1>6 DEF CallQuiet, Free, Fetching
<1> QED BY <1>2, <1>5, <1>7

LEMMA QuietRequest ==
    ASSUME McpInv, TypeOK', NEW r \in Routers, Request(r) PROVE Locks' /\ Quiet
<1>1. PICK l \in BOOLEAN : Look(r, [NoCall EXCEPT !.scope = entry[r], !.listed = l], FALSE, "first")
    BY DEF Request
<1> DEFINE c == [NoCall EXCEPT !.scope = entry[r], !.listed = l]
<1>2. entry[r] \in Scopes
    BY DEF McpInv, TypeOK, Request
<1>3. c \in CallSet /\ c.token = 0 /\ c.snap = None /\ c.new = None
    BY <1>2, Constants DEF NoCall, CallSet
<1>4. Look(r, c, FALSE, "first")
    BY <1>1
<1> HIDE DEF c
<1>5. c.token <= last
    BY <1>3 DEF McpInv, TypeOK
<1>6. call[r].at # "answered" /\ last' = last
    BY DEF Request, server
<1>7. /\ CallQuiet(r) /\ call'[r].at \in Free
      /\ \A q \in Routers : q # r => call'[q] = call[q]
    BY <1>3, <1>4, <1>5, <1>6, LookQuiet
<1>8. Locks'
    BY <1>7, LocksKept DEF McpInv, Request, people
<1>9. Quiet
    BY <1>7, CallStepQuiet DEF Request, ghosts, McpInv, TypeOK
<1> QED BY <1>8, <1>9

LEMMA QuietForward ==
    ASSUME McpInv, TypeOK', NEW r \in Routers, Forward(r) PROVE Locks' /\ Quiet
<1>0. TypeOK /\ call[r] \in CallSet /\ call[r].token <= last
    BY DEF McpInv, TypeOK, Issued
<1>1. call[r].at # "answered" /\ last' = last
    BY DEF Forward, server
<1>2. /\ CallQuiet(r) /\ call'[r].at \in Free
      /\ \A q \in Routers : q # r => call'[q] = call[q]
    <2>1. CASE Look(r, call[r], TRUE, "second")
        BY <1>0, <1>1, <2>1, LookQuiet
    <2>2. ASSUME NEW a \in {"told", "served"}, call' = [call EXCEPT ![r].at = a]
          PROVE  /\ CallQuiet(r) /\ call'[r].at \in Free
                 /\ \A q \in Routers : q # r => call'[q] = call[q]
        <3>1. a \in CallStates
            BY DEF CallStates
        <3>2. /\ call'[r].at = a /\ call'[r].token = call[r].token
              /\ call'[r].snap = call[r].snap /\ call'[r].new = call[r].new
              /\ \A q \in Routers : q # r => call'[q] = call[q]
            BY <1>0, <2>2, <3>1, AtWrites
        <3>3. a \in Free \ {"wait", "marking"}
            BY DEF Free, CallStates
        <3> QED BY <1>0, <1>1, <3>2, <3>3, FreeCallQuiet
    <2> QED BY <2>1, <2>2 DEF Forward
<1>3. Locks'
    BY <1>2, LocksKept DEF McpInv, Forward, people
<1>4. Quiet
    BY <1>2, CallStepQuiet DEF Forward, ghosts, McpInv, TypeOK
<1> QED BY <1>3, <1>4

LEMMA QuietForwardAgain ==
    ASSUME McpInv, TypeOK', NEW r \in Routers, ForwardAgain(r) PROVE Locks' /\ Quiet
<1>0. TypeOK /\ call[r] \in CallSet /\ call[r].token <= last
    BY DEF McpInv, TypeOK, Issued
<1>1. call[r].at = "second" /\ last' = last /\ good' = good
    BY DEF ForwardAgain, server
<1>2. PICK a \in {"told", "served", "marking"} :
         call' = [call EXCEPT ![r].at = a] /\ (a = "marking" => call[r].token \notin good)
    BY DEF ForwardAgain
<1>3. a \in CallStates
    BY DEF CallStates
<1>4. /\ call'[r].at = a /\ call'[r].token = call[r].token
      /\ call'[r].snap = call[r].snap /\ call'[r].new = call[r].new
      /\ \A q \in Routers : q # r => call'[q] = call[q]
    BY <1>0, <1>2, <1>3, AtWrites
<1>5. call'[r].at \in Free
    BY <1>4 DEF Free, CallStates
<1>6. CallQuiet(r)
    BY <1>0, <1>1, <1>2, <1>4 DEF CallQuiet, Fetching
<1>7. Locks'
    BY <1>4, <1>5, LocksKept DEF McpInv, ForwardAgain, people
<1>8. Quiet
    BY <1>4, <1>6, CallStepQuiet DEF ForwardAgain, ghosts, McpInv, TypeOK
<1> QED BY <1>7, <1>8

LEMMA QuietLockTimeout ==
    ASSUME McpInv, TypeOK', NEW r \in Routers, LockTimeout(r) PROVE Locks' /\ Quiet
<1>0. TypeOK /\ call[r].token <= last
    BY DEF McpInv, Issued
<1>1. call[r].at # "answered" /\ last' = last /\ call' = [call EXCEPT ![r].at = "told"]
    BY DEF LockTimeout, server
<1>2. "told" \in CallStates /\ "told" \in Free \ {"wait", "marking"}
    BY DEF CallStates, Free
<1>3. /\ call'[r].at = "told" /\ call'[r].token = call[r].token
      /\ call'[r].snap = call[r].snap /\ call'[r].new = call[r].new
      /\ \A q \in Routers : q # r => call'[q] = call[q]
    BY <1>0, <1>1, <1>2, AtWrites
<1>4. CallQuiet(r)
    BY <1>0, <1>1, <1>2, <1>3, FreeCallQuiet
<1>5. Locks'
    BY <1>2, <1>3, LocksKept DEF McpInv, LockTimeout, people
<1>6. Quiet
    BY <1>3, <1>4, CallStepQuiet DEF LockTimeout, ghosts, McpInv, TypeOK
<1> QED BY <1>5, <1>6

LEMMA QuietAnswered ==
    ASSUME McpInv, TypeOK', NEW r \in Routers, Answered(r) PROVE Locks' /\ Quiet
<1>1. call[r].at # "answered" /\ last' = last /\ call' = [call EXCEPT ![r] = NoCall]
    BY DEF Answered, server
<1>2. /\ call'[r] = NoCall
      /\ \A q \in Routers : q # r => call'[q] = call[q]
    BY <1>1 DEF McpInv, TypeOK
<1>3. /\ call'[r].at = "idle" /\ call'[r].token = 0 /\ call'[r].snap = None /\ call'[r].new = None
    BY <1>2 DEF NoCall
<1>4. "idle" \in Free \ {"wait", "marking"} /\ 0 <= last
    BY DEF CallStates, Free, McpInv, TypeOK
<1>5. CallQuiet(r)
    BY <1>1, <1>3, <1>4, FreeCallQuiet
<1>6. Locks'
    BY <1>2, <1>3, <1>4, LocksKept DEF McpInv, Answered, people
<1>7. Quiet
    BY <1>2, <1>5, CallStepQuiet DEF Answered, ghosts, McpInv, TypeOK
<1> QED BY <1>6, <1>7

\* Under the lock the call works with the tokens it waited with, or with newer ones.
LEMMA QuietAcquire ==
    ASSUME McpInv, TypeOK', NEW r \in Routers, Acquire(r) PROVE Locks' /\ Quiet
<1> DEFINE s == call[r].scope
<1>0. TypeOK /\ call[r].token <= last /\ s \in Scopes /\ last' = last /\ last \in Nat
    BY CallFields DEF McpInv, Issued, Acquire, server, TypeOK
<1>1. /\ call[r].at = "wait" /\ holder[s] = None
      /\ call[r].snap # None /\ call[r].snap \in Known
    BY <1>0, KnownTokens DEF Acquire, McpInv, AtHand
<1>2. Usable(s) => /\ store[s].tok \in Known /\ store[s].tok.access <= last
                   /\ store[s].tok.access \in Nat /\ store[s].tok # None
    BY <1>0, KnownTokens, TokenFields DEF Usable, McpInv, Issued
<1>3. CASE ~Usable(s)
    <2>1. call' = [call EXCEPT ![r].at = "told"] /\ holder' = holder
        BY <1>3 DEF Acquire
    <2>2. "told" \in CallStates /\ "told" \in Free \ {"wait", "marking"}
        BY DEF CallStates, Free
    <2>3. /\ call'[r].at = "told" /\ call'[r].token = call[r].token
          /\ call'[r].snap = call[r].snap /\ call'[r].new = call[r].new
          /\ \A q \in Routers : q # r => call'[q] = call[q]
        BY <1>0, <2>1, <2>2, AtWrites
    <2>4. CallQuiet(r)
        BY <1>0, <1>1, <2>2, <2>3, FreeCallQuiet
    <2>5. Locks'
        BY <2>1, <2>2, <2>3, LocksKept DEF McpInv, Acquire, people
    <2>6. Quiet
        BY <2>3, <2>4, CallStepQuiet DEF Acquire, ghosts, McpInv, TypeOK
    <2> QED BY <2>5, <2>6
<1>4. CASE Usable(s) /\ Reusable(r)
    <2>1. /\ call' = [call EXCEPT ![r].at = Ready(call[r]), ![r].token = store[s].tok.access]
          /\ holder' = holder
        BY <1>4 DEF Acquire
    <2>2. Ready(call[r]) \in CallStates /\ Ready(call[r]) \in Free \ {"wait", "marking"}
        BY DEF CallStates, Free, Ready
    <2>3. /\ call'[r].at = Ready(call[r]) /\ call'[r].token = store[s].tok.access
          /\ call'[r].snap = call[r].snap /\ call'[r].new = call[r].new
          /\ \A q \in Routers : q # r => call'[q] = call[q]
        <3>1. call' = AtToken(r, Ready(call[r]), store[s].tok.access)
            BY <2>1 DEF AtToken
        <3>2. store[s].tok.access \in Nat
            BY <1>2, <1>4
        <3>3. TypeOK
            BY <1>0
        <3> QED BY <3>1, <3>2, <3>3, <2>2, AtTokenWrites
    <2>4. CallQuiet(r)
        BY <1>0, <1>1, <1>2, <1>4, <2>2, <2>3, FreeCallQuiet
    <2>5. Locks'
        BY <2>1, <2>2, <2>3, LocksKept DEF McpInv, Acquire, people
    <2>6. Quiet
        BY <2>3, <2>4, CallStepQuiet DEF Acquire, ghosts, McpInv, TypeOK
    <2> QED BY <2>5, <2>6
<1>5. CASE Usable(s) /\ ~Reusable(r)
    <2> DEFINE a == IF store[s].tok.refresh = 0 THEN "refused" ELSE "refresh"
    <2>1. /\ call' = [call EXCEPT ![r].at = a]
          /\ holder' = [holder EXCEPT ![s] = Held(r, "call")]
        BY <1>5 DEF Acquire, Held
    <2>2. a \in CallStates /\ a \in {"refused", "refresh"}
        BY DEF CallStates
    <2>3. /\ call'[r].at = a /\ call'[r].token = call[r].token /\ call'[r].scope = s
          /\ call'[r].snap = call[r].snap /\ call'[r].new = call[r].new
          /\ \A q \in Routers : q # r => call'[q] = call[q]
        BY <1>0, <2>1, <2>2, AtWrites
    <2>4. Same(store[s].tok, call[r].snap)
        BY <1>1, <1>2, <1>5 DEF McpInv, Named, Reusable
    <2>5. \A q \in Routers : Locked(q) => call[q].scope # s
        BY <1>1, HeldNotNone DEF McpInv, Locks
    <2>6. Begins(r)
        BY <1>1, <1>5, <2>2, <2>3, <2>4, <2>5 DEF Begins, Keeps, Locked, Acquire
    <2>7. a = "refused" => call'[r].snap.refresh \notin grants'
        <3>1. a = "refused" => call'[r].snap.refresh = 0
            BY <2>3, <2>4 DEF Same
        <3>2. 0 \notin grants'
            BY DEF McpInv, Issued, Acquire, server
        <3> QED BY <3>1, <3>2
    <2>8. CallQuiet(r)
        BY <1>0, <1>1, <2>2, <2>3, <2>6, <2>7 DEF CallQuiet
    <2>9. Quiet
        BY <2>3, <2>8, CallStepQuiet DEF Acquire, ghosts, McpInv, TypeOK
    <2> HIDE DEF a
    <2>10. holder'[s] = Held(r, "call") /\ \A x \in Scopes : x # s => holder'[x] = holder[x]
        BY <1>0, <2>1 DEF TypeOK
    <2>11. ASSUME NEW q \in Routers, Locked(q)' PROVE holder'[call'[q].scope] = Held(q, "call")
        <3>1. CASE q = r
            BY <2>3, <2>10, <3>1
        <3>2. CASE q # r
            <4>1. call'[q] = call[q] /\ Locked(q)
                BY <2>3, <2>11, <3>2 DEF Locked, Fetching
            <4>2. call[q].scope \in Scopes /\ call[q].scope # s
                BY <1>0, <2>5, <4>1, CallFields DEF TypeOK
            <4> QED BY <2>10, <4>1, <4>2 DEF McpInv, Locks
        <3> QED BY <3>1, <3>2
    <2>12. \A q \in Routers : menu[q].to \in Scopes
        BY <1>0, MenuFields DEF TypeOK
    <2>13. menu' = menu /\ "system" \in Scopes
        BY DEF Acquire, people, Scopes
    <2>14. \A x \in Scopes, q \in Routers : holder[x] = Held(q, "menu") => holder'[x] = holder[x]
        BY <1>1, <2>10, HeldNotNone
    <2>15. Locks'
        BY <2>11, <2>12, <2>13, <2>14 DEF McpInv, Locks
    <2> QED BY <2>9, <2>15
<1> QED BY <1>3, <1>4, <1>5

LEMMA QuietTransient ==
    ASSUME McpInv, TypeOK', NEW r \in Routers, Transient(r) PROVE Locks' /\ Quiet
<1>0. TypeOK /\ call[r].token <= last /\ last' = last /\ call[r].at = "transient" /\ Locked(r)
    BY DEF McpInv, Issued, Transient, server, Locked, Fetching
<1>1. call[r].snap # None /\ call[r].snap \in Known
    BY <1>0, KnownTokens DEF McpInv, AtHand, Fetching
<1>2. call[r].snap.access \in Nat /\ call[r].snap.access <= last /\ call[r] \in CallSet
    BY <1>0, <1>1, KnownTokens, TokenFields DEF McpInv, Issued, TypeOK
<1> DEFINE d == IF ~call[r].forced /\ call[r].snap.life = "soon"
                THEN [call[r] EXCEPT !.at = "first", !.token = call[r].snap.access]
                ELSE [call[r] EXCEPT !.at = "told"]
<1>3. call' = [call EXCEPT ![r] = d]
    BY DEF Transient
<1>4. /\ d.at \in {"first", "told"} /\ d.token \in {call[r].token, call[r].snap.access}
      /\ d.snap = call[r].snap /\ d.new = call[r].new
    BY <1>2 DEF CallSet
<1> HIDE DEF d
<1>5. call'[r] = d /\ \A q \in Routers : q # r => call'[q] = call[q]
    BY <1>0, <1>3 DEF TypeOK
<1>6. call'[r].at \in Free \ {"wait", "marking"}
    BY <1>4, <1>5 DEF Free, CallStates
<1>7. CallQuiet(r)
    BY <1>0, <1>2, <1>4, <1>5, <1>6, FreeCallQuiet
<1>8. Locks'
    BY <1>0, <1>5, <1>6, LocksKept DEF McpInv, Transient, people
<1>9. Quiet
    BY <1>5, <1>7, CallStepQuiet DEF Transient, ghosts, McpInv, TypeOK
<1> QED BY <1>8, <1>9

LEMMA QuietHelper ==
    ASSUME McpInv, TypeOK', NEW r \in Routers, Helper(r) PROVE Locks' /\ Quiet
<1>0. /\ TypeOK /\ call[r].token <= last /\ last \in Nat /\ last' \in Nat
      /\ call[r].at \in {"helping", "lockedhelp"} /\ call[r].token \in Nat
      /\ call[r] \in CallSet
    BY CallFields DEF McpInv, Issued, Helper, TypeOK
<1>1. /\ last <= last' /\ \A a \in good' : a \in good \/ (last < a /\ a <= last')
    <2>1. \/ last' = last /\ good' = good
          \/ last' = last + 1 /\ good' \subseteq good \cup {last + 1}
        BY DEF Helper
    <2>2. CASE last' = last /\ good' = good
        BY <1>0, <2>2
    <2>3. CASE last' = last + 1 /\ good' \subseteq good \cup {last + 1}
        BY <1>0, <2>3
    <2> QED BY <2>1, <2>2, <2>3
<1>2. \A q \in Routers : supplied[q] # None =>
         supplied[q] \in [token : Nat, deny : BOOLEAN] /\ supplied[q].token \in Nat
         /\ supplied[q].token <= last
    BY <1>0 DEF TypeOK, McpInv, Issued
<1>3. PICK answer : /\ Supplied(r, answer)
                    /\ answer.token \in Nat /\ answer.token <= last'
                    /\ \A q \in Routers : supplied'[q] \in {supplied[q], answer}
    <2>1. CASE supplied[r] # None /\ Supplied(r, supplied[r]) /\ UNCHANGED <<supplied, good, last>>
        BY <1>2, <2>1
    <2>2. ASSUME NEW grant \in BOOLEAN, NEW deny \in BOOLEAN,
                 LET answer == [token |-> IF grant THEN last + 1 ELSE 0, deny |-> grant /\ deny] IN
                 /\ supplied' = [supplied EXCEPT ![r] = answer]
                 /\ Supplied(r, answer)
                 /\ last' = last + 1
          PROVE  \E answer : /\ Supplied(r, answer)
                             /\ answer.token \in Nat /\ answer.token <= last'
                             /\ \A q \in Routers : supplied'[q] \in {supplied[q], answer}
        <3> DEFINE answer == [token |-> IF grant THEN last + 1 ELSE 0, deny |-> grant /\ deny]
        <3>1. answer.token \in Nat /\ answer.token <= last'
            BY <1>0, <2>2
        <3>2. Supplied(r, answer) /\ supplied' = [supplied EXCEPT ![r] = answer]
            BY <2>2
        <3> HIDE DEF answer
        <3>3. \A q \in Routers : supplied'[q] \in {supplied[q], answer}
            BY <1>0, <3>2 DEF TypeOK
        <3> QED BY <3>1, <3>2, <3>3
    <2> QED BY <2>1, <2>2 DEF Helper
<1> DEFINE d == IF answer.token = 0 THEN [call[r] EXCEPT !.at = "told"]
                ELSE [call[r] EXCEPT !.at = Ready(call[r]), !.token = answer.token]
<1>4. call' = [call EXCEPT ![r] = d]
    BY <1>3 DEF Supplied
<1>5. /\ d.at \in {"first", "second", "told"} /\ d.token \in {call[r].token, answer.token}
      /\ d.snap = call[r].snap /\ d.new = call[r].new
    BY <1>0 DEF CallSet, Ready
<1> HIDE DEF d
<1>6. call'[r] = d /\ \A q \in Routers : q # r => call'[q] = call[q]
    BY <1>0, <1>4 DEF TypeOK
<1>7. call'[r].at \in Free \ {"wait", "marking"}
    BY <1>5, <1>6 DEF Free, CallStates
<1>8. CallQuiet(r)
    BY <1>0, <1>1, <1>3, <1>5, <1>6, <1>7, FreeCallQuiet
<1>9. Locks'
    BY <1>0, <1>6, <1>7, LocksKept DEF McpInv, Helper, people, Locked
<1>10. \A q \in Routers : CallQuiet(q)
    BY <1>1, <1>6, <1>8, SameCallQuiet
<1>11. \A q \in Routers : supplied'[q] # None => supplied'[q].token <= last'
    <2>1. ASSUME NEW q \in Routers, supplied'[q] # None PROVE supplied'[q].token <= last'
        <3>1. supplied'[q] = supplied[q] \/ supplied'[q] = answer
            BY <1>3
        <3>2. CASE supplied'[q] = supplied[q]
            BY <1>0, <1>1, <1>2, <2>1, <3>2
        <3>3. CASE supplied'[q] = answer
            BY <1>3, <3>3
        <3> QED BY <3>1, <3>2, <3>3
    <2> QED BY <2>1
<1>12. /\ UNCHANGED <<store, grants, people, ghosts>>
    BY DEF Helper
<1>13. \A s \in Scopes : StoreQuiet(s)
    BY <1>12, SameStoreQuiet
<1>14. \A t \in Tasks : TaskQuiet(t)
    BY <1>12, SameTaskQuiet DEF people
<1>15. \A q \in Routers : menu'[q].at = "begun" => menu'[q].flow # None
    BY <1>12, SameMenu DEF people
<1>16. Quiet
    BY <1>1, <1>10, <1>11, <1>12, <1>13, <1>14, <1>15 DEF Quiet, people, ghosts
<1> QED BY <1>9, <1>16

\* Only the bearer that was refused is marked, and it is not honoured any more.
LEMMA QuietMarkAccessRejected ==
    ASSUME McpInv, TypeOK', NEW r \in Routers, MarkAccessRejected(r) PROVE Locks' /\ Quiet
<1> DEFINE s == call[r].scope
<1>0. /\ TypeOK /\ call[r].token <= last /\ last' = last /\ call[r].at = "marking"
      /\ s \in Scopes /\ good' = good /\ call[r].token \notin good
    BY CallFields DEF McpInv, Issued, MarkAccessRejected, server, TypeOK, AtHand
<1>1. "told" \in CallStates /\ "told" \in Free \ {"wait", "marking"}
    BY DEF CallStates, Free
<1>2. /\ call'[r].at = "told" /\ call'[r].token = call[r].token
      /\ call'[r].snap = call[r].snap /\ call'[r].new = call[r].new
      /\ \A q \in Routers : q # r => call'[q] = call[q]
    BY <1>0, <1>1, AtWrites DEF MarkAccessRejected
<1>3. CallQuiet(r)
    BY <1>0, <1>1, <1>2, FreeCallQuiet
<1>4. Locks'
    BY <1>1, <1>2, LocksKept DEF McpInv, MarkAccessRejected, people
<1>5. \A q \in Routers : CallQuiet(q)
    BY <1>0, <1>2, <1>3, SameCallQuiet DEF McpInv, TypeOK
<1>6. \A x \in Scopes : StoreQuiet(x)
    <2>1. CASE store' = store
        BY <2>1, SameStoreQuiet
    <2>2. CASE store' # store
        <3>1. /\ store[s].tok # None /\ store[s].tok.access = call[r].token
              /\ store' = WithFailed(store, s)
            BY <2>2 DEF MarkAccessRejected, SameBearer, WithFailed
        <3>2. store[s].tok \in TokenSet /\ store \in [Scopes -> StoreSet]
            BY <1>0, <3>1, StoreFields DEF TypeOK
        <3>3. /\ store'[s].tok.access = store[s].tok.access
              /\ store'[s].tok.refresh = store[s].tok.refresh
              /\ store'[s].tok.by = store[s].tok.by
              /\ store'[s].configured = store[s].configured
              /\ store'[s].flow = store[s].flow
              /\ \A i \in Scopes : i # s => store'[i] = store[i]
            BY <1>0, <3>1, <3>2, WithFailedWrites
        <3>4. StoreQuiet(s)
            BY <1>0, <3>1, <3>3 DEF StoreQuiet, Same, McpInv, Newest
        <3> QED BY <3>3, <3>4, SameStoreQuiet
    <2> QED BY <2>1, <2>2
<1>7. /\ UNCHANGED <<server, supplied, people, ghosts>>
    BY DEF MarkAccessRejected
<1>8. \A t \in Tasks : TaskQuiet(t)
    BY <1>7, SameTaskQuiet DEF people
<1>9. \A q \in Routers : menu'[q].at = "begun" => menu'[q].flow # None
    BY <1>7, SameMenu DEF people
<1>10. \A q \in Routers : supplied'[q] # None => supplied'[q].token <= last'
    BY <1>7 DEF McpInv, Issued, server
<1>11. Quiet
    BY <1>0, <1>5, <1>6, <1>7, <1>8, <1>9, <1>10 DEF Quiet, people, ghosts, server, TypeOK
<1> QED BY <1>4, <1>11

LEMMA QuietSessionServers ==
    ASSUME McpInv, TypeOK', NEW r \in Routers, SessionServers(r) PROVE Locks' /\ Quiet
<1>1. UNCHANGED <<store, holder, server, call, supplied, people, ghosts>>
    BY DEF SessionServers
<1>2. Locks'
    BY <1>1, LocksQuiet DEF McpInv, people
<1>3. \A s \in Scopes : StoreQuiet(s)
    BY <1>1, SameStoreQuiet
<1>4. \A t \in Tasks : TaskQuiet(t)
    BY <1>1, SameTaskQuiet DEF people
<1>5. \A q \in Routers : menu'[q].at = "begun" => menu'[q].flow # None
    BY <1>1, SameMenu DEF people
<1>6. Quiet
    BY <1>1, <1>3, <1>4, <1>5, PeopleStepQuiet DEF people
<1> QED BY <1>2, <1>6

LEMMA QuietRevoke ==
    ASSUME McpInv, TypeOK', Revoke PROVE Locks' /\ Quiet
<1>1. /\ UNCHANGED <<store, holder, last, call, people, ghosts>>
      /\ good' \subseteq good /\ grants' \subseteq grants
      /\ \A q \in Routers : supplied'[q] \in {supplied[q], None}
    BY DEF Revoke, McpInv, TypeOK
<1>2. Locks'
    BY <1>1, LocksQuiet DEF McpInv, people
<1>3. \A s \in Scopes : StoreQuiet(s)
    BY <1>1, SameStoreQuiet
<1>4. \A t \in Tasks : TaskQuiet(t)
    BY <1>1, SameTaskQuiet DEF people
<1>5. \A q \in Routers : menu'[q].at = "begun" => menu'[q].flow # None
    BY <1>1, SameMenu DEF people
<1>6. last <= last'
    BY <1>1 DEF McpInv, TypeOK
<1>7. \A q \in Routers : CallQuiet(q)
    BY <1>1, <1>6, SameCallQuiet
<1>8. \A q \in Routers : supplied'[q] # None => supplied'[q].token <= last'
    BY <1>1 DEF McpInv, Issued
<1>9. Quiet
    BY <1>1, <1>3, <1>4, <1>5, <1>6, <1>7, <1>8 DEF Quiet, people, ghosts
<1> QED BY <1>2, <1>9

LEMMA QuietLogout ==
    ASSUME McpInv, TypeOK', NEW s \in Scopes, Logout(s) PROVE Locks' /\ Quiet
<1>1. /\ UNCHANGED <<holder, server, call, supplied, people, ghosts>>
      /\ store' = [store EXCEPT ![s] = NoStore]
    BY DEF Logout
<1>2. Locks'
    BY <1>1, LocksQuiet DEF McpInv, people
<1>3. ASSUME NEW x \in Scopes PROVE StoreQuiet(x)
    <2>1. CASE x = s
        <3>1. store'[x].tok = None /\ store'[x].flow = None
            BY <1>1, <2>1 DEF McpInv, TypeOK, NoStore
        <3> QED BY <3>1 DEF StoreQuiet
    <2>2. CASE x # s
        <3>1. store'[x] = store[x]
            BY <1>1, <2>2 DEF McpInv, TypeOK
        <3> QED BY <3>1, SameStoreQuiet
    <2> QED BY <2>1, <2>2
<1>4. \A t \in Tasks : TaskQuiet(t)
    BY <1>1, SameTaskQuiet DEF people
<1>5. \A q \in Routers : menu'[q].at = "begun" => menu'[q].flow # None
    BY <1>1, SameMenu DEF people
<1>6. Quiet
    BY <1>1, <1>3, <1>4, <1>5, PeopleStepQuiet DEF people
<1> QED BY <1>2, <1>6

LEMMA QuietAge ==
    ASSUME McpInv, TypeOK', NEW s \in Scopes, Age(s) PROVE Locks' /\ Quiet
<1>1. /\ UNCHANGED <<holder, grants, last, call, supplied, people, ghosts>>
      /\ good' \subseteq good /\ store[s].tok # None
    BY DEF Age
<1>2. Locks'
    BY <1>1, LocksQuiet DEF McpInv, people
<1>3. PICK x \in Lifetimes : store' = WithLife(store, s, x)
    BY DEF Age, WithLife, Lifetimes
<1>4. store[s].tok \in TokenSet /\ store \in [Scopes -> StoreSet]
    BY <1>1, StoreFields DEF McpInv, TypeOK
<1>5. /\ store'[s].tok.access = store[s].tok.access
      /\ store'[s].tok.refresh = store[s].tok.refresh
      /\ store'[s].tok.by = store[s].tok.by
      /\ store'[s].tok.failed = store[s].tok.failed
      /\ store'[s].configured = store[s].configured
      /\ store'[s].flow = store[s].flow
      /\ \A i \in Scopes : i # s => store'[i] = store[i]
    BY <1>3, <1>4, WithLifeWrites
<1>6. StoreQuiet(s)
    BY <1>1, <1>5 DEF StoreQuiet, Same, McpInv, Newest
<1>7. \A i \in Scopes : StoreQuiet(i)
    BY <1>5, <1>6, SameStoreQuiet
<1>8. \A t \in Tasks : TaskQuiet(t)
    BY <1>1, SameTaskQuiet DEF people
<1>9. \A q \in Routers : menu'[q].at = "begun" => menu'[q].flow # None
    BY <1>1, SameMenu DEF people
<1>10. last <= last'
    BY <1>1 DEF McpInv, TypeOK
<1>11. \A q \in Routers : CallQuiet(q)
    BY <1>1, <1>10, SameCallQuiet
<1>12. \A q \in Routers : supplied'[q] # None => supplied'[q].token <= last'
    BY <1>1 DEF McpInv, Issued
<1>13. Quiet
    BY <1>1, <1>7, <1>8, <1>9, <1>10, <1>11, <1>12 DEF Quiet, people, ghosts
<1> QED BY <1>2, <1>13

------------------------------------------------------------------------------
(* The quiet actions of a sign-in *)

\* One lemma per action of the menu, the listener, a cancelled or pasted sign-in
\* and a crash (mcp_menu.rs, mcp_oauth.rs).

\* The steps of a sign-in.
LEMMA QuietChooseScope ==
    ASSUME McpInv, TypeOK', NEW r \in Routers, NEW to \in Scopes, NEW move \in BOOLEAN,
           NEW cli \in BOOLEAN, ChooseScope(r, to, move, cli)
    PROVE  Locks' /\ Quiet
<1>1. /\ UNCHANGED <<store, holder, server, call, supplied, flows, task, ghosts>>
    BY DEF ChooseScope
<1>2. \A q \in Routers : menu'[q] = menu[q] \/ menu'[q].at \in {"start", "first"}
    BY DEF ChooseScope, McpInv, TypeOK
<1>3. Locks'
    BY <1>1, <1>2, LocksQuiet DEF McpInv
<1>4. \A s \in Scopes : StoreQuiet(s)
    BY <1>1, SameStoreQuiet
<1>5. \A t \in Tasks : TaskQuiet(t)
    BY <1>1, SameTaskQuiet
<1>6. \A q \in Routers : menu'[q].at = "begun" => menu'[q].flow # None
    BY <1>2, SameMenu
<1>7. Quiet
    BY <1>1, <1>4, <1>5, <1>6, PeopleStepQuiet
<1> QED BY <1>3, <1>7

\* A lock that is free is taken by one sign-in.
LEMMA LocksTaken ==
    ASSUME McpInv, NEW r \in Routers, NEW s \in Scopes, holder[s] = None,
           holder' = [holder EXCEPT ![s] = Held(r, "menu")], call' = call,
           \A q \in Routers : q # r => menu'[q] = menu[q],
           \/ menu'[r].at = "second" /\ s = "system"
           \/ menu'[r].at = "starting" /\ menu'[r].to = s
    PROVE  Locks'
<1>1. holder'[s] = Held(r, "menu") /\ \A x \in Scopes : x # s => holder'[x] = holder[x]
    BY DEF McpInv, TypeOK
<1>2. \A q \in Routers : call[q].scope \in Scopes /\ menu[q].to \in Scopes
    BY CallFields, MenuFields DEF McpInv, TypeOK
<1>3. "system" \in Scopes
    BY DEF Scopes
<1>4. ASSUME NEW x \in Scopes, NEW q \in Routers, NEW w \in {"call", "menu"}, holder[x] = Held(q, w)
      PROVE  holder'[x] = Held(q, w)
    BY <1>1, <1>4, HeldNotNone
<1>5. \A q \in Routers : Locked(q)' => holder'[call'[q].scope] = Held(q, "call")
    BY <1>2, <1>4 DEF McpInv, Locks, Locked, Fetching
<1>6. ASSUME NEW q \in Routers
      PROVE  /\ menu'[q].at = "second" => holder'["system"] = Held(q, "menu")
             /\ menu'[q].at = "starting" => holder'[menu'[q].to] = Held(q, "menu")
    <2>1. CASE q = r
        BY <1>1, <2>1
    <2>2. CASE q # r
        BY <1>2, <1>3, <1>4, <2>2 DEF McpInv, Locks
    <2> QED BY <2>1, <2>2
<1> QED BY <1>5, <1>6 DEF Locks, Held

LEMMA MenuAtWrites ==
    ASSUME TypeOK, NEW r \in Routers, NEW a, menu' = [menu EXCEPT ![r].at = a]
    PROVE  /\ menu'[r].at = a /\ menu'[r].to = menu[r].to
           /\ \A q \in Routers : q # r => menu'[q] = menu[q]
<1> DEFINE d == [menu[r] EXCEPT !.at = a]
<1>1. menu[r] \in MenuSet
    BY DEF TypeOK
<1>2. menu' = [menu EXCEPT ![r] = d]
    OBVIOUS
<1>3. d.at = a /\ d.to = menu[r].to
    BY <1>1 DEF MenuSet
<1> HIDE DEF d
<1> QED BY <1>2, <1>3 DEF TypeOK

LEMMA QuietLockFirst ==
    ASSUME McpInv, TypeOK', NEW r \in Routers, LockFirst(r) PROVE Locks' /\ Quiet
<1>1. /\ UNCHANGED <<store, server, call, supplied, flows, task, ghosts>>
      /\ holder["system"] = None /\ holder' = [holder EXCEPT !["system"] = Held(r, "menu")]
    BY DEF LockFirst, Held
<1>2. menu'[r].at = "second" /\ \A q \in Routers : q # r => menu'[q] = menu[q]
    BY MenuAtWrites DEF LockFirst, McpInv
<1>3. "system" \in Scopes
    BY DEF Scopes
<1>4. Locks'
    BY <1>1, <1>2, <1>3, LocksTaken
<1>5. \A s \in Scopes : StoreQuiet(s)
    BY <1>1, SameStoreQuiet
<1>6. \A t \in Tasks : TaskQuiet(t)
    BY <1>1, SameTaskQuiet
<1>7. \A q \in Routers : menu'[q].at = "begun" => menu'[q].flow # None
    BY <1>2, SameMenu
<1>8. Quiet
    BY <1>1, <1>5, <1>6, <1>7, PeopleStepQuiet
<1> QED BY <1>4, <1>8

LEMMA QuietStartLock ==
    ASSUME McpInv, TypeOK', NEW r \in Routers, StartLock(r) PROVE Locks' /\ Quiet
<1> DEFINE s == menu[r].to
<1>1. /\ UNCHANGED <<store, server, call, supplied, flows, task, ghosts>>
      /\ holder[s] = None /\ holder' = [holder EXCEPT ![s] = Held(r, "menu")]
      /\ s \in Scopes
    BY MenuFields DEF StartLock, Held, McpInv, TypeOK
<1>2. /\ menu'[r].at = "starting" /\ menu'[r].to = s
      /\ \A q \in Routers : q # r => menu'[q] = menu[q]
    BY MenuAtWrites DEF StartLock, McpInv
<1>4. Locks'
    BY <1>1, <1>2, LocksTaken
<1>5. \A x \in Scopes : StoreQuiet(x)
    BY <1>1, SameStoreQuiet
<1>6. \A t \in Tasks : TaskQuiet(t)
    BY <1>1, SameTaskQuiet
<1>7. \A q \in Routers : menu'[q].at = "begun" => menu'[q].flow # None
    BY <1>2, SameMenu
<1>8. Quiet
    BY <1>1, <1>5, <1>6, <1>7, PeopleStepQuiet
<1> QED BY <1>4, <1>8

LEMMA StoppedQuiet ==
    ASSUME TypeOK, NEW f \in Flows, task' = Stopped(task, f)
    PROVE  \A t \in Tasks : TaskQuiet(t)
<1>1. \A t \in Tasks : /\ task'[t].got = task[t].got
                       /\ task'[t].at \in {task[t].at, "done"}
    BY StoppedTasks DEF TypeOK
<1> QED BY <1>1 DEF TaskQuiet

LEMMA MovedQuiet ==
    ASSUME TypeOK, NEW t \in Tasks, NEW a \in TaskStates, task' = WithTask(task, t, a),
           a # "install"
    PROVE  \A u \in Tasks : TaskQuiet(u)
<1>1. task'[t].at = a /\ task'[t].got = task[t].got /\ \A u \in Tasks : u # t => task'[u] = task[u]
    BY MovedTask DEF TypeOK
<1> QED BY <1>1 DEF TaskQuiet

LEMMA QuietPend ==
    ASSUME McpInv, TypeOK', NEW r \in Routers, Pend(r) PROVE Locks' /\ Quiet
<1> DEFINE f == menu[r].flow
           t == <<f, "listener">>
           listening == WithTask(task, t, "listening")
<1>1. /\ UNCHANGED <<store, holder, server, call, supplied, flows, ghosts>>
    BY DEF Pend
<1>2. f \in Flows /\ t \in Tasks
    BY MenuFields, TaskIds DEF McpInv, TypeOK, Pend, AtHand
<1>3. \A q \in Routers : menu'[q] = menu[q] \/ menu'[q].at = "no"
    BY DEF Pend, McpInv, TypeOK, NoMenu
<1>4. Locks'
    BY <1>1, <1>3, LocksQuiet DEF McpInv
<1>5. task' = listening \/ (pending[r] # None /\ task' = Stopped(listening, pending[r]))
    BY DEF Pend, WithTask
<1>6. pending[r] # None => pending[r] \in Flows
    BY DEF McpInv, TypeOK
<1> HIDE DEF t
<1>7. /\ listening \in [Tasks -> TaskSet] /\ listening[t].at = "listening"
      /\ listening[t].got = task[t].got
      /\ \A u \in Tasks : u # t => listening[u] = task[u]
    BY <1>2, MovedTask DEF McpInv, TypeOK, TaskStates
<1> HIDE DEF listening
<1>8. \A u \in Tasks : task'[u].got = listening[u].got
                       /\ task'[u].at \in {listening[u].at, "done"}
    BY <1>5, <1>6, <1>7, StoppedTasks
<1>9. \A u \in Tasks : TaskQuiet(u)
    BY <1>7, <1>8 DEF TaskQuiet
<1>10. \A s \in Scopes : StoreQuiet(s)
    BY <1>1, SameStoreQuiet
<1>11. \A q \in Routers : menu'[q].at = "begun" => menu'[q].flow # None
    BY <1>3, SameMenu
<1>12. Quiet
    BY <1>1, <1>9, <1>10, <1>11, PeopleStepQuiet
<1> QED BY <1>4, <1>12

\* Steps of a sign-in that only concern its tasks and the flow of a store.
LEMMA TaskStepQuiet ==
    ASSUME McpInv, TypeOK', UNCHANGED <<holder, server, call, supplied, menu, ghosts>>,
           \A s \in Scopes : StoreQuiet(s), \A t \in Tasks : TaskQuiet(t),
           \A f \in Flows : flows'[f].who = flows[f].who
    PROVE  Locks' /\ Quiet
<1>1. Locks'
    BY LocksQuiet DEF McpInv
<1>2. \A q \in Routers : menu'[q].at = "begun" => menu'[q].flow # None
    BY SameMenu
<1> QED BY <1>1, <1>2, PeopleStepQuiet

LEMMA FlowClearedQuiet ==
    ASSUME McpInv, NEW s \in Scopes, store' \in {store, WithFlow(store, s, None)}
    PROVE  \A x \in Scopes : StoreQuiet(x)
<1>1. CASE store' = store
    BY <1>1, SameStoreQuiet
<1>2. CASE store' = WithFlow(store, s, None)
    <2>1. None \in Flows \cup {None} /\ store \in [Scopes -> StoreSet]
        BY DEF McpInv, TypeOK
    <2>2. /\ store'[s].flow = None /\ store'[s].tok = store[s].tok
          /\ store'[s].configured = store[s].configured
          /\ \A x \in Scopes : x # s => store'[x] = store[x]
        BY <1>2, <2>1, WithFlowWrites
    <2>3. StoreQuiet(s)
        BY <2>2 DEF StoreQuiet, Same, McpInv, Newest
    <2> QED BY <2>2, <2>3, SameStoreQuiet
<1> QED BY <1>1, <1>2

LEMMA QuietCancel ==
    ASSUME McpInv, TypeOK', NEW r \in Routers, Cancel(r) PROVE Locks' /\ Quiet
<1>1. pending[r] \in Flows /\ task' = Stopped(task, pending[r])
    BY DEF Cancel, McpInv, TypeOK
<1>2. \A t \in Tasks : TaskQuiet(t)
    BY <1>1, StoppedQuiet DEF McpInv
<1>3. \A s \in Scopes : StoreQuiet(s)
    BY SameStoreQuiet DEF Cancel
<1> QED BY <1>2, <1>3, TaskStepQuiet DEF Cancel

LEMMA QuietClearOwn ==
    ASSUME McpInv, TypeOK', NEW f \in Flows, ClearOwn(f) PROVE Locks' /\ Quiet
<1>1. flows[f].scope \in Scopes
    BY FlowFields DEF McpInv, TypeOK
<1>2. store' \in {store, WithFlow(store, flows[f].scope, None)}
    BY DEF ClearOwn, WithFlow
<1>3. \A s \in Scopes : StoreQuiet(s)
    BY <1>1, <1>2, FlowClearedQuiet
<1>4. \A t \in Tasks : TaskQuiet(t)
    BY SameTaskQuiet DEF ClearOwn
<1> QED BY <1>3, <1>4, TaskStepQuiet DEF ClearOwn

LEMMA QuietCallback ==
    ASSUME McpInv, TypeOK', NEW f \in Flows, Callback(f) PROVE Locks' /\ Quiet
<1> DEFINE t == <<f, "listener">>
<1>1. t \in Tasks
    BY TaskIds
<1>2. PICK err \in BOOLEAN :
        task' = [task EXCEPT ![t] =
                       [@ EXCEPT !.at = IF flows[f].cli THEN "read" ELSE "got", !.err = err]]
    BY DEF Callback
<1> DEFINE y == [task[t] EXCEPT !.at = IF flows[f].cli THEN "read" ELSE "got", !.err = err]
<1>3. task' = [task EXCEPT ![t] = y]
    BY <1>2
<1> HIDE DEF t
<1>4. y.at \in {"read", "got"} /\ y.got = task[t].got
    BY <1>1 DEF McpInv, TypeOK, TaskSet
<1> HIDE DEF y
<1>5. \A u \in Tasks : TaskQuiet(u)
    BY <1>1, <1>3, <1>4 DEF TaskQuiet, McpInv, TypeOK
<1>6. \A s \in Scopes : StoreQuiet(s)
    BY SameStoreQuiet DEF Callback
<1> QED BY <1>5, <1>6, TaskStepQuiet DEF Callback

LEMMA QuietStillOurs ==
    ASSUME McpInv, TypeOK', NEW f \in Flows, StillOurs(f) PROVE Locks' /\ Quiet
<1> DEFINE t == <<f, "listener">>
<1>1. t \in Tasks
    BY TaskIds
<1>2. PICK a \in {"ours", "done", "read"} : task' = WithTask(task, t, a)
    BY DEF StillOurs, WithTask
<1> HIDE DEF t
<1>3. \A u \in Tasks : TaskQuiet(u)
    BY <1>1, <1>2, MovedQuiet DEF TaskStates, McpInv
<1>4. \A s \in Scopes : StoreQuiet(s)
    BY SameStoreQuiet DEF StillOurs
<1> QED BY <1>3, <1>4, TaskStepQuiet DEF StillOurs

LEMMA QuietPaste ==
    ASSUME McpInv, TypeOK', NEW r \in Routers, Paste(r) PROVE Locks' /\ Quiet
<1> DEFINE f == pending[r]
           t == <<f, "paste">>
           stopped == Stopped(task, f)
<1>1. f \in Flows /\ t \in Tasks
    BY TaskIds DEF McpInv, TypeOK, Paste
<1>2. PICK err \in BOOLEAN : task' = [stopped EXCEPT ![t].at = "read", ![t].err = err]
    BY DEF Paste
<1> DEFINE y == [stopped[t] EXCEPT !.at = "read", !.err = err]
<1>3. task' = [stopped EXCEPT ![t] = y]
    BY <1>2
<1>4. /\ stopped \in [Tasks -> TaskSet]
      /\ \A u \in Tasks : stopped[u].got = task[u].got /\ stopped[u].at \in {task[u].at, "done"}
    BY <1>1, StoppedTasks DEF McpInv, TypeOK
<1> HIDE DEF t, stopped, f
<1>5. y.at = "read" /\ y.got = task[t].got
    <2>1. stopped[t] \in TaskSet
        BY <1>1, <1>4
    <2> QED BY <1>1, <1>4, <2>1 DEF TaskSet
<1> HIDE DEF y
<1>6. \A u \in Tasks : TaskQuiet(u)
    BY <1>1, <1>3, <1>4, <1>5 DEF TaskQuiet
<1>7. \A s \in Scopes : StoreQuiet(s)
    BY SameStoreQuiet DEF Paste
<1> QED BY <1>6, <1>7, TaskStepQuiet DEF Paste

LEMMA QuietReadFlow ==
    ASSUME McpInv, TypeOK', NEW t \in Tasks, ReadFlow(t) PROVE Locks' /\ Quiet
<1>1. flows[t[1]].scope \in Scopes
    BY TaskIds, FlowFields DEF McpInv, TypeOK
<1>2. store' \in {store, WithFlow(store, flows[t[1]].scope, None)}
    BY DEF ReadFlow, WithFlow
<1>3. \A s \in Scopes : StoreQuiet(s)
    BY <1>1, <1>2, FlowClearedQuiet
<1>4. PICK a \in {"done", "exchange"} : task' = WithTask(task, t, a)
    BY DEF ReadFlow, WithTask
<1>5. \A u \in Tasks : TaskQuiet(u)
    BY <1>4, MovedQuiet DEF TaskStates, McpInv
<1> QED BY <1>3, <1>5, TaskStepQuiet DEF ReadFlow

LEMMA QuietExpireFlow ==
    ASSUME McpInv, TypeOK', NEW f \in Flows, ExpireFlow(f) PROVE Locks' /\ Quiet
<1>1. \A t \in Tasks : TaskQuiet(t)
    BY StoppedQuiet DEF McpInv, ExpireFlow
<1>2. \A s \in Scopes : StoreQuiet(s)
    BY SameStoreQuiet DEF ExpireFlow
<1>3. \A g \in Flows : flows'[g].who = flows[g].who
    <2>1. [flows[f] EXCEPT !.live = FALSE].who = flows[f].who
        BY FlowFields DEF McpInv, TypeOK
    <2>2. flows' = [flows EXCEPT ![f] = [flows[f] EXCEPT !.live = FALSE]]
        BY DEF ExpireFlow
    <2> QED BY <2>1, <2>2 DEF McpInv, TypeOK
<1> QED BY <1>1, <1>2, <1>3, TaskStepQuiet DEF ExpireFlow

\* A process dies: what it held is free, what it had in hand is lost.
LEMMA QuietCrash ==
    ASSUME McpInv, TypeOK', NEW r \in Routers, Crash(r) PROVE Locks' /\ Quiet
<1>1. /\ UNCHANGED <<store, server, flows, spent, again>>
      /\ call' = [call EXCEPT ![r] = NoCall] /\ menu' = [menu EXCEPT ![r] = NoMenu]
      /\ supplied' = [supplied EXCEPT ![r] = None]
      /\ holder' = [s \in Scopes |-> IF holder[s] # None /\ holder[s].who = r THEN None ELSE holder[s]]
      /\ task' = [t \in Tasks |-> IF flows[t[1]].who = r /\ task[t].at # "no"
                                  THEN [NoTask EXCEPT !.at = "done"] ELSE task[t]]
      /\ lost' = IF call[r].at = "answered" THEN lost \cup ({call[r].snap.refresh} \cap spent)
                                            ELSE lost
    BY DEF Crash
<1>2. /\ call'[r] = NoCall /\ menu'[r] = NoMenu
      /\ \A q \in Routers : q # r => call'[q] = call[q] /\ menu'[q] = menu[q]
      /\ \A q \in Routers : supplied'[q] \in {supplied[q], None}
    BY <1>1 DEF McpInv, TypeOK
<1>3. /\ call'[r].at = "idle" /\ call'[r].token = 0 /\ call'[r].snap = None /\ call'[r].new = None
      /\ menu'[r].at = "no"
    BY <1>2 DEF NoCall, NoMenu
<1>4. last' = last /\ last <= last' /\ 0 <= last' /\ good' = good /\ grants' = grants
    BY <1>1 DEF McpInv, TypeOK, server
<1>5. call[r].at = "answered" => Loses(r)
    BY <1>1 DEF Loses
<1>6. CallQuiet(r)
    BY <1>3, <1>4, <1>5 DEF CallQuiet, Fetching
<1>7. \A q \in Routers : CallQuiet(q)
    BY <1>2, <1>4, <1>6, SameCallQuiet
<1>8. \A s \in Scopes : StoreQuiet(s)
    BY <1>1, SameStoreQuiet
<1>9. \A t \in Tasks : TaskQuiet(t)
    <2>1. [NoTask EXCEPT !.at = "done"].got = None /\ [NoTask EXCEPT !.at = "done"].at = "done"
        BY DEF NoTask
    <2> QED BY <1>1, <2>1 DEF TaskQuiet
<1>10. \A q \in Routers : menu'[q].at = "begun" => menu'[q].flow # None
    BY <1>2, <1>3, SameMenu
<1>11. \A q \in Routers : supplied'[q] # None => supplied'[q].token <= last'
    BY <1>2, <1>4 DEF McpInv, Issued
<1>12. Quiet
    BY <1>1, <1>4, <1>7, <1>8, <1>9, <1>10, <1>11 DEF Quiet
<1>13. ASSUME NEW s \in Scopes, NEW q \in Routers, NEW w \in {"call", "menu"}, q # r,
              holder[s] = Held(q, w)
       PROVE  holder'[s] = Held(q, w)
    BY <1>1, <1>13 DEF Held
<1>14. \A q \in Routers : call[q].scope \in Scopes /\ menu[q].to \in Scopes
    BY CallFields, MenuFields DEF McpInv, TypeOK
<1>15. ASSUME NEW q \in Routers
       PROVE  /\ Locked(q)' => holder'[call'[q].scope] = Held(q, "call")
              /\ menu'[q].at = "second" => holder'["system"] = Held(q, "menu")
              /\ menu'[q].at = "starting" => holder'[menu'[q].to] = Held(q, "menu")
    <2>1. CASE q = r
        BY <1>3, <2>1 DEF Locked, Fetching
    <2>2. CASE q # r
        <3>1. "system" \in Scopes
            BY DEF Scopes
        <3> QED BY <1>2, <1>13, <1>14, <2>2, <3>1 DEF McpInv, Locks, Locked, Fetching
    <2> QED BY <2>1, <2>2
<1> QED BY <1>12, <1>15 DEF Locks, Held

------------------------------------------------------------------------------
(* Steps that bring a new token *)

\* The authorization server answers a refresh (refresh in mcp_oauth.rs).

\* The authorization server issues a bearer and perhaps a refresh token.
Granted ==
    last' = last + 2 /\ good' = good \cup {last + 1} /\ grants' \subseteq grants \cup {last + 2}

\* One token is new, and it has numbers that nobody had.
OneNew(n) ==
    /\ n \in TokenSet /\ n.access = last + 1 /\ n.refresh <= last + 2
    /\ n.by # 0 => Used(n.by)'
    /\ \A a \in Known' : a \in Known \/ a = n

LEMMA NamedGranted ==
    ASSUME TypeOK, Issued, Named, NEW n, OneNew(n)
    PROVE  Named'
<1>1. \A a \in Known : a.access \in Nat /\ a.access < last + 1
    BY KnownTokens, TokenFields DEF Issued, TypeOK
<1>2. ASSUME NEW a \in Known', NEW b \in Known', a.access = b.access PROVE Same(a, b)
    <2>1. CASE a \in Known /\ b \in Known
        BY <1>2, <2>1 DEF Named
    <2>2. CASE a = n /\ b = n
        BY <2>2 DEF Same
    <2>3. CASE (a \in Known /\ b = n) \/ (a = n /\ b \in Known)
        BY <1>1, <1>2, <2>3 DEF OneNew, TypeOK
    <2> QED BY <2>1, <2>2, <2>3 DEF OneNew
<1> QED BY <1>2 DEF Named, Same

LEMMA IssuedGranted ==
    ASSUME TypeOK, TypeOK', Issued, Granted, NEW n, OneNew(n),
           spent' \subseteq spent \cup grants, supplied' = supplied,
           \A r \in Routers : call'[r].token = call[r].token,
           \A f \in Flows : Used(f) => Used(f)'
    PROVE  Issued'
<1>1. last \in Nat /\ last' = last + 2
    BY DEF TypeOK, Granted
<1>2. (grants \cup good \cup spent \subseteq 1 .. last)'
    BY <1>1 DEF Issued, Granted
<1>3. \A r \in Routers : call'[r].token <= last'
    BY <1>1, CallFields DEF Issued, TypeOK
<1>4. \A r \in Routers : supplied'[r] # None => supplied'[r].token <= last'
    BY <1>1 DEF Issued, TypeOK
<1>5. ASSUME NEW a \in Known'
      PROVE  a.access <= last' /\ a.refresh <= last' /\ (a.by # 0 => Used(a.by)')
    <2>1. CASE a = n
        BY <1>1, <2>1 DEF OneNew
    <2>2. CASE a \in Known
        <3>1. a.access \in Nat /\ a.refresh \in Nat /\ a.by \in 0 .. MaxFlows
            BY <2>2, KnownTokens, TokenFields
        <3>2. a.access <= last /\ a.refresh <= last /\ (a.by # 0 => Used(a.by))
            BY <2>2 DEF Issued
        <3>3. a.by # 0 => a.by \in Flows
            BY <3>1, McpAssumption DEF Flows
        <3> QED BY <1>1, <3>1, <3>2, <3>3
    <2> QED BY <2>1, <2>2 DEF OneNew
<1> QED BY <1>2, <1>3, <1>4, <1>5 DEF Issued

LEMMA FailedGranted ==
    ASSUME TypeOK, Issued, FailedIsDead, Granted, store' = store
    PROVE  FailedIsDead'
<1>1. ASSUME NEW s \in Scopes, store[s].tok # None
      PROVE  /\ store[s].tok.access \in good' => store[s].tok.access \in good
             /\ store[s].tok.refresh \in grants' => store[s].tok.refresh \in grants
    <2>1. store[s].tok \in Known /\ store[s].tok.access \in Nat /\ store[s].tok.refresh \in Nat
        BY <1>1, KnownTokens, TokenFields
    <2>2. store[s].tok.access <= last /\ store[s].tok.refresh <= last
        BY <2>1 DEF Issued
    <2> QED BY <2>1, <2>2 DEF Granted, TypeOK
<1> QED BY <1>1 DEF FailedIsDead

\* What a call that stays has at hand stays so.
LEMMA AtHandGranted ==
    ASSUME TypeOK, Issued, AtHand, Granted, NEW r \in Routers, call'[r] = call[r]
    PROVE  /\ call'[r].at = "wait" \/ Fetching(r)' => call'[r].snap # None /\ ~call'[r].snap.failed
           /\ call'[r].at = "answered" =>
                 /\ call'[r].new # None /\ ~call'[r].new.failed
                 /\ call'[r].new.by = call'[r].snap.by
           /\ call'[r].at = "refused" => call'[r].snap.refresh \notin grants'
           /\ call'[r].at = "marking" => call'[r].token \notin good'
<1>1. call[r].token \in Nat /\ call[r].token <= last
    BY CallFields DEF TypeOK, Issued
<1>2. call[r].at = "marking" => call[r].token \notin good'
    BY <1>1 DEF AtHand, Granted, TypeOK
<1>3. call[r].at = "refused" => call[r].snap.refresh \notin grants'
    <2>1. SUFFICES ASSUME call[r].at = "refused" PROVE call[r].snap.refresh \notin grants'
        OBVIOUS
    <2>2. call[r].snap # None /\ call[r].snap.refresh \notin grants
        BY <2>1 DEF AtHand, Fetching
    <2>3. call[r].snap \in Known /\ call[r].snap.refresh \in Nat
        BY <2>2, KnownTokens, TokenFields
    <2>4. call[r].snap.refresh <= last
        BY <2>3 DEF Issued
    <2> QED BY <2>2, <2>3, <2>4 DEF Granted, TypeOK
<1> QED BY <1>2, <1>3 DEF AtHand, Fetching

\* One call works under the lock of a scope.
LEMMA OneLocked ==
    ASSUME Locks, NEW q \in Routers, NEW r \in Routers, Locked(q), Locked(r),
           call[q].scope = call[r].scope
    PROVE  q = r
<1>1. holder[call[q].scope] = Held(q, "call") /\ holder[call[r].scope] = Held(r, "call")
    BY DEF Locks
<1>2. Held(q, "call") = Held(r, "call")
    BY <1>1
<1>3. Held(q, "call").who = q /\ Held(r, "call").who = r
    BY DEF Held
<1> QED BY <1>2, <1>3

\* A refresh that is refused, or that fails on the way.
LEMMA RefreshFails ==
    ASSUME McpInv, TypeOK', NEW r \in Routers, call[r].at = "refresh",
           NEW a \in {"refused", "transient"}, call' = [call EXCEPT ![r].at = a],
           a = "refused" => call[r].snap.refresh \notin grants,
           again' = again \cup ({call[r].snap.refresh} \cap spent),
           UNCHANGED <<store, holder, server, supplied, people, spent, lost>>
    PROVE  McpInv'
<1>0. TypeOK /\ a \in CallStates /\ Fetching(r) /\ Locked(r)
    BY DEF McpInv, CallStates, Fetching, Locked
<1>1. /\ call'[r].at = a /\ call'[r].scope = call[r].scope /\ call'[r].token = call[r].token
      /\ call'[r].snap = call[r].snap /\ call'[r].new = call[r].new
      /\ \A q \in Routers : q # r => call'[q] = call[q]
    BY <1>0, AtWrites
<1>2. Locks'
    <2>1. \A q \in Routers : Locked(q)' => Locked(q) /\ call'[q].scope = call[q].scope
        BY <1>0, <1>1 DEF Locked, Fetching
    <2> QED BY <2>1, LocksHeld DEF McpInv, people
<1>3. call[r].snap.refresh \notin spent \ lost
    BY <1>0 DEF McpInv, Rotated
<1>4. again' \subseteq again \cup lost'
    BY <1>3
<1>5. WorksOn(r)
    BY <1>0, <1>1 DEF WorksOn, Keeps
<1>6. call[r].token <= last'
    BY DEF McpInv, Issued, server
<1>7. CallQuiet(r)
    BY <1>1, <1>5, <1>6 DEF CallQuiet, server
<1>8. Quiet
    BY <1>1, <1>4, <1>7, CallStepQuiet
<1> QED BY <1>2, <1>8, QuietKeeps

\* A refresh that is granted: the successor is in hand, or it is lost.
LEMMA RefreshGranted ==
    ASSUME McpInv, TypeOK', NEW r \in Routers, call[r].at = "refresh",
           NEW rotates \in BOOLEAN, NEW arrives \in BOOLEAN, NEW n,
           call[r].snap.refresh \in grants,
           n = [call[r].snap EXCEPT !.access = last + 1, !.life = "long",
                                    !.refresh = IF rotates THEN last + 2 ELSE @],
           last' = last + 2, good' = good \cup {last + 1},
           grants' = IF rotates THEN (grants \ {call[r].snap.refresh}) \cup {last + 2} ELSE grants,
           spent' = IF rotates THEN spent \cup {call[r].snap.refresh} ELSE spent,
           lost' = IF rotates /\ ~arrives THEN lost \cup {call[r].snap.refresh} ELSE lost,
           call' = AtNew(r, IF arrives THEN "answered" ELSE "transient", n),
           again' = again \cup ({call[r].snap.refresh} \cap spent),
           UNCHANGED <<store, holder, supplied, people>>
    PROVE  McpInv'
<1> DEFINE old == call[r].snap
           s == call[r].scope
           a == IF arrives THEN "answered" ELSE "transient"
<1>0. /\ TypeOK /\ a \in CallStates /\ Fetching(r) /\ Locked(r) /\ s \in Scopes
      /\ last \in Nat /\ old # None /\ ~old.failed
    BY CallFields DEF McpInv, TypeOK, CallStates, Fetching, Locked, AtHand
<1>1. old \in Known /\ old \in TokenSet /\ old.refresh \in 1 .. last
    BY <1>0, KnownTokens DEF McpInv, Issued
<1>2. /\ n \in TokenSet /\ n.access = last + 1 /\ n.by = old.by /\ ~n.failed
      /\ n.refresh = IF rotates THEN last + 2 ELSE old.refresh
    <2>1. PICK x \in Nat : x = IF rotates THEN last + 2 ELSE old.refresh
        BY <1>0, <1>1
    <2>2. n = [old EXCEPT !.access = last + 1, !.life = "long", !.refresh = x]
        BY <2>1
    <2>3. last + 1 \in Nat /\ "long" \in Lifetimes
        BY <1>0 DEF Lifetimes
    <2> HIDE DEF old
    <2> QED BY <1>0, <1>1, <2>1, <2>2, <2>3 DEF TokenSet
<1>3. /\ call'[r].at = a /\ call'[r].scope = s /\ call'[r].token = call[r].token
      /\ call'[r].snap = old /\ call'[r].new = n
      /\ \A q \in Routers : q # r => call'[q] = call[q]
    BY <1>0, AtNewWrites
<1> HIDE DEF a
<1>4. a \in {"answered", "transient"} /\ Fetching(r)'
    BY <1>3 DEF a, Fetching
<1>5. Locks'
    <2>1. \A q \in Routers : Locked(q)' => Locked(q) /\ call'[q].scope = call[q].scope
        BY <1>0, <1>3 DEF Locked, Fetching
    <2> QED BY <2>1, LocksHeld DEF McpInv, people
<1>6. Granted
    BY DEF Granted
<1>7. OneNew(n)
    <2>1. n.refresh <= last + 2
        BY <1>0, <1>1, <1>2
    <2>2. n.by # 0 => Used(n.by)'
        BY <1>1, <1>2 DEF McpInv, Issued, Used, people
    <2>3. ASSUME NEW b \in Known' PROVE b \in Known \/ b = n
        <3>1. b # None
            BY <2>3 DEF Known
        <3>2. \/ \E x \in Scopes : b = store'[x].tok
              \/ \E q \in Routers : b = call'[q].snap \/ b = call'[q].new
              \/ \E t \in Tasks : b = task'[t].got
            BY <2>3 DEF Known
        <3> QED BY <1>0, <1>3, <3>1, <3>2, KnownTokens DEF people
    <2> QED BY <1>2, <2>1, <2>2, <2>3 DEF OneNew
<1>8. Named'
    BY <1>7, NamedGranted DEF McpInv
<1>9. Issued'
    <2>1. \A q \in Routers : call'[q].token = call[q].token
        BY <1>3
    <2>2. \A f \in Flows : Used(f) => Used(f)'
        BY DEF Used, people
    <2>3. spent' \subseteq spent \cup grants
        OBVIOUS
    <2> QED BY <1>6, <1>7, <2>1, <2>2, <2>3, IssuedGranted DEF McpInv
<1>10. AtHand'
    <2>1. ASSUME NEW q \in Routers
          PROVE  /\ call'[q].at = "wait" \/ Fetching(q)' =>
                       call'[q].snap # None /\ ~call'[q].snap.failed
                 /\ call'[q].at = "answered" =>
                       /\ call'[q].new # None /\ ~call'[q].new.failed
                       /\ call'[q].new.by = call'[q].snap.by
                 /\ call'[q].at = "refused" => call'[q].snap.refresh \notin grants'
                 /\ call'[q].at = "marking" => call'[q].token \notin good'
        <3>1. CASE q = r
            <4>1. n # None
                BY <1>2, NoneAssumption
            <4>2. call'[r].snap # None /\ ~call'[r].snap.failed /\ call'[r].new.by = call'[r].snap.by
                BY <1>0, <1>2, <1>3
            <4>3. call'[r].at \notin {"wait", "refused", "marking"}
                BY <1>3, <1>4
            <4>4. call'[r].new # None /\ ~call'[r].new.failed
                BY <1>2, <1>3, <4>1
            <4> QED BY <3>1, <4>2, <4>3, <4>4
        <3>2. CASE q # r
            BY <1>3, <1>6, <3>2, AtHandGranted DEF McpInv
        <3> QED BY <3>1, <3>2
    <2> QED BY <2>1 DEF McpInv, AtHand, people, Fetching
<1>11. Fenced'
    BY <1>0, <1>3 DEF McpInv, Fenced, Fetching

\* Nobody else at this scope fetches, and what this call has is in use nowhere else.
<1>12. \A q \in Routers : Fetching(q) /\ q # r => call[q].scope # s
    BY <1>0, OneLocked DEF McpInv, Locked
<1>13. \A x \in Scopes : Custody(x, old.refresh) => x = s
    <2>1. Custody(s, old.refresh)
        BY <1>0 DEF Custody
    <2>2. ~(Custody("system", old.refresh) /\ Custody("project", old.refresh))
        BY <1>1 DEF McpInv, Apart
    <2> QED BY <1>0, <2>1, <2>2 DEF Scopes
<1>14. ASSUME NEW x \in Scopes, NEW y, Custody(x, y)'
       PROVE  Custody(x, y) \/ (x = s /\ y = last + 2)
    <2>1. CASE store'[x].tok # None /\ store'[x].tok.refresh = y
        BY <2>1 DEF Custody
    <2>2. ASSUME NEW q \in Routers, Fetching(q)', call'[q].scope = x,
                 \/ call'[q].snap.refresh = y
                 \/ call'[q].at = "answered" /\ call'[q].new.refresh = y
          PROVE  Custody(x, y) \/ (x = s /\ y = last + 2)
        <3>1. CASE q = r
            <4>1. x = s /\ (y = old.refresh \/ y = n.refresh)
                BY <1>3, <2>2, <3>1
            <4>2. Custody(s, old.refresh)
                BY <1>0 DEF Custody
            <4> QED BY <1>2, <4>1, <4>2
        <3>2. CASE q # r
            BY <1>3, <2>2, <3>2 DEF Custody, Fetching
        <3> QED BY <3>1, <3>2
    <2> QED BY <1>14, <2>1, <2>2 DEF Custody, Fetching
<1>15. \A x \in Scopes : ~Custody(x, last + 2)
    BY <1>0, CustodyIssued DEF McpInv
<1>16. Apart'
    <2>1. ASSUME NEW y \in 1 .. last' PROVE ~(Custody("system", y)' /\ Custody("project", y)')
        <3>1. "system" \in Scopes /\ "project" \in Scopes
            BY DEF Scopes
        <3>2. SUFFICES ASSUME Custody("system", y)', Custody("project", y)' PROVE FALSE
            OBVIOUS
        <3>3. CASE y = last + 2
            BY <1>14, <1>15, <3>1, <3>2, <3>3
        <3>4. CASE y # last + 2
            <4>1. Custody("system", y) /\ Custody("project", y)
                BY <1>14, <3>1, <3>2, <3>4
            <4>2. y \in 1 .. last
                BY <1>0, <3>1, <4>1, CustodyIssued DEF McpInv
            <4> QED BY <4>1, <4>2 DEF McpInv, Apart
        <3> QED BY <3>3, <3>4
    <2>2. ASSUME NEW t \in Tasks, NEW y \in 1 .. last', task'[t].got # None, task'[t].got.refresh = y
          PROVE  Reserved(t, y)'
        <3>1. task' = task
            BY DEF people
        <3>2. y \in 1 .. last
            <4>1. task[t].got.refresh <= last
                BY <1>0, <2>2, <3>1, KnownTokens DEF McpInv, Issued
            <4> QED BY <1>0, <2>2, <3>1, <4>1
        <3>3. Reserved(t, y)
            BY <2>2, <3>1, <3>2 DEF McpInv, Apart
        <3>4. y # last + 2
            BY <1>0, <3>2
        <3>5. \A x \in Scopes : ~Custody(x, y)'
            BY <1>14, <3>3, <3>4 DEF Reserved
        <3>6. y # old.refresh
            BY <1>0, <3>3 DEF Reserved, Custody
        <3>7. y \notin spent'
            BY <3>3, <3>6 DEF Reserved
        <3> QED BY <3>1, <3>3, <3>5, <3>7 DEF Reserved
    <2> QED BY <2>1, <2>2 DEF Apart
<1>17. old.refresh \notin spent
    BY DEF McpInv, Rotated
<1>18. Rotated'
    <2>1. (grants \cap spent = {})'
        <3>1. grants \cap spent = {} /\ last + 2 \notin spent /\ last + 2 # old.refresh
            BY <1>0, <1>1 DEF McpInv, Rotated, Issued
        <3> QED BY <3>1
    <2>2. ASSUME NEW x \in Scopes, store'[x].tok # None, store'[x].tok.refresh \in spent' \ lost'
          PROVE  \E q \in Routers : call'[q].at = "answered" /\ call'[q].scope = x
        <3>1. CASE store[x].tok.refresh \in spent
            <4>1. store[x].tok.refresh \in spent \ lost
                BY <2>2, <3>1
            <4>2. PICK q \in Routers : call[q].at = "answered" /\ call[q].scope = x
                BY <2>2, <4>1 DEF McpInv, Rotated
            <4> QED BY <1>3, <4>2
        <3>2. CASE store[x].tok.refresh \notin spent
            <4>1. store[x].tok.refresh = old.refresh /\ rotates
                BY <2>2, <3>2
            <4>2. arrives
                BY <2>2, <4>1
            <4>3. x = s
                BY <1>13, <2>2, <4>1 DEF Custody
            <4> QED BY <1>3, <4>2, <4>3 DEF a
        <3> QED BY <3>1, <3>2
    <2>3. ASSUME NEW q \in Routers, Fetching(q)'
          PROVE  IF call'[q].at = "answered" THEN call'[q].new.refresh \notin spent'
                 ELSE call'[q].snap.refresh \notin spent' \ lost'
        <3>1. CASE q = r
            <4>1. CASE arrives
                <5>1. last + 2 \notin spent /\ last + 2 # old.refresh
                    BY <1>0, <1>1 DEF McpInv, Issued
                <5>2. n.refresh \notin spent'
                    BY <1>2, <1>17, <5>1
                <5> QED BY <1>3, <3>1, <4>1, <5>2 DEF a
            <4>2. CASE ~arrives
                <5>1. old.refresh \notin spent' \ lost'
                    BY <1>17, <4>2
                <5> QED BY <1>3, <3>1, <4>2, <5>1 DEF a
            <4> QED BY <4>1, <4>2
        <3>2. CASE q # r
            <4>1. call'[q] = call[q] /\ Fetching(q) /\ call[q].scope \in Scopes
                BY <1>0, <1>3, <2>3, <3>2, CallFields DEF Fetching, TypeOK
            <4>2. ~Custody(call[q].scope, old.refresh)
                BY <1>12, <1>13, <3>2, <4>1
            <4>3. /\ call[q].snap.refresh # old.refresh
                  /\ call[q].at = "answered" => call[q].new.refresh # old.refresh
                BY <4>1, <4>2 DEF Custody
            <4>4. IF call[q].at = "answered" THEN call[q].new.refresh \notin spent
                  ELSE call[q].snap.refresh \notin spent \ lost
                BY <4>1 DEF McpInv, Rotated
            <4> QED BY <4>1, <4>3, <4>4
        <3> QED BY <3>1, <3>2
    <2> QED BY <2>1, <2>2, <2>3 DEF Rotated, Fetching
<1>19. Newest'
    <2>1. \A q \in Routers : Fetching(q)' =>
             Fetching(q) /\ call'[q].scope = call[q].scope /\ call'[q].snap = call[q].snap
        BY <1>0, <1>3 DEF Fetching
    <2>2. (\A f, g \in Flows : Used(f) /\ g < f => Used(g))'
        BY DEF McpInv, Newest, Used, people
    <2>3. ASSUME NEW x \in Scopes, store'[x].flow # None
          PROVE  /\ Used(store[x].flow)'
                 /\ store'[x].tok # None => store'[x].tok.by <= store'[x].flow
                 /\ \A q \in Routers : Fetching(q)' /\ call'[q].scope = x =>
                       call'[q].snap.by <= store'[x].flow
        BY <2>1, <2>3 DEF McpInv, Newest, Used, people
    <2>4. (\A x \in Scopes : store[x].tok # None => store[x].configured)'
        BY DEF McpInv, Newest
    <2> QED BY <2>2, <2>3, <2>4 DEF Newest, Fetching
<1>20. GrantSpentOnce'
    BY <1>17 DEF McpInv, GrantSpentOnce
<1>21. FailedIsDead'
    BY <1>6, FailedGranted DEF McpInv
<1> QED BY <1>5, <1>8, <1>9, <1>10, <1>11, <1>16, <1>18, <1>19, <1>20, <1>21 DEF McpInv

LEMMA InvRefresh ==
    ASSUME McpInv, TypeOK', NEW r \in Routers, Refresh(r) PROVE McpInv'
<1> DEFINE old == call[r].snap
           new(rotates) == [old EXCEPT !.access = last + 1, !.life = "long",
                                       !.refresh = IF rotates THEN last + 2 ELSE @]
<1>1. /\ call[r].at = "refresh" /\ again' = again \cup ({old.refresh} \cap spent)
      /\ UNCHANGED <<store, holder, supplied, people>>
    BY DEF Refresh
<1>2. ASSUME old.refresh \in grants,
             NEW rotates \in BOOLEAN, NEW arrives \in BOOLEAN,
             /\ last' = last + 2
             /\ good' = good \cup {last + 1}
             /\ grants' = IF rotates THEN (grants \ {old.refresh}) \cup {last + 2} ELSE grants
             /\ spent' = IF rotates THEN spent \cup {old.refresh} ELSE spent
             /\ lost' = IF rotates /\ ~arrives THEN lost \cup {old.refresh} ELSE lost
             /\ call' = [call EXCEPT ![r].at = IF arrives THEN "answered" ELSE "transient",
                                     ![r].new = new(rotates)]
      PROVE  McpInv'
    <2>1. PICK n : n = new(rotates)
        OBVIOUS
    <2>2. call' = AtNew(r, IF arrives THEN "answered" ELSE "transient", n)
        BY <1>2, <2>1 DEF AtNew
    <2> QED BY <1>1, <1>2, <2>1, <2>2, RefreshGranted
<1>3. ASSUME NEW b \in {"refused", "transient"}, call' = [call EXCEPT ![r].at = b],
             b = "refused" => old.refresh \notin grants,
             UNCHANGED <<server, spent, lost>>
      PROVE  McpInv'
    BY <1>1, <1>3, RefreshFails
<1> QED BY <1>2, <1>3 DEF Refresh

------------------------------------------------------------------------------
(* Steps that write the stores *)

\* The renewed tokens, or the failed ones, under the call's lock (write_tokens,
\* mark_failed).

LEMMA IssuedKept ==
    ASSUME TypeOK, TypeOK', Issued, \A a \in Known' : \E b \in Known : Same(a, b),
           UNCHANGED <<server, spent, supplied>>,
           \A r \in Routers : call'[r].token <= last,
           \A f \in Flows : Used(f) => Used(f)'
    PROVE  Issued'
<1>1. ASSUME NEW a \in Known'
      PROVE  a.access <= last' /\ a.refresh <= last' /\ (a.by # 0 => Used(a.by)')
    <2>1. PICK b \in Known : Same(a, b)
        OBVIOUS
    <2>2. b \in TokenSet /\ b.by \in 0 .. MaxFlows
        BY KnownTokens, TokenFields
    <2>3. b.access <= last /\ b.refresh <= last /\ (b.by # 0 => Used(b.by))
        BY DEF Issued
    <2>4. b.by # 0 => b.by \in Flows
        BY <2>2, McpAssumption DEF Flows
    <2>5. a.access = b.access /\ a.refresh = b.refresh /\ a.by = b.by
        BY <2>1 DEF Same
    <2> QED BY <2>3, <2>4, <2>5 DEF server
<1> QED BY <1>1 DEF Issued, server

LEMMA ApartKept ==
    ASSUME Apart, UNCHANGED <<task, last, spent>>,
           ASSUME NEW s \in Scopes, NEW x, Custody(s, x)' PROVE Custody(s, x)
    PROVE  Apart'
<1>1. "system" \in Scopes /\ "project" \in Scopes
    BY DEF Scopes
<1>2. ASSUME NEW x \in 1 .. last' PROVE ~(Custody("system", x)' /\ Custody("project", x)')
    BY <1>1 DEF Apart
<1>3. ASSUME NEW t \in Tasks, NEW x \in 1 .. last', task'[t].got # None, task'[t].got.refresh = x
      PROVE  Reserved(t, x)'
    <2>1. Reserved(t, x)
        BY <1>3 DEF Apart
    <2> QED BY <2>1 DEF Reserved
<1> QED BY <1>2, <1>3 DEF Apart

\* A call that works under its lock writes the tokens it has, and is done with them.
LEMMA StoreWritten ==
    ASSUME McpInv, TypeOK', Locks', NEW r \in Routers, Fetching(r), NEW y \in TokenSet,
           store' = WithTok(store, call[r].scope, y),
           NEW b \in Known, Same(y, b), y.by = call[r].snap.by,
           \/ y.refresh = call[r].snap.refresh
           \/ call[r].at = "answered" /\ y.refresh = call[r].new.refresh,
           y.refresh \notin spent \ lost,
           y.failed => y.refresh \notin grants,
           call'[r].at \in {"first", "second", "told", "lockedhelp"},
           call'[r].snap = call[r].snap, call'[r].new = call[r].new, call'[r].token <= last,
           \A q \in Routers : q # r => call'[q] = call[q],
           UNCHANGED <<server, supplied, people, ghosts>>
    PROVE  McpInv'
<1> DEFINE s == call[r].scope
<1>0. TypeOK /\ s \in Scopes /\ store \in [Scopes -> StoreSet] /\ Locked(r) /\ ~Fetching(r)'
    BY CallFields DEF McpInv, TypeOK, Locked, Fetching
<1>1. /\ store'[s].tok = y /\ store'[s].configured /\ store'[s].flow = store[s].flow
      /\ \A i \in Scopes : i # s => store'[i] = store[i]
    BY <1>0, WithTokWrites
<1>2. \A q \in Routers : Fetching(q)' =>
         q # r /\ call'[q] = call[q] /\ Fetching(q) /\ call[q].scope # s
    BY <1>0, OneLocked DEF McpInv, Fetching, Locked
<1>3. \A a \in Known' : \E c \in Known : Same(a, c)
    <2>1. ASSUME NEW a \in Known' PROVE a \in Known \/ a = y
        <3>1. a # None
            BY <2>1 DEF Known
        <3>2. \/ \E x \in Scopes : a = store'[x].tok
              \/ \E q \in Routers : a = call'[q].snap \/ a = call'[q].new
              \/ \E t \in Tasks : a = task'[t].got
            BY <2>1 DEF Known
        <3> QED BY <1>0, <1>1, <3>1, <3>2, KnownTokens DEF people
    <2>2. \A a : Same(a, a)
        BY DEF Same
    <2> QED BY <2>1, <2>2
<1>4. Named'
    BY <1>0, <1>3, NamedKept DEF McpInv
<1>5. Issued'
    <2>1. \A q \in Routers : call'[q].token <= last
        BY DEF McpInv, Issued
    <2>2. \A f \in Flows : Used(f) => Used(f)'
        BY DEF Used, people
    <2> QED BY <1>3, <2>1, <2>2, IssuedKept DEF McpInv, ghosts
<1>6. AtHand'
    <2>1. ASSUME NEW q \in Routers
          PROVE  /\ call'[q].at = "wait" \/ Fetching(q)' =>
                       call'[q].snap # None /\ ~call'[q].snap.failed
                 /\ call'[q].at = "answered" =>
                       /\ call'[q].new # None /\ ~call'[q].new.failed
                       /\ call'[q].new.by = call'[q].snap.by
                 /\ call'[q].at = "refused" => call'[q].snap.refresh \notin grants'
                 /\ call'[q].at = "marking" => call'[q].token \notin good'
        <3>1. CASE q = r
            BY <1>0, <3>1
        <3>2. CASE q # r
            BY <3>2 DEF McpInv, AtHand, server, Fetching
        <3> QED BY <3>1, <3>2
    <2> QED BY <2>1 DEF McpInv, AtHand, people, Fetching
<1>7. Fenced'
    <2>1. ASSUME NEW q \in Routers, Fetching(q)', store'[call'[q].scope].tok # None
          PROVE  Same(store'[call'[q].scope].tok, call'[q].snap)
        <3>1. call'[q] = call[q] /\ Fetching(q) /\ call[q].scope # s /\ call[q].scope \in Scopes
            BY <1>0, <1>2, <2>1, CallFields DEF TypeOK
        <3> QED BY <1>1, <2>1, <3>1 DEF McpInv, Fenced
    <2> QED BY <2>1 DEF Fenced, Fetching, Same
<1>8. ASSUME NEW x \in Scopes, NEW z, Custody(x, z)' PROVE Custody(x, z)
    <2>1. CASE store'[x].tok # None /\ store'[x].tok.refresh = z
        <3>1. CASE x = s
            BY <1>1, <2>1, <3>1 DEF Custody
        <3>2. CASE x # s
            BY <1>1, <2>1, <3>2 DEF Custody
        <3> QED BY <3>1, <3>2
    <2>2. ASSUME NEW q \in Routers, Fetching(q)', call'[q].scope = x,
                 \/ call'[q].snap.refresh = z
                 \/ call'[q].at = "answered" /\ call'[q].new.refresh = z
          PROVE  Custody(x, z)
        BY <1>2, <2>2 DEF Custody
    <2> QED BY <1>8, <2>1, <2>2 DEF Custody, Fetching
<1>9. Apart'
    BY <1>8, ApartKept DEF McpInv, people, server, ghosts
<1>10. Rotated'
    <2>1. (grants \cap spent = {})'
        BY DEF McpInv, Rotated, server, ghosts
    <2>2. ASSUME NEW x \in Scopes, store'[x].tok # None, store'[x].tok.refresh \in spent' \ lost'
          PROVE  \E q \in Routers : call'[q].at = "answered" /\ call'[q].scope = x
        <3>1. x # s /\ store'[x] = store[x]
            BY <1>1, <2>2 DEF ghosts
        <3>2. PICK q \in Routers : call[q].at = "answered" /\ call[q].scope = x
            BY <2>2, <3>1 DEF McpInv, Rotated, ghosts
        <3> QED BY <3>1, <3>2
    <2>3. ASSUME NEW q \in Routers, Fetching(q)'
          PROVE  IF call'[q].at = "answered" THEN call'[q].new.refresh \notin spent'
                 ELSE call'[q].snap.refresh \notin spent' \ lost'
        BY <1>2, <2>3 DEF McpInv, Rotated, ghosts
    <2> QED BY <2>1, <2>2, <2>3 DEF Rotated, Fetching
<1>11. Newest'
    <2>2. (\A f, g \in Flows : Used(f) /\ g < f => Used(g))'
        BY DEF McpInv, Newest, Used, people
    <2>3. ASSUME NEW x \in Scopes, store'[x].flow # None
          PROVE  /\ Used(store[x].flow)'
                 /\ store'[x].tok # None => store'[x].tok.by <= store'[x].flow
                 /\ \A q \in Routers : Fetching(q)' /\ call'[q].scope = x =>
                       call'[q].snap.by <= store'[x].flow
        <3>1. store'[x].flow = store[x].flow
            BY <1>1
        <3>2. Used(store[x].flow)'
            BY <2>3, <3>1 DEF McpInv, Newest, Used, people
        <3>3. store'[x].tok # None => store'[x].tok.by <= store'[x].flow
            BY <1>1, <2>3, <3>1 DEF McpInv, Newest
        <3> QED BY <1>2, <2>3, <3>1, <3>2, <3>3 DEF McpInv, Newest
    <2>4. (\A x \in Scopes : store[x].tok # None => store[x].configured)'
        BY <1>1 DEF McpInv, Newest
    <2> QED BY <2>2, <2>3, <2>4 DEF Newest, Fetching
<1>12. GrantSpentOnce'
    BY DEF McpInv, GrantSpentOnce, ghosts
<1>13. FailedIsDead'
    BY <1>1 DEF McpInv, FailedIsDead, server
<1> QED BY <1>4, <1>5, <1>6, <1>7, <1>9, <1>10, <1>11, <1>12, <1>13 DEF McpInv

LEMMA InvWriteTokens ==
    ASSUME McpInv, TypeOK', NEW r \in Routers, WriteTokens(r) PROVE McpInv'
<1> DEFINE s == call[r].scope
           new == call[r].new
<1>0. /\ TypeOK /\ call[r].at = "answered" /\ Fetching(r) /\ Locked(r) /\ s \in Scopes
      /\ call[r].snap # None /\ new # None /\ new.by = call[r].snap.by /\ ~new.failed
    BY CallFields DEF McpInv, TypeOK, WriteTokens, Fetching, Locked, AtHand
<1>1. new \in Known /\ new \in TokenSet /\ new.access \in Nat /\ new.access <= last
    BY <1>0, KnownTokens, TokenFields DEF McpInv, Issued
<1>2. new.refresh \notin spent
    BY <1>0 DEF McpInv, Rotated
<1>3. CASE /\ store' = [store EXCEPT ![s].tok = new, ![s].configured = TRUE]
           /\ call' = [call EXCEPT ![r].at = Ready(call[r]), ![r].token = new.access]
           /\ Release(s) /\ UNCHANGED <<left, lost>>
    <2>1. store' = WithTok(store, s, new) /\ call' = AtToken(r, Ready(call[r]), new.access)
        BY <1>3 DEF WithTok, AtToken
    <2>2. Ready(call[r]) \in CallStates /\ Ready(call[r]) \in {"first", "second"}
        BY DEF Ready, CallStates
    <2>3. /\ call'[r].at = Ready(call[r]) /\ call'[r].token = new.access
          /\ call'[r].snap = call[r].snap /\ call'[r].new = call[r].new
          /\ \A q \in Routers : q # r => call'[q] = call[q]
        BY <1>0, <1>1, <2>1, <2>2, AtTokenWrites
    <2>4. call'[r].at \in Free
        BY <2>2, <2>3 DEF Free, CallStates
    <2>5. Locks'
        BY <1>0, <1>3, <2>3, <2>4, LocksKept DEF McpInv, WriteTokens, people
    <2>6. Same(new, new)
        BY DEF Same
    <2>7. UNCHANGED <<server, supplied, people, ghosts>>
        BY <1>3 DEF WriteTokens, ghosts
    <2> QED BY <1>0, <1>1, <1>2, <2>1, <2>2, <2>3, <2>5, <2>6, <2>7, StoreWritten
<1>4. CASE /\ lost' = lost \cup ({call[r].snap.refresh} \cap spent)
           /\ call' = [call EXCEPT ![r].at = "transient"]
           /\ UNCHANGED <<store, holder>>
    <2>1. "transient" \in CallStates
        BY DEF CallStates
    <2>2. /\ call'[r].at = "transient" /\ call'[r].scope = call[r].scope
          /\ call'[r].token = call[r].token
          /\ call'[r].snap = call[r].snap /\ call'[r].new = call[r].new
          /\ \A q \in Routers : q # r => call'[q] = call[q]
        BY <1>0, <1>4, <2>1, AtWrites
    <2>3. Locks'
        <3>1. \A q \in Routers : Locked(q)' => Locked(q) /\ call'[q].scope = call[q].scope
            BY <1>0, <2>2 DEF Locked, Fetching
        <3> QED BY <1>4, <3>1, LocksHeld DEF McpInv, WriteTokens, people
    <2>4. Loses(r)
        BY <1>4 DEF Loses
    <2>5. WorksOn(r)
        BY <1>0, <2>2, <2>4 DEF WorksOn, Keeps
    <2>6. call[r].token <= last'
        BY DEF McpInv, Issued, server, WriteTokens
    <2>7. CallQuiet(r)
        BY <2>2, <2>4, <2>5, <2>6 DEF CallQuiet
    <2>8. Quiet
        BY <1>4, <2>2, <2>7, CallStepQuiet DEF WriteTokens
    <2> QED BY <2>3, <2>8, QuietKeeps
<1> QED BY <1>3, <1>4 DEF WriteTokens

LEMMA InvMarkFailed ==
    ASSUME McpInv, TypeOK', NEW r \in Routers, MarkFailed(r) PROVE McpInv'
<1> DEFINE s == call[r].scope
           old == call[r].snap
           y == [old EXCEPT !.failed = TRUE]
<1>0. /\ TypeOK /\ call[r].at = "refused" /\ Fetching(r) /\ Locked(r) /\ s \in Scopes
      /\ old # None /\ old.refresh \notin grants /\ old.refresh \notin spent \ lost
      /\ call[r].token <= last
    BY CallFields DEF McpInv, TypeOK, MarkFailed, Fetching, Locked, AtHand, Rotated, Issued
<1>1. old \in Known /\ old \in TokenSet
    BY <1>0, KnownTokens
<1>2. /\ y \in TokenSet /\ y.access = old.access /\ y.refresh = old.refresh /\ y.by = old.by
    BY <1>1 DEF TokenSet
<1>3. Same(y, old)
    BY <1>2 DEF Same
<1>4. store' = WithTok(store, s, y)
    BY DEF WithTok, MarkFailed
<1> HIDE DEF y
<1>5. PICK a \in {"lockedhelp", "told"} :
         /\ call' = [call EXCEPT ![r].at = a]
         /\ IF a = "told" THEN Release(s) ELSE holder' = holder
    BY DEF MarkFailed
<1>6. a \in CallStates
    BY DEF CallStates
<1>7. /\ call'[r].at = a /\ call'[r].scope = s /\ call'[r].token = call[r].token
      /\ call'[r].snap = call[r].snap /\ call'[r].new = call[r].new
      /\ \A q \in Routers : q # r => call'[q] = call[q]
    BY <1>0, <1>5, <1>6, AtWrites
<1>8. UNCHANGED <<server, supplied, people, ghosts>>
    BY DEF MarkFailed
<1>9. Locks'
    <2>1. CASE a = "lockedhelp"
        <3>1. \A q \in Routers : Locked(q)' => Locked(q) /\ call'[q].scope = call[q].scope
            BY <1>0, <1>7 DEF Locked, Fetching
        <3> QED BY <1>5, <1>8, <2>1, <3>1, LocksHeld DEF McpInv, people
    <2>2. CASE a = "told"
        <3>1. call'[r].at \in Free
            BY <1>7, <2>2 DEF Free, CallStates
        <3> QED BY <1>0, <1>5, <1>7, <1>8, <2>2, <3>1, LocksKept DEF McpInv, people
    <2> QED BY <2>1, <2>2
<1>10. y.refresh \notin grants /\ y.refresh \notin spent \ lost /\ y.by = call[r].snap.by
       /\ y.refresh = call[r].snap.refresh
    BY <1>0, <1>2
<1>11. call'[r].at \in {"first", "second", "told", "lockedhelp"} /\ call'[r].token <= last
    BY <1>0, <1>5, <1>7
<1> HIDE DEF old, s
<1> QED BY <1>0, <1>1, <1>2, <1>3, <1>4, <1>7, <1>8, <1>9, <1>10, <1>11, StoreWritten DEF s

------------------------------------------------------------------------------
(* The exchange of a code *)

\* What login_finish gets from the authorization server is only its own.

\* A sign-in gives the lock of a scope back.
LEMMA LocksReturned ==
    ASSUME McpInv, NEW r \in Routers, NEW s \in Scopes, holder[s] = Held(r, "menu"),
           Release(s), call' = call,
           menu'[r].at \notin {"second", "starting"},
           \A q \in Routers : q # r => menu'[q] = menu[q]
    PROVE  Locks'
<1>1. \A x \in Scopes : x # s => holder'[x] = holder[x]
    BY DEF McpInv, TypeOK, Release
<1>2. \A q \in Routers : call[q].scope \in Scopes /\ menu[q].to \in Scopes
    BY CallFields, MenuFields DEF McpInv, TypeOK
<1>3. \A q \in Routers : Held(q, "call") # Held(r, "menu") /\ (q # r => Held(q, "menu") # Held(r, "menu"))
    BY DEF Held
<1>4. ASSUME NEW q \in Routers, Locked(q)' PROVE holder'[call'[q].scope] = Held(q, "call")
    <2>1. holder[call[q].scope] = Held(q, "call")
        BY <1>4 DEF McpInv, Locks, Locked, Fetching
    <2>2. call[q].scope # s
        BY <1>3, <2>1
    <2> QED BY <1>1, <1>2, <2>1, <2>2
<1>5. ASSUME NEW q \in Routers
      PROVE  /\ menu'[q].at = "second" => holder'["system"] = Held(q, "menu")
             /\ menu'[q].at = "starting" => holder'[menu'[q].to] = Held(q, "menu")
    <2>1. CASE q = r
        BY <2>1
    <2>2. CASE q # r
        <3>1. "system" \in Scopes /\ menu'[q] = menu[q]
            BY <2>2 DEF Scopes
        <3>2. \A x \in Scopes : holder[x] = Held(q, "menu") => x # s
            BY <1>3, <2>2
        <3> QED BY <1>1, <1>2, <3>1, <3>2 DEF McpInv, Locks
    <2> QED BY <2>1, <2>2
<1> QED BY <1>4, <1>5 DEF Locks, Held

\* A code that is exchanged brings a new token, which only its task has.
LEMMA ExchangeGranted ==
    ASSUME McpInv, TypeOK', NEW t \in Tasks, NEW n \in TokenSet, Used(t[1]),
           n.access = last + 1, n.refresh \in {0, last + 2}, ~n.failed, n.by = t[1],
           task'[t].at = "install", task'[t].got = n,
           \A u \in Tasks : u # t => task'[u] = task[u],
           \A f \in Flows : flows'[f].who = flows[f].who,
           Granted,
           UNCHANGED <<store, holder, call, supplied, menu, ghosts>>
    PROVE  McpInv'
<1>0. TypeOK /\ last \in Nat /\ t[1] \in Flows
    BY TaskIds DEF McpInv, TypeOK
<1>1. OneNew(n)
    <2>1. n.refresh <= last + 2
        BY <1>0
    <2>2. n.by # 0 => Used(n.by)'
        BY <1>0 DEF Used
    <2>3. ASSUME NEW b \in Known' PROVE b \in Known \/ b = n
        <3>1. b # None
            BY <2>3 DEF Known
        <3>2. \/ \E x \in Scopes : b = store'[x].tok
              \/ \E q \in Routers : b = call'[q].snap \/ b = call'[q].new
              \/ \E u \in Tasks : b = task'[u].got
            BY <2>3 DEF Known
        <3> QED BY <1>0, <3>1, <3>2, KnownTokens
    <2> QED BY <2>1, <2>2, <2>3 DEF OneNew
<1>2. Named'
    BY <1>1, NamedGranted DEF McpInv
<1>3. Issued'
    <2>1. \A f \in Flows : Used(f) => Used(f)'
        BY DEF Used
    <2>2. spent' \subseteq spent \cup grants
        BY DEF ghosts
    <2> QED BY <1>1, <2>1, <2>2, IssuedGranted DEF McpInv
<1>4. Locks'
    BY LocksQuiet DEF McpInv
<1>5. AtHand'
    <2>1. ASSUME NEW q \in Routers
          PROVE  /\ call'[q].at = "wait" \/ Fetching(q)' =>
                       call'[q].snap # None /\ ~call'[q].snap.failed
                 /\ call'[q].at = "answered" =>
                       /\ call'[q].new # None /\ ~call'[q].new.failed
                       /\ call'[q].new.by = call'[q].snap.by
                 /\ call'[q].at = "refused" => call'[q].snap.refresh \notin grants'
                 /\ call'[q].at = "marking" => call'[q].token \notin good'
        BY AtHandGranted DEF McpInv
    <2>2. n # None
        BY NoneAssumption
    <2>3. ASSUME NEW u \in Tasks
          PROVE  /\ task'[u].at = "install" => task'[u].got # None
                 /\ task'[u].got # None => task'[u].got.by = u[1] /\ ~task'[u].got.failed
        <3>1. CASE u = t
            BY <2>2, <3>1
        <3>2. CASE u # t
            BY <3>2 DEF McpInv, AtHand
        <3> QED BY <3>1, <3>2
    <2> QED BY <2>1, <2>3 DEF McpInv, AtHand, Fetching
<1>6. Fenced'
    BY DEF McpInv, Fenced, Fetching, Same
<1>7. ASSUME NEW x \in Scopes, NEW y, Custody(x, y)' PROVE Custody(x, y)
    BY <1>7 DEF Custody, Fetching
<1>8. \A x \in Scopes : \A y : Custody(x, y) => y \in Nat /\ y <= last
    BY CustodyIssued DEF McpInv
<1>9. spent' = spent /\ spent \subseteq 1 .. last /\ last' = last + 2
    BY DEF McpInv, Issued, ghosts, Granted
<1>10. \A u \in Tasks : task[u].got # None => task[u].got.refresh \in Nat /\ task[u].got.refresh <= last
    BY <1>0, KnownTokens, TokenFields DEF McpInv, Issued
<1>11. Apart'
    <2>1. "system" \in Scopes /\ "project" \in Scopes
        BY DEF Scopes
    <2>2. ASSUME NEW y \in 1 .. last' PROVE ~(Custody("system", y)' /\ Custody("project", y)')
        <3>1. SUFFICES ASSUME Custody("system", y)', Custody("project", y)' PROVE FALSE
            OBVIOUS
        <3>2. Custody("system", y) /\ Custody("project", y)
            BY <1>7, <2>1, <3>1
        <3>3. y \in 1 .. last
            BY <1>0, <1>8, <2>1, <3>2
        <3> QED BY <3>2, <3>3 DEF McpInv, Apart
    <2>3. ASSUME NEW u \in Tasks, NEW y \in 1 .. last', task'[u].got # None, task'[u].got.refresh = y
          PROVE  Reserved(u, y)'
        <3>1. CASE u = t
            <4>1. y = last + 2
                BY <2>3, <3>1
            <4>2. y \notin spent'
                BY <1>0, <1>9, <4>1
            <4>3. \A x \in Scopes : ~Custody(x, y)'
                BY <1>0, <1>7, <1>8, <4>1
            <4>4. \A v \in Tasks : v # u /\ task'[v].got # None => task'[v].got.refresh # y
                BY <1>0, <1>10, <3>1, <4>1
            <4> QED BY <4>2, <4>3, <4>4 DEF Reserved
        <3>2. CASE u # t
            <4>1. task[u].got # None /\ task[u].got.refresh = y /\ y \in 1 .. last
                BY <1>0, <1>10, <2>3, <3>2
            <4>2. Reserved(u, y)
                BY <4>1 DEF McpInv, Apart
            <4>3. y \notin spent'
                BY <1>9, <4>2 DEF Reserved
            <4>4. \A x \in Scopes : ~Custody(x, y)'
                BY <1>7, <4>2 DEF Reserved
            <4>5. y # n.refresh
                BY <1>0, <4>1
            <4>6. \A v \in Tasks : v # u /\ task'[v].got # None => task'[v].got.refresh # y
                BY <4>2, <4>5 DEF Reserved
            <4> QED BY <4>3, <4>4, <4>6 DEF Reserved
        <3> QED BY <3>1, <3>2
    <2> QED BY <2>2, <2>3 DEF Apart
<1>12. Rotated'
    <2>1. (grants \cap spent = {})'
        <3>1. last + 2 \notin spent
            BY <1>0, <1>9
        <3> QED BY <1>9, <3>1 DEF McpInv, Rotated, Granted
    <2> QED BY <2>1 DEF McpInv, Rotated, Fetching, ghosts
<1>13. Newest'
    <2>1. (\A f, g \in Flows : Used(f) /\ g < f => Used(g))'
        BY DEF McpInv, Newest, Used
    <2>2. ASSUME NEW x \in Scopes, store'[x].flow # None
          PROVE  /\ Used(store[x].flow)'
                 /\ store'[x].tok # None => store'[x].tok.by <= store'[x].flow
                 /\ \A q \in Routers : Fetching(q)' /\ call'[q].scope = x =>
                       call'[q].snap.by <= store'[x].flow
        <3>1. store[x].flow \in Flows
            BY <1>0, <2>2, StoreFields
        <3>2. Used(store[x].flow)'
            BY <2>2, <3>1 DEF McpInv, Newest, Used
        <3> QED BY <2>2, <3>2 DEF McpInv, Newest, Fetching
    <2>3. (\A x \in Scopes : store[x].tok # None => store[x].configured)'
        BY DEF McpInv, Newest
    <2> QED BY <2>1, <2>2, <2>3 DEF Newest, Fetching
<1>14. GrantSpentOnce'
    BY DEF McpInv, GrantSpentOnce, ghosts
<1>15. FailedIsDead'
    BY FailedGranted DEF McpInv
<1> QED BY <1>2, <1>3, <1>4, <1>5, <1>6, <1>11, <1>12, <1>13, <1>14, <1>15 DEF McpInv

LEMMA InvExchange ==
    ASSUME McpInv, TypeOK', NEW t \in Tasks, Used(t[1]), Exchange(t) PROVE McpInv'
<1> DEFINE f == t[1]
           fresh(renewable) ==
              [access |-> last + 1, refresh |-> IF renewable THEN last + 2 ELSE 0,
               failed |-> FALSE, life |-> "long", by |-> f]
<1>0. TypeOK /\ f \in Flows /\ last + 1 \in Nat /\ last + 2 \in Nat
    BY TaskIds DEF McpInv, TypeOK
<1>1. \A b \in BOOLEAN : fresh(b) \in TokenSet
    BY <1>0 DEF TokenSet, Flows, Lifetimes
<1>2. ASSUME NEW b \in BOOLEAN,
             task' = [task EXCEPT ![t].at = "install", ![t].got = fresh(b)],
             grants' = IF b THEN grants \cup {last + 2} ELSE grants,
             good' = good \cup {last + 1}, last' = last + 2,
             flows' = [flows EXCEPT ![f].used = TRUE]
      PROVE  McpInv'
    <2>1. PICK n : n = fresh(b)
        OBVIOUS
    <2>2. /\ n \in TokenSet /\ n.access = last + 1 /\ n.refresh \in {0, last + 2} /\ ~n.failed
          /\ n.by = t[1]
        BY <1>1, <2>1
    <2>3. task'[t].at = "install" /\ task'[t].got = n
          /\ \A u \in Tasks : u # t => task'[u] = task[u]
        <3> DEFINE y == [task[t] EXCEPT !.at = "install", !.got = n]
        <3>1. y.at = "install" /\ y.got = n
            BY <1>0 DEF TypeOK, TaskSet
        <3>2. task' = [task EXCEPT ![t] = y]
            BY <1>2, <2>1
        <3> HIDE DEF y
        <3> QED BY <1>0, <3>1, <3>2 DEF TypeOK
    <2>4. \A g \in Flows : flows'[g].who = flows[g].who
        <3>1. [flows[f] EXCEPT !.used = TRUE].who = flows[f].who
            BY <1>0, FlowFields DEF TypeOK
        <3> QED BY <1>0, <1>2, <3>1 DEF TypeOK
    <2>5. Granted
        BY <1>2 DEF Granted
    <2>6. UNCHANGED <<store, holder, call, supplied, menu, ghosts>>
        BY DEF Exchange
    <2> HIDE DEF fresh, f
    <2> QED BY <2>2, <2>3, <2>4, <2>5, <2>6, ExchangeGranted
<1>3. CASE task' = WithTask(task, t, "done") /\ UNCHANGED <<server, flows>>
    <2>1. \A u \in Tasks : TaskQuiet(u)
        BY <1>0, <1>3, MovedQuiet DEF TaskStates
    <2>2. \A s \in Scopes : StoreQuiet(s)
        BY SameStoreQuiet DEF Exchange
    <2>3. Locks' /\ Quiet
        BY <1>3, <2>1, <2>2, TaskStepQuiet DEF Exchange
    <2> QED BY <2>3, QuietKeeps
<1> QED BY <1>2, <1>3 DEF Exchange, WithTask

------------------------------------------------------------------------------
(* The installation of tokens *)

\* The task installs what it has only where its flow is still the pending one.

LEMMA InvInstallTokens ==
    ASSUME McpInv, TypeOK', NEW t \in Tasks, InstallTokens(t) PROVE McpInv'
<1> DEFINE f == t[1]
           s == flows[f].scope
           done == [NoTask EXCEPT !.at = "done"]
<1>0. /\ TypeOK /\ f \in Flows /\ s \in Scopes /\ last \in Nat
      /\ task[t].at = "install" /\ holder[s] = None /\ done.got = None /\ done.at = "done"
      /\ task' = [task EXCEPT ![t] = done]
      /\ UNCHANGED <<holder, server, call, supplied, menu, flows, ghosts>>
    BY TaskIds, FlowFields DEF McpInv, TypeOK, InstallTokens, NoTask
<1>1. PICK n : n = task[t].got
    OBVIOUS
<1>2. /\ n # None /\ n.by = f /\ ~n.failed
    BY <1>0, <1>1 DEF McpInv, AtHand
<1>3. n \in Known /\ n \in TokenSet /\ n.refresh \in Nat /\ n.refresh <= last /\ n.by \in Nat
    BY <1>0, <1>1, <1>2, KnownTokens, TokenFields DEF McpInv, Issued
<1>4. /\ task'[t].got = None /\ task'[t].at = "done"
      /\ \A u \in Tasks : u # t => task'[u] = task[u]
    BY <1>0 DEF TypeOK
<1>5. \A u \in Tasks : TaskQuiet(u)
    BY <1>4 DEF TaskQuiet
<1>6. CASE ~StillPending(f)
    <2>1. \A x \in Scopes : StoreQuiet(x)
        BY <1>6, SameStoreQuiet DEF InstallTokens
    <2>2. Locks' /\ Quiet
        BY <1>0, <1>5, <2>1, TaskStepQuiet
    <2> QED BY <2>2, QuietKeeps
<1>7. CASE StillPending(f)
    <2>1. /\ store'[s].tok = n /\ store'[s].configured /\ store'[s].flow = None
          /\ \A x \in Scopes : x # s => store'[x] = store[x]
        BY <1>0, <1>1, <1>7 DEF InstallTokens, TypeOK
    <2>2. \A q \in Routers : Fetching(q) => call[q].scope # s
        BY <1>0, HeldNotNone DEF McpInv, Locks, Locked
    <2>3. store[s].flow = f
        BY <1>7 DEF StillPending
    <2>4. Known' \subseteq Known
        <3>1. ASSUME NEW a \in Known' PROVE a \in Known
            <4>1. a # None
                BY <3>1 DEF Known
            <4>2. \/ \E x \in Scopes : a = store'[x].tok
                  \/ \E q \in Routers : a = call'[q].snap \/ a = call'[q].new
                  \/ \E u \in Tasks : a = task'[u].got
                BY <3>1 DEF Known
            <4> QED BY <1>0, <1>3, <1>4, <2>1, <4>1, <4>2, KnownTokens
        <3> QED BY <3>1
    <2>5. \A a \in Known' : \E b \in Known : Same(a, b)
        BY <2>4 DEF Same
    <2>6. Named'
        BY <1>0, <2>5, NamedKept DEF McpInv
    <2>7. Issued'
        <3>1. \A q \in Routers : call'[q].token <= last
            BY <1>0 DEF McpInv, Issued
        <3>2. \A g \in Flows : Used(g) => Used(g)'
            BY <1>0 DEF Used
        <3> QED BY <1>0, <2>5, <3>1, <3>2, IssuedKept DEF McpInv, ghosts
    <2>8. Locks'
        BY <1>0, LocksQuiet DEF McpInv
    <2>9. AtHand'
        BY <1>0, <1>4 DEF McpInv, AtHand, Fetching, server
    <2>10. Fenced'
        <3>1. ASSUME NEW q \in Routers, Fetching(q), store'[call[q].scope].tok # None
              PROVE  Same(store'[call[q].scope].tok, call[q].snap)
            <4>1. call[q].scope # s /\ call[q].scope \in Scopes
                BY <1>0, <2>2, <3>1, CallFields DEF TypeOK
            <4> QED BY <2>1, <3>1, <4>1 DEF McpInv, Fenced
        <3> QED BY <1>0, <3>1 DEF Fenced, Fetching, Same
    <2>11. ASSUME NEW x \in Scopes, NEW y, Custody(x, y)', ~(x = s /\ y = n.refresh)
           PROVE  Custody(x, y)
        BY <1>0, <2>1, <2>11 DEF Custody, Fetching
    <2>12. n.refresh # 0 => Reserved(t, n.refresh)
        BY <1>0, <1>1, <1>2, <1>3 DEF McpInv, Apart
    <2>13. Apart'
        <3>0. "system" \in Scopes /\ "project" \in Scopes
            BY DEF Scopes
        <3>1. ASSUME NEW y \in 1 .. last' PROVE ~(Custody("system", y)' /\ Custody("project", y)')
            <4>1. y \in 1 .. last
                BY <1>0 DEF server
            <4>2. CASE y # n.refresh
                BY <2>11, <3>0, <4>1, <4>2 DEF McpInv, Apart
            <4>3. CASE y = n.refresh
                <5>1. \A x \in Scopes : ~Custody(x, y)
                    BY <1>3, <2>12, <4>1, <4>3 DEF Reserved
                <5>2. \A x \in Scopes : Custody(x, y)' => x = s
                    BY <2>11, <5>1
                <5>3. "system" # "project"
                    OBVIOUS
                <5> QED BY <3>0, <5>2, <5>3
            <4> QED BY <4>2, <4>3
        <3>2. ASSUME NEW u \in Tasks, NEW y \in 1 .. last', task'[u].got # None,
                     task'[u].got.refresh = y
              PROVE  Reserved(u, y)'
            <4>1. u # t /\ task[u].got # None /\ task[u].got.refresh = y /\ y \in 1 .. last
                BY <1>0, <1>4, <3>2 DEF server
            <4>2. Reserved(u, y)
                BY <4>1 DEF McpInv, Apart
            <4>3. y # n.refresh
                BY <1>1, <1>2, <4>1, <4>2 DEF Reserved
            <4>4. \A x \in Scopes : ~Custody(x, y)'
                BY <2>11, <4>2, <4>3 DEF Reserved
            <4>5. \A v \in Tasks : v # u /\ task'[v].got # None => task'[v].got.refresh # y
                BY <1>4, <4>2 DEF Reserved
            <4>6. y \notin spent'
                BY <1>0, <4>2 DEF Reserved, ghosts
            <4> QED BY <4>4, <4>5, <4>6 DEF Reserved
        <3> QED BY <3>1, <3>2 DEF Apart
    <2>14. Rotated'
        <3>1. n.refresh \notin spent
            <4>1. 0 \notin spent
                BY DEF McpInv, Issued
            <4> QED BY <2>12, <4>1 DEF Reserved
        <3>2. ASSUME NEW x \in Scopes, store'[x].tok # None,
                     store'[x].tok.refresh \in spent' \ lost'
              PROVE  \E q \in Routers : call'[q].at = "answered" /\ call'[q].scope = x
            BY <1>0, <2>1, <3>1, <3>2 DEF McpInv, Rotated, ghosts
        <3> QED BY <1>0, <3>2 DEF McpInv, Rotated, Fetching, server, ghosts
    <2>15. Newest'
        <3>1. (\A g, h \in Flows : Used(g) /\ h < g => Used(h))'
            BY <1>0 DEF McpInv, Newest, Used
        <3>2. ASSUME NEW x \in Scopes, store'[x].flow # None
              PROVE  /\ Used(store[x].flow)'
                     /\ store'[x].tok # None => store'[x].tok.by <= store'[x].flow
                     /\ \A q \in Routers : Fetching(q)' /\ call'[q].scope = x =>
                           call'[q].snap.by <= store'[x].flow
            <4>1. x # s /\ store'[x] = store[x]
                BY <2>1, <3>2
            <4> QED BY <1>0, <3>2, <4>1 DEF McpInv, Newest, Used, Fetching
        <3>3. (\A x \in Scopes : store[x].tok # None => store[x].configured)'
            BY <2>1 DEF McpInv, Newest
        <3> QED BY <3>1, <3>2, <3>3 DEF Newest, Fetching
    <2>16. GrantSpentOnce'
        BY <1>0 DEF McpInv, GrantSpentOnce, ghosts
    <2>17. FailedIsDead'
        BY <1>0, <1>2, <2>1 DEF McpInv, FailedIsDead, server
    <2> QED BY <2>6, <2>7, <2>8, <2>9, <2>10, <2>13, <2>14, <2>15, <2>16, <2>17 DEF McpInv
<1> QED BY <1>6, <1>7

------------------------------------------------------------------------------
(* The change of scope *)

\* set_account_scope moves a login to a scope that has none.

\* The tokens of one scope become those of the other.
LEMMA StoreMoved ==
    ASSUME McpInv, TypeOK', Locks', NEW to \in Scopes, store[to].tok = None,
           store' = [store EXCEPT ![to] = [store[Other(to)] EXCEPT !.flow = None],
                                  ![Other(to)] = NoStore],
           \A q \in Routers : ~Fetching(q),
           \A q \in Routers : menu'[q].at = "begun" => menu'[q].flow # None,
           UNCHANGED <<server, call, supplied, flows, task, ghosts>>
    PROVE  McpInv'
<1> DEFINE from == Other(to)
<1>0. TypeOK /\ from \in Scopes /\ from # to /\ Scopes = {to, from}
    BY DEF McpInv, Scopes, Other
<1>1. /\ store'[to].tok = store[from].tok /\ store'[to].configured = store[from].configured
      /\ store'[to].flow = None /\ store'[from].tok = None /\ store'[from].flow = None
    <2> DEFINE y == [store[from] EXCEPT !.flow = None]
    <2>1. y.tok = store[from].tok /\ y.configured = store[from].configured /\ y.flow = None
        BY <1>0, StoreFields DEF StoreSet
    <2>2. NoStore.tok = None /\ NoStore.flow = None
        BY DEF NoStore
    <2>3. store' = [store EXCEPT ![to] = y, ![from] = NoStore]
        OBVIOUS
    <2> HIDE DEF y, from
    <2> QED BY <1>0, <2>1, <2>2, <2>3 DEF TypeOK
<1> HIDE DEF from
<1>2. \A x \in Scopes : store'[x].tok # None => x = to /\ store'[x].tok = store[from].tok
    BY <1>0, <1>1
<1>3. \A x \in Scopes : store'[x].flow = None
    BY <1>0, <1>1
<1>4. Known' \subseteq Known
    <2>1. ASSUME NEW a \in Known' PROVE a \in Known
        <3>1. a # None
            BY <2>1 DEF Known
        <3>2. \/ \E x \in Scopes : a = store'[x].tok
              \/ \E q \in Routers : a = call'[q].snap \/ a = call'[q].new
              \/ \E u \in Tasks : a = task'[u].got
            BY <2>1 DEF Known
        <3> QED BY <1>0, <1>2, <3>1, <3>2, KnownTokens
    <2> QED BY <2>1
<1>5. \A a \in Known' : \E b \in Known : Same(a, b)
    BY <1>4 DEF Same
<1>6. Named'
    BY <1>0, <1>5, NamedKept DEF McpInv
<1>7. Issued'
    <2>1. \A q \in Routers : call'[q].token <= last
        BY DEF McpInv, Issued
    <2>2. \A g \in Flows : Used(g) => Used(g)'
        BY DEF Used
    <2> QED BY <1>5, <2>1, <2>2, IssuedKept DEF McpInv, ghosts
<1>8. AtHand'
    BY DEF McpInv, AtHand, Fetching, server
<1>9. Fenced'
    BY DEF Fenced, Fetching
<1>10. ASSUME NEW x \in Scopes, NEW y, Custody(x, y)' PROVE x = to /\ Custody(from, y)
    BY <1>2, <1>10 DEF Custody, Fetching
<1>11. Apart'
    <2>1. ASSUME NEW y \in 1 .. last' PROVE ~(Custody("system", y)' /\ Custody("project", y)')
        <3>1. "system" \in Scopes /\ "project" \in Scopes /\ "system" # "project"
            BY DEF Scopes
        <3> QED BY <1>10, <3>1
    <2>2. ASSUME NEW u \in Tasks, NEW y \in 1 .. last', task'[u].got # None,
                 task'[u].got.refresh = y
          PROVE  Reserved(u, y)'
        <3>1. Reserved(u, y)
            BY <2>2 DEF McpInv, Apart, server
        <3>2. \A x \in Scopes : ~Custody(x, y)'
            BY <1>0, <1>10, <3>1 DEF Reserved
        <3> QED BY <3>1, <3>2 DEF Reserved, ghosts
    <2> QED BY <2>1, <2>2 DEF Apart
<1>12. Rotated'
    <2>1. ASSUME NEW x \in Scopes, store'[x].tok # None, store'[x].tok.refresh \in spent' \ lost'
          PROVE  FALSE
        <3>1. store[from].tok # None /\ store[from].tok.refresh \in spent \ lost
            BY <1>2, <2>1 DEF ghosts
        <3>2. PICK q \in Routers : call[q].at = "answered"
            BY <1>0, <3>1 DEF McpInv, Rotated
        <3> QED BY <3>2 DEF Fetching
    <2> QED BY <2>1 DEF McpInv, Rotated, Fetching, server, ghosts
<1>13. Newest'
    <2>1. (\A g, h \in Flows : Used(g) /\ h < g => Used(h))'
        BY DEF McpInv, Newest, Used
    <2>2. (\A x \in Scopes : store[x].tok # None => store[x].configured)'
        BY <1>0, <1>1, <1>2 DEF McpInv, Newest
    <2> QED BY <1>3, <2>1, <2>2 DEF Newest
<1>14. GrantSpentOnce'
    BY DEF McpInv, GrantSpentOnce, ghosts
<1>15. FailedIsDead'
    BY <1>0, <1>2 DEF McpInv, FailedIsDead, server
<1> QED BY <1>6, <1>7, <1>8, <1>9, <1>11, <1>12, <1>13, <1>14, <1>15 DEF McpInv

\* While a sign-in changes the scope, no call works under a lock.
LEMMA NobodyFetches ==
    ASSUME McpInv, NEW r \in Routers, menu[r].at = "second", holder["project"] = None
    PROVE  \A q \in Routers : ~Fetching(q)
<1>1. ASSUME NEW q \in Routers, Fetching(q) PROVE FALSE
    <2>1. call[q].scope \in {"system", "project"}
        BY CallFields DEF McpInv, TypeOK, Scopes
    <2>2. holder[call[q].scope] = Held(q, "call")
        BY <1>1 DEF McpInv, Locks, Locked
    <2>3. holder["system"] = Held(r, "menu")
        BY DEF McpInv, Locks
    <2> QED BY <2>1, <2>2, <2>3, HeldNotNone DEF Held
<1> QED BY <1>1

LEMMA InvSetAccountScope ==
    ASSUME McpInv, TypeOK', NEW r \in Routers, SetAccountScope(r) PROVE McpInv'
<1> DEFINE to == menu[r].to
           refused == \/ \E s \in Scopes : LiveFlow(s)
                      \/ menu[r].move /\ store[to].configured
           moved == menu[r].move /\ store[Other(to)].configured
<1>0. /\ TypeOK /\ to \in Scopes /\ menu[r].at = "second" /\ holder["project"] = None
      /\ UNCHANGED <<server, call, supplied, flows, task, ghosts>> /\ Release("system")
    BY MenuFields DEF McpInv, TypeOK, SetAccountScope
<1>1. /\ menu'[r].at \in {"no", "start"}
      /\ \A q \in Routers : q # r => menu'[q] = menu[q]
    <2>1. menu' = [menu EXCEPT ![r] = NoMenu] \/ menu' = [menu EXCEPT ![r].at = "start"]
        BY DEF SetAccountScope
    <2>2. NoMenu.at = "no"
        BY DEF NoMenu
    <2> QED BY <1>0, <2>1, <2>2, MenuAtWrites DEF TypeOK
<1>2. Locks'
    <2>1. holder["system"] = Held(r, "menu") /\ "system" \in Scopes
        BY <1>0 DEF McpInv, Locks, Scopes
    <2> QED BY <1>0, <1>1, <2>1, LocksReturned
<1>3. \A q \in Routers : menu'[q].at = "begun" => menu'[q].flow # None
    BY <1>1, SameMenu
<1>4. CASE store' = store
    <2>1. \A s \in Scopes : StoreQuiet(s)
        BY <1>4, SameStoreQuiet
    <2>2. \A t \in Tasks : TaskQuiet(t)
        BY <1>0, SameTaskQuiet
    <2>3. Quiet
        BY <1>0, <1>3, <2>1, <2>2, PeopleStepQuiet
    <2> QED BY <1>2, <2>3, QuietKeeps
<1>5. CASE ~refused /\ moved
    <2>1. store' = [store EXCEPT ![to] = [store[Other(to)] EXCEPT !.flow = None],
                                 ![Other(to)] = NoStore]
        BY <1>5 DEF SetAccountScope
    <2>2. store[to].tok = None
        BY <1>0, <1>5 DEF McpInv, Newest
    <2>3. \A q \in Routers : ~Fetching(q)
        BY <1>0, NobodyFetches
    <2> HIDE DEF to
    <2> QED BY <1>0, <1>2, <1>3, <2>1, <2>2, <2>3, StoreMoved
<1> QED BY <1>4, <1>5 DEF SetAccountScope

------------------------------------------------------------------------------
(* The start of a flow *)

\* start_flow names a flow that is newer than every token.

\* A flow that begins is newer than every token.
LEMMA NewerThanAll ==
    ASSUME McpInv, NEW f \in Flows, ~Used(f), NEW a \in Known
    PROVE  a.by <= f
<1>1. a.by \in 0 .. MaxFlows /\ (a.by # 0 => Used(a.by)) /\ f \in Nat
    BY KnownTokens, TokenFields DEF McpInv, Issued, Flows
<1>2. a.by # 0 => a.by \in Flows
    BY <1>1, McpAssumption DEF Flows
<1>3. a.by # 0 => ~(f < a.by) /\ a.by # f
    BY <1>1, <1>2 DEF McpInv, Newest
<1> QED BY <1>1, <1>3, McpAssumption

\* The store waits for a flow that has just begun.
LEMMA FlowBegun ==
    ASSUME McpInv, TypeOK', Locks', NEW s \in Scopes, NEW f \in Flows, ~Used(f),
           \A g \in Flows : ~Used(g) => f <= g,
           Used(f)', \A g \in Flows : g # f => flows'[g].who = flows[g].who,
           store' = WithFlow(store, s, f),
           \A q \in Routers : menu'[q].at = "begun" => menu'[q].flow # None,
           UNCHANGED <<server, call, supplied, task, ghosts>>
    PROVE  McpInv'
<1>0. TypeOK
    BY DEF McpInv
<1>1. /\ store'[s].flow = f /\ \A x \in Scopes : x # s => store'[x].flow = store[x].flow
      /\ \A x \in Scopes : store'[x].tok = store[x].tok /\ store'[x].configured = store[x].configured
    <2>1. f \in Flows \cup {None} /\ store \in [Scopes -> StoreSet]
        BY <1>0 DEF TypeOK
    <2> QED BY <2>1, WithFlowWrites
<1>2. \A g \in Flows : Used(g)' <=> Used(g) \/ g = f
    BY DEF Used
<1>3. Known' = Known
    BY <1>1 DEF Known
<1>4. \A a \in Known' : \E b \in Known : Same(a, b)
    BY <1>3 DEF Same
<1>5. Named'
    BY <1>0, <1>4, NamedKept DEF McpInv
<1>6. Issued'
    <2>1. \A q \in Routers : call'[q].token <= last
        BY DEF McpInv, Issued
    <2> QED BY <1>0, <1>2, <1>4, <2>1, IssuedKept DEF ghosts, McpInv
<1>7. AtHand'
    BY DEF McpInv, AtHand, Fetching, server
<1>8. Fenced'
    <2>1. \A q \in Routers : call[q].scope \in Scopes
        BY <1>0, CallFields DEF TypeOK
    <2> QED BY <1>1, <2>1 DEF McpInv, Fenced, Fetching, Same
<1>9. ASSUME NEW x \in Scopes, NEW y, Custody(x, y)' PROVE Custody(x, y)
    BY <1>1, <1>9 DEF Custody, Fetching
<1>10. Apart'
    BY <1>9, ApartKept DEF McpInv, server, ghosts
<1>11. Rotated'
    BY <1>1 DEF McpInv, Rotated, Fetching, server, ghosts
<1>12. Newest'
    <2>1. ASSUME NEW g \in Flows, NEW h \in Flows, Used(g)', h < g PROVE Used(h)'
        <3>1. CASE g = f
            <4>1. ~(f <= h)
                BY <2>1, <3>1 DEF Flows
            <4> QED BY <1>2, <4>1
        <3>2. CASE Used(g)
            BY <1>2, <2>1, <3>2 DEF McpInv, Newest
        <3> QED BY <1>2, <2>1, <3>1, <3>2
    <2>2. (\A x \in Scopes : store[x].tok # None => store[x].configured)'
        BY <1>1 DEF McpInv, Newest
    <2>3. ASSUME NEW x \in Scopes, store'[x].flow # None
          PROVE  /\ Used(store[x].flow)'
                 /\ store'[x].tok # None => store'[x].tok.by <= store'[x].flow
                 /\ \A q \in Routers : Fetching(q)' /\ call'[q].scope = x =>
                       call'[q].snap.by <= store'[x].flow
        <3>1. CASE x = s
            <4>1. store[s].tok # None => store[s].tok.by <= f
                BY <1>0, KnownTokens, NewerThanAll
            <4>2. \A q \in Routers : Fetching(q) => call[q].snap.by <= f
                BY <1>0, KnownTokens, NewerThanAll DEF McpInv, AtHand
            <4>3. Used(store[x].flow)'
                BY <1>1, <3>1 DEF Used
            <4> QED BY <1>1, <3>1, <4>1, <4>2, <4>3 DEF Fetching
        <3>2. CASE x # s
            <4>1. store'[x].flow = store[x].flow /\ store[x].flow \in Flows
                BY <1>0, <1>1, <2>3, <3>2, StoreFields
            <4>2. Used(store[x].flow)
                BY <2>3, <4>1 DEF McpInv, Newest
            <4>3. Used(store[x].flow)'
                BY <1>2, <4>1, <4>2 DEF Used
            <4> QED BY <1>1, <2>3, <4>1, <4>3 DEF McpInv, Newest, Fetching
        <3> QED BY <3>1, <3>2
    <2> QED BY <2>1, <2>2, <2>3 DEF Newest, Fetching
<1>13. GrantSpentOnce'
    BY DEF McpInv, GrantSpentOnce, ghosts
<1>14. FailedIsDead'
    BY <1>1 DEF McpInv, FailedIsDead, server
<1> QED BY <1>5, <1>6, <1>7, <1>8, <1>10, <1>11, <1>12, <1>13, <1>14 DEF McpInv

LEMMA InvStartFlow ==
    ASSUME McpInv, TypeOK', NEW r \in Routers, StartFlow(r) PROVE McpInv'
<1> DEFINE s == menu[r].to
<1>0. /\ TypeOK /\ s \in Scopes /\ menu[r].at = "starting" /\ Release(s)
      /\ holder[s] = Held(r, "menu")
      /\ UNCHANGED <<server, call, supplied, task, ghosts>>
    BY MenuFields DEF McpInv, TypeOK, StartFlow, Locks
<1>1. ASSUME NEW f \in Unused, \A g \in Unused : f <= g,
             flows' = [flows EXCEPT ![f] = [who |-> r, scope |-> s, live |-> TRUE,
                                            used |-> FALSE, cli |-> menu[r].cli]],
             store' = [store EXCEPT ![s].flow = f],
             menu' = [menu EXCEPT ![r].at = "begun", ![r].flow = f]
      PROVE  McpInv'
    <2>1. f \in Flows /\ ~Used(f) /\ f # None
        BY McpAssumption DEF Unused, Used, Flows
    <2>2. \A g \in Flows : ~Used(g) => f <= g
        BY <1>1 DEF Unused, Used
    <2>3. Used(f)' /\ \A g \in Flows : g # f => flows'[g].who = flows[g].who
        BY <1>0, <1>1, <2>1, McpAssumption DEF TypeOK, Used
    <2>4. store' = WithFlow(store, s, f)
        BY <1>1 DEF WithFlow
    <2>5. menu'[r].at = "begun" /\ menu'[r].flow = f
          /\ \A q \in Routers : q # r => menu'[q] = menu[q]
        <3> DEFINE y == [menu[r] EXCEPT !.at = "begun", !.flow = f]
        <3>1. y.at = "begun" /\ y.flow = f
            BY <1>0 DEF TypeOK, MenuSet
        <3>2. menu' = [menu EXCEPT ![r] = y]
            BY <1>1
        <3> HIDE DEF y
        <3> QED BY <1>0, <3>1, <3>2 DEF TypeOK
    <2>6. Locks'
        BY <1>0, <2>5, LocksReturned
    <2>7. \A q \in Routers : menu'[q].at = "begun" => menu'[q].flow # None
        BY <2>1, <2>5, SameMenu
    <2> HIDE DEF s
    <2> QED BY <1>0, <2>1, <2>2, <2>3, <2>4, <2>6, <2>7, FlowBegun
<1>2. CASE menu' = [menu EXCEPT ![r] = NoMenu] /\ UNCHANGED <<flows, store>>
    <2>1. menu'[r].at = "no" /\ \A q \in Routers : q # r => menu'[q] = menu[q]
        BY <1>0, <1>2 DEF TypeOK, NoMenu
    <2>2. Locks'
        BY <1>0, <2>1, LocksReturned
    <2>3. \A x \in Scopes : StoreQuiet(x)
        BY <1>2, SameStoreQuiet
    <2>4. \A t \in Tasks : TaskQuiet(t)
        BY <1>0, SameTaskQuiet
    <2>5. \A q \in Routers : menu'[q].at = "begun" => menu'[q].flow # None
        BY <2>1, SameMenu
    <2>6. \A g \in Flows : flows'[g].who = flows[g].who
        BY <1>2
    <2>7. Quiet
        BY <1>0, <2>3, <2>4, <2>5, <2>6, PeopleStepQuiet
    <2> QED BY <2>2, <2>7, QuietKeeps
<1> QED BY <1>1, <1>2 DEF StartFlow

------------------------------------------------------------------------------
(* Who waits for a flow *)

\* One lemma per action: tasks, menus and pending sign-ins name flows that began.

\* How tasks, menus and pending sign-ins move without a new flow.
TaskBegun(t) == task'[t].at # "no" => task[t].at # "no" \/ Used(t[1])
MenuBegun(r) == menu'[r].at = "begun" => menu'[r] = menu[r]
PendingBegun(r) ==
    pending'[r] # None => pending'[r] = pending[r] \/ \E f \in Flows : pending'[r] = f /\ Used(f)
WhoKept == \A f \in Flows : flows'[f].who = flows[f].who

LEMMA BegunKept ==
    ASSUME TypeOK, AtHand, Begun, WhoKept,
           \A t \in Tasks : TaskBegun(t),
           \A r \in Routers : MenuBegun(r) /\ PendingBegun(r)
    PROVE  Begun'
<1>1. \A f \in Flows : Used(f) => Used(f)'
    BY DEF Used, WhoKept
<1>2. ASSUME NEW t \in Tasks, task'[t].at # "no" PROVE Used(t[1])'
    BY <1>1, <1>2, TaskIds DEF Begun, TaskBegun
<1>3. ASSUME NEW r \in Routers, menu'[r].at = "begun" PROVE Used(menu[r].flow)'
    <2>1. menu'[r] = menu[r]
        BY <1>3 DEF MenuBegun
    <2>2. menu[r].flow \in Flows
        BY <1>3, <2>1, MenuFields DEF TypeOK, AtHand
    <2>3. Used(menu[r].flow)
        BY <1>3, <2>1 DEF Begun
    <2>4. flows'[menu[r].flow].who = flows[menu[r].flow].who
        BY <2>2 DEF WhoKept
    <2> QED BY <2>1, <2>3, <2>4 DEF Used
<1>4. ASSUME NEW r \in Routers, pending'[r] # None PROVE Used(pending[r])'
    <2>1. PICK f \in Flows : pending'[r] = f /\ Used(f)
        BY <1>4 DEF TypeOK, Begun, PendingBegun
    <2> QED BY <1>1, <2>1 DEF Used, WhoKept
<1> QED BY <1>2, <1>3, <1>4 DEF Begun

LEMMA StoppedBegun ==
    ASSUME NEW u \in [Tasks -> TaskSet], NEW f \in Flows, NEW t \in Tasks,
           Stopped(u, f)[t].at # "no"
    PROVE  u[t].at # "no"
<1> DEFINE t0 == <<f, "listener">>
           y == IF u[t0].at = "listening" THEN [u[t0] EXCEPT !.at = "done"] ELSE u[t0]
<1>1. t0 \in Tasks
    BY TaskIds
<1>2. Stopped(u, f) = [u EXCEPT ![t0] = y]
    BY DEF Stopped
<1>3. u[t0].at = "no" => y = u[t0]
    OBVIOUS
<1> HIDE DEF y, t0
<1> QED BY <1>1, <1>2, <1>3

LEMMA BegunPeople == ASSUME Begun, UNCHANGED people PROVE Begun'
BY DEF Begun, people, Used

LEMMA BegunPend ==
    ASSUME TypeOK, AtHand, Begun, NEW r \in Routers, Pend(r) PROVE Begun'
<1> DEFINE f == menu[r].flow
           t == <<f, "listener">>
           listening == WithTask(task, t, "listening")
<1>1. f \in Flows /\ t \in Tasks /\ t[1] = f /\ Used(f)
    BY MenuFields, TaskIds DEF TypeOK, Pend, AtHand, Begun
<1>2. \A q \in Routers : MenuBegun(q)
    BY DEF Pend, TypeOK, NoMenu, MenuBegun
<1>3. task' = listening \/ (pending[r] # None /\ task' = Stopped(listening, pending[r]))
    BY DEF Pend, WithTask
<1>4. pending[r] # None => pending[r] \in Flows
    BY DEF TypeOK
<1>5. \A q \in Routers : PendingBegun(q)
    BY <1>1 DEF Pend, TypeOK, PendingBegun
<1> HIDE DEF t
<1>6. listening \in [Tasks -> TaskSet] /\ \A u \in Tasks : u # t => listening[u] = task[u]
    BY <1>1, MovedTask DEF TypeOK, TaskStates
<1> HIDE DEF listening, f
<1>7. \A u \in Tasks : TaskBegun(u)
    <2>1. ASSUME NEW u \in Tasks, task'[u].at # "no" PROVE listening[u].at # "no"
        BY <1>3, <1>4, <1>6, <2>1, StoppedBegun
    <2> QED BY <1>1, <1>6, <2>1 DEF TaskBegun
<1>8. WhoKept
    BY DEF Pend, WhoKept
<1> QED BY <1>2, <1>5, <1>7, <1>8, BegunKept

LEMMA BegunPaste ==
    ASSUME TypeOK, AtHand, Begun, NEW r \in Routers, Paste(r) PROVE Begun'
<1> DEFINE f == pending[r]
           t == <<f, "paste">>
           stopped == Stopped(task, f)
<1>1. f \in Flows /\ t \in Tasks /\ t[1] = f /\ Used(f)
    BY TaskIds DEF TypeOK, Paste, Begun
<1>2. PICK err \in BOOLEAN : task' = [stopped EXCEPT ![t].at = "read", ![t].err = err]
    BY DEF Paste
<1>3. stopped \in [Tasks -> TaskSet]
      /\ \A u \in Tasks : stopped[u].at # "no" => task[u].at # "no"
    BY <1>1, StoppedTasks, StoppedBegun DEF TypeOK
<1> HIDE DEF t, stopped
<1>4. \A u \in Tasks : u # t => task'[u] = stopped[u]
    BY <1>2, <1>3
<1>5. \A u \in Tasks : TaskBegun(u)
    BY <1>1, <1>3, <1>4 DEF TaskBegun
<1>6. \A q \in Routers : MenuBegun(q) /\ PendingBegun(q)
    BY DEF Paste, MenuBegun, PendingBegun, TypeOK
<1>7. WhoKept
    BY DEF Paste, WhoKept
<1> QED BY <1>5, <1>6, <1>7, BegunKept

\* A task that moves was at work before.
LEMMA BegunMoved ==
    ASSUME TypeOK, AtHand, Begun, NEW t \in Tasks, NEW y, task[t].at # "no",
           task' = [task EXCEPT ![t] = y], menu' = menu, WhoKept,
           \A r \in Routers : PendingBegun(r)
    PROVE  Begun'
<1>1. \A u \in Tasks : TaskBegun(u)
    BY DEF TaskBegun, TypeOK
<1>2. \A r \in Routers : MenuBegun(r)
    BY DEF MenuBegun
<1> QED BY <1>1, <1>2, BegunKept

LEMMA BegunCallback ==
    ASSUME TypeOK, AtHand, Begun, NEW f \in Flows, Callback(f) PROVE Begun'
<1> DEFINE t == <<f, "listener">>
<1>1. t \in Tasks
    BY TaskIds
<1>2. PICK err \in BOOLEAN :
        task' = [task EXCEPT ![t] =
                       [@ EXCEPT !.at = IF flows[f].cli THEN "read" ELSE "got", !.err = err]]
    BY DEF Callback
<1> DEFINE y == [task[t] EXCEPT !.at = IF flows[f].cli THEN "read" ELSE "got", !.err = err]
<1>3. task' = [task EXCEPT ![t] = y] /\ task[t].at # "no"
    BY <1>2 DEF Callback
<1>4. menu' = menu /\ WhoKept /\ \A r \in Routers : PendingBegun(r)
    BY DEF Callback, WhoKept, PendingBegun
<1> HIDE DEF t, y
<1> QED BY <1>1, <1>3, <1>4, BegunMoved

LEMMA BegunStillOurs ==
    ASSUME TypeOK, AtHand, Begun, NEW f \in Flows, StillOurs(f) PROVE Begun'
<1> DEFINE t == <<f, "listener">>
<1>1. t \in Tasks
    BY TaskIds
<1>2. \E y : task' = [task EXCEPT ![t] = y]
    BY DEF StillOurs
<1>3. PICK y : task' = [task EXCEPT ![t] = y]
    BY <1>2
<1>4. task[t].at # "no" /\ menu' = menu /\ WhoKept
    BY DEF StillOurs, WhoKept
<1>5. \A r \in Routers : PendingBegun(r)
    BY DEF StillOurs, PendingBegun, TypeOK
<1> HIDE DEF t
<1> QED BY <1>1, <1>3, <1>4, <1>5, BegunMoved

LEMMA BegunFinish ==
    ASSUME TypeOK, AtHand, Begun, NEW t \in Tasks, ReadFlow(t) \/ Exchange(t) \/ InstallTokens(t)
    PROVE  Begun'
<1>1. \E y : task' = [task EXCEPT ![t] = y]
    <2>1. CASE ReadFlow(t)
        BY <2>1 DEF ReadFlow
    <2>2. CASE Exchange(t)
        BY <2>2 DEF Exchange
    <2>3. CASE InstallTokens(t)
        BY <2>3 DEF InstallTokens
    <2> QED BY <2>1, <2>2, <2>3
<1>2. PICK y : task' = [task EXCEPT ![t] = y]
    BY <1>1
<1>3. task[t].at # "no" /\ menu' = menu /\ \A r \in Routers : PendingBegun(r)
    BY DEF ReadFlow, Exchange, InstallTokens, PendingBegun
<1>4. WhoKept
    <2>1. t[1] \in Flows /\ [flows[t[1]] EXCEPT !.used = TRUE].who = flows[t[1]].who
        BY TaskIds, FlowFields DEF TypeOK
    <2>2. flows' = flows \/ flows' = [flows EXCEPT ![t[1]] = [flows[t[1]] EXCEPT !.used = TRUE]]
        BY DEF ReadFlow, Exchange, InstallTokens
    <2> QED BY <2>1, <2>2 DEF WhoKept, TypeOK
<1> QED BY <1>2, <1>3, <1>4, BegunMoved

LEMMA BegunStopped ==
    ASSUME TypeOK, AtHand, Begun, NEW f \in Flows, task' = Stopped(task, f), menu' = menu, WhoKept,
           \A r \in Routers : PendingBegun(r)
    PROVE  Begun'
<1>1. \A t \in Tasks : TaskBegun(t)
    BY StoppedBegun DEF TypeOK, TaskBegun
<1>2. \A r \in Routers : MenuBegun(r)
    BY DEF MenuBegun
<1> QED BY <1>1, <1>2, BegunKept

LEMMA BegunCancel ==
    ASSUME TypeOK, AtHand, Begun, NEW r \in Routers, Cancel(r) PROVE Begun'
<1>1. pending[r] \in Flows /\ task' = Stopped(task, pending[r]) /\ menu' = menu /\ WhoKept
    BY DEF Cancel, TypeOK, WhoKept
<1>2. \A q \in Routers : PendingBegun(q)
    BY DEF Cancel, PendingBegun, TypeOK
<1> QED BY <1>1, <1>2, BegunStopped

LEMMA BegunExpireFlow ==
    ASSUME TypeOK, AtHand, Begun, NEW f \in Flows, ExpireFlow(f) PROVE Begun'
<1>1. WhoKept
    <2>1. [flows[f] EXCEPT !.live = FALSE].who = flows[f].who
        BY FlowFields DEF TypeOK
    <2>2. flows' = [flows EXCEPT ![f] = [flows[f] EXCEPT !.live = FALSE]]
        BY DEF ExpireFlow
    <2> QED BY <2>1, <2>2 DEF TypeOK, WhoKept
<1>2. \A q \in Routers : PendingBegun(q)
    BY DEF ExpireFlow, PendingBegun
<1> QED BY <1>1, <1>2, BegunStopped DEF ExpireFlow

LEMMA BegunCrash ==
    ASSUME TypeOK, AtHand, Begun, NEW r \in Routers, Crash(r) PROVE Begun'
<1>1. \A t \in Tasks : TaskBegun(t)
    BY DEF Crash, TaskBegun
<1>2. \A q \in Routers : MenuBegun(q) /\ PendingBegun(q)
    BY DEF Crash, MenuBegun, PendingBegun, TypeOK, NoMenu
<1> QED BY <1>1, <1>2, BegunKept DEF Crash, WhoKept

LEMMA BegunMenus ==
    ASSUME TypeOK, AtHand, Begun, NEW r \in Routers, menu'[r].at # "begun",
           \A q \in Routers : q # r => menu'[q] = menu[q],
           UNCHANGED <<task, pending, flows>>
    PROVE  Begun'
<1>1. \A q \in Routers : MenuBegun(q) /\ PendingBegun(q)
    BY DEF MenuBegun, PendingBegun
<1> QED BY <1>1, BegunKept DEF WhoKept, TaskBegun

LEMMA BegunStartFlow ==
    ASSUME TypeOK, AtHand, Begun, NEW r \in Routers, StartFlow(r) PROVE Begun'
<1>1. ASSUME NEW f \in Unused,
             flows' = [flows EXCEPT ![f] = [who |-> r, scope |-> menu[r].to, live |-> TRUE,
                                            used |-> FALSE, cli |-> menu[r].cli]],
             menu' = [menu EXCEPT ![r].at = "begun", ![r].flow = f]
      PROVE  Begun'
    <2>1. f \in Flows /\ UNCHANGED <<task, pending>>
        BY DEF Unused, StartFlow
    <2>2. Used(f)' /\ \A g \in Flows : Used(g) => Used(g)'
        BY <1>1, <2>1, McpAssumption DEF TypeOK, Used
    <2>3. menu'[r].flow = f /\ \A q \in Routers : q # r => menu'[q] = menu[q]
        <3> DEFINE y == [menu[r] EXCEPT !.at = "begun", !.flow = f]
        <3>1. y.flow = f
            BY DEF TypeOK, MenuSet
        <3>2. menu' = [menu EXCEPT ![r] = y]
            BY <1>1
        <3> HIDE DEF y
        <3> QED BY <3>1, <3>2 DEF TypeOK
    <2>4. ASSUME NEW t \in Tasks, task'[t].at # "no" PROVE Used(t[1])'
        BY <2>1, <2>2, <2>4, TaskIds DEF Begun
    <2>5. ASSUME NEW q \in Routers, menu'[q].at = "begun" PROVE Used(menu[q].flow)'
        <3>1. PICK g : g = menu'[q].flow
            OBVIOUS
        <3>2. g \in Flows /\ (q # r => Used(g)) /\ (q = r => g = f)
            BY <2>1, <2>3, <2>5, <3>1, MenuFields DEF TypeOK, AtHand, Begun
        <3>3. Used(g)'
            BY <2>2, <3>2
        <3> QED BY <3>1, <3>3 DEF Used
    <2>6. ASSUME NEW q \in Routers, pending'[q] # None PROVE Used(pending[q])'
        <3>1. PICK g \in Flows : g = pending'[q] /\ Used(g)
            BY <2>1, <2>6 DEF Begun, TypeOK
        <3> QED BY <2>2, <3>1 DEF Used
    <2> QED BY <2>4, <2>5, <2>6 DEF Begun
<1>2. CASE menu' = [menu EXCEPT ![r] = NoMenu] /\ flows' = flows
    BY <1>2, BegunMenus DEF StartFlow, TypeOK, NoMenu
<1> QED BY <1>1, <1>2 DEF StartFlow

LEMMA BegunMenuStep ==
    ASSUME TypeOK, AtHand, Begun, NEW r \in Routers, MenuStep(r) PROVE Begun'
<1>1. CASE LockFirst(r)
    BY <1>1, MenuAtWrites, BegunMenus DEF LockFirst
<1>2. CASE SetAccountScope(r)
    <2>1. menu' = [menu EXCEPT ![r] = NoMenu] \/ menu' = [menu EXCEPT ![r].at = "start"]
        BY <1>2 DEF SetAccountScope
    <2>2. menu'[r].at # "begun" /\ \A q \in Routers : q # r => menu'[q] = menu[q]
        <3>1. CASE menu' = [menu EXCEPT ![r].at = "start"]
            <4>1. menu'[r].at = "start" /\ \A q \in Routers : q # r => menu'[q] = menu[q]
                BY <3>1, MenuAtWrites
            <4> QED BY <4>1
        <3>2. CASE menu' = [menu EXCEPT ![r] = NoMenu]
            BY <3>2 DEF TypeOK, NoMenu
        <3> QED BY <2>1, <3>1, <3>2
    <2> QED BY <1>2, <2>2, BegunMenus DEF SetAccountScope
<1>3. CASE StartLock(r)
    BY <1>3, MenuAtWrites, BegunMenus DEF StartLock
<1> QED BY <1>1, <1>2, <1>3, BegunStartFlow, BegunPend DEF MenuStep

LEMMA BegunChooseScope ==
    ASSUME TypeOK, AtHand, Begun, NEW r \in Routers, NEW to \in Scopes, NEW move \in BOOLEAN,
           NEW cli \in BOOLEAN, ChooseScope(r, to, move, cli)
    PROVE  Begun'
<1>1. menu'[r].at # "begun" /\ \A q \in Routers : q # r => menu'[q] = menu[q]
    BY DEF ChooseScope, TypeOK
<1> QED BY <1>1, BegunMenus DEF ChooseScope

------------------------------------------------------------------------------
(* The invariant *)

\* It holds at first, and every step keeps it.

LEMMA BegunClearOwn ==
    ASSUME TypeOK, AtHand, Begun, NEW f \in Flows, ClearOwn(f) PROVE Begun'
BY BegunKept DEF ClearOwn, WhoKept, TaskBegun, MenuBegun, PendingBegun

LEMMA BegunCallStep ==
    ASSUME TypeOK, Begun, NEW r \in Routers,
           CallStep(r) \/ Request(r) \/ SessionServers(r) \/ LockTimeout(r)
    PROVE  Begun'
<1>1. UNCHANGED people
    BY DEF CallStep, Acquire, Refresh, WriteTokens, Transient, MarkFailed, Helper, Forward,
           ForwardAgain, MarkAccessRejected, Answered, Request, SessionServers, LockTimeout
<1> QED BY <1>1, BegunPeople

LEMMA BegunStep == TypeOK /\ AtHand /\ Begun /\ [Next]_vars => Begun'
<1> SUFFICES ASSUME TypeOK, AtHand, Begun, [Next]_vars PROVE Begun'
    OBVIOUS
<1>1. CASE UNCHANGED vars
    <2>1. UNCHANGED people
        BY <1>1 DEF vars, people
    <2> QED BY <2>1, BegunPeople
<1>2. ASSUME NEW r \in Routers,
             \/ CallStep(r) \/ MenuStep(r)
             \/ Request(r) \/ SessionServers(r) \/ LockTimeout(r)
             \/ Cancel(r) \/ Paste(r) \/ Crash(r)
             \/ \E to \in Scopes, move \in BOOLEAN, cli \in BOOLEAN : ChooseScope(r, to, move, cli)
      PROVE  Begun'
    BY <1>2, BegunCallStep, BegunMenuStep, BegunCancel, BegunPaste, BegunCrash, BegunChooseScope
<1>3. ASSUME NEW f \in Flows, ClearOwn(f) \/ Callback(f) \/ StillOurs(f) \/ ExpireFlow(f)
      PROVE  Begun'
    BY <1>3, BegunClearOwn, BegunCallback, BegunStillOurs, BegunExpireFlow
<1>4. ASSUME NEW t \in Tasks, ReadFlow(t) \/ Exchange(t) \/ InstallTokens(t) PROVE Begun'
    BY <1>4, BegunFinish
<1>5. CASE Revoke \/ \E s \in Scopes : Logout(s) \/ Age(s)
    <2>1. UNCHANGED people
        BY <1>5 DEF Revoke, Logout, Age
    <2> QED BY <2>1, BegunPeople
<1> QED BY <1>1, <1>2, <1>3, <1>4, <1>5 DEF Next

LEMMA InvStep == McpInv /\ Begun /\ [Next]_vars => McpInv'
<1> SUFFICES ASSUME McpInv, Begun, [Next]_vars PROVE McpInv'
    OBVIOUS
<1>0. TypeOK'
    BY TypeStep DEF McpInv
<1>1. CASE UNCHANGED vars
    <2>1. Locks'
        BY <1>1, LocksQuiet DEF McpInv, vars
    <2>2. \A s \in Scopes : StoreQuiet(s)
        BY <1>1, SameStoreQuiet DEF vars
    <2>3. \A t \in Tasks : TaskQuiet(t)
        BY <1>1, SameTaskQuiet DEF vars
    <2>4. \A r \in Routers : menu'[r].at = "begun" => menu'[r].flow # None
        BY <1>1, SameMenu DEF vars
    <2>5. UNCHANGED <<server, call, supplied, ghosts, flows>>
        BY <1>1 DEF vars, server, ghosts
    <2>6. Quiet
        BY <1>0, <2>2, <2>3, <2>4, <2>5, PeopleStepQuiet
    <2> QED BY <1>0, <2>1, <2>6, QuietKeeps
<1>2. ASSUME NEW r \in Routers, CallStep(r) PROVE McpInv'
    <2>1. CASE Acquire(r) \/ Transient(r) \/ Helper(r) \/ Forward(r) \/ ForwardAgain(r)
               \/ MarkAccessRejected(r) \/ Answered(r)
        BY <1>0, <2>1, QuietAcquire, QuietTransient, QuietHelper, QuietForward, QuietForwardAgain,
           QuietMarkAccessRejected, QuietAnswered, QuietKeeps
    <2>2. CASE Refresh(r) \/ WriteTokens(r) \/ MarkFailed(r)
        BY <1>0, <2>2, InvRefresh, InvWriteTokens, InvMarkFailed
    <2> QED BY <1>2, <2>1, <2>2 DEF CallStep
<1>3. ASSUME NEW r \in Routers, MenuStep(r) PROVE McpInv'
    <2>1. CASE LockFirst(r) \/ StartLock(r) \/ Pend(r)
        BY <1>0, <2>1, QuietLockFirst, QuietStartLock, QuietPend, QuietKeeps
    <2>2. CASE SetAccountScope(r) \/ StartFlow(r)
        BY <1>0, <2>2, InvSetAccountScope, InvStartFlow
    <2> QED BY <1>3, <2>1, <2>2 DEF MenuStep
<1>4. ASSUME NEW r \in Routers,
             \/ Request(r) \/ SessionServers(r) \/ LockTimeout(r)
             \/ Cancel(r) \/ Paste(r) \/ Crash(r)
             \/ \E to \in Scopes, move \in BOOLEAN, cli \in BOOLEAN : ChooseScope(r, to, move, cli)
      PROVE  McpInv'
    BY <1>0, <1>4, QuietRequest, QuietSessionServers, QuietLockTimeout, QuietCancel, QuietPaste,
       QuietCrash, QuietChooseScope, QuietKeeps
<1>5. ASSUME NEW f \in Flows, ClearOwn(f) \/ Callback(f) \/ StillOurs(f) \/ ExpireFlow(f)
      PROVE  McpInv'
    BY <1>0, <1>5, QuietClearOwn, QuietCallback, QuietStillOurs, QuietExpireFlow, QuietKeeps
<1>6. ASSUME NEW t \in Tasks, ReadFlow(t) \/ Exchange(t) \/ InstallTokens(t) PROVE McpInv'
    <2>1. CASE ReadFlow(t)
        BY <1>0, <2>1, QuietReadFlow, QuietKeeps
    <2>2. CASE Exchange(t)
        <3>1. Used(t[1])
            BY <2>2 DEF Begun, Exchange
        <3> QED BY <1>0, <2>2, <3>1, InvExchange
    <2>3. CASE InstallTokens(t)
        BY <1>0, <2>3, InvInstallTokens
    <2> QED BY <1>6, <2>1, <2>2, <2>3
<1>7. ASSUME NEW s \in Scopes, Logout(s) \/ Age(s) PROVE McpInv'
    BY <1>0, <1>7, QuietLogout, QuietAge, QuietKeeps
<1>8. CASE Revoke
    BY <1>0, <1>8, QuietRevoke, QuietKeeps
<1> QED BY <1>1, <1>2, <1>3, <1>4, <1>5, <1>6, <1>7, <1>8 DEF Next

\* Nobody works, and the default account has its first tokens.
LEMMA InitInv == Init => McpInv /\ Begun
<1> SUFFICES ASSUME Init PROVE McpInv /\ Begun
    OBVIOUS
<1> DEFINE first == [access |-> 1, refresh |-> 2, failed |-> FALSE, life |-> "long", by |-> 0]
<1>1. first \in TokenSet /\ first # None /\ first.access = 1 /\ first.refresh = 2
      /\ first.by = 0 /\ first.failed = FALSE
    <2>1. first \in TokenSet
        BY McpAssumption DEF TokenSet, Lifetimes
    <2>2. first # None
        BY <2>1, NoneAssumption
    <2> QED BY <2>1, <2>2
<1>2. store["system"] = [tok |-> first, configured |-> TRUE, flow |-> None]
      /\ store["project"] = NoStore
      /\ Scopes = {"system", "project"}
    BY DEF Init, Scopes
<1> HIDE DEF first
<1>3. /\ store["system"].tok = first /\ store["system"].configured /\ store["system"].flow = None
      /\ store["project"].tok = None /\ store["project"].flow = None
    BY <1>2 DEF NoStore
<1>4. TypeOK
    <2>1. store \in [Scopes -> StoreSet]
        <3>1. [tok |-> first, configured |-> TRUE, flow |-> None] \in StoreSet
            BY <1>1 DEF StoreSet
        <3>2. DOMAIN store = Scopes /\ store = [s \in Scopes |-> store[s]]
            BY DEF Init
        <3> QED BY <1>2, <3>1, <3>2, Constants
    <2>2. left \in BudgetSet
        BY McpAssumption DEF Init, BudgetSet
    <2>3. \A f \in Flows : NoFlow \in FlowSet
        BY DEF NoFlow, FlowSet, Scopes
    <2>4. "system" \in Scopes
        BY DEF Scopes
    <2>5. /\ holder \in [Scopes -> HolderSet \cup {None}]
          /\ entry \in [Routers -> Scopes \cup {None}]
          /\ supplied \in [Routers -> [token : Nat, deny : BOOLEAN] \cup {None}]
          /\ pending \in [Routers -> Flows \cup {None}]
        BY DEF Init
    <2>6. call \in [Routers -> CallSet] /\ menu \in [Routers -> MenuSet] /\ task \in [Tasks -> TaskSet]
        BY Constants DEF Init
    <2>7. flows \in [Flows -> FlowSet] /\ clears \subseteq Flows /\ selected \in Scopes
        BY <2>3, <2>4 DEF Init
    <2>8. /\ grants \subseteq Nat /\ good \subseteq Nat /\ last \in Nat
          /\ spent \subseteq Nat /\ again \subseteq Nat /\ lost \subseteq Nat
        BY DEF Init
    <2> QED BY <2>1, <2>2, <2>5, <2>6, <2>7, <2>8 DEF TypeOK
<1>5. /\ \A r \in Routers : call[r] = NoCall /\ menu[r] = NoMenu
      /\ \A t \in Tasks : task[t] = NoTask
      /\ \A f \in Flows : flows[f] = NoFlow
    BY DEF Init
<1>6. /\ \A r \in Routers : /\ call[r].at = "idle" /\ call[r].snap = None /\ call[r].new = None
                            /\ call[r].token = 0 /\ menu[r].at = "no"
      /\ \A t \in Tasks : task[t].at = "no" /\ task[t].got = None
      /\ \A f \in Flows : ~Used(f)
    BY <1>5 DEF NoCall, NoMenu, NoTask, NoFlow, Used
<1>7. /\ supplied = [r \in Routers |-> None] /\ pending = [r \in Routers |-> None]
      /\ grants = {2} /\ good = {1} /\ last = 2 /\ spent = {} /\ again = {} /\ lost = {}
    BY DEF Init
<1>8. \A r \in Routers : ~Fetching(r) /\ ~Locked(r)
    BY <1>6 DEF Fetching, Locked
<1>9. Known \subseteq {first}
    BY <1>2, <1>3, <1>6 DEF Known
<1>10. Locks
    BY <1>6, <1>8 DEF Locks
<1>11. Issued
    BY <1>1, <1>6, <1>7, <1>9 DEF Issued
<1>12. Named
    BY <1>9 DEF Named, Same
<1>13. AtHand
    BY <1>6, <1>8 DEF AtHand
<1>14. Fenced
    BY <1>8 DEF Fenced
<1>15. Apart
    <2>1. \A x : ~Custody("project", x)
        BY <1>3, <1>8 DEF Custody
    <2> QED BY <1>6, <2>1 DEF Apart
<1>16. Rotated
    BY <1>7, <1>8 DEF Rotated
<1>17. Newest
    BY <1>2, <1>3, <1>6 DEF Newest
<1>18. GrantSpentOnce /\ FailedIsDead
    BY <1>1, <1>2, <1>3, <1>7 DEF GrantSpentOnce, FailedIsDead
<1>19. Begun
    BY <1>6, <1>7 DEF Begun
<1> QED BY <1>4, <1>10, <1>11, <1>12, <1>13, <1>14, <1>15, <1>16, <1>17, <1>18, <1>19 DEF McpInv

------------------------------------------------------------------------------
(* Earlier and later sign-ins *)

\* One lemma per action that writes tokens.

\* The tokens of a store are of no earlier sign-in than before.
LaterKept ==
    \A s \in Scopes : store[s].tok # None /\ store'[s].tok # None
                         => store'[s].tok.by >= store[s].tok.by

LEMMA LaterNat == ASSUME TypeOK PROVE \A s \in Scopes : store[s].tok # None => store[s].tok.by \in Nat
<1>1. \A a \in TokenSet : a.by \in Nat
    BY TokenFields, McpAssumption
<1> QED BY <1>1, StoreFields

LEMMA LaterQuiet == ASSUME TypeOK, Quiet PROVE LaterKept
BY LaterNat DEF LaterKept, Quiet, StoreQuiet, Same

LEMMA LaterSame == ASSUME TypeOK, store' = store PROVE LaterKept
BY LaterNat DEF LaterKept

LEMMA LaterWritten ==
    ASSUME McpInv, NEW r \in Routers, WriteTokens(r) \/ MarkFailed(r) PROVE LaterKept
<1> DEFINE s == call[r].scope
<1>0. /\ TypeOK /\ s \in Scopes /\ Fetching(r) /\ store \in [Scopes -> StoreSet]
      /\ call[r].snap \in TokenSet
    BY CallFields DEF McpInv, TypeOK, WriteTokens, MarkFailed, Fetching, AtHand
<1>1. store[s].tok # None => store[s].tok.by = call[r].snap.by
    BY <1>0 DEF McpInv, Fenced, Same
<1>2. CASE store' = store
    BY <1>0, <1>2, LaterSame
<1>3. ASSUME NEW y \in TokenSet, y.by = call[r].snap.by, store' = WithTok(store, s, y)
      PROVE  LaterKept
    <2>1. store'[s].tok = y /\ \A x \in Scopes : x # s => store'[x] = store[x]
        BY <1>0, <1>3, WithTokWrites
    <2> QED BY <1>0, <1>1, <1>3, <2>1, LaterNat DEF LaterKept
<1>4. CASE MarkFailed(r)
    <2>1. PICK y : y = [call[r].snap EXCEPT !.failed = TRUE]
        OBVIOUS
    <2>2. y \in TokenSet /\ y.by = call[r].snap.by
        BY <1>0, <2>1 DEF TokenSet
    <2>3. store' = WithTok(store, s, y)
        BY <1>4, <2>1 DEF MarkFailed, WithTok
    <2> QED BY <1>3, <2>2, <2>3
<1>5. CASE WriteTokens(r)
    <2>1. call[r].new \in TokenSet /\ call[r].new.by = call[r].snap.by
        BY <1>0, <1>5, CallFields DEF McpInv, TypeOK, AtHand, WriteTokens
    <2>2. store' = store \/ store' = WithTok(store, s, call[r].new)
        BY <1>5 DEF WriteTokens, WithTok
    <2> QED BY <1>2, <1>3, <2>1, <2>2
<1> QED BY <1>4, <1>5

LEMMA LaterInstalled ==
    ASSUME McpInv, NEW t \in Tasks, InstallTokens(t) PROVE LaterKept
<1> DEFINE f == t[1]
           s == flows[f].scope
<1>0. TypeOK /\ f \in Flows /\ s \in Scopes /\ task[t].at = "install"
    BY TaskIds, FlowFields DEF McpInv, TypeOK, InstallTokens
<1>1. CASE store' = store
    BY <1>0, <1>1, LaterSame
<1>2. CASE StillPending(f)
    <2>1. /\ store'[s].tok = task[t].got
          /\ \A x \in Scopes : x # s => store'[x] = store[x]
        BY <1>0, <1>2 DEF InstallTokens, TypeOK
    <2>2. task[t].got.by = f /\ store[s].flow = f /\ f \in Nat /\ f # None
        BY <1>0, <1>2, McpAssumption DEF McpInv, AtHand, StillPending, Flows
    <2>3. store[s].tok # None => store[s].tok.by <= f
        BY <1>0, <2>2 DEF McpInv, Newest
    <2> QED BY <1>0, <2>1, <2>2, <2>3, LaterNat DEF LaterKept
<1> QED BY <1>1, <1>2 DEF InstallTokens

LEMMA LaterMoved ==
    ASSUME McpInv, NEW r \in Routers, SetAccountScope(r) PROVE LaterKept
<1> DEFINE to == menu[r].to
<1>0. TypeOK /\ to \in Scopes /\ Scopes = {to, Other(to)} /\ to # Other(to)
    BY MenuFields DEF McpInv, TypeOK, Scopes, Other
<1>1. CASE store' = store
    BY <1>0, <1>1, LaterSame
<1>2. CASE /\ ~(menu[r].move /\ store[to].configured) /\ menu[r].move
           /\ store' = [store EXCEPT ![to] = [store[Other(to)] EXCEPT !.flow = None],
                                     ![Other(to)] = NoStore]
    <2>1. store[to].tok = None
        BY <1>0, <1>2 DEF McpInv, Newest
    <2>2. store'[Other(to)].tok = None
        BY <1>0, <1>2 DEF TypeOK, NoStore
    <2> HIDE DEF to
    <2> QED BY <1>0, <2>1, <2>2 DEF LaterKept
<1> QED BY <1>1, <1>2 DEF SetAccountScope

LEMMA LaterStarted ==
    ASSUME McpInv, NEW r \in Routers, StartFlow(r) PROVE LaterKept
<1>0. TypeOK /\ menu[r].to \in Scopes
    BY MenuFields DEF McpInv, TypeOK
<1>1. CASE store' = store
    BY <1>0, <1>1, LaterSame
<1>2. ASSUME NEW f \in Flows, store' = WithFlow(store, menu[r].to, f) PROVE LaterKept
    <2>1. store \in [Scopes -> StoreSet] /\ f \in Flows \cup {None}
        BY <1>0 DEF TypeOK
    <2>2. PICK s \in Scopes : s = menu[r].to
        BY <1>0
    <2>3. /\ store'[s].tok = store[s].tok
          /\ \A x \in Scopes : x # s => store'[x] = store[x]
        BY <1>2, <2>1, <2>2, WithFlowWrites
    <2> QED BY <1>0, <2>2, <2>3, LaterNat DEF LaterKept
<1> QED BY <1>1, <1>2 DEF StartFlow, WithFlow, Unused

LEMMA LaterStep == McpInv /\ Next => LaterKept
<1> SUFFICES ASSUME McpInv, Next PROVE LaterKept
    OBVIOUS
<1>0. TypeOK /\ TypeOK'
    BY TypeStep DEF McpInv
<1>1. ASSUME NEW r \in Routers, CallStep(r) PROVE LaterKept
    <2>1. CASE Acquire(r) \/ Transient(r) \/ Helper(r) \/ Forward(r) \/ ForwardAgain(r)
               \/ MarkAccessRejected(r) \/ Answered(r)
        BY <1>0, <2>1, QuietAcquire, QuietTransient, QuietHelper, QuietForward, QuietForwardAgain,
           QuietMarkAccessRejected, QuietAnswered, LaterQuiet
    <2>2. CASE WriteTokens(r) \/ MarkFailed(r)
        BY <2>2, LaterWritten
    <2>3. CASE Refresh(r)
        BY <1>0, <2>3, LaterSame DEF Refresh
    <2> QED BY <1>1, <2>1, <2>2, <2>3 DEF CallStep
<1>2. ASSUME NEW r \in Routers, MenuStep(r) PROVE LaterKept
    <2>1. CASE LockFirst(r) \/ StartLock(r) \/ Pend(r)
        BY <1>0, <2>1, LaterSame DEF LockFirst, StartLock, Pend
    <2>2. CASE SetAccountScope(r) \/ StartFlow(r)
        BY <2>2, LaterMoved, LaterStarted
    <2> QED BY <1>2, <2>1, <2>2 DEF MenuStep
<1>3. ASSUME NEW r \in Routers,
             \/ Request(r) \/ SessionServers(r) \/ LockTimeout(r)
             \/ Cancel(r) \/ Paste(r) \/ Crash(r)
             \/ \E to \in Scopes, move \in BOOLEAN, cli \in BOOLEAN : ChooseScope(r, to, move, cli)
      PROVE  LaterKept
    BY <1>0, <1>3, LaterSame
       DEF Request, SessionServers, LockTimeout, Cancel, Paste, Crash, ChooseScope
<1>4. ASSUME NEW f \in Flows, ClearOwn(f) \/ Callback(f) \/ StillOurs(f) \/ ExpireFlow(f)
      PROVE  LaterKept
    BY <1>0, <1>4, QuietClearOwn, QuietCallback, QuietStillOurs, QuietExpireFlow, LaterQuiet
<1>5. ASSUME NEW t \in Tasks, ReadFlow(t) \/ Exchange(t) \/ InstallTokens(t) PROVE LaterKept
    <2>1. CASE ReadFlow(t)
        BY <1>0, <2>1, QuietReadFlow, LaterQuiet
    <2>2. CASE Exchange(t)
        BY <1>0, <2>2, LaterSame DEF Exchange
    <2> QED BY <1>5, <2>1, <2>2, LaterInstalled
<1>6. ASSUME NEW s \in Scopes, Logout(s) \/ Age(s) PROVE LaterKept
    BY <1>0, <1>6, QuietLogout, QuietAge, LaterQuiet
<1>7. CASE Revoke
    BY <1>0, <1>7, QuietRevoke, LaterQuiet
<1> QED BY <1>1, <1>2, <1>3, <1>4, <1>5, <1>6, <1>7 DEF Next

------------------------------------------------------------------------------
(* Theorems *)

\* The locks, the tokens that are remembered anywhere, the rotated grants and
\* the order of the sign-ins fit together in every reachable state, for any
\* number of routers and of flows and any budget (the token source of
\* mcp_oauth.rs, its flows and its scopes).
THEOREM McpInvariant == Spec => [](McpInv /\ Begun)
<1>1. McpInv /\ Begun /\ [Next]_vars => (McpInv /\ Begun)'
    BY InvStep, BegunStep DEF McpInv
<1> QED BY <1>1, InitInv, PTL DEF Spec

\* Every variable of the sign-in keeps its type (mcp_oauth.rs, mcp_broker.rs,
\* mcp_menu.rs).
THEOREM McpTypes == Spec => []TypeOK
<1>1. McpInv => TypeOK
    BY DEF McpInv
<1> QED BY <1>1, McpInvariant, PTL

\* No router presents a refresh token that was already rotated, unless its
\* successor was lost on the way (refresh under the store's lock, with the tokens
\* read again there).
THEOREM McpGrantSpentOnce == Spec => []GrantSpentOnce
<1>1. McpInv => GrantSpentOnce
    BY DEF McpInv
<1> QED BY <1>1, McpInvariant, PTL

\* Tokens that are marked failed are dead (mark_failed, mark_access_rejected).
THEOREM McpFailedIsDead == Spec => []FailedIsDead
<1>1. McpInv => FailedIsDead
    BY DEF McpInv
<1> QED BY <1>1, McpInvariant, PTL

\* A sign-in that was started earlier never replaces the tokens of one started
\* later (start_flow, finish_flow, refresh, set_account_scope).
THEOREM McpNewestLoginKept == Spec => NewestLoginKept
<1>1. McpInv /\ [Next]_vars =>
         [\A s \in Scopes : store[s].tok # None /\ store'[s].tok # None
                               => store'[s].tok.by >= store[s].tok.by]_vars
    BY LaterStep DEF LaterKept
<1> QED BY <1>1, McpInvariant, PTL DEF Spec, NewestLoginKept
=============================================================================
