------------------------------ MODULE McpSignIn ------------------------------
(***************************************************************************)
(* The sign-in of one remote MCP server, shared by every router process of *)
(* a computer (src/src/mcp_oauth.rs, mcp_broker.rs, mcp_menu.rs).          *)
(*                                                                         *)
(* The server has a store per scope: its tokens, the marker of a completed *)
(* sign-in and the one pending authorization flow.  The broker gives every *)
(* request of an agent a current bearer: it refreshes a token that runs    *)
(* out, repairs a refused one once, falls back to the host's credential    *)
(* helper and marks the tokens failed when nothing is left.  A person      *)
(* signs in from a session's menu or from the command line, cancels,       *)
(* pastes the callback, signs out and moves the login between scopes.      *)
(* Token writes and flow starts take the store's cross-process lock;       *)
(* sign-out and the reading of a flow do not.                              *)
(*                                                                         *)
(* Abstractions: a token is a number; a flow is named by its position in   *)
(* the order of starts (its state parameter is fresh); each router runs    *)
(* one session and one request, because two requests of one router meet at *)
(* the single-flight mutex exactly as two routers meet at the lock; the    *)
(* client record is written together with the tokens it belongs to; the    *)
(* recorded health is a display hint.                                      *)
(***************************************************************************)
EXTENDS Naturals, FiniteSets

CONSTANTS
    Routers,   \* router processes that share the stores
    None,
    MaxFlows,  \* authorization flows of a behaviour
    Budgets    \* its other bounds: [calls, ages, acts, stops, faults], where
               \* ages are tokens that age or are revoked, acts are menu choices
               \* and sign-outs, stops are cancelled and pasted sign-ins, faults
               \* are failed or timed-out calls

ASSUME McpAssumption ==
    /\ None \notin Routers /\ None \notin Nat
    /\ MaxFlows \in Nat
    /\ Budgets \subseteq [calls : Nat, ages : Nat, acts : Nat, stops : Nat, faults : Nat]

VARIABLES
    store,     \* per scope: [tok, configured, flow]
    holder,    \* per scope: who holds the lock: None or [who, what]
    selected,  \* the scope that the project's account selection names
    grants,    \* refresh tokens the authorization server honours
    good,      \* bearers the MCP server honours
    last,      \* the last token issued
    entry,     \* per router: the scope of its session's broker entry
    call,      \* per router: a request and the bearer it asks for
    supplied,  \* per router: the cached answer of the credential helper
    menu,      \* per router: a scope change and the sign-in that follows it
    pending,   \* per router: the flow its session waits for
    flows,     \* per flow: [who, scope, live, used, cli]
    task,      \* per flow and channel: the task that finishes it
    clears,    \* flows whose cancelling task has not run yet
    left,      \* what remains of the budget
    spent,     \* refresh tokens that have been rotated away (ghost)
    again,     \* those of them that were presented once more (ghost)
    lost       \* those whose successor no store received (ghost)

server == <<grants, good, last>>
ghosts == <<spent, again, lost>>
people == <<menu, pending, flows, task, clears>>
vars == <<store, holder, selected, grants, good, last, entry, call, supplied,
          menu, pending, flows, task, clears, left, spent, again, lost>>

Scopes == {"system", "project"}
Other(s) == IF s = "system" THEN "project" ELSE "system"
Flows == 1 .. MaxFlows
Channels == {"listener", "paste"}
Tasks == Flows \X Channels
Lifetimes == {"long", "soon", "over"}   \* a bearer's remaining time

TokenSet == [access : Nat, refresh : Nat, failed : BOOLEAN, life : Lifetimes, by : 0 .. MaxFlows]
HolderSet == [who : Routers, what : {"call", "menu"}]
ASSUME NoneAssumption == None \notin TokenSet \cup HolderSet

NoStore == [tok |-> None, configured |-> FALSE, flow |-> None]
NoCall == [at |-> "idle", scope |-> "system", token |-> 0, snap |-> None, new |-> None,
           forced |-> FALSE, listed |-> FALSE]
NoMenu == [at |-> "no", to |-> "system", move |-> FALSE, cli |-> FALSE, flow |-> None]
NoFlow == [who |-> None, scope |-> "system", live |-> FALSE, used |-> FALSE, cli |-> FALSE]
NoTask == [at |-> "no", err |-> FALSE, got |-> None]

CallStates == {"idle", "wait", "refresh", "answered", "transient", "refused", "helping",
               "lockedhelp", "first", "second", "marking", "served", "told"}
TaskStates == {"no", "listening", "got", "ours", "read", "exchange", "install", "done"}

StoreSet == [tok : TokenSet \cup {None}, configured : BOOLEAN, flow : Flows \cup {None}]
CallSet == [at : CallStates, scope : Scopes, token : Nat, snap : TokenSet \cup {None},
            new : TokenSet \cup {None}, forced : BOOLEAN, listed : BOOLEAN]
MenuSet == [at : {"no", "first", "second", "start", "starting", "begun"}, to : Scopes,
            move : BOOLEAN, cli : BOOLEAN, flow : Flows \cup {None}]
FlowSet == [who : Routers \cup {None}, scope : Scopes, live : BOOLEAN, used : BOOLEAN,
            cli : BOOLEAN]
TaskSet == [at : TaskStates, err : BOOLEAN, got : TokenSet \cup {None}]
BudgetSet == [calls : Nat, ages : Nat, acts : Nat, stops : Nat, faults : Nat]

TypeOK ==
    /\ store \in [Scopes -> StoreSet]
    /\ holder \in [Scopes -> HolderSet \cup {None}]
    /\ selected \in Scopes
    /\ grants \subseteq Nat /\ good \subseteq Nat /\ last \in Nat
    /\ entry \in [Routers -> Scopes \cup {None}]
    /\ call \in [Routers -> CallSet]
    /\ supplied \in [Routers -> [token : Nat, deny : BOOLEAN] \cup {None}]
    /\ menu \in [Routers -> MenuSet]
    /\ pending \in [Routers -> Flows \cup {None}]
    /\ flows \in [Flows -> FlowSet]
    /\ task \in [Tasks -> TaskSet]
    /\ clears \subseteq Flows
    /\ left \in BudgetSet
    /\ spent \subseteq Nat /\ again \subseteq Nat /\ lost \subseteq Nat

Fault == left.faults > 0
Spend(f) == [left EXCEPT ![f] = @ - 1]

(***************************************************************************)
(* The token source of the broker.                                         *)
(***************************************************************************)
\* The stored tokens may be used: present and not marked failed.
Usable(s) == store[s].tok # None /\ ~store[s].tok.failed

\* Only the default account has a credential helper.
HasSupplier(s) == s = "system"

\* access_token before the lock, with the bearer `token` just refused when
\* `forced`; `next` is the call's state once it has a bearer.
Look(r, c, forced, next) ==
    LET tok == store[c.scope].tok IN
    call' = [call EXCEPT ![r] =
        IF ~Usable(c.scope)
        THEN [c EXCEPT !.at = IF HasSupplier(c.scope) THEN "helping" ELSE "told",
                       !.forced = forced]
        ELSE IF (forced /\ c.token # tok.access) \/ (~forced /\ tok.life = "long")
        THEN [c EXCEPT !.at = next, !.token = tok.access, !.forced = forced]
        ELSE [c EXCEPT !.at = "wait", !.snap = tok, !.forced = forced]]

\* Where a call goes with a bearer: the first forward, or the only retry.
Ready(c) == IF c.forced THEN "second" ELSE "first"

\* A request arrives at the broker's entry of the session.
Request(r) ==
    /\ call[r].at = "idle" /\ entry[r] # None /\ left.calls > 0
    /\ \E listed \in BOOLEAN :
           Look(r, [NoCall EXCEPT !.scope = entry[r], !.listed = listed], FALSE, "first")
    /\ left' = Spend("calls")
    /\ UNCHANGED <<store, holder, selected, server, entry, supplied, people, ghosts>>

\* A waiter that does not read the tokens again.
NotReread(r) == FALSE

\* Under the mutex and the lock: what changed while it waited is reused.
Reusable(r) == store[call[r].scope].tok.access # call[r].snap.access

Acquire(r) ==
    LET s == call[r].scope IN
    /\ call[r].at = "wait" /\ holder[s] = None
    /\ IF ~Usable(s) THEN /\ call' = [call EXCEPT ![r].at = "told"]
                          /\ UNCHANGED holder
       ELSE IF Reusable(r)
       THEN /\ call' = [call EXCEPT ![r].at = Ready(call[r]), ![r].token = store[s].tok.access]
            /\ UNCHANGED holder
       ELSE /\ call' = [call EXCEPT ![r].at = IF store[s].tok.refresh = 0 THEN "refused"
                                                                         ELSE "refresh"]
            /\ holder' = [holder EXCEPT ![s] = [who |-> r, what |-> "call"]]
    /\ UNCHANGED <<store, selected, server, entry, supplied, people, left, ghosts>>

\* A wait that exceeds LOCK_WAIT: the request fails, a refused bearer stays unmarked.
LockTimeout(r) ==
    /\ call[r].at \in {"wait", "marking"} /\ holder[call[r].scope] # None /\ Fault
    /\ call' = [call EXCEPT ![r].at = "told"]
    /\ left' = Spend("faults")
    /\ UNCHANGED <<store, holder, selected, server, entry, supplied, people, ghosts>>

\* The authorization server answers a refresh.  It may rotate the refresh
\* token; `arrives` says whether its answer reaches the router.
Refresh(r) ==
    LET old == call[r].snap
        new(rotates) == [old EXCEPT !.access = last + 1, !.life = "long",
                                    !.refresh = IF rotates THEN last + 2 ELSE @]
    IN
    /\ call[r].at = "refresh"
    /\ again' = again \cup ({old.refresh} \cap spent)
    /\ \/ /\ old.refresh \in grants
          /\ \E rotates \in BOOLEAN, arrives \in IF Fault THEN BOOLEAN ELSE {TRUE} :
                 /\ last' = last + 2
                 /\ good' = good \cup {last + 1}
                 /\ grants' = IF rotates THEN (grants \ {old.refresh}) \cup {last + 2} ELSE grants
                 /\ spent' = IF rotates THEN spent \cup {old.refresh} ELSE spent
                 /\ lost' = IF rotates /\ ~arrives THEN lost \cup {old.refresh} ELSE lost
                 /\ left' = IF arrives THEN left ELSE Spend("faults")
                 /\ call' = [call EXCEPT ![r].at = IF arrives THEN "answered" ELSE "transient",
                                         ![r].new = new(rotates)]
       \/ /\ old.refresh \notin grants
          /\ call' = [call EXCEPT ![r].at = "refused"]
          /\ UNCHANGED <<server, left, spent, lost>>
       \/ /\ Fault /\ left' = Spend("faults")
          /\ call' = [call EXCEPT ![r].at = "transient"]
          /\ UNCHANGED <<server, spent, lost>>
    /\ UNCHANGED <<store, holder, selected, entry, supplied, people>>

Release(s) == holder' = [holder EXCEPT ![s] = None]

\* The renewed tokens are written before the lock is given up.
WriteTokens(r) ==
    LET s == call[r].scope
        new == call[r].new
    IN
    /\ call[r].at = "answered"
    /\ \/ /\ store' = [store EXCEPT ![s].tok = new, ![s].configured = TRUE]
          /\ call' = [call EXCEPT ![r].at = Ready(call[r]), ![r].token = new.access]
          /\ Release(s) /\ UNCHANGED <<left, lost>>
       \/ /\ Fault /\ left' = Spend("faults")
          /\ lost' = lost \cup ({call[r].snap.refresh} \cap spent)
          /\ call' = [call EXCEPT ![r].at = "transient"]
          /\ UNCHANGED <<store, holder>>
    /\ UNCHANGED <<selected, server, entry, supplied, people, spent, again>>

\* Headroom never costs a working credential: a bearer that is short but
\* alive is used when the refresh met a passing failure.
Transient(r) ==
    /\ call[r].at = "transient"
    /\ call' = [call EXCEPT ![r] =
           IF ~@.forced /\ @.snap.life = "soon"
           THEN [@ EXCEPT !.at = "first", !.token = call[r].snap.access]
           ELSE [@ EXCEPT !.at = "told"]]
    /\ Release(call[r].scope)
    /\ UNCHANGED <<store, selected, server, entry, supplied, people, left, ghosts>>

\* mark_failed writes the tokens that were read under the lock.
MarkFailed(r) ==
    LET s == call[r].scope IN
    /\ call[r].at = "refused"
    /\ store' = [store EXCEPT ![s].tok = [call[r].snap EXCEPT !.failed = TRUE],
                              ![s].configured = TRUE]
    /\ IF HasSupplier(s)
       THEN /\ call' = [call EXCEPT ![r].at = "lockedhelp"] /\ UNCHANGED holder
       ELSE /\ call' = [call EXCEPT ![r].at = "told"] /\ Release(s)
    /\ UNCHANGED <<selected, server, entry, supplied, people, left, ghosts>>

\* The cached answer of the helper, unless it is the bearer that was refused.
Supplied(r, answer) ==
    call' = [call EXCEPT ![r] =
        IF answer.token = 0 THEN [@ EXCEPT !.at = "told"]
        ELSE [@ EXCEPT !.at = Ready(call[r]), !.token = answer.token]]

Helper(r) ==
    LET asked == call[r].at = "helping" /\ call[r].forced
        cached == supplied[r] # None /\ ~(asked /\ supplied[r].token = call[r].token)
    IN
    /\ call[r].at \in {"helping", "lockedhelp"}
    /\ \/ /\ cached /\ Supplied(r, supplied[r])
          /\ UNCHANGED <<supplied, good, last>>
       \/ /\ ~cached
          /\ \E grant \in BOOLEAN, deny \in BOOLEAN :
                 LET answer == [token |-> IF grant THEN last + 1 ELSE 0, deny |-> grant /\ deny] IN
                 /\ supplied' = [supplied EXCEPT ![r] = answer]
                 /\ Supplied(r, answer)
                 /\ last' = last + 1
                 /\ good' = IF grant THEN good \cup {last + 1} ELSE good
    /\ IF call[r].at = "lockedhelp" THEN Release(call[r].scope) ELSE UNCHANGED holder
    /\ UNCHANGED <<store, selected, grants, entry, people, left, ghosts>>

(***************************************************************************)
(* The broker's proxy and the command line's tool call.                    *)
(***************************************************************************)
\* The bearer is the helper's, and the helper keeps it from this tool.
Denies(r) ==
    /\ supplied[r] # None /\ supplied[r].token = call[r].token
    /\ supplied[r].deny /\ call[r].listed

\* The MCP server answers the first forward: a refused bearer is repaired once.
Forward(r) ==
    /\ call[r].at = "first"
    /\ \/ /\ Denies(r) /\ call' = [call EXCEPT ![r].at = "told"] /\ UNCHANGED left
       \/ /\ ~Denies(r) /\ call[r].token \in good
          /\ call' = [call EXCEPT ![r].at = "served"] /\ UNCHANGED left
       \/ /\ ~Denies(r) /\ call[r].token \notin good
          /\ Look(r, call[r], TRUE, "second") /\ UNCHANGED left
       \/ /\ ~Denies(r) /\ Fault
          /\ call' = [call EXCEPT ![r].at = "told"] /\ left' = Spend("faults")
    /\ UNCHANGED <<store, holder, selected, server, entry, supplied, people, ghosts>>

\* The retry with the repaired bearer.
ForwardAgain(r) ==
    /\ call[r].at = "second"
    /\ \/ /\ call[r].token \in good
          /\ call' = [call EXCEPT ![r].at = "served"] /\ UNCHANGED left
       \/ /\ call[r].token \notin good
          /\ call' = [call EXCEPT ![r].at = "marking"] /\ UNCHANGED left
       \/ /\ Fault
          /\ call' = [call EXCEPT ![r].at = "told"] /\ left' = Spend("faults")
    /\ UNCHANGED <<store, holder, selected, server, entry, supplied, people, ghosts>>

\* Marking whatever is stored.
AnyBearer(r) == TRUE

\* Only the bearer that was refused is marked, never a newer one.
SameBearer(r) == store[call[r].scope].tok.access = call[r].token

MarkAccessRejected(r) ==
    LET s == call[r].scope IN
    /\ call[r].at = "marking" /\ holder[s] = None
    /\ store' = IF store[s].tok # None /\ SameBearer(r)
                THEN [store EXCEPT ![s].tok.failed = TRUE] ELSE store
    /\ call' = [call EXCEPT ![r].at = "told"]
    /\ UNCHANGED <<holder, selected, server, entry, supplied, people, left, ghosts>>

\* The agent has the answer.
Answered(r) ==
    /\ call[r].at \in {"served", "told"}
    /\ call' = [call EXCEPT ![r] = NoCall]
    /\ UNCHANGED <<store, holder, selected, server, entry, supplied, people, left, ghosts>>

\* The entries of a session: an unsigned default account is left to the adapter.
SessionServers(r) ==
    /\ entry[r] = None /\ call[r].at = "idle"
    /\ Usable(selected) \/ HasSupplier(selected) \/ selected = "project"
    /\ entry' = [entry EXCEPT ![r] = selected]
    /\ UNCHANGED <<store, holder, selected, server, call, supplied, people, left, ghosts>>

(***************************************************************************)
(* Sign-in flows.                                                          *)
(***************************************************************************)
\* A person picks a scope: to sign in there, or to move the login.
ChooseScope(r, to, move, cli) ==
    /\ menu[r].at = "no" /\ left.acts > 0
    /\ move => to # selected /\ ~cli
    /\ cli => to = selected
    /\ menu' = [menu EXCEPT ![r] = [at |-> IF to = selected THEN "start" ELSE "first",
                                    to |-> to, move |-> move, cli |-> cli, flow |-> None]]
    /\ left' = Spend("acts")
    /\ UNCHANGED <<store, holder, selected, server, entry, call, supplied, pending, flows,
                   task, clears, ghosts>>

\* set_account_scope: the project's configuration lock, then both stores'
\* locks in the order of their directories.
LockFirst(r) ==
    /\ menu[r].at = "first" /\ holder["system"] = None
    /\ \A q \in Routers : menu[q].at # "second"
    /\ holder' = [holder EXCEPT !["system"] = [who |-> r, what |-> "menu"]]
    /\ menu' = [menu EXCEPT ![r].at = "second"]
    /\ UNCHANGED <<store, selected, server, entry, call, supplied, pending, flows, task,
                   clears, left, ghosts>>

LiveFlow(s) == store[s].flow # None /\ flows[store[s].flow].live

SetAccountScope(r) ==
    LET to == menu[r].to
        from == Other(to)
        refused == \/ \E s \in Scopes : LiveFlow(s)
                   \/ menu[r].move /\ store[to].configured
        moved == menu[r].move /\ store[from].configured
    IN
    /\ menu[r].at = "second" /\ holder["project"] = None
    /\ IF refused
       THEN /\ menu' = [menu EXCEPT ![r] = NoMenu]
            /\ UNCHANGED <<store, selected, entry>>
       ELSE /\ menu' = [menu EXCEPT ![r] = IF @.move THEN NoMenu ELSE [@ EXCEPT !.at = "start"]]
            /\ selected' = to
            /\ entry' = [entry EXCEPT ![r] = None]
            /\ store' = IF moved
                        THEN [store EXCEPT ![to] = [store[from] EXCEPT !.flow = None],
                                           ![from] = NoStore]
                        ELSE store
    /\ Release("system")
    /\ UNCHANGED <<server, call, supplied, pending, flows, task, clears, left, ghosts>>

\* start_flow waits for the lock and talks to the authorization server under it.
StartLock(r) ==
    /\ menu[r].at = "start" /\ holder[menu[r].to] = None
    /\ holder' = [holder EXCEPT ![menu[r].to] = [who |-> r, what |-> "menu"]]
    /\ menu' = [menu EXCEPT ![r].at = "starting"]
    /\ UNCHANGED <<store, selected, server, entry, call, supplied, pending, flows, task,
                   clears, left, ghosts>>

Unused == {f \in Flows : flows[f].who = None}

StartFlow(r) ==
    LET s == menu[r].to IN
    /\ menu[r].at = "starting"
    /\ \/ \E f \in Unused :
             /\ \A g \in Unused : f <= g
             /\ flows' = [flows EXCEPT ![f] = [who |-> r, scope |-> s, live |-> TRUE,
                                               used |-> FALSE, cli |-> menu[r].cli]]
             /\ store' = [store EXCEPT ![s].flow = f]
             /\ menu' = [menu EXCEPT ![r].at = "begun", ![r].flow = f]
             /\ UNCHANGED left
       \/ /\ Fault \/ Unused = {}
          /\ left' = IF Fault THEN Spend("faults") ELSE left
          /\ menu' = [menu EXCEPT ![r] = NoMenu]
          /\ UNCHANGED <<flows, store>>
    /\ Release(s)
    /\ UNCHANGED <<selected, server, entry, call, supplied, pending, task, clears, ghosts>>

\* Cancelling stops a listener that still waits and sends a task for the flow.
Stopped(t, f) ==
    [t EXCEPT ![<<f, "listener">>] = IF @.at = "listening" THEN [@ EXCEPT !.at = "done"] ELSE @]

\* The session's pending sign-in is replaced and the replaced one cancelled.
Pend(r) ==
    LET f == menu[r].flow
        listening == [task EXCEPT ![<<f, "listener">>].at = "listening"]
    IN
    /\ menu[r].at = "begun"
    /\ menu' = [menu EXCEPT ![r] = NoMenu]
    /\ IF flows[f].cli
       THEN task' = listening /\ UNCHANGED <<pending, clears>>
       ELSE /\ pending' = [pending EXCEPT ![r] = f]
            /\ IF pending[r] = None
               THEN task' = listening /\ UNCHANGED clears
               ELSE /\ task' = Stopped(listening, pending[r])
                    /\ clears' = clears \cup {pending[r]}
    /\ UNCHANGED <<store, holder, selected, server, entry, call, supplied, flows, left, ghosts>>

\* `/mcp cancel`.
Cancel(r) ==
    /\ pending[r] # None /\ left.stops > 0
    /\ left' = Spend("stops")
    /\ pending' = [pending EXCEPT ![r] = None]
    /\ task' = Stopped(task, pending[r])
    /\ clears' = clears \cup {pending[r]}
    /\ UNCHANGED <<store, holder, selected, server, entry, call, supplied, menu, flows, ghosts>>

\* The task of a cancelled sign-in clears the flow it belongs to, no other.
ClearOwn(f) ==
    LET s == flows[f].scope IN
    /\ f \in clears
    /\ \/ /\ holder[s] = None
          /\ store' = IF store[s].flow = f THEN [store EXCEPT ![s].flow = None] ELSE store
          /\ UNCHANGED left
       \/ /\ holder[s] # None /\ Fault /\ left' = Spend("faults") /\ UNCHANGED store
    /\ clears' = clears \ {f}
    /\ UNCHANGED <<holder, selected, server, entry, call, supplied, menu, pending, flows,
                   task, ghosts>>

\* The browser lands on the loopback listener.
Callback(f) ==
    /\ task[<<f, "listener">>].at = "listening"
    /\ \E err \in BOOLEAN :
           task' = [task EXCEPT ![<<f, "listener">>] =
                       [@ EXCEPT !.at = IF flows[f].cli THEN "read" ELSE "got", !.err = err]]
    /\ UNCHANGED <<store, holder, selected, server, entry, call, supplied, menu, pending,
                   flows, clears, left, ghosts>>

\* The listener looks whether the sign-in is still the session's, and in a
\* second critical section removes whatever is pending.
StillOurs(f) ==
    LET t == <<f, "listener">>
        r == flows[f].who
    IN
    /\ \/ /\ task[t].at = "got"
          /\ task' = [task EXCEPT ![t].at = IF pending[r] = f THEN "ours" ELSE "done"]
          /\ UNCHANGED pending
       \/ /\ task[t].at = "ours"
          /\ task' = [task EXCEPT ![t].at = "read"]
          /\ pending' = [pending EXCEPT ![r] = None]
    /\ UNCHANGED <<store, holder, selected, server, entry, call, supplied, menu, flows,
                   clears, left, ghosts>>

\* `/mcp callback <address>` finishes the session's sign-in by hand.
Paste(r) ==
    LET f == pending[r] IN
    /\ f # None /\ left.stops > 0
    /\ pending' = [pending EXCEPT ![r] = None]
    /\ \E err \in BOOLEAN :
           task' = [Stopped(task, f) EXCEPT ![<<f, "paste">>].at = "read",
                                            ![<<f, "paste">>].err = err]
    /\ left' = Spend("stops")
    /\ UNCHANGED <<store, holder, selected, server, entry, call, supplied, menu, flows, clears,
                   ghosts>>

\* login_finish reads the pending flow without the lock; a refusal clears it.
ReadFlow(t) ==
    LET f == t[1]
        s == flows[f].scope
        held == store[s].flow
    IN
    /\ task[t].at = "read"
    /\ IF task[t].err
       THEN /\ task' = [task EXCEPT ![t].at = "done"]
            /\ store' = IF flows[f].cli THEN store ELSE [store EXCEPT ![s].flow = None]
       ELSE /\ task' = [task EXCEPT ![t].at =
                          IF flows[f].live /\ (flows[f].cli \/ held = f)
                          THEN "exchange" ELSE "done"]
            /\ UNCHANGED store
    /\ UNCHANGED <<holder, selected, server, entry, call, supplied, menu, pending, flows,
                   clears, left, ghosts>>

\* The code is exchanged outside the lock; a code serves once.
Exchange(t) ==
    LET f == t[1] IN
    /\ task[t].at = "exchange"
    /\ \/ /\ ~flows[f].used
          /\ \E renewable \in BOOLEAN :
                 LET fresh == [access |-> last + 1, refresh |-> IF renewable THEN last + 2 ELSE 0,
                               failed |-> FALSE, life |-> "long", by |-> f] IN
                 /\ task' = [task EXCEPT ![t].at = "install", ![t].got = fresh]
                 /\ grants' = IF renewable THEN grants \cup {last + 2} ELSE grants
          /\ good' = good \cup {last + 1} /\ last' = last + 2
          /\ flows' = [flows EXCEPT ![f].used = TRUE]
          /\ UNCHANGED left
       \/ /\ flows[f].used \/ Fault
          /\ task' = [task EXCEPT ![t].at = "done"]
          /\ left' = IF Fault THEN Spend("faults") ELSE left
          /\ UNCHANGED <<server, flows>>
    /\ UNCHANGED <<store, holder, selected, entry, call, supplied, menu, pending, clears, ghosts>>

\* Installing without looking at the pending flow again.
EvenReplaced(f) == TRUE

\* Under the lock the flow must still be the pending one.
StillPending(f) == store[flows[f].scope].flow = f

InstallTokens(t) ==
    LET f == t[1]
        s == flows[f].scope
    IN
    /\ task[t].at = "install" /\ holder[s] = None
    /\ store' = IF StillPending(f)
                THEN [store EXCEPT ![s] = [tok |-> task[t].got, configured |-> TRUE,
                                           flow |-> None]]
                ELSE store
    /\ task' = [task EXCEPT ![t] = [NoTask EXCEPT !.at = "done"]]
    /\ UNCHANGED <<holder, selected, server, entry, call, supplied, menu, pending, flows,
                   clears, left, ghosts>>

\* The flow's time is over: its listener ends.
ExpireFlow(f) ==
    /\ flows[f].live /\ left.ages > 0
    /\ flows' = [flows EXCEPT ![f].live = FALSE]
    /\ task' = Stopped(task, f)
    /\ left' = Spend("ages")
    /\ UNCHANGED <<store, holder, selected, server, entry, call, supplied, menu, pending,
                   clears, ghosts>>

\* Sign-out removes the store's files without the lock.
Logout(s) ==
    /\ left.acts > 0 /\ store[s] # NoStore
    /\ store' = [store EXCEPT ![s] = NoStore]
    /\ left' = Spend("acts")
    /\ UNCHANGED <<holder, selected, server, entry, call, supplied, people, ghosts>>

(***************************************************************************)
(* Time, the authorization server and crashes.                             *)
(***************************************************************************)
\* A stored bearer comes near its end, and then ends.
Age(s) ==
    LET tok == store[s].tok IN
    /\ tok # None /\ tok.life # "over" /\ left.ages > 0
    /\ store' = [store EXCEPT ![s].tok.life = IF tok.life = "long" THEN "soon" ELSE "over"]
    /\ good' = IF tok.life = "soon" THEN good \ {tok.access} ELSE good
    /\ left' = Spend("ages")
    /\ UNCHANGED <<holder, selected, grants, last, entry, call, supplied, people, ghosts>>

\* The authorization server revokes a bearer or a refresh token; a helper's
\* answer lapses.
Revoke ==
    /\ left.ages > 0 /\ left' = Spend("ages")
    /\ \/ \E a \in good : good' = good \ {a} /\ UNCHANGED <<grants, supplied>>
       \/ \E g \in grants : grants' = grants \ {g} /\ UNCHANGED <<good, supplied>>
       \/ /\ \E r \in Routers : supplied[r] # None /\ supplied' = [supplied EXCEPT ![r] = None]
          /\ UNCHANGED <<good, grants>>
    /\ UNCHANGED <<store, holder, selected, last, entry, call, people, ghosts>>

\* A process dies: the system gives its locks back.
Crash(r) ==
    /\ Fault /\ left' = Spend("faults")
    /\ call[r].at # "idle" \/ menu[r].at # "no" \/ \E f \in Flows : flows[f].who = r
    /\ call' = [call EXCEPT ![r] = NoCall]
    /\ lost' = IF call[r].at = "answered" THEN lost \cup ({call[r].snap.refresh} \cap spent)
                                           ELSE lost
    /\ holder' = [s \in Scopes |-> IF holder[s] # None /\ holder[s].who = r THEN None ELSE holder[s]]
    /\ menu' = [menu EXCEPT ![r] = NoMenu]
    /\ pending' = [pending EXCEPT ![r] = None]
    /\ task' = [t \in Tasks |->
                   IF flows[t[1]].who = r /\ task[t].at # "no"
                   THEN [NoTask EXCEPT !.at = "done"] ELSE task[t]]
    /\ clears' = {f \in clears : flows[f].who # r}
    /\ supplied' = [supplied EXCEPT ![r] = None]
    /\ entry' = [entry EXCEPT ![r] = None]
    /\ UNCHANGED <<store, selected, server, flows, spent, again>>

Init ==
    /\ store = [s \in Scopes |->
                  IF s = "system"
                  THEN [tok |-> [access |-> 1, refresh |-> 2, failed |-> FALSE,
                                 life |-> "long", by |-> 0],
                        configured |-> TRUE, flow |-> None]
                  ELSE NoStore]
    /\ holder = [s \in Scopes |-> None]
    /\ selected = "system"
    /\ grants = {2} /\ good = {1} /\ last = 2
    /\ entry = [r \in Routers |-> None]
    /\ call = [r \in Routers |-> NoCall]
    /\ supplied = [r \in Routers |-> None]
    /\ menu = [r \in Routers |-> NoMenu]
    /\ pending = [r \in Routers |-> None]
    /\ flows = [f \in Flows |-> NoFlow]
    /\ task = [t \in Tasks |-> NoTask]
    /\ clears = {}
    /\ left \in Budgets
    /\ spent = {} /\ again = {} /\ lost = {}

\* A request's steps, and those of a sign-in that holds a lock.
CallStep(r) ==
    \/ Acquire(r) \/ Refresh(r) \/ WriteTokens(r) \/ Transient(r) \/ MarkFailed(r)
    \/ Helper(r) \/ Forward(r) \/ ForwardAgain(r) \/ MarkAccessRejected(r) \/ Answered(r)

MenuStep(r) == LockFirst(r) \/ SetAccountScope(r) \/ StartLock(r) \/ StartFlow(r) \/ Pend(r)

Next ==
    \/ \E r \in Routers :
          \/ CallStep(r) \/ MenuStep(r)
          \/ Request(r) \/ SessionServers(r) \/ LockTimeout(r)
          \/ Cancel(r) \/ Paste(r) \/ Crash(r)
          \/ \E to \in Scopes, move \in BOOLEAN, cli \in BOOLEAN : ChooseScope(r, to, move, cli)
    \/ \E f \in Flows : ClearOwn(f) \/ Callback(f) \/ StillOurs(f) \/ ExpireFlow(f)
    \/ \E t \in Tasks : ReadFlow(t) \/ Exchange(t) \/ InstallTokens(t)
    \/ \E s \in Scopes : Logout(s) \/ Age(s)
    \/ Revoke

Spec == Init /\ [][Next]_vars

(***************************************************************************)
(* Properties.                                                             *)
(***************************************************************************)
\* A rotated refresh token is never presented again, by this router or another
\* one, unless the answer that carried its successor was lost: waiters re-read
\* under the lock (access_token, refresh, write_tokens).
GrantSpentOnce == again \subseteq lost

\* Tokens marked failed really are dead: their bearer is refused or their
\* refresh token is.  A request that comes back late with an old bearer never
\* marks the sign-in that replaced it (mark_failed, mark_access_rejected).
FailedIsDead ==
    \A s \in Scopes : store[s].tok # None /\ store[s].tok.failed =>
        \/ store[s].tok.access \notin good
        \/ store[s].tok.refresh \notin grants

\* A sign-in that was started earlier never replaces the tokens of one started
\* later, whichever exchange is answered first and whoever refreshes meanwhile
\* (start_flow, finish_flow, refresh).
NewestLoginKept ==
    [][\A s \in Scopes : store[s].tok # None /\ store'[s].tok # None
                            => store'[s].tok.by >= store[s].tok.by]_vars

\* A bearer that still works is not given up for headroom ("Headroom never costs
\* a working credential", access_token).
HeadroomKeepsLive ==
    \A s \in Scopes : store[s].tok # None /\ store[s].tok.failed /\ store[s].tok.refresh = 0
                         => store[s].tok.access \notin good

=============================================================================
