----------------------------- MODULE RequestProxy -----------------------------
(***************************************************************************)
(* The per-request proxy of one adapter process (src/src/llm_proxy.rs), on *)
(* top of what the router knows of the seat.                               *)
(*                                                                         *)
(* Every inference request of the adapter passes through: it is attributed *)
(* to a registered turn, decided (stay on the pin, or move to the          *)
(* strongest sibling once the pin is out of budget), sent, repaired once   *)
(* after a 401, retried unchanged once after a refused sibling, and        *)
(* streamed back under a record that ends however the stream ends.         *)
(*                                                                         *)
(* Abstractions: a model stands for its wire id; a body for the model it   *)
(* names ("asis": whatever the adapter's alias resolves to); effort and    *)
(* token counts are left out.                                              *)
(***************************************************************************)
EXTENDS SeatUsage

CONSTANTS
    Here,       \* the router of this adapter process
    Turns,      \* prompts of the process's sessions
    Sid,        \* [Turns -> sessions]
    Pin,        \* [Turns -> Models]
    Requests,
    Maker,      \* [Requests -> Turns]: the turn that really makes a request
    Hinted,     \* requests whose body names their session
    Strength,   \* [Models -> Nat], as strongest_model orders them
    Declared,   \* models with a wire id of their own, which the adapter's alias
                \* does not name
    Unserved    \* wire ids that the provider refuses

ASSUME ProxyAssumption ==
    /\ Here \in Routers
    /\ Pin \in [Turns -> Models]
    /\ Maker \in [Requests -> Turns]
    /\ Hinted \subseteq Requests
    /\ Strength \in [Models -> Nat]
    /\ Declared \subseteq Models /\ Unserved \subseteq Models

VARIABLES
    reg,      \* registrations: "new", "on", "off"
    policy,    \* per session: [pin, last, rejected, disclosed]
    req,       \* requests in the handler
    record,    \* their rows: [state, model, ok]
    cordoned,  \* candidates that the provider rejected
    down,      \* models in an outage
    refused    \* alternates refused once, per session (ghost)

proxyVars == <<reg, policy, req, record, cordoned, down, refused>>
requestVars == <<seatVars, proxyVars>>

Sids == {Sid[t] : t \in Turns}
RequestSteps == {"new", "attributed", "sent", "repair", "retry", "stream", "done"}
NewRequest == [at |-> "new", turn |-> {}, model |-> {}, wire |-> "none", again |-> FALSE,
               failed |-> "none"]
NoRecord == [state |-> "none", model |-> {}, ok |-> FALSE]

\* Where a request goes next.
Proceeds(r, step) == req' = [req EXCEPT ![r].at = step]

\* A request without a turn leaves no record.
Records(r, state, ok) ==
    record' = [record EXCEPT ![r] =
                 IF req[r].turn = {} THEN @
                 ELSE [state |-> state, model |-> req'[r].model, ok |-> ok]]

(***************************************************************************)
(* Turns and their policy.                                                 *)
(***************************************************************************)
\* A repin starts afresh and forgets what was refused.
RepinnedClean(p, m) == [pin |-> {m}, last |-> {m}, rejected |-> {}, disclosed |-> {}]

\* A repin starts afresh, except for what the provider refuses.
Repinned(p, m) ==
    [pin |-> {m}, last |-> {m}, rejected |-> p.rejected, disclosed |-> {}]

BeginTurn(t) ==
    /\ reg[t] = "new" /\ t \in left.prompts
    /\ \A u \in Turns \ {t} : Sid[u] = Sid[t] => reg[u] # "on"
    /\ reg' = [reg EXCEPT ![t] = "on"]
    /\ policy' = [policy EXCEPT ![Sid[t]] = IF @.pin = {Pin[t]} THEN @ ELSE Repinned(@, Pin[t])]
    /\ UNCHANGED <<seatVars, req, record, cordoned, down, refused>>

\* The guard is dropped; requests may still be under way.
EndTurn(t) ==
    /\ reg[t] = "on"
    /\ reg' = [reg EXCEPT ![t] = "off"]
    /\ UNCHANGED <<seatVars, policy, req, record, cordoned, down, refused>>

(***************************************************************************)
(* Attribution and decision.                                               *)
(***************************************************************************)
On == {t \in Turns : reg[t] = "on"}
Matches(r) == {t \in On : r \in Hinted /\ Sid[t] = Sid[Maker[r]]}

\* Of several turns, the first will do.
AttributeFirst(r) == IF On = {} THEN {} ELSE {CHOOSE t \in On : TRUE}

\* The only turn, or the one that the body names.
Attribute(r) ==
    IF Cardinality(On) = 1 THEN On
    ELSE IF Cardinality(Matches(r)) = 1 THEN Matches(r) ELSE {}

Arrive(r) ==
    /\ req[r].at = "new" /\ reg[Maker[r]] # "new"
    /\ req' = [req EXCEPT ![r].at = "attributed", ![r].turn = Attribute(r)]
    /\ UNCHANGED <<seatVars, reg, policy, record, cordoned, down, refused>>

PinRouteable(m) == m \notin cordoned /\ Routeable(Here, m)

\* Siblings with budget that are neither down nor refused in this session.
Alternates(s, pin) ==
    {m \in Models \ {pin} : PinRouteable(m) /\ m \notin down /\ m \notin policy[s].rejected}
Strongest(ms) == CHOOSE m \in ms : \A n \in ms : Strength[n] <= Strength[m]

Decided(s, pin) ==
    IF PinRouteable(pin) \/ Alternates(s, pin) = {} THEN pin
    ELSE Strongest(Alternates(s, pin))

\* Staying on the pin passes the adapter's model string through.
WireOfAlias(m, pin) == IF m = pin THEN "asis" ELSE m

\* The pin's own wire id is always written; the alias stands in only where no
\* id is declared.
WireOf(m, pin) == IF m = pin /\ m \notin Declared THEN "asis" ELSE m

Select(r) ==
    /\ req[r].at = "attributed"
    /\ IF req[r].turn = {}
       THEN /\ req' = [req EXCEPT ![r].at = "sent", ![r].wire = "asis"]
            /\ UNCHANGED policy
       ELSE \E t \in req[r].turn :
              LET m == Decided(Sid[t], Pin[t])
                  kept == policy[Sid[t]]
              IN /\ req' = [req EXCEPT ![r].at = "sent", ![r].model = {m},
                                       ![r].wire = WireOf(m, Pin[t])]
                 /\ policy' = [policy EXCEPT ![Sid[t]] =
                       [(IF kept.pin = {Pin[t]} THEN kept ELSE Repinned(kept, Pin[t]))
                          EXCEPT !.last = {m}]]
    /\ UNCHANGED <<seatVars, reg, record, cordoned, down, refused>>

PinOf(r) == {Pin[t] : t \in req[r].turn}
HonorsPin(r) == req[r].wire # "asis" /\ req[r].model = PinOf(r)
Alternate(r) == req[r].wire # "asis" /\ req[r].model # PinOf(r)

(***************************************************************************)
(* Upstream.                                                               *)
(***************************************************************************)
\* The response, or a second 401, goes back under an open record.
Streams(r, ok) == Proceeds(r, "stream") /\ Records(r, "open", ok)

\* The account's credential cannot be read, before the first send or after a
\* repair: no record.
NoCredential(r) ==
    /\ (req[r].at = "sent" /\ ~req[r].again) \/ req[r].at = "repair"
    /\ left.fault > 0 /\ left' = Spend("fault")
    /\ Proceeds(r, "done")
    /\ UNCHANGED <<seat, login, snap, lock, poll, alive, known, hint, paid, contested>>
    /\ UNCHANGED <<reg, policy, record, cordoned, down, refused>>

Answers(r) ==
    /\ req[r].at = "sent" /\ req[r].wire \notin Unserved
    /\ Streams(r, TRUE)
    /\ UNCHANGED <<seatVars, reg, policy, cordoned, down, refused>>

\* The provider cannot be reached.
SendFails(r) ==
    /\ req[r].at = "sent" /\ left.fault > 0
    /\ left' = Spend("fault")
    /\ Proceeds(r, "done") /\ Records(r, "closed", FALSE)
    /\ UNCHANGED <<seat, login, snap, lock, poll, alive, known, hint, paid, contested>>
    /\ UNCHANGED <<reg, policy, cordoned, down, refused>>

Unauthorized(r) ==
    /\ req[r].at = "sent" /\ left.fault > 0
    /\ left' = Spend("fault")
    /\ IF req[r].again THEN Streams(r, FALSE) ELSE Proceeds(r, "repair") /\ UNCHANGED record
    /\ UNCHANGED <<seat, login, snap, lock, poll, alive, known, hint, paid, contested>>
    /\ UNCHANGED <<reg, policy, cordoned, down, refused>>

\* Repaired: the same request once more. Otherwise the answer stands.
Repairs(r, repaired) ==
    /\ req[r].at = "repair"
    /\ IF repaired
       THEN req' = [req EXCEPT ![r].at = "sent", ![r].again = TRUE] /\ UNCHANGED record
       ELSE Proceeds(r, "done") /\ Records(r, "closed", FALSE)
    /\ UNCHANGED <<seatVars, reg, policy, cordoned, down, refused>>

\* A 400 or 404 ("reject"), a 400 about the request's shape ("shape"), a 5xx
\* ("outage") or a 429 ("limit").
Possible(r, status) ==
    IF req[r].wire \in Unserved THEN status = "reject" /\ left' = left
    ELSE left.fault > 0 /\ left' = Spend("fault")

\* A refused pin is cordoned and the provider's error handed back; it is never
\* retried as the alias.
RejectPinned(r, status) ==
    /\ Proceeds(r, "done") /\ Records(r, "closed", FALSE)
    /\ cordoned' = IF status = "reject" THEN cordoned \cup PinOf(r) ELSE cordoned
    /\ UNCHANGED <<policy, refused>>

\* A refused alternate is remembered for the session and the request retried
\* unchanged.
RetryUnchanged(r, status) ==
    LET s == CHOOSE s \in Sids : \E t \in req[r].turn : Sid[t] = s
        bad == IF status \in {"reject", "shape"} THEN req[r].model ELSE {}
    IN /\ req' = [req EXCEPT ![r].at = "retry", ![r].failed = status]
       /\ policy' = [policy EXCEPT ![s].rejected = @ \cup bad]
       /\ refused' = [refused EXCEPT ![s] = @ \cup bad]
       /\ UNCHANGED <<record, cordoned>>

Refuses(r, status) ==
    /\ req[r].at = "sent" /\ Possible(r, status)
    /\ \/ HonorsPin(r) /\ RejectPinned(r, status)
       \/ Alternate(r) /\ RetryUnchanged(r, status)
       \/ ~HonorsPin(r) /\ ~Alternate(r) /\ Streams(r, FALSE)
          /\ UNCHANGED <<policy, cordoned, refused>>
    /\ UNCHANGED <<seat, login, snap, lock, poll, alive, known, hint, paid, contested>>
    /\ UNCHANGED <<reg, down>>

\* The unchanged body is answered: the decision becomes the pin's, an outage
\* cordons the alternate and the session is told once.
RetryAnswers(r, ok) ==
    /\ req[r].at = "retry"
    /\ req' = [req EXCEPT ![r].at = "stream", ![r].model = PinOf(r), ![r].wire = "asis"]
    /\ Records(r, "open", ok)
    /\ down' = IF req[r].failed = "outage" THEN down \cup req[r].model ELSE down
    /\ policy' = [policy EXCEPT ![CHOOSE s \in Sids : \E t \in req[r].turn : Sid[t] = s].disclosed =
                    @ \cup req[r].model]
    /\ UNCHANGED <<seatVars, reg, cordoned, refused>>

\* It is not: the alternate's answer goes back.
RetryFails(r) ==
    /\ req[r].at = "retry" /\ left.fault > 0
    /\ left' = Spend("fault")
    /\ Streams(r, FALSE)
    /\ UNCHANGED <<seat, login, snap, lock, poll, alive, known, hint, paid, contested>>
    /\ UNCHANGED <<reg, policy, cordoned, down, refused>>

\* Only a stream that completes closes its record.
StreamEndsOpen(r, ok) ==
    /\ req[r].at = "stream"
    /\ Proceeds(r, "done") /\ Records(r, IF ok THEN "closed" ELSE "open", ok /\ record[r].ok)
    /\ UNCHANGED <<seatVars, reg, policy, cordoned, down, refused>>

\* The stream ends, breaks, or loses its adapter: the guard closes the record.
StreamEnds(r, ok) ==
    /\ req[r].at = "stream"
    /\ Proceeds(r, "done") /\ Records(r, "closed", ok /\ record[r].ok)
    /\ UNCHANGED <<seatVars, reg, policy, cordoned, down, refused>>

\* The adapter hangs up before there is a response: the handler is dropped.
HangsUp(r) ==
    /\ req[r].at \in {"sent", "repair", "retry"} /\ left.fault > 0
    /\ left' = Spend("fault")
    /\ Proceeds(r, "done")
    /\ UNCHANGED <<seat, login, snap, lock, poll, alive, known, hint, paid, contested>>
    /\ UNCHANGED <<reg, policy, record, cordoned, down, refused>>

\* Cordons run out.
Uncordon(m) ==
    /\ m \in cordoned \cup down
    /\ cordoned' = cordoned \ {m} /\ down' = down \ {m}
    /\ UNCHANGED <<seatVars, reg, policy, req, record, refused>>

-----------------------------------------------------------------------------
ProxyInit ==
    /\ SeatInit
    /\ reg = [t \in Turns |-> "new"]
    /\ policy = [s \in Sids |-> [pin |-> {}, last |-> {}, rejected |-> {}, disclosed |-> {}]]
    /\ req = [r \in Requests |-> NewRequest]
    /\ record = [r \in Requests |-> NoRecord]
    /\ cordoned = {} /\ down = {}
    /\ refused = [s \in Sids |-> {}]

Handler(r) ==
    \/ Select(r) \/ Answers(r)
    \/ \E b \in BOOLEAN : Repairs(r, b) \/ RetryAnswers(r, b) \/ StreamEnds(r, b)

Statuses == {"reject", "shape", "outage", "limit"}
ProxyFault(r) ==
    \/ NoCredential(r) \/ SendFails(r) \/ Unauthorized(r) \/ RetryFails(r) \/ HangsUp(r)
    \/ \E status \in Statuses : Refuses(r, status)

ProxyNext ==
    \/ \E t \in Turns : BeginTurn(t) \/ EndTurn(t)
    \/ \E r \in Requests : Arrive(r) \/ Handler(r) \/ ProxyFault(r)
    \/ \E m \in Models : Uncordon(m)

ProxySpec ==
    /\ ProxyInit
    /\ [][(SeatNext /\ UNCHANGED proxyVars) \/ ProxyNext]_requestVars

\* The provider's client and the streams end: handlers of a living router go on.
LiveSpec ==
    /\ ProxySpec
    /\ WF_requestVars(Tick /\ UNCHANGED proxyVars)
    /\ \A p \in Polls : /\ WF_requestVars(PollReads(p) /\ UNCHANGED proxyVars)
                        /\ WF_requestVars(PollStep(p) /\ UNCHANGED proxyVars)
    /\ WF_requestVars(\E r \in Routers : HintExpires(r) /\ UNCHANGED proxyVars)
    /\ \A r \in Requests :
          WF_requestVars(Handler(r) \/ (req[r].wire \in Unserved /\ Refuses(r, "reject")))

(***************************************************************************)
(* Properties.                                                             *)
(***************************************************************************)
\* An alternate that the provider has refused in a session is not chosen again
\* there, through repins to another model and back (rejected_api_models).
RefusedOnce ==
    [][\A r \in Requests :
         req[r].at = "attributed" /\ req'[r].at = "sent"
         => \A t \in req[r].turn : req'[r].model \cap (refused[Sid[t]] \ {Pin[t]}) = {}]_requestVars

\* While its turn is registered, a request is decided, priced and disclosed for
\* no other turn (attribute), whatever runs beside it on the process.
OwnTurn ==
    [][\A r \in Requests :
         req[r].at = "new" /\ req'[r].at = "attributed" /\ reg[Maker[r]] = "on"
         => req'[r].turn \subseteq {Maker[r]}]_requestVars

\* A row that was started ends, whether the stream completes, breaks or loses
\* its adapter.
RecordCloses == <>[](\A r \in Requests : record[r].state # "open")

\* What a request is priced as is what the provider served: the recorded model
\* is the one that the answered body named, through repair and retry, unless
\* the pin has a wire id of its own and the unchanged body was retried.
ServedAsRecorded ==
    \A r \in Requests :
        record[r].state = "closed" /\ record[r].ok
        => \/ record[r].model = {req[r].wire}
           \/ req[r].wire = "asis" /\ record[r].model = PinOf(r)
              /\ (PinOf(r) \cap Declared = {} \/ req[r].failed # "none")

\* The same without the exception.
NeverTheAlias ==
    \A r \in Requests :
        record[r].state = "closed" /\ record[r].ok /\ req[r].wire = "asis"
        => PinOf(r) \cap Declared = {}
=============================================================================
