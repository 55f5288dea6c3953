----------------------------- MODULE Decisions -----------------------------
(***************************************************************************)
(* The decisions agents ask for while they work: the permission broker of   *)
(* src/connector/acp.rs, and the calls of the session manager that record   *)
(* a request, answer it, grant it under --express and cancel it with its    *)
(* turn.                                                                    *)
(*                                                                         *)
(* Every lane runs one turn. A request is a name, an option is its kind,    *)
(* and the room's log is kept request by request. "cancel" is the answer    *)
(* that is no option (PermissionResolution::Cancelled).                     *)
(***************************************************************************)
EXTENDS Integers, Sequences, FiniteSets

CONSTANTS
    Lanes,       (* lanes with a running turn                               *)
    Askers,      (* bound: those whose agent asks; the turns of the others  *)
                 (* run until a cancel stops them                           *)
    Requests,    (* permission requests the agents may send                 *)
    Clients,     (* callers of the resolve endpoint                         *)
    Offers,      (* sets of options a request may come with                 *)
    None,        (* no lane, request or option                              *)
    Express,     (* Manager::express                                        *)
    MaxFaults    (* bound: appends that fail, and processes that die        *)

Options == {"allow_once", "allow_always", "reject_once"}

ASSUME DecisionsAssumption ==
    /\ None \notin Lanes \cup Requests \cup Options \cup {"cancel"}
    /\ Askers \subseteq Lanes /\ Lanes \cap Clients = {}
    /\ Offers \subseteq SUBSET Options
    /\ Express \in BOOLEAN /\ MaxFaults \in Nat

VARIABLES
    lane,        \* per lane: [turn, active, token, alive]
    asked,       \* per request: [lane, offers]
    pending,     \* requests in the broker's map
    box,         \* per request, what its oneshot channel holds
    waiter,      \* per request, the task that answers the agent
    answer,      \* per request, the answer that task took
    part,        \* per request, the part that tells the manager of it
    call,        \* per caller, the resolve it makes: [at, request, option]
    stop,        \* the cancel call: [at, lanes, todo]
    log,         \* per request, the events that name it: [kind, option, by]
    faults

vars == <<lane, asked, pending, box, waiter, answer, part, call, stop, log, faults>>
broker == <<pending, box, waiter, answer>>

Callers == Clients \cup Lanes      \* a lane's loop resolves for "express"
NoCall == [at |-> "idle", request |-> None, option |-> None]
NoStop == [at |-> "idle", lanes |-> {}, todo |-> {}]

LaneOf(r) == asked[r].lane

(* An append that `?` or `let _` may see fail. *)
Stored(r, kind, option, by) ==
    /\ log' = [log EXCEPT ![r] = Append(@, [kind |-> kind, option |-> option, by |-> by])]
    /\ UNCHANGED faults
NotStored ==
    /\ faults < MaxFaults /\ faults' = faults + 1
    /\ UNCHANGED log

-----------------------------------------------------------------------------
(* run_lane's handler of session/request_permission: without an active turn *)
(* the agent is told "cancelled" at once, otherwise the request is entered  *)
(* in the map, the turn is sent a part and a task waits for the answer.     *)
Ask(r, a, offers) ==
    /\ LaneOf(r) = None /\ lane[a].alive
    /\ asked' = [asked EXCEPT ![r] = [lane |-> a, offers |-> offers]]
    /\ IF lane[a].active
       THEN /\ pending' = pending \cup {r}
            /\ waiter' = [waiter EXCEPT ![r] = "waits"]
            /\ part' = [part EXCEPT ![r] = IF lane[a].turn = "runs" THEN "sent" ELSE "lost"]
            /\ UNCHANGED answer
       ELSE /\ waiter' = [waiter EXCEPT ![r] = "told"]
            /\ answer' = [answer EXCEPT ![r] = "cancel"]
            /\ UNCHANGED <<pending, part>>
    /\ UNCHANGED <<lane, box, call, stop, log, faults>>

(* A slip: the task does not watch its turn's token. *)
WatchesNothing(r) == FALSE

Watches(r) == lane[LaneOf(r)].token = "cancelled"

(* The task takes the answer or the cancellation, whichever it sees first, *)
(* and drops its end of the channel.                                       *)
Pick(r) ==
    /\ waiter[r] = "waits"
    /\ \/ box[r] # None /\ answer' = [answer EXCEPT ![r] = box[r]]
       \/ Watches(r) /\ answer' = [answer EXCEPT ![r] = "cancel"]
    /\ waiter' = [waiter EXCEPT ![r] = "picked"]
    /\ UNCHANGED <<lane, asked, pending, box, part, call, stop, log, faults>>

(* finish, then the response to the agent. *)
Finish(r) ==
    /\ waiter[r] = "picked"
    /\ pending' = pending \ {r}
    /\ waiter' = [waiter EXCEPT ![r] = "told"]
    /\ UNCHANGED <<lane, asked, box, answer, part, call, stop, log, faults>>

-----------------------------------------------------------------------------
(* The turns.                                                              *)

(* The agent answers the prompt, or run_lane gives up on it. *)
PromptEnds(a) ==
    /\ lane[a].active
    /\ lane' = [lane EXCEPT ![a].active = FALSE]
    /\ UNCHANGED <<asked, broker, part, call, stop, log, faults>>

(* The process dies, and the tasks of its connection with it. *)
Die(a) ==
    /\ lane[a].alive
    /\ faults < MaxFaults /\ faults' = faults + 1
    /\ lane' = [lane EXCEPT ![a].alive = FALSE, ![a].active = FALSE]
    /\ waiter' = [r \in Requests |->
                    IF LaneOf(r) = a /\ waiter[r] \in {"waits", "picked"} THEN "dropped"
                    ELSE waiter[r]]
    /\ UNCHANGED <<asked, pending, box, answer, part, call, stop, log>>

(* The turn's timeout passes, which cancels the transport's token. *)
TimesOut(a) ==
    /\ lane[a].turn = "runs" /\ lane[a].token = "live"
    /\ lane' = [lane EXCEPT ![a].token = "cancelled"]
    /\ UNCHANGED <<asked, broker, part, call, stop, log, faults>>

(* The loop ends: at once when cancelled, which loses the parts not yet    *)
(* taken, else when the prompt is over and every part was recorded.        *)
TurnOver(a) ==
    /\ lane[a].turn = "runs" /\ call[a].at = "idle"
    /\ \/ lane[a].token = "cancelled"
       \/ ~lane[a].active /\ \A r \in Requests : LaneOf(r) = a => part[r] # "sent"
    /\ lane' = [lane EXCEPT ![a].turn = "over"]
    /\ part' = [r \in Requests |-> IF LaneOf(r) = a /\ part[r] = "sent" THEN "lost" ELSE part[r]]
    /\ UNCHANGED <<asked, broker, call, stop, log, faults>>

(* record_part: the request is logged, whether or not the store takes it,  *)
(* then given to express_resolve, which the loop waits for.                *)
Record(r) ==
    /\ part[r] = "sent" /\ call[LaneOf(r)].at = "idle"
    /\ part' = [part EXCEPT ![r] = "recorded"]
    /\ Stored(r, "requested", None, LaneOf(r)) \/ NotStored
    /\ call' = IF Express
               THEN [call EXCEPT ![LaneOf(r)] = [at |-> "look", request |-> r, option |-> None]]
               ELSE call
    /\ UNCHANGED <<lane, asked, broker, stop>>

-----------------------------------------------------------------------------
(* Manager::resolve_interaction and PermissionBroker::resolve.              *)

Idle(c) == call' = [call EXCEPT ![c] = NoCall]
GoesOn(c, where) == call' = [call EXCEPT ![c].at = where]

(* A client's call finds the request pending and its option offered. *)
Look(c, r, option) ==
    /\ c \in Clients /\ call[c].at = "idle"
    /\ r \in pending /\ option \in asked[r].offers \cup {"cancel"}
    /\ call' = [call EXCEPT ![c] = [at |-> "log", request |-> r, option |-> option]]
    /\ UNCHANGED <<lane, asked, broker, part, stop, log, faults>>

(* A slip: --express gives what is offered first, a refusal included. *)
ExpressFirst(offers) == CHOOSE o \in offers : TRUE

(* The option --express gives: allow_once where it is offered, else another *)
(* that allows, else none.                                                  *)
ExpressOption(offers) ==
    IF "allow_once" \in offers THEN "allow_once"
    ELSE IF "allow_always" \in offers THEN "allow_always" ELSE None

(* express_resolve, after the request was looked up. *)
ExpressChooses(a) ==
    /\ a \in Lanes /\ call[a].at = "look"
    /\ LET r == call[a].request IN
       LET option == ExpressOption(asked[r].offers) IN
        \/ r \notin pending /\ Idle(a) /\ UNCHANGED <<log, faults>>
        \/ /\ r \in pending /\ option # None
           /\ call' = [call EXCEPT ![a].at = "log", ![a].option = option]
           /\ UNCHANGED <<log, faults>>
        \/ /\ r \in pending /\ option = None
           /\ Stored(r, "declined", None, a) \/ NotStored
           /\ Idle(a)
    /\ UNCHANGED <<lane, asked, broker, part, stop>>

(* A slip: the broker is asked first, the record made after. *)
LogRequestLast(c) ==
    /\ call[c].at = "log" /\ GoesOn(c, "resolve")
    /\ UNCHANGED <<lane, asked, broker, part, stop, log, faults>>

(* interaction.resolution_requested is appended before the broker is asked. *)
LogRequest(c) ==
    /\ call[c].at = "log"
    /\ \/ Stored(call[c].request, "resolution_requested", call[c].option, c) /\ GoesOn(c, "resolve")
       \/ NotStored /\ Idle(c)
    /\ UNCHANGED <<lane, asked, broker, part, stop>>

(* A slip: the entry stays in the map until the task has finished. *)
ResolveKeeps(c) ==
    /\ call[c].at = "resolve"
    /\ LET r == call[c].request IN
        IF r \in pending /\ waiter[r] = "waits"
        THEN box' = [box EXCEPT ![r] = call[c].option] /\ GoesOn(c, "resolved")
        ELSE Idle(c) /\ UNCHANGED box
    /\ UNCHANGED <<lane, asked, pending, waiter, answer, part, stop, log, faults>>

(* The entry is taken out of the map under its lock and its sender used;    *)
(* that fails when the task which held the receiver is past its choice.     *)
Resolve(c) ==
    /\ call[c].at = "resolve"
    /\ LET r == call[c].request IN
        IF r \in pending
        THEN /\ pending' = pending \ {r}
             /\ IF waiter[r] = "waits"
                THEN box' = [box EXCEPT ![r] = call[c].option] /\ GoesOn(c, "resolved")
                ELSE Idle(c) /\ UNCHANGED box
        ELSE Idle(c) /\ UNCHANGED <<pending, box>>
    /\ UNCHANGED <<lane, asked, waiter, answer, part, stop, log, faults>>

LogResolved(c) ==
    /\ call[c].at = "resolved"
    /\ Stored(call[c].request, "resolved", call[c].option, c) \/ NotStored
    /\ Idle(c)
    /\ UNCHANGED <<lane, asked, broker, part, stop>>

-----------------------------------------------------------------------------
(* Manager::cancel, of one agent's turn or of every turn that runs.         *)

CancelLooks(lanes) ==
    /\ stop.at = "idle" /\ lanes # {}
    /\ \A a \in lanes : lane[a].turn = "runs" /\ lane[a].token = "live"
    /\ stop' = [at |-> "requested", lanes |-> lanes, todo |-> {}]
    /\ UNCHANGED <<lane, asked, broker, part, call, log, faults>>

Concerns(r, lanes) == LaneOf(r) \in lanes

(* turn.cancel_requested is appended, then the pending requests are read. *)
CancelReads ==
    /\ stop.at = "requested"
    /\ stop' = [stop EXCEPT !.at = "logging", !.todo = {r \in pending : Concerns(r, stop.lanes)}]
    /\ UNCHANGED <<lane, asked, broker, part, call, log, faults>>

CancelLogs(r) ==
    /\ stop.at = "logging" /\ r \in stop.todo
    /\ \/ /\ Stored(r, "cancel_requested", None, None)
          /\ stop' = [stop EXCEPT !.todo = @ \ {r}]
       \/ NotStored /\ stop' = NoStop
    /\ UNCHANGED <<lane, asked, broker, part, call>>

CancelTokens ==
    /\ stop.at = "logging" /\ stop.todo = {}
    /\ lane' = [a \in Lanes |-> IF a \in stop.lanes THEN [lane[a] EXCEPT !.token = "cancelled"]
                                ELSE lane[a]]
    /\ stop' = NoStop
    /\ UNCHANGED <<asked, broker, part, call, log, faults>>

-----------------------------------------------------------------------------
Init ==
    /\ lane = [a \in Lanes |-> [turn |-> "runs", active |-> TRUE, token |-> "live", alive |-> TRUE]]
    /\ asked = [r \in Requests |-> [lane |-> None, offers |-> {}]]
    /\ pending = {}
    /\ box = [r \in Requests |-> None]
    /\ waiter = [r \in Requests |-> "none"]
    /\ answer = [r \in Requests |-> None]
    /\ part = [r \in Requests |-> "none"]
    /\ call = [c \in Callers |-> NoCall]
    /\ stop = NoStop
    /\ log = [r \in Requests |-> <<>>]
    /\ faults = 0

CallStep(c) == ExpressChooses(c) \/ LogRequest(c) \/ Resolve(c) \/ LogResolved(c)
CancelStep == CancelReads \/ (\E r \in Requests : CancelLogs(r)) \/ CancelTokens

Next ==
    \/ \E r \in Requests, a \in Askers, o \in Offers : Ask(r, a, o)
    \/ \E r \in Requests : Pick(r) \/ Finish(r) \/ Record(r)
    \/ \E a \in Askers : PromptEnds(a) \/ Die(a) \/ TimesOut(a) \/ TurnOver(a)
    \/ \E c \in Callers : CallStep(c)
    \/ \E c \in Clients, r \in Requests, o \in Options \cup {"cancel"} : Look(c, r, o)
    \/ \E lanes \in SUBSET Lanes : CancelLooks(lanes)
    \/ CancelStep

Spec == Init /\ [][Next]_vars

(* The runtime polls its tasks; agents and clients need do nothing. *)
Fairness ==
    /\ \A r \in Requests : WF_vars(Pick(r)) /\ WF_vars(Finish(r))
    /\ \A c \in Callers : WF_vars(CallStep(c))
    /\ WF_vars(CancelStep)

FairSpec == Spec /\ Fairness
-----------------------------------------------------------------------------
(* Properties.                                                             *)

Cancelled(r) == LaneOf(r) # None /\ lane[LaneOf(r)].token = "cancelled"
Answers == Options \cup {"cancel"}
Event == [kind : {"requested", "declined", "resolution_requested", "resolved", "cancel_requested"},
          option : Answers \cup {None}, by : Callers \cup {None}]

(* Every variable holds what the code's types let it hold, a request is     *)
(* pending only from when it was asked, and a call past its checks asks for *)
(* what the request offers.                                                 *)
TypeOK ==
    /\ lane \in [Lanes -> [turn : {"runs", "over"}, active : BOOLEAN,
                           token : {"live", "cancelled"}, alive : BOOLEAN]]
    /\ asked \in [Requests -> [lane : Lanes \cup {None}, offers : Offers \cup {{}}]]
    /\ pending \subseteq {r \in Requests : LaneOf(r) # None}
    /\ box \in [Requests -> Answers \cup {None}]
    /\ waiter \in [Requests -> {"none", "waits", "picked", "told", "dropped"}]
    /\ answer \in [Requests -> Answers \cup {None}]
    /\ part \in [Requests -> {"none", "sent", "recorded", "lost"}]
    /\ call \in [Callers -> [at : {"idle", "look", "log", "resolve", "resolved"},
                             request : Requests \cup {None}, option : Answers \cup {None}]]
    /\ \A c \in Callers : call[c].at \in {"log", "resolve", "resolved"} =>
           call[c].option \in asked[call[c].request].offers \cup {"cancel"}
    /\ stop \in [at : {"idle", "requested", "logging"}, lanes : SUBSET Lanes, todo : SUBSET Requests]
    /\ log \in [Requests -> Seq(Event)]
    /\ faults \in Nat

Logged(r, kind) == {i \in DOMAIN log[r] : log[r][i].kind = kind}

(* SECURITY.md:144: an agent is never told an option that it did not offer, *)
(* or that no caller is on record as asking for, whatever the store fails   *)
(* to write and whoever else answers, cancels or ends at the time.          *)
GrantOnRecord == \A r \in Requests :
    answer[r] \in Options =>
        /\ answer[r] \in asked[r].offers
        /\ \E i \in Logged(r, "resolution_requested") : log[r][i].option = answer[r]

(* A request is resolved once on record, and with what the agent is told,   *)
(* unless its turn was cancelled or its process died at the time.           *)
ResolvedIsTold == \A r \in Requests : \A i \in Logged(r, "resolved") :
    /\ Logged(r, "resolved") = {i}
    /\ \/ log[r][i].option = answer[r]
       \/ answer[r] = None /\ (box[r] = log[r][i].option)
       \/ answer[r] = "cancel" /\ Cancelled(r)

(* cli.md:279: what --express grants follows its request in the log, and a  *)
(* request that offers nothing to allow is left to a person.                *)
ExpressLeavesTrail ==
    faults = 0 =>
        \A r \in Requests : \A i \in Logged(r, "resolution_requested") :
            log[r][i].by \in Lanes =>
                /\ \E j \in Logged(r, "requested") : j < i
                /\ log[r][i].option \in {"allow_once", "allow_always"} \cap asked[r].offers
                /\ Logged(r, "declined") = {}

(* integrating.md:230: cancelling the turn cancels the request. As long as  *)
(* the agent lives, nothing it asked in a cancelled turn stays pending.     *)
CancelEndsRequests == \A r \in Requests :
    (r \in pending /\ Cancelled(r)) ~> (r \notin pending \/ ~lane[LaneOf(r)].alive)
=============================================================================
