-------------------------------- MODULE Room --------------------------------
(***************************************************************************)
(* One room of the session manager (src/session/manager.rs): its inbox,    *)
(* one lane per agent, the API calls that submit, withdraw, cancel and     *)
(* close, the event log they write to, and the fold that rebuilds the room *)
(* from that log when the server comes back.                               *)
(*                                                                         *)
(* A step is what happens between two awaits at which another task can     *)
(* observe or change the room. Where a lock is held across the append      *)
(* (submit and withdraw hold the inbox, close holds the state), the append *)
(* and the change it guards are one step.                                  *)
(*                                                                         *)
(* The log is kept as the streams the fold reads: the order of events      *)
(* within a stream is kept, the order between streams only where a         *)
(* property needs it (the set logAsked).                                    *)
(***************************************************************************)
EXTENDS Integers, Sequences, FiniteSets

CONSTANTS
    Agents,      (* the agents there are to be had                           *)
    Clients,     (* the API callers: at most one call in progress each       *)
    Openers,     (* the agents whose spec is opened before its first turn    *)
    MaxInputs,   (* bound: messages submitted times lanes there to read them *)
    MaxCancels,  (* bound: cancel calls                                      *)
    MaxCrashes,  (* bound: times the server stops and is restarted           *)
    MaxFaults    (* bound: failed appends and missing registrations          *)

ASSUME RoomAssumption ==
    /\ Openers \subseteq Agents
    /\ {MaxInputs, MaxCancels, MaxCrashes, MaxFaults} \subseteq Nat

VARIABLES
    (* The event log. *)
    members,       \* the agents session.created names: one lane each
    logInputs,     \* input.submitted, in order: [author, wake]
    logWithdrawn,  \* positions named by an input.withdrawn
    logTurns,      \* per agent, turn.started in order, with the turn's end
    logOpened,     \* agents with a session.opened
    logAsked,      \* turns a turn.cancel_requested was about
    logClosed,     \* is there a session.closed
    (* The room in memory. *)
    inbox, speakers, closed, history,
    (* Its lanes. *)
    pc,            \* where lane_loop and run_turn are
    wake,          \* the lane's wake channel (capacity 1) holds a token
    seen,          \* the clone of the inbox lane_loop took
    cursor, turn, armed, stop, opened,
    (* API calls in progress: [op, left, held]. *)
    call,
    (* Bounds and history. *)
    cancels, crashes, faults,
    minted,        \* turns each lane ever made: the next one's identity
    ran            \* inputs each agent was ever asked to work on

logVars    == <<members, logInputs, logWithdrawn, logTurns, logOpened, logAsked, logClosed>>
roomVars   == <<inbox, speakers, closed, history>>
laneVars   == <<pc, wake, seen, cursor, turn, armed, stop, opened, minted, ran>>
boundVars  == <<cancels, crashes, faults>>
vars       == <<logVars, roomVars, laneVars, call, boundVars>>

-----------------------------------------------------------------------------
(* Types and small operators.                                              *)

Ends      == {"finished", "failed", "cancelled"}
NoTurn    == [no |-> 0, inputs |-> {}, end |-> "running"]
Idle      == [op |-> "idle", left |-> {}, held |-> {}]

(* The lane is between turns: parked on its channel, or looking for work. *)
Resting   == {"recv", "snapshot", "take"}
(* The lane holds a turn. *)
Busy      == {"start", "arm", "open", "run", "finish", "keep"}

Read(a) == (UNION {history[a][k].inputs : k \in DOMAIN history[a]}) \cup turn[a].inputs

(* A turn.finished, turn.failed or turn.cancelled in the log, as the fold   *)
(* applies it: to the turn it names, if the log has its turn.started.       *)
WithEnd(turns, no, end) ==
    [k \in DOMAIN turns |->
        IF turns[k].no = no THEN [turns[k] EXCEPT !.end = end] ELSE turns[k]]

(* Events::append returned an error and stored nothing. *)
AppendFails == faults < MaxFaults /\ faults' = faults + 1

(* A slip: a wake-up that is not kept for a lane that is not parked.        *)
NudgeParked(a) == wake' = [wake EXCEPT ![a] = @ \/ pc[a] = "recv"]

(* Lane::nudge: try_send on a channel that holds one token, and has no      *)
(* receiver once the lane loop has returned.                                *)
Nudge(a) == wake' = [wake EXCEPT ![a] = pc[a] # "gone"]

-----------------------------------------------------------------------------
(* Submitting and withdrawing.                                             *)

(* submit reads the room's state and lets go of it before it does anything  *)
(* else.                                                                    *)
SubmitCheck(c) ==
    /\ call[c].op = "idle"
    /\ ~closed
    /\ Cardinality(members) * (Len(inbox) + Cardinality({d \in Clients : call[d].op = "submit"}))
            < MaxInputs
    /\ call' = [call EXCEPT ![c].op = "submit"]
    /\ UNCHANGED <<logVars, roomVars, laneVars, boundVars>>

(* The speakers and inbox locks are held from who_wakes to the push. Which  *)
(* agents a message wakes is who_wakes' answer, any set here.               *)
SubmitAppend(c) ==
    /\ call[c].op = "submit"
    /\ \E w \in SUBSET members :
        /\ logInputs' = Append(logInputs, [author |-> c, wake |-> w])
        /\ inbox' = Append(inbox, [wake |-> w, withdrawn |-> FALSE])
    /\ speakers' = speakers \cup {c}
    /\ call' = [call EXCEPT ![c] = [op |-> "nudge", left |-> members, held |-> {}]]
    /\ UNCHANGED <<members, logWithdrawn, logTurns, logOpened, logAsked, logClosed, closed, history,
                   laneVars, boundVars>>

(* The append failed: the speaker just added is taken out again. *)
SubmitFails(c) ==
    /\ call[c].op = "submit"
    /\ AppendFails
    /\ call' = [call EXCEPT ![c] = Idle]
    /\ UNCHANGED <<logVars, roomVars, laneVars, cancels, crashes>>

(* A call is over once no lane is left for it to visit. *)
Visited(c, a) ==
    IF call[c].left = {a} THEN Idle ELSE [call[c] EXCEPT !.left = @ \ {a}]

SubmitNudge(c, a) ==
    /\ call[c].op = "nudge"
    /\ a \in call[c].left
    /\ Nudge(a)
    /\ call' = [call EXCEPT ![c] = Visited(c, a)]
    /\ UNCHANGED <<logVars, roomVars, pc, seen, cursor, turn, armed, stop, opened, minted, ran,
                   boundVars>>

(* The inbox lock is held across the append. The room may be closed, and    *)
(* agents may have read the message: neither is asked. A failed append, or  *)
(* a message already withdrawn, changes nothing.                            *)
Withdraw(i) ==
    /\ ~inbox[i].withdrawn
    /\ logWithdrawn' = logWithdrawn \cup {i}
    /\ inbox' = [inbox EXCEPT ![i].withdrawn = TRUE]
    /\ UNCHANGED <<members, logInputs, logTurns, logOpened, logAsked, logClosed, speakers, closed,
                   history, laneVars, call, boundVars>>

-----------------------------------------------------------------------------
(* Cancelling.                                                             *)

(* The lanes the caller named, or all of them; naming none is an error.     *)
CancelCall(c) ==
    /\ call[c].op = "idle"
    /\ cancels < MaxCancels
    /\ cancels' = cancels + 1
    /\ \E S \in SUBSET members \ {{}} :
        call' = [call EXCEPT ![c] = [op |-> "cancel", left |-> S, held |-> {}]]
    /\ UNCHANGED <<logVars, roomVars, laneVars, crashes, faults>>

(* The token of the turn a lane runs, while the lane holds one. *)
Token(a) == IF armed[a] THEN {<<a, turn[a].no>>} ELSE {}

(* One lane's lock at a time: its token, if it has one. *)
CancelCollect(c, a) ==
    /\ call[c].op = "cancel"
    /\ a \in call[c].left
    /\ call' = [call EXCEPT ![c] = [op |-> "cancel", left |-> call[c].left \ {a},
                                    held |-> call[c].held \cup Token(a)]]
    /\ UNCHANGED <<logVars, roomVars, laneVars, boundVars>>

(* No token, no turn: an error. Otherwise turn.cancel_requested.            *)
CancelRecord(c) ==
    /\ call[c].op = "cancel"
    /\ call[c].left = {}
    /\ IF call[c].held = {}
       THEN call' = [call EXCEPT ![c] = Idle] /\ UNCHANGED logAsked
       ELSE /\ call' = [call EXCEPT ![c].op = "fire"]
            /\ logAsked' = logAsked \cup call[c].held
    /\ UNCHANGED <<members, logInputs, logWithdrawn, logTurns, logOpened, logClosed, roomVars,
                   laneVars, boundVars>>

(* The append of turn.cancel_requested failed, or, after it, that of an     *)
(* interaction.cancel_requested for a decision one of the lanes waits for:  *)
(* either way the call returns and no token fires.                          *)
CancelFails(c) ==
    /\ \/ call[c].op = "cancel" /\ call[c].left = {} /\ call[c].held # {}
       \/ call[c].op = "fire"
    /\ AppendFails
    /\ call' = [call EXCEPT ![c] = Idle]
    /\ UNCHANGED <<logVars, roomVars, laneVars, cancels, crashes>>

(* A slip: the lanes are kept, not their tokens, and whatever turn one of   *)
(* them holds by now is stopped.                                            *)
StopLanes(c) ==
    [a \in Agents |-> stop[a] \/ (armed[a] /\ \E x \in call[c].held : x[1] = a)]

(* The tokens fire. One whose turn is over reaches nobody.                  *)
StopHeld(c) ==
    [a \in Agents |-> stop[a] \/ (armed[a] /\ <<a, turn[a].no>> \in call[c].held)]

CancelFire(c) ==
    /\ call[c].op = "fire"
    /\ stop' = StopHeld(c)
    /\ call' = [call EXCEPT ![c] = Idle]
    /\ UNCHANGED <<logVars, roomVars, pc, wake, seen, cursor, turn, armed, opened, minted, ran,
                   boundVars>>

-----------------------------------------------------------------------------
(* Closing.                                                                *)

(* session.closed and the state change, under the state's write lock. A     *)
(* failed append, or a room already closed, changes nothing.                *)
CloseCommit(c) ==
    /\ call[c].op = "idle"
    /\ ~closed
    /\ logClosed' = TRUE
    /\ closed' = TRUE
    /\ call' = [call EXCEPT ![c] = [op |-> "close", left |-> members, held |-> {}]]
    /\ UNCHANGED <<members, logInputs, logWithdrawn, logTurns, logOpened, logAsked, inbox, speakers,
                   history, laneVars, boundVars>>

(* Then lane by lane: stop the turn it runs, if it has a token, and wake it.*)
CloseLane(c, a) ==
    /\ call[c].op = "close"
    /\ a \in call[c].left
    /\ stop' = [stop EXCEPT ![a] = @ \/ armed[a]]
    /\ Nudge(a)
    /\ call' = [call EXCEPT ![c] = Visited(c, a)]
    /\ UNCHANGED <<logVars, roomVars, pc, seen, cursor, turn, armed, opened, minted, ran,
                   boundVars>>

-----------------------------------------------------------------------------
(* The lane loop.                                                          *)

(* A slip: the state is not looked at. *)
AfterRecvUnchecked == "snapshot"

(* A lane woken in a closed room leaves for good.                           *)
AfterRecv == IF closed THEN "gone" ELSE "snapshot"

Recv(a) ==
    /\ pc[a] = "recv"
    /\ wake[a]
    /\ wake' = [wake EXCEPT ![a] = FALSE]
    /\ pc' = [pc EXCEPT ![a] = AfterRecv]
    /\ UNCHANGED <<logVars, roomVars, seen, cursor, turn, armed, stop, opened, minted, ran, call,
                   boundVars>>

(* The top of the inner loop clones the inbox and lets go of its lock. *)
Snapshot(a) ==
    /\ pc[a] = "snapshot"
    /\ seen' = [seen EXCEPT ![a] = inbox]
    /\ pc' = [pc EXCEPT ![a] = "take"]
    /\ UNCHANGED <<logVars, roomVars, wake, cursor, turn, armed, stop, opened, minted, ran, call,
                   boundVars>>

(* A slip: withdrawn messages are read like any other. *)
UnreadOrWithdrawn(a) == (cursor[a] + 1)..Len(seen[a])

(* What Lane::take finds in the clone: what was not withdrawn when it was   *)
(* made, and whether any of it wakes this agent.                            *)
Unread(a) == {i \in (cursor[a] + 1)..Len(seen[a]) : ~seen[a][i].withdrawn}
Wanted(a) == \E i \in Unread(a) : a \in seen[a][i].wake

TakeTurn(a) ==
    /\ pc[a] = "take"
    /\ Wanted(a)
    /\ cursor' = [cursor EXCEPT ![a] = Len(seen[a])]
    /\ minted' = [minted EXCEPT ![a] = @ + 1]
    /\ turn' = [turn EXCEPT ![a] = [no |-> minted[a] + 1, inputs |-> Unread(a),
                                    end |-> "running"]]
    /\ seen' = [seen EXCEPT ![a] = <<>>]
    /\ pc' = [pc EXCEPT ![a] = "start"]
    /\ UNCHANGED <<logVars, roomVars, wake, armed, stop, opened, ran, call, boundVars>>

(* A slip: the cursor passes everything the lane has looked at. *)
CursorPastUnwanted(a) == IF cursor[a] < Len(seen[a]) THEN Len(seen[a]) ELSE cursor[a]

(* The cursor passes a tail that was withdrawn whole, and waits in front of *)
(* one that merely wakes somebody else.                                     *)
CursorAfterNone(a) ==
    IF Unread(a) = {} /\ cursor[a] < Len(seen[a]) THEN Len(seen[a]) ELSE cursor[a]

TakeNothing(a) ==
    /\ pc[a] = "take"
    /\ ~Wanted(a)
    /\ cursor' = [cursor EXCEPT ![a] = CursorAfterNone(a)]
    /\ seen' = [seen EXCEPT ![a] = <<>>]
    /\ pc' = [pc EXCEPT ![a] = "recv"]
    /\ UNCHANGED <<logVars, roomVars, wake, turn, armed, stop, opened, minted, ran, call,
                   boundVars>>

-----------------------------------------------------------------------------
(* Running a turn.                                                         *)

(* The agent is not in the registry: the turn fails before it starts. Its   *)
(* turn.failed names a turn the log does not know, so the fold ignores it.  *)
NoAgent(a) ==
    /\ pc[a] = "start"
    /\ AppendFails
    /\ turn' = [turn EXCEPT ![a].end = "failed"]
    /\ pc' = [pc EXCEPT ![a] = "finish"]
    /\ UNCHANGED <<logVars, roomVars, wake, seen, cursor, armed, stop, opened, minted, ran, call,
                   cancels, crashes>>

(* turn.started. The result of the append is dropped: the turn runs on.     *)
TurnStarted(a) ==
    /\ pc[a] = "start"
    /\ \/ /\ logTurns' = [logTurns EXCEPT ![a] = Append(@, turn[a])]
          /\ UNCHANGED faults
       \/ AppendFails /\ UNCHANGED logTurns
    /\ pc' = [pc EXCEPT ![a] = "arm"]
    /\ UNCHANGED <<members, logInputs, logWithdrawn, logOpened, logAsked, logClosed, roomVars,
                   wake, seen, cursor, turn, armed, stop, opened, minted, ran,
                   call, cancels, crashes>>

(* Only now does the lane hold a token that cancel and close can find.      *)
Arm(a) ==
    /\ pc[a] = "arm"
    /\ armed' = [armed EXCEPT ![a] = TRUE]
    /\ IF a \in Openers /\ ~opened[a]
       THEN pc' = [pc EXCEPT ![a] = "open"] /\ UNCHANGED ran
       ELSE pc' = [pc EXCEPT ![a] = "run"] /\ ran' = [ran EXCEPT ![a] = @ \cup turn[a].inputs]
    /\ UNCHANGED <<logVars, roomVars, wake, seen, cursor, turn, stop, opened, minted, call,
                   boundVars>>

(* The agent's open succeeded: session.opened, whose append may be lost.    *)
Opened(a) ==
    /\ pc[a] = "open"
    /\ opened' = [opened EXCEPT ![a] = TRUE]
    /\ \/ logOpened' = logOpened \cup {a} /\ UNCHANGED faults
       \/ AppendFails /\ UNCHANGED logOpened
    /\ pc' = [pc EXCEPT ![a] = "run"]
    /\ ran' = [ran EXCEPT ![a] = @ \cup turn[a].inputs]
    /\ UNCHANGED <<members, logInputs, logWithdrawn, logTurns, logAsked, logClosed, roomVars,
                   wake, seen, cursor, turn, armed, stop, minted, call, cancels, crashes>>

(* The turn ends: cancelled if its token fired, failed on an error or a     *)
(* timeout (opening or running), finished if the agent answered. The        *)
(* terminal event's append may be lost.                                     *)
MayEnd(a, end) ==
    /\ end = "cancelled" => stop[a]
    /\ end = "finished" => pc[a] = "run"

EndTurn(a, end) ==
    /\ pc[a] \in {"open", "run"}
    /\ MayEnd(a, end)
    /\ turn' = [turn EXCEPT ![a].end = end]
    /\ \/ /\ logTurns' = [logTurns EXCEPT ![a] = WithEnd(@, turn[a].no, end)]
          /\ UNCHANGED faults
       \/ AppendFails /\ UNCHANGED logTurns
    /\ pc' = [pc EXCEPT ![a] = "finish"]
    /\ UNCHANGED <<members, logInputs, logWithdrawn, logOpened, logAsked, logClosed, roomVars,
                   wake, seen, cursor, armed, stop, opened, minted, ran, call, cancels, crashes>>

(* Lane::finish drops the token, and the turn from the lane's state.        *)
Finish(a) ==
    /\ pc[a] = "finish"
    /\ armed' = [armed EXCEPT ![a] = FALSE]
    /\ stop' = [stop EXCEPT ![a] = FALSE]
    /\ pc' = [pc EXCEPT ![a] = "keep"]
    /\ UNCHANGED <<logVars, roomVars, wake, seen, cursor, turn, opened, minted, ran, call,
                   boundVars>>

(* The turn joins the history, and the loop looks at the inbox again        *)
(* without looking at the room's state.                                     *)
Keep(a) ==
    /\ pc[a] = "keep"
    /\ history' = [history EXCEPT ![a] = Append(@, turn[a])]
    /\ turn' = [turn EXCEPT ![a] = NoTurn]
    /\ pc' = [pc EXCEPT ![a] = "snapshot"]
    /\ UNCHANGED <<logVars, inbox, speakers, closed, wake, seen, cursor, armed, stop, opened,
                   minted, ran, call, boundVars>>

-----------------------------------------------------------------------------
(* The server stops anywhere, and rebuild_session folds the log.            *)

(* A slip: input.withdrawn is not folded. *)
FoldInboxSubmitted ==
    [i \in DOMAIN logInputs |-> [wake |-> logInputs[i].wake, withdrawn |-> FALSE]]

(* input.submitted, with every input.withdrawn applied to the one it names. *)
FoldInbox ==
    [i \in DOMAIN logInputs |-> [wake |-> logInputs[i].wake, withdrawn |-> i \in logWithdrawn]]

FoldSpeakers == {logInputs[i].author : i \in DOMAIN logInputs}

(* A turn the log leaves running was interrupted. *)
FoldEnd(end) == IF end = "running" THEN "failed" ELSE end

FoldHistory(a) ==
    [k \in DOMAIN logTurns[a] |-> [logTurns[a][k] EXCEPT !.end = FoldEnd(@)]]

Given(a) == UNION {logTurns[a][k].inputs : k \in DOMAIN logTurns[a]}

(* A slip: the 0-based position of the last message, not one past it.       *)
IsLastGiven(a, n) ==
    IF Given(a) = {} THEN n = 0 ELSE n + 1 \in Given(a) /\ \A i \in Given(a) : i <= n + 1

(* A slip: turns that never ended do not count. *)
IsLastAnswered(a, n) ==
    LET given == UNION {logTurns[a][k].inputs :
                            k \in {j \in DOMAIN logTurns[a] : logTurns[a][j].end # "running"}}
    IN  (\A i \in given : i <= n) /\ (n = 0 \/ n \in given)

(* n is one past the last (0-based) message any started turn of a was given.*)
IsFoldCursor(a, n) ==
    (\A i \in Given(a) : i <= n) /\ (n = 0 \/ n \in Given(a))

(* Crash, restart and rehydrate as one step: no request is served and no    *)
(* lane moves before rehydrate has rebuilt the room and nudged its lanes.   *)
(* Calls in progress die with the server. A closed room gets no lane loops. *)
Restart ==
    /\ crashes < MaxCrashes
    /\ crashes' = crashes + 1
    /\ inbox' = FoldInbox
    /\ speakers' = FoldSpeakers
    /\ closed' = logClosed
    /\ history' = [a \in Agents |-> FoldHistory(a)]
    /\ cursor' \in [Agents -> 0..Len(logInputs)]
    /\ \A a \in Agents : IsFoldCursor(a, cursor'[a])
    /\ opened' = [a \in Agents |-> a \in logOpened]
    /\ pc' = [a \in Agents |-> IF logClosed \/ a \notin members THEN "gone" ELSE "recv"]
    /\ wake' = [a \in Agents |-> ~logClosed /\ a \in members]
    /\ seen' = [a \in Agents |-> <<>>]
    /\ turn' = [a \in Agents |-> NoTurn]
    /\ armed' = [a \in Agents |-> FALSE]
    /\ stop' = [a \in Agents |-> FALSE]
    /\ call' = [c \in Clients |-> Idle]
    /\ UNCHANGED <<logVars, cancels, faults, minted, ran>>

-----------------------------------------------------------------------------
(* A room create_scoped has just made, of some agents, at least one: its    *)
(* session.created is in the log.                                           *)
Init ==
    /\ members \in SUBSET Agents \ {{}}
    /\ logInputs = <<>> /\ logWithdrawn = {} /\ logOpened = {} /\ logAsked = {}
    /\ logTurns = [a \in Agents |-> <<>>]
    /\ logClosed = FALSE
    /\ inbox = <<>> /\ speakers = {} /\ closed = FALSE
    /\ history = [a \in Agents |-> <<>>]
    /\ pc = [a \in Agents |-> IF a \in members THEN "recv" ELSE "gone"]
    /\ wake = [a \in Agents |-> FALSE]
    /\ seen = [a \in Agents |-> <<>>]
    /\ cursor = [a \in Agents |-> 0]
    /\ turn = [a \in Agents |-> NoTurn]
    /\ armed = [a \in Agents |-> FALSE]
    /\ stop = [a \in Agents |-> FALSE]
    /\ opened = [a \in Agents |-> FALSE]
    /\ minted = [a \in Agents |-> 0]
    /\ ran = [a \in Agents |-> {}]
    /\ call = [c \in Clients |-> Idle]
    /\ cancels = 0 /\ crashes = 0 /\ faults = 0

(* One task runs each lane. *)
LaneStep(a) ==
    \/ Recv(a) \/ Snapshot(a) \/ TakeTurn(a) \/ TakeNothing(a)
    \/ NoAgent(a) \/ TurnStarted(a) \/ Arm(a) \/ Opened(a)
    \/ \E end \in Ends : EndTurn(a, end)
    \/ Finish(a) \/ Keep(a)

(* A call that has begun goes on. *)
CallStep(c) ==
    \/ SubmitAppend(c) \/ SubmitFails(c)
    \/ \E a \in Agents : SubmitNudge(c, a) \/ CancelCollect(c, a) \/ CloseLane(c, a)
    \/ CancelRecord(c) \/ CancelFails(c) \/ CancelFire(c)

(* Callers begin calls as they please. *)
CallBegins ==
    \/ \E c \in Clients : SubmitCheck(c) \/ CancelCall(c) \/ CloseCommit(c)
    \/ \E i \in DOMAIN inbox : Withdraw(i)

Next ==
    \/ \E a \in Agents : LaneStep(a)
    \/ \E c \in Clients : CallStep(c)
    \/ CallBegins
    \/ Restart

Spec == Init /\ [][Next]_vars

(* The runtime polls every lane task and every handler that can go on, and  *)
(* timeouts bound every open and every turn. Nothing makes callers call.    *)
Fairness ==
    /\ \A a \in Agents : WF_vars(LaneStep(a))
    /\ \A c \in Clients : WF_vars(CallStep(c))

FairSpec == Spec /\ Fairness
-----------------------------------------------------------------------------
(* Types. *)

LogInput  == [author : Clients, wake : SUBSET Agents]
Input     == [wake : SUBSET Agents, withdrawn : BOOLEAN]
Turn      == [no : Nat, inputs : SUBSET (Nat \ {0}), end : Ends \cup {"running"}]
EndedTurn == [no : Nat, inputs : SUBSET (Nat \ {0}), end : Ends]
Call      == [op : {"idle", "submit", "nudge", "cancel", "fire", "close"},
              left : SUBSET Agents, held : SUBSET (Agents \X Nat)]

LogType ==
    /\ members \subseteq Agents
    /\ logInputs \in Seq(LogInput)
    /\ logWithdrawn \subseteq Nat
    /\ logTurns \in [Agents -> Seq(Turn)]
    /\ logOpened \subseteq Agents
    /\ logAsked \subseteq Agents \X Nat
    /\ logClosed \in BOOLEAN

RoomType ==
    /\ inbox \in Seq(Input)
    /\ speakers \subseteq Clients
    /\ closed \in BOOLEAN
    /\ history \in [Agents -> Seq(EndedTurn)]

LaneType ==
    /\ pc \in [Agents -> Resting \cup Busy \cup {"gone"}]
    /\ wake \in [Agents -> BOOLEAN]
    /\ seen \in [Agents -> Seq(Input)]
    /\ cursor \in [Agents -> Nat]
    /\ turn \in [Agents -> Turn]
    /\ \A a \in Agents : pc[a] \in {"finish", "keep"} => turn[a] \in EndedTurn
    /\ armed \in [Agents -> BOOLEAN]
    /\ stop \in [Agents -> BOOLEAN]
    /\ opened \in [Agents -> BOOLEAN]
    /\ minted \in [Agents -> Nat]
    /\ ran \in [Agents -> SUBSET (Nat \ {0})]

CallType == call \in [Clients -> Call]

BoundType == cancels \in Nat /\ crashes \in Nat /\ faults \in Nat

(* Every variable holds what the code's types let it hold, and in the       *)
(* history of a room, live or rebuilt, no turn is still running.            *)
TypeOK == LogType /\ RoomType /\ LaneType /\ CallType /\ BoundType

-----------------------------------------------------------------------------
(* Safety.                                                                 *)

(* "Sessions are a fold over the log": as long as every append succeeded,   *)
(* the room in memory is at every moment the one a restart would rebuild,   *)
(* but for a turn in progress; a lane between turns stands where the fold   *)
(* puts it, or further only over messages that were withdrawn.              *)
ReplayAgrees ==
    faults = 0 =>
        /\ inbox = FoldInbox /\ speakers = FoldSpeakers /\ closed = logClosed
        /\ \A a \in Agents : pc[a] \notin Busy =>
            /\ history[a] = FoldHistory(a)
            /\ opened[a] = (a \in logOpened)
            /\ \E n \in 0..cursor[a] :
                /\ IsFoldCursor(a, n)
                /\ \A i \in (n + 1)..cursor[a] : inbox[i].withdrawn

(* The position each lane keeps says what it has read: no message below it  *)
(* is missing from the agent's turns, unless it was withdrawn, across any   *)
(* interleaving of submits, withdrawals, turns and restarts.                *)
NothingSkipped ==
    faults = 0 =>
        \A a \in Agents : \A i \in 1..cursor[a] : i \in Read(a) \/ inbox[i].withdrawn

(* The log never shows an agent reading out of order or twice: of two of    *)
(* its turns, all the messages of the earlier precede those of the later,   *)
(* restarts and lost records included.                                      *)
ReadsInOrder ==
    \A a \in Agents : \A j, k \in DOMAIN logTurns[a] :
        j < k => \A x \in logTurns[a][j].inputs, y \in logTurns[a][k].inputs : x < y

(* A lane parked on an empty channel in an open room has nothing to read,   *)
(* or the submit that would wake it has yet to get to it.                   *)
NoLostWakeup ==
    \A a \in Agents :
        pc[a] = "recv" /\ ~wake[a] /\ ~closed =>
            \A i \in (cursor[a] + 1)..Len(inbox) :
                a \in inbox[i].wake /\ ~inbox[i].withdrawn =>
                    \E c \in Clients : call[c].op = "nudge" /\ a \in call[c].left

(* No lane stays parked in a closed room: it has a token to wake it, or the *)
(* close that will leave one is still on its way.                           *)
CloseReachesEveryLane ==
    closed =>
        \A a \in Agents :
            pc[a] = "recv" =>
                wake[a] \/ \E c \in Clients : call[c].op = "close" /\ a \in call[c].left

(* A cancel stops the turn it found and no other: a turn the log shows      *)
(* cancelled is one a turn.cancel_requested before it was about, or the     *)
(* room was closed.                                                         *)
CancelledWasAsked ==
    \A a \in Agents : \A k \in DOMAIN logTurns[a] :
        logTurns[a][k].end = "cancelled" =>
            logClosed \/ <<a, logTurns[a][k].no>> \in logAsked

(* What an agent was asked to work on once it is not asked again.           *)
NeverRerun ==
    \A a \in Agents : pc[a] \in {"start", "arm", "open"} => turn[a].inputs \cap ran[a] = {}

(* A turn interrupted by a crash is not run again, as long as its           *)
(* turn.started was recorded.                                               *)
InterruptedNotRerun == faults = 0 => NeverRerun

-----------------------------------------------------------------------------
(* Temporal properties.                                                    *)

(* Withdrawing is final: an agent that has not read a message when it is    *)
(* withdrawn never does, unless its lane had just copied the inbox.         *)
WithdrawnStaysUnread ==
    \A a \in Agents, i \in 1..MaxInputs :
        []((i \in DOMAIN inbox /\ inbox[i].withdrawn /\ i \notin Read(a) /\ pc[a] # "take")
            => [](i \notin Read(a)))

(* A message that wakes an agent is read by it in the end, whatever else    *)
(* goes on, unless it is withdrawn or the room closed first.                *)
EveryMessageRead ==
    \A a \in Agents, i \in 1..MaxInputs :
        (i \in DOMAIN inbox /\ a \in inbox[i].wake)
            ~> (i \in Read(a) \/ closed \/ (i \in DOMAIN inbox /\ inbox[i].withdrawn))

(* Every lane of a closed room ends its loop. *)
ClosedRoomEmpties == closed ~> \A a \in Agents : pc[a] = "gone"
=============================================================================
