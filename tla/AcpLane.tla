------------------------------ MODULE AcpLane ------------------------------
(***************************************************************************)
(* One ACP lane of src/connector/acp.rs: the slot that callers contend on,  *)
(* the subprocesses spawned into it, the session each of them speaks, and   *)
(* the prompts it runs one at a time.                                       *)
(*                                                                         *)
(* Three callers meet here. "warm" opens the lane as its room is created,   *)
(* "lane" is the lane's task in the session manager, which runs one turn    *)
(* after another, and "closer" is the close of the room. A slot is a number *)
(* taken again once nobody refers to it, a process is a number, and so is   *)
(* the session of the process that made it; 0 is none of these.             *)
(***************************************************************************)
EXTENDS Integers, Sequences, FiniteSets

CONSTANTS
    MaxTurns,     (* bound: turns of the lane                               *)
    MaxProcs,     (* bound: subprocesses spawned                            *)
    MaxFaults,    (* bound: subprocesses that die or fail to start, and     *)
                  (* restarts of the server                                 *)
    MaxCancels    (* bound: turns cancelled by a caller or timed out        *)

ASSUME LaneAssumption == {MaxTurns, MaxProcs, MaxFaults, MaxCancels} \subseteq Nat

VARIABLES
    entry,      \* the slot in the executor's map, or 0
    holder,     \* per slot, the caller that holds its lock
    kept,       \* per slot, the process of the client kept in it
    at, slot, client,   \* per caller: where it is, the slot and the process it has hold of
    turn,       \* the number of the lane's turn
    handle,     \* the session of Lane::state
    recorded,   \* the session of session.opened in the log, or 0
    forgot,     \* a restart lost a session whose record had failed
    cancelled,  \* turns whose cancellation token is cancelled
    proc,       \* per process: [phase, asked, session, queue, active, busy]
    told,       \* per turn, the session its prompt was spoken in
    mixed,      \* parts of one prompt given to another turn: <<prompt, turn>>
    overran,    \* turns whose prompt outlived the wait after a cancel
    late,       \* the warming task spawned a process after the first turn had opened
    closed, faults, cancels

vars == <<entry, holder, kept, at, slot, client, turn, handle, recorded, forgot, cancelled, proc,
          told, mixed, overran, late, closed, faults, cancels>>
slotVars == <<entry, holder, kept>>
sessionVars == <<handle, recorded, forgot>>
turnVars == <<turn, cancelled, closed, cancels>>
agentVars == <<told, mixed, overran>>

Callers == {"warm", "lane", "closer"}
Slots == 1..4          \* one per caller, and one in the map: never all taken
Procs == 1..MaxProcs
Turns == 1..MaxTurns
Close == 0             \* Command::Close; a number is the Prompt of that turn

NoProc == [phase |-> "unborn", asked |-> 0, session |-> 0, queue |-> <<>>, active |-> 0, busy |-> {}]

(* What is left of a process whose connection ended: run_lane's receiver is *)
(* dropped with what was queued, and so are the senders of `done`.          *)
Gone(q) == [q EXCEPT !.phase = "gone", !.queue = <<>>, !.active = 0, !.busy = {}]

Open(p) == p # 0 /\ proc[p].phase # "gone"     \* !commands.is_closed()
Referenced(s) == s = entry \/ \E c \in Callers : slot[c] = s
Held(p) == \/ \E s \in Slots : Referenced(s) /\ kept[s] = p
           \/ \E c \in Callers : client[c] = p

(* forget removes the slot inside an `if let`, whose temporary keeps the    *)
(* map locked until the slot was emptied.                                   *)
MapFree == at["lane"] # "forgetting"

-----------------------------------------------------------------------------
(* ensure_lane.                                                            *)

(* The slot, found or made under the map's lock. *)
Lookup(c) ==
    /\ at[c] = "ensure" /\ MapFree
    /\ LET s == IF entry # 0 THEN entry ELSE CHOOSE f \in Slots : ~Referenced(f) IN
        /\ entry' = s
        /\ slot' = [slot EXCEPT ![c] = s]
        /\ kept' = IF entry # 0 THEN kept ELSE [kept EXCEPT ![s] = 0]
    /\ at' = [at EXCEPT ![c] = "lock"]
    /\ UNCHANGED <<holder, client, sessionVars, proc, late, turnVars, agentVars, faults>>

(* What a caller does with the lane it gets: the warming task only asks for *)
(* it, the open of a first turn keeps its session and has that recorded     *)
(* next, and a turn goes on to its prompt.                                  *)
Return(c, p, session) ==
    /\ slot' = [slot EXCEPT ![c] = 0]
    /\ UNCHANGED <<recorded, forgot>>
    /\ IF c = "lane" /\ handle # 0
       THEN /\ client' = [client EXCEPT ![c] = p]
            /\ at' = [at EXCEPT ![c] = "send"]
            /\ UNCHANGED handle
       ELSE /\ client' = [client EXCEPT ![c] = 0]
            /\ at' = [at EXCEPT ![c] = IF c = "warm" THEN "over" ELSE "opened"]
            /\ handle' = IF c = "warm" THEN handle ELSE session

(* session.opened is appended, or is not: its result is thrown away, and    *)
(* the turn asks for the lane again either way.                             *)
Record ==
    /\ at["lane"] = "opened" /\ at' = [at EXCEPT !["lane"] = "ensure"]
    /\ recorded' \in {handle, recorded}
    /\ UNCHANGED <<slotVars, slot, client, handle, forgot, proc, late, turnVars, agentVars, faults>>

(* The slot's lock: a client whose process still listens is used again, and *)
(* otherwise the lock is held across spawn_lane.                            *)
Reuse(c) ==
    /\ at[c] = "lock" /\ c # "closer"
    /\ holder[slot[c]] = "nobody"
    /\ Open(kept[slot[c]])
    /\ Return(c, kept[slot[c]], proc[kept[slot[c]]].session)
    /\ UNCHANGED <<slotVars, proc, late, turnVars, agentVars, faults>>

SpawnInto(c, asks, holds) ==
    /\ at[c] = "lock" /\ c # "closer"
    /\ holder[slot[c]] = "nobody" /\ ~Open(kept[slot[c]])
    /\ \E p \in Procs :
        /\ proc[p].phase = "unborn" /\ \A q \in 1..(p - 1) : proc[q].phase # "unborn"
        /\ proc' = [proc EXCEPT ![p].phase = "starting", ![p].asked = asks]
        /\ client' = [client EXCEPT ![c] = p]
    /\ holder' = [holder EXCEPT ![slot[c]] = holds]
    /\ at' = [at EXCEPT ![c] = "spawn"]
    /\ late' = (late \/ (c = "warm" /\ handle # 0))
    /\ UNCHANGED <<entry, kept, slot, sessionVars, turnVars, agentVars, faults>>

(* The session a process is asked to load: the context of a turn carries    *)
(* the handle, the context of the warming task does not.                    *)
Wanted(c) == IF c = "lane" THEN handle ELSE 0

(* A slip: the slot's lock is let go before the spawn. *)
SpawnUnheld(c) == SpawnInto(c, Wanted(c), "nobody")

(* A slip: a process spawned for a turn does not load the recorded session. *)
SpawnAfresh(c) == SpawnInto(c, 0, c)

Spawn(c) == SpawnInto(c, Wanted(c), c)

Spawned(c) ==
    /\ at[c] = "spawn" /\ proc[client[c]].session # 0
    /\ kept' = [kept EXCEPT ![slot[c]] = client[c]]
    /\ holder' = [holder EXCEPT ![slot[c]] = "nobody"]
    /\ Return(c, client[c], proc[client[c]].session)
    /\ UNCHANGED <<entry, proc, late, turnVars, agentVars, faults>>

(* Whoever leaves a lane's wait lets go of the slot, its lock and a process *)
(* not yet stored: an error, or a future that is dropped.                   *)
LetGo(c) ==
    /\ holder' = [s \in Slots |-> IF holder[s] = c THEN "nobody" ELSE holder[s]]
    /\ slot' = [slot EXCEPT ![c] = 0]
    /\ client' = [client EXCEPT ![c] = 0]
    /\ at' = [at EXCEPT ![c] = IF c = "lane" THEN "idle" ELSE "over"]

(* The task died before it was ready: lane.unavailable or turn.failed. *)
SpawnFailed(c) ==
    /\ at[c] = "spawn" /\ proc[client[c]].phase = "gone" /\ proc[client[c]].session = 0
    /\ LetGo(c)
    /\ UNCHANGED <<entry, kept, sessionVars, proc, late, turnVars, agentVars, faults>>

-----------------------------------------------------------------------------
(* The lane's turns: run_turn, AcpExecutor::turn and forget.                *)

StartTurn ==
    /\ at["lane"] = "idle" /\ turn < MaxTurns
    /\ turn' = turn + 1
    /\ at' = [at EXCEPT !["lane"] = "ensure"]
    /\ UNCHANGED <<slotVars, slot, client, sessionVars, cancelled, proc, late, closed,
                   cancels, agentVars, faults>>

Send ==
    /\ at["lane"] = "send"
    /\ LET p == client["lane"] IN
        IF Open(p)
        THEN /\ proc' = [proc EXCEPT ![p].queue = Append(@, turn)]
             /\ at' = [at EXCEPT !["lane"] = "sent"]
        ELSE /\ at' = [at EXCEPT !["lane"] = "forget"]
             /\ UNCHANGED proc
    /\ UNCHANGED <<slotVars, slot, client, sessionVars, late, turnVars, agentVars, faults>>

(* forget takes whatever slot the map holds by now, then empties it. *)
Forget ==
    /\ at["lane"] = "forget"
    /\ IF entry = 0
       THEN LetGo("lane") /\ UNCHANGED entry
       ELSE /\ entry' = 0
            /\ slot' = [slot EXCEPT !["lane"] = entry]
            /\ at' = [at EXCEPT !["lane"] = "forgetting"]
            /\ UNCHANGED <<holder, client>>
    /\ UNCHANGED <<kept, sessionVars, proc, late, turnVars, agentVars, faults>>

Forgotten ==
    /\ at["lane"] = "forgetting" /\ holder[slot["lane"]] = "nobody"
    /\ kept' = [kept EXCEPT ![slot["lane"]] = 0]
    /\ LetGo("lane")
    /\ UNCHANGED <<entry, sessionVars, proc, late, turnVars, agentVars, faults>>

(* The prompt is over, or its lane stopped before completing it. *)
TurnEnds ==
    /\ at["lane"] = "answered" \/ (at["lane"] = "sent" /\ ~Open(client["lane"]))
    /\ LetGo("lane")
    /\ UNCHANGED <<entry, kept, sessionVars, proc, late, turnVars, agentVars, faults>>

(* A cancelled turn is dropped where it stands, the spawn it waits for      *)
(* included, but not while it records its session; one past its timeout as  *)
(* well, which cancels its token too.                                       *)
TurnDropped ==
    /\ at["lane"] \notin {"idle", "opened"} /\ turn \in cancelled
    /\ LetGo("lane")
    /\ UNCHANGED <<entry, kept, sessionVars, proc, late, turnVars, agentVars, faults>>

TimesOut ==
    /\ at["lane"] \notin {"idle", "opened"}
    /\ cancels < MaxCancels /\ cancels' = cancels + 1
    /\ LetGo("lane")
    /\ cancelled' = cancelled \cup {turn}
    /\ UNCHANGED <<entry, kept, sessionVars, turn, closed, proc, late, agentVars, faults>>

Cancel ==
    /\ at["lane"] # "idle" /\ turn \notin cancelled
    /\ cancels < MaxCancels /\ cancels' = cancels + 1
    /\ cancelled' = cancelled \cup {turn}
    /\ UNCHANGED <<slotVars, at, slot, client, turn, sessionVars, closed, proc, late, agentVars, faults>>

(* The close of the room cancels the turn, then takes the lane out of the   *)
(* map and sends Close to the process it holds.                             *)
CloseRoom ==
    /\ ~closed /\ closed' = TRUE
    /\ cancelled' = IF at["lane"] # "idle" THEN cancelled \cup {turn} ELSE cancelled
    /\ at' = [at EXCEPT !["closer"] = "remove"]
    /\ UNCHANGED <<slotVars, slot, client, turn, sessionVars, cancels, proc, late, agentVars, faults>>

CloseRemoves ==
    /\ at["closer"] = "remove" /\ MapFree
    /\ entry' = 0
    /\ slot' = [slot EXCEPT !["closer"] = entry]
    /\ at' = [at EXCEPT !["closer"] = IF entry = 0 THEN "over" ELSE "lock"]
    /\ UNCHANGED <<holder, kept, client, sessionVars, proc, late, turnVars, agentVars, faults>>

CloseSends ==
    /\ at["closer"] = "lock" /\ holder[slot["closer"]] = "nobody"
    /\ LET s == slot["closer"] IN
        /\ kept' = [kept EXCEPT ![s] = 0]
        /\ proc' = IF Open(kept[s]) THEN [proc EXCEPT ![kept[s]].queue = Append(@, Close)]
                   ELSE proc
    /\ LetGo("closer")
    /\ UNCHANGED <<entry, sessionVars, late, turnVars, agentVars, faults>>

-----------------------------------------------------------------------------
(* run_lane: the subprocess and the agent behind it.                        *)

(* initialize, then session/new or session/load; `ready` reports the session *)
Ready(p) ==
    /\ proc[p].phase = "starting"
    /\ proc' = [proc EXCEPT ![p].phase = "idle",
                            ![p].session = IF proc[p].asked = 0 THEN p ELSE proc[p].asked]
    /\ UNCHANGED <<slotVars, at, slot, client, sessionVars, late, turnVars, agentVars, faults>>

(* The process dies, or refuses the handshake or the session, at any time. *)
Die(p) ==
    /\ proc[p].phase \notin {"unborn", "gone"}
    /\ faults < MaxFaults /\ faults' = faults + 1
    /\ proc' = [proc EXCEPT ![p] = Gone(@)]
    /\ UNCHANGED <<slotVars, at, slot, client, sessionVars, late, turnVars, agentVars>>

(* The command loop: Close ends it, a Prompt makes its turn the active one. *)
Take(p) ==
    /\ proc[p].phase = "idle" /\ proc[p].queue # <<>>
    /\ LET t == Head(proc[p].queue) IN
        IF t = Close
        THEN proc' = [proc EXCEPT ![p] = Gone(@)] /\ UNCHANGED told
        ELSE /\ proc' = [proc EXCEPT ![p].phase = "prompting", ![p].queue = Tail(@),
                                     ![p].active = t, ![p].busy = @ \cup {t}]
             /\ told' = [told EXCEPT ![t] = proc[p].session]
    /\ UNCHANGED <<slotVars, at, slot, client, sessionVars, late, mixed, overran, turnVars, faults>>

(* A slip: the loop does not see that its senders are gone. *)
EndsNever(p) ==
    /\ proc[p].phase = "idle" /\ proc[p].queue = <<>> /\ ~Held(p)
    /\ UNCHANGED vars

(* Every sender is dropped: recv gives None and the connection is closed. *)
Ends(p) ==
    /\ proc[p].phase = "idle" /\ proc[p].queue = <<>> /\ ~Held(p)
    /\ proc' = [proc EXCEPT ![p] = Gone(@)]
    /\ UNCHANGED <<slotVars, at, slot, client, sessionVars, late, turnVars, agentVars, faults>>

(* The active prompt is reported if its turn still waits to hear it. *)
Reported(p) ==
    /\ at' = IF at["lane"] = "sent" /\ turn = proc[p].active
             THEN [at EXCEPT !["lane"] = "answered"] ELSE at
    /\ UNCHANGED <<slotVars, slot, client, sessionVars, late, turnVars, told, mixed, faults>>

(* The agent answers a prompt: the one the loop waits for, or one it gave   *)
(* up on, whose answer nobody hears.                                        *)
Answer(p) ==
    /\ proc[p].phase \in {"prompting", "cancelling"}
    /\ proc' = [proc EXCEPT ![p].phase = "idle", ![p].active = 0, ![p].busy = @ \ {proc[p].active}]
    /\ Reported(p) /\ UNCHANGED overran

AnswerLate(p) ==
    /\ \E t \in proc[p].busy \ {proc[p].active} : proc' = [proc EXCEPT ![p].busy = @ \ {t}]
    /\ UNCHANGED <<slotVars, at, slot, client, sessionVars, late, turnVars, agentVars, faults>>

(* A slip: the cancelled prompt is reported done without the wait. *)
CancelUnawaited(p) ==
    /\ proc[p].phase = "prompting" /\ proc[p].active \in cancelled
    /\ proc' = [proc EXCEPT ![p].phase = "idle", ![p].active = 0]
    /\ Reported(p) /\ UNCHANGED overran

(* The token is cancelled: session/cancel, and up to 5 s for the answer. *)
CancelPrompt(p) ==
    /\ proc[p].phase = "prompting" /\ proc[p].active \in cancelled
    /\ proc' = [proc EXCEPT ![p].phase = "cancelling"]
    /\ UNCHANGED <<slotVars, at, slot, client, sessionVars, late, turnVars, agentVars, faults>>

GiveUp(p) ==
    /\ proc[p].phase = "cancelling"
    /\ proc' = [proc EXCEPT ![p].phase = "idle", ![p].active = 0]
    /\ overran' = overran \cup {proc[p].active}
    /\ Reported(p)

(* A session/update or a permission request of any prompt the agent works   *)
(* on is given to the active turn, and dropped when there is none. Only     *)
(* those given to a turn other than their own are kept.                     *)
Update(p) ==
    /\ proc[p].active # 0
    /\ \E t \in proc[p].busy \ {proc[p].active} : mixed' = mixed \cup {<<t, proc[p].active>>}
    /\ UNCHANGED <<slotVars, at, slot, client, sessionVars, late, proc, told, overran, turnVars, faults>>

(* The server stops and starts again: processes end with it, the room comes *)
(* back with the session its log has, and no lane is warmed.  One that is   *)
(* lost is told of if its turn had gone on from there (history).            *)
Restart ==
    /\ faults < MaxFaults /\ faults' = faults + 1
    /\ entry' = 0
    /\ holder' = [s \in Slots |-> "nobody"]
    /\ kept' = [s \in Slots |-> 0]
    /\ slot' = [c \in Callers |-> 0]
    /\ client' = [c \in Callers |-> 0]
    /\ at' = [c \in Callers |-> IF c = "lane" THEN "idle" ELSE "over"]
    /\ proc' = [p \in Procs |-> IF proc[p].phase = "unborn" THEN proc[p] ELSE Gone(proc[p])]
    /\ handle' = recorded
    /\ forgot' = (forgot \/ (handle # recorded /\ at["lane"] # "opened"))
    /\ UNCHANGED <<recorded, turnVars, agentVars, late>>

-----------------------------------------------------------------------------
Init ==
    /\ entry = 0
    /\ holder = [s \in Slots |-> "nobody"]
    /\ kept = [s \in Slots |-> 0]
    /\ at = [warm |-> "ensure", lane |-> "idle", closer |-> "over"]
    /\ slot = [c \in Callers |-> 0]
    /\ client = [c \in Callers |-> 0]
    /\ turn = 0 /\ handle = 0 /\ recorded = 0 /\ forgot = FALSE /\ cancelled = {}
    /\ proc = [p \in Procs |-> NoProc]
    /\ told = [t \in Turns |-> 0]
    /\ mixed = {} /\ overran = {} /\ late = FALSE /\ closed = FALSE
    /\ faults = 0 /\ cancels = 0

CallerStep(c) == Lookup(c) \/ Reuse(c) \/ Spawn(c) \/ Spawned(c) \/ SpawnFailed(c)

TurnStep == Record \/ Send \/ Forget \/ Forgotten \/ TurnEnds \/ TurnDropped

LoopStep(p) == Take(p) \/ Ends(p) \/ CancelPrompt(p) \/ GiveUp(p)

Next ==
    \/ \E c \in Callers : CallerStep(c)
    \/ StartTurn \/ TurnStep \/ TimesOut \/ Cancel
    \/ CloseRoom \/ CloseRemoves \/ CloseSends
    \/ \E p \in Procs : Ready(p) \/ Die(p) \/ LoopStep(p) \/ Answer(p) \/ AnswerLate(p) \/ Update(p)
    \/ Restart

Spec == Init /\ [][Next]_vars

(* The runtime polls its tasks, and the wait for a cancelled prompt has a   *)
(* timeout. Nothing is asked of the agent, which may never start, answer or *)
(* end, nor of the timeouts of turns.                                       *)
Fairness ==
    /\ WF_vars(CallerStep("warm")) /\ WF_vars(CallerStep("lane"))
    /\ WF_vars(TurnStep) /\ WF_vars(CloseRemoves) /\ WF_vars(CloseSends)
    /\ \A p \in Procs : WF_vars(LoopStep(p))

FairSpec == Spec /\ Fairness
-----------------------------------------------------------------------------
(* Properties.                                                             *)

Process == [phase : {"unborn", "starting", "idle", "prompting", "cancelling", "gone"},
            asked : 0..MaxProcs, session : 0..MaxProcs, queue : Seq(0..MaxTurns),
            active : 0..MaxTurns, busy : SUBSET Turns]

(* Every variable holds what the code's types let it hold, and a slot's     *)
(* lock is held by a caller that refers to the slot.                        *)
TypeOK ==
    /\ entry \in {0} \cup Slots
    /\ holder \in [Slots -> Callers \cup {"nobody"}]
    /\ kept \in [Slots -> 0..MaxProcs]
    /\ at \in [Callers -> {"idle", "ensure", "lock", "spawn", "opened", "send", "sent", "answered",
                           "forget", "forgetting", "remove", "over"}]
    /\ slot \in [Callers -> {0} \cup Slots]
    /\ client \in [Callers -> 0..MaxProcs]
    /\ \A s \in Slots : holder[s] # "nobody" => slot[holder[s]] = s
    /\ turn \in 0..MaxTurns /\ {handle, recorded} \subseteq 0..MaxProcs /\ forgot \in BOOLEAN
    /\ cancelled \subseteq Turns /\ overran \subseteq Turns
    /\ proc \in [Procs -> Process]
    /\ told \in [Turns -> 0..MaxProcs]
    /\ mixed \subseteq Turns \X Turns
    /\ late \in BOOLEAN /\ closed \in BOOLEAN
    /\ faults \in Nat /\ cancels \in Nat

(* acp.rs:199: callers that arrive together share one process. Without a    *)
(* death, a close or a restart, no two processes of the lane are in reach,  *)
(* whoever warms, opens, gives up or retries.                               *)
OneProcess ==
    faults = 0 /\ ~closed =>
        Cardinality({p \in Procs : Open(p) /\ proc[p].phase # "unborn" /\ Held(p)}) <= 1

(* integrating.md:194: one session belongs to a lane. Every prompt is       *)
(* spoken in the lane's session, through deaths and restarts and whoever    *)
(* gives up on it, as long as the room is open, unless the warming task     *)
(* came so late that it spawned a process of its own after the lane had     *)
(* opened, or a restart lost a session whose record had failed.             *)
SameSession == ~late /\ ~forgot /\ ~closed => \A t \in Turns : told[t] \in {0, handle}

(* What an agent sends is recorded under the turn whose prompt it works on, *)
(* but for a prompt that outlived its cancellation by 5 s.                  *)
PartsOfTheTurn == \A x \in mixed : x[1] \in overran

(* Somebody can still prompt or close the process: a caller that has it or  *)
(* its slot, or whoever finds it in the executor's map. When the close of   *)
(* the room has yet to take the lane out, the map is nobody's; what it      *)
(* holds after that was spawned later, and stays.                           *)
Usable(p) ==
    \/ \E c \in Callers : client[c] = p \/ (slot[c] # 0 /\ kept[slot[c]] = p)
    \/ entry # 0 /\ kept[entry] = p /\ (closed => at["closer"] # "remove")

(* acp.rs:201's stray process: one that has answered its start and nobody   *)
(* can use.                                                                *)
Stray(p) == proc[p].phase \notin {"unborn", "starting", "gone"} /\ ~Usable(p)

(* No stray process stays: one that has answered its start does not outlive *)
(* the last client that could prompt or close it, nor the close of its room,*)
(* unless it was spawned after that had taken the lane out.                 *)
NoStray == []<>(\A p \in Procs : ~Stray(p))
=============================================================================
