------------------------------- MODULE Server -------------------------------
(***************************************************************************)
(* The handlers of src/api/mod.rs that change what the whole server shares: *)
(* the agent registry (connector/spec.rs), the table of rooms and their     *)
(* participants' keys (session/manager.rs), and the turn budgets (Limiter). *)
(*                                                                         *)
(* A handler is a future that can be left at each await: at a store append  *)
(* and at a lock.  Between two awaits it is one step here.  What the server *)
(* keeps in memory is changed on one side of an append and the log on the   *)
(* other, so two calls can leave the two in different orders, and a call    *)
(* whose append fails or whose caller hangs up leaves only one of them.     *)
(* The bodies' decoding and the admin token are left out; what a room does  *)
(* with a message is module Room.                                           *)
(*                                                                         *)
(* `made` (calls so far) also numbers the specs and the keys they bring.    *)
(* `doubtful`, `stranded` and `spent` are history variables.                *)
(***************************************************************************)
EXTENDS Limiter, Sequences, SequencesExt

CONSTANTS
    Callers, Names, Rooms,
    Files,          (* the agents of the connector directory               *)
    PerRoom, Total, (* room_turns_per_min and turns_per_min                 *)
    MaxWake,        (* lanes one message wakes                              *)
    Workloads,      (* sets of operations, one of which the callers use     *)
    MaxCalls, MaxClock, MaxRestarts, MaxFaults

ASSUME ServerAssumption ==
    /\ Files \subseteq Names /\ Files # {} /\ Names \cap Rooms = {}
    /\ IsFiniteSet(Callers)
    /\ {MaxWake, MaxCalls, MaxClock, MaxRestarts, MaxFaults} \subseteq Nat
    /\ {PerRoom, Total} \subseteq Nat \ {0}

VARIABLES
    registry, rooms, keys, perRoom, total, clock,   (* in memory            *)
    syslog, invited,                                (* in the event store   *)
    call, work, made, restarts, faults,
    doubtful, stranded, spent

memory == <<registry, rooms, keys, perRoom, total, clock>>
stored == <<syslog, invited>>
limits == <<perRoom, total, clock, spent>>
vars == <<memory, stored, call, work, made, restarts, faults, doubtful, stranded, spent>>

Nobody == [op |-> "none", at |-> "none", on |-> "", with |-> {}, n |-> 0, alone |-> TRUE]

(* Registry::put, in place of what had the name.                            *)
Put(reg, n, spec) ==
    [m \in DOMAIN reg \cup {n} |-> IF m = n THEN spec ELSE reg[m]]

(* An entry of the log, in the registry built so far (restore_agents).      *)
Replay(reg, entry) ==
    IF entry.kind = "agent.registered" THEN Put(reg, entry.name, entry.spec)
    ELSE Restrict(reg, DOMAIN reg \ {entry.name})

(* What replaying a log over the connector files comes to: of each agent    *)
(* the last entry about it holds, or its file when there is none.           *)
Latest(log, n) ==
    {i \in DOMAIN log : log[i].name = n /\ \A j \in DOMAIN log : log[j].name = n => j <= i}
Known(log, n) ==
    IF Latest(log, n) = {} THEN n \in Files
    ELSE \A i \in Latest(log, n) : log[i].kind = "agent.registered"
Replayed(log) ==
    [n \in {m \in Names : Known(log, m)} |->
        IF Latest(log, n) = {} THEN 0 ELSE log[CHOOSE i \in Latest(log, n) : TRUE].spec]

(* A slip: the files are read after the log, and win.                       *)
RestoredFilesLast == [n \in Files |-> 0] @@ Replayed(syslog)

(* The agent registry a start builds: connector files first, then the       *)
(* registrations and removals of the log, in its order.                     *)
Restored == Replayed(syslog)

Init ==
    /\ registry = [n \in Files |-> 0] /\ syslog = <<>>
    /\ \E opened \in SUBSET Rooms :
          rooms = [r \in Rooms |-> [with |-> IF r \in opened THEN Files ELSE {},
                                    live |-> r \in opened, closed |-> FALSE]]
    /\ keys = [r \in Rooms |-> 0] /\ invited = keys
    /\ perRoom = << >> /\ total = << >> /\ clock = 0
    /\ call = [c \in Callers |-> Nobody]
    /\ work \in Workloads
    /\ made = 0 /\ restarts = 0 /\ faults = 0
    /\ doubtful = {} /\ stranded = {} /\ spent = 0

(* What a call reads or writes that another may change under it.            *)
About(k) == IF k.op = "none" THEN {} ELSE IF k.op = "create" THEN k.with ELSE {k.on}
Disturbs(k, l) ==
    /\ About(k) \cap About(l) # {} /\ k.op # "create"
    /\ l.op = "create" => k.op = "delete"

(* A call arrives and has come to its first await. *)
Begin(c, k) ==
    /\ k.op \in work /\ made < MaxCalls /\ call[c].op = "none"
    /\ made' = made + 1
    /\ call' = [d \in Callers |->
          IF d = c THEN [k EXCEPT !.alone = \A e \in Callers : ~Disturbs(call[e], k)]
          ELSE [call[d] EXCEPT !.alone = @ /\ ~Disturbs(k, call[d])]]
    /\ UNCHANGED <<work, restarts, faults>>
Goes(c, at) == call' = [call EXCEPT ![c].at = at] /\ UNCHANGED <<work, made, restarts, faults>>
Returns(c) == call' = [call EXCEPT ![c] = Nobody] /\ UNCHANGED <<work, made, restarts, faults>>
In(c, op, at) == call[c].op = op /\ call[c].at = at
(* A subject is certain again when the call that ends had it for itself. *)
Settled(c) == IF call[c].alone THEN doubtful \ {call[c].on} ELSE doubtful

-----------------------------------------------------------------------------
(* register_agent: the registry first, then the log; a failed append is    *)
(* printed and the call succeeds.                                           *)
Register(c, n) ==
    /\ Begin(c, [Nobody EXCEPT !.op = "register", !.at = "append", !.on = n, !.n = made + 1])
    /\ registry' = Put(registry, n, made + 1)
    /\ doubtful' = doubtful \cup {n}
    /\ UNCHANGED <<rooms, keys, stored, limits, stranded>>

LogRegistered(c) ==
    /\ In(c, "register", "append")
    /\ syslog' = Append(syslog, [kind |-> "agent.registered", name |-> call[c].on, spec |-> call[c].n])
    /\ Returns(c) /\ doubtful' = Settled(c)
    /\ UNCHANGED <<memory, invited, stranded, spent>>

(* A slip: closed rooms are looked at instead of open ones. *)
UsedByClosed(n) == {r \in Rooms : rooms[r].live /\ rooms[r].closed /\ n \in rooms[r].with}

(* Manager::used_by: open rooms the table knows. *)
UsedBy(n) == {r \in Rooms : rooms[r].live /\ ~rooms[r].closed /\ n \in rooms[r].with}

(* delete_agent: look, then delete, then the log. *)
Delete(c, n, force) ==
    /\ n \in DOMAIN registry /\ (force \/ UsedBy(n) = {})
    /\ Begin(c, [Nobody EXCEPT !.op = "delete", !.at = "remove", !.on = n])
    /\ UNCHANGED <<memory, stored, doubtful, spent>>
    /\ stranded' = IF force THEN stranded \cup {r \in Rooms : n \in rooms[r].with} ELSE stranded

Unregister(c) ==
    /\ In(c, "delete", "remove")
    /\ LET n == call[c].on IN
       IF n \in DOMAIN registry
       THEN /\ registry' = Restrict(registry, DOMAIN registry \ {n})
            /\ doubtful' = doubtful \cup {n} /\ Goes(c, "append")
       ELSE Returns(c) /\ UNCHANGED <<registry, doubtful>>
    /\ UNCHANGED <<rooms, keys, stored, limits, stranded>>

LogRemoved(c) ==
    /\ In(c, "delete", "append")
    /\ syslog' = Append(syslog, [kind |-> "agent.removed", name |-> call[c].on, spec |-> 0])
    /\ Returns(c) /\ doubtful' = Settled(c)
    /\ UNCHANGED <<memory, invited, stranded, spent>>

-----------------------------------------------------------------------------
(* create_session: the agents are looked up, the creation is logged, and    *)
(* then the room is in the table.                                           *)
Create(c, r, agents) ==
    /\ agents # {} /\ agents \subseteq DOMAIN registry
    /\ rooms[r].with = {} /\ \A d \in Callers : ~(call[d].op = "create" /\ call[d].on = r)
    /\ Begin(c, [Nobody EXCEPT !.op = "create", !.at = "append", !.on = r, !.with = agents])
    /\ UNCHANGED <<memory, stored, doubtful, stranded, spent>>

LogCreated(c) ==
    /\ In(c, "create", "append")
    /\ rooms' = [rooms EXCEPT ![call[c].on].with = call[c].with]
    /\ Goes(c, "insert")
    /\ UNCHANGED <<registry, keys, stored, limits, doubtful, stranded>>

Insert(c) ==
    /\ In(c, "create", "insert")
    /\ rooms' = [rooms EXCEPT ![call[c].on].live = TRUE]
    /\ stranded' = IF call[c].alone THEN stranded ELSE stranded \cup {call[c].on}
    /\ Returns(c)
    /\ UNCHANGED <<registry, keys, stored, limits, doubtful>>

(* close_session, whose append runs under the room's state lock.            *)
Close(r) ==
    /\ "close" \in work /\ rooms[r].live /\ ~rooms[r].closed
    /\ rooms' = [rooms EXCEPT ![r].closed = TRUE]
    /\ UNCHANGED <<registry, keys, stored, limits, call, work, made, restarts, faults,
                   doubtful, stranded>>

-----------------------------------------------------------------------------
(* issue_key for the one participant of each room that the model follows:   *)
(* a fresh key, the log, and then the room's keys (record_invite).          *)
IssueKey(c, r) ==
    /\ rooms[r].live
    /\ Begin(c, [Nobody EXCEPT !.op = "invite", !.at = "append", !.on = r, !.n = made + 1])
    /\ UNCHANGED <<memory, stored, doubtful, stranded, spent>>

LogInvited(c) ==
    /\ In(c, "invite", "append")
    /\ invited' = [invited EXCEPT ![call[c].on] = call[c].n]
    /\ doubtful' = doubtful \cup {call[c].on}
    /\ Goes(c, "insert")
    /\ UNCHANGED <<memory, syslog, stranded, spent>>

InsertKey(c) ==
    /\ In(c, "invite", "insert")
    /\ keys' = [keys EXCEPT ![call[c].on] = call[c].n]
    /\ doubtful' = Settled(c) /\ Returns(c)
    /\ UNCHANGED <<registry, rooms, limits, stored, stranded>>

-----------------------------------------------------------------------------
All == "all"   (* the one key of the server's limiter *)

(* submit_input: both budgets are asked (admit), the message is accepted    *)
(* and wakes some lanes, and only then is charged for them (charge).        *)
Admit(c, r) ==
    /\ rooms[r].live
    /\ Allows(perRoom, PerRoom, r, clock) /\ Allows(total, Total, All, clock)
    /\ perRoom' = Refilled(perRoom, PerRoom, r, clock)
    /\ total' = Refilled(total, Total, All, clock)
    /\ Begin(c, [Nobody EXCEPT !.op = "submit", !.at = "accept", !.on = r])
    /\ UNCHANGED <<registry, rooms, keys, clock, stored, doubtful, stranded, spent>>

(* The refusal, which brings the buckets it asked up to date.               *)
TooMany(r) ==
    /\ "submit" \in work /\ rooms[r].live
    /\ perRoom' = Refilled(perRoom, PerRoom, r, clock)
    /\ \/ ~Allows(perRoom, PerRoom, r, clock) /\ UNCHANGED total
       \/ /\ Allows(perRoom, PerRoom, r, clock) /\ ~Allows(total, Total, All, clock)
          /\ total' = Refilled(total, Total, All, clock)
    /\ UNCHANGED <<registry, rooms, keys, clock, stored, call, work, made, restarts, faults,
                   doubtful, stranded, spent>>

Accept(c, wake) ==
    /\ In(c, "submit", "accept")
    /\ IF rooms[call[c].on].closed THEN Returns(c) /\ UNCHANGED spent
       ELSE /\ call' = [call EXCEPT ![c].at = "charge", ![c].n = wake]
            /\ spent' = spent + wake
            /\ UNCHANGED <<work, made, restarts, faults>>
    /\ UNCHANGED <<memory, stored, doubtful, stranded>>

(* A slip: a message costs one turn however many lanes it wakes. *)
ChargeOne(c) ==
    /\ In(c, "submit", "charge")
    /\ perRoom' = Charged(perRoom, PerRoom, call[c].on, clock, 1)
    /\ total' = Charged(total, Total, All, clock, 1)
    /\ Returns(c)
    /\ UNCHANGED <<registry, rooms, keys, clock, stored, doubtful, stranded, spent>>

Charge(c) ==
    /\ In(c, "submit", "charge")
    /\ perRoom' = Charged(perRoom, PerRoom, call[c].on, clock, call[c].n)
    /\ total' = Charged(total, Total, All, clock, call[c].n)
    /\ Returns(c)
    /\ UNCHANGED <<registry, rooms, keys, clock, stored, doubtful, stranded, spent>>

-----------------------------------------------------------------------------
(* The caller hangs up at an await, or the store refuses the append: what   *)
(* was done stays done, and what would follow is never done.  Turns that    *)
(* were accepted and not charged are not counted.                           *)
Breaks(c) ==
    /\ faults < MaxFaults /\ call[c].op # "none"
    /\ faults' = faults + 1
    /\ call' = [call EXCEPT ![c] = Nobody]
    /\ stranded' = IF In(c, "create", "insert") THEN stranded \cup {call[c].on} ELSE stranded
    /\ spent' = IF In(c, "submit", "charge") THEN spent - call[c].n ELSE spent
    /\ UNCHANGED <<memory, stored, work, made, restarts, doubtful>>

(* Runtime::bind after the process ended at any point: the registry, the    *)
(* rooms and the keys come from the files and the log, the budgets are new. *)
Restart ==
    /\ restarts < MaxRestarts /\ restarts' = restarts + 1
    /\ registry' = Restored
    /\ rooms' = [r \in Rooms |-> [rooms[r] EXCEPT !.live = rooms[r].with # {}]]
    /\ keys' = invited
    /\ perRoom' = << >> /\ total' = << >> /\ clock' = 0 /\ spent' = 0
    /\ call' = [c \in Callers |-> Nobody]
    /\ doubtful' = {}
    /\ stranded' = stranded \cup {r \in Rooms : rooms[r].with \cap doubtful # {}}
                      \cup {call[c].on : c \in {d \in Callers : call[d].op = "create" /\ ~call[d].alone}}
    /\ UNCHANGED <<stored, work, made, faults>>

(* Time matters to the budgets only. *)
Tick ==
    /\ "submit" \in work /\ clock < MaxClock /\ clock' = clock + 1
    /\ UNCHANGED <<registry, rooms, keys, perRoom, total, stored, call, work, made, restarts,
                   faults, doubtful, stranded, spent>>

Done == UNCHANGED vars   (* a server nobody calls *)

Next ==
    \/ \E c \in Callers :
          \/ \E n \in Names : Register(c, n) \/ \E force \in BOOLEAN : Delete(c, n, force)
          \/ \E r \in Rooms : \/ IssueKey(c, r) \/ Admit(c, r)
                              \/ \E agents \in SUBSET Names : Create(c, r, agents)
          \/ LogRegistered(c) \/ Unregister(c) \/ LogRemoved(c) \/ LogCreated(c) \/ Insert(c)
          \/ LogInvited(c) \/ InsertKey(c) \/ Charge(c) \/ Breaks(c)
          \/ \E wake \in 0..MaxWake : Accept(c, wake)
    \/ \E r \in Rooms : Close(r) \/ TooMany(r)
    \/ Restart \/ Tick \/ Done

Spec == Init /\ [][Next]_vars

-----------------------------------------------------------------------------
Filled(buckets, keyset, n) ==
    /\ DOMAIN buckets \subseteq keyset
    /\ \A k \in DOMAIN buckets : buckets[k].tokens <= Full(n) /\ buckets[k].last \in 0..clock

(* The state has its shape: agents that were read from a file or            *)
(* registered, rooms whose agents are logged before they are live, keys     *)
(* that were issued, and buckets that are never fuller than full            *)
(* (Registry, Manager.sessions and Session.keys, Limiter.buckets).          *)
TypeOK ==
    /\ DOMAIN registry \subseteq Names /\ \A n \in DOMAIN registry : registry[n] \in 0..MaxCalls
    /\ rooms \in [Rooms -> [with : SUBSET Names, live : BOOLEAN, closed : BOOLEAN]]
    /\ \A r \in Rooms : rooms[r].live => rooms[r].with # {}
    /\ {keys, invited} \subseteq [Rooms -> 0..MaxCalls]
    /\ Filled(perRoom, Rooms, PerRoom) /\ Filled(total, {All}, Total)
    /\ doubtful \subseteq Names \cup Rooms /\ stranded \subseteq Rooms /\ spent \in Int

(* A restart loses and revives nothing: the registry and the keys it would  *)
(* build are the live ones, for every agent and participant whose last call *)
(* neither overlapped another nor broke off between memory and log.         *)
(* (register_agent, delete_agent, restore_agents, record_invite.)           *)
RestartAgrees ==
    /\ \A n \in Names \ doubtful :
          /\ n \in DOMAIN registry <=> n \in DOMAIN Restored
          /\ n \in DOMAIN registry => registry[n] = Restored[n]
    /\ \A r \in Rooms \ doubtful : keys[r] = invited[r]

(* An open room's agents stay registered, across deletions, closings and    *)
(* restarts: except in a room created while one of its agents was being     *)
(* deleted, or left by a forced deletion or a registration that was not     *)
(* logged (delete_agent's used_by; Manager::create_scoped).                 *)
RoomsKeepAgents ==
    \A r \in Rooms \ stranded :
       rooms[r].live /\ ~rooms[r].closed => rooms[r].with \subseteq DOMAIN registry

(* The server's budget holds for turns, not for messages: the turns begun   *)
(* since the start are those of a full bucket and of the time passed, and   *)
(* no more above that than the calls in flight at once can start            *)
(* (AppState::admit and charge, Limiter::charge).                           *)
TurnsWithinBudget ==
    (spent + 1) * Token <= Full(Total) + Total * clock + Cardinality(Callers) * MaxWake * Token

(* Dropping an idle bucket forgives a room no more than the debt that the    *)
(* messages in flight at once can leave, less what two idle minutes earn it  *)
(* beyond a full bucket: nothing, if that much debt is earned by then. It    *)
(* may not be: of ten lanes woken in a room of one turn a minute, -9 turns   *)
(* are -7 when the bucket is dropped, and a message of the room then finds a *)
(* full one (Limiter::refill and charge, AppState::admit).                  *)
Forgivable == (MaxWake * Cardinality(Callers) - 1) * Token - PerRoom * (Minute + 1)

ForgivenIsBounded ==
    [][restarts' = restarts =>
        \A r \in DOMAIN perRoom \ DOMAIN perRoom' :
            LET lacks == Full(PerRoom) - Level(perRoom[r], PerRoom, clock)
            IN  lacks > 0 => lacks <= Forgivable]_vars
=============================================================================
