--------------------------- MODULE SharedContext ---------------------------
(***************************************************************************)
(* The shared context of one room: the entries of src/sharedctx/mod.rs,    *)
(* the calls of the session manager that write them, the summaries that    *)
(* stand in for what no longer fits in a prompt, and the fold that         *)
(* rebuilds the entries from the event log.                                *)
(*                                                                         *)
(* Every write is logged first and applied second. An event is its number; *)
(* an item, a value and a summary are the events that made them, a         *)
(* summary also the items it speaks of. Events of other kinds take numbers *)
(* of their own in the code, which makes no difference here.               *)
(***************************************************************************)
EXTENDS Integers, Sequences, FiniteSets

CONSTANTS
    Keys,
    Callers,      (* API callers, and turns that apply their context rules *)
    None,         (* nobody                                                *)
    Shown,        (* items of an entry that are rendered (20 in the code)  *)
    RollupAfter,  (* items that make a summary worth it (10 in the code)   *)
    MaxEvents,    (* bound: events of the log                              *)
    MaxCrashes    (* bound: times the server stops and is restarted        *)

ASSUME ContextAssumption ==
    /\ None \notin Callers
    /\ {Shown, RollupAfter} \subseteq Nat \ {0}
    /\ {MaxEvents, MaxCrashes} \subseteq Nat

VARIABLES
    seq,      \* the number of the log's last event
    folded,   \* the fold of the log, kept event by event
    entries,  \* the room's entries in memory
    lock,     \* who holds context_write
    call,     \* per caller: [op, key, seq, match, read, through]
    task,     \* per key, the summary being made: [op, seq, read, through]
    sets,     \* the value writes of the log: [key, seq]
    won,      \* those that named a version and were let through: [key, base, seq]
    overtaken, \* per key, the events applied after a later one of theirs
    crashes

vars == <<seq, folded, entries, lock, call, task, sets, won, overtaken, crashes>>

NoRollup == [read |-> {}, through |-> 0]
NoEntry  == [kind |-> "none", pinned |-> FALSE, version |-> 0, items |-> <<>>,
             rollup |-> NoRollup]
NoCall   == [op |-> "idle", key |-> None, seq |-> 0, match |-> -1, read |-> {}, through |-> 0]
NoTask   == [op |-> "none", seq |-> 0, read |-> {}, through |-> 0]

-----------------------------------------------------------------------------
(* The store of entries (sharedctx::Store). Its operations refuse what does *)
(* not fit by leaving the entries as they are.                              *)

Appended(es, k, n) ==
    IF es[k].kind = "value" THEN es
    ELSE [es EXCEPT ![k].kind = "append", ![k].version = n, ![k].items = Append(@, n)]

SetTo(es, k, n) ==
    IF es[k].kind = "append" THEN es
    ELSE [es EXCEPT ![k].kind = "value", ![k].version = n]

Pinned(es, k, on) ==
    IF es[k].kind = "none" THEN es ELSE [es EXCEPT ![k].pinned = on]

RolledUp(es, k, sum) ==
    IF es[k].kind # "append" THEN es ELSE [es EXCEPT ![k].rollup = sum]

(* The items of an entry a prompt has no room for, oldest first. *)
Dropped(e) == IF Len(e.items) > Shown THEN 1..(Len(e.items) - Shown) ELSE {}

(* Those of them its summary is taken to speak of. *)
Covered(e) == {e.items[i] : i \in {j \in Dropped(e) : e.items[j] <= e.rollup.through}}

(* needs_rollup: enough of them are not covered. *)
NeedsRollup(e) ==
    /\ e.kind = "append" /\ Dropped(e) # {}
    /\ Cardinality({j \in Dropped(e) : e.items[j] > e.rollup.through}) >= RollupAfter

(* A slip: the summary is dated by the newest item. *)
ThroughNewest(e) == e.items[Len(e.items)]

(* The summary is dated by the newest item it is made from. *)
Through(e) == e.items[Len(e.items) - Shown]

(* A slip: context.unpinned is not folded. *)
FoldedPinsOnly(es, ev) ==
    CASE ev.op = "append" -> Appended(es, ev.key, ev.seq)
      [] ev.op = "set"    -> SetTo(es, ev.key, ev.seq)
      [] ev.op = "pin"    -> Pinned(es, ev.key, TRUE)
      [] ev.op = "unpin"  -> es
      [] ev.op = "rollup" -> RolledUp(es, ev.key, [read |-> ev.read, through |-> ev.through])

(* rebuild_session, event by event. *)
Folded(es, ev) ==
    CASE ev.op = "append" -> Appended(es, ev.key, ev.seq)
      [] ev.op = "set"    -> SetTo(es, ev.key, ev.seq)
      [] ev.op = "pin"    -> Pinned(es, ev.key, TRUE)
      [] ev.op = "unpin"  -> Pinned(es, ev.key, FALSE)
      [] ev.op = "rollup" -> RolledUp(es, ev.key, [read |-> ev.read, through |-> ev.through])

-----------------------------------------------------------------------------
(* Logging and applying.                                                    *)

Event(op, k, read, through) ==
    [op |-> op, key |-> k, seq |-> seq + 1, read |-> read, through |-> through]

Logs(ev) ==
    /\ seq < MaxEvents
    /\ seq' = seq + 1
    /\ folded' = Folded(folded, ev)

(* Events of a key in the log and not yet applied. *)
Unapplied(k) ==
    {call[c].seq : c \in {d \in Callers : call[d].key = k /\ call[d].seq > 0}}
        \cup (IF task[k].seq > 0 THEN {task[k].seq} ELSE {})

(* The event n of k is applied now, perhaps before older ones. *)
Overtakes(k, n) ==
    overtaken' = [overtaken EXCEPT ![k] = @ \cup {m \in Unapplied(k) : m < n}]

-----------------------------------------------------------------------------
(* append_context.                                                          *)

AppendLog(c, k) ==
    /\ call[c].op = "idle"
    /\ Logs(Event("append", k, {}, 0))
    /\ call' = [call EXCEPT ![c] = [NoCall EXCEPT !.op = "append", !.key = k, !.seq = seq + 1]]
    /\ UNCHANGED <<entries, lock, task, sets, won, overtaken, crashes>>

(* The item joins the entry; then maybe_rollup looks whether a summary is   *)
(* due. An entry that holds a value refuses.                                *)
AppendApply(c) ==
    /\ call[c].op = "append"
    /\ LET k == call[c].key IN
        /\ entries' = Appended(entries, k, call[c].seq)
        /\ Overtakes(k, call[c].seq)
        /\ call' = [call EXCEPT ![c] =
                      IF entries[k].kind = "value" THEN NoCall
                      ELSE [NoCall EXCEPT !.op = "look", !.key = k]]
    /\ UNCHANGED <<seq, folded, lock, task, sets, won, crashes>>

Look(c) ==
    /\ call[c].op = "look"
    /\ LET e == entries[call[c].key] IN
        call' = [call EXCEPT ![c] =
            IF ~NeedsRollup(e) THEN NoCall
            ELSE [@ EXCEPT !.op = "claim", !.read = {e.items[i] : i \in Dropped(e)},
                           !.through = Through(e)]]
    /\ UNCHANGED <<seq, folded, entries, lock, task, sets, won, overtaken, crashes>>

(* One summary of a key at a time, in a task of its own, made from items    *)
(* that were read before; none if the summariser is not registered.         *)
Claim(c) ==
    /\ call[c].op = "claim"
    /\ LET k == call[c].key IN
        \/ UNCHANGED task
        \/ /\ task[k].op = "none"
           /\ task' = [task EXCEPT ![k] = [NoTask EXCEPT !.op = "ask", !.read = call[c].read,
                                                         !.through = call[c].through]]
    /\ call' = [call EXCEPT ![c] = NoCall]
    /\ UNCHANGED <<seq, folded, entries, lock, sets, won, overtaken, crashes>>

-----------------------------------------------------------------------------
(* The task of a summary.                                                   *)

RollupLog(k) ==
    /\ task[k].op = "ask"
    /\ Logs(Event("rollup", k, task[k].read, task[k].through))
    /\ task' = [task EXCEPT ![k].op = "logged", ![k].seq = seq + 1]
    /\ UNCHANGED <<entries, lock, call, sets, won, overtaken, crashes>>

RollupApply(k) ==
    /\ task[k].op = "logged"
    /\ entries' = RolledUp(entries, k, [read |-> task[k].read, through |-> task[k].through])
    /\ Overtakes(k, task[k].seq)
    /\ task' = [task EXCEPT ![k] = NoTask]
    /\ UNCHANGED <<seq, folded, lock, call, sets, won, crashes>>

(* The summariser failed, timed out or said nothing, or the append failed.  *)
RollupFails(k) ==
    /\ task[k].op = "ask"
    /\ task' = [task EXCEPT ![k] = NoTask]
    /\ UNCHANGED <<seq, folded, entries, lock, call, sets, won, overtaken, crashes>>

-----------------------------------------------------------------------------
(* set_context.                                                             *)

(* A slip: the version is compared before the lock is taken. *)
Unguarded(c) == UNCHANGED lock

(* context_write is free, and held to the end of the call. *)
Guarded(c) == lock = None /\ lock' = c

Stale(e, match) ==
    \/ e.kind # "none" /\ match # -1 /\ e.version # match
    \/ e.kind = "none" /\ match > 0

(* A stale write is answered with conflict.rejected, and changes nothing.   *)
SetCheck(c, k, match) ==
    /\ call[c].op = "idle"
    /\ ~Stale(entries[k], match)
    /\ Guarded(c)
    /\ call' = [call EXCEPT ![c] = [NoCall EXCEPT !.op = "set", !.key = k, !.match = match]]
    /\ UNCHANGED <<seq, folded, entries, task, sets, won, overtaken, crashes>>

SetLog(c) ==
    /\ call[c].op = "set" /\ call[c].seq = 0
    /\ LET k == call[c].key IN
        /\ Logs(Event("set", k, {}, 0))
        /\ sets' = sets \cup {[key |-> k, seq |-> seq + 1]}
        /\ won' = IF call[c].match = -1 \/ entries[k].kind = "append" THEN won
                  ELSE won \cup {[key |-> k, base |-> call[c].match, seq |-> seq + 1]}
    /\ call' = [call EXCEPT ![c].seq = seq + 1]
    /\ UNCHANGED <<entries, lock, task, overtaken, crashes>>

(* The store refused the event, or the client hung up before it was stored. *)
SetFails(c) ==
    /\ call[c].op = "set" /\ call[c].seq = 0
    /\ lock' = None
    /\ call' = [call EXCEPT ![c] = NoCall]
    /\ UNCHANGED <<seq, folded, entries, task, sets, won, overtaken, crashes>>

(* The entry is compared with no version again; a list refuses the value.   *)
SetApply(c) ==
    /\ call[c].op = "set" /\ call[c].seq > 0
    /\ entries' = SetTo(entries, call[c].key, call[c].seq)
    /\ Overtakes(call[c].key, call[c].seq)
    /\ lock' = None
    /\ call' = [call EXCEPT ![c] = NoCall]
    /\ UNCHANGED <<seq, folded, task, sets, won, crashes>>

-----------------------------------------------------------------------------
(* pin_context.                                                             *)

PinLog(c, k, op) ==
    /\ call[c].op = "idle"
    /\ entries[k].kind # "none"
    /\ Logs(Event(op, k, {}, 0))
    /\ call' = [call EXCEPT ![c] = [NoCall EXCEPT !.op = op, !.key = k, !.seq = seq + 1]]
    /\ UNCHANGED <<entries, lock, task, sets, won, overtaken, crashes>>

PinApply(c) ==
    /\ call[c].op \in {"pin", "unpin"}
    /\ entries' = Pinned(entries, call[c].key, call[c].op = "pin")
    /\ Overtakes(call[c].key, call[c].seq)
    /\ call' = [call EXCEPT ![c] = NoCall]
    /\ UNCHANGED <<seq, folded, lock, task, sets, won, crashes>>

-----------------------------------------------------------------------------
(* The server stops anywhere and rebuilds the room from its log. *)
Restart ==
    /\ crashes < MaxCrashes
    /\ crashes' = crashes + 1
    /\ entries' = folded
    /\ lock' = None
    /\ call' = [c \in Callers |-> NoCall]
    /\ task' = [k \in Keys |-> NoTask]
    /\ UNCHANGED <<seq, folded, sets, won, overtaken>>

Init ==
    /\ seq = 0
    /\ folded = [k \in Keys |-> NoEntry]
    /\ entries = [k \in Keys |-> NoEntry]
    /\ lock = None
    /\ call = [c \in Callers |-> NoCall]
    /\ task = [k \in Keys |-> NoTask]
    /\ sets = {} /\ won = {}
    /\ overtaken = [k \in Keys |-> {}]
    /\ crashes = 0

(* A client names the version it last saw: one that was, or is. *)
CallStep(c) ==
    \/ \E k \in Keys :
        \/ AppendLog(c, k)
        \/ \E match \in -1..MaxEvents : SetCheck(c, k, match)
        \/ \E op \in {"pin", "unpin"} : PinLog(c, k, op)
    \/ AppendApply(c) \/ Look(c) \/ Claim(c)
    \/ SetLog(c) \/ SetFails(c) \/ SetApply(c)
    \/ PinApply(c)

TaskStep(k) == RollupLog(k) \/ RollupApply(k) \/ RollupFails(k)

Next ==
    \/ \E c \in Callers : CallStep(c)
    \/ \E k \in Keys : TaskStep(k)
    \/ Restart

Spec == Init /\ [][Next]_vars
-----------------------------------------------------------------------------
(* Properties.                                                             *)

Rollup == [read : SUBSET Nat, through : Nat]
Entry  == [kind : {"none", "append", "value"}, pinned : BOOLEAN, version : Nat,
           items : Seq(Nat), rollup : Rollup]
Call   == [op : {"idle", "append", "look", "claim", "set", "pin", "unpin"},
           key : Keys \cup {None}, seq : Nat, match : Int, read : SUBSET Nat, through : Nat]
Task   == [op : {"none", "ask", "logged"}, seq : Nat, read : SUBSET Nat, through : Nat]

(* Every variable holds what the code's types let it hold, and              *)
(* context_write is held by the value write in progress, nothing else.      *)
TypeOK ==
    /\ seq \in Nat
    /\ folded \in [Keys -> Entry]
    /\ entries \in [Keys -> Entry]
    /\ lock \in Callers \cup {None}
    /\ call \in [Callers -> Call]
    /\ \A c \in Callers : call[c].op = "set" <=> lock = c
    /\ \A c \in Callers : call[c].op # "idle" => call[c].key \in Keys
    /\ task \in [Keys -> Task]
    /\ sets \subseteq [key : Keys, seq : Nat]
    /\ won \subseteq [key : Keys, base : Int, seq : Nat]
    /\ overtaken \in [Keys -> SUBSET Nat]
    /\ crashes \in Nat

(* "With it, a stale write is refused" (openapi.yaml:445): between the      *)
(* version a write names and the write, nobody else's value was logged,     *)
(* whatever other writers, restarts and refused writes there were.          *)
NoLostUpdate ==
    \A w \in won, s \in sets : s.key = w.key => ~(w.base < s.seq /\ s.seq < w.seq)

(* "they survive a restart with versions and pins intact" (PLAN.md:110):    *)
(* an entry none of whose writes is half done is what a restart would       *)
(* rebuild. Excepted is a key with writes applied in another order than     *)
(* logged (append_context and pin_context take no lock over the two).       *)
EntrySurvives ==
    \A k \in Keys :
        overtaken[k] = {} /\ Unapplied(k) = {} => entries[k] = folded[k]

(* "items a rollup covers are represented rather than missing"              *)
(* (docs/integrating.md:504): a prompt passes an item off as summarised     *)
(* only if the summary was made from it, however many items joined, were    *)
(* summarised and came back after a restart in the meantime. Excepted is an *)
(* item that was applied after a later event of its entry: a summary dated  *)
(* by a later item may have been made without it, and the code then takes   *)
(* it for summarised all the same (Entry::rollup and maybe_rollup compare   *)
(* numbers). That exception is per item: the others of its entry hold.      *)
CoveredWasRead ==
    \A k \in Keys : Covered(entries[k]) \subseteq entries[k].rollup.read \cup overtaken[k]
=============================================================================
