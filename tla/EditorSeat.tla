----------------------------- MODULE EditorSeat -----------------------------
(***************************************************************************)
(* An editor as a seat in a room (src/acp_server.rs): the follower that     *)
(* forwards the room's log to the editor's panel, and the prompts that wait *)
(* for the room to go quiet.                                                *)
(*                                                                         *)
(* The follower starts at the room's last number, which it asks the server  *)
(* for after the session has been answered, and reads on from there across  *)
(* lost connections.  It tells the prompts through a watch channel how many *)
(* turns have started and how many run.  A prompt takes the started count   *)
(* as its baseline, posts its text, and waits: for a later turn to start    *)
(* and all turns to end, for its cancellation, or for nothing at all to     *)
(* happen for six seconds.                                                  *)
(*                                                                         *)
(* The room (module Room) is kept to what the seat can see of it: messages, *)
(* turns that start, speak and end, and a restart, after which a turn that  *)
(* was running ends without a word in the log.  A turn that failed or was   *)
(* empty "failed", one that finished or was cancelled "finished".  The time *)
(* the editor's own messages take in its panel is the editor's.             *)
(***************************************************************************)
EXTENDS Naturals, Sequences, FiniteSets

CONSTANTS
    Agents, Prompts, Nothing,
    Script,         (* of each turn: its agent, its parts and how it ends    *)
    Before,         (* turns that may run as the editor comes into the room *)
    Casts,          (* who asks, which turns may be woken, and how many other *)
                    (* messages there are, in a behaviour                   *)
    MaxFaults       (* failures, restarts and cancellations                 *)

Turns == DOMAIN Script

ASSUME EditorSeatAssumption ==
    /\ MaxFaults \in Nat /\ Nothing \notin Agents \cup Prompts
    /\ Before \subseteq Turns /\ \A t \in Before : Script[t].parts > 0
    /\ \A t \in Turns : /\ Script[t].by \in Agents /\ Script[t].parts \in Nat
                       /\ Script[t].ends \in {"finished", "failed"}
    /\ Casts \subseteq [asks : SUBSET Prompts, turns : SUBSET Turns, others : Nat]

VARIABLES
    log, turn, said,                            (* the room                 *)
    phase, loaded, hist, from, since, running, started, speaking,
                                                (* the follower             *)
    panel, heading,                             (* what the editor shows    *)
    prompt, slot,                               (* the prompts, and the     *)
                                                (* token of State.running   *)
    cast, faults

room == <<log, turn, said, cast>>
follower == <<phase, loaded, hist, from, since, running, started, speaking, panel, heading>>
vars == <<room, follower, prompt, slot, faults>>

Idle == [at |-> "no", base |-> 0, changed |-> FALSE, answered |-> FALSE, cancelled |-> FALSE,
         turn |-> Nothing, why |-> ""]

Init ==
    /\ cast \in Casts
    /\ \/ log = <<>> /\ turn = [t \in Turns |-> [at |-> "no", parts |-> 0]]
       \/ \E t \in Before \cap cast.turns : 
             /\ log = <<[kind |-> "said", who |-> Nothing, turn |-> Nothing],
                       [kind |-> "started", who |-> Script[t].by, turn |-> t],
                       [kind |-> "part", who |-> Script[t].by, turn |-> t]>>
             /\ turn = [u \in Turns |-> IF u = t THEN [at |-> "running", parts |-> 1]
                                        ELSE [at |-> "no", parts |-> 0]]
    /\ said = 0
    /\ phase = "none" /\ loaded = FALSE /\ hist = 0 /\ from = 0 /\ since = 0
    /\ running = {} /\ started = 0 /\ speaking = Nothing
    /\ panel = <<>> /\ heading = Nothing
    /\ prompt = [p \in Prompts |-> Idle] /\ slot = Nothing
    /\ faults = 0

-----------------------------------------------------------------------------
(* The room, whose life before the editor comes is that of Init.            *)
Logs(kind, who, t) == log' = Append(log, [kind |-> kind, who |-> who, turn |-> t])
With(at) == {t \in Turns : turn[t].at = at}

(* A message wakes at most one turn of each of some agents. *)
Wakes(woken) ==
    /\ woken \subseteq With("no") \cap cast.turns /\ UNCHANGED cast
    /\ \A t, u \in woken : Script[t].by = Script[u].by => t = u
    /\ turn' = [t \in Turns |-> IF t \in woken THEN [turn[t] EXCEPT !.at = "queued"] ELSE turn[t]]

(* Something goes wrong, or somebody cancels. *)
Faulty == faults < MaxFaults /\ faults' = faults + 1

(* No prompt is the room's only reason for a turn any more (history). *)
Spoilt == [p \in Prompts |-> [prompt[p] EXCEPT !.turn = Nothing]]

(* Somebody else speaks in the room. *)
Said ==
    /\ phase # "none" /\ said < cast.others /\ said' = said + 1
    /\ \E woken \in SUBSET Turns : Wakes(woken)
    /\ Logs("said", Nothing, Nothing)
    /\ prompt' = Spoilt
    /\ UNCHANGED <<follower, slot, faults>>

Starts(t) ==
    /\ phase # "none" /\ turn[t].at = "queued" /\ \A u \in With("running") : Script[u].by # Script[t].by
    /\ turn' = [turn EXCEPT ![t].at = "running"]
    /\ Logs("started", Script[t].by, t) /\ UNCHANGED <<said, cast>>
    /\ UNCHANGED <<follower, prompt, slot, faults>>

Speaks(t) ==
    /\ phase # "none" /\ turn[t].at = "running" /\ turn[t].parts < Script[t].parts
    /\ turn' = [turn EXCEPT ![t].parts = @ + 1]
    /\ Logs("part", Script[t].by, t) /\ UNCHANGED <<said, cast>>
    /\ UNCHANGED <<follower, prompt, slot, faults>>

Ends(t) ==
    /\ phase # "none" /\ turn[t].at = "running"
    /\ turn' = [turn EXCEPT ![t].at = "done"]
    /\ Logs(Script[t].ends, Script[t].by, t) /\ UNCHANGED <<said, cast>>
    /\ UNCHANGED <<follower, prompt, slot, faults>>

(* The server restarts: its connections break, and turns that ran are       *)
(* failed in its memory only (Manager::rehydrate).                          *)
Restart ==
    /\ phase # "none" /\ Faulty
    /\ turn' = [t \in Turns |-> IF turn[t].at = "running" THEN [turn[t] EXCEPT !.at = "lost"] ELSE turn[t]]
    /\ phase' = IF phase = "reading" THEN "apart" ELSE phase
    /\ prompt' = Spoilt
    /\ UNCHANGED <<log, said, cast, loaded, hist, from, since, running, started, speaking, panel, heading, slot>>

-----------------------------------------------------------------------------
(* What a block shows: the log entry it came from, who spoke, and under     *)
(* whose heading a reader finds it.                                         *)
Block(i, under) == [seq |-> i, who |-> log[i].who, under |-> under]

(* A slip: a turn that failed or was empty stays in the running set. *)
RunsAfterFailing(e) ==
    CASE e.kind = "started" -> running \cup {e.turn}
      [] e.kind = "finished" -> running \ {e.turn}
      [] OTHER -> running

(* render's arms that follow the running turns. *)
Runs(e) ==
    CASE e.kind = "started" -> running \cup {e.turn}
      [] e.kind \in {"finished", "failed"} -> running \ {e.turn}
      [] OTHER -> running

(* A slip: somebody else's message leaves the last speaker in place. *)
ShowsOn(e, i) ==
    IF e.kind = "part"
    THEN LET under == IF speaking # e.who THEN e.who ELSE heading IN
         speaking' = e.who /\ heading' = under /\ panel' = Append(panel, Block(i, under))
    ELSE IF e.kind \in {"said", "failed"}
    THEN UNCHANGED speaking /\ heading' = Nothing /\ panel' = Append(panel, Block(i, Nothing))
    ELSE UNCHANGED <<speaking, heading, panel>>

(* render and say: text under its speaker's heading, which is written when  *)
(* the speaker changes; others' messages and failed turns as notices.       *)
Shows(e, i) ==
    IF e.kind = "part"
    THEN LET under == IF speaking # e.who THEN e.who ELSE heading IN
         speaking' = e.who /\ heading' = under /\ panel' = Append(panel, Block(i, under))
    ELSE IF e.kind \in {"said", "failed"}
    THEN speaking' = Nothing /\ heading' = Nothing /\ panel' = Append(panel, Block(i, Nothing))
    ELSE UNCHANGED <<speaking, heading, panel>>

(* session/new, in a room of its own or one that exists (open_room).        *)
NewSession ==
    /\ phase = "none" /\ phase' = "seeking"
    /\ UNCHANGED <<room, loaded, hist, from, since, running, started, speaking, panel, heading,
                   prompt, slot, faults>>

(* session/load: the history is rendered, and then followed (history).      *)
Kept(i) == log[i].kind \in {"part", "said", "asked"}
LoadSession ==
    /\ phase = "none" /\ phase' = "loading" /\ loaded' = TRUE /\ hist' = Len(log)
    /\ panel' = [k \in 1..Cardinality({i \in DOMAIN log : Kept(i)}) |->
                   LET i == CHOOSE j \in DOMAIN log :
                              Kept(j) /\ Cardinality({l \in 1..j : Kept(l)}) = k
                   IN  Block(i, log[i].who)]
    /\ UNCHANGED <<room, from, since, running, started, speaking, heading,
                   prompt, slot, faults>>
Loaded ==
    /\ phase = "loading" /\ phase' = "seeking"
    /\ UNCHANGED <<room, loaded, hist, from, since, running, started, speaking, panel, heading,
                   prompt, slot, faults>>

(* follow: the number to start after, or 0 when the server does not say.    *)
Seek ==
    /\ phase = "seeking" /\ phase' = "reading"
    /\ \/ since' = Len(log) /\ UNCHANGED faults
       \/ since' = 0 /\ Faulty
    /\ from' = since'
    /\ UNCHANGED <<room, loaded, hist, running, started, speaking, panel, heading,
                   prompt, slot>>

(* The next event of the stream: shown, counted, and told to the prompts.   *)
Read ==
    /\ phase = "reading" /\ since < Len(log)
    /\ since' = since + 1
    /\ LET e == log[since'] IN
       /\ Shows(e, since') /\ running' = Runs(e)
       /\ started' = started + IF e.kind = "started" THEN 1 ELSE 0
    /\ prompt' = [p \in Prompts |-> [prompt[p] EXCEPT !.changed = prompt[p].at \in {"posting", "waiting"}]]
    /\ UNCHANGED <<room, phase, loaded, hist, from, slot, faults>>

Disconnect ==
    /\ phase = "reading" /\ Faulty
    /\ phase' = "apart"
    /\ UNCHANGED <<room, loaded, hist, from, since, running, started, speaking, panel, heading,
                   prompt, slot>>

(* A slip: the follower connects again where it first began. *)
ReconnectAfresh ==
    /\ phase = "apart" /\ phase' = "reading" /\ since' = from
    /\ UNCHANGED <<room, loaded, hist, from, running, started, speaking, panel, heading,
                   prompt, slot, faults>>

(* After a second, from the last number it has seen. *)
Reconnect ==
    /\ phase = "apart" /\ phase' = "reading"
    /\ UNCHANGED <<room, loaded, hist, from, since, running, started, speaking, panel, heading,
                   prompt, slot, faults>>

-----------------------------------------------------------------------------
(* session/prompt: its token goes into the one slot of the session, and     *)
(* relay takes its baseline.                                                *)
Ask(p) ==
    /\ p \in cast.asks /\ prompt[p].at = "no" /\ phase \in {"seeking", "reading", "apart"}
    /\ slot' = p
    /\ prompt' = [prompt EXCEPT ![p].at = "posting", ![p].base = started]
    /\ UNCHANGED <<room, follower, faults>>

(* A prompt ends, and what is in the slot is thrown away, whosever it is.   *)
EndsWith(p, why) ==
    /\ prompt' = [prompt EXCEPT ![p] = [Idle EXCEPT !.at = "ended", !.why = why, !.turn = prompt[p].turn]]
    /\ slot' = Nothing

(* The room takes the message.  Its one turn is kept (as history) if it is  *)
(* the room's only one, and the follower has read the start of every turn   *)
(* before it, and of none since the baseline.                               *)
Post(p) ==
    /\ prompt[p].at = "posting"
    /\ \E woken \in SUBSET Turns :
          /\ Wakes(woken) /\ UNCHANGED said
          /\ LET alone == /\ \E t \in Turns : woken = {t}
                          /\ With("queued") \cup With("running") = {}
                          /\ phase \in {"reading", "apart"} /\ started = prompt[p].base
                          /\ \A i \in DOMAIN log : i > since => log[i].kind # "started"
             IN  prompt' = [Spoilt EXCEPT ![p].at = "waiting",
                              ![p].turn = IF alone THEN CHOOSE t \in woken : TRUE ELSE Nothing]
    /\ Logs("asked", Nothing, Nothing)
    /\ UNCHANGED <<follower, slot, faults>>

PostFails(p) ==
    /\ prompt[p].at = "posting" /\ Faulty
    /\ EndsWith(p, "error")
    /\ UNCHANGED <<room, follower>>

(* A slip: the baseline itself counts as an answer. *)
AnsweredAtBaseline(p) == prompt[p].answered \/ started >= prompt[p].base

Answered(p) == prompt[p].answered \/ started > prompt[p].base

(* The channel has changed: quiet after an answer ends the prompt. *)
Hears(p) ==
    /\ prompt[p].at = "waiting" /\ prompt[p].changed
    /\ IF Answered(p) /\ running = {} THEN EndsWith(p, "quiet")
       ELSE /\ prompt' = [prompt EXCEPT ![p].changed = FALSE, ![p].answered = Answered(p)]
            /\ UNCHANGED slot
    /\ UNCHANGED <<room, follower, faults>>

(* NOBODY_ANSWERED has passed. *)
GivesUp(p) ==
    /\ prompt[p].at = "waiting" /\ ~prompt[p].answered
    /\ EndsWith(p, "nobody")
    /\ UNCHANGED <<room, follower, faults>>

Stops(p) ==
    /\ prompt[p].at = "waiting" /\ prompt[p].cancelled
    /\ EndsWith(p, "cancelled")
    /\ UNCHANGED <<room, follower, faults>>

(* session/cancel: the token in the slot, and the room's turns, which end   *)
(* as any turn does.                                                        *)
Cancel ==
    /\ Faulty
    /\ prompt' = IF slot = Nothing THEN prompt ELSE [prompt EXCEPT ![slot].cancelled = TRUE]
    /\ UNCHANGED <<room, follower, slot>>

Done == UNCHANGED vars   (* an editor that asks nothing *)

Next ==
    \/ Said \/ Restart
    \/ \E t \in Turns : Starts(t) \/ Speaks(t) \/ Ends(t)
    \/ NewSession \/ LoadSession \/ Loaded \/ Seek \/ Read \/ Disconnect \/ Reconnect
    \/ \E p \in Prompts : Ask(p) \/ Post(p) \/ PostFails(p) \/ Hears(p) \/ GivesUp(p) \/ Stops(p)
    \/ Cancel \/ Done

Spec == Init /\ [][Next]_vars

(* The follower is a task and a prompt is another; timers fire; and every   *)
(* turn that runs ends (module Room: its timeout).                          *)
FairSpec ==
    /\ Spec
    /\ WF_vars(Loaded) /\ WF_vars(Seek) /\ WF_vars(Read) /\ WF_vars(Reconnect)
    /\ \A t \in Turns : WF_vars(Starts(t)) /\ WF_vars(Ends(t))
    /\ \A p \in Prompts : /\ WF_vars(Post(p) \/ PostFails(p)) /\ WF_vars(Hears(p))
                          /\ WF_vars(GivesUp(p)) /\ WF_vars(Stops(p))

-----------------------------------------------------------------------------
(* The state has its shape (State, Follow, Turns).                          *)
TypeOK ==
    /\ turn \in [Turns -> [at : {"no", "queued", "running", "done", "lost"}, parts : Nat]]
    /\ phase \in {"none", "loading", "seeking", "reading", "apart"}
    /\ hist \in 0..Len(log) /\ from \in 0..since /\ since \in 0..Len(log)
    /\ running \subseteq Turns /\ started \in Nat
    /\ slot \in Prompts \cup {Nothing}
    /\ \A p \in Prompts : prompt[p].base <= started /\ (prompt[p].answered => prompt[p].base < started)
    /\ slot # Nothing => prompt[slot].at \in {"posting", "waiting"}

(* Blocks of the panel stand in the log's order, each entry once.           *)
Rises(blocks) == \A j, k \in blocks : j < k => panel[j].seq < panel[k].seq

(* A loaded session's follower did not begin where its history ended: the   *)
(* log grew in between, or the server did not say how long it was.          *)
Split == loaded /\ phase \in {"reading", "apart"} /\ from # hist

(* The panel is the room's log, from its first entry if the session was     *)
(* loaded and else from where the editor joined, up to what the follower    *)
(* has read: every entry that is for the panel, once and in order, across   *)
(* lost connections and restarts, unless the follower of a loaded session   *)
(* did not begin where its history ended (follow, render, history).         *)
PanelIsTheLog ==
    ~Split =>
       LET first == IF loaded THEN 1 ELSE from + 1
           last == IF phase = "loading" \/ phase = "seeking" THEN hist ELSE since
           forwarded == {i \in first..last :
                         log[i].kind \in {"part", "said", IF i <= hist THEN "asked" ELSE "failed"}}
       IN  Rises(DOMAIN panel) /\ {panel[k].seq : k \in DOMAIN panel} = forwarded

(* Every agent's text stands under that agent's heading, however the turns  *)
(* of several agents and other people's messages interleave (say).          *)
Attributed ==
    \A k \in DOMAIN panel : log[panel[k].seq].kind = "part" => panel[k].under = panel[k].who

(* A prompt that was the room's only reason for a turn, posted when the     *)
(* follower had read the start of every earlier turn, and ended because the *)
(* room was quiet, ended after its turn, with all of its text shown.        *)
AnswerIsShown ==
    \A p \in Prompts : prompt[p].turn # Nothing /\ prompt[p].why = "quiet" =>
        LET t == prompt[p].turn IN
           /\ turn[t].at = "done"
           /\ \A i \in DOMAIN log : log[i].kind = "part" /\ log[i].turn = t =>
                 \E k \in DOMAIN panel : panel[k].seq = i

(* Every prompt is answered in the end, also one whose token a later prompt *)
(* has replaced, unless a restart has lost a turn that ran (relay).         *)
PromptEnds ==
    \A p \in Prompts :
       prompt[p].at \in {"posting", "waiting"} ~> prompt[p].at = "ended" \/ With("lost") # {}
=============================================================================
