------------------------------ MODULE Terminal ------------------------------
(***************************************************************************)
(* The room view of the terminal (src/tui/app.rs, src/tui/mod.rs), and an   *)
(* `oryxa approve` at another one.                                          *)
(*                                                                         *)
(* The view never waits: a key changes what it shows or spawns a task, and  *)
(* what tasks learn comes back through one channel, in the order they sent  *)
(* it.  A task may outlive the room it was started for, and two of them may *)
(* answer in the other order than they were asked.                          *)
(*                                                                         *)
(* The rooms are kept to what the view can see of them: a log that grows    *)
(* along Life, and the permission requests that wait.  An aborted follower  *)
(* sends nothing more, and the list of rooms is there when it is looked at. *)
(* Wording, raw events, the composer, the panel of the shared context, and  *)
(* whether the header says "live" are left out.                             *)
(***************************************************************************)
EXTENDS Naturals, Sequences, SequencesExt, FiniteSets

CONSTANTS
    Rooms,
    Scenes,         (* of a behaviour: the rooms there are from the start;   *)
                    (* what comes to their logs, but for answers, and how    *)
                    (* much of it is there from the start; whether somebody  *)
                    (* else answers; and the bounds on visits, answers,      *)
                    (* faults and the messages the channel holds             *)
    Nothing,
    MaxTasks        (* bound: calls on their way at once                     *)

Kinds == {"said", "started", "part", "finished", "failed", "requested", "cancelling"}
Ends == {"finished", "failed"}

(* No request comes twice, and no turn starts after its end: their names    *)
(* are made for them.                                                       *)
IsLife(life) ==
    /\ life \in Seq(ToSet(life))
    /\ \A k \in DOMAIN life : life[k].kind \in Kinds
    /\ \A j, k \in DOMAIN life : j < k =>
          /\ ~(life[j].kind = "requested" /\ life[k].kind = "requested" /\ life[j].what = life[k].what)
          /\ ~(life[j].kind \in Ends /\ life[k].kind = "started" /\ life[j].turn = life[k].turn)

ASSUME TerminalAssumption ==
    /\ MaxTasks \in Nat
    /\ \A s \in Scenes :
          /\ s.first \subseteq Rooms /\ s.approves \in BOOLEAN
          /\ {s.before, s.visits, s.answers, s.faults, s.inbox} \subseteq Nat
          /\ DOMAIN s.life = Rooms
          /\ \A r \in Rooms : IsLife(s.life[r])

VARIABLES
    log, waiting, made,     (* the rooms; of each its requests that wait     *)
    followers,              (* of every visit the task that follows its room *)
    tasks, calls,           (* calls that ask, and calls that answer         *)
    inbox,                  (* the channel                                   *)
    screen,
    approver,               (* `oryxa approve`                               *)
    answered, called, lost, faults,
    scene

server == <<log, waiting, made, answered, scene>>
vars == <<server, followers, tasks, calls, inbox, screen, approver, called, lost, faults>>

Life == scene.life

-----------------------------------------------------------------------------
(* The rooms (modules Room and Decisions).                                  *)

Answer(i) == [kind |-> "resolved", turn |-> Nothing, what |-> i]
Lived(r) == Cardinality({k \in DOMAIN log[r] : log[r][k].kind # "resolved"})
Next1(r) == Life[r][Lived(r) + 1]

(* PermissionBroker::pending: the requests that wait, in the order they     *)
(* came, which is the one their events will have in the log.                *)
Waits(r, k) == Life[r][k].kind = "requested" /\ Life[r][k].what \in waiting[r]
Listed(r) ==
    LET those == {k \in DOMAIN Life[r] : Waits(r, k)}
        nth(n) == CHOOSE k \in those : Cardinality({j \in those : j <= k}) = n
    IN  [n \in 1..Cardinality(those) |-> Life[r][nth(n)].what]

(* A request is there to be answered before the log tells of it. *)
Asks(r) ==
    /\ r \in made /\ Lived(r) < Len(Life[r])
    /\ Next1(r).kind = "requested" /\ Next1(r).what \notin waiting[r]
    /\ Next1(r).what \notin {a.what : a \in answered}
    /\ waiting' = [waiting EXCEPT ![r] = @ \cup {Next1(r).what}]
    /\ UNCHANGED <<log, made, answered, scene, followers, tasks, calls, inbox, screen, approver,
                   called, lost, faults>>

(* A turn that ends takes its requests with it, and the log says nothing of *)
(* them; a cancel logs that it is about to end one ("cancelling").          *)
Of(r, turn) == {Life[r][k].what : k \in {j \in DOMAIN Life[r] :
                                    Life[r][j].kind = "requested" /\ Life[r][j].turn = turn}}
Happens(r) ==
    /\ r \in made /\ Lived(r) < Len(Life[r])
    /\ LET e == Next1(r) IN
       /\ e.kind \in {"requested", "cancelling"} => \/ e.what \in waiting[r]
                                                    \/ e.what \in {a.what : a \in answered}
       /\ log' = [log EXCEPT ![r] = Append(@, e)]
       /\ waiting' = [waiting EXCEPT ![r] =
              IF e.kind \in Ends THEN @ \ Of(r, e.turn) ELSE @]
    /\ UNCHANGED <<made, answered, scene, followers, tasks, calls, inbox, screen, approver,
                   called, lost, faults>>

-----------------------------------------------------------------------------
(* The tasks of the view.                                                   *)

Says(message) == Len(inbox) < scene.inbox /\ inbox' = Append(inbox, message)

(* A slip: every connection replays the room. *)
ConnectsAfresh(s) ==
    /\ followers[s].at = "off"
    /\ followers' = [followers EXCEPT ![s].at = "on", ![s].since = 0]
    /\ UNCHANGED <<server, tasks, calls, inbox, screen, approver, called, lost, faults>>

(* follow_room: the next event, from wherever the last connection broke.    *)
Connects(s) ==
    /\ followers[s].at = "off"
    /\ followers' = [followers EXCEPT ![s].at = "on"]
    /\ UNCHANGED <<server, tasks, calls, inbox, screen, approver, called, lost, faults>>

Delivers(s) ==
    LET f == followers[s] IN
    /\ f.at = "on" /\ f.since < Len(log[f.room])
    /\ Says([kind |-> "event", room |-> f.room, seq |-> f.since + 1, from |-> s,
             list |-> <<>>, late |-> FALSE])
    /\ followers' = [followers EXCEPT ![s].since = @ + 1]
    /\ UNCHANGED <<server, tasks, calls, screen, approver, called, lost, faults>>

Breaks(s) ==
    /\ followers[s].at = "on" /\ faults < scene.faults /\ faults' = faults + 1
    /\ followers' = [followers EXCEPT ![s].at = "off"]
    /\ UNCHANGED <<server, tasks, calls, inbox, screen, approver, called, lost>>

(* load_interactions, open: the server answers, ...             *)
Task(kind, r) == [kind |-> kind, room |-> r, at |-> "asked", list |-> <<>>, late |-> FALSE]
Reads(k) ==
    /\ tasks[k].at = "asked"
    /\ IF tasks[k].kind = "open"
       THEN \E r \in Rooms \ made :
              /\ made' = made \cup {r}
              /\ tasks' = [tasks EXCEPT ![k].at = "told", ![k].room = r]
       ELSE /\ tasks' = [tasks EXCEPT ![k].at = "told",
                            ![k].list = IF tasks[k].kind = "load" THEN Listed(tasks[k].room) ELSE @]
            /\ UNCHANGED made
    /\ UNCHANGED <<log, waiting, answered, scene, followers, calls, inbox, screen, approver,
                   called, lost, faults>>

(* ... and the task passes it on.  An answer is late when one to a later    *)
(* question was there before it.                                            *)
Passes(k) ==
    /\ tasks[k].at = "told"
    /\ Says([kind |-> tasks[k].kind, room |-> tasks[k].room, seq |-> 0, from |-> 0,
             list |-> tasks[k].list, late |-> tasks[k].late])
    /\ tasks' = RemoveAt([j \in DOMAIN tasks |->
                   IF j < k /\ tasks[k].kind = "load" THEN [tasks[j] EXCEPT !.late = TRUE]
                   ELSE tasks[j]], k)
    /\ UNCHANGED <<server, followers, calls, screen, approver, called, lost, faults>>

(* A call fails: of a load of requests the view is not even told.           *)
Fails(k) ==
    /\ faults < scene.faults /\ faults' = faults + 1
    /\ tasks' = RemoveAt(tasks, k)
    /\ lost' = (lost \/ tasks[k].kind = "load")
    /\ UNCHANGED <<server, followers, calls, inbox, screen, approver, called>>

-----------------------------------------------------------------------------
(* The calls that answer a request, of the view and of `oryxa approve`.     *)
Call(by, r, i) == [by |-> by, room |-> r, what |-> i, at |-> "posted"]

(* A slip: the request is looked up without its room. *)
ResolvesAnywhere(c) ==
    /\ c.at = "posted"
    /\ \E r \in Rooms : c.what \in waiting[r]
    /\ waiting' = [r \in Rooms |-> waiting[r] \ {c.what}]
    /\ answered' = answered \cup {[what |-> c.what, room |-> c.room]}
    /\ calls' = (calls \ {c}) \cup {[c EXCEPT !.at = "resolved"]}
    /\ UNCHANGED <<log, made, scene, followers, tasks, inbox, screen, approver, called, lost, faults>>

(* Manager::resolve_interaction and PermissionBroker::resolve: a request of *)
(* this room that still waits is taken, ...                                 *)
Resolves(c) ==
    /\ c.at = "posted" /\ c.what \in waiting[c.room]
    /\ waiting' = [waiting EXCEPT ![c.room] = @ \ {c.what}]
    /\ answered' = answered \cup {[what |-> c.what, room |-> c.room]}
    /\ calls' = (calls \ {c}) \cup {[c EXCEPT !.at = "resolved"]}
    /\ UNCHANGED <<log, made, scene, followers, tasks, inbox, screen, approver, called, lost, faults>>

(* ... any other is refused, and what was taken is put on record.           *)
Refused(c) ==
    /\ c.at = "posted" /\ c.what \notin waiting[c.room]
    /\ calls' = calls \ {c}
    /\ UNCHANGED <<server, followers, tasks, inbox, screen, approver, called, lost, faults>>

Records(c) ==
    /\ c.at = "resolved"
    /\ log' = [log EXCEPT ![c.room] = Append(@, Answer(c.what))]
    /\ calls' = calls \ {c}
    /\ UNCHANGED <<waiting, made, answered, scene, followers, tasks, inbox, screen, approver,
                   called, lost, faults>>

CallFails(c) ==
    /\ faults < scene.faults /\ faults' = faults + 1
    /\ calls' = calls \ {c} /\ lost' = TRUE
    /\ UNCHANGED <<server, followers, tasks, inbox, screen, approver, called>>

(* commands.rs, approve: without --interaction it answers the one request   *)
(* that waits, and with several it answers none.                            *)
ApproveLooks(r) ==
    /\ scene.approves /\ approver.at = "idle" /\ r \in made /\ called < scene.answers
    /\ \E i \in waiting[r] : /\ waiting[r] = {i}
                             /\ approver' = [at |-> "looked", room |-> r, what |-> i]
    /\ UNCHANGED <<server, followers, tasks, calls, inbox, screen, called, lost, faults>>

ApprovePosts ==
    /\ approver.at = "looked" /\ approver' = [approver EXCEPT !.at = "idle"]
    /\ called' = called + 1
    /\ calls' = calls \cup {Call("approve", approver.room, approver.what)}
    /\ UNCHANGED <<server, followers, tasks, inbox, screen, lost, faults>>

-----------------------------------------------------------------------------
(* The view: what it shows, and what one message or one key does to it.     *)

Blank == [at |-> "rooms", room |-> Nothing, stream |-> 0, said |-> <<>>,
          groups |-> {}, running |-> {}, pending |-> <<>>, prompt |-> FALSE,
          mixed |-> FALSE, stale |-> FALSE]      (* the last two are history *)

Spawn(kind, r) == Len(tasks) < MaxTasks /\ tasks' = Append(tasks, Task(kind, r))

(* enter_room starts a follower and asks for the requests that wait; the    *)
(* follower of a room it was entered from goes on.                          *)
EnterRoom(r) ==
    /\ Len(followers) < scene.visits
    /\ followers' = Append(followers, [room |-> r, since |-> 0, at |-> "off"])
    /\ screen' = [Blank EXCEPT !.at = "room", !.room = r, !.stream = Len(followers) + 1]
    /\ Spawn("load", r)

LeaveRoom ==
    /\ followers' = IF screen.at = "room"
                    THEN [followers EXCEPT ![screen.stream].at = "gone",
                                           ![screen.stream].since = 0]
                    ELSE followers
    /\ screen' = Blank

(* on_event: one line of the log, shown below the others. *)
Block(voice, turn, seq) == [voice |-> voice, turn |-> turn, lines |-> <<seq>>]
Below(v, voice, turn, seq) == [v EXCEPT !.said = Append(@, Block(voice, turn, seq))]
Shown(v, e, seq) ==
    LET n == Len(v.said) IN
    CASE e.kind = "part" ->
           IF n > 0 /\ v.said[n].voice = "agent" /\ v.said[n].turn = e.turn
           THEN [v EXCEPT !.said[n].lines = Append(@, seq)]
           ELSE Below(v, "agent", e.turn, seq)
      [] e.kind = "said" ->
           IF e.what \in v.groups THEN v
           ELSE [Below(v, "person", e.turn, seq) EXCEPT !.groups = @ \cup {e.what}]
      [] e.kind = "started" -> [v EXCEPT !.running = @ \cup {e.turn}]
      [] e.kind = "finished" -> [v EXCEPT !.running = @ \ {e.turn}]
      [] e.kind = "failed" ->
           [Below(v, "note", Nothing, seq) EXCEPT !.running = @ \ {e.turn}]
      [] OTHER -> v

(* A slip: the requests are asked for again only when one is answered. *)
LoadsOnAnswers(e) == e.kind = "resolved"
LoadsOn(e) == e.kind \in {"requested", "resolved", "cancelling"}

OnEvent(m) ==
    LET e == log[m.room][m.seq] IN
    IF screen.at # "room" \/ m.room # screen.room THEN UNCHANGED <<screen, tasks>>
    ELSE /\ screen' = [Shown(screen, e, m.seq) EXCEPT !.mixed = @ \/ m.from # screen.stream]
         /\ IF LoadsOn(e) THEN Spawn("load", screen.room) ELSE UNCHANGED tasks

(* on_message. *)
Handles ==
    /\ inbox # <<>> /\ inbox' = Tail(inbox)
    /\ LET m == Head(inbox) IN
       CASE m.kind = "event" -> OnEvent(m) /\ UNCHANGED followers
         [] m.kind = "open" -> EnterRoom(m.room)
         [] m.kind = "load" ->
              /\ screen' = IF screen.at # "room" THEN screen
                           ELSE [screen EXCEPT !.prompt = m.list # <<>>, !.pending = m.list,
                                               !.stale = m.late]
              /\ UNCHANGED <<tasks, followers>>
    /\ UNCHANGED <<server, calls, approver, called, lost, faults>>

(* Keys: Enter on the list of rooms; n, or /new in a room; Enter on the     *)
(* list of agents; Esc, or /rooms.                                          *)
Key == UNCHANGED <<server, calls, inbox, approver, called, lost, faults>>
Enter(r) == screen.at = "rooms" /\ r \in made /\ EnterRoom(r) /\ Key
NewRoom ==
    /\ screen.at \in {"rooms", "room"} /\ ~screen.prompt
    /\ screen' = [Blank EXCEPT !.at = "new"] /\ Key /\ UNCHANGED <<tasks, followers>>
Open ==
    /\ screen.at = "new" /\ Spawn("open", Nothing) /\ Key /\ UNCHANGED <<screen, followers>>
    /\ Cardinality({k \in DOMAIN tasks : tasks[k].kind = "open"}) < Cardinality(Rooms \ made)
Leave == screen.at \in {"new", "room"} /\ ~screen.prompt /\ LeaveRoom /\ Key /\ UNCHANGED tasks

(* The prompt has the keyboard while it is open: Enter or d answers the     *)
(* first request, Esc closes it, and /approve opens it again.               *)
Resolve ==
    /\ screen.at = "room" /\ screen.prompt /\ screen.pending # <<>> /\ called < scene.answers
    /\ called' = called + 1
    /\ screen' = [screen EXCEPT !.pending = Tail(@), !.prompt = Len(screen.pending) > 1]
    /\ calls' = calls \cup {Call("view", screen.room, screen.pending[1])}
    /\ UNCHANGED <<server, followers, tasks, inbox, approver, lost, faults>>
Dismiss ==
    /\ screen.at = "room" /\ screen.prompt
    /\ screen' = [screen EXCEPT !.prompt = FALSE] /\ Key /\ UNCHANGED <<tasks, followers>>
Approve ==
    /\ screen.at = "room" /\ ~screen.prompt /\ screen.pending # <<>>
    /\ screen' = [screen EXCEPT !.prompt = TRUE] /\ Key /\ UNCHANGED <<tasks, followers>>

-----------------------------------------------------------------------------
Already(r) == IF r \in scene.first /\ scene.before <= Len(Life[r]) THEN scene.before ELSE 0
Init ==
    /\ scene \in Scenes
    /\ log = [r \in Rooms |-> SubSeq(Life[r], 1, Already(r))]
    /\ waiting = [r \in Rooms |-> {}] /\ made = scene.first
    /\ followers = <<>> /\ tasks = <<>> /\ calls = {} /\ inbox = <<>>
    /\ screen = Blank /\ approver = [at |-> "idle", room |-> Nothing, what |-> Nothing]
    /\ answered = {} /\ called = 0 /\ lost = FALSE /\ faults = 0

Keys == NewRoom \/ Open \/ Leave \/ Resolve \/ Dismiss \/ Approve \/ \E r \in Rooms : Enter(r)
FollowerStep(s) == Connects(s) \/ Delivers(s) \/ Breaks(s)
TaskStep(k) == Reads(k) \/ Passes(k) \/ Fails(k)
CallStep(c) == Resolves(c) \/ Refused(c) \/ Records(c) \/ CallFails(c)

Next ==
    \/ Keys \/ Handles
    \/ \E r \in Rooms : Asks(r) \/ Happens(r) \/ ApproveLooks(r)
    \/ \E s \in DOMAIN followers : FollowerStep(s)
    \/ \E k \in DOMAIN tasks : TaskStep(k)
    \/ \E c \in calls : CallStep(c)
    \/ ApprovePosts

Spec == Init /\ [][Next]_vars
-----------------------------------------------------------------------------
(* Properties.                                                              *)

InRoom == screen.at = "room"

Whats == UNION {{Life[r][k].what : k \in DOMAIN Life[r]} : r \in Rooms}
Turns == {Nothing} \cup UNION {{Life[r][k].turn : k \in DOMAIN Life[r]} : r \in Rooms}
Entries(r) == ToSet(Life[r]) \cup {Answer(i) : i \in Whats}

Visits == [room : Rooms, since : Nat, at : {"off", "on", "gone"}]
Tasks == [kind : {"load", "open"}, room : Rooms \cup {Nothing}, at : {"asked", "told"},
          list : Seq(Whats), late : BOOLEAN]
Messages == [kind : {"event", "load", "open"}, room : Rooms, seq : Nat, from : Nat,
             list : Seq(Whats), late : BOOLEAN]
Calls == [by : {"view", "approve"}, room : Rooms, what : Whats, at : {"posted", "resolved"}]
Blocks == [voice : {"agent", "person", "note"}, turn : Turns, lines : Seq(Nat)]
Screens == [at : {"rooms", "room", "new"}, room : Rooms \cup {Nothing}, stream : Nat,
            said : Seq(Blocks), groups : SUBSET Whats, running : SUBSET Turns,
            pending : Seq(Whats), prompt : BOOLEAN, mixed : BOOLEAN, stale : BOOLEAN]

RoomTypes ==
    /\ scene \in Scenes /\ made \subseteq Rooms
    /\ DOMAIN log = Rooms /\ \A r \in Rooms : log[r] \in Seq(Entries(r))
    /\ waiting \in [Rooms -> SUBSET Whats]
    /\ answered \subseteq [what : Whats, room : Rooms]
FollowerTypes ==
    /\ followers \in Seq(Visits)
    /\ \A s \in DOMAIN followers : followers[s].since <= Len(log[followers[s].room])
TaskTypes ==
    /\ tasks \in Seq(Tasks)
    /\ \A k \in DOMAIN tasks :
          tasks[k].kind = "load" \/ tasks[k].at = "told" => tasks[k].room \in Rooms
IsMessage(m) ==
    IF m.kind = "event"
    THEN /\ m.seq \in DOMAIN log[m.room]
         /\ m.from \in DOMAIN followers /\ followers[m.from].room = m.room
    ELSE m.from = 0
InboxTypes == inbox \in Seq(Messages) /\ \A p \in DOMAIN inbox : IsMessage(inbox[p])
ScreenTypes ==
    /\ screen \in Screens
    /\ InRoom => /\ screen.stream \in DOMAIN followers
                 /\ screen.room = followers[screen.stream].room
CallTypes ==
    /\ calls \subseteq Calls /\ called \in Nat /\ faults \in Nat /\ lost \in BOOLEAN
    /\ approver \in [at : {"idle", "looked"}, room : Rooms \cup {Nothing}, what : Whats \cup {Nothing}]
    /\ approver.at = "looked" => approver.room \in Rooms /\ approver.what \in Whats

(* Every variable holds what the code's types let it hold; no follower is   *)
(* ahead of its room's log, what the channel carries was in one, and the    *)
(* room on the screen is the one its stream follows.                        *)
TypeOK == RoomTypes /\ FollowerTypes /\ TaskTypes /\ InboxTypes /\ ScreenTypes /\ CallTypes

(* The events of the room that this visit has shown.                        *)
Seen == followers[screen.stream].since
           - Cardinality({k \in DOMAIN inbox : inbox[k].from = screen.stream})
Known(n) == [k \in 1..n |-> log[screen.room][k]]
IsLine(es, k) ==
    \/ es[k].kind \in {"part", "failed"}
    \/ es[k].kind = "said" /\ \A j \in 1..k - 1 : ~(es[j].kind = "said" /\ es[j].what = es[k].what)
Joined(es, j, k) == es[j].kind = "part" /\ es[k].kind = "part" /\ es[j].turn = es[k].turn

(* What a room's pane shows is its log up to some event and nothing else:   *)
(* each line once and in order, one block for what an agent says without    *)
(* being interrupted, and as running the turns that started and did not     *)
(* end, whatever connections break and rooms are left and entered           *)
(* (follow_room, on_event, enter_room).  `mixed` excepts a visit shown an   *)
(* event by the follower of another visit to the room.                      *)
PaneIsTheLog ==
    InRoom /\ ~screen.mixed =>
    LET es == Known(Seen)
        lines(b) == screen.said[b].lines
        Follows(j, k, joined) == j < k /\ (Joined(es, j, k) <=> joined)
    IN  /\ UNION {ToSet(lines(b)) : b \in DOMAIN screen.said} = {k \in DOMAIN es : IsLine(es, k)}
        /\ \A b \in DOMAIN screen.said :
              /\ \A k \in 2..Len(lines(b)) : Follows(lines(b)[k - 1], lines(b)[k], TRUE)
              /\ b > 1 => Follows(Last(lines(b - 1)), lines(b)[1], FALSE)
        /\ screen.running = {es[k].turn : k \in {j \in DOMAIN es : es[j].kind = "started"}}
              \ {es[k].turn : k \in {j \in DOMAIN es : es[j].kind \in Ends}}

(* Everything the view was told of it has dealt with.                       *)
Quiet ==
    /\ inbox = <<>> /\ calls = {} /\ \A k \in DOMAIN tasks : tasks[k].kind # "load"
    /\ followers[screen.stream].at = "on"
    /\ followers[screen.stream].since = Len(log[screen.room])
    /\ \A i \in waiting[screen.room] : \E j \in DOMAIN log[screen.room] :
          log[screen.room][j].kind = "requested" /\ log[screen.room][j].what = i

(* "the agent is blocked until someone answers, so burying it would be the  *)
(* wrong default" (app.rs:417): a view at rest shows every request of its   *)
(* room that waits, whatever it answered, dismissed, left and entered, and  *)
(* whoever else answers or cancels (load_interactions, on_message, resolve).*)
(* It does not when a call has failed (`lost`: a load that fails is not     *)
(* made again), nor when the last list it was given is the answer to an     *)
(* earlier question, overtaken by a later one's (`stale`).                  *)
NothingBuried ==
    InRoom /\ Quiet /\ ~screen.stale /\ ~lost =>
        waiting[screen.room] \subseteq ToSet(screen.pending)

(* A request is answered in its own room only, although the view may show,  *)
(* and answer, one it was told of for a room it has since left              *)
(* (App::resolve, PermissionBroker::resolve).                               *)
AnsweredAtHome == \A a \in answered :
    \E k \in DOMAIN Life[a.room] : Life[a.room][k].kind = "requested" /\ Life[a.room][k].what = a.what
=============================================================================
