--------------------------- MODULE EditorSeatProofs ---------------------------
(* Theorems about EditorSeat, for any agents, prompts and turns, and any     *)
(* number of faults.                                                         *)
EXTENDS EditorSeat, FiniteSetTheorems, WellFoundedInduction, TLAPS

(***************************************************************************)
(* Types.                                                                  *)
(***************************************************************************)

Entries == [kind : {"said", "asked", "started", "part", "finished", "failed"},
            who : Agents \cup {Nothing}, turn : Turns \cup {Nothing}]
TurnStates == [at : {"no", "queued", "running", "done", "lost"}, parts : Nat]
Asked == [at : {"no", "posting", "waiting", "ended"}, base : Nat, changed : BOOLEAN,
          answered : BOOLEAN, cancelled : BOOLEAN, turn : Turns \cup {Nothing},
          why : {"", "error", "quiet", "nobody", "cancelled"}]

LogTypes ==
    /\ log \in Seq(Entries)
    /\ \A i \in DOMAIN log : log[i].kind = "started" => log[i].turn \in Turns
    /\ turn \in [Turns -> TurnStates]

FollowTypes ==
    /\ phase \in {"none", "loading", "seeking", "reading", "apart"}
    /\ hist \in 0..Len(log) /\ from \in 0..since /\ since \in 0..Len(log)
    /\ running \subseteq Turns /\ started \in Nat

(* A prompt that is not yet waiting has no answer.                         *)
Fits(q, n) == q \in Asked /\ q.base <= n /\ (q.answered => q.base < n /\ q.at = "waiting")

PromptTypes ==
    /\ slot \in Prompts \cup {Nothing}
    /\ prompt \in [Prompts -> Asked] /\ \A p \in Prompts : Fits(prompt[p], started)
    /\ slot # Nothing => prompt[slot].at \in {"posting", "waiting"}

SeatTypes == LogTypes /\ FollowTypes /\ PromptTypes

LEMMA Typed == SeatTypes => TypeOK
BY DEF SeatTypes, LogTypes, FollowTypes, PromptTypes, Fits, TurnStates, TypeOK

LEMMA Appended ==
    ASSUME NEW S, NEW s \in Seq(S), NEW e \in S
    PROVE  /\ Append(s, e) \in Seq(S) /\ Len(Append(s, e)) = Len(s) + 1 /\ Len(s) \in Nat
           /\ DOMAIN s = 1..Len(s) /\ DOMAIN Append(s, e) = 1..(Len(s) + 1)
           /\ \A k \in 1..Len(s) : Append(s, e)[k] = s[k]
           /\ Append(s, e)[Len(s) + 1] = e
OBVIOUS

LEMMA Casting ==
    /\ \A t \in Turns : /\ Script[t].by \in Agents /\ Script[t].parts \in Nat
                        /\ Script[t].ends \in {"finished", "failed"}
    /\ Before \subseteq Turns /\ MaxFaults \in Nat /\ Nothing \notin Prompts
BY EditorSeatAssumption

LEMMA SeatInit == Init => SeatTypes
<1>. SUFFICES ASSUME Init PROVE SeatTypes
  OBVIOUS
<1>1. LogTypes
  <2>1. CASE log = <<>> /\ turn = [t \in Turns |-> [at |-> "no", parts |-> 0]]
    BY <2>1 DEF LogTypes, TurnStates
  <2>2. ASSUME NEW t \in Before \cap cast.turns,
               log = <<[kind |-> "said", who |-> Nothing, turn |-> Nothing],
                       [kind |-> "started", who |-> Script[t].by, turn |-> t],
                       [kind |-> "part", who |-> Script[t].by, turn |-> t]>>,
               turn = [u \in Turns |-> IF u = t THEN [at |-> "running", parts |-> 1]
                                       ELSE [at |-> "no", parts |-> 0]]
        PROVE  LogTypes
    <3>1. t \in Turns /\ Script[t].by \in Agents
      BY Casting
    <3>2. /\ [kind |-> "said", who |-> Nothing, turn |-> Nothing] \in Entries
          /\ [kind |-> "started", who |-> Script[t].by, turn |-> t] \in Entries
          /\ [kind |-> "part", who |-> Script[t].by, turn |-> t] \in Entries
      BY <3>1 DEF Entries
    <3>3. log \in Seq(Entries) /\ \A i \in DOMAIN log : log[i].kind = "started" => log[i].turn \in Turns
      BY <2>2, <3>1, <3>2
    <3>. QED
      BY <2>2, <3>3 DEF LogTypes, TurnStates
  <2>. QED
    BY <2>1, <2>2 DEF Init
<1>2. Len(log) \in Nat
  BY <1>1 DEF LogTypes
<1>3. FollowTypes
  BY <1>2 DEF Init, FollowTypes
<1>4. PromptTypes
  <2>1. Idle \in Asked /\ Idle.base = 0 /\ ~Idle.answered
    BY DEF Idle, Asked
  <2>2. prompt = [p \in Prompts |-> Idle] /\ slot = Nothing /\ started = 0
    BY DEF Init
  <2>. QED
    BY <2>1, <2>2 DEF PromptTypes, Fits
<1>. QED
  BY <1>1, <1>3, <1>4 DEF SeatTypes

(* What the log holds stays, and the room's steps keep its types.          *)
LEMMA LogNext ==
    ASSUME SeatTypes, Next
    PROVE  /\ LogTypes' /\ Len(log') >= Len(log) /\ Len(log') \in Nat
           /\ \A i \in DOMAIN log : i \in DOMAIN log' /\ log'[i] = log[i]
<1>0. LogTypes /\ Len(log) \in Nat /\ log \in Seq(Entries)
  BY DEF SeatTypes, LogTypes
<1>1. ASSUME NEW kind \in {"said", "asked", "started", "part", "finished", "failed"},
             NEW who \in Agents \cup {Nothing}, NEW t \in Turns \cup {Nothing}, Logs(kind, who, t),
             kind = "started" => t \in Turns, turn' \in [Turns -> TurnStates]
      PROVE  /\ LogTypes' /\ Len(log') >= Len(log) /\ Len(log') \in Nat
             /\ \A i \in DOMAIN log : i \in DOMAIN log' /\ log'[i] = log[i]
  <2>. DEFINE e == [kind |-> kind, who |-> who, turn |-> t]
  <2>1. e \in Entries /\ e.kind = kind /\ e.turn = t /\ log' = Append(log, e)
    BY <1>1 DEF Entries, Logs
  <2>. HIDE DEF e
  <2>2. /\ log' \in Seq(Entries) /\ Len(log') = Len(log) + 1
        /\ DOMAIN log = 1..Len(log) /\ DOMAIN log' = 1..(Len(log) + 1)
        /\ \A k \in 1..Len(log) : log'[k] = log[k]
        /\ log'[Len(log) + 1] = e
    BY <1>0, <2>1, Appended
  <2>3. \A i \in DOMAIN log' : log'[i].kind = "started" => log'[i].turn \in Turns
    BY <1>0, <1>1, <2>1, <2>2 DEF LogTypes
  <2>. QED
    BY <1>0, <1>1, <2>2, <2>3 DEF LogTypes
<1>2. ASSUME NEW woken, Wakes(woken) PROVE turn' \in [Turns -> TurnStates]
  BY <1>0, <1>2 DEF Wakes, LogTypes, TurnStates
<1>3. CASE Said
  BY <1>1, <1>2, <1>3 DEF Said
<1>4. ASSUME NEW p \in Prompts, Post(p) PROVE Logs("asked", Nothing, Nothing) /\ turn' \in [Turns -> TurnStates]
  BY <1>2, <1>4 DEF Post
<1>5. ASSUME NEW t \in Turns, Starts(t) \/ Speaks(t) \/ Ends(t)
      PROVE  /\ turn' \in [Turns -> TurnStates]
             /\ \E kind \in {"started", "part", "finished", "failed"} : Logs(kind, Script[t].by, t)
  <2>0. turn \in [Turns -> TurnStates] /\ Script[t].ends \in {"finished", "failed"}
    BY <1>0, Casting DEF LogTypes
  <2>1. CASE Starts(t)
    BY <2>0, <2>1 DEF Starts, TurnStates
  <2>2. CASE Speaks(t)
    BY <2>0, <2>2 DEF Speaks, TurnStates
  <2>3. CASE Ends(t)
    BY <2>0, <2>3 DEF Ends, TurnStates
  <2>. QED
    BY <1>5, <2>1, <2>2, <2>3
<1>6. CASE Restart
  BY <1>0, <1>6 DEF Restart, LogTypes, TurnStates
<1>7. CASE UNCHANGED <<log, turn>>
  BY <1>0, <1>7 DEF LogTypes
<1>8. CASE \E t \in Turns : Starts(t) \/ Speaks(t) \/ Ends(t)
  <2>1. PICK t \in Turns : Starts(t) \/ Speaks(t) \/ Ends(t)
    BY <1>8
  <2>2. Script[t].by \in Agents
    BY Casting
  <2>. QED
    BY <1>1, <1>5, <2>1, <2>2
<1>. QED
  BY <1>0, <1>1, <1>3, <1>4, <1>6, <1>7, <1>8
     DEF Next, NewSession, LoadSession, Loaded, Seek, Read, Disconnect, Reconnect, Ask, PostFails, Hears,
         GivesUp, Stops, Cancel, Done, room, follower, vars

LEMMA FollowNext == SeatTypes /\ Next => FollowTypes'
<1>. SUFFICES ASSUME SeatTypes, Next PROVE FollowTypes'
  OBVIOUS
<1>0. /\ LogTypes /\ FollowTypes /\ Len(log) \in Nat /\ DOMAIN log = 1..Len(log) /\ log \in Seq(Entries)
      /\ Len(log') >= Len(log) /\ Len(log') \in Nat
  BY LogNext DEF SeatTypes, LogTypes
<1>1. CASE UNCHANGED <<hist, from, since, running, started>> /\ phase' \in {"none", "loading", "seeking", "reading", "apart"}
  BY <1>0, <1>1 DEF FollowTypes
<1>2. CASE LoadSession
  BY <1>0, <1>2 DEF LoadSession, FollowTypes, room
<1>3. CASE Seek
  BY <1>0, <1>3 DEF Seek, FollowTypes, room
<1>4. CASE Read
  <2>1. since + 1 \in 1..Len(log)
    BY <1>0, <1>4 DEF Read, FollowTypes
  <2>2. log[since + 1] \in Entries
    BY <1>0, <2>1
  <2>3. running' \subseteq Turns
    BY <1>0, <1>4, <2>1, <2>2 DEF Read, Runs, LogTypes, FollowTypes
  <2>4. started' \in Nat
    BY <1>0, <1>4 DEF Read, FollowTypes
  <2>5. UNCHANGED <<log, phase, hist, from>> /\ since' = since + 1
    BY <1>4 DEF Read, room
  <2>. QED
    BY <1>0, <2>1, <2>3, <2>4, <2>5 DEF FollowTypes
<1>. QED
  BY <1>0, <1>1, <1>2, <1>3, <1>4, ZenonT(60)
     DEF Next, Said, Restart, Starts, Speaks, Ends, NewSession, Loaded, Disconnect, Reconnect, Ask, Post,
         PostFails, Hears, GivesUp, Stops, Cancel, Done, room, follower, vars, FollowTypes

(* The prompts: one changes, or what all of them are told of the log does. *)
LEMMA OnePrompt ==
    ASSUME PromptTypes, NEW p \in Prompts, NEW q \in Asked, prompt' = [prompt EXCEPT ![p] = q],
           started' = started, q.base <= started, q.answered => q.base < started /\ q.at = "waiting",
           \/ slot' = Nothing \/ (slot' = p /\ q.at \in {"posting", "waiting"})
           \/ (slot' = slot /\ (q.at \in {"posting", "waiting"} \/ q.at = prompt[p].at))
    PROVE  PromptTypes'
BY DEF PromptTypes, Fits

LEMMA AllPrompts ==
    ASSUME PromptTypes, slot' = slot, started \in Nat, started' \in Nat, started' >= started,
           prompt' \in [Prompts -> Asked],
           \A p \in Prompts : /\ prompt'[p].at = prompt[p].at /\ prompt'[p].base = prompt[p].base
                              /\ prompt'[p].answered = prompt[p].answered
    PROVE  PromptTypes'
<1>1. \A p \in Prompts : prompt[p].base \in Nat
  BY DEF PromptTypes, Asked
<1>. QED
  BY <1>1 DEF PromptTypes, Fits

LEMMA PromptNext == SeatTypes /\ Next => PromptTypes'
<1>. SUFFICES ASSUME SeatTypes, Next PROVE PromptTypes'
  OBVIOUS
<1>0. LogTypes /\ FollowTypes /\ PromptTypes /\ started \in Nat
  BY DEF SeatTypes, FollowTypes
<1>1. ASSUME NEW p \in Prompts
      PROVE  /\ prompt[p] \in Asked /\ prompt[p].base \in Nat /\ Fits(prompt[p], started)
             /\ [prompt[p] EXCEPT !.turn = Nothing] \in Asked
             /\ [prompt[p] EXCEPT !.cancelled = TRUE] \in Asked
             /\ \A b \in BOOLEAN : [prompt[p] EXCEPT !.changed = b] \in Asked
  BY ZenonT(30), <1>0 DEF PromptTypes, Asked
<1>2. ASSUME prompt' = Spoilt, UNCHANGED <<slot, started>> PROVE PromptTypes'
  <2>1. \A p \in Prompts : prompt'[p] = [prompt[p] EXCEPT !.turn = Nothing]
    BY <1>2 DEF Spoilt
  <2>2. prompt' \in [Prompts -> Asked]
    BY <1>1, <1>2 DEF Spoilt
  <2>3. ASSUME NEW p \in Prompts
        PROVE  /\ prompt'[p].at = prompt[p].at /\ prompt'[p].base = prompt[p].base
               /\ prompt'[p].answered = prompt[p].answered
    <3>1. prompt[p] \in Asked /\ prompt'[p] = [prompt[p] EXCEPT !.turn = Nothing]
      BY <1>1, <2>1
    <3>. QED
      BY <3>1 DEF Asked
  <2>. QED
    BY <1>0, <1>2, <2>2, <2>3, AllPrompts
<1>3. CASE Read
  <2>. DEFINE b(p) == prompt[p].at \in {"posting", "waiting"}
  <2>1. /\ prompt' = [p \in Prompts |-> [prompt[p] EXCEPT !.changed = b(p)]]
        /\ slot' = slot /\ started' \in Nat /\ started' >= started
    BY <1>0, <1>3 DEF Read
  <2>2. \A p \in Prompts : b(p) \in BOOLEAN
    OBVIOUS
  <2>. HIDE DEF b
  <2>3. prompt' \in [Prompts -> Asked]
    BY <1>1, <2>1, <2>2
  <2>4. \A p \in Prompts : /\ prompt'[p].at = prompt[p].at /\ prompt'[p].base = prompt[p].base
                           /\ prompt'[p].answered = prompt[p].answered
    BY <1>1, <2>1 DEF Asked
  <2>. QED
    BY <1>0, <2>1, <2>3, <2>4, AllPrompts
<1>4. ASSUME NEW p \in Prompts, Ask(p) PROVE PromptTypes'
  <2>. DEFINE q == [prompt[p] EXCEPT !.at = "posting", !.base = started]
  <2>1. prompt' = [prompt EXCEPT ![p] = q] /\ slot' = p /\ started' = started
    BY <1>4 DEF Ask, follower
  <2>2. q \in Asked /\ q.at = "posting" /\ q.base = started /\ ~q.answered
    BY ZenonT(30), <1>0, <1>1, <1>4 DEF Ask, Asked, Fits
  <2>. HIDE DEF q
  <2>3. q.base <= started /\ (q.answered => q.base < started /\ q.at = "waiting")
    BY <1>0, <2>2
  <2>4. slot' = p /\ q.at \in {"posting", "waiting"}
    BY <2>1, <2>2
  <2>. QED
    BY <1>0, <2>1, <2>2, <2>3, <2>4, OnePrompt
<1>5. ASSUME NEW p \in Prompts, NEW why \in {"error", "quiet", "nobody", "cancelled"},
             EndsWith(p, why), started' = started
      PROVE  PromptTypes'
  <2>. DEFINE q == [Idle EXCEPT !.at = "ended", !.why = why, !.turn = prompt[p].turn]
  <2>1. prompt' = [prompt EXCEPT ![p] = q] /\ slot' = Nothing
    BY <1>5 DEF EndsWith
  <2>2. q \in Asked /\ q.base = 0 /\ ~q.answered
    BY ZenonT(30), <1>1 DEF Idle, Asked
  <2>. HIDE DEF q
  <2>3. q.base <= started /\ (q.answered => q.base < started /\ q.at = "waiting")
    BY <1>0, <2>2
  <2>. QED
    BY <1>0, <1>5, <2>1, <2>2, <2>3, OnePrompt
<1>6. ASSUME NEW p \in Prompts, Post(p) PROVE PromptTypes'
  <2>1. PICK u \in Turns \cup {Nothing} : prompt' = [Spoilt EXCEPT ![p].at = "waiting", ![p].turn = u]
    <3>1. PICK woken \in SUBSET Turns :
             \/ /\ \E t \in Turns : woken = {t}
                /\ prompt' = [Spoilt EXCEPT ![p].at = "waiting", ![p].turn = CHOOSE t \in woken : TRUE]
             \/ prompt' = [Spoilt EXCEPT ![p].at = "waiting", ![p].turn = Nothing]
      BY <1>6 DEF Post
    <3>2. (\E t \in Turns : woken = {t}) => (CHOOSE t \in woken : TRUE) \in Turns
      OBVIOUS
    <3>. QED
      BY <3>1, <3>2
  <2>. DEFINE q == [[prompt[p] EXCEPT !.turn = Nothing] EXCEPT !.at = "waiting", !.turn = u]
  <2>2. /\ \A x \in Prompts : x # p => prompt'[x] = [prompt[x] EXCEPT !.turn = Nothing]
        /\ prompt'[p] = q /\ prompt' \in [Prompts -> Asked \cup {q}]
    BY <1>1, <2>1 DEF Spoilt
  <2>3. q \in Asked /\ q.at = "waiting" /\ q.base = prompt[p].base /\ ~q.answered
    BY ZenonT(30), <1>1, <1>6 DEF Post, Asked, Fits
  <2>. HIDE DEF q
  <2>4. slot' = slot /\ started' = started
    BY <1>6 DEF Post, follower
  <2>5. ASSUME NEW x \in Prompts, x # p
        PROVE  /\ prompt'[x].at = prompt[x].at /\ prompt'[x].base = prompt[x].base
               /\ prompt'[x].answered = prompt[x].answered
    <3>1. prompt[x] \in Asked /\ prompt'[x] = [prompt[x] EXCEPT !.turn = Nothing]
      BY <1>1, <2>2, <2>5
    <3>. QED
      BY <3>1 DEF Asked
  <2>6. prompt' \in [Prompts -> Asked]
    BY <2>2, <2>3
  <2>7. \A x \in Prompts : Fits(prompt[x], started)'
    BY <1>1, <2>2, <2>3, <2>4, <2>5, <2>6 DEF Fits
  <2>. QED
    BY <1>0, <2>2, <2>3, <2>4, <2>5, <2>6, <2>7 DEF PromptTypes
<1>7. ASSUME NEW p \in Prompts, Hears(p) PROVE PromptTypes'
  <2>1. CASE Answered(p) /\ running = {}
    BY <1>5, <1>7, <2>1 DEF Hears, follower
  <2>2. CASE ~(Answered(p) /\ running = {})
    <3>. DEFINE q == [prompt[p] EXCEPT !.changed = FALSE, !.answered = Answered(p)]
    <3>1. prompt' = [prompt EXCEPT ![p] = q] /\ slot' = slot /\ started' = started
      BY <1>7, <2>2 DEF Hears, follower
    <3>2. Answered(p) \in BOOLEAN /\ prompt[p].at = "waiting" /\ (Answered(p) => prompt[p].base < started)
      BY <1>0, <1>1, <1>7 DEF Answered, Hears, Fits, Asked
    <3>3. q \in Asked /\ q.at = "waiting" /\ q.base = prompt[p].base /\ q.answered = Answered(p)
      BY ZenonT(30), <1>1, <3>2 DEF Asked
    <3>. HIDE DEF q
    <3>. QED
      BY <1>0, <1>1, <3>1, <3>2, <3>3, OnePrompt DEF Fits
  <2>. QED
    BY <2>1, <2>2
<1>8. CASE Cancel
  <2>1. CASE slot = Nothing
    BY <1>0, <1>8, <2>1 DEF Cancel, follower, PromptTypes, Fits
  <2>2. CASE slot # Nothing
    <3>. DEFINE q == [prompt[slot] EXCEPT !.cancelled = TRUE]
    <3>1. slot \in Prompts
      BY <1>0, <2>2 DEF PromptTypes
    <3>2. prompt' = [prompt EXCEPT ![slot] = q] /\ slot' = slot /\ started' = started
      BY <1>8, <2>2 DEF Cancel, follower
    <3>3. /\ q \in Asked /\ q.at = prompt[slot].at /\ q.base = prompt[slot].base
          /\ q.answered = prompt[slot].answered
      BY ZenonT(30), <1>1, <3>1 DEF Asked
    <3>. HIDE DEF q
    <3>. QED
      BY <1>0, <1>1, <3>1, <3>2, <3>3, OnePrompt DEF Fits
  <2>. QED
    BY <2>1, <2>2
<1>9. CASE UNCHANGED <<prompt, slot, started>>
  BY <1>0, <1>9 DEF PromptTypes, Fits
<1>10. ASSUME NEW p \in Prompts, PostFails(p) \/ GivesUp(p) \/ Stops(p) PROVE PromptTypes'
  BY <1>5, <1>10 DEF PostFails, GivesUp, Stops, follower
<1>. QED
  BY <1>2, <1>3, <1>4, <1>6, <1>7, <1>8, <1>9, <1>10
     DEF Next, Said, Restart, Starts, Speaks, Ends, NewSession, LoadSession, Loaded, Seek, Disconnect,
         Reconnect, Done, room, follower, vars

LEMMA SeatNext == SeatTypes /\ [Next]_vars => SeatTypes'
<1>1. ASSUME SeatTypes, UNCHANGED vars PROVE SeatTypes'
  BY <1>1 DEF vars, room, follower, SeatTypes, LogTypes, FollowTypes, PromptTypes, Fits
<1>2. ASSUME SeatTypes, Next PROVE SeatTypes'
  BY <1>2, LogNext, FollowNext, PromptNext DEF SeatTypes
<1>. QED
  BY <1>1, <1>2

(* The follower has read no more than there is, and a prompt's token, base  *)
(* line and answer fit the turns it was told of (relay, State.running).     *)
THEOREM SeatTypeCorrect == Spec => []TypeOK
<1>. QED
  BY SeatInit, SeatNext, Typed, PTL DEF Spec

(***************************************************************************)
(* Whose words stand under whose name.                                     *)
(***************************************************************************)

(* The heading is the last speaker's; a block stands under its speaker, or  *)
(* is a notice.                                                            *)
Headed(b) == \/ b.under = b.who
             \/ b.seq \in DOMAIN log /\ log[b.seq].kind # "part"

Headings ==
    /\ heading = speaking
    /\ \E S : panel \in Seq(S)
    /\ \A k \in DOMAIN panel : Headed(panel[k])

LEMMA HeadingsStep == SeatTypes /\ Headings /\ [Next]_vars => Headings'
<1>. SUFFICES ASSUME SeatTypes, Headings, [Next]_vars PROVE Headings'
  OBVIOUS
<1>0. LogTypes /\ FollowTypes /\ log \in Seq(Entries) /\ Len(log) \in Nat /\ DOMAIN log = 1..Len(log)
  BY DEF SeatTypes, LogTypes
<1>1. \A i \in DOMAIN log : i \in DOMAIN log' /\ log'[i] = log[i]
  BY LogNext DEF vars, room
<1>2. \A b : Headed(b) => Headed(b)'
  BY <1>1 DEF Headed
<1>3. CASE UNCHANGED <<panel, heading, speaking>>
  BY <1>2, <1>3 DEF Headings
<1>4. CASE Read
  <2>. DEFINE i == since + 1
              e == log[since + 1]
  <2>1. i \in DOMAIN log /\ i \in Nat /\ e \in Entries
    BY <1>0, <1>4 DEF Read, FollowTypes
  <2>2. Shows(e, i) /\ log' = log
    BY <1>4 DEF Read, room
  <2>3. ASSUME NEW under, panel' = Append(panel, Block(i, under)), under = e.who \/ e.kind # "part",
               heading' = speaking'
        PROVE  Headings'
    <3>. DEFINE b == Block(i, under)
    <3>1. b.seq = i /\ b.who = e.who /\ b.under = under
      BY DEF Block
    <3>2. PICK S : panel \in Seq(S)
      BY DEF Headings
    <3>. HIDE DEF b
    <3>3. panel \in Seq(S \cup {b}) /\ panel' = Append(panel, b)
      BY <2>3, <3>2 DEF b
    <3>4. /\ panel' \in Seq(S \cup {b}) /\ DOMAIN panel = 1..Len(panel)
          /\ DOMAIN panel' = 1..(Len(panel) + 1) /\ Len(panel) \in Nat
          /\ \A k \in 1..Len(panel) : panel'[k] = panel[k]
          /\ panel'[Len(panel) + 1] = b
      BY <3>3, Appended
    <3>5. Headed(b)
      BY <2>1, <2>3, <3>1 DEF Headed
    <3>6. \A k \in DOMAIN panel' : Headed(panel'[k])
      BY <3>4, <3>5 DEF Headings
    <3>7. \A k \in DOMAIN panel' : Headed(panel[k])'
      BY <2>2, <3>6 DEF Headed
    <3>. QED
      BY <2>3, <3>4, <3>7 DEF Headings
  <2>5. CASE e.kind = "part"
    <3>. DEFINE under == IF speaking # e.who THEN e.who ELSE heading
    <3>1. under = e.who
      BY DEF Headings
    <3>2. speaking' = e.who /\ heading' = e.who /\ panel' = Append(panel, Block(i, e.who))
      BY <2>2, <2>5, <3>1 DEF Shows
    <3>. QED
      BY <2>3, <3>2
  <2>6. CASE e.kind \in {"said", "failed"}
    <3>1. speaking' = Nothing /\ heading' = Nothing /\ panel' = Append(panel, Block(i, Nothing))
      BY <2>2, <2>6 DEF Shows
    <3>. QED
      BY <2>3, <2>6, <3>1
  <2>7. CASE e.kind \notin {"part", "said", "failed"}
    BY <1>3, <2>2, <2>7 DEF Shows
  <2>. QED
    BY <2>5, <2>6, <2>7
<1>5. CASE LoadSession
  <2>. DEFINE n == Cardinality({i \in DOMAIN log : Kept(i)})
              At(k) == CHOOSE j \in DOMAIN log : Kept(j) /\ Cardinality({l \in 1..j : Kept(l)}) = k
              F(k) == Block(At(k), log[At(k)].who)
  <2>1. n \in Nat
    <3>1. IsFiniteSet(1..Len(log))
      BY <1>0, FS_Interval
    <3>2. IsFiniteSet({i \in DOMAIN log : Kept(i)})
      BY <1>0, <3>1, FS_Subset
    <3>. QED
      BY <3>2, FS_CardinalityType
  <2>2. panel' = [k \in 1..n |-> F(k)] /\ heading' = speaking'
    BY <1>5 DEF LoadSession, Headings
  <2>. HIDE DEF n
  <2>3. \A k : F(k).under = F(k).who
    BY DEF Block
  <2>. HIDE DEF F
  <2>4. panel' \in Seq({F(k) : k \in 1..n})
    BY <2>1, <2>2
  <2>5. \A k \in DOMAIN panel' : panel'[k].under = panel'[k].who
    BY <2>2, <2>3
  <2>. QED
    BY <2>2, <2>4, <2>5 DEF Headings, Headed
<1>. QED
  BY <1>3, <1>4, <1>5
     DEF Next, Said, Restart, Starts, Speaks, Ends, NewSession, Loaded, Seek, Disconnect, Reconnect,
         Ask, Post, PostFails, Hears, GivesUp, Stops, Cancel, Done, room, follower, vars

(* Every agent's text stands under that agent's heading, however turns and  *)
(* messages interleave and connections break (say).                         *)
THEOREM TextUnderItsName == Spec => []Attributed
<1>1. Init => Headings
  BY DEF Init, Headings
<1>2. Headings => Attributed
  BY DEF Headings, Headed, Attributed
<1>. QED
  BY <1>1, <1>2, SeatInit, SeatNext, HeadingsStep, PTL DEF Spec

(***************************************************************************)
(* The panel is the log.                                                   *)
(***************************************************************************)

(* Numbers of a finite set are counted off in their order.                  *)
UpTo(K, j) == {l \in K : l <= j}
Rank(K, j) == Cardinality(UpTo(K, j))

LEMMA Least ==
    ASSUME NEW T \in SUBSET Nat, T # {}
    PROVE  \E t \in T : \A u \in T : t <= u
<1>. DEFINE R == OpToRel(<, Nat)
<1>1. IsWellFoundedOn(R, Nat)
  BY NatLessThanWellFounded
<1>2. PICK t \in T : \A u \in T : ~(<<u, t>> \in R)
  <2>. HIDE DEF R
  <2>. QED
    BY <1>1, WFMin
<1>3. ASSUME NEW u \in T PROVE t <= u
  <2>1. u \in Nat /\ t \in Nat /\ <<u, t>> \in Nat \X Nat
    OBVIOUS
  <2>2. ~(<<u, t>> \in R)
    BY <1>2
  <2>3. ~(u < t)
    BY <2>1, <2>2 DEF OpToRel
  <2>. QED
    BY <2>1, <2>3
<1>. QED
  BY <1>3

LEMMA RankStep ==
    ASSUME NEW n \in Nat, NEW K \in SUBSET (1..n)
    PROVE  /\ IsFiniteSet(K) /\ Cardinality(K) \in Nat
           /\ \A j \in 0..n : IsFiniteSet(UpTo(K, j)) /\ Rank(K, j) \in 0..Cardinality(K)
           /\ Rank(K, 0) = 0 /\ Rank(K, n) = Cardinality(K)
           /\ \A j \in 1..n : Rank(K, j) = IF j \in K THEN Rank(K, j - 1) + 1 ELSE Rank(K, j - 1)
<1>0. \A l \in K : l \in Nat /\ 1 <= l /\ l <= n
  OBVIOUS
<1>1. IsFiniteSet(K)
  <2>1. IsFiniteSet(1..n)
    BY FS_Interval
  <2>. QED
    BY <2>1, FS_Subset
<1>2. Cardinality(K) \in Nat
  BY <1>1, FS_CardinalityType
<1>3. ASSUME NEW j \in 0..n PROVE IsFiniteSet(UpTo(K, j)) /\ Rank(K, j) \in 0..Cardinality(K)
  <2>1. UpTo(K, j) \in SUBSET K
    BY DEF UpTo
  <2>2. IsFiniteSet(UpTo(K, j)) /\ Cardinality(UpTo(K, j)) <= Cardinality(K)
    BY <1>1, <2>1, FS_Subset
  <2>3. Cardinality(UpTo(K, j)) \in Nat
    BY <2>2, FS_CardinalityType
  <2>. QED
    BY <1>2, <2>2, <2>3 DEF Rank
<1>4. Rank(K, 0) = 0 /\ Rank(K, n) = Cardinality(K)
  <2>1. UpTo(K, 0) = {} /\ UpTo(K, n) = K
    <3>1. \A l \in K : ~(l <= 0) /\ l <= n
      BY <1>0
    <3>. QED
      BY Zenon, <3>1 DEF UpTo
  <2>. QED
    BY <2>1, FS_EmptySet DEF Rank
<1>5. ASSUME NEW j \in 1..n
      PROVE  Rank(K, j) = IF j \in K THEN Rank(K, j - 1) + 1 ELSE Rank(K, j - 1)
  <2>0. j - 1 \in 0..n /\ IsFiniteSet(UpTo(K, j - 1))
    BY <1>3
  <2>1. CASE j \in K
    <3>1. UpTo(K, j) = UpTo(K, j - 1) \cup {j} /\ j \notin UpTo(K, j - 1)
      <4>1. (\A l \in K : (l <= j) <=> (l <= j - 1 \/ l = j)) /\ ~(j <= j - 1)
        BY <1>0
      <4>. QED
        BY Zenon, <2>1, <4>1 DEF UpTo
    <3>. QED
      BY <2>0, <2>1, <3>1, FS_AddElement DEF Rank
  <2>2. CASE j \notin K
    <3>1. UpTo(K, j) = UpTo(K, j - 1)
      <4>1. \A l \in K : (l <= j) <=> (l <= j - 1)
        BY <1>0, <2>2
      <4>. QED
        BY Zenon, <4>1 DEF UpTo
    <3>. QED
      BY <2>2, <3>1 DEF Rank
  <2>. QED
    BY <2>1, <2>2
<1>. QED
  BY <1>1, <1>2, <1>3, <1>4, <1>5

LEMMA RankRises ==
    ASSUME NEW n \in Nat, NEW K \in SUBSET (1..n), NEW i \in K, NEW j \in K, i < j
    PROVE  Rank(K, i) < Rank(K, j)
<1>1. /\ i \in 0..n /\ j \in 1..n /\ j - 1 \in 0..n
      /\ IsFiniteSet(UpTo(K, i)) /\ IsFiniteSet(UpTo(K, j - 1))
      /\ Rank(K, j) = Rank(K, j - 1) + 1
      /\ Rank(K, i) \in 0..Cardinality(K) /\ Rank(K, j - 1) \in 0..Cardinality(K)
      /\ Cardinality(K) \in Nat
  BY RankStep
<1>2. UpTo(K, i) \in SUBSET UpTo(K, j - 1)
  <2>1. \A l \in K : l <= i => l <= j - 1
    <3>1. \A l \in K : l \in Nat
      OBVIOUS
    <3>. QED
      BY <3>1
  <2>. QED
    BY Zenon, <2>1 DEF UpTo
<1>3. Rank(K, i) <= Rank(K, j - 1)
  BY <1>1, <1>2, FS_Subset DEF Rank
<1>. QED
  BY <1>1, <1>3

LEMMA RankTaken ==
    ASSUME NEW n \in Nat, NEW K \in SUBSET (1..n), NEW k \in 1..Cardinality(K)
    PROVE  \E j \in K : Rank(K, j) = k
<1>0. /\ Cardinality(K) \in Nat /\ Rank(K, 0) = 0 /\ Rank(K, n) = Cardinality(K)
      /\ \A j \in 0..n : Rank(K, j) \in 0..Cardinality(K)
      /\ \A j \in 1..n : Rank(K, j) = IF j \in K THEN Rank(K, j - 1) + 1 ELSE Rank(K, j - 1)
  BY RankStep
<1>. DEFINE T == {j \in 0..n : Rank(K, j) >= k}
<1>1. n \in T /\ T \in SUBSET Nat
  BY <1>0
<1>2. PICK j \in T : \A u \in T : j <= u
  <2>. HIDE DEF T
  <2>. QED
    BY <1>1, Least
<1>3. j \in 1..n /\ j - 1 \in 0..n
  BY <1>0, <1>2
<1>4. j - 1 \notin T
  BY <1>2, <1>3
<1>5. Rank(K, j - 1) < k /\ Rank(K, j) >= k
  BY <1>0, <1>2, <1>3, <1>4
<1>6. j \in K
  BY <1>0, <1>3, <1>5
<1>7. Rank(K, j) = Rank(K, j - 1) + 1 /\ Rank(K, j - 1) \in Nat
  BY <1>0, <1>3, <1>6
<1>. QED
  BY <1>0, <1>5, <1>6, <1>7

(* These blocks are the log's entries of these kinds among those numbered.  *)
Show(blocks, numbers, kinds) ==
    /\ Rises(blocks)
    /\ {panel[k].seq : k \in blocks} = {i \in numbers : log[i].kind \in kinds}

(* What session/load shows is what the log keeps, in its order (history).   *)
LEMMA HistoryShown ==
    ASSUME SeatTypes, LoadSession
    PROVE  /\ \E S : panel' \in Seq(S)
           /\ hist' = Len(log) /\ Show(1..Len(panel), 1..hist, {"part", "said", "asked"})'
<1>. DEFINE n == Len(log)
            K == {i \in DOMAIN log : Kept(i)}
            N == Cardinality(K)
            At(k) == CHOOSE j \in DOMAIN log : Kept(j) /\ Cardinality({l \in 1..j : Kept(l)}) = k
<1>0. n \in Nat /\ DOMAIN log = 1..n /\ K \in SUBSET (1..n) /\ log' = log /\ hist' = n
  BY DEF SeatTypes, LogTypes, LoadSession, room
<1>1. /\ N \in Nat
      /\ \A i \in K : /\ i \in 1..n /\ i - 1 \in 0..n
                      /\ Rank(K, i) \in 0..N /\ Rank(K, i - 1) \in 0..N
                      /\ Rank(K, i) = Rank(K, i - 1) + 1
  <2>. HIDE DEF K
  <2>1. \A i \in K : i \in 1..n /\ i - 1 \in 0..n /\ i \in 0..n
    BY <1>0
  <2>. QED
    BY <1>0, <2>1, RankStep
<1>2. ASSUME NEW j \in DOMAIN log, NEW k
      PROVE  (Kept(j) /\ Cardinality({l \in 1..j : Kept(l)}) = k) <=> (j \in K /\ Rank(K, j) = k)
  <2>1. {l \in 1..j : Kept(l)} = UpTo(K, j)
    <3>1. \A l : (l \in 1..j) <=> (l \in DOMAIN log /\ l <= j)
      BY <1>0
    <3>. QED
      BY Zenon, <3>1 DEF UpTo
  <2>. QED
    BY <2>1 DEF Rank
<1>3. ASSUME NEW k \in 1..N PROVE At(k) \in K /\ Rank(K, At(k)) = k
  <2>1. PICK j \in K : Rank(K, j) = k
    <3>. HIDE DEF K
    <3>. QED
      BY <1>0, RankTaken
  <2>2. j \in DOMAIN log /\ Kept(j) /\ Cardinality({l \in 1..j : Kept(l)}) = k
    BY <1>2, <2>1
  <2>3. At(k) \in DOMAIN log /\ Kept(At(k)) /\ Cardinality({l \in 1..At(k) : Kept(l)}) = k
    BY <2>2
  <2>. HIDE DEF At
  <2>. QED
    BY <1>2, <2>3
<1>4. panel' = [k \in 1..N |-> Block(At(k), log[At(k)].who)]
  BY DEF LoadSession
<1>. HIDE DEF At, N
<1>5. /\ DOMAIN panel' = 1..N /\ Len(panel') = N /\ \E S : panel' \in Seq(S)
      /\ \A k \in 1..N : panel'[k].seq = At(k)
  <2>. DEFINE F(k) == Block(At(k), log[At(k)].who)
  <2>1. \A k : F(k).seq = At(k)
    BY DEF Block
  <2>2. panel' = [k \in 1..N |-> F(k)]
    BY <1>4
  <2>. HIDE DEF F
  <2>3. panel' \in Seq({F(k) : k \in 1..N})
    BY <1>1, <2>2
  <2>4. DOMAIN panel' = 1..N /\ \A k \in 1..N : panel'[k] = F(k)
    BY <2>2
  <2>5. Len(panel') = N
    BY <1>1, <2>3, <2>4
  <2>6. \A k \in 1..N : panel'[k].seq = At(k)
    BY <2>1, <2>4
  <2>. QED
    BY <2>3, <2>4, <2>5, <2>6
<1>6. ASSUME NEW i \in K, NEW j \in K, Rank(K, i) <= Rank(K, j)
      PROVE  i <= j
  <2>. HIDE DEF K
  <2>1. i \in Nat /\ j \in Nat /\ Rank(K, i) \in Nat /\ Rank(K, j) \in Nat
    BY <1>0, <1>1
  <2>2. j < i => Rank(K, j) < Rank(K, i)
    BY <1>0, RankRises
  <2>. QED
    BY <1>6, <2>1, <2>2
<1>7. ASSUME NEW j \in 1..N, NEW k \in 1..N, j < k PROVE At(j) < At(k)
  <2>. HIDE DEF K
  <2>1. /\ At(j) \in K /\ At(k) \in K /\ Rank(K, At(j)) = j /\ Rank(K, At(k)) = k
        /\ At(j) \in Nat /\ At(k) \in Nat
    <3>1. \A i \in K : i \in Nat
      BY <1>0
    <3>. QED
      BY <1>3, <3>1
  <2>2. At(j) <= At(k)
    BY <1>1, <1>6, <1>7, <2>1, SMTT(30)
  <2>3. At(j) # At(k)
    BY <1>1, <1>7, <2>1
  <2>. QED
    BY <2>1, <2>2, <2>3
<1>8. {panel'[k].seq : k \in 1..N} = K
  <2>. HIDE DEF K
  <2>1. ASSUME NEW i \in K PROVE \E k \in 1..N : At(k) = i
    <3>1. Rank(K, i) \in 1..N
      BY <1>1
    <3>2. At(Rank(K, i)) \in K /\ Rank(K, At(Rank(K, i))) = Rank(K, i)
      BY <1>3, <3>1
    <3>3. \A l \in K : l \in Nat /\ Rank(K, l) \in Nat
      BY <1>0, <1>1
    <3>4. At(Rank(K, i)) <= i /\ i <= At(Rank(K, i))
      BY <1>6, <3>2, <3>3
    <3>5. At(Rank(K, i)) = i
      BY <3>2, <3>3, <3>4
    <3>. QED
      BY <3>1, <3>5
  <2>. QED
    BY <1>3, <1>5, <2>1
<1>9. K = {i \in 1..hist' : log'[i].kind \in {"part", "said", "asked"}}
  BY <1>0 DEF Kept
<1>. HIDE DEF K
<1>10. Rises(1..Len(panel))'
  BY <1>5, <1>7 DEF Rises
<1>. QED
  BY <1>0, <1>5, <1>8, <1>9, <1>10 DEF Show

(* The panel is the history and then what the follower has read, each of    *)
(* them the log's own, whether or not they meet.                            *)
InTwoParts ==
    \E h \in 0..Len(panel) :
       /\ Show(1..h, 1..hist, {"part", "said", "asked"})
       /\ Show((h + 1)..Len(panel), (from + 1)..since, {"part", "said", "failed"})

(* The follower begins where it finds the room, and shows all it reads.     *)
PanelInv ==
    /\ phase \in {"none", "loading", "seeking"} => from = 0 /\ since = 0
    /\ phase = "none" => hist = 0 /\ ~loaded
    /\ ~loaded => hist = 0
    /\ loaded \in BOOLEAN
    /\ InTwoParts

LEMMA PanelStep == SeatTypes /\ Headings /\ PanelInv /\ [Next]_vars => PanelInv'
<1>. SUFFICES ASSUME SeatTypes, Headings, PanelInv, [Next]_vars PROVE PanelInv'
  OBVIOUS
<1>. DEFINE Old == {"part", "said", "asked"}
            New == {"part", "said", "failed"}
<1>0. /\ LogTypes /\ FollowTypes /\ Len(log) \in Nat /\ DOMAIN log = 1..Len(log) /\ log \in Seq(Entries)
      /\ hist \in 0..Len(log) /\ since \in 0..Len(log) /\ from \in 0..since
      /\ (\E S : panel \in Seq(S)) /\ Len(panel) \in Nat /\ DOMAIN panel = 1..Len(panel)
  <2>1. PICK S : panel \in Seq(S)
    BY DEF Headings
  <2>. QED
    BY <2>1 DEF SeatTypes, LogTypes, FollowTypes
<1>1. \A i \in DOMAIN log : i \in DOMAIN log' /\ log'[i] = log[i]
  BY LogNext DEF vars, room
<1>2. PICK h \in 0..Len(panel) : /\ Show(1..h, 1..hist, Old)
                                 /\ Show((h + 1)..Len(panel), (from + 1)..since, New)
  BY DEF PanelInv, InTwoParts
<1>. HIDE DEF Old, New
<1>3. ASSUME UNCHANGED <<panel, loaded, hist, from, since>>,
             phase' \in {"none", "loading", "seeking"} => phase \in {"none", "loading", "seeking"},
             phase' = "none" => phase = "none"
      PROVE  PanelInv'
  <2>1. \A i \in 1..hist : log'[i] = log[i]
    BY <1>0, <1>1
  <2>2. \A i \in (from + 1)..since : log'[i] = log[i]
    BY <1>0, <1>1
  <2>3. Show(1..h, 1..hist, Old)'
    BY <1>2, <1>3, <2>1 DEF Show, Rises
  <2>4. Show((h + 1)..Len(panel), (from + 1)..since, New)'
    BY <1>2, <1>3, <2>2 DEF Show, Rises
  <2>. QED
    BY <1>2, <1>3, <2>3, <2>4 DEF PanelInv, InTwoParts, Old, New
<1>4. CASE LoadSession
  <2>1. /\ phase' = "loading" /\ loaded' = TRUE /\ UNCHANGED <<from, since>> /\ from = 0 /\ since = 0
        /\ Show(1..Len(panel), 1..hist, Old)' /\ \E S : panel' \in Seq(S)
    BY <1>4, HistoryShown DEF LoadSession, PanelInv, Old
  <2>2. Len(panel') \in Nat
    BY <2>1
  <2>3. (Len(panel) + 1)..Len(panel) = {} /\ (from + 1)..since = {}
    BY <1>0, <2>1
  <2>4. ((Len(panel) + 1)..Len(panel) = {} /\ (from + 1)..since = {})'
    BY <1>0, <2>1, <2>2
  <2>5. Show((Len(panel) + 1)..Len(panel), (from + 1)..since, New)'
    BY <2>4 DEF Show, Rises
  <2>. QED
    BY <2>1, <2>2, <2>5 DEF PanelInv, InTwoParts, Old, New
<1>5. CASE Seek
  <2>1. /\ phase' = "reading" /\ UNCHANGED <<log, loaded, hist, panel>> /\ from = since /\ from' = since'
        /\ since' \in Nat
    BY <1>0, <1>5 DEF Seek, room, PanelInv
  <2>2. (from + 1)..since = {} /\ (from' + 1)..since' = {}
    <3>1. \A x \in Nat : (x + 1)..x = {}
      OBVIOUS
    <3>2. since \in Nat
      BY <1>0
    <3>3. (since + 1)..since = {} /\ (since' + 1)..since' = {}
      BY Zenon, <2>1, <3>1, <3>2
    <3>. QED
      BY Zenon, <2>1, <3>3
  <2>3. ~ \E k \in (h + 1)..Len(panel) : TRUE
    <3>1. {panel[k].seq : k \in (h + 1)..Len(panel)} = {l \in (from + 1)..since : log[l].kind \in New}
      BY <1>2 DEF Show
    <3>2. {l \in (from + 1)..since : log[l].kind \in New} = {}
      BY Zenon, <2>2
    <3>. QED
      BY Zenon, <3>1, <3>2
  <2>4. Show(1..h, 1..hist, Old)'
    BY <1>2, <2>1 DEF Show, Rises
  <2>5. Show((h + 1)..Len(panel), (from + 1)..since, New)'
    BY <1>2, <2>1, <2>2, <2>3 DEF Show, Rises
  <2>. QED
    BY <1>2, <2>1, <2>4, <2>5 DEF PanelInv, InTwoParts, Old, New
<1>6. CASE Read
  <2>. DEFINE i == since + 1
              e == log[i]
  <2>1. /\ i \in DOMAIN log /\ i \in Nat /\ since' = i /\ UNCHANGED <<log, loaded, hist, from, phase>>
        /\ phase = "reading" /\ Shows(e, i) /\ (from + 1)..i = ((from + 1)..since) \cup {i}
    BY <1>0, <1>6 DEF Read, room
  <2>2. CASE e.kind \in New
    <3>1. PICK under : panel' = Append(panel, Block(i, under))
      BY <2>1, <2>2 DEF Shows, New
    <3>. DEFINE b == Block(i, under)
    <3>2. b.seq = i
      BY DEF Block
    <3>3. PICK S : panel \in Seq(S)
      BY <1>0
    <3>. HIDE DEF b
    <3>4. panel \in Seq(S \cup {b}) /\ panel' = Append(panel, b)
      BY <3>1, <3>3 DEF b
    <3>5. /\ Len(panel') = Len(panel) + 1 /\ panel'[Len(panel) + 1] = b
          /\ \A k \in 1..Len(panel) : panel'[k] = panel[k]
      BY <3>4, Appended
    <3>6. /\ (h + 1)..Len(panel') = ((h + 1)..Len(panel)) \cup {Len(panel) + 1}
          /\ \A k \in (h + 1)..Len(panel) : panel'[k] = panel[k] /\ k < Len(panel) + 1 /\ k \in Nat
          /\ \A k \in 1..h : panel'[k] = panel[k]
      BY <1>0, <1>2, <3>5
    <3>7. \A k \in (h + 1)..Len(panel) : panel[k].seq \in Nat /\ panel[k].seq < i
      <4>1. {panel[k].seq : k \in (h + 1)..Len(panel)} \subseteq (from + 1)..since
        BY Zenon, <1>2 DEF Show
      <4>2. \A x \in (from + 1)..since : x \in Nat /\ x < i
        BY <1>0
      <4>. QED
        BY Zenon, <4>1, <4>2
    <3>8. Show(1..h, 1..hist, Old)'
      BY <1>2, <2>1, <3>6 DEF Show, Rises
    <3>9. Rises((h + 1)..Len(panel))'
      <4>1. ASSUME NEW j \in (h + 1)..Len(panel'), NEW k \in (h + 1)..Len(panel'), j < k
            PROVE  panel'[j].seq < panel'[k].seq
        <5>1. j \in (h + 1)..Len(panel)
          BY <1>0, <1>2, <3>5, <4>1
        <5>2. CASE k \in (h + 1)..Len(panel)
          BY <1>2, <3>6, <4>1, <5>1, <5>2 DEF Show, Rises
        <5>3. CASE k = Len(panel) + 1
          BY <3>2, <3>5, <3>6, <3>7, <5>1, <5>3
        <5>. QED
          BY <3>6, <5>2, <5>3
      <4>. QED
        BY <4>1 DEF Rises
    <3>10. {panel'[k].seq : k \in (h + 1)..Len(panel')} = {l \in (from + 1)..since' : log'[l].kind \in New}
      <4>1. {panel'[k].seq : k \in (h + 1)..Len(panel')} = {panel[k].seq : k \in (h + 1)..Len(panel)} \cup {i}
        BY <3>2, <3>5, <3>6
      <4>2. {l \in (from + 1)..since' : log'[l].kind \in New}
              = {l \in (from + 1)..since : log[l].kind \in New} \cup {i}
        BY <2>1, <2>2
      <4>. QED
        BY <1>2, <4>1, <4>2 DEF Show
    <3>11. Show((h + 1)..Len(panel), (from + 1)..since, New)'
      BY <2>1, <3>9, <3>10 DEF Show
    <3>12. h \in 0..Len(panel')
      BY <1>0, <1>2, <3>5
    <3>. QED
      BY <2>1, <3>8, <3>11, <3>12 DEF PanelInv, InTwoParts, Old, New
  <2>3. CASE e.kind \notin New
    <3>1. panel' = panel
      BY <2>1, <2>3 DEF Shows, New
    <3>2. Show(1..h, 1..hist, Old)'
      BY <1>2, <2>1, <3>1 DEF Show, Rises
    <3>3. {l \in (from + 1)..since' : log'[l].kind \in New} = {l \in (from + 1)..since : log[l].kind \in New}
      BY <2>1, <2>3
    <3>4. Show((h + 1)..Len(panel), (from + 1)..since, New)'
      BY <1>2, <2>1, <3>1, <3>3 DEF Show, Rises
    <3>. QED
      BY <1>2, <2>1, <3>1, <3>2, <3>4 DEF PanelInv, InTwoParts, Old, New
  <2>. QED
    BY <2>2, <2>3
<1>. QED
  BY <1>3, <1>4, <1>5, <1>6
     DEF Next, Said, Restart, Starts, Speaks, Ends, NewSession, Loaded, Disconnect, Reconnect,
         Ask, Post, PostFails, Hears, GivesUp, Stops, Cancel, Done, room, follower, vars

LEMMA PanelInit == Init => PanelInv
<1>. SUFFICES ASSUME Init PROVE PanelInv
  OBVIOUS
<1>1. /\ panel = <<>> /\ hist = 0 /\ from = 0 /\ since = 0 /\ phase = "none" /\ loaded = FALSE
  BY DEF Init
<1>2. /\ 1..0 = {} /\ 1..hist = {} /\ (0 + 1)..Len(panel) = {} /\ (from + 1)..since = {} /\ Len(panel) = 0
  BY <1>1
<1>3. ASSUME NEW kinds PROVE Show({}, {}, kinds)
  BY Zenon DEF Show, Rises
<1>4. /\ Show(1..0, 1..hist, {"part", "said", "asked"})
      /\ Show((0 + 1)..Len(panel), (from + 1)..since, {"part", "said", "failed"})
  BY Zenon, <1>2, <1>3
<1>5. InTwoParts
  <2>1. 0 \in 0..Len(panel)
    BY <1>1
  <2>. QED
    BY Zenon, <1>4, <2>1 DEF InTwoParts
<1>. QED
  BY Zenon, <1>1, <1>5 DEF PanelInv

(* The two parts are one log where the follower began where the history     *)
(* ended, and where there is only one of them.                              *)
LEMMA PartsMeet == SeatTypes /\ Headings /\ PanelInv => PanelIsTheLog
<1>. DEFINE Old == {"part", "said", "asked"}
            New == {"part", "said", "failed"}
            first == IF loaded THEN 1 ELSE from + 1
            last == IF phase = "loading" \/ phase = "seeking" THEN hist ELSE since
<1>. SUFFICES ASSUME SeatTypes, Headings, PanelInv, ~Split
              PROVE  /\ Rises(DOMAIN panel)
                     /\ {panel[k].seq : k \in DOMAIN panel}
                           = {i \in first..last : log[i].kind \in {"part", "said", IF i <= hist THEN "asked" ELSE "failed"}}
  BY DEF PanelIsTheLog
<1>0. /\ hist \in Nat /\ since \in Nat /\ from \in 0..since /\ Len(log) \in Nat
      /\ Len(panel) \in Nat /\ DOMAIN panel = 1..Len(panel)
  <2>1. PICK S : panel \in Seq(S)
    BY DEF Headings
  <2>. QED
    BY <2>1 DEF SeatTypes, LogTypes, FollowTypes
<1>1. \/ phase \in {"none", "loading", "seeking"} /\ from = 0 /\ since = 0
         /\ (loaded \/ hist = 0) /\ (phase = "none" => hist = 0)
      \/ phase \in {"reading", "apart"} /\ ~loaded /\ hist = 0
      \/ phase \in {"reading", "apart"} /\ loaded /\ from = hist
  BY DEF PanelInv, Split, SeatTypes, FollowTypes
<1>2. PICK h \in 0..Len(panel) : /\ Show(1..h, 1..hist, Old)
                                 /\ Show((h + 1)..Len(panel), (from + 1)..since, New)
  BY DEF PanelInv, InTwoParts
<1>3. /\ {panel[k].seq : k \in 1..h} = {i \in 1..hist : log[i].kind \in Old}
      /\ {panel[k].seq : k \in (h + 1)..Len(panel)} = {i \in (from + 1)..since : log[i].kind \in New}
      /\ Rises(1..h) /\ Rises((h + 1)..Len(panel))
  BY <1>2 DEF Show
<1>. HIDE DEF Old, New
<1>4. DOMAIN panel = (1..h) \cup ((h + 1)..Len(panel))
  BY <1>0, <1>2
<1>5. \A i \in 1..hist, l \in (from + 1)..since : i < l
  BY <1>0, <1>1
<1>6. Rises(DOMAIN panel)
  <2>. SUFFICES ASSUME NEW j \in DOMAIN panel, NEW k \in DOMAIN panel, j < k
                PROVE  panel[j].seq < panel[k].seq
    BY DEF Rises
  <2>1. \/ j \in 1..h /\ k \in 1..h
        \/ j \in (h + 1)..Len(panel) /\ k \in (h + 1)..Len(panel)
        \/ j \in 1..h /\ k \in (h + 1)..Len(panel)
    BY <1>0, <1>2, <1>4
  <2>2. j \in 1..h => panel[j].seq \in 1..hist
    <3>1. {panel[x].seq : x \in 1..h} \subseteq 1..hist
      BY Zenon, <1>3
    <3>. QED
      BY Zenon, <3>1
  <2>3. k \in (h + 1)..Len(panel) => panel[k].seq \in (from + 1)..since
    <3>1. {panel[x].seq : x \in (h + 1)..Len(panel)} \subseteq (from + 1)..since
      BY Zenon, <1>3
    <3>. QED
      BY Zenon, <3>1
  <2>. QED
    BY <1>3, <1>5, <2>1, <2>2, <2>3 DEF Rises
<1>7. /\ \A i : i \in first..last <=> (i \in 1..hist \/ i \in (from + 1)..since)
      /\ \A i \in 1..hist : i <= hist
      /\ \A i \in (from + 1)..since : ~(i <= hist)
  <2>1. \A i : /\ i \in 1..hist <=> i \in Nat /\ 1 <= i /\ i <= hist
              /\ i \in (from + 1)..since <=> i \in Nat /\ from < i /\ i <= since
    BY <1>0
  <2>2. \A i : i \in first..last <=> i \in Nat /\ first <= i /\ i <= last
    BY <1>0
  <2>3. CASE /\ phase \in {"none", "loading", "seeking"} /\ from = 0 /\ since = 0
             /\ (loaded \/ hist = 0) /\ (phase = "none" => hist = 0)
    BY <1>0, <2>1, <2>2, <2>3
  <2>4. CASE phase \in {"reading", "apart"} /\ ~loaded /\ hist = 0
    BY <1>0, <2>1, <2>2, <2>4
  <2>5. CASE phase \in {"reading", "apart"} /\ loaded /\ from = hist
    BY <1>0, <2>1, <2>2, <2>5
  <2>. QED
    BY <1>1, <2>3, <2>4, <2>5
<1>8. {panel[k].seq : k \in DOMAIN panel}
        = {panel[k].seq : k \in 1..h} \cup {panel[k].seq : k \in (h + 1)..Len(panel)}
  BY Zenon, <1>4
<1>. HIDE DEF first, last
<1>9. {i \in 1..hist : log[i].kind \in Old} \cup {i \in (from + 1)..since : log[i].kind \in New}
        = {i \in first..last : log[i].kind \in {"part", "said", IF i <= hist THEN "asked" ELSE "failed"}}
  BY <1>7 DEF Old, New
<1>. QED
  BY <1>3, <1>6, <1>8, <1>9

(* What the editor's panel shows is the room's log, from its first entry if *)
(* the session was loaded and from where the editor joined if not, up to    *)
(* what was read: every entry once and in the log's order, across lost      *)
(* connections and restarts; unless the follower of a loaded session does   *)
(* not begin where its history ended (follow, render, history).             *)
THEOREM PanelIsTheRoomsLog == Spec => []PanelIsTheLog
<1>1. Init => Headings
  BY DEF Init, Headings
<1>. QED
  BY <1>1, PartsMeet, SeatInit, SeatNext, HeadingsStep, PanelInit, PanelStep, PTL DEF Spec

(***************************************************************************)
(* An answer is shown before its prompt ends.                              *)
(***************************************************************************)

Of(t) == {i \in DOMAIN log : log[i].turn = t}
Over(i) == log[i].kind \in {"finished", "failed"}

(* A turn is in the log from its start on, and its end is its last entry.   *)
Recorded(t) ==
    /\ turn[t].at \in {"no", "queued"} => Of(t) = {}
    /\ \A j \in Of(t) : Over(j) => turn[t].at = "done" /\ \A i \in Of(t) : i <= j
TurnLog == \A t \in Turns \ {Nothing} : Recorded(t)

(* A turn whose start was read runs until its end is.                       *)
RunningHeard ==
    \A i \in (from + 1)..since : log[i].kind = "started" =>
       \/ log[i].turn \in running
       \/ \E j \in i..since : Over(j) /\ log[j].turn = log[i].turn

LEMMA Logged ==
    ASSUME SeatTypes, NEW kind, NEW who, NEW u, Logs(kind, who, u)
    PROVE  /\ Len(log) \in Nat /\ DOMAIN log = 1..Len(log) /\ DOMAIN log' = 1..(Len(log) + 1)
           /\ \A k \in 1..Len(log) : log'[k] = log[k]
           /\ log'[Len(log) + 1].kind = kind /\ log'[Len(log) + 1].turn = u
<1>. DEFINE e == [kind |-> kind, who |-> who, turn |-> u]
            S == Entries \cup {e}
<1>1. log \in Seq(S) /\ e \in S /\ log' = Append(log, e)
  BY DEF SeatTypes, LogTypes, Logs
<1>2. e.kind = kind /\ e.turn = u
  OBVIOUS
<1>. HIDE DEF e, S
<1>. QED
  BY <1>1, <1>2, Appended

LEMMA RoomSteps ==
    ASSUME [Next]_vars
    PROVE  \/ UNCHANGED <<log, turn>>
           \/ Restart
           \/ \E kind \in {"said", "asked"}, woken \in SUBSET Turns : Wakes(woken) /\ Logs(kind, Nothing, Nothing)
           \/ \E u \in Turns : Starts(u) \/ Speaks(u) \/ Ends(u)
BY DEF Next, Said, NewSession, LoadSession, Loaded, Seek, Read, Disconnect, Reconnect, Ask, Post, PostFails,
       Hears, EndsWith, GivesUp, Stops, Cancel, Done, room, vars

LEMMA TurnLogStep == SeatTypes /\ TurnLog /\ [Next]_vars => TurnLog'
<1>. SUFFICES ASSUME SeatTypes, TurnLog, [Next]_vars, NEW t \in Turns \ {Nothing} PROVE Recorded(t)'
  BY DEF TurnLog
<1>0. Recorded(t) /\ turn \in [Turns -> TurnStates]
  BY DEF TurnLog, SeatTypes, LogTypes
<1>1. CASE UNCHANGED <<log, turn>>
  BY <1>0, <1>1 DEF Recorded, Of, Over
<1>2. CASE Restart
  <2>1. log' = log /\ (turn[t].at # "running" => turn'[t].at = turn[t].at)
           /\ (turn[t].at = "running" => turn'[t].at = "lost")
    BY <1>0, <1>2 DEF Restart, TurnStates
  <2>. QED
    BY <1>0, <2>1 DEF Recorded, Of, Over
<1>3. CASE \E kind \in {"said", "asked"}, woken \in SUBSET Turns : Wakes(woken) /\ Logs(kind, Nothing, Nothing)
  <2>1. PICK kind \in {"said", "asked"}, woken \in SUBSET Turns : Wakes(woken) /\ Logs(kind, Nothing, Nothing)
    BY <1>3
  <2>2. \/ turn'[t].at = turn[t].at
        \/ turn[t].at = "no" /\ turn'[t].at = "queued"
    BY <1>0, <2>1 DEF Wakes, With, TurnStates
  <2>3. Of(t)' = Of(t) /\ \A i \in Of(t) : log'[i] = log[i]
    BY <2>1, Logged DEF Of
  <2>. QED
    BY <1>0, <2>2, <2>3 DEF Recorded, Over
<1>4. ASSUME NEW u \in Turns, Starts(u) \/ Speaks(u) \/ Ends(u) PROVE Recorded(t)'
  <2>. DEFINE n == Len(log)
  <2>1. PICK kind \in {"started", "part", "finished", "failed"} : 
           /\ Logs(kind, Script[u].by, u) /\ (kind \in {"finished", "failed"} => Ends(u))
           /\ (kind = "started" \/ turn[u].at = "running") /\ (kind = "started" => Starts(u))
           /\ (kind = "part" => Speaks(u))
    BY <1>4, Casting DEF Starts, Speaks, Ends
  <2>2. /\ n \in Nat /\ DOMAIN log = 1..n /\ DOMAIN log' = 1..(n + 1)
        /\ \A k \in 1..n : log'[k] = log[k]
        /\ log'[n + 1].kind = kind /\ log'[n + 1].turn = u
    BY <2>1, Logged
  <2>. HIDE DEF n
  <2>3. CASE u # t
    <3>1. turn'[t] = turn[t]
      BY <1>0, <1>4, <2>3 DEF Starts, Speaks, Ends
    <3>2. Of(t)' = Of(t) /\ \A i \in Of(t) : log'[i] = log[i]
      BY <2>2, <2>3 DEF Of
    <3>. QED
      BY <1>0, <3>1, <3>2 DEF Recorded, Over
  <2>4. CASE u = t
    <3>1. Of(t)' = Of(t) \cup {n + 1} /\ \A i \in Of(t) : log'[i] = log[i] /\ i <= n + 1
      BY <2>2, <2>4 DEF Of
    <3>2. \A j \in Of(t) : ~Over(j)
      <4>1. turn[t].at \in {"queued", "running"}
        BY <1>4, <2>4 DEF Starts, Speaks, Ends
      <4>. QED
        BY <1>0, <4>1 DEF Recorded
    <3>3. \A j \in Of(t) : ~Over(j)'
      BY <3>1, <3>2 DEF Over
    <3>4. CASE kind \in {"finished", "failed"}
      <4>1. turn'[t].at = "done"
        BY <1>0, <2>1, <2>4, <3>4 DEF Ends, TurnStates
      <4>2. \A i \in Of(t)' : i <= n + 1
        BY <2>2, <3>1
      <4>3. \A j \in Of(t)' : Over(j)' => j = n + 1
        BY <3>1, <3>3
      <4>. QED
        BY <4>1, <4>2, <4>3 DEF Recorded
    <3>5. CASE kind \notin {"finished", "failed"}
      <4>1. turn'[t].at = "running"
        BY <1>0, <2>1, <2>4, <3>5 DEF Starts, Speaks, TurnStates
      <4>2. \A j \in Of(t)' : j = n + 1 => ~Over(j)'
        BY <2>2, <3>5 DEF Over
      <4>3. \A j \in Of(t)' : ~Over(j)'
        BY <3>1, <3>3, <4>2
      <4>. QED
        BY <4>1, <4>3 DEF Recorded
    <3>. QED
      BY <3>4, <3>5
  <2>. QED
    BY <2>3, <2>4
<1>. QED
  BY <1>1, <1>2, <1>3, <1>4, RoomSteps

LEMMA RunningHeardStep == SeatTypes /\ RunningHeard /\ [Next]_vars => RunningHeard'
<1>. SUFFICES ASSUME SeatTypes, RunningHeard, [Next]_vars PROVE RunningHeard'
  OBVIOUS
<1>0. /\ Len(log) \in Nat /\ DOMAIN log = 1..Len(log)
      /\ since \in 0..Len(log) /\ from \in 0..since
  BY DEF SeatTypes, LogTypes, FollowTypes
<1>1. \A i \in DOMAIN log : i \in DOMAIN log' /\ log'[i] = log[i]
  BY LogNext DEF vars, room
<1>2. CASE UNCHANGED <<from, since, running>>
  <2>1. \A i \in (from + 1)..since : log'[i] = log[i] /\ \A j \in i..since : log'[j] = log[j]
    BY <1>0, <1>1
  <2>. QED
    BY <1>2, <2>1 DEF RunningHeard, Over
<1>3. CASE Seek
  <2>1. from' = since' /\ since' \in Nat
    BY <1>0, <1>3 DEF Seek
  <2>2. \A i \in (from' + 1)..since' : FALSE
    <3>1. \A x \in Nat : \A i \in (x + 1)..x : FALSE
      OBVIOUS
    <3>. QED
      BY Zenon, <2>1, <3>1
  <2>. QED
    BY <2>2 DEF RunningHeard
<1>4. CASE Read
  <2>. DEFINE n == since + 1
              e == log[n]
  <2>1. /\ n \in Nat /\ n \in DOMAIN log /\ since' = n /\ log' = log /\ from' = from /\ running' = Runs(e)
    BY <1>0, <1>4 DEF Read, room
  <2>2. SUFFICES ASSUME NEW i \in (from + 1)..n, log[i].kind = "started"
                 PROVE  \/ log[i].turn \in running'
                        \/ \E j \in i..n : log[j].kind \in {"finished", "failed"} /\ log[j].turn = log[i].turn
    BY <2>1 DEF RunningHeard, Over
  <2>3. CASE i = n
    BY <2>1, <2>2, <2>3 DEF Runs
  <2>4. CASE i \in (from + 1)..since
    <3>1. \/ log[i].turn \in running
          \/ \E j \in i..since : log[j].kind \in {"finished", "failed"} /\ log[j].turn = log[i].turn
      BY <2>2, <2>4 DEF RunningHeard, Over
    <3>2. CASE log[i].turn \in running
      <4>1. log[i].turn \notin running' => e.kind \in {"finished", "failed"} /\ e.turn = log[i].turn
        BY <2>1, <3>2 DEF Runs
      <4>2. n \in i..n
        BY <1>0, <2>4
      <4>. QED
        BY <4>1, <4>2
    <3>3. CASE \E j \in i..since : log[j].kind \in {"finished", "failed"} /\ log[j].turn = log[i].turn
      <4>1. \A j \in i..since : j \in i..n
        BY <1>0, <2>4
      <4>. QED
        BY <3>3, <4>1
    <3>. QED
      BY <3>1, <3>2, <3>3
  <2>. QED
    BY <1>0, <2>3, <2>4
<1>. QED
  BY <1>2, <1>3, <1>4
     DEF Next, Said, Restart, Starts, Speaks, Ends, NewSession, LoadSession, Loaded, Disconnect, Reconnect,
         Ask, Post, PostFails, Hears, GivesUp, Stops, Cancel, Done, room, follower, vars

(* A prompt that waits for the one turn it woke, which nothing else delays: *)
(* the starts it has not heard of are of its turn, and if it heard of one   *)
(* since its baseline, that was its turn's.                                 *)
Waits(q, t) ==
    /\ q.why # "quiet"
    /\ With("queued") \cup With("running") \subseteq {t}
    /\ \A i \in DOMAIN log : i > since /\ log[i].kind = "started" => log[i].turn = t
    /\ started > q.base => \E i \in (from + 1)..since : log[i].kind = "started" /\ log[i].turn = t

(* All of a turn that is over has been read.                               *)
Heard(t) == turn[t].at = "done" /\ \A i \in Of(t) : i <= since

Alone(q, t) ==
    /\ q.at \in {"waiting", "ended"} /\ phase \in {"reading", "apart"}
    /\ \A i \in Of(t) : i > from
    /\ q.at = "waiting" => Waits(q, t)
    /\ q.why = "quiet" => Heard(t)

Answering == \A p \in Prompts : prompt[p].turn # Nothing => Alone(prompt[p], prompt[p].turn)

(* What a message in the room does to what a prompt was the only reason of. *)
LEMMA Spoils ==
    ASSUME SeatTypes, NEW y \in Prompts
    PROVE  /\ Spoilt \in [Prompts -> Asked] /\ Spoilt[y].turn = Nothing
           /\ Spoilt[y].at = prompt[y].at /\ Spoilt[y].base = prompt[y].base /\ Spoilt[y].why = prompt[y].why
<1>1. \A z \in Prompts : prompt[z] \in Asked
  BY DEF SeatTypes, PromptTypes
<1>2. \A z \in Prompts : [prompt[z] EXCEPT !.turn = Nothing] \in Asked
  BY <1>1 DEF Asked
<1>3. Spoilt \in [Prompts -> Asked] /\ Spoilt[y] = [prompt[y] EXCEPT !.turn = Nothing]
  BY <1>2 DEF Spoilt
<1>4. prompt[y] \in Asked
  BY <1>1
<1>. QED
  BY <1>3, <1>4 DEF Asked

LEMMA PostsTo ==
    ASSUME SeatTypes, NEW x \in Prompts, NEW u, prompt' = [Spoilt EXCEPT ![x].at = "waiting", ![x].turn = u]
    PROVE  /\ \A y \in Prompts : y # x => prompt'[y] = Spoilt[y]
           /\ prompt'[x].turn = u /\ prompt'[x].at = "waiting"
           /\ prompt'[x].base = prompt[x].base /\ prompt'[x].why = prompt[x].why
<1>1. /\ Spoilt \in [Prompts -> Asked] /\ Spoilt[x] \in Asked
      /\ Spoilt[x].base = prompt[x].base /\ Spoilt[x].why = prompt[x].why
  BY Spoils
<1>. HIDE DEF Spoilt
<1>2. prompt'[x] = [Spoilt[x] EXCEPT !.at = "waiting", !.turn = u]
  BY <1>1
<1>3. /\ prompt'[x].turn = u /\ prompt'[x].at = "waiting"
      /\ prompt'[x].base = Spoilt[x].base /\ prompt'[x].why = Spoilt[x].why
  BY <1>1, <1>2 DEF Asked
<1>. QED
  BY <1>1, <1>3

(* Only a prompt that has ended has ended because the room was quiet.       *)
QuietEnded == \A p \in Prompts : prompt[p].why = "quiet" => prompt[p].at = "ended"

LEMMA QuietEndedStep == SeatTypes /\ QuietEnded /\ [Next]_vars => QuietEnded'
<1>. SUFFICES ASSUME SeatTypes, QuietEnded, [Next]_vars, NEW p \in Prompts, prompt'[p].why = "quiet"
              PROVE  prompt'[p].at = "ended"
  BY DEF QuietEnded
<1>0. prompt \in [Prompts -> Asked] /\ prompt[p] \in Asked /\ (slot # Nothing => slot \in Prompts)
  BY DEF SeatTypes, PromptTypes
<1>1. CASE prompt'[p] = prompt[p] \/ (prompt'[p].at = prompt[p].at /\ prompt'[p].why = prompt[p].why)
  BY <1>1 DEF QuietEnded
<1>2. CASE Said \/ Restart \/ Read
  <2>1. CASE Said \/ Restart
    BY <1>1, <2>1, Spoils DEF Said, Restart
  <2>2. CASE Read
    <3>1. prompt'[p] = [prompt[p] EXCEPT !.changed = prompt[p].at \in {"posting", "waiting"}]
      BY <2>2 DEF Read
    <3>2. prompt'[p].at = prompt[p].at /\ prompt'[p].why = prompt[p].why
      BY <1>0, <3>1 DEF Asked
    <3>. QED
      BY <1>1, <3>2
  <2>. QED
    BY <1>2, <2>1, <2>2
<1>3. ASSUME NEW x \in Prompts, Ask(x) PROVE prompt'[p].at = "ended"
  <2>1. x # p => prompt'[p] = prompt[p]
    BY <1>0, <1>3 DEF Ask
  <2>2. x = p => prompt[p].at # "ended" /\ prompt'[p].why = prompt[p].why
    BY <1>0, <1>3 DEF Ask, Asked
  <2>. QED
    BY <1>1, <2>1, <2>2 DEF QuietEnded
<1>4. ASSUME NEW x \in Prompts, NEW why, EndsWith(x, why) PROVE prompt'[p].at = "ended"
  <2>1. x = p => prompt'[p].at = "ended"
    BY <1>0, <1>4 DEF EndsWith, Idle
  <2>2. x # p => prompt'[p] = prompt[p]
    BY <1>0, <1>4 DEF EndsWith
  <2>. QED
    BY <1>1, <2>1, <2>2
<1>5. ASSUME NEW x \in Prompts, Hears(x) PROVE prompt'[p].at = "ended"
  <2>1. CASE Answered(x) /\ running = {}
    BY <1>4, <1>5, <2>1 DEF Hears
  <2>2. CASE ~(Answered(x) /\ running = {})
    <3>1. x # p => prompt'[p] = prompt[p]
      BY <1>0, <1>5, <2>2 DEF Hears
    <3>2. x = p => prompt'[p] = [prompt[p] EXCEPT !.changed = FALSE, !.answered = Answered(p)]
      BY <1>0, <1>5, <2>2 DEF Hears
    <3>3. prompt'[p].at = prompt[p].at /\ prompt'[p].why = prompt[p].why
      BY <1>0, <3>1, <3>2 DEF Asked
    <3>. QED
      BY <1>1, <3>3
  <2>. QED
    BY <2>1, <2>2
<1>6. CASE Cancel
  <2>1. prompt'[p].at = prompt[p].at /\ prompt'[p].why = prompt[p].why
    BY <1>0, <1>6 DEF Cancel, Asked
  <2>. QED
    BY <1>1, <2>1
<1>7. ASSUME NEW x \in Prompts, Post(x) PROVE prompt'[p].at = "ended"
  <2>1. PICK u : prompt' = [Spoilt EXCEPT ![x].at = "waiting", ![x].turn = u]
    BY <1>7 DEF Post
  <2>2. x # p => prompt'[p].at = prompt[p].at /\ prompt'[p].why = prompt[p].why
    BY <2>1, PostsTo, Spoils
  <2>3. x = p => prompt[p].at # "ended" /\ prompt'[p].why = prompt[p].why
    BY <1>7, <2>1, PostsTo DEF Post
  <2>. QED
    BY <1>1, <2>2, <2>3 DEF QuietEnded
<1>. QED
  BY <1>1, <1>2, <1>3, <1>4, <1>5, <1>6, <1>7
     DEF Next, Starts, Speaks, Ends, NewSession, LoadSession, Loaded, Seek, Disconnect, Reconnect,
         PostFails, GivesUp, Stops, Done, vars

LEMMA AnsweringStep ==
    SeatTypes /\ TurnLog /\ RunningHeard /\ QuietEnded /\ Answering /\ [Next]_vars => Answering'
<1>. SUFFICES ASSUME SeatTypes, TurnLog, RunningHeard, QuietEnded, Answering, [Next]_vars,
                     NEW p \in Prompts, prompt'[p].turn # Nothing
              PROVE  Alone(prompt[p], prompt[p].turn)'
  BY DEF Answering
<1>0. /\ LogTypes /\ FollowTypes /\ PromptTypes /\ Len(log) \in Nat /\ DOMAIN log = 1..Len(log)
      /\ since \in 0..Len(log) /\ from \in 0..since /\ started \in Nat
      /\ turn \in [Turns -> TurnStates] /\ prompt \in [Prompts -> Asked] /\ prompt'[p].turn \in Turns
  <2>1. prompt' \in [Prompts -> Asked]
    BY SeatNext DEF SeatTypes, PromptTypes
  <2>2. prompt'[p].turn \in Turns
    BY <2>1 DEF Asked
  <2>. QED
    BY <2>2 DEF SeatTypes, LogTypes, FollowTypes, PromptTypes
<1>. DEFINE Same == /\ prompt'[p].turn = prompt[p].turn /\ prompt'[p].at = prompt[p].at
                    /\ prompt'[p].base = prompt[p].base /\ prompt'[p].why = prompt[p].why
<1>1. prompt'[p].turn = prompt[p].turn => Alone(prompt[p], prompt[p].turn)
  BY DEF Answering
<1>2. ASSUME NEW x \in Prompts, NEW q, prompt' = [prompt EXCEPT ![x] = q]
      PROVE  (x # p => Same) /\ (x = p => prompt'[p] = q)
  BY <1>0, <1>2
<1>3. ASSUME Same, UNCHANGED <<log, turn, from, since, started>>,
             phase \in {"reading", "apart"} => phase' \in {"reading", "apart"}
      PROVE  Alone(prompt[p], prompt[p].turn)'
  BY <1>1, <1>3 DEF Alone, Waits, Heard, Of, With
<1>4. CASE Said \/ Restart
  BY <1>4, Spoils DEF Said, Restart
<1>5. ASSUME NEW x \in Prompts, Ask(x) PROVE Alone(prompt[p], prompt[p].turn)'
  <2>1. CASE x # p
    <3>1. prompt'[p] = prompt[p]
      BY <1>0, <1>5, <2>1 DEF Ask
    <3>. QED
      BY <1>3, <1>5, <3>1 DEF Ask, room, follower
  <2>2. CASE x = p
    <3>1. prompt'[p].turn = prompt[p].turn /\ prompt[p].at = "no"
      BY <1>0, <1>5, <2>2 DEF Ask, Asked
    <3>. QED
      BY <1>1, <3>1 DEF Alone
  <2>. QED
    BY <2>1, <2>2
<1>6. CASE Cancel
  <2>1. Same
    BY <1>0, <1>6 DEF Cancel, PromptTypes, Asked
  <2>. QED
    BY <1>3, <1>6, <2>1 DEF Cancel, room, follower
<1>7. CASE Disconnect \/ Reconnect \/ UNCHANGED vars
  BY <1>3, <1>7 DEF Disconnect, Reconnect, vars, room, follower
<1>8. CASE NewSession \/ LoadSession \/ Loaded \/ Seek
  BY <1>1, <1>8 DEF NewSession, LoadSession, Loaded, Seek, Alone
<1>9. ASSUME NEW x \in Prompts, NEW why, EndsWith(x, why), UNCHANGED <<room, follower>>,
             x = p /\ why = "quiet" /\ prompt[p].turn # Nothing => Heard(prompt[p].turn)
      PROVE  Alone(prompt[p], prompt[p].turn)'
  <2>1. CASE x # p
    BY <1>2, <1>3, <1>9, <2>1 DEF EndsWith, room, follower
  <2>2. CASE x = p
    <3>1. /\ prompt'[p].turn = prompt[p].turn /\ prompt'[p].at = "ended" /\ prompt'[p].why = why
      BY <1>2, <1>9, <2>2 DEF EndsWith, Idle
    <3>2. UNCHANGED <<log, turn, phase, from, since>>
      BY <1>9 DEF room, follower
    <3>. QED
      BY <1>1, <1>9, <2>2, <3>1, <3>2 DEF Alone, Heard, Of
  <2>. QED
    BY <2>1, <2>2
<1>10. ASSUME NEW x \in Prompts, PostFails(x) \/ GivesUp(x) \/ Stops(x)
       PROVE  Alone(prompt[p], prompt[p].turn)'
  <2>1. PICK why \in {"error", "nobody", "cancelled"} : EndsWith(x, why) /\ UNCHANGED <<room, follower>>
    BY <1>10 DEF PostFails, GivesUp, Stops
  <2>. QED
    BY <1>9, <2>1
<1>11. ASSUME NEW x \in Prompts, Hears(x) PROVE Alone(prompt[p], prompt[p].turn)'
  <2>1. CASE ~(Answered(x) /\ running = {})
    <3>1. Same
      <4>1. x # p => prompt'[p] = prompt[p]
        BY <1>0, <1>11, <2>1 DEF Hears
      <4>2. x = p => prompt'[p] = [prompt[p] EXCEPT !.changed = FALSE, !.answered = Answered(p)]
        BY <1>0, <1>11, <2>1 DEF Hears
      <4>3. prompt[p] \in Asked
        BY <1>0
      <4>. QED
        BY <4>1, <4>2, <4>3 DEF Asked
    <3>. QED
      BY <1>3, <1>11, <3>1 DEF Hears, room, follower
  <2>2. CASE Answered(x) /\ running = {}
    <3>1. EndsWith(x, "quiet") /\ UNCHANGED <<room, follower>> /\ prompt[x].at = "waiting"
      BY <1>11, <2>2 DEF Hears
    <3>2. ASSUME x = p, prompt[p].turn # Nothing PROVE Heard(prompt[p].turn)
      <4>. DEFINE t == prompt[p].turn
      <4>1. Alone(prompt[p], t) /\ Waits(prompt[p], t)
        BY <3>1, <3>2 DEF Answering, Alone
      <4>2. t \in Turns \ {Nothing}
        BY <1>0, <3>2 DEF Asked
      <4>3. started > prompt[p].base
        BY <1>0, <2>2, <3>2 DEF Answered, PromptTypes, Fits, Asked
      <4>4. PICK i \in (from + 1)..since : log[i].kind = "started" /\ log[i].turn = t
        BY <4>1, <4>3 DEF Waits
      <4>5. PICK j \in i..since : Over(j) /\ log[j].turn = t
        BY <2>2, <4>4 DEF RunningHeard
      <4>6. j \in Of(t) /\ j \in Nat /\ j <= since
        BY <1>0, <4>4, <4>5 DEF Of
      <4>7. turn[t].at = "done" /\ \A l \in Of(t) : l <= j
        BY <4>2, <4>5, <4>6 DEF TurnLog, Recorded
      <4>8. \A l \in Of(t) : l \in Nat
        BY <1>0 DEF Of
      <4>. HIDE DEF t
      <4>9. \A l \in Of(t) : l <= since
        BY <1>0, <4>6, <4>7, <4>8
      <4>10. Heard(t)
        BY <4>7, <4>9 DEF Heard
      <4>. QED
        BY <4>10 DEF t
    <3>. QED
      BY <1>9, <3>1, <3>2
  <2>. QED
    BY <2>1, <2>2
<1>12. ASSUME NEW u \in Turns, Starts(u) \/ Speaks(u) \/ Ends(u)
       PROVE  Alone(prompt[p], prompt[p].turn)'
  <2>. DEFINE t == prompt[p].turn
              n == Len(log)
  <2>1. UNCHANGED <<prompt, phase, from, since, started>>
    BY <1>12 DEF Starts, Speaks, Ends, follower
  <2>2. Alone(prompt[p], t) /\ t \in Turns \ {Nothing}
    BY <1>0, <1>1, <2>1
  <2>3. PICK kind \in {"started", "part", "finished", "failed"} :
           /\ Logs(kind, Script[u].by, u) /\ u \in With("queued") \cup With("running")
           /\ \A x \in Turns \ {u} : turn'[x] = turn[x]
           /\ turn'[u].at \in {"running", "done"}
    BY <1>0, <1>12, Casting DEF Starts, Speaks, Ends, With, TurnStates
  <2>4. /\ DOMAIN log' = 1..(n + 1) /\ \A k \in 1..n : log'[k] = log[k]
        /\ log'[n + 1].kind = kind /\ log'[n + 1].turn = u
    BY <2>3, Logged
  <2>5. \A i \in Of(t)' : i \in Of(t) \/ (i = n + 1 /\ u = t)
    BY <1>0, <2>1, <2>4 DEF Of
  <2>6. from < n + 1 /\ \A i \in Of(t)' : i > from
    BY <1>0, <2>1, <2>2, <2>5 DEF Alone
  <2>7. Heard(t) => Heard(t)'
    <3>1. Heard(t) => u # t
      BY <2>3 DEF Heard, With
    <3>. QED
      BY <2>1, <2>2, <2>3, <2>5, <3>1 DEF Heard
  <2>8. ASSUME Waits(prompt[p], t) PROVE Waits(prompt[p], t)'
    <3>1. u = t /\ With("queued") \cup With("running") \subseteq {t}
      BY <2>3, <2>8 DEF Waits
    <3>2. (With("queued") \cup With("running") \subseteq {t})'
      BY <2>1, <2>3, <3>1 DEF With
    <3>3. \A i \in DOMAIN log' : i > since /\ log'[i].kind = "started" => log'[i].turn = t
      BY <1>0, <2>4, <2>8, <3>1 DEF Waits
    <3>4. \A i \in (from + 1)..since : log'[i] = log[i]
      BY <1>0, <2>4
    <3>. QED
      BY <2>1, <2>8, <3>2, <3>3, <3>4 DEF Waits
  <2>. QED
    BY <2>1, <2>2, <2>6, <2>7, <2>8 DEF Alone
<1>13. CASE Read
  <2>. DEFINE t == prompt[p].turn
              n == since + 1
  <2>1. /\ n \in DOMAIN log /\ n \in Nat /\ since' = n /\ UNCHANGED <<log, turn, from, phase>>
        /\ started' = started + IF log[n].kind = "started" THEN 1 ELSE 0
    BY <1>0, <1>13 DEF Read, room
  <2>2. Same
    BY <1>0, <1>13 DEF Read, Asked
  <2>3. Alone(prompt[p], t) /\ t \in Turns /\ prompt[p].base \in Nat
    BY <1>0, <1>1, <2>2 DEF Asked
  <2>4. Heard(t) => Heard(t)'
    BY <1>0, <2>1, <2>2 DEF Heard, Of
  <2>5. ASSUME Waits(prompt[p], t) PROVE Waits(prompt[p], t)'
    <3>1. \A i \in DOMAIN log : i > n /\ log[i].kind = "started" => log[i].turn = t
      BY <1>0, <2>5 DEF Waits
    <3>2. ASSUME started' > prompt[p].base
          PROVE  \E i \in (from + 1)..n : log[i].kind = "started" /\ log[i].turn = t
      <4>1. CASE log[n].kind = "started"
        <5>1. log[n].turn = t /\ n \in (from + 1)..n
          BY <1>0, <2>1, <2>5, <4>1 DEF Waits
        <5>. QED
          BY <4>1, <5>1
      <4>2. CASE log[n].kind # "started"
        <5>1. started' = started /\ (from + 1)..since \subseteq (from + 1)..n
          BY <1>0, <2>1, <4>2
        <5>. QED
          BY <2>5, <3>2, <5>1 DEF Waits
      <4>. QED
        BY <4>1, <4>2
    <3>. QED
      BY <2>1, <2>2, <2>5, <3>1, <3>2 DEF Waits, With
  <2>. QED
    BY <2>1, <2>2, <2>3, <2>4, <2>5 DEF Alone, Of
<1>14. ASSUME NEW x \in Prompts, Post(x) PROVE Alone(prompt[p], prompt[p].turn)'
  <2>1. PICK woken \in SUBSET Turns, u \in Turns \cup {Nothing} :
           /\ Wakes(woken) /\ Logs("asked", Nothing, Nothing)
           /\ \/ u = Nothing
              \/ /\ woken = {u}
                 /\ With("queued") \cup With("running") = {}
                 /\ phase \in {"reading", "apart"} /\ started = prompt[x].base
                 /\ \A i \in DOMAIN log : i > since => log[i].kind # "started"
           /\ prompt' = [Spoilt EXCEPT ![x].at = "waiting", ![x].turn = u]
    BY <1>14 DEF Post
  <2>2. \A y \in Prompts : y # x => prompt'[y].turn = Nothing
    BY <2>1, PostsTo, Spoils
  <2>3. x = p
    BY <2>2
  <2>4. /\ prompt'[p].turn = u /\ prompt'[p].at = "waiting" /\ prompt'[p].base = prompt[p].base
        /\ prompt'[p].why = prompt[p].why
    BY <2>1, <2>3, PostsTo
  <2>5. /\ woken = {u} /\ u \in Turns \ {Nothing} /\ With("queued") \cup With("running") = {}
        /\ phase \in {"reading", "apart"} /\ started = prompt[p].base
        /\ \A i \in DOMAIN log : i > since => log[i].kind # "started"
        /\ UNCHANGED <<phase, from, since, started>>
    BY <1>0, <1>14, <2>1, <2>3, <2>4 DEF Post, follower
  <2>6. prompt[p].at = "posting" /\ prompt[p].why # "quiet"
    BY <1>14, <2>3 DEF Post, QuietEnded
  <2>7. /\ DOMAIN log' = 1..(Len(log) + 1) /\ \A k \in 1..Len(log) : log'[k] = log[k]
        /\ log'[Len(log) + 1].kind = "asked" /\ log'[Len(log) + 1].turn = Nothing
    BY <2>1, Logged
  <2>8. Of(u)' = {}
    <3>1. turn[u].at = "no"
      BY <2>1, <2>5 DEF Wakes, With
    <3>2. Of(u) = {}
      BY <2>5, <3>1 DEF TurnLog, Recorded
    <3>. QED
      BY <1>0, <2>5, <2>7, <3>2 DEF Of
  <2>9. (With("queued") \cup With("running") \subseteq {u})'
    BY <1>0, <2>1, <2>5 DEF Wakes, With, TurnStates
  <2>10. \A i \in DOMAIN log' : i > since => log'[i].kind # "started"
    BY <1>0, <2>5, <2>7
  <2>11. ~(started > prompt[p].base)
    BY <1>0, <2>5
  <2>. QED
    BY <2>4, <2>5, <2>6, <2>8, <2>9, <2>10, <2>11 DEF Alone, Waits
<1>. QED
  BY <1>4, <1>5, <1>6, <1>7, <1>8, <1>10, <1>11, <1>12, <1>13, <1>14 DEF Next, Done

LEMMA AnsweringInit == Init => TurnLog /\ RunningHeard /\ QuietEnded /\ Answering
<1>. SUFFICES ASSUME Init PROVE TurnLog /\ RunningHeard /\ QuietEnded /\ Answering
  OBVIOUS
<1>1. TurnLog
  <2>. SUFFICES ASSUME NEW t \in Turns \ {Nothing} PROVE Recorded(t)
    BY DEF TurnLog
  <2>1. CASE log = <<>>
    BY <2>1 DEF Recorded, Of
  <2>2. ASSUME NEW u \in Before \cap cast.turns,
               log = <<[kind |-> "said", who |-> Nothing, turn |-> Nothing],
                       [kind |-> "started", who |-> Script[u].by, turn |-> u],
                       [kind |-> "part", who |-> Script[u].by, turn |-> u]>>,
               turn = [v \in Turns |-> IF v = u THEN [at |-> "running", parts |-> 1]
                                       ELSE [at |-> "no", parts |-> 0]]
        PROVE  Recorded(t)
    <3>1. DOMAIN log = 1..3 /\ \A i \in 1..3 : i = 1 \/ i = 2 \/ i = 3
      BY <2>2
    <3>2. \A i \in 1..3 : log[i].kind \in {"said", "started", "part"} /\ log[i].turn \in {Nothing, u}
      BY <2>2, <3>1
    <3>3. \A i \in Of(t) : ~Over(i) /\ t = u
      BY <3>1, <3>2 DEF Of, Over
    <3>. QED
      BY <2>2, <3>3 DEF Recorded
  <2>. QED
    BY <2>1, <2>2 DEF Init
<1>2. RunningHeard
  <2>1. from = 0 /\ since = 0 /\ (0 + 1)..0 = {}
    BY DEF Init
  <2>. QED
    BY <2>1 DEF RunningHeard
<1>3. QuietEnded /\ Answering
  BY DEF Init, Idle, QuietEnded, Answering
<1>. QED
  BY <1>1, <1>2, <1>3

LEMMA HeardIsShown == Headings /\ PanelInv /\ Answering /\ SeatTypes => AnswerIsShown
<1>. SUFFICES ASSUME Headings, PanelInv, Answering, SeatTypes,
                     NEW p \in Prompts, prompt[p].turn # Nothing, prompt[p].why = "quiet"
              PROVE  LET t == prompt[p].turn IN
                       /\ turn[t].at = "done"
                       /\ \A i \in DOMAIN log : log[i].kind = "part" /\ log[i].turn = t =>
                             \E k \in DOMAIN panel : panel[k].seq = i
  BY DEF AnswerIsShown
<1>. DEFINE t == prompt[p].turn
<1>1. Heard(t) /\ \A i \in Of(t) : i > from
  BY DEF Answering, Alone
<1>2. ASSUME NEW i \in DOMAIN log, log[i].kind = "part", log[i].turn = t
      PROVE  \E k \in DOMAIN panel : panel[k].seq = i
  <2>1. i \in (from + 1)..since
    <3>1. i \in Of(t) /\ i \in Nat /\ from \in Nat /\ since \in Nat
      BY <1>2 DEF Of, SeatTypes, LogTypes, FollowTypes
    <3>. QED
      BY <1>1, <3>1 DEF Heard
  <2>2. PICK h \in 0..Len(panel) : Show((h + 1)..Len(panel), (from + 1)..since, {"part", "said", "failed"})
    BY DEF PanelInv, InTwoParts
  <2>3. PICK k \in (h + 1)..Len(panel) : panel[k].seq = i
    BY <1>2, <2>1, <2>2 DEF Show
  <2>4. PICK S : panel \in Seq(S)
    BY DEF Headings
  <2>5. Len(panel) \in Nat /\ DOMAIN panel = 1..Len(panel)
    BY <2>4
  <2>. QED
    BY <2>2, <2>3, <2>5
<1>. QED
  BY <1>1, <1>2 DEF Heard

(* A prompt that was the room's only reason for a turn, posted when the     *)
(* follower had read the start of every earlier turn, and ended because the *)
(* room was quiet, ended after its turn, with all of its text shown: however*)
(* far the follower is behind with the rest and wherever it lost its        *)
(* connection (relay).                                                      *)
THEOREM AnswerBeforeTheEnd == Spec => []AnswerIsShown
<1>. DEFINE Inv == SeatTypes /\ Headings /\ PanelInv /\ TurnLog /\ RunningHeard /\ QuietEnded /\ Answering
<1>1. Init => Inv
  <2>1. Init => Headings
    BY DEF Init, Headings
  <2>. QED
    BY <2>1, SeatInit, PanelInit, AnsweringInit
<1>2. Inv /\ [Next]_vars => Inv'
  BY SeatNext, HeadingsStep, PanelStep, TurnLogStep, RunningHeardStep, QuietEndedStep, AnsweringStep
<1>3. Inv => AnswerIsShown
  BY HeardIsShown
<1>. QED
  BY <1>1, <1>2, <1>3, PTL DEF Spec
=============================================================================
