-------------------------- MODULE DecisionsProofs --------------------------
(* Theorems about Decisions, for every set of lanes, requests and clients,  *)
(* every offer and any number of faults; and, at the end, about the other   *)
(* decisions a room's work begins and ends with: who answers a message      *)
(* (WhoWakes), and what check makes of a turn (HttpTurn).                   *)
EXTENDS Decisions, WhoWakes, HttpTurn, TLAPS

(***************************************************************************)
(* Types.  A request that some call, part or task knows of was asked, and   *)
(* one that was not asked offers nothing.                                   *)
(***************************************************************************)

WasAsked ==
    /\ \A c \in Callers : call[c].at # "idle" =>
          call[c].request \in Requests /\ LaneOf(call[c].request) # None
    /\ \A r \in Requests : LaneOf(r) = None =>
          /\ part[r] = "none" /\ waiter[r] = "none" /\ box[r] = None /\ answer[r] = None
          /\ asked[r].offers = {}

DecisionTypes == TypeOK /\ WasAsked

LEMMA Apart ==
    /\ None \notin Answers /\ "cancel" \notin Options /\ None \notin Options
    /\ Lanes \subseteq Callers /\ Clients \subseteq Callers
BY DecisionsAssumption DEF Answers, Options, Callers

LEMMA Appending ==
    ASSUME NEW S, NEW s \in Seq(S), NEW e \in S
    PROVE  /\ Append(s, e) \in Seq(S) /\ Len(Append(s, e)) = Len(s) + 1
           /\ DOMAIN s = 1..Len(s) /\ DOMAIN Append(s, e) = 1..(Len(s) + 1)
           /\ Len(s) \in Nat
           /\ \A k \in 1..Len(s) : Append(s, e)[k] = s[k]
           /\ Append(s, e)[Len(s) + 1] = e
OBVIOUS

LEMMA StoredType ==
    ASSUME TypeOK, NEW r \in Requests, NEW kind, NEW option \in Answers \cup {None},
           NEW by \in Callers \cup {None},
           kind \in {"requested", "declined", "resolution_requested", "resolved", "cancel_requested"},
           Stored(r, kind, option, by) \/ NotStored
    PROVE  log' \in [Requests -> Seq(Event)] /\ faults' \in Nat
<1>1. [kind |-> kind, option |-> option, by |-> by] \in Event
  BY DEF Event
<1>2. CASE Stored(r, kind, option, by)
  <2>1. log[r] \in Seq(Event)
    BY DEF TypeOK
  <2>2. Append(log[r], [kind |-> kind, option |-> option, by |-> by]) \in Seq(Event)
    BY <1>1, <2>1, Appending
  <2>. QED
    BY <1>2, <2>2 DEF Stored, TypeOK
<1>3. CASE NotStored
  BY <1>3 DEF NotStored, TypeOK
<1>. QED
  BY <1>2, <1>3

(* The records of a lane, a call and the cancel.                           *)
LaneState == [turn : {"runs", "over"}, active : BOOLEAN, token : {"live", "cancelled"}, alive : BOOLEAN]
Entered == [at : {"idle", "look", "log", "resolve", "resolved"},
            request : Requests \cup {None}, option : Answers \cup {None}]
Stopping == [at : {"idle", "requested", "logging"}, lanes : SUBSET Lanes, todo : SUBSET Requests]

LEMMA LaneRecords ==
    ASSUME NEW l \in LaneState
    PROVE  /\ [l EXCEPT !.active = FALSE] \in LaneState
           /\ [l EXCEPT !.alive = FALSE, !.active = FALSE] \in LaneState
           /\ [l EXCEPT !.token = "cancelled"] \in LaneState
           /\ [l EXCEPT !.turn = "over"] \in LaneState
BY DEF LaneState

LEMMA CallGoes ==
    ASSUME NEW k \in Entered, NEW where \in {"resolve", "resolved"}, NEW went,
           went = [k EXCEPT !.at = where]
    PROVE  went \in Entered /\ went.at = where /\ went.request = k.request /\ went.option = k.option
BY DEF Entered

LEMMA StopRecords ==
    ASSUME NEW s \in Stopping, NEW todo \in SUBSET Requests
    PROVE  /\ NoStop \in Stopping
           /\ [s EXCEPT !.todo = todo] \in Stopping
           /\ [s EXCEPT !.at = "logging", !.todo = todo] \in Stopping
BY DEF Stopping, NoStop

LEMMA DecisionInit == Init => DecisionTypes
BY DecisionsAssumption, Apart
   DEF Init, DecisionTypes, TypeOK, WasAsked, NoCall, NoStop, LaneOf, Event

(* The broker's and the agent's steps.                                     *)
LEMMA AskKeeps ==
    ASSUME DecisionTypes, NEW r \in Requests, NEW a \in Askers, NEW o \in Offers, Ask(r, a, o)
    PROVE  DecisionTypes'
<1>0. /\ a \in Lanes /\ a # None /\ LaneOf(r) = None
      /\ asked' = [asked EXCEPT ![r] = [lane |-> a, offers |-> o]]
      /\ asked' \in [Requests -> [lane : Lanes \cup {None}, offers : Offers \cup {{}}]]
  BY DecisionsAssumption DEF Ask, DecisionTypes, TypeOK
<1>1. \A q \in Requests : q # r => asked'[q] = asked[q]
  BY <1>0 DEF DecisionTypes, TypeOK
<1>2. asked'[r].lane = a /\ asked'[r].offers = o
  BY <1>0 DEF DecisionTypes, TypeOK
<1>3. TypeOK'
  <2>1. \A c \in Callers : call[c].at \in {"log", "resolve", "resolved"} => call[c].request # r
    BY <1>0 DEF DecisionTypes, WasAsked
  <2>2. \A c \in Callers : call'[c].at \in {"log", "resolve", "resolved"} =>
           call'[c].option \in asked'[call'[c].request].offers \cup {"cancel"}
    BY <1>1, <2>1 DEF Ask, DecisionTypes, TypeOK, WasAsked
  <2>3. pending' \subseteq {q \in Requests : LaneOf(q)' # None}
    BY <1>0, <1>1, <1>2 DEF Ask, DecisionTypes, TypeOK, LaneOf
  <2>4. /\ waiter' \in [Requests -> {"none", "waits", "picked", "told", "dropped"}]
        /\ answer' \in [Requests -> Answers \cup {None}]
        /\ part' \in [Requests -> {"none", "sent", "recorded", "lost"}]
    BY ZenonT(30) DEF Ask, DecisionTypes, TypeOK, Answers
  <2>. QED
    BY <1>0, <2>2, <2>3, <2>4 DEF Ask, DecisionTypes, TypeOK
<1>4. WasAsked'
  <2>1. \A q \in Requests : LaneOf(q)' = None => q # r /\ LaneOf(q) = None
    BY <1>0, <1>1, <1>2 DEF LaneOf
  <2>2. \A q \in Requests : q # r =>
           part'[q] = part[q] /\ waiter'[q] = waiter[q] /\ answer'[q] = answer[q]
    BY DEF Ask, DecisionTypes, TypeOK
  <2>3. \A q \in Requests : LaneOf(q) # None => LaneOf(q)' # None
    BY <1>0, <1>1, <1>2 DEF LaneOf
  <2>. QED
    BY <1>1, <2>1, <2>2, <2>3 DEF Ask, DecisionTypes, WasAsked
<1>. QED
  BY <1>3, <1>4 DEF DecisionTypes

LEMMA BrokerKeeps ==
    ASSUME DecisionTypes, NEW r \in Requests, Pick(r) \/ Finish(r)
    PROVE  DecisionTypes'
<1>0. waiter[r] # "none" /\ LaneOf(r) # None
  BY DEF Pick, Finish, DecisionTypes, WasAsked
<1>1. /\ waiter' \in [Requests -> {"none", "waits", "picked", "told", "dropped"}]
      /\ answer' \in [Requests -> Answers \cup {None}]
      /\ \A q \in Requests : q # r => waiter'[q] = waiter[q] /\ answer'[q] = answer[q]
  BY ZenonT(30), Apart DEF Pick, Finish, DecisionTypes, TypeOK, Answers
<1>2. /\ UNCHANGED <<lane, asked, part, box, call, stop, log, faults>>
      /\ pending' \subseteq pending
  BY DEF Pick, Finish
<1>3. TypeOK'
  BY <1>1, <1>2 DEF DecisionTypes, TypeOK, LaneOf
<1>4. WasAsked'
  BY <1>0, <1>1, <1>2 DEF DecisionTypes, WasAsked, LaneOf
<1>. QED
  BY <1>3, <1>4 DEF DecisionTypes

LEMMA TurnKeeps ==
    ASSUME DecisionTypes, NEW a \in Askers, PromptEnds(a) \/ Die(a) \/ TimesOut(a) \/ TurnOver(a)
    PROVE  DecisionTypes'
<1>0. /\ a \in Lanes /\ a # None
      /\ UNCHANGED <<asked, pending, box, answer, call, stop, log>>
  BY DecisionsAssumption DEF PromptEnds, Die, TimesOut, TurnOver, broker
<1>1. lane' \in [Lanes -> LaneState]
  <2>1. lane \in [Lanes -> LaneState] /\ lane[a] \in LaneState
    BY <1>0 DEF DecisionTypes, TypeOK, LaneState
  <2>2. \/ lane' = [lane EXCEPT ![a] = [lane[a] EXCEPT !.active = FALSE]]
        \/ lane' = [lane EXCEPT ![a] = [lane[a] EXCEPT !.alive = FALSE, !.active = FALSE]]
        \/ lane' = [lane EXCEPT ![a] = [lane[a] EXCEPT !.token = "cancelled"]]
        \/ lane' = [lane EXCEPT ![a] = [lane[a] EXCEPT !.turn = "over"]]
    BY <1>0, <2>1 DEF PromptEnds, Die, TimesOut, TurnOver, LaneState
  <2>. QED
    BY <2>1, <2>2, LaneRecords
<1>2. faults' \in Nat
  BY DEF PromptEnds, Die, TimesOut, TurnOver, DecisionTypes, TypeOK
<1>3. /\ waiter' \in [Requests -> {"none", "waits", "picked", "told", "dropped"}]
      /\ \A q \in Requests : LaneOf(q) = None => waiter'[q] = waiter[q]
  <2>1. CASE waiter' = waiter
    BY <2>1 DEF DecisionTypes, TypeOK
  <2>2. CASE Die(a)
    BY <1>0, <2>2 DEF Die, DecisionTypes, TypeOK
  <2>. QED
    BY <2>1, <2>2 DEF PromptEnds, TimesOut, TurnOver, broker
<1>4. /\ part' \in [Requests -> {"none", "sent", "recorded", "lost"}]
      /\ \A q \in Requests : LaneOf(q) = None => part'[q] = part[q]
  <2>1. CASE part' = part
    BY <2>1 DEF DecisionTypes, TypeOK
  <2>2. CASE TurnOver(a)
    BY <1>0, <2>2 DEF TurnOver, DecisionTypes, TypeOK
  <2>. QED
    BY <2>1, <2>2 DEF PromptEnds, TimesOut, Die
<1>5. TypeOK'
  BY <1>0, <1>1, <1>2, <1>3, <1>4 DEF DecisionTypes, TypeOK, LaneOf, LaneState
<1>6. WasAsked'
  BY <1>0, <1>3, <1>4 DEF DecisionTypes, WasAsked, LaneOf
<1>. QED
  BY <1>5, <1>6 DEF DecisionTypes

LEMMA RecordKeeps ==
    ASSUME DecisionTypes, NEW r \in Requests, Record(r)
    PROVE  DecisionTypes'
<1>0. LaneOf(r) # None /\ LaneOf(r) \in Lanes /\ LaneOf(r) \in Callers
  BY Apart DEF Record, DecisionTypes, TypeOK, WasAsked, LaneOf
<1>1. log' \in [Requests -> Seq(Event)] /\ faults' \in Nat
  BY <1>0, StoredType DEF Record, DecisionTypes
<1>2. /\ call' \in [Callers -> Entered]
      /\ \A c \in Callers : \/ call'[c] = call[c]
                            \/ call'[c] = [at |-> "look", request |-> r, option |-> None]
  BY <1>0 DEF Record, DecisionTypes, TypeOK, Entered
<1>3. TypeOK'
  BY <1>1, <1>2 DEF Record, broker, DecisionTypes, TypeOK, Entered, LaneOf
<1>4. WasAsked'
  BY <1>0, <1>2 DEF Record, broker, DecisionTypes, TypeOK, WasAsked, LaneOf
<1>. QED
  BY <1>3, <1>4 DEF DecisionTypes

LEMMA LookKeeps ==
    ASSUME DecisionTypes, NEW c \in Clients, NEW r \in Requests,
           NEW o \in Options \cup {"cancel"}, Look(c, r, o)
    PROVE  DecisionTypes'
<1>0. c \in Callers /\ LaneOf(r) # None
  BY Apart DEF Look, DecisionTypes, TypeOK
<1>1. /\ call' \in [Callers -> Entered]
      /\ \A d \in Callers : d # c => call'[d] = call[d]
      /\ call'[c] = [at |-> "log", request |-> r, option |-> o]
      /\ o \in asked[r].offers \cup {"cancel"}
  BY <1>0 DEF Look, DecisionTypes, TypeOK, Entered, Answers
<1>2. TypeOK'
  BY <1>0, <1>1 DEF Look, broker, DecisionTypes, TypeOK, Entered, LaneOf
<1>3. WasAsked'
  BY <1>0, <1>1 DEF Look, broker, DecisionTypes, TypeOK, WasAsked, LaneOf
<1>. QED
  BY <1>2, <1>3 DEF DecisionTypes

LEMMA CallKeeps ==
    ASSUME DecisionTypes, NEW c \in Callers, CallStep(c)
    PROVE  DecisionTypes'
<1>. DEFINE r == call[c].request
<1>0. /\ call[c].at # "idle" /\ r \in Requests /\ LaneOf(r) # None
      /\ call[c].option \in Answers \cup {None} /\ c \in Callers \cup {None}
  BY DEF CallStep, ExpressChooses, LogRequest, Resolve, LogResolved, DecisionTypes, TypeOK, WasAsked
<1>1. /\ NoCall \in Entered /\ NoCall.at = "idle"
      /\ call \in [Callers -> Entered] /\ call[c] \in Entered
  BY DEF NoCall, Entered, DecisionTypes, TypeOK
<1>2. CASE ExpressChooses(c)
  <2>. DEFINE option == ExpressOption(asked[r].offers)
  <2>1. log' \in [Requests -> Seq(Event)] /\ faults' \in Nat
    BY <1>0, <1>2, StoredType DEF ExpressChooses, DecisionTypes, TypeOK
  <2>2. \/ Idle(c)
        \/ /\ option # None
           /\ call' = [call EXCEPT ![c].at = "log", ![c].option = option]
    BY <1>2 DEF ExpressChooses
  <2>3. option # None => option \in asked[r].offers /\ option \in Answers
    BY DEF ExpressOption, Answers, Options
  <2>4. /\ call' \in [Callers -> Entered]
        /\ \A d \in Callers : d # c => call'[d] = call[d]
        /\ \/ call'[c] = NoCall
           \/ call'[c].request = r /\ call'[c].option \in asked[r].offers
    <3>1. CASE Idle(c)
      BY <1>1, <3>1 DEF Idle
    <3>2. CASE option # None /\ call' = [call EXCEPT ![c].at = "log", ![c].option = option]
      <4>1. call' = [call EXCEPT ![c] = [call[c] EXCEPT !.at = "log", !.option = option]]
        BY <1>1, <3>2 DEF Entered
      <4>. DEFINE chose == [call[c] EXCEPT !.at = "log", !.option = option]
      <4>2. option \in Answers
        BY <2>3, <3>2
      <4>. HIDE DEF option
      <4>3. chose \in Entered /\ chose.request = r /\ chose.option = option
        BY <1>1, <4>2 DEF Entered
      <4>. HIDE DEF chose
      <4>4. call' = [call EXCEPT ![c] = chose]
        BY <4>1 DEF chose
      <4>. QED
        BY <1>1, <2>3, <3>2, <4>3, <4>4
    <3>. QED
      BY <2>2, <3>1, <3>2
  <2>5. TypeOK'
    BY ZenonT(30), <1>1, <1>2, <2>1, <2>4 DEF ExpressChooses, broker, DecisionTypes, TypeOK, Entered, LaneOf
  <2>6. WasAsked'
    BY <1>0, <1>1, <1>2, <2>4 DEF ExpressChooses, broker, DecisionTypes, WasAsked, LaneOf
  <2>. QED
    BY <2>5, <2>6 DEF DecisionTypes
<1>3. ASSUME Idle(c) \/ GoesOn(c, "resolve") \/ (GoesOn(c, "resolved") /\ call[c].at = "resolve"),
             call[c].at \in {"log", "resolve", "resolved"},
             UNCHANGED <<lane, asked, answer, part, stop, waiter>>,
             pending' \subseteq pending, box' \in [Requests -> Answers \cup {None}],
             \A q \in Requests : q # r => box'[q] = box[q],
             log' \in [Requests -> Seq(Event)], faults' \in Nat
      PROVE  DecisionTypes'
  <2>1. /\ call' \in [Callers -> Entered]
        /\ \A d \in Callers : d # c => call'[d] = call[d]
        /\ \/ call'[c] = NoCall
           \/ call'[c].request = r /\ call'[c].option = call[c].option
    <3>1. CASE Idle(c)
      BY <1>1, <3>1 DEF Idle
    <3>2. ASSUME NEW where \in {"resolve", "resolved"}, GoesOn(c, where)
          PROVE  /\ call' \in [Callers -> Entered]
                 /\ \A d \in Callers : d # c => call'[d] = call[d]
                 /\ call'[c].request = r /\ call'[c].option = call[c].option
      <4>1. call' = [call EXCEPT ![c] = [call[c] EXCEPT !.at = where]] /\ "cancel" \in Answers
        BY <1>1, <3>2 DEF GoesOn, Entered, Answers
      <4>. DEFINE went == [call[c] EXCEPT !.at = where]
      <4>2. went \in Entered /\ went.request = r /\ went.option = call[c].option
        BY <1>1, CallGoes
      <4>3. call' = [call EXCEPT ![c] = went]
        BY <4>1
      <4>. HIDE DEF went
      <4>. QED
        BY <1>1, <4>2, <4>3
    <3>. QED
      BY <1>3, <3>1, <3>2
  <2>2. TypeOK'
    <3>1. \A d \in Callers : call'[d].at \in {"log", "resolve", "resolved"} =>
             call'[d].option \in asked[call'[d].request].offers \cup {"cancel"}
      BY ZenonT(30), <1>1, <1>3, <2>1 DEF DecisionTypes, TypeOK
    <3>. QED
      BY <1>3, <2>1, <3>1 DEF DecisionTypes, TypeOK, Entered, LaneOf
  <2>3. WasAsked'
    BY ZenonT(30), <1>0, <1>1, <1>3, <2>1 DEF DecisionTypes, WasAsked, LaneOf
  <2>. QED
    BY <2>2, <2>3 DEF DecisionTypes
<1>4. CASE LogRequest(c)
  <2>1. log' \in [Requests -> Seq(Event)] /\ faults' \in Nat
    BY <1>0, <1>4, StoredType DEF LogRequest, DecisionTypes
  <2>. QED
    BY <1>3, <1>4, <2>1 DEF LogRequest, broker, DecisionTypes, TypeOK
<1>5. CASE Resolve(c)
  <2>1. box' \in [Requests -> Answers \cup {None}] /\ \A q \in Requests : q # r => box'[q] = box[q]
    BY <1>0, <1>5 DEF Resolve, DecisionTypes, TypeOK
  <2>. QED
    BY <1>3, <1>5, <2>1 DEF Resolve, DecisionTypes, TypeOK
<1>6. CASE LogResolved(c)
  <2>1. log' \in [Requests -> Seq(Event)] /\ faults' \in Nat
    BY <1>0, <1>6, StoredType DEF LogResolved, DecisionTypes
  <2>. QED
    BY <1>3, <1>6, <2>1 DEF LogResolved, broker, DecisionTypes, TypeOK
<1>. QED
  BY <1>2, <1>4, <1>5, <1>6 DEF CallStep

LEMMA StopKeeps ==
    ASSUME DecisionTypes, CancelStep \/ \E lanes \in SUBSET Lanes : CancelLooks(lanes)
    PROVE  DecisionTypes'
<1>1. ASSUME NEW lanes \in SUBSET Lanes, CancelLooks(lanes)
      PROVE  DecisionTypes'
  BY <1>1 DEF CancelLooks, broker, DecisionTypes, TypeOK, WasAsked, LaneOf
<1>2. CASE CancelReads
  BY <1>2 DEF CancelReads, broker, DecisionTypes, TypeOK, WasAsked, LaneOf
<1>3. ASSUME NEW r \in Requests, CancelLogs(r)
      PROVE  DecisionTypes'
  <2>1. log' \in [Requests -> Seq(Event)] /\ faults' \in Nat
    BY <1>3, StoredType DEF CancelLogs, DecisionTypes
  <2>2. stop' \in Stopping
    <3>1. stop \in Stopping /\ stop.todo \ {r} \in SUBSET Requests
      BY DEF DecisionTypes, TypeOK, Stopping
    <3>. QED
      BY <1>3, <3>1, StopRecords DEF CancelLogs
  <2>. QED
    BY <1>3, <2>1, <2>2 DEF CancelLogs, broker, DecisionTypes, TypeOK, WasAsked, LaneOf, Stopping
<1>4. CASE CancelTokens
  <2>1. lane \in [Lanes -> LaneState]
    BY DEF DecisionTypes, TypeOK, LaneState
  <2>2. lane' \in [Lanes -> LaneState]
    <3>1. \A a \in Lanes : [lane[a] EXCEPT !.token = "cancelled"] \in LaneState
      BY <2>1, LaneRecords
    <3>. QED
      BY <1>4, <2>1, <3>1 DEF CancelTokens
  <2>3. stop' \in Stopping
    BY <1>4 DEF CancelTokens, NoStop, Stopping
  <2>. QED
    BY <1>4, <2>2, <2>3
       DEF CancelTokens, broker, DecisionTypes, TypeOK, WasAsked, LaneOf, LaneState, Stopping
<1>. QED
  BY <1>1, <1>2, <1>3, <1>4 DEF CancelStep

LEMMA DecisionNext == DecisionTypes /\ [Next]_vars => DecisionTypes'
<1>. SUFFICES ASSUME DecisionTypes, [Next]_vars PROVE DecisionTypes'
  OBVIOUS
<1>1. CASE UNCHANGED vars
  BY <1>1 DEF vars, DecisionTypes, TypeOK, WasAsked, LaneOf
<1>2. ASSUME NEW c \in Clients, NEW r \in Requests, NEW o \in Options \cup {"cancel"}, Look(c, r, o)
      PROVE  DecisionTypes'
  BY <1>2, LookKeeps
<1>. QED
  BY <1>1, <1>2, AskKeeps, BrokerKeeps, RecordKeeps, TurnKeeps, CallKeeps, StopKeeps DEF Next

(* The tables of the broker, of its calls and of the lanes keep their types, *)
(* and a call past its checks asks for what its request offers, or to cancel *)
(* it (Manager::resolve_interaction's checks).                              *)
THEOREM DecisionsTypeCorrect == Spec => []TypeOK
<1>1. DecisionTypes => TypeOK
  BY DEF DecisionTypes
<1>. QED
  BY DecisionInit, DecisionNext, <1>1, PTL DEF Spec

(***************************************************************************)
(* What an agent is told is on record.                                     *)
(***************************************************************************)

OnRecord(r, o) == o \in Options =>
    /\ o \in asked[r].offers
    /\ \E i \in DOMAIN log[r] : log[r][i].kind = "resolution_requested" /\ log[r][i].option = o

(* A call past its record has one, and so has what it left in the channel   *)
(* and what the task took from there.                                      *)
GrantKept ==
    /\ \A c \in Callers : call[c].at \in {"resolve", "resolved"} =>
          OnRecord(call[c].request, call[c].option)
    /\ \A r \in Requests : OnRecord(r, box[r]) /\ OnRecord(r, answer[r])

GrantInv == DecisionTypes /\ GrantKept

(* What is in the log stays there, and what is new is of the kind of the    *)
(* event that was stored.                                                  *)
Grown(q) == \A i \in DOMAIN log[q] : i \in DOMAIN log'[q] /\ log'[q][i] = log[q][i]
NoneNew(q, kind) == \A i \in DOMAIN log'[q] : log'[q][i].kind = kind => i \in DOMAIN log[q]

LEMMA StoredGrows ==
    ASSUME TypeOK, NEW r \in Requests, NEW kind, NEW option, NEW by,
           Stored(r, kind, option, by)
    PROVE  /\ \A q \in Requests : Grown(q) /\ (q # r => log'[q] = log[q])
           /\ \A q \in Requests : \A k : k # kind => NoneNew(q, k)
           /\ LET i == Len(log[r]) + 1 IN
                /\ i \in DOMAIN log'[r] /\ i \notin DOMAIN log[r] /\ DOMAIN log'[r] = DOMAIN log[r] \cup {i}
                /\ log'[r][i] = [kind |-> kind, option |-> option, by |-> by]
<1>. DEFINE e == [kind |-> kind, option |-> option, by |-> by]
<1>0. log[r] \in Seq(Event \cup {e}) /\ e \in Event \cup {e} /\ e.kind = kind
  BY DEF TypeOK
<1>1. log' = [log EXCEPT ![r] = Append(log[r], e)] /\ log \in [Requests -> Seq(Event)]
  BY DEF Stored, TypeOK
<1>. HIDE DEF e
<1>2. /\ DOMAIN log[r] = 1..Len(log[r]) /\ DOMAIN Append(log[r], e) = 1..(Len(log[r]) + 1)
      /\ Len(log[r]) \in Nat
      /\ \A k \in 1..Len(log[r]) : Append(log[r], e)[k] = log[r][k]
      /\ Append(log[r], e)[Len(log[r]) + 1] = e
  BY <1>0, Appending
<1>3. log'[r] = Append(log[r], e) /\ \A q \in Requests : q # r => log'[q] = log[q]
  BY <1>1
<1>4. \A q \in Requests : Grown(q) /\ (q # r => log'[q] = log[q])
  BY <1>2, <1>3 DEF Grown
<1>5. \A q \in Requests : \A k : k # kind => NoneNew(q, k)
  BY <1>0, <1>2, <1>3 DEF NoneNew
<1>. QED
  BY <1>2, <1>3, <1>4, <1>5 DEF e

LEMMA SameGrows ==
    ASSUME log' = log
    PROVE  \A q \in Requests : \A k : Grown(q) /\ NoneNew(q, k)
BY DEF Grown, NoneNew

(* The calls that record what the broker did.                              *)
Resolving == \E c \in Callers : LogResolved(c)
Quiet == \A q \in Requests : Grown(q) /\ NoneNew(q, "resolved")

LEMMA StepGrows ==
    ASSUME DecisionTypes, Next
    PROVE  /\ \A q \in Requests : Grown(q) /\ (LaneOf(q) # None => asked'[q] = asked[q])
           /\ Resolving \/ \A q \in Requests : NoneNew(q, "resolved")
<1>0. TypeOK
  BY DEF DecisionTypes
<1>1. \A q \in Requests : LaneOf(q) # None => asked'[q] = asked[q]
  <2>1. ASSUME NEW r \in Requests, NEW a \in Askers, NEW o \in Offers, Ask(r, a, o)
        PROVE  \A q \in Requests : LaneOf(q) # None => asked'[q] = asked[q]
    BY <1>0, <2>1 DEF Ask, TypeOK
  <2>2. asked' = asked \/ \E r \in Requests, a \in Askers, o \in Offers : Ask(r, a, o)
    BY DEF Next, CallStep, CancelStep, Pick, Finish, Record, PromptEnds, Die, TimesOut, TurnOver,
           Look, ExpressChooses, LogRequest, Resolve, LogResolved, CancelLooks, CancelReads,
           CancelLogs, CancelTokens
  <2>. QED
    BY <2>1, <2>2
<1>2. log' = log => Quiet
  BY SameGrows DEF Quiet
<1>3. ASSUME NEW r \in Requests, NEW option, NEW by, NEW kind, kind # "resolved",
             Stored(r, kind, option, by) \/ NotStored
      PROVE  Quiet
  <2>1. CASE NotStored
    BY <1>2, <2>1 DEF NotStored
  <2>2. CASE Stored(r, kind, option, by)
    <3>1. \A q \in Requests : Grown(q)
      BY <1>0, <2>2, StoredGrows
    <3>2. \A q \in Requests : \A k : k # kind => NoneNew(q, k)
      BY <1>0, <2>2, StoredGrows
    <3>3. \A q \in Requests : NoneNew(q, "resolved")
      BY <1>3, <3>2, Zenon
    <3>. QED
      BY <3>1, <3>3 DEF Quiet
  <2>. QED
    BY <1>3, <2>1, <2>2
<1>4. ASSUME NEW c \in Callers, CallStep(c), ~LogResolved(c) PROVE Quiet
  <2>1. call[c].at # "idle" /\ call[c].request \in Requests
    BY <1>4 DEF CallStep, ExpressChooses, LogRequest, Resolve, LogResolved, DecisionTypes, WasAsked
  <2>2. CASE ExpressChooses(c)
    BY <1>2, <1>3, <2>1, <2>2 DEF ExpressChooses
  <2>3. CASE LogRequest(c)
    BY <1>3, <2>1, <2>3 DEF LogRequest
  <2>4. CASE Resolve(c)
    BY <1>2, <2>4 DEF Resolve
  <2>. QED
    BY <1>4, <2>2, <2>3, <2>4 DEF CallStep
<1>5. ASSUME NEW r \in Requests, Record(r) \/ CancelLogs(r) PROVE Quiet
  <2>1. CASE Record(r)
    BY <1>3, <2>1 DEF Record
  <2>2. CASE CancelLogs(r)
    BY <1>3, <2>2 DEF CancelLogs
  <2>. QED
    BY <1>5, <2>1, <2>2
<1>6. Resolving \/ Quiet
  BY <1>2, <1>4, <1>5
     DEF Next, CancelStep, Ask, Pick, Finish, PromptEnds, Die, TimesOut, TurnOver, Look, CancelLooks,
         CancelReads, CancelTokens, Resolving
<1>7. ASSUME NEW c \in Callers, LogResolved(c) PROVE \A q \in Requests : Grown(q)
  <2>1. call[c].request \in Requests
    BY <1>7 DEF LogResolved, DecisionTypes, WasAsked
  <2>. QED
    BY <1>0, <1>7, <2>1, StoredGrows, SameGrows DEF LogResolved, NotStored
<1>. QED
  BY <1>1, <1>6, <1>7 DEF Resolving, Quiet

LEMMA RecordStays ==
    ASSUME DecisionTypes, Next, NEW r \in Requests, LaneOf(r) # None, NEW o, OnRecord(r, o)
    PROVE  OnRecord(r, o)'
BY StepGrows DEF OnRecord, Grown

LEMMA GrantStep == GrantInv /\ [Next]_vars => GrantInv'
<1>. SUFFICES ASSUME GrantInv, [Next]_vars PROVE GrantKept'
  BY DecisionNext DEF GrantInv
<1>0. DecisionTypes /\ TypeOK /\ WasAsked /\ GrantKept
  BY DEF GrantInv, DecisionTypes
<1>1. CASE UNCHANGED vars
  BY <1>0, <1>1 DEF vars, GrantKept, OnRecord
<1>. SUFFICES ASSUME Next PROVE GrantKept'
  BY <1>1
<1>2. CASE UNCHANGED <<call, box>> /\ \A r \in Requests : answer'[r] \in {answer[r], box[r], "cancel"}
  <2>1. ASSUME NEW r \in Requests PROVE OnRecord(r, box[r])' /\ OnRecord(r, answer[r])'
    <3>1. CASE LaneOf(r) = None
      <4>1. box[r]' = None /\ answer[r]' \in {None, "cancel"}
        BY <1>0, <1>2, <3>1 DEF WasAsked
      <4>. QED
        BY <4>1, Apart DEF OnRecord
    <3>2. CASE LaneOf(r) # None
      <4>1. OnRecord(r, box[r])' /\ (answer'[r] = box[r] => OnRecord(r, answer[r])')
        BY <1>0, <1>2, <3>2, RecordStays DEF GrantKept, OnRecord
      <4>2. answer'[r] = answer[r] => OnRecord(r, answer[r])'
        BY <1>0, <3>2, RecordStays DEF GrantKept, OnRecord
      <4>3. answer'[r] = "cancel" => OnRecord(r, answer[r])'
        BY Apart DEF OnRecord
      <4>. QED
        BY <1>2, <4>1, <4>2, <4>3
    <3>. QED
      BY <3>1, <3>2
  <2>2. ASSUME NEW c \in Callers, call[c].at \in {"resolve", "resolved"}
        PROVE  OnRecord(call[c].request, call[c].option)'
    <3>1. call[c].request \in Requests /\ LaneOf(call[c].request) # None
      BY <1>0, <2>2 DEF WasAsked
    <3>2. OnRecord(call[c].request, call[c].option)
      BY <1>0, <2>2 DEF GrantKept
    <3>. QED
      BY <1>0, <1>2, <3>1, <3>2, RecordStays DEF OnRecord
  <2>. QED
    BY <1>2, <2>1, <2>2 DEF GrantKept
<1>3. ASSUME NEW d \in Callers, call[d].at \in {"resolve", "resolved"}
      PROVE  OnRecord(call[d].request, call[d].option)' \/ call'[d] # call[d]
  <2>1. call[d].request \in Requests /\ LaneOf(call[d].request) # None
    BY <1>0, <1>3 DEF WasAsked
  <2>. QED
    BY <1>0, <1>3, <2>1, RecordStays DEF GrantKept, OnRecord
<1>4. ASSUME NEW r \in Requests
      PROVE  /\ box'[r] = box[r] => OnRecord(r, box[r])'
             /\ answer'[r] = answer[r] => OnRecord(r, answer[r])'
  <2>1. CASE LaneOf(r) = None
    BY <1>0, <2>1, Apart DEF WasAsked, OnRecord
  <2>2. CASE LaneOf(r) # None
    BY <1>0, <2>2, RecordStays DEF GrantKept, OnRecord
  <2>. QED
    BY <2>1, <2>2
<1>5. ASSUME NEW c \in Callers, UNCHANGED <<box, answer>>,
             \A d \in Callers : d # c => call'[d] = call[d],
             call'[c].at \in {"resolve", "resolved"} => OnRecord(call[c].request, call[c].option)'
      PROVE  GrantKept'
  <2>1. \A r \in Requests : OnRecord(r, box[r])' /\ OnRecord(r, answer[r])'
    BY <1>4, <1>5
  <2>2. ASSUME NEW d \in Callers, call'[d].at \in {"resolve", "resolved"}
        PROVE  OnRecord(call[d].request, call[d].option)'
    BY <1>3, <1>5, <2>2
  <2>. QED
    BY <2>1, <2>2 DEF GrantKept
<1>6. ASSUME NEW r \in Requests, Record(r) PROVE GrantKept'
  <2>1. /\ LaneOf(r) \in Callers /\ UNCHANGED <<box, answer>>
        /\ \A d \in Callers : d # LaneOf(r) => call'[d] = call[d]
        /\ call'[LaneOf(r)] = call[LaneOf(r)] \/ call'[LaneOf(r)].at = "look"
    BY <1>0, <1>6, Apart DEF Record, broker, TypeOK, WasAsked, LaneOf
  <2>2. call[LaneOf(r)].at = "idle"
    BY <1>6 DEF Record
  <2>. QED
    BY <1>5, <2>1, <2>2
<1>7. ASSUME NEW c \in Clients, NEW r \in Requests, NEW o \in Options \cup {"cancel"}, Look(c, r, o)
      PROVE  GrantKept'
  BY <1>0, <1>5, <1>7, Apart DEF Look, broker, TypeOK
<1>8. ASSUME NEW c \in Callers, CallStep(c) PROVE GrantKept'
  <2>. DEFINE r == call[c].request
  <2>0. r \in Requests /\ LaneOf(r) # None /\ call \in [Callers -> Entered]
    BY <1>0, <1>8 DEF CallStep, ExpressChooses, LogRequest, Resolve, LogResolved, WasAsked, TypeOK, Entered
  <2>1. CASE ExpressChooses(c) \/ LogResolved(c)
    <3>1. /\ UNCHANGED <<box, answer>>
          /\ \A d \in Callers : d # c => call'[d] = call[d]
          /\ call'[c].at \notin {"resolve", "resolved"}
      BY <2>0, <2>1 DEF ExpressChooses, LogResolved, Idle, NoCall, broker, Entered
    <3>. QED
      BY <1>5, <3>1
  <2>2. CASE LogRequest(c)
    <3>1. /\ UNCHANGED <<box, answer, asked>>
          /\ \A d \in Callers : d # c => call'[d] = call[d]
      BY <2>0, <2>2 DEF LogRequest, GoesOn, Idle, NoCall, broker, Entered
    <3>2. CASE NotStored /\ Idle(c)
      BY <1>5, <2>0, <3>1, <3>2 DEF Idle, NoCall
    <3>3. CASE Stored(r, "resolution_requested", call[c].option, c) /\ GoesOn(c, "resolve")
      <4>1. call'[c].request = r /\ call'[c].option = call[c].option
        BY <2>0, <3>3 DEF GoesOn, Entered
      <4>2. \E i \in DOMAIN log'[r] : /\ log'[r][i].kind = "resolution_requested"
                                      /\ log'[r][i].option = call[c].option
        <5>. DEFINE i == Len(log[r]) + 1
        <5>1. i \in DOMAIN log'[r] /\ log'[r][i] = [kind |-> "resolution_requested",
                                                  option |-> call[c].option, by |-> c]
          BY <1>0, <2>0, <3>3, StoredGrows
        <5>. HIDE DEF i
        <5>. QED
          BY <5>1
      <4>3. call[c].option \in asked[r].offers \cup {"cancel"}
        BY <1>0, <2>2 DEF LogRequest, TypeOK
      <4>4. OnRecord(call[c].request, call[c].option)'
        BY <3>1, <4>1, <4>2, <4>3, Apart DEF OnRecord
      <4>. QED
        BY <1>5, <3>1, <4>4
    <3>. QED
      BY <2>2, <3>2, <3>3 DEF LogRequest
  <2>3. CASE Resolve(c)
    <3>1. /\ answer' = answer /\ asked' = asked /\ log' = log
          /\ box' \in {box, [box EXCEPT ![r] = call[c].option]}
          /\ \A d \in Callers : d # c => call'[d] = call[d]
          /\ call'[c] = NoCall \/ (call'[c].request = r /\ call'[c].option = call[c].option)
      BY <2>0, <2>3 DEF Resolve, GoesOn, Idle, Entered
    <3>2. OnRecord(r, call[c].option)
      BY <1>0, <2>3 DEF Resolve, GrantKept
    <3>3. \A q \in Requests : OnRecord(q, box[q])' /\ OnRecord(q, answer[q])'
      <4>1. \A q \in Requests : box'[q] = box[q] \/ (q = r /\ box'[q] = call[c].option)
        BY <1>0, <3>1 DEF TypeOK
      <4>. QED
        BY <1>0, <2>0, <3>1, <3>2, <4>1 DEF GrantKept, OnRecord
    <3>4. \A d \in Callers : call'[d].at \in {"resolve", "resolved"} =>
             OnRecord(call[d].request, call[d].option)'
      BY <1>0, <3>1, <3>2 DEF GrantKept, OnRecord, NoCall
    <3>. QED
      BY <3>3, <3>4 DEF GrantKept
  <2>. QED
    BY <1>8, <2>1, <2>2, <2>3 DEF CallStep
<1>9. ASSUME NEW r \in Requests, NEW a \in Askers, NEW o \in Offers, Ask(r, a, o)
      PROVE  GrantKept'
  <2>1. \A q \in Requests : answer'[q] \in {answer[q], "cancel"}
    BY <1>0, <1>9 DEF Ask, TypeOK
  <2>. QED
    BY <1>2, <1>9, <2>1 DEF Ask
<1>10. ASSUME NEW r \in Requests, Pick(r) \/ Finish(r)
       PROVE  GrantKept'
  <2>1. \A q \in Requests : answer'[q] \in {answer[q], box[q], "cancel"}
    BY <1>0, <1>10 DEF Pick, Finish, TypeOK
  <2>. QED
    BY <1>2, <1>10, <2>1 DEF Pick, Finish
<1>11. CASE UNCHANGED <<call, box, answer>>
  BY <1>2, <1>11
<1>. QED
  BY <1>6, <1>7, <1>8, <1>9, <1>10, <1>11
     DEF Next, CancelStep, PromptEnds, Die, TimesOut, TurnOver, CancelLooks, CancelReads, CancelLogs,
         CancelTokens, broker

(* An agent is told an option only if it offered it and a caller is on      *)
(* record as asking for it (PermissionBroker::resolve after                 *)
(* interaction.resolution_requested), whatever fails, races or dies.        *)
THEOREM GrantsRecorded == Spec => []GrantOnRecord
<1>1. Init => GrantInv
  BY DecisionInit, Apart DEF Init, GrantInv, GrantKept, OnRecord, NoCall
<1>2. GrantInv => GrantOnRecord
  BY DEF GrantInv, GrantKept, OnRecord, GrantOnRecord, Logged
<1>. QED
  BY <1>1, <1>2, GrantStep, PTL DEF Spec

(***************************************************************************)
(* What is on record as resolved is what the agent is told.                *)
(***************************************************************************)

(* The channel is used once, on the entry that was taken out of the map; an *)
(* answer comes from it or from a cancel; what is recorded was in it.       *)
BoxKept(r) ==
    /\ waiter[r] = "waits" => answer[r] = None
    /\ box[r] # None => r \notin pending
    /\ \/ answer[r] \in {None, box[r]}
       \/ answer[r] = "cancel" /\ (box[r] = None \/ Cancelled(r))
    /\ \A i \in Logged(r, "resolved") :
          /\ Logged(r, "resolved") = {i}
          /\ log[r][i].option = box[r] /\ box[r] # None

(* A call that is to record its answer is the only one that gave one, and   *)
(* has not recorded it.                                                    *)
GaveAnswer(c) == call[c].at = "resolved" =>
    /\ box[call[c].request] = call[c].option /\ call[c].option # None
    /\ Logged(call[c].request, "resolved") = {}
    /\ \A d \in Callers : call[d].at = "resolved" /\ call[d].request = call[c].request => d = c

ToldInv ==
    /\ DecisionTypes
    /\ \A r \in Requests : BoxKept(r)
    /\ \A c \in Callers : GaveAnswer(c)

(* A step that leaves the channel of a request alone, and at most takes     *)
(* from it.                                                                *)
Calm(q) ==
    /\ box'[q] = box[q] /\ (q \in pending' => q \in pending)
    /\ waiter'[q] = "waits" => waiter[q] = "waits" /\ answer'[q] = answer[q]
    /\ \/ answer'[q] \in {answer[q], box[q]}
       \/ answer'[q] = "cancel" /\ Cancelled(q)

LEMMA SameRecord ==
    ASSUME NEW q, Grown(q), NoneNew(q, "resolved")
    PROVE  /\ Logged(q, "resolved")' = Logged(q, "resolved")
           /\ \A i \in Logged(q, "resolved") : log'[q][i] = log[q][i]
BY DEF Grown, NoneNew, Logged

LEMMA CancelStays ==
    ASSUME DecisionTypes, Next
    PROVE  \A q \in Requests : Cancelled(q) => Cancelled(q)'
<1>0. TypeOK
  BY DEF DecisionTypes
<1>1. \A a \in Lanes : lane[a].token = "cancelled" => lane'[a].token = "cancelled"
  <2>1. ASSUME NEW a \in Askers, PromptEnds(a) \/ Die(a) \/ TimesOut(a) \/ TurnOver(a)
        PROVE  \A b \in Lanes : lane[b].token = "cancelled" => lane'[b].token = "cancelled"
    <3>1. lane \in [Lanes -> LaneState] /\ a \in Lanes
      BY <1>0, DecisionsAssumption DEF TypeOK, LaneState
    <3>. QED
      BY <2>1, <3>1 DEF PromptEnds, Die, TimesOut, TurnOver, LaneState
  <2>2. CASE CancelTokens
    BY <1>0, <2>2 DEF CancelTokens, TypeOK
  <2>3. CASE lane' = lane
    BY <2>3
  <2>. QED
    BY <2>1, <2>2, <2>3
       DEF Next, CallStep, CancelStep, Ask, Pick, Finish, Record, Look, ExpressChooses, LogRequest,
           Resolve, LogResolved, CancelLooks, CancelReads, CancelLogs
<1>2. ASSUME NEW q \in Requests, Cancelled(q) PROVE Cancelled(q)'
  <2>1. LaneOf(q) # None /\ LaneOf(q) \in Lanes /\ asked'[q] = asked[q]
    BY <1>0, <1>2, StepGrows DEF Cancelled, TypeOK, LaneOf
  <2>. QED
    BY <1>1, <1>2, <2>1 DEF Cancelled, LaneOf
<1>. QED
  BY <1>2

LEMMA CalmKeeps ==
    ASSUME DecisionTypes, Next, NEW q \in Requests, Calm(q), BoxKept(q), NoneNew(q, "resolved")
    PROVE  BoxKept(q)'
<1>1. Cancelled(q) => Cancelled(q)'
  BY CancelStays
<1>2. /\ Logged(q, "resolved")' = Logged(q, "resolved")
      /\ \A i \in Logged(q, "resolved") : log'[q][i] = log[q][i]
  BY SameRecord, StepGrows
<1>. QED
  BY <1>1, <1>2 DEF Calm, BoxKept

(* The steps of the other calls and tasks.                                 *)
LEMMA CalmSteps ==
    ASSUME ToldInv, Next, \A c \in Callers : ~Resolve(c) /\ ~LogResolved(c)
    PROVE  /\ box' = box
           /\ \A c \in Callers : call'[c].at = "resolved" => call'[c] = call[c]
<1>0. TypeOK /\ call \in [Callers -> Entered]
  BY DEF ToldInv, DecisionTypes, TypeOK, Entered
<1>1. ASSUME NEW c \in Callers, ExpressChooses(c) \/ LogRequest(c)
      PROVE  box' = box /\ \A d \in Callers : call'[d].at = "resolved" => call'[d] = call[d]
  BY <1>0, <1>1 DEF ExpressChooses, LogRequest, Idle, GoesOn, NoCall, broker, Entered
<1>2. ASSUME NEW c \in Clients, NEW r \in Requests, NEW o, Look(c, r, o)
      PROVE  box' = box /\ \A d \in Callers : call'[d].at = "resolved" => call'[d] = call[d]
  BY <1>0, <1>2 DEF Look, broker, Entered, Callers
<1>3. ASSUME NEW r \in Requests, Record(r)
      PROVE  box' = box /\ \A d \in Callers : call'[d].at = "resolved" => call'[d] = call[d]
  BY <1>0, <1>3 DEF Record, broker, Entered
<1>. QED
  BY <1>1, <1>2, <1>3
     DEF Next, CallStep, CancelStep, Ask, Pick, Finish, PromptEnds, Die, TimesOut, TurnOver,
         CancelLooks, CancelReads, CancelLogs, CancelTokens, broker

LEMMA CalmBoxes ==
    ASSUME ToldInv, Next, \A c \in Callers : ~Resolve(c) /\ ~LogResolved(c)
    PROVE  \A q \in Requests : BoxKept(q)'
<1>0. DecisionTypes /\ TypeOK /\ WasAsked
  BY DEF ToldInv, DecisionTypes
<1>1. \A q \in Requests : NoneNew(q, "resolved")
  BY <1>0, StepGrows DEF Resolving
<1>2. ASSUME NEW r \in Requests, NEW a \in Askers, NEW o \in Offers, Ask(r, a, o)
      PROVE  \A q \in Requests : BoxKept(q)'
  <2>1. ASSUME NEW q \in Requests, q # r PROVE BoxKept(q)'
    <3>1. Calm(q)
      BY <1>0, <1>2, <2>1 DEF Ask, Calm, TypeOK
    <3>. QED
      BY <1>0, <1>1, <3>1, CalmKeeps DEF ToldInv
  <2>2. /\ box'[r] = None /\ answer'[r] \in {None, "cancel"}
        /\ waiter'[r] = "waits" => answer'[r] = None
    BY <1>0, <1>2 DEF Ask, TypeOK, WasAsked
  <2>3. Logged(r, "resolved") = {} /\ Logged(r, "resolved")' = {}
    BY <1>0, <1>1, <1>2, StepGrows, SameRecord DEF ToldInv, BoxKept, Ask, WasAsked
  <2>4. BoxKept(r)'
    BY <2>2, <2>3 DEF BoxKept
  <2>. QED
    BY <2>1, <2>4
<1>3. CASE \A q \in Requests : Calm(q)
  BY <1>0, <1>1, <1>3, CalmKeeps DEF ToldInv
<1>4. ASSUME NEW r \in Requests, Pick(r) PROVE \A q \in Requests : Calm(q)
  BY <1>0, <1>4 DEF Pick, Watches, Calm, Cancelled, TypeOK, WasAsked
<1>5. ASSUME NEW r \in Requests, Finish(r) PROVE \A q \in Requests : Calm(q)
  BY <1>0, <1>5 DEF Finish, Calm, TypeOK
<1>6. ASSUME NEW a \in Askers, Die(a) PROVE \A q \in Requests : Calm(q)
  BY <1>0, <1>6 DEF Die, Calm, TypeOK
<1>7. CASE UNCHANGED broker
  BY <1>3, <1>7 DEF broker, Calm
<1>. QED
  BY <1>2, <1>3, <1>4, <1>5, <1>6, <1>7
     DEF Next, CallStep, CancelStep, Record, PromptEnds, TimesOut, TurnOver, Look, ExpressChooses,
         LogRequest, CancelLooks, CancelReads, CancelLogs, CancelTokens, broker

(* The broker is asked: the first caller finds the request, and no other.  *)
LEMMA ResolvingKeeps ==
    ASSUME ToldInv, Next, NEW c \in Callers, Resolve(c),
           NEW r, NEW o, r = call[c].request, o = call[c].option
    PROVE  /\ \A q \in Requests : BoxKept(q)'
           /\ \A d \in Callers : GaveAnswer(d)'
<1>0. /\ DecisionTypes /\ TypeOK /\ WasAsked /\ call \in [Callers -> Entered]
      /\ r \in Requests /\ o # None
  <2>1. DecisionTypes /\ TypeOK /\ WasAsked /\ call \in [Callers -> Entered]
    BY DEF ToldInv, DecisionTypes, TypeOK, Entered
  <2>2. r \in Requests /\ LaneOf(r) # None
    BY <2>1 DEF Resolve, WasAsked
  <2>3. o \in asked[r].offers \cup {"cancel"} /\ asked[r].offers \in Offers \cup {{}}
    BY <2>1, <2>2 DEF Resolve, TypeOK
  <2>4. None # "cancel" /\ None \notin Options /\ \A s \in Offers \cup {{}} : s \subseteq Options
    BY DecisionsAssumption
  <2>. QED
    BY <2>1, <2>2, <2>3, <2>4
<1>1. /\ log' = log /\ \A q \in Requests : NoneNew(q, "resolved")
      /\ \A q : Logged(q, "resolved")' = Logged(q, "resolved")
  BY SameGrows DEF Resolve, Logged
<1>2. ASSUME NEW q \in Requests, q # r PROVE BoxKept(q)'
  <2>1. Calm(q)
    BY <1>0, <1>2 DEF Resolve, Calm, TypeOK
  <2>. QED
    BY <1>0, <1>1, <2>1, CalmKeeps DEF ToldInv
<1>3. CASE r \in pending /\ waiter[r] = "waits"
  <2>1. /\ box' = [box EXCEPT ![r] = o] /\ box'[r] = o
        /\ pending' = pending \ {r} /\ answer' = answer /\ waiter' = waiter
        /\ call' = [call EXCEPT ![c].at = "resolved"]
    BY <1>0, <1>3 DEF Resolve, GoesOn, TypeOK
  <2>2. box[r] = None /\ answer[r] = None /\ Logged(r, "resolved") = {}
    BY <1>0, <1>3 DEF ToldInv, BoxKept
  <2>3. BoxKept(r)'
    BY <1>1, <2>1, <2>2 DEF BoxKept
  <2>4. /\ call'[c].at = "resolved" /\ call'[c].request = r /\ call'[c].option = o
        /\ \A d \in Callers : d # c => call'[d] = call[d]
    BY <1>0, <2>1 DEF Entered
  <2>5. ASSUME NEW d \in Callers, call[d].at = "resolved" PROVE call[d].request # r
    BY <2>2, <2>5 DEF ToldInv, GaveAnswer
  <2>6. GaveAnswer(c)'
    BY <1>0, <1>1, <2>1, <2>2, <2>4, <2>5 DEF GaveAnswer
  <2>7. ASSUME NEW d \in Callers, d # c, call'[d].at = "resolved" PROVE GaveAnswer(d)'
    <3>1. call'[d] = call[d] /\ call[d].request # r /\ call[d].request \in Requests
      BY <1>0, <2>4, <2>5, <2>7 DEF WasAsked
    <3>2. box'[call[d].request] = box[call[d].request]
      BY <1>0, <2>1, <3>1 DEF TypeOK
    <3>3. GaveAnswer(d)
      BY DEF ToldInv
    <3>. QED
      BY <1>1, <2>4, <2>7, <3>1, <3>2, <3>3 DEF GaveAnswer
  <2>8. \A d \in Callers : d # c => GaveAnswer(d)'
    BY <2>7 DEF GaveAnswer
  <2>. QED
    BY <1>2, <2>3, <2>6, <2>8
<1>4. CASE ~(r \in pending /\ waiter[r] = "waits")
  <2>1. /\ box' = box /\ pending' \subseteq pending /\ answer' = answer /\ waiter' = waiter
        /\ call' = [call EXCEPT ![c] = NoCall]
    BY <1>4 DEF Resolve, Idle
  <2>2. Calm(r)
    BY <2>1 DEF Calm
  <2>3. BoxKept(r)'
    BY <1>0, <1>1, <2>2, CalmKeeps DEF ToldInv
  <2>4. \A d \in Callers : call'[d].at = "resolved" => call'[d] = call[d]
    BY <1>0, <2>1 DEF NoCall, Entered
  <2>5. \A d \in Callers : GaveAnswer(d)'
    BY <1>1, <2>1, <2>4 DEF ToldInv, GaveAnswer
  <2>. QED
    BY <1>2, <2>3, <2>5
<1>. QED
  BY <1>3, <1>4

(* The answer is recorded, by the call that gave it.                       *)
LEMMA ResolvedKeeps ==
    ASSUME ToldInv, Next, NEW c \in Callers, LogResolved(c),
           NEW r, NEW o, r = call[c].request, o = call[c].option
    PROVE  /\ \A q \in Requests : BoxKept(q)'
           /\ \A d \in Callers : GaveAnswer(d)'
<1>0. /\ DecisionTypes /\ TypeOK /\ WasAsked /\ call \in [Callers -> Entered]
      /\ r \in Requests
      /\ box[r] = o /\ o # None /\ Logged(r, "resolved") = {}
      /\ \A d \in Callers : call[d].at = "resolved" /\ call[d].request = r => d = c
  <2>1. DecisionTypes /\ TypeOK /\ WasAsked /\ call \in [Callers -> Entered]
    BY DEF ToldInv, DecisionTypes, TypeOK, Entered
  <2>2. r \in Requests
    BY <2>1 DEF LogResolved, WasAsked
  <2>. QED
    BY <2>1, <2>2 DEF LogResolved, ToldInv, GaveAnswer
<1>1. UNCHANGED <<box, pending, waiter, answer>> /\ call' = [call EXCEPT ![c] = NoCall]
  BY DEF LogResolved, broker, Idle
<1>2. \A d \in Callers : call'[d].at = "resolved" => d # c /\ call'[d] = call[d]
  BY <1>0, <1>1 DEF NoCall, Entered
<1>3. CASE NotStored
  <2>1. log' = log
    BY <1>3 DEF NotStored
  <2>2. \A q \in Requests : Calm(q) /\ NoneNew(q, "resolved")
    BY <1>1, <2>1, SameGrows DEF Calm
  <2>3. \A d \in Callers : GaveAnswer(d)'
    BY <1>1, <1>2, <2>1 DEF ToldInv, GaveAnswer, Logged
  <2>. QED
    BY <1>0, <2>2, <2>3, CalmKeeps DEF ToldInv
<1>4. CASE Stored(r, "resolved", o, c)
  <2>1. PICK n : /\ DOMAIN log'[r] = DOMAIN log[r] \cup {n} /\ n \notin DOMAIN log[r]
                 /\ log'[r][n] = [kind |-> "resolved", option |-> o, by |-> c]
                 /\ Grown(r) /\ \A q \in Requests : q # r => log'[q] = log[q]
    BY <1>0, <1>4, StoredGrows
  <2>2. Logged(r, "resolved")' = {n}
    BY <1>0, <2>1 DEF Logged, Grown
  <2>3. Cancelled(r) => Cancelled(r)'
    BY <1>0, CancelStays
  <2>4. BoxKept(r)'
    BY <1>0, <1>1, <2>1, <2>2, <2>3 DEF ToldInv, BoxKept
  <2>5. ASSUME NEW q \in Requests, q # r PROVE BoxKept(q)'
    <3>1. Calm(q) /\ NoneNew(q, "resolved")
      BY <1>1, <2>1, <2>5 DEF Calm, NoneNew
    <3>. QED
      BY <1>0, <3>1, CalmKeeps DEF ToldInv
  <2>6. ASSUME NEW d \in Callers, call'[d].at = "resolved" PROVE GaveAnswer(d)'
    <3>1. d # c /\ call'[d] = call[d] /\ call[d].request \in Requests /\ call[d].request # r
      BY <1>0, <1>2, <2>6 DEF WasAsked
    <3>2. Logged(call[d].request, "resolved")' = Logged(call[d].request, "resolved")
      BY <2>1, <3>1 DEF Logged
    <3>3. GaveAnswer(d)
      BY DEF ToldInv
    <3>. QED
      BY <1>1, <1>2, <2>6, <3>1, <3>2, <3>3 DEF GaveAnswer
  <2>7. \A d \in Callers : GaveAnswer(d)'
    BY <2>6 DEF GaveAnswer
  <2>. QED
    BY <2>4, <2>5, <2>7
<1>. QED
  BY <1>3, <1>4 DEF LogResolved

LEMMA ToldStep == ToldInv /\ [Next]_vars => ToldInv'
<1>. SUFFICES ASSUME ToldInv, [Next]_vars
              PROVE  (\A q \in Requests : BoxKept(q)') /\ \A c \in Callers : GaveAnswer(c)'
  BY DecisionNext DEF ToldInv
<1>1. CASE UNCHANGED vars
  BY <1>1 DEF vars, ToldInv, BoxKept, GaveAnswer, Cancelled, LaneOf, Logged
<1>2. CASE Next /\ \A c \in Callers : ~Resolve(c) /\ ~LogResolved(c)
  <2>1. DecisionTypes
    BY DEF ToldInv
  <2>2. /\ box' = box
        /\ \A c \in Callers : call'[c].at = "resolved" => call'[c] = call[c]
    BY <1>2, CalmSteps
  <2>3. \A q \in Requests : Logged(q, "resolved")' = Logged(q, "resolved")
    BY <1>2, <2>1, StepGrows, SameRecord DEF Resolving
  <2>4. ASSUME NEW c \in Callers, call'[c].at = "resolved" PROVE GaveAnswer(c)'
    <3>1. call'[c] = call[c] /\ call[c].request \in Requests /\ GaveAnswer(c)
      BY <2>1, <2>2, <2>4 DEF ToldInv, DecisionTypes, WasAsked
    <3>. QED
      BY <2>2, <2>3, <2>4, <3>1 DEF GaveAnswer
  <2>5. \A c \in Callers : GaveAnswer(c)'
    BY <2>4 DEF GaveAnswer
  <2>. QED
    BY <1>2, <2>5, CalmBoxes
<1>. QED
  BY <1>1, <1>2, ResolvingKeeps, ResolvedKeeps

(* A request is resolved once on record, with what the agent is told unless *)
(* its turn was cancelled at the time (resolve_interaction after            *)
(* PermissionBroker::resolve), whoever else answers.                        *)
THEOREM ResolvedOnce == Spec => []ResolvedIsTold
<1>1. Init => ToldInv
  BY DecisionInit DEF Init, ToldInv, BoxKept, GaveAnswer, NoCall, Logged
<1>2. ToldInv => ResolvedIsTold
  BY DEF ToldInv, BoxKept, ResolvedIsTold
<1>. QED
  BY <1>1, <1>2, ToldStep, PTL DEF Spec

(***************************************************************************)
(* What --express grants follows its request in the log.                   *)
(***************************************************************************)

(* What the loops of the lanes, and no caller, asked to resolve.           *)
LaneAsks(r) == {i \in Logged(r, "resolution_requested") : log[r][i].by \in Lanes}
Untouched(r) == LaneAsks(r) = {} /\ Logged(r, "declined") = {}
Grants(r) == {"allow_once", "allow_always"} \cap asked[r].offers

(* A request is given to --express once, after its record was made.        *)
TrailOf(r) ==
    /\ part[r] # "recorded" => Untouched(r)
    /\ part[r] = "recorded" => Logged(r, "requested") # {}
    /\ \A i \in LaneAsks(r) :
          /\ \E j \in Logged(r, "requested") : j < i
          /\ log[r][i].option \in Grants(r)
          /\ Logged(r, "declined") = {}

(* A loop's call is about a request of its own lane that it recorded, and   *)
(* until it asks the broker it is the first to touch it.                    *)
LoopCall(a) == call[a].at # "idle" =>
    /\ LaneOf(call[a].request) = a /\ part[call[a].request] = "recorded"
    /\ call[a].at \in {"look", "log"} => Untouched(call[a].request)
    /\ call[a].at = "log" => call[a].option \in Grants(call[a].request)

TrailKept == (\A r \in Requests : TrailOf(r)) /\ \A a \in Lanes : LoopCall(a)
TrailInv == DecisionTypes /\ (faults = 0 => TrailKept)

(* Nothing of what a trail speaks of is new in the log.                    *)
SameTrail(q) ==
    /\ LaneAsks(q)' = LaneAsks(q) /\ Logged(q, "declined")' = Logged(q, "declined")
    /\ Logged(q, "requested") \subseteq Logged(q, "requested")' /\ Grown(q)

(* The event, and its place after all others.                              *)
LEMMA StoredAdds ==
    ASSUME TypeOK, NEW r \in Requests, NEW kind, NEW option, NEW by, Stored(r, kind, option, by)
    PROVE  \E n : /\ \A k : k # kind => Logged(r, k)' = Logged(r, k)
                  /\ Logged(r, kind)' = Logged(r, kind) \cup {n}
                  /\ log'[r][n].option = option /\ log'[r][n].by = by /\ log'[r][n].kind = kind
                  /\ \A i \in DOMAIN log[r] : i < n /\ log'[r][i] = log[r][i]
                  /\ \A q \in Requests : q # r => log'[q] = log[q]
<1>. DEFINE n == Len(log[r]) + 1
<1>1. /\ n \in DOMAIN log'[r] /\ n \notin DOMAIN log[r] /\ DOMAIN log'[r] = DOMAIN log[r] \cup {n}
      /\ log'[r][n] = [kind |-> kind, option |-> option, by |-> by]
      /\ Grown(r) /\ \A q \in Requests : q # r => log'[q] = log[q]
  BY StoredGrows
<1>2. \A i \in DOMAIN log[r] : i < n
  <2>1. log[r] \in Seq(Event)
    BY DEF TypeOK
  <2>. QED
    BY <2>1
<1>. HIDE DEF n
<1>3. log'[r][n].option = option /\ log'[r][n].by = by /\ log'[r][n].kind = kind
  BY <1>1
<1>4. \A i \in DOMAIN log[r] : log'[r][i] = log[r][i]
  BY <1>1 DEF Grown
<1>5. \A k : k # kind => Logged(r, k)' = Logged(r, k)
  BY <1>1, <1>3, <1>4 DEF Logged
<1>6. Logged(r, kind)' = Logged(r, kind) \cup {n}
  BY <1>1, <1>3, <1>4 DEF Logged
<1>. QED
  BY <1>1, <1>2, <1>3, <1>4, <1>5, <1>6

LEMMA UnloggedSame ==
    ASSUME NEW q, log'[q] = log[q]
    PROVE  SameTrail(q)
BY DEF SameTrail, LaneAsks, Logged, Grown

LEMMA StoredSame ==
    ASSUME TypeOK, NEW r \in Requests, NEW kind, NEW option, NEW by, Stored(r, kind, option, by),
           kind # "declined", kind = "resolution_requested" => by \notin Lanes
    PROVE  \A q \in Requests : SameTrail(q)
<1>1. PICK n : /\ \A k : k # kind => Logged(r, k)' = Logged(r, k)
               /\ Logged(r, kind)' = Logged(r, kind) \cup {n}
               /\ log'[r][n].option = option /\ log'[r][n].by = by /\ log'[r][n].kind = kind
               /\ \A i \in DOMAIN log[r] : i < n /\ log'[r][i] = log[r][i]
               /\ \A q \in Requests : q # r => log'[q] = log[q]
  BY StoredAdds
<1>2. Logged(r, "declined")' = Logged(r, "declined")
  BY <1>1
<1>3. Logged(r, "requested") \subseteq Logged(r, "requested")'
  BY <1>1
<1>4. \A i \in Logged(r, "resolution_requested") : log'[r][i] = log[r][i]
  BY <1>1 DEF Logged
<1>5. \/ Logged(r, "resolution_requested")' = Logged(r, "resolution_requested")
      \/ /\ Logged(r, "resolution_requested")' = Logged(r, "resolution_requested") \cup {n}
         /\ log'[r][n].by \notin Lanes
  BY <1>1
<1>6. LaneAsks(r)' = LaneAsks(r)
  BY <1>4, <1>5 DEF LaneAsks
<1>7. Grown(r)
  BY StoredGrows
<1>. QED
  BY <1>1, <1>2, <1>3, <1>6, <1>7, UnloggedSame DEF SameTrail

(* A request is recorded once.                                             *)
LEMMA PartSteps ==
    ASSUME DecisionTypes, Next, NEW q \in Requests
    PROVE  /\ part[q] = "recorded" => part'[q] = "recorded"
           /\ part'[q] = "recorded" => part[q] = "recorded" \/ Record(q)
<1>0. TypeOK /\ WasAsked
  BY DEF DecisionTypes
<1>1. ASSUME NEW r \in Requests, NEW a \in Askers, NEW o \in Offers, Ask(r, a, o)
      PROVE  part'[q] = part[q] \/ (part[q] # "recorded" /\ part'[q] # "recorded")
  BY <1>0, <1>1 DEF Ask, TypeOK, WasAsked
<1>2. ASSUME NEW a \in Askers, TurnOver(a)
      PROVE  part'[q] = part[q] \/ (part[q] # "recorded" /\ part'[q] # "recorded")
  BY <1>0, <1>2 DEF TurnOver, TypeOK
<1>3. ASSUME NEW r \in Requests, Record(r)
      PROVE  part'[q] = part[q] \/ (q = r /\ part[q] # "recorded")
  BY <1>0, <1>3 DEF Record, TypeOK
<1>. QED
  BY <1>1, <1>2, <1>3
     DEF Next, CallStep, CancelStep, Pick, Finish, PromptEnds, Die, TimesOut, Look, ExpressChooses,
         LogRequest, Resolve, LogResolved, CancelLooks, CancelReads, CancelLogs, CancelTokens

LEMMA SameKeeps ==
    ASSUME DecisionTypes, Next, NEW q \in Requests, TrailOf(q), SameTrail(q),
           part'[q] = "recorded" => part[q] = "recorded" \/ Logged(q, "requested")' # {}
    PROVE  TrailOf(q)'
<1>1. LaneAsks(q) # {} => Grants(q)' = Grants(q)
  <2>1. LaneAsks(q) # {} => LaneOf(q) # None
    BY DEF DecisionTypes, WasAsked, TrailOf, Untouched
  <2>. QED
    BY <2>1, StepGrows DEF Grants
<1>2. \A i \in LaneAsks(q) : log'[q][i] = log[q][i]
  BY DEF SameTrail, Grown, LaneAsks, Logged
<1>3. \A i \in LaneAsks(q)' :
          /\ \E j \in Logged(q, "requested")' : j < i
          /\ (log[q][i].option)' \in Grants(q)'
          /\ Logged(q, "declined")' = {}
  BY <1>1, <1>2 DEF SameTrail, TrailOf
<1>4. part'[q] # "recorded" => Untouched(q)'
  BY PartSteps DEF SameTrail, TrailOf, Untouched
<1>5. part'[q] = "recorded" => Logged(q, "requested")' # {}
  BY PartSteps DEF SameTrail, TrailOf
<1>. QED
  BY <1>3, <1>4, <1>5 DEF TrailOf

(* A loop's call whose request the step does not touch.                    *)
LEMMA CallKeepsTrail ==
    ASSUME DecisionTypes, Next, NEW a \in Lanes, LoopCall(a),
           call[a].at # "idle" => SameTrail(call[a].request),
           \/ call'[a] = call[a]
           \/ call'[a].at = "idle"
           \/ /\ call[a].at # "idle" /\ call'[a].request = call[a].request
              /\ call'[a].at \in {"resolve", "resolved"}
    PROVE  LoopCall(a)'
<1>1. CASE call'[a].at = "idle"
  BY <1>1 DEF LoopCall
<1>2. CASE /\ call'[a].at # "idle" /\ call[a].at # "idle"
           /\ call'[a].request = call[a].request
  <2>1. PICK r \in Requests : r = call[a].request /\ LaneOf(r) # None
    BY <1>2, Apart DEF DecisionTypes, WasAsked
  <2>2. asked'[r] = asked[r] /\ (part[r] = "recorded" => part'[r] = "recorded")
    BY <2>1, StepGrows, PartSteps
  <2>3. LaneOf(r)' = a /\ part'[r] = "recorded" /\ Grants(r)' = Grants(r)
    <3>1. LaneOf(r) = a /\ part[r] = "recorded"
      BY <1>2, <2>1 DEF LoopCall
    <3>. QED
      BY <2>2, <3>1 DEF LaneOf, Grants
  <2>4. call'[a] = call[a] \/ call'[a].at \in {"resolve", "resolved"}
    BY <1>2
  <2>5. Untouched(r) => Untouched(r)'
    BY <1>2, <2>1 DEF SameTrail, Untouched
  <2>6. /\ call'[a].at \in {"look", "log"} => Untouched(r)'
        /\ call'[a].at = "log" => call'[a].option \in Grants(r)'
    BY <1>2, <2>1, <2>3, <2>4, <2>5 DEF LoopCall
  <2>. QED
    BY <1>2, <2>1, <2>3, <2>6 DEF LoopCall
<1>. QED
  BY <1>1, <1>2

(* The steps that tell the log nothing of what a trail speaks of.           *)
LEMMA QuietTrail ==
    ASSUME DecisionTypes, TrailKept, Next,
           \A q \in Requests : SameTrail(q) /\ ~Record(q),
           \A a \in Lanes :
              \/ call'[a] = call[a]
              \/ call'[a].at = "idle"
              \/ /\ call[a].at # "idle" /\ call'[a].request = call[a].request
                 /\ call'[a].at \in {"resolve", "resolved"}
    PROVE  TrailKept'
<1>1. ASSUME NEW q \in Requests PROVE TrailOf(q)'
  BY PartSteps, SameKeeps DEF TrailKept
<1>2. ASSUME NEW a \in Lanes PROVE LoopCall(a)'
  <2>1. call[a].at # "idle" => SameTrail(call[a].request)
    BY Apart DEF DecisionTypes, WasAsked
  <2>. QED
    BY <2>1, CallKeepsTrail DEF TrailKept
<1>. QED
  BY <1>1, <1>2 DEF TrailKept

(* One request's part of the log grows.                                    *)
LEMMA OneTrail ==
    ASSUME DecisionTypes, TrailKept, Next, NEW r \in Requests, NEW c \in Lanes,
           \A q \in Requests : q # r => log'[q] = log[q] /\ part'[q] = part[q],
           \A a \in Lanes : a # c => call'[a] = call[a],
           LaneOf(r) = c, TrailOf(r)', LoopCall(c)'
    PROVE  TrailKept'
<1>1. ASSUME NEW q \in Requests, q # r PROVE TrailOf(q)'
  BY <1>1, UnloggedSame, SameKeeps DEF TrailKept
<1>2. ASSUME NEW a \in Lanes, a # c PROVE LoopCall(a)'
  <2>1. call[a].at # "idle" => call[a].request \in Requests /\ call[a].request # r
    BY <1>2, Apart DEF DecisionTypes, WasAsked, TrailKept, LoopCall
  <2>. QED
    BY <1>2, <2>1, UnloggedSame, CallKeepsTrail DEF TrailKept
<1>. QED
  BY <1>1, <1>2 DEF TrailKept

LEMMA NoFault ==
    ASSUME TypeOK, faults' = 0
    PROVE  ~NotStored
BY DEF TypeOK, NotStored

LEMMA RecordTrail ==
    ASSUME DecisionTypes, TrailKept, Next, faults' = 0, NEW r \in Requests, Record(r)
    PROVE  TrailKept'
<1>0. TypeOK /\ WasAsked /\ call \in [Callers -> Entered]
  BY DEF DecisionTypes, TypeOK, Entered
<1>1. PICK c \in Lanes : c = LaneOf(r)
  BY <1>0 DEF Record, WasAsked, TypeOK, LaneOf
<1>2. /\ Stored(r, "requested", None, c) /\ UNCHANGED asked
      /\ part[r] = "sent" /\ part'[r] = "recorded" /\ \A q \in Requests : q # r => part'[q] = part[q]
      /\ call[c].at = "idle" /\ \A a \in Lanes : a # c => call'[a] = call[a]
      /\ call'[c] = call[c] \/ (call'[c].at = "look" /\ call'[c].request = r)
  BY <1>0, <1>1, NoFault, Apart DEF Record, TypeOK
<1>3. \A q \in Requests : SameTrail(q)
  BY <1>0, <1>2, StoredSame
<1>4. Logged(r, "requested")' # {} /\ \A q \in Requests : q # r => log'[q] = log[q]
  BY <1>0, <1>2, StoredAdds
<1>5. Untouched(r)'
  BY <1>2, <1>3 DEF TrailKept, TrailOf, Untouched, SameTrail
<1>6. TrailOf(r)'
  BY <1>3, <1>4, SameKeeps DEF TrailKept
<1>7. LoopCall(c)'
  BY <1>1, <1>2, <1>5 DEF LoopCall, LaneOf
<1>. QED
  BY <1>1, <1>2, <1>4, <1>6, <1>7, OneTrail

(* --express looks at what the request offers.                             *)
LEMMA ChooseTrail ==
    ASSUME DecisionTypes, TrailKept, Next, faults' = 0, NEW c \in Callers, ExpressChooses(c)
    PROVE  TrailKept'
<1>0. TypeOK /\ WasAsked /\ call \in [Callers -> Entered] /\ c \in Lanes
  BY DEF DecisionTypes, TypeOK, Entered, ExpressChooses
<1>1. PICK r \in Requests : r = call[c].request
  BY <1>0 DEF ExpressChooses, WasAsked
<1>2. /\ LaneOf(r) = c /\ part[r] = "recorded" /\ Untouched(r) /\ TrailOf(r)
      /\ UNCHANGED <<asked, part>>
  BY <1>0, <1>1 DEF ExpressChooses, TrailKept, LoopCall
<1>3. PICK option : option = ExpressOption(asked[r].offers)
  OBVIOUS
<1>4. option # None => option \in Grants(r)
  <2>1. \/ option = "allow_once" /\ "allow_once" \in asked[r].offers
        \/ option = "allow_always" /\ "allow_always" \in asked[r].offers
        \/ option = None
    BY <1>3 DEF ExpressOption
  <2>. QED
    BY <2>1 DEF Grants
<1>5. \A a \in Lanes : a # c => call'[a] = call[a]
  <2>1. \/ call' = [call EXCEPT ![c] = NoCall]
        \/ call' = [call EXCEPT ![c].at = "log", ![c].option = option]
    BY <1>1, <1>3 DEF ExpressChooses, Idle
  <2>. QED
    BY <1>0, <2>1, Apart
<1>6. \/ log' = log /\ call'[c].at = "idle"
      \/ /\ log' = log /\ option # None
         /\ call'[c].at = "log" /\ call'[c].request = r /\ call'[c].option = option
      \/ Stored(r, "declined", None, c) /\ call'[c].at = "idle"
  BY <1>0, <1>1, <1>3, NoFault, Apart DEF ExpressChooses, Idle, NoCall, Entered
<1>7. CASE log' = log /\ call'[c].at = "idle"
  <2>1. TrailOf(r)'
    BY <1>2, <1>7, UnloggedSame, SameKeeps
  <2>2. LoopCall(c)'
    BY <1>7 DEF LoopCall
  <2>. QED
    BY <1>0, <1>2, <1>5, <1>7, <2>1, <2>2, OneTrail
<1>8. CASE /\ log' = log /\ option # None
           /\ call'[c].at = "log" /\ call'[c].request = r /\ call'[c].option = option
  <2>1. TrailOf(r)'
    BY <1>2, <1>8, UnloggedSame, SameKeeps
  <2>2. Untouched(r)' /\ Grants(r)' = Grants(r) /\ LaneOf(r)' = LaneOf(r)
    BY <1>2, <1>8 DEF Untouched, LaneAsks, Logged, Grants, LaneOf
  <2>3. LoopCall(c)'
    BY <1>2, <1>4, <1>8, <2>2 DEF LoopCall
  <2>. QED
    BY <1>0, <1>2, <1>5, <1>8, <2>1, <2>3, OneTrail
<1>9. CASE Stored(r, "declined", None, c) /\ call'[c].at = "idle"
  <2>1. PICK n : /\ \A k : k # "declined" => Logged(r, k)' = Logged(r, k)
                 /\ \A i \in DOMAIN log[r] : i < n /\ log'[r][i] = log[r][i]
                 /\ \A q \in Requests : q # r => log'[q] = log[q]
    BY SMTT(30), <1>0, <1>9, StoredAdds
  <2>2. /\ Logged(r, "requested")' = Logged(r, "requested")
        /\ Logged(r, "resolution_requested")' = Logged(r, "resolution_requested")
    BY <2>1
  <2>3. LaneAsks(r)' = {}
    BY <1>2, <2>1, <2>2 DEF Untouched, LaneAsks, Logged
  <2>4. TrailOf(r)'
    BY <1>2, <2>2, <2>3 DEF TrailOf
  <2>5. LoopCall(c)'
    BY <1>9 DEF LoopCall
  <2>. QED
    BY <1>0, <1>2, <1>5, <2>1, <2>4, <2>5, OneTrail
<1>. QED
  BY <1>6, <1>7, <1>8, <1>9

(* A loop's call is recorded, after the request.                           *)
LEMMA AskTrail ==
    ASSUME DecisionTypes, TrailKept, Next, faults' = 0, NEW c \in Lanes, LogRequest(c)
    PROVE  TrailKept'
<1>0. TypeOK /\ WasAsked /\ call \in [Callers -> Entered] /\ c \in Callers
  BY Apart DEF DecisionTypes, TypeOK, Entered
<1>1. PICK r \in Requests : r = call[c].request
  BY <1>0 DEF LogRequest, WasAsked
<1>2. /\ LaneOf(r) = c /\ part[r] = "recorded" /\ Untouched(r) /\ TrailOf(r)
      /\ call[c].option \in Grants(r) /\ UNCHANGED <<asked, part>>
  BY <1>0, <1>1 DEF LogRequest, TrailKept, LoopCall
<1>3. /\ Stored(r, "resolution_requested", call[c].option, c)
      /\ call'[c].at = "resolve" /\ call'[c].request = r
      /\ \A a \in Lanes : a # c => call'[a] = call[a]
  <2>1. Stored(r, "resolution_requested", call[c].option, c) /\ GoesOn(c, "resolve")
    BY <1>0, <1>1, NoFault DEF LogRequest
  <2>. QED
    BY <1>0, <1>1, <2>1 DEF GoesOn, Entered
<1>4. PICK n : /\ \A k : k # "resolution_requested" => Logged(r, k)' = Logged(r, k)
               /\ Logged(r, "resolution_requested")' = Logged(r, "resolution_requested") \cup {n}
               /\ log'[r][n].option = call[c].option
               /\ \A i \in DOMAIN log[r] : i < n /\ log'[r][i] = log[r][i]
               /\ \A q \in Requests : q # r => log'[q] = log[q]
  BY <1>0, <1>3, StoredAdds
<1>5. /\ Logged(r, "requested")' = Logged(r, "requested")
      /\ Logged(r, "declined")' = Logged(r, "declined")
  BY <1>4
<1>6. LaneAsks(r)' \subseteq {n}
  BY <1>2, <1>4 DEF Untouched, LaneAsks, Logged
<1>7. Logged(r, "requested") # {} /\ \A j \in Logged(r, "requested") : j < n
  BY <1>2, <1>4 DEF TrailOf, Logged
<1>8. Grants(r)' = Grants(r) /\ LaneOf(r)' = LaneOf(r)
  BY <1>2 DEF Grants, LaneOf
<1>9. TrailOf(r)'
  BY <1>2, <1>4, <1>5, <1>6, <1>7, <1>8 DEF TrailOf, Untouched
<1>10. LoopCall(c)'
  BY <1>2, <1>3, <1>8 DEF LoopCall
<1>. QED
  BY <1>2, <1>3, <1>4, <1>9, <1>10, OneTrail

(* The calls of the others, the broker's and the cancel's records.          *)
LEMMA OtherTrail ==
    ASSUME DecisionTypes, TrailKept, Next, faults' = 0, \A r \in Requests : ~Record(r),
           \A c \in Callers : ~ExpressChooses(c), \A c \in Lanes : ~LogRequest(c)
    PROVE  TrailKept'
<1>0. TypeOK /\ WasAsked /\ call \in [Callers -> Entered]
  BY DEF DecisionTypes, TypeOK, Entered
<1>1. ASSUME log' = log PROVE \A q \in Requests : SameTrail(q)
  BY <1>1, UnloggedSame
<1>2. ASSUME UNCHANGED <<log, call>> PROVE TrailKept'
  BY <1>1, <1>2, QuietTrail
<1>3. ASSUME NEW c \in Clients, NEW r \in Requests, NEW o \in Options \cup {"cancel"}, Look(c, r, o)
      PROVE  TrailKept'
  <2>1. log' = log /\ \A a \in Lanes : call'[a] = call[a]
    BY <1>0, <1>3, Apart, DecisionsAssumption DEF Look
  <2>. QED
    BY <1>1, <2>1, QuietTrail
<1>4. ASSUME NEW c \in Clients, LogRequest(c) PROVE TrailKept'
  <2>1. PICK r \in Requests : r = call[c].request
    BY <1>0, <1>4, Apart DEF LogRequest, WasAsked
  <2>2. Stored(r, "resolution_requested", call[c].option, c) /\ c \notin Lanes
    BY <1>0, <1>4, <2>1, NoFault, DecisionsAssumption DEF LogRequest
  <2>3. \A q \in Requests : SameTrail(q)
    BY <1>0, <2>2, StoredSame
  <2>4. \A a \in Lanes : call'[a] = call[a]
    BY <1>0, <1>4, <2>2, Apart DEF LogRequest, GoesOn, Idle
  <2>. QED
    BY <2>3, <2>4, QuietTrail
<1>5. ASSUME NEW c \in Callers, Resolve(c) PROVE TrailKept'
  <2>1. log' = log
    BY <1>5 DEF Resolve
  <2>2. \/ call' = [call EXCEPT ![c] = NoCall]
        \/ call[c].at = "resolve" /\ call' = [call EXCEPT ![c].at = "resolved"]
    BY <1>5 DEF Resolve, Idle, GoesOn
  <2>3. \A a \in Lanes :
           \/ call'[a] = call[a]
           \/ call'[a].at = "idle"
           \/ /\ call[a].at # "idle" /\ call'[a].request = call[a].request
              /\ call'[a].at \in {"resolve", "resolved"}
    BY <1>0, <2>2, Apart DEF Entered, NoCall
  <2>. QED
    BY <1>1, <2>1, <2>3, QuietTrail
<1>6. ASSUME NEW c \in Callers, LogResolved(c) PROVE TrailKept'
  <2>1. PICK r \in Requests : r = call[c].request
    BY <1>0, <1>6 DEF LogResolved, WasAsked
  <2>2. Stored(r, "resolved", call[c].option, c) /\ call' = [call EXCEPT ![c] = NoCall]
    BY <1>0, <1>6, <2>1, NoFault DEF LogResolved, Idle
  <2>3. \A q \in Requests : SameTrail(q)
    BY <1>0, <2>2, StoredSame
  <2>4. \A a \in Lanes : call'[a] = call[a] \/ call'[a].at = "idle"
    BY <1>0, <2>2, Apart DEF NoCall, Entered
  <2>. QED
    BY <2>3, <2>4, QuietTrail
<1>7. ASSUME NEW r \in Requests, CancelLogs(r) PROVE TrailKept'
  <2>1. Stored(r, "cancel_requested", None, None) /\ call' = call
    BY <1>0, <1>7, NoFault DEF CancelLogs
  <2>2. \A q \in Requests : SameTrail(q)
    BY <1>0, <2>1, StoredSame
  <2>. QED
    BY <2>1, <2>2, QuietTrail
<1>. QED
  BY <1>2, <1>3, <1>4, <1>5, <1>6, <1>7
     DEF Next, CallStep, CancelStep, Ask, Pick, Finish, PromptEnds, Die, TimesOut, TurnOver, CancelLooks,
         CancelReads, CancelTokens, Callers

LEMMA FaultsStay ==
    ASSUME TypeOK, Next, faults' = 0
    PROVE  faults = 0
<1>1. ASSUME NEW r, NEW kind, NEW option, NEW by, Stored(r, kind, option, by) \/ NotStored
      PROVE  faults = 0
  BY <1>1, NoFault DEF Stored
<1>2. ASSUME NEW a, Die(a) PROVE FALSE
  BY <1>2 DEF Die, TypeOK
<1>. QED
  BY <1>1, <1>2
     DEF Next, CallStep, CancelStep, Ask, Pick, Finish, Record, PromptEnds, TimesOut, TurnOver, Look,
         ExpressChooses, LogRequest, Resolve, LogResolved, CancelLooks, CancelReads, CancelLogs,
         CancelTokens

LEMMA TrailStep == TrailInv /\ [Next]_vars => TrailInv'
<1>. SUFFICES ASSUME TrailInv, [Next]_vars, faults' = 0 PROVE TrailKept'
  BY DecisionNext DEF TrailInv
<1>1. CASE UNCHANGED vars
  BY <1>1 DEF vars, TrailInv, TrailKept, TrailOf, LoopCall, Untouched, LaneAsks, Logged, Grants, LaneOf
<1>2. CASE Next
  <2>1. DecisionTypes /\ TrailKept
    BY <1>2, FaultsStay DEF TrailInv, DecisionTypes
  <2>2. Lanes \subseteq Callers
    BY Apart
  <2>. QED
    BY <1>2, <2>1, <2>2, RecordTrail, ChooseTrail, AskTrail, OtherTrail
<1>. QED
  BY <1>1, <1>2

(* cli.md:279: what --express grants follows its request in the log, and is *)
(* an option that allows and that the request offered; a request left to a  *)
(* person is never granted (record_part, express_resolve, express_option).  *)
THEOREM ExpressOnRecord == Spec => []ExpressLeavesTrail
<1>1. Init => TrailInv
  BY DecisionInit DEF Init, TrailInv, TrailKept, TrailOf, LoopCall, Untouched, LaneAsks, Logged, NoCall, Callers
<1>2. TrailInv => ExpressLeavesTrail
  BY DEF TrailInv, TrailKept, TrailOf, LaneAsks, Grants, ExpressLeavesTrail
<1>. QED
  BY <1>1, <1>2, TrailStep, PTL DEF Spec

(***************************************************************************)
(* Who answers a message (WhoWakes), whatever the room and whatever is      *)
(* said.                                                                    *)
(***************************************************************************)

LEMMA LeastIs ==
    ASSUME NEW S \in SUBSET Nat, NEW k \in S, \A j \in S : k <= j
    PROVE  Min(S) = k
<1>1. \A j \in S : (\A i \in S : j <= i) => j = k
  OBVIOUS
<1>. QED
  BY <1>1 DEF Min

LEMMA SevenRungs ==
    ASSUME NEW a, NEW b, NEW c, NEW d, NEW e, NEW f, NEW g
    PROVE  DOMAIN <<a, b, c, d, e, f, g>> = 1..7
OBVIOUS

(* The ladder stops at its first rung that holds.                           *)
LEMMA FirstRung ==
    ASSUME NEW text, NEW to, NEW people, NEW k \in 1..7, Ladder(text, to, people)[k].on,
           \A j \in 1..k - 1 : ~Ladder(text, to, people)[j].on
    PROVE  Decision(text, to, people) = Ladder(text, to, people)[k]
<1>. DEFINE rungs == Ladder(text, to, people)
            S == {i \in DOMAIN rungs : rungs[i].on}
<1>1. DOMAIN rungs = 1..7
  <2>1. PICK a, b, c, d, e, f, g : rungs = <<a, b, c, d, e, f, g>>
    BY ZenonT(60) DEF Ladder
  <2>. HIDE DEF rungs
  <2>. QED
    BY <2>1, SevenRungs
<1>. HIDE DEF rungs
<1>2. S \in SUBSET Nat /\ k \in S /\ \A j \in S : k <= j
  BY <1>1 DEF rungs
<1>3. Min(S) = k
  <2>. HIDE DEF S
  <2>. QED
    BY <1>2, LeastIs
<1>. QED
  BY <1>3 DEF Decision, rungs

LEMMA Rungs ==
    ASSUME NEW text, NEW to, NEW people
    PROVE  LET rungs == Ladder(text, to, people)
               mentioned == {a \in RoomAgents : Mentioned(a, text)}
               named == {a \in RoomAgents : Named(a, text)}
               interested == {a \in RoomAgents : Interested(a, text)}
           IN  /\ rungs[1].on <=> to \cap RoomAgents # {}
               /\ rungs[2].on <=> mentioned # {}
               /\ rungs[3].on <=> named # {}
               /\ rungs[4].on <=> people \cap (TokensOf(text) \cup MentionsOf(text)) # {}
               /\ rungs[5].on <=> interested # {}
               /\ rungs[6].on <=> Chatter(text)
               /\ rungs[7].on
               /\ rungs[1].agents = to \cap RoomAgents
               /\ rungs[2].agents = mentioned
               /\ rungs[3].agents = named
               /\ rungs[4].agents = {}
               /\ rungs[5].agents = interested
               /\ rungs[6].agents = {}
               /\ rungs[7].agents = RoomAgents
BY DEF Ladder

LEMMA Asked ==
    ASSUME NEW text, NEW to, NEW people
    PROVE  RightlyWoken(Decision(text, to, people).agents, text, to, people)
<1>. DEFINE r == Ladder(text, to, people)
            woken == Decision(text, to, people).agents
            addressed == to \cap RoomAgents
            mentioned == {a \in RoomAgents : Mentioned(a, text)}
            named == {a \in RoomAgents : Named(a, text)}
            interested == {a \in RoomAgents : Interested(a, text)}
            person == people \cap (TokensOf(text) \cup MentionsOf(text)) # {}
            keen == {a \in RoomAgents : Interests[a] \cap TokensOf(text) # {}}
            hailed == Called(MentionsOf(text))
            spoken == Called(TokensOf(text))
<1>1. /\ (r[1].on <=> addressed # {}) /\ (r[2].on <=> mentioned # {}) /\ (r[3].on <=> named # {})
      /\ (r[4].on <=> person) /\ (r[5].on <=> interested # {}) /\ (r[6].on <=> Chatter(text)) /\ r[7].on
      /\ r[1].agents = addressed /\ r[2].agents = mentioned /\ r[3].agents = named /\ r[4].agents = {}
      /\ r[5].agents = interested /\ r[6].agents = {} /\ r[7].agents = RoomAgents
  BY Rungs
<1>2. \A k \in 1..7 : r[k].on /\ (\A j \in 1..k - 1 : ~r[j].on) => woken = r[k].agents
  BY FirstRung
<1>3. /\ mentioned = hailed
      /\ hailed = {} => named = spoken
      /\ hailed = {} /\ spoken = {} => interested = keen
  <2>1. \A a \in RoomAgents : (a \in mentioned <=> a \in hailed)
    BY DEF Mentioned, Called
  <2>2. \A a \in RoomAgents : a \in named <=> a \notin hailed /\ a \in spoken
    BY DEF Mentioned, Named, Called
  <2>3. \A a \in RoomAgents : a \in interested <=> a \notin hailed /\ a \notin spoken /\ a \in keen
    BY DEF Interested, Called
  <2>. QED
    BY <2>1, <2>2, <2>3 DEF Called
<1>4. person <=> \E p \in people : p \in TokensOf(text) \cup MentionsOf(text)
  OBVIOUS
<1>. HIDE DEF r, woken, mentioned, named, interested, person, keen, hailed, spoken, addressed
<1>5. /\ r[1].on => woken = r[1].agents
      /\ ~r[1].on /\ r[2].on => woken = r[2].agents
      /\ ~r[1].on /\ ~r[2].on /\ r[3].on => woken = r[3].agents
      /\ ~r[1].on /\ ~r[2].on /\ ~r[3].on /\ r[4].on => woken = r[4].agents
      /\ ~r[1].on /\ ~r[2].on /\ ~r[3].on /\ ~r[4].on /\ r[5].on => woken = r[5].agents
      /\ ~r[1].on /\ ~r[2].on /\ ~r[3].on /\ ~r[4].on /\ ~r[5].on /\ r[6].on => woken = r[6].agents
      /\ ~r[1].on /\ ~r[2].on /\ ~r[3].on /\ ~r[4].on /\ ~r[5].on /\ ~r[6].on => woken = r[7].agents
  <2>1. 1..0 = {} /\ 1..1 = {1} /\ 1..2 = {1, 2} /\ 1..3 = {1, 2, 3} /\ 1..4 = {1, 2, 3, 4}
        /\ 1..5 = {1, 2, 3, 4, 5} /\ 1..6 = {1, 2, 3, 4, 5, 6} /\ 1..7 = {1, 2, 3, 4, 5, 6, 7}
    OBVIOUS
  <2>2. r[1].on => woken = r[1].agents
    BY <1>2
  <2>3. ~r[1].on /\ r[2].on => woken = r[2].agents
    BY <1>2
  <2>4. ~r[1].on /\ ~r[2].on /\ r[3].on => woken = r[3].agents
    BY <1>2, <2>1
  <2>5. ~r[1].on /\ ~r[2].on /\ ~r[3].on /\ r[4].on => woken = r[4].agents
    BY <1>2, <2>1
  <2>6. ~r[1].on /\ ~r[2].on /\ ~r[3].on /\ ~r[4].on /\ r[5].on => woken = r[5].agents
    BY <1>2, <2>1
  <2>7. ~r[1].on /\ ~r[2].on /\ ~r[3].on /\ ~r[4].on /\ ~r[5].on /\ r[6].on => woken = r[6].agents
    BY <1>2, <2>1
  <2>8. ~r[1].on /\ ~r[2].on /\ ~r[3].on /\ ~r[4].on /\ ~r[5].on /\ ~r[6].on => woken = r[7].agents
    BY <1>1, <1>2, <2>1
  <2>. QED
    BY <2>2, <2>3, <2>4, <2>5, <2>6, <2>7, <2>8
<1>6. /\ addressed # {} => woken = addressed
      /\ addressed = {} /\ hailed # {} => woken = hailed
      /\ addressed = {} /\ hailed = {} /\ spoken # {} => woken = spoken
      /\ addressed = {} /\ hailed = {} /\ spoken = {} =>
            IF person THEN woken = {}
            ELSE IF keen # {} THEN woken = keen
            ELSE woken = IF Chatter(text) THEN {} ELSE RoomAgents
  BY <1>1, <1>3, <1>5
<1>7. addressed \cup hailed \cup spoken = {} => addressed = {} /\ hailed = {} /\ spoken = {}
  OBVIOUS
<1>. QED
  BY <1>4, <1>6, <1>7 DEF RightlyWoken, addressed, hailed, spoken, keen, woken

(* Who answers is who was asked, as the guide says it, for every room, its  *)
(* agents and their interests, and every text (who_wakes, Manager::submit). *)
THEOREM AskedAnswer == TalkSpec => []WakesWhoIsAsked
<1>. DEFINE Inv == accepted = speakers /\ WakesWhoIsAsked
<1>1. TalkInit => Inv
  BY DEF TalkInit, WakesWhoIsAsked, Silent
<1>2. Inv /\ [TalkNext]_talk => Inv'
  <2>1. ASSUME Inv, NEW author, NEW text, NEW to, NEW stored \in BOOLEAN,
               Submit(author, text, to, stored)
        PROVE  Inv'
    <3>1. CASE stored
      <4>1. /\ accepted' = speakers' /\ accepted' = speakers \cup {author}
            /\ last' = [text |-> text, to |-> to,
                        agents |-> Decision(text, to, speakers \cup {author}).agents,
                        why |-> Decision(text, to, speakers \cup {author}).why]
        BY <2>1, <3>1 DEF Submit
      <4>2. RightlyWoken(last'.agents, last'.text, last'.to, accepted')
        BY <4>1, Asked
      <4>. QED
        BY <4>1, <4>2 DEF WakesWhoIsAsked
    <3>2. CASE ~stored
      <4>1. UNCHANGED <<accepted, last, speakers>>
        BY <2>1, <3>2 DEF Submit
      <4>. QED
        BY <2>1, <4>1 DEF WakesWhoIsAsked
    <3>. QED
      BY <3>1, <3>2
  <2>2. ASSUME Inv, UNCHANGED talk PROVE Inv'
    BY <2>2 DEF talk, WakesWhoIsAsked
  <2>. QED
    BY <2>1, <2>2 DEF TalkNext
<1>. QED
  BY <1>1, <1>2, PTL DEF TalkSpec

(***************************************************************************)
(* What check says of a turn (HttpTurn).                                    *)
(***************************************************************************)

(* A green check has happened once as a room's turn will, whatever the body *)
(* and the connector (check, run_turn).                                     *)
THEOREM GreenIsSpoken == TurnSpec => []CheckForetells
<1>1. CheckForetells
  <2>. DEFINE parts == reader.parts
              said == Output(parts)
  <2>1. parts = <<>> => said = <<>>
    <3>1. SUFFICES ASSUME parts = <<>> PROVE said = <<>>
      OBVIOUS
    <3>2. PICK texts : /\ texts = [k \in DOMAIN parts |->
                                     IF parts[k].kind # "text" THEN <<>>
                                     ELSE IF parts[k].joined THEN <<"nl">> \o parts[k].text
                                     ELSE parts[k].text]
                       /\ said = FlattenSeq(texts)
      BY DEF Output
    <3>3. texts = <<>>
      BY <3>1, <3>2
    <3>. QED
      BY <3>2, <3>3 DEF FlattenSeq
  <2>2. said = <<>> => IsBlankText(said)
    BY DEF IsBlankText
  <2>. HIDE DEF said, parts
  <2>3. CheckResult.ok <=> at = "ok" /\ (HasErrors(parts) => said # <<>>)
    BY DEF CheckResult, parts, said
  <2>4. CheckResult.warnings \subseteq {"error alongside"} <=>
           (at = "ok" => parts # <<>> /\ said # <<>>)
    <3>1. \A w \in Warnings : w \in CheckResult.warnings <=> at = "ok" /\ Warns(w, parts)
      BY DEF CheckResult, parts
    <3>2. CheckResult.warnings \subseteq Warnings
      BY DEF CheckResult
    <3>3. (Warns("no parts", parts) <=> parts = <<>>)
          /\ (Warns("no text", parts) <=> parts # <<>> /\ said = <<>>)
      BY DEF Warns, said
    <3>. QED
      BY <2>1, <3>1, <3>2, <3>3 DEF Warnings
  <2>5. (RoomTurn.state = "done" /\ ~RoomTurn.empty) <=> at = "ok" /\ ~IsBlankText(said)
    BY DEF RoomTurn, said, parts
  <2>. QED
    BY <2>1, <2>2, <2>3, <2>4, <2>5 DEF CheckForetells, said, parts
<1>. QED
  BY <1>1, PTL
=============================================================================
