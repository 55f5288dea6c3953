---------------------------- MODULE EventStream ----------------------------
(***************************************************************************)
(* How a room's events reach the clients that follow it: a store's append  *)
(* (src/events/mod.rs) numbers an event and, its lock released, sends it   *)
(* on one broadcast channel for all rooms; event_stream (src/api/mod.rs)   *)
(* subscribes, replays the log and then forwards the channel; follow_room  *)
(* (src/tui/app.rs) reconnects and resumes after the last event it saw.    *)
(*                                                                         *)
(* An event is its number: what it says is left out.                       *)
(***************************************************************************)
EXTENDS Integers, Sequences, FiniteSets

CONSTANTS
    Writers,         (* tasks that append: lanes and API calls             *)
    Rooms,           (* the rooms that share the channel                   *)
    Room,            (* the one the clients follow                         *)
    Clients,
    Capacity,        (* events the channel keeps (64 in the code)          *)
    MaxEvents,       (* bound: events of each room                         *)
    MaxDisconnects,  (* bound: connections lost                            *)
    MaxRestarts,     (* bound: times the server stops and is restarted     *)
    MaxFaults        (* bound: reads of the log that fail                  *)

ASSUME StreamAssumption ==
    /\ Room \in Rooms
    /\ Capacity \in Nat \ {0}
    /\ {MaxEvents, MaxDisconnects, MaxRestarts, MaxFaults} \subseteq Nat

VARIABLES
    stored,   \* per room, how many events its log holds: they are 1..stored
    held,     \* per writer, the event it has stored and not yet sent
    sent,     \* what the channel carried, oldest first: [room, seq]
    at,       \* per client, where its connection's event_stream is
    next,     \* per client, the position its receiver reads next
    last,     \* per client, event_stream's last
    upto,     \* per client, the last event of what it read from the log
    got,      \* per client, the events it has received, in order
    disconnects, restarts, faults

storeVars  == <<stored, held, sent>>
clientVars == <<at, next, last, upto, got>>
boundVars  == <<disconnects, restarts, faults>>
vars       == <<storeVars, clientVars, boundVars>>

NoEvent == [room |-> Room, seq |-> 0]

-----------------------------------------------------------------------------
(* The store.                                                              *)

(* Under the store's lock (or the room's counter row) the event is numbered *)
(* and kept.                                                                *)
Store(w, r) ==
    /\ held[w] = NoEvent
    /\ stored[r] < MaxEvents
    /\ stored' = [stored EXCEPT ![r] = @ + 1]
    /\ held' = [held EXCEPT ![w] = [room |-> r, seq |-> stored[r] + 1]]
    /\ UNCHANGED <<sent, clientVars, boundVars>>

(* Then, the lock released, it is sent: to whoever is subscribed by now.    *)
Send(w) ==
    /\ held[w] # NoEvent
    /\ sent' = Append(sent, held[w])
    /\ held' = [held EXCEPT ![w] = NoEvent]
    /\ UNCHANGED <<stored, clientVars, boundVars>>

-----------------------------------------------------------------------------
(* One connection.                                                         *)

(* What the client resumes after: the last event it saw. *)
Since(c) == IF got[c] = <<>> THEN 0 ELSE got[c][Len(got[c])]

(* The client connects; event_stream subscribes before it reads the log.    *)
Subscribe(c) ==
    /\ at[c] = "off"
    /\ at' = [at EXCEPT ![c] = "subscribed"]
    /\ next' = [next EXCEPT ![c] = Len(sent) + 1]
    /\ last' = [last EXCEPT ![c] = Since(c)]
    /\ UNCHANGED <<storeVars, upto, got, boundVars>>

(* Store::since for the replay. If it fails so does the request. *)
Backfill(c) ==
    /\ at[c] = "subscribed"
    /\ \/ /\ at' = [at EXCEPT ![c] = "replay"]
          /\ upto' = [upto EXCEPT ![c] = stored[Room]]
          /\ UNCHANGED faults
       \/ /\ faults < MaxFaults
          /\ faults' = faults + 1
          /\ at' = [at EXCEPT ![c] = "off"]
          /\ UNCHANGED upto
    /\ UNCHANGED <<storeVars, next, last, got, disconnects, restarts>>

Deliver(c, seq) ==
    /\ last' = [last EXCEPT ![c] = seq]
    /\ got' = [got EXCEPT ![c] = Append(@, seq)]

(* One event of those read from the log. *)
Replay(c) ==
    /\ at[c] = "replay"
    /\ last[c] < upto[c]
    /\ Deliver(c, last[c] + 1)
    /\ UNCHANGED <<storeVars, at, next, upto, boundVars>>

(* A slip: the receiver is only made once the replay is over. *)
SubscribedAfterReplay(c) ==
    /\ at[c] = "replay"
    /\ last[c] >= upto[c]
    /\ at' = [at EXCEPT ![c] = "live"]
    /\ next' = [next EXCEPT ![c] = Len(sent) + 1]
    /\ UNCHANGED <<storeVars, last, upto, got, boundVars>>

Replayed(c) ==
    /\ at[c] = "replay"
    /\ last[c] >= upto[c]
    /\ at' = [at EXCEPT ![c] = "live"]
    /\ UNCHANGED <<storeVars, next, last, upto, got, boundVars>>

(* The channel keeps its last Capacity events. *)
Oldest   == IF Len(sent) > Capacity THEN Len(sent) - Capacity + 1 ELSE 1
Lags(c)  == next[c] < Oldest

(* A slip: whatever comes from the channel is new. *)
IsAnyOfRoom(c, e) == e.room = Room

(* What a connection forwards: its room's events beyond what it has sent.   *)
IsNew(c, e) == e.room = Room /\ e.seq > last[c]

Receive(c) ==
    /\ at[c] = "live"
    /\ ~Lags(c)
    /\ next[c] <= Len(sent)
    /\ next' = [next EXCEPT ![c] = @ + 1]
    /\ IF IsNew(c, sent[next[c]])
       THEN Deliver(c, sent[next[c]].seq)
       ELSE UNCHANGED <<last, got>>
    /\ UNCHANGED <<storeVars, at, upto, boundVars>>

(* A receiver too far behind goes on at the oldest event the channel keeps  *)
(* and is told so: what it missed is read from the log.                     *)
Lagged(c) ==
    /\ at[c] = "live"
    /\ Lags(c)
    /\ next' = [next EXCEPT ![c] = Oldest]
    /\ at' = [at EXCEPT ![c] = "lagged"]
    /\ UNCHANGED <<storeVars, last, upto, got, boundVars>>

(* Store::since again, from the last event sent. An error is passed over.   *)
Refill(c) ==
    /\ at[c] = "lagged"
    /\ \/ /\ at' = [at EXCEPT ![c] = "replay"]
          /\ upto' = [upto EXCEPT ![c] = stored[Room]]
          /\ UNCHANGED faults
       \/ /\ faults < MaxFaults
          /\ faults' = faults + 1
          /\ at' = [at EXCEPT ![c] = "live"]
          /\ UNCHANGED upto
    /\ UNCHANGED <<storeVars, next, last, got, disconnects, restarts>>

-----------------------------------------------------------------------------
(* What goes wrong around it.                                              *)

Disconnect(c) ==
    /\ at[c] # "off"
    /\ disconnects < MaxDisconnects
    /\ disconnects' = disconnects + 1
    /\ at' = [at EXCEPT ![c] = "off"]
    /\ UNCHANGED <<storeVars, next, last, upto, got, restarts, faults>>

(* A durable store keeps the log; the channel, its receivers and what was   *)
(* not yet sent are gone.                                                   *)
Restart ==
    /\ restarts < MaxRestarts
    /\ restarts' = restarts + 1
    /\ held' = [w \in Writers |-> NoEvent]
    /\ sent' = <<>>
    /\ at' = [c \in Clients |-> "off"]
    /\ UNCHANGED <<stored, next, last, upto, got, disconnects, faults>>

-----------------------------------------------------------------------------
Init ==
    /\ stored = [r \in Rooms |-> 0]
    /\ held = [w \in Writers |-> NoEvent]
    /\ sent = <<>>
    /\ at = [c \in Clients |-> "off"]
    /\ next = [c \in Clients |-> 1]
    /\ last = [c \in Clients |-> 0]
    /\ upto = [c \in Clients |-> 0]
    /\ got = [c \in Clients |-> <<>>]
    /\ disconnects = 0 /\ restarts = 0 /\ faults = 0

ConnectionStep(c) ==
    \/ Backfill(c) \/ Replay(c) \/ Replayed(c)
    \/ Receive(c) \/ Lagged(c) \/ Refill(c)

Next ==
    \/ \E w \in Writers : Send(w) \/ \E r \in Rooms : Store(w, r)
    \/ \E c \in Clients : Subscribe(c) \/ ConnectionStep(c) \/ Disconnect(c)
    \/ Restart

Spec == Init /\ [][Next]_vars

(* An append runs to its end, the stream of a connection is polled as long  *)
(* as it has something to do, and follow_room connects again and again.     *)
Fairness ==
    /\ \A w \in Writers : WF_vars(Send(w))
    /\ \A c \in Clients : WF_vars(ConnectionStep(c)) /\ WF_vars(Subscribe(c))

FairSpec == Spec /\ Fairness
-----------------------------------------------------------------------------
(* Properties.                                                             *)

Event == [room : Rooms, seq : 0..MaxEvents]

(* Every variable holds what the code's types let it hold, and no receiver  *)
(* stands beyond the next event of the channel.                             *)
TypeOK ==
    /\ stored \in [Rooms -> 0..MaxEvents]
    /\ held \in [Writers -> Event]
    /\ sent \in Seq(Event)
    /\ at \in [Clients -> {"off", "subscribed", "replay", "live", "lagged"}]
    /\ next \in [Clients -> Nat \ {0}]
    /\ \A c \in Clients : at[c] # "off" => next[c] <= Len(sent) + 1
    /\ last \in [Clients -> 0..MaxEvents]
    /\ upto \in [Clients -> 0..MaxEvents]
    /\ got \in [Clients -> Seq(1..MaxEvents)]
    /\ disconnects \in Nat /\ restarts \in Nat /\ faults \in Nat

(* No client is shown an event twice, or an older one after a newer one,    *)
(* however replay, channel, lag, reconnections and restarts overlap and     *)
(* however the channel's order departs from the log's.                      *)
ShownOnceInOrder ==
    \A c \in Clients : \A j, k \in DOMAIN got[c] : j < k => got[c][j] < got[c][k]

(* As openapi.yaml:537 promises it, one client and one event at a time:     *)
(* each shown the next event of the log, and in the end all of them.        *)
Follower == INSTANCE LogFollower WITH accepted <- stored[Room], got <- got

FollowsLog == Follower!Spec
=============================================================================
