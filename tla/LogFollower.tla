---------------------------- MODULE LogFollower ----------------------------
(***************************************************************************)
(* What openapi.yaml promises of GET /v1/sessions/{id}/stream: a client    *)
(* replays the room's log from its start and then follows it, and however  *)
(* often it reconnects it loses nothing. EventStream implements this as    *)
(* long as the events of a room are sent in the order they were stored.    *)
(***************************************************************************)
EXTENDS Naturals, Sequences

CONSTANTS
    Clients,   (* those who follow the room *)
    MaxEvents  (* bound: events accepted    *)

VARIABLES
    accepted,  \* events the room's log holds: they are 1..accepted
    got        \* per client, the events it has received, in order

vars == <<accepted, got>>

Init == accepted = 0 /\ got = [c \in Clients |-> <<>>]

Accept ==
    /\ accepted < MaxEvents
    /\ accepted' = accepted + 1
    /\ UNCHANGED got

(* The next event, and no other. *)
Receive(c) ==
    /\ Len(got[c]) < accepted
    /\ got' = [got EXCEPT ![c] = Append(@, Len(@) + 1)]
    /\ UNCHANGED accepted

Next == Accept \/ \E c \in Clients : Receive(c)

(* A client that follows receives in the end whatever was accepted. *)
Spec == Init /\ [][Next]_vars /\ \A c \in Clients : WF_vars(Receive(c))
=============================================================================
