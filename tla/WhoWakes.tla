------------------------------ MODULE WhoWakes ------------------------------
(***************************************************************************)
(* Who answers a message: the ladder of src/session/wake.rs, and the room's *)
(* people, whom Manager::submit learns by hearing them speak.               *)
(*                                                                         *)
(* A name is the sequence of its parts at separators (claude-code is two).  *)
(* A text is a set of items, <<kind, name>>: a "word"; an "at", the name    *)
(* after an @ sign; or a "mail", the host of an address, which is taken out *)
(* of the words but is still a name after an @ sign.  A question mark is a  *)
(* flag of its own.  In which order agents and people are listed decides    *)
(* nothing, and they are sets.                                              *)
(***************************************************************************)
EXTENDS Naturals, Sequences, FiniteSets, FiniteSetsExt

CONSTANTS
    RoomAgents,         (* the agents' names                                *)
    People,             (* the authors, by the names they go by             *)
    Interests,          (* of each agent, the words of its `interests`      *)
    Small,              (* the words of acknowledgements                    *)
    Texts,              (* [items, question] *)
    Addressees,         (* what `to` may be                                 *)
    MaxTalk             (* messages, the refused ones included              *)

VARIABLES
    speakers,           (* Session.speakers                                 *)
    last,               (* the last message and the decision on it          *)
    accepted, told      (* history: the authors of the messages in the log, *)
                        (* and how many messages there were                 *)

talk == <<speakers, last, accepted, told>>

(* names_for: the name, and its prefixes at a separator.                    *)
NamesFor(agent) == {SubSeq(agent, 1, k) : k \in 1..Len(agent)}
(* tokens and mentions. *)
TokensOf(text) == {i[2] : i \in {j \in text.items : j[1] \in {"word", "at"}}}
MentionsOf(text) == {i[2] : i \in {j \in text.items : j[1] \in {"at", "mail"}}}
(* chatter: nothing but acknowledgements, and no question. *)
Chatter(text) ==
    ~text.question /\ \A i \in text.items : i[1] # "mail" /\ i[2] \in Small

Mentioned(a, text) == NamesFor(a) \cap MentionsOf(text) # {}
Named(a, text) == ~Mentioned(a, text) /\ NamesFor(a) \cap TokensOf(text) # {}
Interested(a, text) ==
    /\ NamesFor(a) \cap (MentionsOf(text) \cup TokensOf(text)) = {}
    /\ Interests[a] \cap TokensOf(text) # {}

(* A slip: people are looked for after interests. *)
LadderInterestFirst(text, to, people) ==
    LET addressed == to \cap RoomAgents
        mentioned == {a \in RoomAgents : Mentioned(a, text)}
        named == {a \in RoomAgents : Named(a, text)}
        interested == {a \in RoomAgents : Interested(a, text)}
        forPerson == people \cap (TokensOf(text) \cup MentionsOf(text)) # {}
    IN  <<[on |-> addressed # {}, agents |-> addressed, why |-> "addressed"],
          [on |-> mentioned # {}, agents |-> mentioned, why |-> "mentioned"],
          [on |-> named # {}, agents |-> named, why |-> "named"],
          [on |-> interested # {}, agents |-> interested, why |-> "interest"],
          [on |-> forPerson, agents |-> {}, why |-> "for"],
          [on |-> Chatter(text), agents |-> {}, why |-> "chatter"],
          [on |-> TRUE, agents |-> RoomAgents, why |-> "open to the room"]>>

(* The rungs of the ladder, in order. *)
Ladder(text, to, people) ==
    LET addressed == to \cap RoomAgents
        mentioned == {a \in RoomAgents : Mentioned(a, text)}
        named == {a \in RoomAgents : Named(a, text)}
        interested == {a \in RoomAgents : Interested(a, text)}
        forPerson == people \cap (TokensOf(text) \cup MentionsOf(text)) # {}
    IN  <<[on |-> addressed # {}, agents |-> addressed, why |-> "addressed"],
          [on |-> mentioned # {}, agents |-> mentioned, why |-> "mentioned"],
          [on |-> named # {}, agents |-> named, why |-> "named"],
          [on |-> forPerson, agents |-> {}, why |-> "for"],
          [on |-> interested # {}, agents |-> interested, why |-> "interest"],
          [on |-> Chatter(text), agents |-> {}, why |-> "chatter"],
          [on |-> TRUE, agents |-> RoomAgents, why |-> "open to the room"]>>

(* who_wakes: the first rung that holds. *)
Decision(text, to, people) ==
    LET rungs == Ladder(text, to, people)
    IN  rungs[Min({i \in DOMAIN rungs : rungs[i].on})]

Silent == [text |-> [items |-> {}, question |-> FALSE], to |-> {}, agents |-> {}, why |-> "none"]

TalkInit == speakers = {} /\ last = Silent /\ accepted = {} /\ told = 0

(* Manager::submit: the author is a speaker, the decision is made, and if   *)
(* the message cannot be stored a new speaker is forgotten again.           *)
Submit(author, text, to, stored) ==
    LET people == speakers \cup {author}
        decision == Decision(text, to, people)
    IN  /\ speakers' = IF stored \/ author \in speakers THEN people ELSE people \ {author}
        /\ accepted' = IF stored THEN accepted \cup {author} ELSE accepted
        /\ last' = IF stored THEN [text |-> text, to |-> to, agents |-> decision.agents,
                                   why |-> decision.why]
                   ELSE last

TalkNext ==
    /\ told < MaxTalk /\ told' = told + 1
    /\ \E author \in People, text \in Texts, to \in Addressees, stored \in BOOLEAN :
        Submit(author, text, to, stored)

TalkSpec == TalkInit /\ [][TalkNext]_talk

-----------------------------------------------------------------------------
(* Whom a message asks, said without a ladder.                              *)
Called(names) == {a \in RoomAgents : NamesFor(a) \cap names # {}}
RightlyWoken(woken, text, addressed, people) ==
    LET to == addressed \cap RoomAgents
        hailed == Called(MentionsOf(text))
        spoken == Called(TokensOf(text))
        keen == {a \in RoomAgents : Interests[a] \cap TokensOf(text) # {}}
    IN  /\ to # {} => woken = to
        /\ to = {} /\ hailed # {} => woken = hailed
        /\ to = {} /\ hailed = {} /\ spoken # {} => woken = spoken
        /\ to \cup hailed \cup spoken = {} =>
              IF \E p \in people : p \in TokensOf(text) \cup MentionsOf(text) THEN woken = {}
              ELSE IF keen # {} THEN woken = keen
              ELSE woken = IF Chatter(text) THEN {} ELSE RoomAgents

(* The decision is the one the guide describes (docs/integrating.md, "Who   *)
(* answers"): an agent that is called answers, and nobody who is not called *)
(* answers beside it; the message for a person who has spoken, and the      *)
(* acknowledgement, are nobody's unless an agent is called; an interest is  *)
(* worth less than a person and more than chatter; and a message with none  *)
(* of these is everyone's (who_wakes).                                      *)
WakesWhoIsAsked ==
    last.why # "none" => RightlyWoken(last.agents, last.text, last.to, accepted)
=============================================================================
