----------------------------- MODULE MCHttpTurn -----------------------------
(***************************************************************************)
(* The rules by which a message finds its agents and an agent's response    *)
(* becomes parts, on small inputs: a behaviour is a conversation (WhoWakes) *)
(* or the turn of an HTTP agent (HttpTurn), each of every input.            *)
(***************************************************************************)
EXTENDS WhoWakes, HttpTurn, TLC

Strings(symbols, n) == UNION {[1..k -> symbols] : k \in 0..n}
SomeBodies == Strings({"data:", "nl", "t"}, 5)
                 \cup Strings({"nl", "tt", "n", "q", "e"}, 3)
                 \cup {<<"data:", x>> \o s : x \in {"[DONE]", "tt", "e"},
                                            s \in Strings({"data:", "nl", "t", "field"}, 3)}
SomeResponses == {[error |-> s, when |-> s, text |-> t, join |-> j] : s, t, j \in BOOLEAN}

Claude == <<"claude", "code">>
Codex == <<"codex">>
Arsh == <<"arsh">>
Pia == <<"pia">>
TwoAgents == {Claude, Codex}
TwoPeople == {Arsh, Pia}
TheirInterests == (Claude :> {<<"repo">>}) @@ (Codex :> {<<"repo">>, <<"cost">>})
Thanks == {<<"thanks">>}
Items == {<<"word", <<"claude">>>>, <<"at", <<"claude">>>>, <<"mail", Codex>>,
          <<"word", <<"code">>>>, <<"word", Arsh>>, <<"at", Pia>>,
          <<"word", <<"repo">>>>, <<"word", <<"cost">>>>, <<"word", <<"thanks">>>>}
SomeTexts == {[items |-> S, question |-> q] :
                 S \in {T \in SUBSET Items : Cardinality(T) <= 2}, q \in {FALSE}}
                 \cup {[items |-> S, question |-> TRUE] : S \in {{}, {<<"word", <<"thanks">>>>}}}
SomeAddressees == {{}, {Claude}, {Codex, Claude}, {Codex, Arsh}}

Init ==
    \/ TurnInit /\ TalkInit
    \/ /\ TalkInit /\ at = "ok" /\ format = "none" /\ body = <<>> /\ arrived = 0
       /\ response = [error |-> FALSE, when |-> FALSE, text |-> FALSE, join |-> FALSE]
       /\ reader = [line |-> <<>>, data |-> <<>>, parts |-> <<>>]

Next ==
    \/ TurnNext /\ UNCHANGED talk
    \/ format = "none" /\ TalkNext /\ UNCHANGED turnVars

Spec == Init /\ [][Next]_<<talk, turnVars>>
=============================================================================
