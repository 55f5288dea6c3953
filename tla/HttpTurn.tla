------------------------------ MODULE HttpTurn ------------------------------
(***************************************************************************)
(* A turn of an HTTP agent (src/connector/executor.rs): the request that    *)
(* opens its session, if it has one, the request of the turn, the response  *)
(* that arrives in pieces cut anywhere, the parts that are emitted from it  *)
(* while it arrives, and what `check` and a room make of them.              *)
(*                                                                         *)
(* A body is a sequence of symbols.  "nl" ends a line; "data:" begins a     *)
(* field of a server-sent event; "field" is another field or a comment; the *)
(* members of Json are JSON values, told apart by what the connector's      *)
(* selectors find in them: one text ("t"), two ("tt"), none ("n"), an error *)
(* ("e"), or an item `when` leaves out ("q"); "[DONE]" is that word.  Blank *)
(* characters are left out.                                                 *)
(***************************************************************************)
EXTENDS Naturals, Sequences, SequencesExt

CONSTANTS
    Formats,        (* of {"sse", "ndjson", "json"}                          *)
    Responses,      (* [error, when, text, join : BOOLEAN]: what is selected *)
    Bodies,
    ItemLimit,      (* STREAM_ITEM_LIMIT, in symbols                         *)
    BodyLimit       (* JSON_LIMIT                                            *)

ASSUME HttpTurnAssumption ==
    /\ Formats \subseteq {"sse", "ndjson", "json"} /\ {ItemLimit, BodyLimit} \subseteq Nat
    /\ Responses \subseteq [error : BOOLEAN, when : BOOLEAN, text : BOOLEAN, join : BOOLEAN]

VARIABLES
    format, response, body,     (* the connector, and what the agent sends  *)
    at,                         (* "opening", "sending", "reading", "ok" or *)
                                (* "failed"                                 *)
    arrived,                    (* symbols of the body so far               *)
    reader                      (* [line, data, parts]                      *)

turnVars == <<format, response, body, at, arrived, reader>>

Json == {"t", "tt", "n", "e", "q"}

-----------------------------------------------------------------------------
Part(kind, text) == [kind |-> kind, text |-> text, joined |-> FALSE]

(* emit_payload: what is not JSON is text as it stands; an error first, then *)
(* what `when` leaves out, then the texts, and without any an activity.      *)
TextsOf(value, rs) ==
    IF value = "n" THEN <<>>
    ELSE IF ~rs.text THEN <<Part("text", <<value>>)>>
    ELSE CASE value = "tt" -> <<Part("text", <<"t">>), Part("text", <<"t">>)>>
           [] value = "e" -> <<>>
           [] OTHER -> <<Part("text", <<"t">>)>>
Payload(payload, rs) ==
    LET solid == SelectSeq(payload, LAMBDA x : x # "nl") IN
    IF Len(solid) # 1 \/ solid[1] \notin Json THEN <<Part("text", payload)>>
    ELSE LET value == solid[1] IN
         IF rs.error /\ value = "e" THEN <<Part("error", payload)>>
         ELSE IF rs.when /\ value = "q" THEN <<Part("activity", <<>>)>>
         ELSE IF TextsOf(value, rs) = <<>> THEN <<Part("activity", <<>>)>>
         ELSE TextsOf(value, rs)

(* joined_emit: the separator goes before every text after the first.       *)
Emit(parts, part, rs) ==
    LET spoken == \E k \in DOMAIN parts : parts[k].kind = "text"
    IN  Append(parts, [part EXCEPT !.joined = rs.join /\ part.kind = "text" /\ spoken])
EmitAll(parts, more, rs) == FoldLeft(LAMBDA ps, p : Emit(ps, p, rs), parts, more)

-----------------------------------------------------------------------------
Lines(data) == FoldLeft(LAMBDA s, d : IF s = <<"none">> THEN d ELSE s \o <<"nl">> \o d,
                        <<"none">>, data)

(* flush_sse: the event's data lines are one payload. *)
Flush(r, rs) ==
    IF r.data = <<>> THEN r
    ELSE [r EXCEPT !.data = <<>>,
                   !.parts = IF Lines(r.data) \in {<<>>, <<"[DONE]">>} THEN @
                             ELSE EmitAll(@, Payload(Lines(r.data), rs), rs)]

(* A line is complete: read_sse and read_ndjson. *)
EndLine(r, fmt, rs) ==
    LET done == [r EXCEPT !.line = <<>>] IN
    IF fmt = "ndjson"
    THEN IF r.line = <<>> THEN done
         ELSE [done EXCEPT !.parts = EmitAll(@, Payload(r.line, rs), rs)]
    ELSE IF r.line = <<>> THEN Flush(done, rs)
    ELSE IF Head(r.line) = "data:" THEN [done EXCEPT !.data = Append(@, Tail(r.line))]
    ELSE done

(* What arrives is kept until its line is complete; read_json keeps it all. *)
Take(r, symbol, fmt, rs) ==
    IF symbol # "nl" \/ fmt = "json" THEN [r EXCEPT !.line = Append(@, symbol)]
    ELSE EndLine(r, fmt, rs)

(* The stream ends: a line without its newline counts for NDJSON and is     *)
(* lost for SSE, whose pending event is flushed.                            *)
AtEnd(r, fmt, rs) ==
    IF fmt = "sse" THEN Flush(r, rs)
    ELSE IF \A k \in DOMAIN r.line : r.line[k] = "nl" THEN r
    ELSE [r EXCEPT !.line = <<>>, !.parts = EmitAll(@, Payload(r.line, rs), rs)]

-----------------------------------------------------------------------------
TurnInit ==
    /\ format \in Formats /\ response \in Responses /\ body \in Bodies
    /\ at \in {"opening", "sending"} /\ arrived = 0
    /\ reader = [line |-> <<>>, data |-> <<>>, parts |-> <<>>]

(* open: the request, its status and its length.  What is captured from the *)
(* answer is only rendered into later requests.                             *)
Open ==
    /\ at = "opening" /\ at' \in {"sending", "failed"}
    /\ UNCHANGED <<format, response, body, arrived, reader>>

(* send, and the status: anything but success fails the turn. *)
Send ==
    /\ at = "sending" /\ at' \in {"reading", "failed"}
    /\ UNCHANGED <<format, response, body, arrived, reader>>

TooLong(r) == Len(r.line) > IF format = "json" THEN BodyLimit ELSE ItemLimit

(* A slip: of a piece that ends within a line, the rest is thrown away. *)
ChunkCut(n) ==
    /\ at = "reading" /\ arrived + n <= Len(body)
    /\ arrived' = arrived + n
    /\ LET r == FoldLeft(LAMBDA s, x : Take(s, x, format, response), reader,
                         SubSeq(body, arrived + 1, arrived + n))
       IN  /\ reader' = IF format = "json" THEN r ELSE [r EXCEPT !.line = <<>>]
           /\ at' = IF TooLong(r) THEN "failed" ELSE at
    /\ UNCHANGED <<format, response, body>>

(* The next n symbols arrive at once. *)
Chunk(n) ==
    /\ at = "reading" /\ arrived + n <= Len(body)
    /\ arrived' = arrived + n
    /\ LET r == FoldLeft(LAMBDA s, x : Take(s, x, format, response), reader,
                         SubSeq(body, arrived + 1, arrived + n))
       IN  reader' = r /\ at' = IF TooLong(r) THEN "failed" ELSE at
    /\ UNCHANGED <<format, response, body>>

EndOfBody ==
    /\ at = "reading" /\ arrived = Len(body)
    /\ at' = "ok" /\ reader' = AtEnd(reader, format, response)
    /\ UNCHANGED <<format, response, body, arrived>>

(* The connection breaks, or the connector's timeout passes. *)
Break ==
    /\ at = "reading" /\ at' = "failed"
    /\ UNCHANGED <<format, response, body, arrived, reader>>

TurnNext == Open \/ Send \/ (\E n \in 1..Len(body) : Chunk(n)) \/ EndOfBody \/ Break

TurnSpec == TurnInit /\ [][TurnNext]_turnVars

-----------------------------------------------------------------------------
(* The text of the parts.  The separator is blank, as in the connectors.    *)
Output(parts) ==
    FlattenSeq([k \in DOMAIN parts |->
        IF parts[k].kind # "text" THEN <<>>
        ELSE IF parts[k].joined THEN <<"nl">> \o parts[k].text ELSE parts[k].text])
IsBlankText(text) == \A k \in DOMAIN text : text[k] = "nl"
HasErrors(parts) == \E k \in DOMAIN parts : parts[k].kind = "error" /\ ~IsBlankText(parts[k].text)

Warnings == {"no parts", "no text", "error alongside"}

(* A slip: parts without a text pass for an answer. *)
WarnsOfParts(w, parts) ==
    CASE w = "no parts" -> parts = <<>>
      [] w = "no text" -> FALSE
      [] OTHER -> HasErrors(parts) /\ Output(parts) # <<>>

Warns(w, parts) ==
    CASE w = "no parts" -> parts = <<>>
      [] w = "no text" -> parts # <<>> /\ Output(parts) = <<>>
      [] OTHER -> HasErrors(parts) /\ Output(parts) # <<>>

(* check: a turn that fails, or brings an error and no text, is not ok; one *)
(* that ends is warned of.  Warnings of form are left out.                  *)
CheckResult ==
    [ok |-> at = "ok" /\ (HasErrors(reader.parts) => Output(reader.parts) # <<>>),
     warnings |-> {w \in Warnings : at = "ok" /\ Warns(w, reader.parts)}]

(* run_turn, given the same response; it logs turn.empty beside turn.finished. *)
RoomTurn ==
    [state |-> IF at = "ok" THEN "done" ELSE "failed",
     empty |-> at = "ok" /\ IsBlankText(Output(reader.parts))]

-----------------------------------------------------------------------------
(* What a body means, said of the body as a whole.                          *)
Ends(b) == {i \in DOMAIN b : b[i] = "nl"}
Before(b, i) == {j \in Ends(b) : j < i}
LineAt(b, i) ==      (* the line that ends at i *)
    LET j == IF Before(b, i) = {} THEN 0 ELSE CHOOSE k \in Before(b, i) : \A l \in Before(b, i) : l <= k
    IN  SubSeq(b, j + 1, i - 1)
IsBlank(b, i) == i \in Ends(b) /\ LineAt(b, i) = <<>>
IsData(b, i) == i \in Ends(b) /\ LineAt(b, i) # <<>> /\ Head(LineAt(b, i)) = "data:"
Ascending(b, S) == SelectSeq([i \in DOMAIN b |-> i], LAMBDA i : i \in S)
(* An event's data lines are those with no blank line between them; the     *)
(* event stands where its last one does.                                    *)
Together(b, i, j) == \A k \in i..j : ~IsBlank(b, k)
Closes(b, i) == IsData(b, i) /\ ~\E j \in i + 1..Len(b) : IsData(b, j) /\ Together(b, i, j)
EventAt(b, i) ==
    Lines([k \in DOMAIN Ascending(b, {j \in 1..i : IsData(b, j) /\ Together(b, j, i)}) |->
        Tail(LineAt(b, Ascending(b, {j \in 1..i : IsData(b, j) /\ Together(b, j, i)})[k]))])
Payloads(b, fmt) ==
    IF fmt = "json" THEN IF \E k \in DOMAIN b : b[k] # "nl" THEN <<b>> ELSE <<>>
    ELSE IF fmt = "ndjson"
    THEN LET c == b \o <<"nl">>
             full == Ascending(c, {i \in Ends(c) : ~IsBlank(c, i)})
         IN  [k \in DOMAIN full |-> LineAt(c, full[k])]
    ELSE LET closing == Ascending(b, {i \in DOMAIN b : Closes(b, i)})
         IN  SelectSeq([k \in DOMAIN closing |-> EventAt(b, closing[k])],
                       LAMBDA p : p \notin {<<>>, <<"[DONE]">>})
Said(b, fmt, rs) ==
    FoldLeft(LAMBDA ps, p : EmitAll(ps, Payload(p, rs), rs), <<>>, Payloads(b, fmt))

(* What a turn says does not depend on how its response was cut into        *)
(* pieces: at every moment the parts emitted are the first of those the     *)
(* whole body means, and a turn that ends well has emitted all of them,     *)
(* however the pieces fell on lines, events and separators (read_sse,       *)
(* flush_sse, read_ndjson, read_json, joined_emit).                         *)
PiecesDoNotMatter ==
    /\ IsPrefix(reader.parts, Said(body, format, response))
    /\ at = "ok" => reader.parts = Said(body, format, response)

(* check is green and does not say that nothing was said exactly when a     *)
(* room's turn with the same response ends well and speaks, so that what is *)
(* green has happened once as it will in a room, but for an answer of blank *)
(* text only, which check takes for text and a room reports as empty (check *)
(* and run_turn).                                                           *)
CheckForetells ==
    at \in {"ok", "failed"} =>
       LET green == CheckResult.ok /\ CheckResult.warnings \subseteq {"error alongside"}
           speaks == RoomTurn.state = "done" /\ ~RoomTurn.empty
           said == Output(reader.parts)
       IN  /\ speaks => green
           /\ green => speaks \/ (said # <<>> /\ IsBlankText(said))
=============================================================================
