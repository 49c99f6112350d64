----------------------------- MODULE ToolCalls -----------------------------
(***************************************************************************)
(* The assistant message that client_service makes of the events of a      *)
(* turn: the text, and the tool calls, each with the place in the text     *)
(* where it happened.  A text is a sequence of characters, " " the white   *)
(* space.  A status and a kind are kept alike, so one stands for both; an  *)
(* input is not: whatever is given, null included, takes its place.        *)
(***************************************************************************)
EXTENDS Options, Naturals, Sequences, FiniteSets, SequencesExt, FiniteSetsExt

\* the content of a message or of a tool call: ACP nests its blocks
RECURSIVE content_text(_)
content_text(content) ==
  CASE content[1] \in {"none", "null", "terminal"} -> <<>>
    [] content[1] \in {"string", "text"} -> content[2]
    [] content[1] = "content" -> content_text(content[2])
    [] content[1] = "array" -> FlattenSeq([i \in DOMAIN content[2] |-> content_text(content[2][i])])
    [] OTHER -> <<"json">>

\* an event: a part of the text, an error, a call, a result or an update of a call; a raw
\* input or output, a JSON value, may be there or not
Text(content) == [type |-> "chunk", content |-> content]
Failure(message) == [type |-> "session/error", content |-> <<"string", message>>]
LegacyCall(tool, input) == [type |-> "tool_call", tool |-> tool, rawInput |-> input]
LegacyResult(tool, output) == [type |-> "tool_result", tool |-> tool, output |-> output]
Update(id, title, status, content, delta) ==
  [type |-> "update", id |-> id, title |-> title, status |-> status,
   rawInput |-> None, rawOutput |-> None, content |-> content, delta |-> delta]

IsSpace(c) == c = " "
trim(text) ==
  LET solid == {i \in DOMAIN text : ~IsSpace(text[i])}
  IN  IF solid = {} THEN <<>> ELSE SubSeq(text, Min(solid), Max(solid))

trimmed_char_count(text) == Len(trim(text))

flatten_text(events) ==
  LET chunk(e) == IF e.type \in {"chunk", "session/error"} THEN content_text(e.content) ELSE <<>>
  IN  trim(FlattenSeq([i \in DOMAIN events |-> chunk(events[i])]))

\* a string is its own text, null is nothing, anything else is printed
json_string(value) ==
  CASE value[1] = "null" -> None
    [] value[1] = "string" -> Some(value[2])
    [] OTHER -> Some(<<"json">>)

\* a raw output, null or empty, goes before the content
tool_output(e) ==
  LET text == content_text(e.content)
  IN  IF e.rawOutput # None THEN json_string(Only(e.rawOutput))
      ELSE IF text = <<>> THEN None ELSE Some(text)

raw_input(e, was) == IF e.rawInput = None THEN was ELSE json_string(Only(e.rawInput))

\* get_or_insert_with, push_str
Pushed_lost(output, chunk) == IF output = None THEN None ELSE Some(Only(output) \o chunk)
Pushed(output, chunk) == Some((IF output = None THEN <<>> ELSE Only(output)) \o chunk)

Call(tool, id, offset) ==
  [tool |-> tool, id |-> id, status |-> "", input |-> None, output |-> None, offset |-> offset]

\* what one update changes in its call; an empty title or status changes nothing, an input
\* or an output may be null
Updated(call, e) ==
  LET full == tool_output(e)
      out  == IF full = None THEN call.output ELSE full
  IN  [call EXCEPT !.tool = IF e.title = "" THEN @ ELSE e.title,
                   !.status = IF e.status = "" THEN @ ELSE e.status,
                   !.input = raw_input(e, @),
                   !.output = IF e.delta = <<>> THEN out ELSE Pushed(out, e.delta)]

upsert_tool_call(calls, e, offset) ==
  LET known == {i \in DOMAIN calls : e.id # None /\ calls[i].id = e.id}
      name  == IF e.title # "" THEN e.title ELSE IF e.id # None THEN Only(e.id) ELSE "tool"
  IN  IF known = {} THEN Append(calls, Updated(Call(name, e.id, offset), e))
      ELSE LET i == Min(known) IN [calls EXCEPT ![i] = Updated(@, e)]

apply_legacy_tool_result(calls, e) ==
  LET open == {i \in DOMAIN calls : calls[i].tool = e.tool /\ calls[i].output = None}
  IN  IF open = {} \/ e.output = None THEN calls
      ELSE [calls EXCEPT ![Min(open)].output = e.output]

\* one event of the loop of extract_tool_calls
NextCall(seen, e) ==
  LET offset == trimmed_char_count(seen.content)
  IN  CASE e.type = "chunk" -> [seen EXCEPT !.content = @ \o content_text(e.content)]
        [] e.type = "tool_call" -> [seen EXCEPT !.calls = Append(@, [Call(e.tool, None, offset) EXCEPT !.input = raw_input(e, @)])]
        [] e.type = "tool_result" -> [seen EXCEPT !.calls = apply_legacy_tool_result(@, e)]
        [] e.type = "update" -> [seen EXCEPT !.calls = upsert_tool_call(@, e, offset)]
        [] OTHER -> seen

extract_tool_calls(events) ==
  FoldLeft(NextCall, [calls |-> <<>>, content |-> <<>>], events).calls

assistant_message_from_events(events) ==
  [content |-> flatten_text(events), tool_calls |-> extract_tool_calls(events)]

----------------------------------------------------------------------------
(* The same calls, said without the loop.                                   *)

\* the events that open a call, in their order
Openers(events) ==
  {i \in DOMAIN events :
     \/ events[i].type = "tool_call"
     \/ /\ events[i].type = "update"
        /\ \/ events[i].id = None
           \/ \A j \in 1..(i - 1) : events[j].type = "update" => events[j].id # events[i].id}

\* the events that speak of the call that event o opened
Mentions(events, o) ==
  IF events[o].id = None THEN {o}
  ELSE {i \in DOMAIN events : events[i].type = "update" /\ events[i].id = events[o].id}

\* the last of some events with a value that is not the empty one
LastOf(ms, F(_), empty) ==
  LET said == {i \in ms : F(i) # empty} IN IF said = {} THEN empty ELSE F(Max(said))

\* the output an update replaces all earlier ones by, as a set of at most one: its raw
\* output, unless that is null, and only without one its content, unless that is empty
Whole(e) ==
  IF e.rawOutput # None THEN Range(json_string(Only(e.rawOutput))) ELSE {content_text(e.content)} \ {<<>>}

\* the last full output, which may be empty, followed by every delta since
OutputOf(events, ms) ==
  LET full  == {i \in ms : Whole(events[i]) # {}}
      since == {i \in ms : \A f \in full : f <= i}
      base  == FlattenSeq(SetToSeq(UNION {Whole(events[i]) : i \in full \cap since}))
      parts == SetToSortSeq(since, <)
      text  == base \o FlattenSeq([k \in DOMAIN parts |-> events[parts[k]].delta])
  IN  IF full = {} /\ text = <<>> THEN None ELSE Some(text)

\* the last raw input: none at all, or one that is null, leaves the call without
InputOf(events, ms) ==
  LET given == {i \in ms : events[i].rawInput # None}
  IN  IF given = {} THEN None ELSE json_string(Only(events[Max(given)].rawInput))

\* results of a tool that found a call of it unanswered, among the first r events
AnsweredBy(events, tool) ==
  LET calls(r) == {i \in 1..r : events[i].type = "tool_call" /\ events[i].tool = tool}
      isResult(r) == events[r].type = "tool_result" /\ events[r].tool = tool /\ events[r].output # None
      count[r \in 0..Len(events)] ==
        IF r = 0 THEN 0
        ELSE IF isResult(r) /\ count[r - 1] < Cardinality(calls(r)) THEN count[r - 1] + 1
        ELSE count[r - 1]
  IN  count

LegacyOutput(events, o) ==
  LET tool == events[o].tool
      nth  == Cardinality({i \in 1..o : events[i].type = "tool_call" /\ events[i].tool = tool})
      done == {r \in DOMAIN events : AnsweredBy(events, tool)[r] = nth}
  IN  IF done = {} THEN None ELSE events[Min(done)].output

CallOf(events, o) ==
  LET e  == events[o]
      ms == Mentions(events, o)
      offset == Len(flatten_text(SubSeq(events, 1, o - 1)))
  IN  IF e.type = "tool_call"
      THEN [Call(e.tool, None, offset) EXCEPT !.input = InputOf(events, {o}),
                                              !.output = LegacyOutput(events, o)]
      ELSE LET title(i) == events[i].title
               status(i) == events[i].status
               said == LastOf(ms, title, "")
           IN  [tool   |-> IF said # "" THEN said ELSE IF e.id = None THEN "tool" ELSE Only(e.id),
                id     |-> e.id,
                status |-> LastOf(ms, status, ""),
                input  |-> InputOf(events, ms),
                output |-> OutputOf(events, ms),
                offset |-> offset]

CallsOf(events) ==
  LET os == SetToSortSeq(Openers(events), <) IN [k \in DOMAIN os |-> CallOf(events, os[k])]
=============================================================================
