----------------------------- MODULE EventPipe -----------------------------
(***************************************************************************)
(* The events of one turn on their way from the kernel host through        *)
(* agent_host to client_service: JSON lines over two HTTP bodies, which    *)
(* the network cuts into chunks wherever it likes.  The two bytes of an    *)
(* event stand for all of them: what is cut between them is not an event.  *)
(***************************************************************************)
EXTENDS Naturals, Sequences, FiniteSets, FiniteSetsExt

CONSTANTS
  Forms,    \* how a line may look
  Turns     \* what a kernel may write, and the bounds on it: the events of its style, how
            \* many lines, how many odd ones or faults, how many bytes in flight before a
            \* writer waits, and whether the network cuts between any two bytes

VARIABLES
  kind,     \* which of the Turns this is
  written,  \* the lines of the kernel host
  wire,     \* bytes on the way: wire["kernel"] to agent_host, wire["host"] to client_service
  end,      \* of either body: open, closed in order, or broken
  buffer,   \* buffer of stream_message at agent_host, pending of AgentHostEventStream
  got,      \* the events that next_event returned, by the numbers of their lines
  outcome   \* of next_event: reading, done or failed

pipeVars == <<kind, written, wire, end, buffer, got, outcome>>

ASSUME FormsAssumption == Forms \subseteq {"lf", "crlf", "bare", "blank", "bad"}

NL == <<"\n">>
CR == <<"\r">>
Bytes(form, i) ==
  CASE form = "lf" -> <<<<i, 1>>, <<i, 2>>, NL>>
    [] form = "crlf" -> <<<<i, 1>>, <<i, 2>>, CR, NL>>
    [] form = "bare" -> <<<<i, 1>>, <<i, 2>>>>  \* the body ends without a newline
    [] form = "blank" -> <<NL>>
    [] form = "bad" -> <<<<"x">>, NL>>

PipeBegin(turn) ==
  /\ kind = turn
  /\ written = <<>> /\ got = <<>> /\ outcome = "reading"
  /\ wire = [h \in {"kernel", "host"} |-> <<>>]
  /\ buffer = [h \in {"kernel", "host"} |-> <<>>]
  /\ end = [h \in {"kernel", "host"} |-> "open"]

PipeInit == \E turn \in Turns : PipeBegin(turn)

Odd == Cardinality({i \in DOMAIN written : written[i].form # "lf"})

\* the kernel host writes a line
Write(form, event) ==
  /\ end["kernel"] = "open" /\ Len(written) < kind.lines /\ Len(wire["kernel"]) < kind.flight
  /\ form # "lf" => Odd < kind.odd
  /\ written' = Append(written, [form |-> form, event |-> event])
  /\ wire' = [wire EXCEPT !["kernel"] = @ \o Bytes(form, Len(written) + 1)]
  /\ end' = [end EXCEPT !["kernel"] = IF form = "bare" THEN "closed" ELSE "open"]
  /\ UNCHANGED <<kind, buffer, got, outcome>>

\* the turn is over, or the kernel dies with what it wrote half sent
KernelEnds ==
  /\ end["kernel"] = "open"
  /\ end' = [end EXCEPT !["kernel"] = "closed"]
  /\ UNCHANGED <<kind, written, wire, buffer, got, outcome>>

Cut(h) ==
  /\ end[h] = "open" /\ Odd < kind.odd
  /\ \E n \in 0..Len(wire[h]) : wire' = [wire EXCEPT ![h] = SubSeq(@, 1, n)]
  /\ end' = [end EXCEPT ![h] = "broken"]
  /\ UNCHANGED <<kind, written, buffer, got, outcome>>

----------------------------------------------------------------------------
(* Lines of a buffer.                                                       *)

Newlines(h) == {i \in DOMAIN buffer[h] : buffer[h][i] = NL}
next_buffered_line(h) == SubSeq(buffer[h], 1, Min(Newlines(h)) - 1)
Drained(h) == SubSeq(buffer[h], Min(Newlines(h)) + 1, Len(buffer[h]))

\* an event, nothing, or what is no JSON
parse_event_line(line) ==
  LET text == IF line # <<>> /\ line[Len(line)] = CR THEN SubSeq(line, 1, Len(line) - 1) ELSE line
  IN  IF text = <<>> THEN "nothing"
      ELSE IF \E i \in DOMAIN written : text = <<<<i, 1>>, <<i, 2>>>> THEN "event"
      ELSE "error"

Pieces(h) == IF kind.cuts THEN 1..Len(wire[h]) ELSE {Len(wire[h])}
\* a chunk arrives once the lines of the earlier ones are used up
Chunk_replaced(h) ==
  /\ Newlines(h) = {} /\ wire[h] # <<>>
  /\ \E n \in Pieces(h) :
       /\ buffer' = [buffer EXCEPT ![h] = SubSeq(wire[h], 1, n)]
       /\ wire' = [wire EXCEPT ![h] = SubSeq(@, n + 1, Len(@))]
  /\ UNCHANGED <<kind, written, end, got, outcome>>
Chunk(h) ==
  /\ Newlines(h) = {} /\ wire[h] # <<>>
  /\ \E n \in Pieces(h) :
       /\ buffer' = [buffer EXCEPT ![h] = @ \o SubSeq(wire[h], 1, n)]
       /\ wire' = [wire EXCEPT ![h] = SubSeq(@, n + 1, Len(@))]
  /\ UNCHANGED <<kind, written, end, got, outcome>>

ReadKernel == end["host"] = "open" /\ Len(wire["host"]) < kind.flight /\ Chunk("kernel")
ReadHost == outcome = "reading" /\ Chunk("host")

\* agent_host yields the event of a line, which its endpoint writes as a line again
Relay(line, rest, last) ==
  LET parsed == parse_event_line(line)
  IN  /\ buffer' = [buffer EXCEPT !["kernel"] = rest]
      /\ wire' = IF parsed = "event"
                 THEN [wire EXCEPT !["host"] = @ \o Bytes("lf", line[1][1])] ELSE wire
      /\ end' = [end EXCEPT !["host"] = IF parsed = "error" THEN "broken"
                                        ELSE IF last THEN "closed" ELSE "open"]
      /\ UNCHANGED <<kind, written, got, outcome>>

stream_message ==
  /\ end["host"] = "open" /\ Newlines("kernel") # {} /\ Len(wire["host"]) < kind.flight
  /\ Relay(next_buffered_line("kernel"), Drained("kernel"), FALSE)

\* the body ended: what is left is a line too
Remains(h) == end[h] = "closed" /\ wire[h] = <<>> /\ Newlines(h) = {}
StreamRemains ==
  /\ end["host"] = "open" /\ Remains("kernel")
  /\ Relay(buffer["kernel"], <<>>, TRUE)

\* a read error ends the relayed body without its end
StreamBreaks ==
  /\ end["host"] = "open" /\ end["kernel"] = "broken" /\ Newlines("kernel") = {}
  /\ wire["kernel"] = <<>>
  /\ end' = [end EXCEPT !["host"] = "broken"]
  /\ UNCHANGED <<kind, written, wire, buffer, got, outcome>>

\* next_event returns the event of a line, ignores a blank one and fails on any other
Take(line, rest, last) ==
  LET parsed == parse_event_line(line)
  IN  /\ buffer' = [buffer EXCEPT !["host"] = rest]
      /\ got' = IF parsed = "event" THEN Append(got, line[1][1]) ELSE got
      /\ outcome' = IF parsed = "error" THEN "failed" ELSE IF last THEN "done" ELSE "reading"
      /\ UNCHANGED <<kind, written, wire, end>>

next_event ==
  /\ outcome = "reading" /\ Newlines("host") # {}
  /\ Take(next_buffered_line("host"), Drained("host"), FALSE)

NextRemains ==
  /\ outcome = "reading" /\ Remains("host")
  /\ Take(buffer["host"], <<>>, TRUE)

NextBreaks ==
  /\ outcome = "reading" /\ end["host"] = "broken" /\ Newlines("host") = {}
  /\ outcome' = "failed"
  /\ UNCHANGED <<kind, written, wire, end, buffer, got>>

PipeNext ==
  \/ \E form \in Forms, event \in kind.events : Write(form, event)
  \/ KernelEnds
  \/ \E h \in {"kernel", "host"} : Cut(h)
  \/ ReadKernel \/ ReadHost
  \/ stream_message \/ StreamRemains \/ StreamBreaks
  \/ next_event \/ NextRemains \/ NextBreaks

PipeSpec == PipeInit /\ [][PipeNext]_pipeVars

----------------------------------------------------------------------------
(* Properties.                                                              *)

\* the lines with an event before the first that is not JSON
Sent == {i \in DOMAIN written : /\ written[i].form # "blank"
                               /\ \A j \in 1..i : written[j].form # "bad"}
Returned == {got[i] : i \in DOMAIN got}

\* However the two bodies are cut into chunks, next_event returns the kernel's events
\* in their order, none twice, none skipped and none made of parts of others; when it
\* says that the stream is over it has returned every one, and a line that is no JSON,
\* a broken body or a dead kernel is never taken for the end of the turn.
EventsArriveWhole ==
  /\ \A i, j \in DOMAIN got : i < j => got[i] < got[j]
  /\ \A i \in DOMAIN got : got[i] \in Sent /\ \A k \in Sent : k < got[i] => k \in Returned
  /\ outcome = "done" => /\ end["kernel"] = "closed" /\ Returned = Sent
                         /\ \A i \in DOMAIN written : written[i].form # "bad"
=============================================================================
