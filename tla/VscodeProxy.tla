---------------------------- MODULE VscodeProxy ----------------------------
(***************************************************************************)
(* A browser's connection to the editor of a session: a WebSocket through  *)
(* client_service and agent_host, each of which accepts the one side only  *)
(* after it reached the other and then runs one loop that forwards both    *)
(* ways; and plain HTTP requests, which take the same path.  Hop h joins   *)
(* party h - 1 to party h: the browser 0, client_service 1, agent_host 2,  *)
(* the code-server 3.  Frames are numbered; a close frame ends a way.      *)
(***************************************************************************)
EXTENDS Naturals, Sequences, SequencesExt

CONSTANTS
  Cap,        \* frames that a hop holds before a send waits
  MaxFrames,  \* frames that either end sends
  Requests,   \* what may be asked for: the session is known to either service, origin, path, body
  NoRequest

ASSUME VscodeProxyAssumption == Cap \in Nat \ {0} /\ MaxFrames \in Nat

VARIABLES
  asked,    \* the request of the browser
  hop,      \* of each hop: none, asked, open, or left by one of its parties
  leftBy,   \* the parties that dropped their end of a hop
  queue,    \* the frames under way on a hop, each way
  bridge,   \* the loop of either service: none, idle, sending a frame, or ended
  sent,     \* how many frames each end sent, and whether it closed
  received, \* what came out at the other end
  answer    \* the status that the browser was answered with

proxyVars == <<asked, hop, leftBy, queue, bridge, sent, received, answer>>

Frame(n) == <<"frame", n>>
Close == <<"close", 0>>
Big == <<"big", 0>>  \* a message over the limit of the next reader

Hops == 1..3
Services == 1..2
Ways == {"up", "down"}
Source(b, d) == IF d = "up" THEN b ELSE b + 1
Target(b, d) == IF d = "up" THEN b + 1 ELSE b

ProxyInit ==
  /\ asked = NoRequest /\ answer = 0
  /\ hop = [h \in Hops |-> "none"]
  /\ leftBy = [h \in Hops |-> {}]
  /\ queue = [h \in Hops |-> [d \in Ways |-> <<>>]]
  /\ bridge = [b \in Services |-> [pc |-> "none", way |-> "up", frame |-> Close]]
  /\ sent = [d \in Ways |-> [frames |-> 0, closed |-> FALSE]]
  /\ received = [d \in Ways |-> <<>>]

----------------------------------------------------------------------------
(* The request.  A segment of a path may be encoded more than once.         *)

vscode_proxy_path_has_dot_segment(r) == r.decodesTo = "dots"

validate_websocket_origin(r) == r.origin \in {"none", "allowed", "forwarded"}

\* The whole of a plain request: what each hop refuses, in its order, and what passes.
proxy_vscode_http(r, editorStatus) ==
  CASE ~r.row -> 404
    [] vscode_proxy_path_has_dot_segment(r) -> 422
    [] r.body = "big" -> 413
    [] ~r.host -> 404
    [] editorStatus = 0 -> 503
    [] OTHER -> editorStatus

HttpRequest(r, editorStatus) ==
  /\ asked = NoRequest /\ ~r.upgrade
  /\ asked' = r /\ answer' = proxy_vscode_http(r, editorStatus)
  /\ UNCHANGED <<hop, leftBy, queue, bridge, sent, received>>

Refusal(r) ==
  CASE ~r.row -> 404
    [] vscode_proxy_path_has_dot_segment(r) -> 422
    [] ~validate_websocket_origin(r) -> 403
    [] OTHER -> 0

\* client_service refuses, or goes on to connect to agent_host before it answers
proxy_session_vscode(r) ==
  /\ asked = NoRequest /\ r.upgrade
  /\ asked' = r /\ answer' = Refusal(r)
  /\ hop' = IF Refusal(r) = 0 THEN [hop EXCEPT ![1] = "asked", ![2] = "asked"] ELSE hop
  /\ UNCHANGED <<leftBy, queue, bridge, sent, received>>

\* agent_host looks the session up and connects to the editor before it answers
ConnectEditor ==
  /\ hop[2] = "asked" /\ hop[3] = "none" /\ leftBy[2] = {} /\ asked.host
  /\ hop' = [hop EXCEPT ![3] = "asked"]
  /\ UNCHANGED <<asked, leftBy, queue, bridge, sent, received, answer>>

EditorAccepts ==
  /\ hop[3] = "asked" /\ leftBy[3] = {}
  /\ hop' = [hop EXCEPT ![3] = "open"]
  /\ UNCHANGED <<asked, leftBy, queue, bridge, sent, received, answer>>

\* once hop b + 1 is open, service b accepts hop b and its loop begins
proxy_vscode_websocket(b) ==
  /\ hop[b] = "asked" /\ hop[b + 1] = "open" /\ bridge[b].pc = "none" /\ b \notin leftBy[b]
  /\ hop' = [hop EXCEPT ![b] = "open"]
  /\ bridge' = [bridge EXCEPT ![b].pc = "idle"]
  /\ answer' = IF b = 1 THEN 101 ELSE answer
  /\ UNCHANGED <<asked, leftBy, queue, sent, received>>

----------------------------------------------------------------------------
(* A party drops its end of some hops: what it had not read is gone, what   *)
(* it had sent may or may not arrive.                                       *)

WayFrom(p, h) == IF p < h THEN "up" ELSE "down"
Drop(p, hs) ==
  /\ leftBy' = [h \in Hops |-> IF h \in hs THEN leftBy[h] \cup {p} ELSE leftBy[h]]
  /\ \E lost \in SUBSET hs :
       queue' = [h \in Hops |-> [d \in Ways |->
                   IF h \in hs /\ (d # WayFrom(p, h) \/ h \in lost) THEN <<>> ELSE queue[h][d]]]

Dropped(h, p) == leftBy[h] \ {p} # {}

\* a handler that waits for its upstream gives up: refused, unreachable, timed out
GivesUp(b) ==
  /\ hop[b] = "asked" /\ bridge[b].pc = "none" /\ b \notin leftBy[b]
  /\ b = 1 => hop[2] # "none"
  /\ Drop(b, {b, b + 1} \cap {h \in Hops : hop[h] # "none"})
  /\ answer' = IF b = 1 THEN 503 ELSE answer
  /\ UNCHANGED <<asked, hop, bridge, sent, received>>

\* the browser hangs up, or the editor ends
Leaves(p) ==
  LET h == IF p = 0 THEN 1 ELSE 3
  IN  /\ hop[h] # "none" /\ p \notin leftBy[h]
      /\ Drop(p, {h})
      /\ UNCHANGED <<asked, hop, bridge, sent, received, answer>>

----------------------------------------------------------------------------
(* The loops.                                                               *)

\* select takes a frame from either side; nothing else is read until it is sent
Read(b, d) ==
  LET q == queue[Source(b, d)][d]
  IN  /\ bridge[b].pc = "idle" /\ q # <<>> /\ Head(q) # Big
      /\ bridge' = [bridge EXCEPT ![b] = [pc |-> "sending", way |-> d, frame |-> Head(q)]]
      /\ queue' = [queue EXCEPT ![Source(b, d)][d] = Tail(@)]
      /\ UNCHANGED <<asked, hop, leftBy, sent, received, answer>>

Ends(b) == bridge' = [bridge EXCEPT ![b].pc = "ended"] /\ Drop(b, {b, b + 1})

\* the end of a side, or a message over the limit, ends the loop and drops both sides
ReadsNothing(b, d) ==
  LET h == Source(b, d)
  IN  /\ bridge[b].pc = "idle"
      /\ \/ queue[h][d] = <<>> /\ Dropped(h, b)
         \/ queue[h][d] # <<>> /\ Head(queue[h][d]) = Big

forward_none_ignored(b, d) == ReadsNothing(b, d) /\ UNCHANGED proxyVars
forward_none(b, d) ==
  /\ ReadsNothing(b, d) /\ Ends(b)
  /\ UNCHANGED <<asked, hop, sent, received, answer>>

Sending(b) == bridge[b].pc = "sending"

\* the send waits for room; after a close frame the loop returns
forward_message(b) ==
  /\ Sending(b)
  /\ LET d == bridge[b].way
         h == Target(b, d)
         q == Append(queue[h][d], bridge[b].frame)
     IN  /\ ~Dropped(h, b) /\ Len(queue[h][d]) < Cap
         /\ IF bridge[b].frame = Close
            THEN /\ bridge' = [bridge EXCEPT ![b].pc = "ended"]
                 /\ leftBy' = [leftBy EXCEPT ![b] = @ \cup {b}, ![b + 1] = @ \cup {b}]
                 /\ queue' = [queue EXCEPT ![h][d] = q]
            ELSE /\ bridge' = [bridge EXCEPT ![b].pc = "idle"]
                 /\ queue' = [queue EXCEPT ![h][d] = q]
                 /\ UNCHANGED leftBy
  /\ UNCHANGED <<asked, hop, sent, received, answer>>

SendFails(b) ==
  /\ Sending(b) /\ Dropped(Target(b, bridge[b].way), b)
  /\ Ends(b)
  /\ UNCHANGED <<asked, hop, sent, received, answer>>

----------------------------------------------------------------------------
(* The two ends.                                                            *)

EndHop(d) == IF d = "up" THEN 1 ELSE 3   \* where frames of this way go in
OutHop(d) == IF d = "up" THEN 3 ELSE 1   \* and come out

EndSends(d, what) ==
  LET h == EndHop(d)
      frame == CASE what = "frame" -> Frame(sent[d].frames + 1) [] what = "close" -> Close [] OTHER -> Big
  IN  /\ hop[h] = "open" /\ leftBy[h] = {} /\ ~sent[d].closed
      /\ Len(queue[h][d]) < Cap
      /\ what # "close" => sent[d].frames < MaxFrames
      /\ queue' = [queue EXCEPT ![h][d] = Append(@, frame)]
      /\ sent' = [sent EXCEPT ![d] = [frames |-> IF what = "close" THEN @.frames ELSE @.frames + 1,
                                      closed |-> what # "frame"]]
      /\ UNCHANGED <<asked, hop, leftBy, bridge, received, answer>>

EndReads(d) ==
  LET h == OutHop(d)
      p == IF d = "up" THEN 3 ELSE 0
  IN  /\ queue[h][d] # <<>> /\ p \notin leftBy[h]
      /\ received' = [received EXCEPT ![d] = Append(@, Head(queue[h][d]))]
      /\ queue' = [queue EXCEPT ![h][d] = Tail(@)]
      /\ UNCHANGED <<asked, hop, leftBy, bridge, sent, answer>>

ProxyNext ==
  \/ \E r \in Requests, status \in {0, 200} : HttpRequest(r, status)
  \/ \E r \in Requests : proxy_session_vscode(r)
  \/ ConnectEditor \/ EditorAccepts
  \/ \E b \in Services : proxy_vscode_websocket(b) \/ GivesUp(b) \/ forward_message(b) \/ SendFails(b)
  \/ \E b \in Services, d \in Ways : Read(b, d) \/ forward_none(b, d)
  \/ \E p \in {0, 3} : Leaves(p)
  \/ \E d \in Ways : EndReads(d) \/ \E what \in {"frame", "close", "big"} : EndSends(d, what)

\* A loop goes on while it can read or send, and both ends read while they are there; a
\* handler that waits for an upstream that is gone or silent hears of it or times out.
Loop(b) ==
  \/ forward_message(b) \/ SendFails(b)
  \/ \E d \in Ways : Read(b, d) \/ forward_none(b, d)
ProxyFairness ==
  /\ \A b \in Services : WF_proxyVars(Loop(b)) /\ WF_proxyVars(proxy_vscode_websocket(b) \/ GivesUp(b))
  /\ \A d \in Ways : WF_proxyVars(EndReads(d))

ProxySpec == ProxyInit /\ [][ProxyNext]_proxyVars /\ ProxyFairness

----------------------------------------------------------------------------
(* Properties.                                                              *)

\* both loops wait to send into the hop between them, each for the other to read
Jammed ==
  \A b \in Services : Sending(b) /\ bridge[b].way = (IF b = 1 THEN "up" ELSE "down")
                      /\ Len(queue[2][bridge[b].way]) = Cap

Over == \A b \in Services : bridge[b].pc = "ended" \/ (bridge[b].pc = "none" /\ (hop[b] # "none" => b \in leftBy[b]))

\* When the browser hangs up or the editor ends, every loop and every waiting handler
\* of the connection ends too, whatever was under way, unless the two loops wait for
\* each other to read (each reads nothing while it sends).
EndsUnlessJammed == (0 \in leftBy[1] \/ 3 \in leftBy[3]) ~> (Over \/ Jammed)
=============================================================================
