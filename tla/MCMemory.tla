------------------------------ MODULE MCMemory ------------------------------
(* Three pages at three depths; the store starts with a page that another   *)
(* one refers to, and a third place that is free or holds a broken file.    *)
(* The pages and the commands share nothing but the service: a behaviour    *)
(* is one of either.                                                        *)
EXTENDS MemoryPages, MemoryRun, TLC

MCPaths == {<<"a">>, <<"d", "b">>, <<"d", "e", "a">>}
MCBodies == {{}, {<<"..", "b">>, <<"..", "..", "a">>}}
MCFirst ==
  {(<<"a">> :> x) @@ (<<"d", "b">> :> [links |-> {<<"e", "a">>}, stamp |-> Nobody]) @@
   (<<"d", "e", "a">> :> [links |-> {<<"..", "b">>}, stamp |-> Nobody]) :
     x \in {NoFile, Garbled}}

\* no request for a page is served, no command is run
NoRequests ==
  /\ files = (CHOOSE f \in First : TRUE) /\ pages = files
  /\ hidden = {} /\ lock = Nobody /\ cut = FALSE /\ faults = 0
  /\ req = [c \in Clients |-> [Blank EXCEPT !.pc = "over"]]
NoCommand ==
  /\ child = [alive |-> FALSE, printed |-> Nothing, unread |-> Nothing]
  /\ copy = [s \in Streams |-> Task("over")] /\ forward = copy
  /\ total = 0 /\ limitHit = FALSE /\ notified = FALSE
  /\ pipe = Nothing /\ drive = "over" /\ outcome = "none" /\ channel = <<>>
  /\ client = [reads |-> FALSE, got |-> Nothing, result |-> "Unavailable"]

MCInit == (Init /\ NoCommand) \/ (RunInit /\ NoRequests)
MCNext == (Next /\ UNCHANGED runVars) \/ (RunNext /\ UNCHANGED vars)
MCSpec == MCInit /\ [][MCNext]_<<vars, runVars>> /\ RunFairness
=============================================================================
