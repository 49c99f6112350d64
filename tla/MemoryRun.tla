----------------------------- MODULE MemoryRun -----------------------------
(***************************************************************************)
(* One command of POST /v1/run, from the child process to the caller of    *)
(* HttpMemoryClient: two copy tasks move what the child prints to bounded  *)
(* pipes and count it against the limit, two forward tasks cut the pipes   *)
(* into frames of a bounded channel, and the client decodes the frames.    *)
(* Output is counted in bytes; what a byte is does not matter.             *)
(***************************************************************************)
EXTENDS Naturals, Sequences, FiniteSetsExt

CONSTANTS
  MaxOutputBytes,   \* RunLimits: reaching it kills the child
  PipeCapacity,     \* STREAM_PIPE_CAPACITY
  ChannelCapacity,  \* FRAME_CHANNEL_CAPACITY
  MaxPrinted,       \* how much the child prints at most, on each stream
  MaxChunk          \* the most bytes of one read

ASSUME RunAssumption ==
  MaxOutputBytes \in Nat /\ {PipeCapacity, ChannelCapacity, MaxPrinted, MaxChunk} \subseteq Nat \ {0}

Streams == {"stdout", "stderr"}

VARIABLES
  child,     \* the process and what it printed so far
  copy,      \* the copy task of each stream: what it does and the bytes it holds
  total,     \* counted by both copy tasks
  limitHit,
  notified,  \* the permit of limit_notify
  pipe,      \* bytes in the duplex of each stream
  forward,   \* the forward task of each stream
  drive,     \* where drive, and drive_run after it, is
  outcome,
  channel,   \* frames under way
  client     \* the caller: what it received and what run_command returned

runVars == <<child, copy, total, limitHit, notified, pipe, forward, drive, outcome, channel, client>>

Nothing == [s \in Streams |-> 0]
Task(at) == [at |-> at, bytes |-> 0]

RunInit ==
  /\ child = [alive |-> FALSE, printed |-> Nothing, unread |-> Nothing]
  /\ copy = [s \in Streams |-> Task("over")] /\ forward = [s \in Streams |-> Task("read")]
  /\ total = 0 /\ limitHit = FALSE /\ notified = FALSE
  /\ pipe = Nothing /\ drive = "spawn" /\ outcome = "none" /\ channel = <<>>
  /\ client = [reads |-> TRUE, got |-> Nothing, result |-> "none"]

----------------------------------------------------------------------------
(* The child.                                                               *)

\* a command that cannot be launched is reported as a terminal frame
spawn ==
  /\ drive = "spawn"
  /\ \/ /\ child' = [child EXCEPT !.alive = TRUE]
        /\ copy' = [s \in Streams |-> Task("top")]
        /\ drive' = "select" /\ UNCHANGED outcome
     \/ drive' = "join" /\ outcome' = "LaunchFailed" /\ UNCHANGED <<child, copy>>
  /\ UNCHANGED <<total, limitHit, notified, pipe, forward, channel, client>>

Prints(s) ==
  /\ child.alive /\ child.printed[s] < MaxPrinted
  /\ child' = [child EXCEPT !.printed[s] = @ + 1, !.unread[s] = @ + 1]
  /\ UNCHANGED <<copy, total, limitHit, notified, pipe, forward, drive, outcome, channel, client>>

Exits ==
  /\ child.alive /\ child' = [child EXCEPT !.alive = FALSE]
  /\ UNCHANGED <<copy, total, limitHit, notified, pipe, forward, drive, outcome, channel, client>>

----------------------------------------------------------------------------
(* copy_capped.                                                             *)

\* a read returns what is there, or nothing at the end of the stream
copy_capped(s) ==
  /\ \/ /\ copy[s].at = "top"
        /\ copy' = [copy EXCEPT ![s] = Task(IF limitHit THEN "over" ELSE "read")] /\ UNCHANGED child
     \/ /\ copy[s].at = "read" /\ ~child.alive /\ child.unread[s] = 0
        /\ copy' = [copy EXCEPT ![s] = Task("over")] /\ UNCHANGED child
     \/ /\ copy[s].at = "read"
        /\ \E n \in 1..Min({MaxChunk, child.unread[s]}) :
             /\ child' = [child EXCEPT !.unread[s] = @ - n]
             /\ copy' = [copy EXCEPT ![s] = [at |-> "count", bytes |-> n]]
  /\ UNCHANGED <<total, limitHit, notified, pipe, forward, drive, outcome, channel, client>>

Allowed(s) == Min({copy[s].bytes, MaxOutputBytes - Min({total, MaxOutputBytes})})

\* the allowed part is written, and is the last one when the limit is reached
Count(s, n) ==
  /\ copy[s].at = "count"
  /\ total' = total + n
  /\ copy' = [copy EXCEPT ![s] =
       [at |-> IF total' >= MaxOutputBytes THEN "last" ELSE "write", bytes |-> Allowed(s)]]
  /\ UNCHANGED <<child, limitHit, notified, pipe, forward, drive, outcome, channel, client>>

CountBytes(s) == Count(s, copy[s].bytes)

\* write_all: as much as the pipe takes; a pipe nobody reads takes everything and loses it
WriteBytes(s) ==
  /\ copy[s].at \in {"write", "last"} /\ copy[s].bytes > 0
  /\ IF forward[s].at = "over"
     THEN copy' = [copy EXCEPT ![s].bytes = 0] /\ UNCHANGED pipe
     ELSE \E n \in {Min({copy[s].bytes, PipeCapacity - pipe[s]})} \ {0} :
            /\ pipe' = [pipe EXCEPT ![s] = @ + n]
            /\ copy' = [copy EXCEPT ![s].bytes = @ - n]
  /\ UNCHANGED <<child, total, limitHit, notified, forward, drive, outcome, channel, client>>

ReachLimit(s) ==
  /\ copy[s].at \in {"write", "last"} /\ copy[s].bytes = 0
  /\ IF copy[s].at = "last"
     THEN limitHit' = TRUE /\ notified' = TRUE /\ copy' = [copy EXCEPT ![s] = Task("over")]
     ELSE copy' = [copy EXCEPT ![s] = Task("top")] /\ UNCHANGED <<limitHit, notified>>
  /\ UNCHANGED <<child, total, pipe, forward, drive, outcome, channel, client>>

----------------------------------------------------------------------------
(* drive: what happens first ends the wait.                                 *)

Select(why, next) ==
  /\ drive = "select" /\ drive' = next /\ outcome' = why
  /\ UNCHANGED <<child, copy, total, limitHit, notified, pipe, forward, channel, client>>

Wait == ~child.alive /\ Select("Exited", "join")
Timeout == Select("TimedOut", "kill")
Cancel == ~client.reads /\ Select("Cancelled", "kill")
Limit == notified /\ Select("OutputLimitExceeded", "kill")

Kill_unsent ==
  /\ drive = "kill" /\ drive' = "join"
  /\ UNCHANGED <<child, copy, total, limitHit, notified, pipe, forward, outcome, channel, client>>

Kill ==
  /\ drive = "kill" /\ drive' = "join"
  /\ child' = [child EXCEPT !.alive = FALSE]
  /\ UNCHANGED <<copy, total, limitHit, notified, pipe, forward, outcome, channel, client>>

\* both copy tasks are awaited, so that what the child printed is out before its exit is told
join ==
  /\ drive = "join" /\ \A s \in Streams : copy[s].at = "over"
  /\ drive' = "forwarded"
  /\ outcome' = IF limitHit THEN "OutputLimitExceeded" ELSE outcome
  /\ UNCHANGED <<child, copy, total, limitHit, notified, pipe, forward, channel, client>>

----------------------------------------------------------------------------
(* The frames.                                                              *)

\* the pipe of a stream ends when its copy task, or a launch that failed, drops the writer
Dropped(s) == drive # "spawn" /\ copy[s].at = "over"

Forward(s) ==
  /\ \/ /\ forward[s].at = "read"
        /\ \/ /\ pipe[s] = 0 /\ Dropped(s)
              /\ forward' = [forward EXCEPT ![s] = Task("over")] /\ UNCHANGED pipe
           \/ \E n \in {Min({MaxChunk, pipe[s]})} \ {0} :
                /\ pipe' = [pipe EXCEPT ![s] = @ - n]
                /\ forward' = [forward EXCEPT ![s] = [at |-> "send", bytes |-> n]]
        /\ UNCHANGED channel
     \/ /\ forward[s].at = "send" /\ client.reads /\ Len(channel) < ChannelCapacity
        /\ channel' = Append(channel, [tag |-> s, bytes |-> forward[s].bytes])
        /\ forward' = [forward EXCEPT ![s] = Task("read")] /\ UNCHANGED pipe
  /\ UNCHANGED <<child, copy, total, limitHit, notified, drive, outcome, client>>

\* the receiver is gone: the task ends, and what is left in the pipe with it
ForwardFails(s) ==
  /\ forward[s].at = "send" /\ ~client.reads
  /\ forward' = [forward EXCEPT ![s] = Task("over")] /\ pipe' = [pipe EXCEPT ![s] = 0]
  /\ UNCHANGED <<child, copy, total, limitHit, notified, drive, outcome, channel, client>>

forward_frames(s) == Forward(s) \/ ForwardFails(s)

SendTerminal ==
  /\ drive = "forwarded"
  /\ \/ /\ client.reads /\ Len(channel) < ChannelCapacity
        /\ channel' = Append(channel, [tag |-> outcome, bytes |-> 0])
     \/ ~client.reads /\ UNCHANGED channel
  /\ drive' = "over"
  /\ UNCHANGED <<child, copy, total, limitHit, notified, pipe, forward, outcome, client>>

drive_run == (\A s \in Streams : forward[s].at = "over") /\ SendTerminal

----------------------------------------------------------------------------
(* The caller.                                                              *)

\* nothing is decoded after the terminal frame
next_frame(f) ==
  IF f.tag \in Streams THEN [client EXCEPT !.got[f.tag] = @ + f.bytes]
  ELSE [client EXCEPT !.result = f.tag, !.reads = FALSE]

run_command ==
  /\ client.reads /\ channel # <<>>
  /\ channel' = Tail(channel) /\ client' = next_frame(Head(channel))
  /\ UNCHANGED <<child, copy, total, limitHit, notified, pipe, forward, drive, outcome>>

\* the caller is interrupted, or its request timeout passes: the body is dropped
HangUp ==
  /\ client.reads
  /\ \E r \in {"Cancelled", "Unavailable"} : client' = [client EXCEPT !.reads = FALSE, !.result = r]
  /\ channel' = <<>>
  /\ UNCHANGED <<child, copy, total, limitHit, notified, pipe, forward, drive, outcome>>

\* the service ends: its body reaches the end without a terminal frame, the child is killed
ServerEnds ==
  /\ client.reads /\ drive # "over"
  /\ client' = [client EXCEPT !.reads = FALSE, !.result = "MalformedResponse"]
  /\ child' = [child EXCEPT !.alive = FALSE]
  /\ drive' = "over" /\ channel' = <<>> /\ pipe' = Nothing
  /\ copy' = [s \in Streams |-> Task("over")] /\ forward' = [s \in Streams |-> Task("over")]
  /\ UNCHANGED <<total, limitHit, notified, outcome>>

----------------------------------------------------------------------------
RunNext ==
  \/ spawn \/ Exits \/ Wait \/ Timeout \/ Cancel \/ Limit \/ Kill \/ join \/ drive_run
  \/ run_command \/ HangUp \/ ServerEnds
  \/ \E s \in Streams :
       Prints(s) \/ copy_capped(s) \/ CountBytes(s) \/ WriteBytes(s) \/ ReachLimit(s)
       \/ forward_frames(s)

\* the timer, the tasks and the client's request timeout run on; the child owes nothing
RunFairness ==
  /\ WF_runVars(spawn) /\ WF_runVars(Timeout) /\ WF_runVars(Kill)
  /\ WF_runVars(join) /\ WF_runVars(drive_run) /\ WF_runVars(run_command \/ HangUp)
  /\ \A s \in Streams :
       WF_runVars(copy_capped(s) \/ CountBytes(s) \/ WriteBytes(s) \/ ReachLimit(s)) /\ WF_runVars(forward_frames(s))

RunSpec == RunInit /\ [][RunNext]_runVars /\ RunFairness

----------------------------------------------------------------------------
\* A caller that is told the command exited has everything the command printed: the exit
\* overtakes no output on its way through four tasks, and a service that ends is not taken
\* for a command that was quiet.  And both copy tasks together let no more than the limit
\* through, although each counts while the other one writes.
ExitedMeansAll ==
  /\ client.result = "Exited" => client.got = child.printed
  /\ client.got["stdout"] + client.got["stderr"] <= MaxOutputBytes

\* Every run ends, for the service, the process and the caller, although the child may never
\* exit, print without end, and the caller stop reading until its request timeout drops
\* the response.
RunEnds == <>[](drive = "over" /\ ~child.alive /\ client.result # "none")
=============================================================================
