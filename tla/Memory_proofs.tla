---------------------------- MODULE Memory_proofs ----------------------------
(***************************************************************************)
(* Proofs about the memory service: its commands and its pages.            *)
(*                                                                         *)
(* A caller of POST /v1/run that is told its command exited has all of its *)
(* output, and never more than the limit, for every limit, capacity, size  *)
(* of a read and amount of output.  The argument is one of conservation:   *)
(* what the child printed on a stream is unread, held by the copy task, in *)
(* the pipe, held by the forward task, in the channel, or with the caller. *)
(* What the channel holds of a stream is a sum over a sequence; Carries    *)
(* states it by the partial sums, so that appending and removing a frame   *)
(* need no induction.                                                      *)
(*                                                                         *)
(* Pages survive whatever fails, for every set of pages and clients, every *)
(* content and number of faults.  PagesInv says, for each stage of a move, *)
(* which files are there, which hidden file stands for each of the others, *)
(* and what they have to do with the pages the operations amount to; only  *)
(* the holder of the lock disturbs it, and only for its own hidden files.  *)
(***************************************************************************)
EXTENDS MemoryPages, MemoryRun, SequenceTheorems, TLAPS

----------------------------------------------------------------------------
(* Sums over the channel.                                                  *)

Weight(f, s) == IF f.tag = s THEN f.bytes ELSE 0

\* adding the bytes of stream s in the frames of ch to a gives b
Carries(ch, s, a, b) ==
  \E acc \in [0..Len(ch) -> Nat] :
    /\ acc[0] = a /\ acc[Len(ch)] = b
    /\ \A i \in 1..Len(ch) : acc[i] = acc[i - 1] + Weight(ch[i], s)
    /\ \A i, j \in 0..Len(ch) : i <= j => acc[i] <= acc[j]

Reasons == {"none", "LaunchFailed", "Exited", "TimedOut", "Cancelled", "OutputLimitExceeded"}
Frame == [tag : Streams \cup Reasons, bytes : Nat]

LEMMA WeightType == ASSUME NEW f \in Frame, NEW s PROVE Weight(f, s) \in Nat
  BY DEF Frame, Weight

LEMMA CarriesEmpty ==
  ASSUME NEW s, NEW a \in Nat, NEW b \in Nat
  PROVE  Carries(<<>>, s, a, b) <=> a = b
<1>1. Len(<<>>) = 0
  OBVIOUS
<1>2. ASSUME Carries(<<>>, s, a, b) PROVE a = b
  BY <1>1, <1>2 DEF Carries
<1>3. ASSUME a = b PROVE Carries(<<>>, s, a, b)
  <2> DEFINE acc == [i \in 0..0 |-> a]
  <2>1. /\ acc \in [0..Len(<<>>) -> Nat] /\ acc[0] = a /\ acc[Len(<<>>)] = b
        /\ \A i \in 1..Len(<<>>) : acc[i] = acc[i - 1] + Weight(<<>>[i], s)
        /\ \A i, j \in 0..Len(<<>>) : i <= j => acc[i] <= acc[j]
    BY <1>1, <1>3
  <2> HIDE DEF acc
  <2> QED
    BY <2>1 DEF Carries
<1> QED
  BY <1>2, <1>3

LEMMA CarriesGrows ==
  ASSUME NEW ch \in Seq(Frame), NEW s, NEW a \in Nat, NEW b \in Nat, Carries(ch, s, a, b)
  PROVE  a <= b
<1>1. Len(ch) \in Nat
  OBVIOUS
<1> QED
  BY <1>1 DEF Carries

LEMMA CarriesAppend ==
  ASSUME NEW ch \in Seq(Frame), NEW f \in Frame, NEW s, NEW a \in Nat, NEW b \in Nat,
         Carries(ch, s, a, b)
  PROVE  Carries(Append(ch, f), s, a, b + Weight(f, s))
<1> DEFINE n == Len(ch)
           w == Weight(f, s)
           new == Append(ch, f)
<1>1. PICK acc \in [0..n -> Nat] :
        /\ acc[0] = a /\ acc[n] = b
        /\ \A i \in 1..n : acc[i] = acc[i - 1] + Weight(ch[i], s)
        /\ \A i, j \in 0..n : i <= j => acc[i] <= acc[j]
  BY DEF Carries
<1>2. /\ n \in Nat /\ w \in Nat /\ Len(new) = n + 1 /\ new[n + 1] = f
      /\ \A i \in 1..n : new[i] = ch[i]
  BY WeightType
<1> DEFINE sum == [i \in 0..(n + 1) |-> IF i = n + 1 THEN b + w ELSE acc[i]]
<1>3. sum \in [0..(n + 1) -> Nat] /\ sum[0] = a /\ sum[n + 1] = b + w
  <2> HIDE DEF n, w, new
  <2> QED BY <1>1, <1>2
<1>4. ASSUME NEW i \in 1..(n + 1) PROVE sum[i] = sum[i - 1] + Weight(new[i], s)
  <2>1. CASE i = n + 1
    <3>1. Weight(new[i], s) = w
      BY <1>2, <2>1
    <3> HIDE DEF n, w, new
    <3> QED BY <1>1, <1>2, <2>1, <3>1
  <2>2. CASE i # n + 1
    <3>1. i \in 1..n /\ Weight(new[i], s) = Weight(ch[i], s)
      BY <1>2, <2>2
    <3> HIDE DEF n, w, new
    <3> QED BY <1>1, <1>2, <3>1
  <2> QED BY <2>1, <2>2
<1>5. ASSUME NEW i \in 0..(n + 1), NEW j \in 0..(n + 1), i <= j PROVE sum[i] <= sum[j]
  <2> HIDE DEF n, w, new
  <2>1. CASE j = n + 1 /\ i # n + 1
    <3>1. i \in 0..n /\ n \in 0..n /\ acc[i] <= acc[n]
      BY <1>1, <1>2, <2>1
    <3> QED BY <1>1, <1>2, <2>1, <3>1
  <2>2. CASE j # n + 1
    BY <1>1, <1>2, <1>5, <2>2
  <2>3. CASE i = n + 1
    BY <1>1, <1>2, <1>5, <2>3
  <2> QED BY <2>1, <2>2, <2>3
<1> HIDE DEF sum, w, new
<1>6. Carries(new, s, a, b + w)
  BY <1>2, <1>3, <1>4, <1>5 DEF Carries
<1> QED
  BY <1>6 DEF new, w

LEMMA CarriesTail ==
  ASSUME NEW ch \in Seq(Frame), ch # <<>>, NEW s, NEW a \in Nat, NEW b \in Nat,
         Carries(ch, s, a, b)
  PROVE  Carries(Tail(ch), s, a + Weight(Head(ch), s), b)
<1> DEFINE n == Len(ch)
           rest == Tail(ch)
<1>1. PICK acc \in [0..n -> Nat] :
        /\ acc[0] = a /\ acc[n] = b
        /\ \A i \in 1..n : acc[i] = acc[i - 1] + Weight(ch[i], s)
        /\ \A i, j \in 0..n : i <= j => acc[i] <= acc[j]
  BY DEF Carries
<1>2. /\ n \in Nat /\ n >= 1 /\ Len(rest) = n - 1 /\ Head(ch) = ch[1]
      /\ \A i \in 1..(n - 1) : rest[i] = ch[i + 1]
  OBVIOUS
<1> DEFINE sum == [i \in 0..(n - 1) |-> acc[i + 1]]
           w == Weight(Head(ch), s)
<1>3. w = Weight(ch[1], s)
  BY <1>2
<1>4. sum \in [0..(n - 1) -> Nat] /\ sum[0] = a + w /\ sum[n - 1] = b
  <2> HIDE DEF n, w, rest
  <2> QED BY <1>1, <1>2, <1>3
<1>5. ASSUME NEW i \in 1..(n - 1) PROVE sum[i] = sum[i - 1] + Weight(rest[i], s)
  <2>1. Weight(rest[i], s) = Weight(ch[i + 1], s)
    BY <1>2
  <2> HIDE DEF n, w, rest
  <2> QED BY <1>1, <1>2, <2>1
<1>6. ASSUME NEW i \in 0..(n - 1), NEW j \in 0..(n - 1), i <= j PROVE sum[i] <= sum[j]
  <2> HIDE DEF n, w, rest
  <2> QED BY <1>1, <1>2, <1>6
<1> HIDE DEF sum, w, rest
<1>7. Carries(rest, s, a + w, b)
  BY <1>2, <1>4, <1>5, <1>6 DEF Carries
<1> QED
  BY <1>7 DEF rest, w

LEMMA MinOfTwo ==
  ASSUME NEW a \in Nat, NEW b \in Nat
  PROVE  Min({a, b}) \in Nat /\ Min({a, b}) = (IF a <= b THEN a ELSE b)
<1>1. \E x \in {a, b} : \A y \in {a, b} : x <= y
  OBVIOUS
<1>2. Min({a, b}) \in {a, b} /\ \A y \in {a, b} : Min({a, b}) <= y
  BY <1>1 DEF Min
<1> QED
  BY <1>2

----------------------------------------------------------------------------
(* The invariant.                                                          *)

CopyAt == {"top", "read", "count", "write", "last", "over"}
ForwardAt == {"read", "send", "over"}

RunTypeOK ==
  /\ child \in [alive : BOOLEAN, printed : [Streams -> Nat], unread : [Streams -> Nat]]
  /\ copy \in [Streams -> [at : CopyAt, bytes : Nat]]
  /\ total \in Nat /\ limitHit \in BOOLEAN /\ notified \in BOOLEAN
  /\ pipe \in [Streams -> 0..PipeCapacity]
  /\ forward \in [Streams -> [at : ForwardAt, bytes : Nat]]
  /\ drive \in {"spawn", "select", "kill", "join", "forwarded", "over"}
  /\ outcome \in Reasons
  /\ channel \in Seq(Frame)
  /\ client \in [reads : BOOLEAN, got : [Streams -> Nat],
                 result : Reasons \cup {"Unavailable", "MalformedResponse"}]

\* the caller still reads, or has read the exit
Live == client.reads \/ client.result = "Exited"

\* some output was, or is about to be, cut at the limit
Limited == limitHit \/ \E s \in Streams : copy[s].at = "last"

\* a task holds bytes only between two of its steps
HoldInv ==
  \A s \in Streams :
    /\ copy[s].at \in {"top", "read", "over"} => copy[s].bytes = 0
    /\ forward[s].at \in {"read", "over"} => forward[s].bytes = 0

\* nothing has happened before the child is launched
StartInv ==
  drive = "spawn" =>
    /\ ~child.alive /\ ~limitHit
    /\ \A s \in Streams :
         child.unread[s] = 0 /\ copy[s].at = "over" /\ (Live => forward[s].at # "over")

\* what is over stays over, and in which order things end
EndInv ==
  /\ drive \in {"forwarded", "over"} => \A s \in Streams : copy[s].at = "over"
  /\ Live /\ drive = "over" => \A s \in Streams : forward[s].at = "over"
  /\ Live /\ limitHit /\ drive \in {"forwarded", "over"} => outcome # "Exited"
  /\ \A s \in Streams :
       /\ Live /\ forward[s].at = "over" => pipe[s] = 0 /\ copy[s].at = "over"
       /\ Live /\ ~limitHit /\ drive # "spawn" /\ copy[s].at = "over"
            => ~child.alive /\ child.unread[s] = 0

\* the terminal frame is the last one
ChannelInv ==
  /\ \A i \in 1..Len(channel) :
       channel[i].tag \notin Streams
         => i = Len(channel) /\ drive = "over" /\ channel[i].tag = outcome
  /\ ~client.reads => channel = <<>>
  /\ client.reads => client.result = "none"
  /\ client.result = "Exited" => drive = "over" /\ outcome = "Exited"

\* of stream s, what was let through by the copy task and is neither lost nor in the channel
Through(s) ==
  (IF copy[s].at = "count" THEN 0 ELSE copy[s].bytes) + pipe[s] + forward[s].bytes

\* of stream s, what was printed and has not reached the channel
Behind(s) == child.unread[s] + copy[s].bytes + pipe[s] + forward[s].bytes

\* the output matters, and nothing of it was cut
Intact == Live /\ ~Limited

\* the channel and the caller together hold q[s] bytes of stream s
FlowOf(q) ==
  /\ \A s \in Streams :
       /\ Carries(channel, s, client.got[s], q[s])
       /\ Intact => child.printed[s] = Behind(s) + q[s]
  /\ \A s, t \in Streams :
       s # t => Through(s) + q[s] + Through(t) + q[t] <= Min({total, MaxOutputBytes})

FlowInv == \E q \in [Streams -> Nat] : FlowOf(q)

RunInv == RunTypeOK /\ HoldInv /\ StartInv /\ EndInv /\ ChannelInv /\ FlowInv

LEMMA FlowTypes ==
  ASSUME RunTypeOK, NEW s \in Streams
  PROVE  /\ Through(s) \in Nat /\ Behind(s) \in Nat /\ Min({total, MaxOutputBytes}) \in Nat
         /\ child.printed[s] \in Nat /\ child.unread[s] \in Nat /\ pipe[s] \in Nat
         /\ copy[s].bytes \in Nat /\ forward[s].bytes \in Nat /\ client.got[s] \in Nat
<1>1. /\ child.printed[s] \in Nat /\ child.unread[s] \in Nat /\ pipe[s] \in Nat
      /\ copy[s].bytes \in Nat /\ forward[s].bytes \in Nat /\ client.got[s] \in Nat
      /\ total \in Nat
  BY RunAssumption DEF RunTypeOK
<1>2. Min({total, MaxOutputBytes}) \in Nat
  BY <1>1, MinOfTwo, RunAssumption
<1> QED
  BY <1>1, <1>2 DEF Through, Behind

LEMMA FlowTypesNext ==
  ASSUME RunTypeOK', NEW s \in Streams
  PROVE  Through(s)' \in Nat /\ Behind(s)' \in Nat /\ child'.printed[s] \in Nat
<1>1. /\ child'.printed[s] \in Nat /\ child'.unread[s] \in Nat /\ pipe'[s] \in Nat
      /\ copy'[s].bytes \in Nat /\ forward'[s].bytes \in Nat
  BY RunAssumption DEF RunTypeOK
<1> QED
  BY <1>1 DEF Through, Behind

\* bytes that only move on, or are lost when that does not matter, keep the balance
LEMMA FlowMoves ==
  ASSUME RunInv, RunTypeOK', NEW q \in [Streams -> Nat], FlowOf(q), NEW r \in [Streams -> Nat],
         \A s \in Streams : Carries(channel, s, client.got[s], r[s])',
         total' = total, Intact' => Intact,
         \A s \in Streams : Through(s)' + r[s] <= Through(s) + q[s],
         Intact' => \A s \in Streams :
           child'.printed[s] + Behind(s) + q[s] = child.printed[s] + Behind(s)' + r[s]
  PROVE  FlowInv'
<1> DEFINE m == Min({total, MaxOutputBytes})
<1>0. m' = m
  OBVIOUS
<1> HIDE DEF m
<1>1. ASSUME NEW s \in Streams
      PROVE  /\ Through(s) \in Nat /\ Behind(s) \in Nat /\ child.printed[s] \in Nat
             /\ Through(s)' \in Nat /\ Behind(s)' \in Nat /\ child'.printed[s] \in Nat
             /\ q[s] \in Nat /\ r[s] \in Nat /\ m \in Nat
  BY FlowTypes, FlowTypesNext DEF RunInv, m
<1>2. ASSUME NEW s \in Streams, Intact' PROVE child'.printed[s] = Behind(s)' + r[s]
  <2>1. child.printed[s] = Behind(s) + q[s]
    BY <1>2 DEF FlowOf
  <2>2. child'.printed[s] + Behind(s) + q[s] = child.printed[s] + Behind(s)' + r[s]
    BY <1>2
  <2> QED
    BY <1>1, <2>1, <2>2
<1>3. ASSUME NEW s \in Streams, NEW t \in Streams, s # t
      PROVE  Through(s)' + r[s] + Through(t)' + r[t] <= m'
  <2>1. Through(s) + q[s] + Through(t) + q[t] <= m
    BY <1>3 DEF FlowOf, m
  <2>2. Through(s)' + r[s] <= Through(s) + q[s] /\ Through(t)' + r[t] <= Through(t) + q[t]
    OBVIOUS
  <2> QED
    BY <1>0, <1>1, <2>1, <2>2
<1>4. FlowOf(r)'
  BY <1>2, <1>3 DEF FlowOf, m
<1> QED
  BY <1>4 DEF FlowInv

\* the same when the channel and the caller are left alone
LEMMA FlowStays ==
  ASSUME RunInv, RunTypeOK', channel' = channel, client'.got = client.got,
         total' = total, Intact' => Intact,
         \A s \in Streams : Through(s)' <= Through(s),
         Intact' => \A s \in Streams :
           child'.printed[s] + Behind(s) = child.printed[s] + Behind(s)'
  PROVE  FlowInv'
<1>1. PICK q \in [Streams -> Nat] : FlowOf(q)
  BY DEF RunInv, FlowInv
<1>2. ASSUME NEW s \in Streams
      PROVE  /\ Through(s) \in Nat /\ Behind(s) \in Nat /\ child.printed[s] \in Nat
             /\ Through(s)' \in Nat /\ Behind(s)' \in Nat /\ child'.printed[s] \in Nat
             /\ q[s] \in Nat
  BY FlowTypes, FlowTypesNext DEF RunInv
<1>3. \A s \in Streams : Carries(channel, s, client.got[s], q[s])'
  BY <1>1 DEF FlowOf
<1>4. \A s \in Streams : Through(s)' + q[s] <= Through(s) + q[s]
  BY <1>2
<1>5. Intact' => \A s \in Streams :
        child'.printed[s] + Behind(s) + q[s] = child.printed[s] + Behind(s)' + q[s]
  BY <1>2
<1> QED
  BY <1>1, <1>3, <1>4, <1>5, FlowMoves

\* and when the response is dropped, so that the caller gets nothing more
LEMMA FlowCut ==
  ASSUME RunInv, RunTypeOK', channel' = <<>>, client'.got = client.got, total' = total,
         ~Intact', \A s \in Streams : Through(s)' <= Through(s)
  PROVE  FlowInv'
<1>1. PICK q \in [Streams -> Nat] : FlowOf(q)
  BY DEF RunInv, FlowInv
<1>2. PICK r \in [Streams -> Nat] : r = client.got
  BY DEF RunInv, RunTypeOK
<1>3. ASSUME NEW s \in Streams
      PROVE  /\ Through(s) \in Nat /\ Through(s)' \in Nat /\ q[s] \in Nat /\ r[s] \in Nat
             /\ r[s] <= q[s]
  <2>1. /\ Through(s) \in Nat /\ Through(s)' \in Nat /\ q[s] \in Nat /\ r[s] \in Nat
    BY FlowTypes, FlowTypesNext DEF RunInv
  <2>2. Carries(channel, s, r[s], q[s]) /\ channel \in Seq(Frame)
    BY <1>1, <1>2 DEF FlowOf, RunInv, RunTypeOK
  <2> QED
    BY <2>1, <2>2, CarriesGrows
<1>4. ASSUME NEW s \in Streams PROVE Carries(channel, s, client.got[s], r[s])'
  <2>1. Carries(<<>>, s, r[s], r[s])
    BY <1>3, CarriesEmpty
  <2> QED
    BY <1>2, <2>1
<1>5. \A s \in Streams : Through(s)' + r[s] <= Through(s) + q[s]
  BY <1>3
<1> QED
  BY <1>1, <1>4, <1>5, FlowMoves

\* one task changes, the other one does not
LEMMA TaskSet ==
  ASSUME NEW A, NEW f \in [Streams -> [at : A, bytes : Nat]], NEW s \in Streams,
         NEW a \in A, NEW n \in Nat, NEW g, g = [f EXCEPT ![s] = [at |-> a, bytes |-> n]]
  PROVE  /\ g \in [Streams -> [at : A, bytes : Nat]]
         /\ g[s].at = a /\ g[s].bytes = n
         /\ \A t \in Streams : t # s => g[t] = f[t]
  OBVIOUS

LEMMA BytesSet ==
  ASSUME NEW A, NEW f \in [Streams -> [at : A, bytes : Nat]], NEW s \in Streams,
         NEW n \in Nat, NEW g, g = [f EXCEPT ![s].bytes = n]
  PROVE  /\ g \in [Streams -> [at : A, bytes : Nat]]
         /\ g[s].at = f[s].at /\ g[s].bytes = n
         /\ \A t \in Streams : t # s => g[t] = f[t]
  OBVIOUS

LEMMA NumberSet ==
  ASSUME NEW B, NEW f \in [Streams -> B], NEW s \in Streams, NEW n \in B,
         NEW g, g = [f EXCEPT ![s] = n]
  PROVE  g \in [Streams -> B] /\ g[s] = n /\ \A t \in Streams : t # s => g[t] = f[t]
  OBVIOUS

LEMMA Step_Exits ==
  ASSUME RunInv, Exits
  PROVE  RunInv'
<1>1. RunTypeOK'
  BY DEF RunInv, RunTypeOK, Reasons, Exits
<1>2. HoldInv'
  BY DEF RunInv, HoldInv, Exits
<1>3. StartInv'
  BY DEF RunInv, RunTypeOK, HoldInv, StartInv, EndInv, ChannelInv, Live, Exits
<1>4. EndInv'
  BY DEF RunInv, RunTypeOK, HoldInv, StartInv, EndInv, ChannelInv, Live, Exits
<1>5. ChannelInv'
  BY DEF RunInv, RunTypeOK, HoldInv, StartInv, EndInv, ChannelInv, Live, Exits
<1>6. FlowInv'
  <2>1. Intact' => Intact
    BY DEF RunInv, RunTypeOK, HoldInv, StartInv, EndInv, ChannelInv, Live, Intact, Limited, Exits
  <2>2. \A s \in Streams : Through(s)' = Through(s) /\ Behind(s)' = Behind(s)
    BY DEF RunInv, RunTypeOK, Through, Behind, Exits
  <2>3. \A s \in Streams : Through(s) \in Nat /\ Behind(s) \in Nat
    BY FlowTypes DEF RunInv
  <2>4. \A s \in Streams : child'.printed[s] = child.printed[s]
    BY DEF RunInv, RunTypeOK, Exits
  <2> QED
    BY <1>1, <2>1, <2>2, <2>3, <2>4, FlowStays DEF Exits
<1> QED
  BY <1>1, <1>2, <1>3, <1>4, <1>5, <1>6 DEF RunInv

LEMMA Step_Wait ==
  ASSUME RunInv, Wait
  PROVE  RunInv'
<1>1. RunTypeOK'
  BY DEF RunInv, RunTypeOK, Reasons, Wait, Select
<1>2. HoldInv'
  BY DEF RunInv, HoldInv, Wait, Select
<1>3. StartInv'
  BY DEF RunInv, RunTypeOK, HoldInv, StartInv, EndInv, ChannelInv, Live, Wait, Select
<1>4. EndInv'
  BY DEF RunInv, RunTypeOK, HoldInv, StartInv, EndInv, ChannelInv, Live, Wait, Select
<1>5. ChannelInv'
  BY DEF RunInv, RunTypeOK, HoldInv, StartInv, EndInv, ChannelInv, Live, Wait, Select
<1>6. FlowInv'
  <2>1. Intact' => Intact
    BY DEF RunInv, RunTypeOK, HoldInv, StartInv, EndInv, ChannelInv, Live, Intact, Limited, Wait, Select
  <2>2. \A s \in Streams : Through(s)' = Through(s) /\ Behind(s)' = Behind(s)
    BY DEF RunInv, RunTypeOK, Through, Behind, Wait, Select
  <2>3. \A s \in Streams : Through(s) \in Nat /\ Behind(s) \in Nat
    BY FlowTypes DEF RunInv
  <2>4. \A s \in Streams : child'.printed[s] = child.printed[s]
    BY DEF RunInv, RunTypeOK, Wait, Select
  <2> QED
    BY <1>1, <2>1, <2>2, <2>3, <2>4, FlowStays DEF Wait, Select
<1> QED
  BY <1>1, <1>2, <1>3, <1>4, <1>5, <1>6 DEF RunInv

LEMMA Step_Timeout ==
  ASSUME RunInv, Timeout
  PROVE  RunInv'
<1>1. RunTypeOK'
  BY DEF RunInv, RunTypeOK, Reasons, Timeout, Select
<1>2. HoldInv'
  BY DEF RunInv, HoldInv, Timeout, Select
<1>3. StartInv'
  BY DEF RunInv, RunTypeOK, HoldInv, StartInv, EndInv, ChannelInv, Live, Timeout, Select
<1>4. EndInv'
  BY DEF RunInv, RunTypeOK, HoldInv, StartInv, EndInv, ChannelInv, Live, Timeout, Select
<1>5. ChannelInv'
  BY DEF RunInv, RunTypeOK, HoldInv, StartInv, EndInv, ChannelInv, Live, Timeout, Select
<1>6. FlowInv'
  <2>1. Intact' => Intact
    BY DEF RunInv, RunTypeOK, HoldInv, StartInv, EndInv, ChannelInv, Live, Intact, Limited, Timeout, Select
  <2>2. \A s \in Streams : Through(s)' = Through(s) /\ Behind(s)' = Behind(s)
    BY DEF RunInv, RunTypeOK, Through, Behind, Timeout, Select
  <2>3. \A s \in Streams : Through(s) \in Nat /\ Behind(s) \in Nat
    BY FlowTypes DEF RunInv
  <2>4. \A s \in Streams : child'.printed[s] = child.printed[s]
    BY DEF RunInv, RunTypeOK, Timeout, Select
  <2> QED
    BY <1>1, <2>1, <2>2, <2>3, <2>4, FlowStays DEF Timeout, Select
<1> QED
  BY <1>1, <1>2, <1>3, <1>4, <1>5, <1>6 DEF RunInv

LEMMA Step_Cancel ==
  ASSUME RunInv, Cancel
  PROVE  RunInv'
<1>1. RunTypeOK'
  BY DEF RunInv, RunTypeOK, Reasons, Cancel, Select
<1>2. HoldInv'
  BY DEF RunInv, HoldInv, Cancel, Select
<1>3. StartInv'
  BY DEF RunInv, RunTypeOK, HoldInv, StartInv, EndInv, ChannelInv, Live, Cancel, Select
<1>4. EndInv'
  BY DEF RunInv, RunTypeOK, HoldInv, StartInv, EndInv, ChannelInv, Live, Cancel, Select
<1>5. ChannelInv'
  BY DEF RunInv, RunTypeOK, HoldInv, StartInv, EndInv, ChannelInv, Live, Cancel, Select
<1>6. FlowInv'
  <2>1. Intact' => Intact
    BY DEF RunInv, RunTypeOK, HoldInv, StartInv, EndInv, ChannelInv, Live, Intact, Limited, Cancel, Select
  <2>2. \A s \in Streams : Through(s)' = Through(s) /\ Behind(s)' = Behind(s)
    BY DEF RunInv, RunTypeOK, Through, Behind, Cancel, Select
  <2>3. \A s \in Streams : Through(s) \in Nat /\ Behind(s) \in Nat
    BY FlowTypes DEF RunInv
  <2>4. \A s \in Streams : child'.printed[s] = child.printed[s]
    BY DEF RunInv, RunTypeOK, Cancel, Select
  <2> QED
    BY <1>1, <2>1, <2>2, <2>3, <2>4, FlowStays DEF Cancel, Select
<1> QED
  BY <1>1, <1>2, <1>3, <1>4, <1>5, <1>6 DEF RunInv

LEMMA Step_Limit ==
  ASSUME RunInv, Limit
  PROVE  RunInv'
<1>1. RunTypeOK'
  BY DEF RunInv, RunTypeOK, Reasons, Limit, Select
<1>2. HoldInv'
  BY DEF RunInv, HoldInv, Limit, Select
<1>3. StartInv'
  BY DEF RunInv, RunTypeOK, HoldInv, StartInv, EndInv, ChannelInv, Live, Limit, Select
<1>4. EndInv'
  BY DEF RunInv, RunTypeOK, HoldInv, StartInv, EndInv, ChannelInv, Live, Limit, Select
<1>5. ChannelInv'
  BY DEF RunInv, RunTypeOK, HoldInv, StartInv, EndInv, ChannelInv, Live, Limit, Select
<1>6. FlowInv'
  <2>1. Intact' => Intact
    BY DEF RunInv, RunTypeOK, HoldInv, StartInv, EndInv, ChannelInv, Live, Intact, Limited, Limit, Select
  <2>2. \A s \in Streams : Through(s)' = Through(s) /\ Behind(s)' = Behind(s)
    BY DEF RunInv, RunTypeOK, Through, Behind, Limit, Select
  <2>3. \A s \in Streams : Through(s) \in Nat /\ Behind(s) \in Nat
    BY FlowTypes DEF RunInv
  <2>4. \A s \in Streams : child'.printed[s] = child.printed[s]
    BY DEF RunInv, RunTypeOK, Limit, Select
  <2> QED
    BY <1>1, <2>1, <2>2, <2>3, <2>4, FlowStays DEF Limit, Select
<1> QED
  BY <1>1, <1>2, <1>3, <1>4, <1>5, <1>6 DEF RunInv

LEMMA Step_Kill ==
  ASSUME RunInv, Kill
  PROVE  RunInv'
<1>1. RunTypeOK'
  BY DEF RunInv, RunTypeOK, Reasons, Kill
<1>2. HoldInv'
  BY DEF RunInv, HoldInv, Kill
<1>3. StartInv'
  BY DEF RunInv, RunTypeOK, HoldInv, StartInv, EndInv, ChannelInv, Live, Kill
<1>4. EndInv'
  BY DEF RunInv, RunTypeOK, HoldInv, StartInv, EndInv, ChannelInv, Live, Kill
<1>5. ChannelInv'
  BY DEF RunInv, RunTypeOK, HoldInv, StartInv, EndInv, ChannelInv, Live, Kill
<1>6. FlowInv'
  <2>1. Intact' => Intact
    BY DEF RunInv, RunTypeOK, HoldInv, StartInv, EndInv, ChannelInv, Live, Intact, Limited, Kill
  <2>2. \A s \in Streams : Through(s)' = Through(s) /\ Behind(s)' = Behind(s)
    BY DEF RunInv, RunTypeOK, Through, Behind, Kill
  <2>3. \A s \in Streams : Through(s) \in Nat /\ Behind(s) \in Nat
    BY FlowTypes DEF RunInv
  <2>4. \A s \in Streams : child'.printed[s] = child.printed[s]
    BY DEF RunInv, RunTypeOK, Kill
  <2> QED
    BY <1>1, <2>1, <2>2, <2>3, <2>4, FlowStays DEF Kill
<1> QED
  BY <1>1, <1>2, <1>3, <1>4, <1>5, <1>6 DEF RunInv

LEMMA Step_join ==
  ASSUME RunInv, join
  PROVE  RunInv'
<1>1. RunTypeOK'
  BY DEF RunInv, RunTypeOK, Reasons, join
<1>2. HoldInv'
  BY DEF RunInv, HoldInv, join
<1>3. StartInv'
  BY DEF RunInv, RunTypeOK, HoldInv, StartInv, EndInv, ChannelInv, Live, join
<1>4. EndInv'
  BY DEF RunInv, RunTypeOK, HoldInv, StartInv, EndInv, ChannelInv, Live, join
<1>5. ChannelInv'
  BY DEF RunInv, RunTypeOK, HoldInv, StartInv, EndInv, ChannelInv, Live, join
<1>6. FlowInv'
  <2>1. Intact' => Intact
    BY DEF RunInv, RunTypeOK, HoldInv, StartInv, EndInv, ChannelInv, Live, Intact, Limited, join
  <2>2. \A s \in Streams : Through(s)' = Through(s) /\ Behind(s)' = Behind(s)
    BY DEF RunInv, RunTypeOK, Through, Behind, join
  <2>3. \A s \in Streams : Through(s) \in Nat /\ Behind(s) \in Nat
    BY FlowTypes DEF RunInv
  <2>4. \A s \in Streams : child'.printed[s] = child.printed[s]
    BY DEF RunInv, RunTypeOK, join
  <2> QED
    BY <1>1, <2>1, <2>2, <2>3, <2>4, FlowStays DEF join
<1> QED
  BY <1>1, <1>2, <1>3, <1>4, <1>5, <1>6 DEF RunInv

LEMMA Step_Prints ==
  ASSUME RunInv, NEW s \in Streams, Prints(s)
  PROVE  RunInv'
<1>0. /\ copy' = copy /\ total' = total /\ limitHit' = limitHit /\ notified' = notified
      /\ pipe' = pipe /\ forward' = forward /\ drive' = drive /\ outcome' = outcome
      /\ channel' = channel /\ client' = client
      /\ child.alive /\ child'.alive
      /\ child' \in [alive : BOOLEAN, printed : [Streams -> Nat], unread : [Streams -> Nat]]
      /\ child'.printed[s] = child.printed[s] + 1 /\ child'.unread[s] = child.unread[s] + 1
      /\ \A t \in Streams : t # s => child'.printed[t] = child.printed[t] /\ child'.unread[t] = child.unread[t]
  <2>1. child' = [alive |-> child.alive, printed |-> [child.printed EXCEPT ![s] = @ + 1],
                  unread |-> [child.unread EXCEPT ![s] = @ + 1]]
    BY DEF RunInv, RunTypeOK, Prints
  <2>2. child.printed \in [Streams -> Nat] /\ child.unread \in [Streams -> Nat] /\ child.alive
    BY DEF RunInv, RunTypeOK, Prints
  <2>3. child' \in [alive : BOOLEAN, printed : [Streams -> Nat], unread : [Streams -> Nat]]
    BY <2>1, <2>2 DEF RunInv, RunTypeOK
  <2>4. /\ child'.printed[s] = child.printed[s] + 1 /\ child'.unread[s] = child.unread[s] + 1
        /\ \A t \in Streams : t # s => child'.printed[t] = child.printed[t] /\ child'.unread[t] = child.unread[t]
    BY <2>1, <2>2
  <2>5. child.alive /\ child'.alive
    BY <2>1, <2>2
  <2> QED
    BY <2>3, <2>4, <2>5 DEF Prints
<1>1. RunTypeOK'
  BY <1>0, RunAssumption DEF RunInv, RunTypeOK
<1>2. HoldInv'
  <2> SUFFICES ASSUME NEW t \in Streams
               PROVE  /\ copy'[t].at \in {"top", "read", "over"} => copy'[t].bytes = 0
                      /\ forward'[t].at \in {"read", "over"} => forward'[t].bytes = 0
    BY DEF HoldInv
  <2>1. CASE t = s
    BY <1>0, <2>1 DEF RunInv, HoldInv
  <2>2. CASE t # s
    BY <1>0, <2>2 DEF RunInv, HoldInv
  <2> QED
    BY <2>1, <2>2
<1>3. StartInv'
  BY <1>0 DEF RunInv, RunTypeOK, HoldInv, StartInv, EndInv, ChannelInv, Live
<1>4. EndInv'
  <2>1. Live' => Live
    BY <1>0 DEF Live
  <2>2. \A t \in Streams : copy[t].at = "over" => copy'[t].at = "over"
    BY <1>0
  <2>3. ASSUME NEW t \in Streams
        PROVE  /\ Live' /\ forward'[t].at = "over" => pipe'[t] = 0 /\ copy'[t].at = "over"
               /\ Live' /\ ~limitHit' /\ drive' # "spawn" /\ copy'[t].at = "over"
                    => ~child'.alive /\ child'.unread[t] = 0
    <3>1. CASE t = s
      BY <1>0, <2>1, <3>1 DEF RunInv, EndInv
    <3>2. CASE t # s
      BY <1>0, <2>1, <3>2 DEF RunInv, EndInv
    <3> QED
      BY <3>1, <3>2
  <2>4. drive' \in {"forwarded", "over"} => \A t \in Streams : copy'[t].at = "over"
    BY <1>0, <2>2 DEF RunInv, EndInv
  <2>5. Live' /\ drive' = "over" => \A t \in Streams : forward'[t].at = "over"
    BY <1>0, <2>1 DEF RunInv, EndInv
  <2>6. Live' /\ limitHit' /\ drive' \in {"forwarded", "over"} => outcome' # "Exited"
    BY <1>0, <2>1 DEF RunInv, EndInv
  <2> QED
    BY <2>3, <2>4, <2>5, <2>6 DEF EndInv
<1>5. ChannelInv'
  BY <1>0 DEF RunInv, RunTypeOK, HoldInv, StartInv, EndInv, ChannelInv, Live
<1>6. FlowInv'
  <2>1. Intact' => Intact
    <3>1. limitHit => limitHit'
      BY <1>0
    <3>2. ASSUME NEW t \in Streams, copy[t].at = "last" PROVE Limited'
      <4>1. CASE t = s
        BY <1>0, <3>2, <4>1 DEF Limited
      <4>2. CASE t # s
        BY <1>0, <3>2, <4>2 DEF Limited
      <4> QED
        BY <4>1, <4>2
    <3> QED
      BY <1>0, <3>1, <3>2 DEF Intact, Limited, Live
  <2>2. \A t \in Streams : /\ Through(t)' <= Through(t)
                           /\ child'.printed[t] + Behind(t) = child.printed[t] + Behind(t)'
    <3> SUFFICES ASSUME NEW t \in Streams
                 PROVE  /\ Through(t)' <= Through(t)
                        /\ child'.printed[t] + Behind(t) = child.printed[t] + Behind(t)'
      OBVIOUS
    <3>1. /\ child.printed[t] \in Nat /\ child.unread[t] \in Nat /\ pipe[t] \in Nat
          /\ copy[t].bytes \in Nat /\ forward[t].bytes \in Nat
      BY FlowTypes DEF RunInv
    <3>2. CASE t = s
      BY <1>0, <3>1, <3>2 DEF Through, Behind
    <3>3. CASE t # s
      BY <1>0, <3>1, <3>3 DEF Through, Behind
    <3> QED
      BY <3>2, <3>3
  <2> QED
    BY <1>0, <1>1, <2>1, <2>2, FlowStays
<1> QED
  BY <1>1, <1>2, <1>3, <1>4, <1>5, <1>6 DEF RunInv

LEMMA Step_spawn ==
  ASSUME RunInv, spawn
  PROVE  RunInv'
<1>0. /\ total' = total /\ limitHit' = limitHit /\ notified' = notified /\ pipe' = pipe
      /\ forward' = forward /\ channel' = channel /\ client' = client
      /\ drive = "spawn" /\ child' \in [alive : BOOLEAN, printed : [Streams -> Nat], unread : [Streams -> Nat]]
      /\ copy' \in [Streams -> [at : CopyAt, bytes : Nat]]
      /\ child'.printed = child.printed /\ child'.unread = child.unread
      /\ \A t \in Streams : copy[t].at = "over" /\ copy[t].bytes = 0 /\ copy'[t].bytes = 0
      /\ \/ drive' = "select" /\ outcome' = outcome /\ \A t \in Streams : copy'[t].at = "top"
         \/ drive' = "join" /\ outcome' = "LaunchFailed" /\ child' = child /\ copy' = copy
  <2>1. drive = "spawn" /\ \A t \in Streams : copy[t].at = "over" /\ copy[t].bytes = 0
    BY DEF RunInv, StartInv, HoldInv, spawn
  <2>2. CASE /\ child' = [child EXCEPT !.alive = TRUE] /\ copy' = [t \in Streams |-> Task("top")]
             /\ drive' = "select" /\ outcome' = outcome
    <3>1. child' \in [alive : BOOLEAN, printed : [Streams -> Nat], unread : [Streams -> Nat]]
      BY <2>2 DEF RunInv, RunTypeOK
    <3>2. child'.printed = child.printed /\ child'.unread = child.unread
      BY <2>2 DEF RunInv, RunTypeOK
    <3>3. /\ copy' \in [Streams -> [at : CopyAt, bytes : Nat]]
          /\ \A t \in Streams : copy'[t].at = "top" /\ copy'[t].bytes = 0
      BY <2>2 DEF Task, CopyAt
    <3> QED
      BY <2>1, <2>2, <3>1, <3>2, <3>3 DEF spawn
  <2>3. CASE drive' = "join" /\ outcome' = "LaunchFailed" /\ child' = child /\ copy' = copy
    BY <2>1, <2>3 DEF RunInv, RunTypeOK, spawn
  <2> QED
    BY <2>2, <2>3 DEF spawn
<1>1. RunTypeOK'
  BY <1>0 DEF RunInv, RunTypeOK, Reasons
<1>2. HoldInv'
  BY <1>0 DEF RunInv, RunTypeOK, HoldInv, StartInv, EndInv, ChannelInv, Live
<1>3. StartInv'
  BY <1>0 DEF RunInv, RunTypeOK, HoldInv, StartInv, EndInv, ChannelInv, Live
<1>4. EndInv'
  BY <1>0 DEF RunInv, RunTypeOK, HoldInv, StartInv, EndInv, ChannelInv, Live
<1>5. ChannelInv'
  BY <1>0 DEF RunInv, RunTypeOK, HoldInv, StartInv, EndInv, ChannelInv, Live
<1>6. FlowInv'
  <2>1. Intact' => Intact
    BY <1>0 DEF RunInv, RunTypeOK, HoldInv, StartInv, EndInv, ChannelInv, Live, Intact, Limited
  <2>2. \A t \in Streams : /\ Through(t)' <= Through(t)
                           /\ child'.printed[t] + Behind(t) = child.printed[t] + Behind(t)'
    <3> SUFFICES ASSUME NEW t \in Streams
                 PROVE  /\ Through(t)' <= Through(t)
                        /\ child'.printed[t] + Behind(t) = child.printed[t] + Behind(t)'
      OBVIOUS
    <3>1. /\ child.printed[t] \in Nat /\ child.unread[t] \in Nat /\ pipe[t] \in Nat
          /\ copy[t].bytes \in Nat /\ forward[t].bytes \in Nat
      BY FlowTypes DEF RunInv
    <3> QED
      BY <1>0, <3>1 DEF Through, Behind
  <2> QED
    BY <1>0, <1>1, <2>1, <2>2, FlowStays
<1> QED
  BY <1>1, <1>2, <1>3, <1>4, <1>5, <1>6 DEF RunInv

LEMMA Step_copy_capped ==
  ASSUME RunInv, NEW s \in Streams, copy_capped(s)
  PROVE  RunInv'
<1>0. /\ total' = total /\ limitHit' = limitHit /\ notified' = notified /\ pipe' = pipe
      /\ forward' = forward /\ drive' = drive /\ outcome' = outcome /\ channel' = channel
      /\ client' = client
      /\ child' \in [alive : BOOLEAN, printed : [Streams -> Nat], unread : [Streams -> Nat]] /\ (child'.alive <=> child.alive)
      /\ copy' \in [Streams -> [at : CopyAt, bytes : Nat]]
      /\ child'.printed = child.printed
      /\ \A t \in Streams : t # s => child'.unread[t] = child.unread[t] /\ copy'[t] = copy[t]
      /\ copy[s].bytes = 0 /\ copy[s].at \in {"top", "read"}
      /\ child'.unread[s] + copy'[s].bytes = child.unread[s]
      /\ \/ copy'[s].at = "read" /\ copy'[s].bytes = 0
         \/ copy'[s].at = "over" /\ copy'[s].bytes = 0 /\ (limitHit \/ (~child.alive /\ child'.unread[s] = 0))
         \/ copy'[s].at = "count"
  <2>1. /\ copy[s].bytes = 0 /\ copy[s].at \in {"top", "read"} /\ child.unread[s] \in Nat
        /\ child.unread \in [Streams -> Nat] /\ copy \in [Streams -> [at : CopyAt, bytes : Nat]]
        /\ child \in [alive : BOOLEAN, printed : [Streams -> Nat], unread : [Streams -> Nat]]
    BY DEF RunInv, RunTypeOK, HoldInv, copy_capped
  <2>2. ASSUME NEW a \in {"read", "over"}, copy' = [copy EXCEPT ![s] = Task(a)], child' = child
        PROVE  /\ copy' \in [Streams -> [at : CopyAt, bytes : Nat]]
               /\ copy'[s].at = a /\ copy'[s].bytes = 0
               /\ \A t \in Streams : t # s => copy'[t] = copy[t]
    <3>1. copy' = [copy EXCEPT ![s] = [at |-> a, bytes |-> 0]] /\ a \in CopyAt /\ 0 \in Nat
      BY <2>2 DEF Task, CopyAt
    <3> QED
      BY <2>1, <3>1, TaskSet
  <2>3. ASSUME NEW n \in 1..Min({MaxChunk, child.unread[s]}),
               child' = [child EXCEPT !.unread[s] = @ - n],
               copy' = [copy EXCEPT ![s] = [at |-> "count", bytes |-> n]]
        PROVE  /\ child' \in [alive : BOOLEAN, printed : [Streams -> Nat], unread : [Streams -> Nat]]
               /\ (child'.alive <=> child.alive)
               /\ copy' \in [Streams -> [at : CopyAt, bytes : Nat]]
               /\ child'.printed = child.printed
               /\ \A t \in Streams : t # s => child'.unread[t] = child.unread[t] /\ copy'[t] = copy[t]
               /\ child'.unread[s] + copy'[s].bytes = child.unread[s]
               /\ copy'[s].at = "count"
    <3>1. n \in Nat /\ n <= child.unread[s] /\ child.unread[s] - n \in Nat
      <4>1. Min({MaxChunk, child.unread[s]}) \in Nat /\ Min({MaxChunk, child.unread[s]}) <= child.unread[s]
        BY <2>1, MinOfTwo, RunAssumption
      <4> QED
        BY <2>1, <4>1
    <3>2. child'.unread = [child.unread EXCEPT ![s] = child.unread[s] - n] /\ child'.printed = child.printed
      BY <2>1, <2>3
    <3>3. child'.alive <=> child.alive
      BY <2>1, <2>3
    <3>4. /\ child'.unread \in [Streams -> Nat] /\ child'.unread[s] = child.unread[s] - n
          /\ \A t \in Streams : t # s => child'.unread[t] = child.unread[t]
      BY <2>1, <3>1, <3>2, NumberSet
    <3>5. child' \in [alive : BOOLEAN, printed : [Streams -> Nat], unread : [Streams -> Nat]]
      BY <2>1, <2>3, <3>4
    <3>6. "count" \in CopyAt
      BY DEF CopyAt
    <3>7. /\ copy' \in [Streams -> [at : CopyAt, bytes : Nat]]
          /\ copy'[s].at = "count" /\ copy'[s].bytes = n
          /\ \A t \in Streams : t # s => copy'[t] = copy[t]
      BY <2>1, <2>3, <3>1, <3>6, TaskSet
    <3> QED
      BY <2>1, <3>1, <3>2, <3>3, <3>4, <3>5, <3>7
  <2>4. UNCHANGED <<total, limitHit, notified, pipe, forward, drive, outcome, channel, client>>
    BY DEF copy_capped
  <2>5. \/ child' = child /\ copy' = [copy EXCEPT ![s] = Task("read")]
        \/ /\ child' = child /\ copy' = [copy EXCEPT ![s] = Task("over")]
           /\ limitHit \/ (~child.alive /\ child.unread[s] = 0)
        \/ \E n \in 1..Min({MaxChunk, child.unread[s]}) :
             /\ child' = [child EXCEPT !.unread[s] = @ - n]
             /\ copy' = [copy EXCEPT ![s] = [at |-> "count", bytes |-> n]]
    <3>1. CASE copy[s].at = "top" /\ limitHit
      <4>1. child' = child /\ copy' = [copy EXCEPT ![s] = Task(IF limitHit THEN "over" ELSE "read")]
        BY <3>1 DEF copy_capped
      <4>2. (IF limitHit THEN "over" ELSE "read") = "over"
        BY <3>1
      <4>3. copy' = [copy EXCEPT ![s] = Task("over")]
        BY <4>1, <4>2, Zenon
      <4> QED
        BY <3>1, <4>1, <4>3, Zenon
    <3>2. CASE copy[s].at = "top" /\ ~limitHit
      BY <3>2 DEF copy_capped
    <3>3. CASE copy[s].at = "read"
      BY <3>3 DEF copy_capped
    <3> QED
      BY <2>1, <3>1, <3>2, <3>3
  <2>6. CASE child' = child /\ copy' = [copy EXCEPT ![s] = Task("read")]
    BY <2>1, <2>2, <2>4, <2>6
  <2>7. CASE /\ child' = child /\ copy' = [copy EXCEPT ![s] = Task("over")]
             /\ limitHit \/ (~child.alive /\ child.unread[s] = 0)
    BY <2>1, <2>2, <2>4, <2>7
  <2>8. CASE \E n \in 1..Min({MaxChunk, child.unread[s]}) :
               /\ child' = [child EXCEPT !.unread[s] = @ - n]
               /\ copy' = [copy EXCEPT ![s] = [at |-> "count", bytes |-> n]]
    BY <2>1, <2>3, <2>4, <2>8
  <2> QED
    BY <2>5, <2>6, <2>7, <2>8
<1>1. RunTypeOK'
  BY <1>0, RunAssumption DEF RunInv, RunTypeOK
<1>2. HoldInv'
  <2> SUFFICES ASSUME NEW t \in Streams
               PROVE  /\ copy'[t].at \in {"top", "read", "over"} => copy'[t].bytes = 0
                      /\ forward'[t].at \in {"read", "over"} => forward'[t].bytes = 0
    BY DEF HoldInv
  <2>1. CASE t = s
    BY <1>0, <2>1 DEF RunInv, HoldInv
  <2>2. CASE t # s
    BY <1>0, <2>2 DEF RunInv, HoldInv
  <2> QED
    BY <2>1, <2>2
<1>3. StartInv'
  BY <1>0 DEF RunInv, RunTypeOK, HoldInv, StartInv, EndInv, ChannelInv, Live
<1>4. EndInv'
  <2>1. Live' => Live
    BY <1>0 DEF Live
  <2>2. \A t \in Streams : copy[t].at = "over" => copy'[t].at = "over"
    BY <1>0
  <2>3. ASSUME NEW t \in Streams
        PROVE  /\ Live' /\ forward'[t].at = "over" => pipe'[t] = 0 /\ copy'[t].at = "over"
               /\ Live' /\ ~limitHit' /\ drive' # "spawn" /\ copy'[t].at = "over"
                    => ~child'.alive /\ child'.unread[t] = 0
    <3>1. CASE t = s
      BY <1>0, <2>1, <3>1 DEF RunInv, EndInv
    <3>2. CASE t # s
      BY <1>0, <2>1, <3>2 DEF RunInv, EndInv
    <3> QED
      BY <3>1, <3>2
  <2>4. drive' \in {"forwarded", "over"} => \A t \in Streams : copy'[t].at = "over"
    BY <1>0, <2>2 DEF RunInv, EndInv
  <2>5. Live' /\ drive' = "over" => \A t \in Streams : forward'[t].at = "over"
    BY <1>0, <2>1 DEF RunInv, EndInv
  <2>6. Live' /\ limitHit' /\ drive' \in {"forwarded", "over"} => outcome' # "Exited"
    BY <1>0, <2>1 DEF RunInv, EndInv
  <2> QED
    BY <2>3, <2>4, <2>5, <2>6 DEF EndInv
<1>5. ChannelInv'
  BY <1>0 DEF RunInv, RunTypeOK, HoldInv, StartInv, EndInv, ChannelInv, Live
<1>6. FlowInv'
  <2>1. Intact' => Intact
    <3>1. limitHit => limitHit'
      BY <1>0
    <3>2. ASSUME NEW t \in Streams, copy[t].at = "last" PROVE Limited'
      <4>1. CASE t = s
        BY <1>0, <3>2, <4>1 DEF Limited
      <4>2. CASE t # s
        BY <1>0, <3>2, <4>2 DEF Limited
      <4> QED
        BY <4>1, <4>2
    <3> QED
      BY <1>0, <3>1, <3>2 DEF Intact, Limited, Live
  <2>2. \A t \in Streams : /\ Through(t)' <= Through(t)
                           /\ child'.printed[t] + Behind(t) = child.printed[t] + Behind(t)'
    <3> SUFFICES ASSUME NEW t \in Streams
                 PROVE  /\ Through(t)' <= Through(t)
                        /\ child'.printed[t] + Behind(t) = child.printed[t] + Behind(t)'
      OBVIOUS
    <3>1. /\ child.printed[t] \in Nat /\ child.unread[t] \in Nat /\ pipe[t] \in Nat
          /\ copy[t].bytes \in Nat /\ forward[t].bytes \in Nat
      BY FlowTypes DEF RunInv
    <3>2. CASE t = s
      BY <1>0, <3>1, <3>2 DEF Through, Behind
    <3>3. CASE t # s
      BY <1>0, <3>1, <3>3 DEF Through, Behind
    <3> QED
      BY <3>2, <3>3
  <2> QED
    BY <1>0, <1>1, <2>1, <2>2, FlowStays
<1> QED
  BY <1>1, <1>2, <1>3, <1>4, <1>5, <1>6 DEF RunInv

LEMMA Step_ReachLimit ==
  ASSUME RunInv, NEW s \in Streams, ReachLimit(s)
  PROVE  RunInv'
<1>0. /\ child' = child /\ total' = total /\ pipe' = pipe /\ forward' = forward
      /\ drive' = drive /\ outcome' = outcome /\ channel' = channel /\ client' = client
      /\ copy' \in [Streams -> [at : CopyAt, bytes : Nat]]
      /\ limitHit' \in BOOLEAN /\ notified' \in BOOLEAN
      /\ \A t \in Streams : t # s => copy'[t] = copy[t]
      /\ copy[s].bytes = 0 /\ copy'[s].bytes = 0 /\ copy[s].at \in {"write", "last"}
      /\ \/ copy[s].at = "last" /\ copy'[s].at = "over" /\ limitHit'
         \/ copy[s].at = "write" /\ copy'[s].at = "top" /\ (limitHit' <=> limitHit)
  <2>1. copy \in [Streams -> [at : CopyAt, bytes : Nat]] /\ 0 \in Nat /\ "over" \in CopyAt /\ "top" \in CopyAt
    BY DEF RunInv, RunTypeOK, CopyAt
  <2>2. copy[s].bytes = 0 /\ copy[s].at \in {"write", "last"}
    BY DEF ReachLimit
  <2>3. CASE copy[s].at = "last"
    <3>1. copy' = [copy EXCEPT ![s] = [at |-> "over", bytes |-> 0]]
      BY <2>3 DEF ReachLimit, Task
    <3>2. limitHit' = TRUE /\ notified' = TRUE
      BY <2>3, Zenon DEF ReachLimit
    <3>3. /\ copy' \in [Streams -> [at : CopyAt, bytes : Nat]]
          /\ copy'[s].at = "over" /\ copy'[s].bytes = 0
          /\ \A t \in Streams : t # s => copy'[t] = copy[t]
      BY <2>1, <3>1, TaskSet
    <3> QED
      BY <2>2, <2>3, <3>2, <3>3 DEF ReachLimit
  <2>4. CASE copy[s].at = "write"
    <3>1. copy' = [copy EXCEPT ![s] = [at |-> "top", bytes |-> 0]]
      BY <2>4 DEF ReachLimit, Task
    <3>2. limitHit' = limitHit /\ notified' = notified
      BY <2>4 DEF ReachLimit
    <3>3. /\ copy' \in [Streams -> [at : CopyAt, bytes : Nat]]
          /\ copy'[s].at = "top" /\ copy'[s].bytes = 0
          /\ \A t \in Streams : t # s => copy'[t] = copy[t]
      BY <2>1, <3>1, TaskSet
    <3> QED
      BY <2>2, <2>4, <3>2, <3>3 DEF ReachLimit, RunInv, RunTypeOK
  <2> QED
    BY <2>2, <2>3, <2>4
<1>1. RunTypeOK'
  BY <1>0, RunAssumption DEF RunInv, RunTypeOK
<1>2. HoldInv'
  <2> SUFFICES ASSUME NEW t \in Streams
               PROVE  /\ copy'[t].at \in {"top", "read", "over"} => copy'[t].bytes = 0
                      /\ forward'[t].at \in {"read", "over"} => forward'[t].bytes = 0
    BY DEF HoldInv
  <2>1. CASE t = s
    BY <1>0, <2>1 DEF RunInv, HoldInv
  <2>2. CASE t # s
    BY <1>0, <2>2 DEF RunInv, HoldInv
  <2> QED
    BY <2>1, <2>2
<1>3. StartInv'
  BY <1>0 DEF RunInv, RunTypeOK, HoldInv, StartInv, EndInv, ChannelInv, Live
<1>4. EndInv'
  <2>1. Live' => Live
    BY <1>0 DEF Live
  <2>2. \A t \in Streams : copy[t].at = "over" => copy'[t].at = "over"
    BY <1>0
  <2>3. ASSUME NEW t \in Streams
        PROVE  /\ Live' /\ forward'[t].at = "over" => pipe'[t] = 0 /\ copy'[t].at = "over"
               /\ Live' /\ ~limitHit' /\ drive' # "spawn" /\ copy'[t].at = "over"
                    => ~child'.alive /\ child'.unread[t] = 0
    <3>1. CASE t = s
      BY <1>0, <2>1, <3>1 DEF RunInv, EndInv
    <3>2. CASE t # s
      BY <1>0, <2>1, <3>2 DEF RunInv, EndInv
    <3> QED
      BY <3>1, <3>2
  <2>4. drive' \in {"forwarded", "over"} => \A t \in Streams : copy'[t].at = "over"
    BY <1>0, <2>2 DEF RunInv, EndInv
  <2>5. Live' /\ drive' = "over" => \A t \in Streams : forward'[t].at = "over"
    BY <1>0, <2>1 DEF RunInv, EndInv
  <2>6. Live' /\ limitHit' /\ drive' \in {"forwarded", "over"} => outcome' # "Exited"
    BY <1>0, <2>1 DEF RunInv, EndInv
  <2> QED
    BY <2>3, <2>4, <2>5, <2>6 DEF EndInv
<1>5. ChannelInv'
  BY <1>0 DEF RunInv, RunTypeOK, HoldInv, StartInv, EndInv, ChannelInv, Live
<1>6. FlowInv'
  <2>1. Intact' => Intact
    <3>1. limitHit => limitHit'
      BY <1>0
    <3>2. ASSUME NEW t \in Streams, copy[t].at = "last" PROVE Limited'
      <4>1. CASE t = s
        BY <1>0, <3>2, <4>1 DEF Limited
      <4>2. CASE t # s
        BY <1>0, <3>2, <4>2 DEF Limited
      <4> QED
        BY <4>1, <4>2
    <3> QED
      BY <1>0, <3>1, <3>2 DEF Intact, Limited, Live
  <2>2. \A t \in Streams : /\ Through(t)' <= Through(t)
                           /\ child'.printed[t] + Behind(t) = child.printed[t] + Behind(t)'
    <3> SUFFICES ASSUME NEW t \in Streams
                 PROVE  /\ Through(t)' <= Through(t)
                        /\ child'.printed[t] + Behind(t) = child.printed[t] + Behind(t)'
      OBVIOUS
    <3>1. /\ child.printed[t] \in Nat /\ child.unread[t] \in Nat /\ pipe[t] \in Nat
          /\ copy[t].bytes \in Nat /\ forward[t].bytes \in Nat
      BY FlowTypes DEF RunInv
    <3>2. CASE t = s
      BY <1>0, <3>1, <3>2 DEF Through, Behind
    <3>3. CASE t # s
      BY <1>0, <3>1, <3>3 DEF Through, Behind
    <3> QED
      BY <3>2, <3>3
  <2> QED
    BY <1>0, <1>1, <2>1, <2>2, FlowStays
<1> QED
  BY <1>1, <1>2, <1>3, <1>4, <1>5, <1>6 DEF RunInv

LEMMA Step_WriteBytes ==
  ASSUME RunInv, NEW s \in Streams, WriteBytes(s)
  PROVE  RunInv'
<1>0. /\ child' = child /\ total' = total /\ limitHit' = limitHit /\ notified' = notified
      /\ forward' = forward /\ drive' = drive /\ outcome' = outcome /\ channel' = channel
      /\ client' = client
      /\ copy' \in [Streams -> [at : CopyAt, bytes : Nat]] /\ pipe' \in [Streams -> 0..PipeCapacity]
      /\ \A t \in Streams : t # s => copy'[t] = copy[t] /\ pipe'[t] = pipe[t]
      /\ copy'[s].at = copy[s].at /\ copy[s].at \in {"write", "last"} /\ ~ (Live /\ forward[s].at = "over")
      /\ copy'[s].bytes + pipe'[s] <= copy[s].bytes + pipe[s]
      /\ Live => copy'[s].bytes + pipe'[s] = copy[s].bytes + pipe[s]
      /\ copy'[s].bytes \in Nat /\ pipe'[s] \in Nat
  <2>1. copy[s].at \in {"write", "last"} /\ ~ (Live /\ forward[s].at = "over")
    BY DEF RunInv, EndInv, WriteBytes
  <2>2. /\ copy[s].bytes \in Nat /\ pipe[s] \in 0..PipeCapacity /\ PipeCapacity - pipe[s] \in Nat
        /\ copy \in [Streams -> [at : CopyAt, bytes : Nat]] /\ pipe \in [Streams -> 0..PipeCapacity]
        /\ 0 \in Nat /\ PipeCapacity \in Nat
    BY RunAssumption DEF RunInv, RunTypeOK
  <2>3. CASE forward[s].at = "over"
    <3>1. pipe' = pipe /\ copy' = [copy EXCEPT ![s].bytes = 0]
      BY <2>3 DEF WriteBytes
    <3>2. /\ copy' \in [Streams -> [at : CopyAt, bytes : Nat]]
          /\ copy'[s].at = copy[s].at /\ copy'[s].bytes = 0
          /\ \A t \in Streams : t # s => copy'[t] = copy[t]
      BY <2>2, <3>1, BytesSet
    <3> QED
      BY <2>1, <2>2, <2>3, <3>1, <3>2 DEF WriteBytes
  <2>4. CASE forward[s].at # "over"
    <3> DEFINE n == Min({copy[s].bytes, PipeCapacity - pipe[s]})
    <3>1. n \in Nat /\ n <= copy[s].bytes /\ n <= PipeCapacity - pipe[s]
      BY <2>2, MinOfTwo
    <3>2. pipe' = [pipe EXCEPT ![s] = pipe[s] + n] /\ copy' = [copy EXCEPT ![s].bytes = copy[s].bytes - n]
      BY <2>2, <2>4 DEF WriteBytes
    <3> HIDE DEF n
    <3>3. pipe[s] + n \in 0..PipeCapacity /\ copy[s].bytes - n \in Nat
      BY <2>2, <3>1
    <3>4. /\ pipe' \in [Streams -> 0..PipeCapacity] /\ pipe'[s] = pipe[s] + n
          /\ \A t \in Streams : t # s => pipe'[t] = pipe[t]
      BY <2>2, <3>2, <3>3, NumberSet
    <3>5. /\ copy' \in [Streams -> [at : CopyAt, bytes : Nat]]
          /\ copy'[s].at = copy[s].at /\ copy'[s].bytes = copy[s].bytes - n
          /\ \A t \in Streams : t # s => copy'[t] = copy[t]
      BY <2>2, <3>2, <3>3, BytesSet
    <3>6. copy'[s].bytes + pipe'[s] = copy[s].bytes + pipe[s] /\ copy'[s].bytes \in Nat /\ pipe'[s] \in Nat
      BY <2>2, <3>1, <3>3, <3>4, <3>5
    <3>7. /\ child' = child /\ total' = total /\ limitHit' = limitHit /\ notified' = notified
          /\ forward' = forward /\ drive' = drive /\ outcome' = outcome /\ channel' = channel
          /\ client' = client
      BY DEF WriteBytes
    <3> QED
      BY <2>1, <2>2, <3>4, <3>5, <3>6, <3>7
  <2> QED
    BY <2>3, <2>4
<1>1. RunTypeOK'
  BY <1>0, RunAssumption DEF RunInv, RunTypeOK
<1>2. HoldInv'
  <2> SUFFICES ASSUME NEW t \in Streams
               PROVE  /\ copy'[t].at \in {"top", "read", "over"} => copy'[t].bytes = 0
                      /\ forward'[t].at \in {"read", "over"} => forward'[t].bytes = 0
    BY DEF HoldInv
  <2>1. CASE t = s
    BY <1>0, <2>1 DEF RunInv, HoldInv
  <2>2. CASE t # s
    BY <1>0, <2>2 DEF RunInv, HoldInv
  <2> QED
    BY <2>1, <2>2
<1>3. StartInv'
  BY <1>0 DEF RunInv, RunTypeOK, HoldInv, StartInv, EndInv, ChannelInv, Live
<1>4. EndInv'
  <2>1. Live' => Live
    BY <1>0 DEF Live
  <2>2. \A t \in Streams : copy[t].at = "over" => copy'[t].at = "over"
    BY <1>0
  <2>3. ASSUME NEW t \in Streams
        PROVE  /\ Live' /\ forward'[t].at = "over" => pipe'[t] = 0 /\ copy'[t].at = "over"
               /\ Live' /\ ~limitHit' /\ drive' # "spawn" /\ copy'[t].at = "over"
                    => ~child'.alive /\ child'.unread[t] = 0
    <3>1. CASE t = s
      BY <1>0, <2>1, <3>1 DEF RunInv, EndInv
    <3>2. CASE t # s
      BY <1>0, <2>1, <3>2 DEF RunInv, EndInv
    <3> QED
      BY <3>1, <3>2
  <2>4. drive' \in {"forwarded", "over"} => \A t \in Streams : copy'[t].at = "over"
    BY <1>0, <2>2 DEF RunInv, EndInv
  <2>5. Live' /\ drive' = "over" => \A t \in Streams : forward'[t].at = "over"
    BY <1>0, <2>1 DEF RunInv, EndInv
  <2>6. Live' /\ limitHit' /\ drive' \in {"forwarded", "over"} => outcome' # "Exited"
    BY <1>0, <2>1 DEF RunInv, EndInv
  <2> QED
    BY <2>3, <2>4, <2>5, <2>6 DEF EndInv
<1>5. ChannelInv'
  BY <1>0 DEF RunInv, RunTypeOK, HoldInv, StartInv, EndInv, ChannelInv, Live
<1>6. FlowInv'
  <2>1. Intact' => Intact
    <3>1. limitHit => limitHit'
      BY <1>0
    <3>2. ASSUME NEW t \in Streams, copy[t].at = "last" PROVE Limited'
      <4>1. CASE t = s
        BY <1>0, <3>2, <4>1 DEF Limited
      <4>2. CASE t # s
        BY <1>0, <3>2, <4>2 DEF Limited
      <4> QED
        BY <4>1, <4>2
    <3> QED
      BY <1>0, <3>1, <3>2 DEF Intact, Limited, Live
  <2>2. \A t \in Streams : /\ Through(t)' <= Through(t)
                           /\ Intact' => child'.printed[t] + Behind(t) = child.printed[t] + Behind(t)'
    <3> SUFFICES ASSUME NEW t \in Streams
                 PROVE  /\ Through(t)' <= Through(t)
                        /\ Intact' => child'.printed[t] + Behind(t) = child.printed[t] + Behind(t)'
      OBVIOUS
    <3>1. /\ child.printed[t] \in Nat /\ child.unread[t] \in Nat /\ pipe[t] \in Nat
          /\ copy[t].bytes \in Nat /\ forward[t].bytes \in Nat
      BY FlowTypes DEF RunInv
    <3>2. CASE t = s
      BY <1>0, <2>1, <3>1, <3>2 DEF Through, Behind, Intact
    <3>3. CASE t # s
      BY <1>0, <3>1, <3>3 DEF Through, Behind
    <3> QED
      BY <3>2, <3>3
  <2>3. channel' = channel /\ client'.got = client.got /\ total' = total
    BY <1>0
  <2>4. \A t \in Streams : Through(t)' <= Through(t)
    BY <2>2
  <2>5. ASSUME Intact'
        PROVE  \A t \in Streams : child'.printed[t] + Behind(t) = child.printed[t] + Behind(t)'
    BY <2>2, <2>5
  <2> QED
    BY <1>1, <2>1, <2>3, <2>4, <2>5, FlowStays
<1> QED
  BY <1>1, <1>2, <1>3, <1>4, <1>5, <1>6 DEF RunInv

LEMMA Step_CountBytes ==
  ASSUME RunInv, NEW s \in Streams, CountBytes(s)
  PROVE  RunInv'
<1>0. /\ child' = child /\ limitHit' = limitHit /\ notified' = notified /\ pipe' = pipe
      /\ forward' = forward /\ drive' = drive /\ outcome' = outcome /\ channel' = channel
      /\ client' = client
      /\ copy' \in [Streams -> [at : CopyAt, bytes : Nat]] /\ total' \in Nat /\ total' = total + copy[s].bytes
      /\ \A t \in Streams : t # s => copy'[t] = copy[t]
      /\ copy[s].at = "count" /\ copy'[s].at \in {"write", "last"} /\ copy[s].bytes \in Nat
      /\ copy'[s].bytes = Allowed(s) /\ Allowed(s) \in Nat
      /\ copy'[s].at = "write" => Allowed(s) = copy[s].bytes
      /\ Min({total, MaxOutputBytes}) + Allowed(s) <= Min({total, MaxOutputBytes})'
  <2> DEFINE m == Min({total, MaxOutputBytes})
             b == copy[s].bytes
             a == IF total + b >= MaxOutputBytes THEN "last" ELSE "write"
  <2>1. b \in Nat /\ total \in Nat /\ MaxOutputBytes \in Nat /\ copy[s].at = "count"
    BY RunAssumption DEF RunInv, RunTypeOK, CountBytes, Count
  <2>2. m \in Nat /\ m = IF total <= MaxOutputBytes THEN total ELSE MaxOutputBytes
    BY <2>1, MinOfTwo
  <2>3. Allowed(s) = Min({b, MaxOutputBytes - m})
    BY DEF Allowed
  <2>4. total' = total + b /\ copy' = [copy EXCEPT ![s] = [at |-> a, bytes |-> Allowed(s)]]
    BY DEF CountBytes, Count
  <2>5. Min({total, MaxOutputBytes})' = Min({total + b, MaxOutputBytes})
    BY <2>4
  <2>6. a \in CopyAt /\ a \in {"write", "last"} /\ (a = "write" => total + b < MaxOutputBytes)
    BY <2>1 DEF CopyAt
  <2> HIDE DEF m, b, a
  <2>7. MaxOutputBytes - m \in Nat
    BY <2>1, <2>2
  <2>8. Allowed(s) \in Nat /\ Allowed(s) = IF b <= MaxOutputBytes - m THEN b ELSE MaxOutputBytes - m
    BY <2>1, <2>3, <2>7, MinOfTwo
  <2>9. Min({total + b, MaxOutputBytes}) = IF total + b <= MaxOutputBytes THEN total + b ELSE MaxOutputBytes
    BY <2>1, MinOfTwo
  <2>10. m + Allowed(s) <= Min({total, MaxOutputBytes})'
    BY <2>1, <2>2, <2>5, <2>8, <2>9
  <2>11. a = "write" => Allowed(s) = b
    BY <2>1, <2>2, <2>6, <2>8
  <2>12. /\ copy' \in [Streams -> [at : CopyAt, bytes : Nat]]
         /\ copy'[s].at = a /\ copy'[s].bytes = Allowed(s)
         /\ \A t \in Streams : t # s => copy'[t] = copy[t]
    <3>1. copy \in [Streams -> [at : CopyAt, bytes : Nat]]
      BY DEF RunInv, RunTypeOK
    <3> QED
      BY <2>4, <2>6, <2>8, <3>1, TaskSet
  <2>13. /\ child' = child /\ limitHit' = limitHit /\ notified' = notified /\ pipe' = pipe
         /\ forward' = forward /\ drive' = drive /\ outcome' = outcome /\ channel' = channel
         /\ client' = client
    BY DEF CountBytes, Count
  <2>14. Min({total, MaxOutputBytes}) + Allowed(s) <= Min({total, MaxOutputBytes})'
    BY <2>10 DEF m
  <2>15. total' = total + copy[s].bytes /\ copy[s].bytes \in Nat /\ total' \in Nat
    BY <2>1, <2>4 DEF b
  <2>16. copy'[s].at = "write" => Allowed(s) = copy[s].bytes
    BY <2>11, <2>12 DEF b
  <2>17. copy'[s].at \in {"write", "last"}
    BY <2>6, <2>12
  <2> QED
    BY <2>1, <2>8, <2>12, <2>13, <2>14, <2>15, <2>16, <2>17
<1>1. RunTypeOK'
  BY <1>0, RunAssumption DEF RunInv, RunTypeOK
<1>2. HoldInv'
  <2> SUFFICES ASSUME NEW t \in Streams
               PROVE  /\ copy'[t].at \in {"top", "read", "over"} => copy'[t].bytes = 0
                      /\ forward'[t].at \in {"read", "over"} => forward'[t].bytes = 0
    BY DEF HoldInv
  <2>1. CASE t = s
    BY <1>0, <2>1 DEF RunInv, HoldInv
  <2>2. CASE t # s
    BY <1>0, <2>2 DEF RunInv, HoldInv
  <2> QED
    BY <2>1, <2>2
<1>3. StartInv'
  BY <1>0 DEF RunInv, RunTypeOK, HoldInv, StartInv, EndInv, ChannelInv, Live
<1>4. EndInv'
  <2>1. Live' => Live
    BY <1>0 DEF Live
  <2>2. \A t \in Streams : copy[t].at = "over" => copy'[t].at = "over"
    BY <1>0
  <2>3. ASSUME NEW t \in Streams
        PROVE  /\ Live' /\ forward'[t].at = "over" => pipe'[t] = 0 /\ copy'[t].at = "over"
               /\ Live' /\ ~limitHit' /\ drive' # "spawn" /\ copy'[t].at = "over"
                    => ~child'.alive /\ child'.unread[t] = 0
    <3>1. CASE t = s
      BY <1>0, <2>1, <3>1 DEF RunInv, EndInv
    <3>2. CASE t # s
      BY <1>0, <2>1, <3>2 DEF RunInv, EndInv
    <3> QED
      BY <3>1, <3>2
  <2>4. drive' \in {"forwarded", "over"} => \A t \in Streams : copy'[t].at = "over"
    BY <1>0, <2>2 DEF RunInv, EndInv
  <2>5. Live' /\ drive' = "over" => \A t \in Streams : forward'[t].at = "over"
    BY <1>0, <2>1 DEF RunInv, EndInv
  <2>6. Live' /\ limitHit' /\ drive' \in {"forwarded", "over"} => outcome' # "Exited"
    BY <1>0, <2>1 DEF RunInv, EndInv
  <2> QED
    BY <2>3, <2>4, <2>5, <2>6 DEF EndInv
<1>5. ChannelInv'
  BY <1>0 DEF RunInv, RunTypeOK, HoldInv, StartInv, EndInv, ChannelInv, Live
<1>6. FlowInv'
  <2>1. Intact' => Intact
    <3>1. ASSUME NEW t \in Streams, copy[t].at = "last" PROVE Limited'
      <4>1. CASE t = s
        BY <1>0, <3>1, <4>1 DEF Limited
      <4>2. CASE t # s
        BY <1>0, <3>1, <4>2 DEF Limited
      <4> QED
        BY <4>1, <4>2
    <3> QED
      BY <1>0, <3>1 DEF Intact, Limited, Live
  <2>2. PICK q \in [Streams -> Nat] : FlowOf(q)
    BY DEF RunInv, FlowInv
  <2> DEFINE m == Min({total, MaxOutputBytes})
  <2>3. ASSUME NEW t \in Streams
        PROVE  /\ Through(t) \in Nat /\ Through(t)' \in Nat /\ q[t] \in Nat /\ m \in Nat
               /\ Through(t)' = IF t = s THEN Through(t) + Allowed(s) ELSE Through(t)
               /\ Intact' => Behind(t)' = Behind(t)
    <3>1. /\ child.unread[t] \in Nat /\ pipe[t] \in Nat /\ Through(t) \in Nat /\ m \in Nat
          /\ copy[t].bytes \in Nat /\ forward[t].bytes \in Nat
      BY FlowTypes DEF RunInv
    <3>2. CASE t = s
      <4>1. Intact' => copy'[s].at = "write"
        BY <1>0 DEF Intact, Limited
      <4> HIDE DEF m
      <4>2. Through(t) = pipe[t] + forward[t].bytes
        BY <1>0, <3>1, <3>2 DEF Through
      <4>3. Through(t)' = Allowed(s) + pipe[t] + forward[t].bytes
        BY <1>0, <3>2 DEF Through
      <4>4. Intact' => Behind(t)' = Behind(t)
        BY <1>0, <3>2, <4>1 DEF Behind
      <4> QED
        BY <1>0, <3>1, <3>2, <4>2, <4>3, <4>4
    <3>3. CASE t # s
      BY <1>0, <3>1, <3>3 DEF Through, Behind
    <3> QED
      BY <3>2, <3>3
  <2>4. ASSUME NEW t \in Streams
        PROVE  Carries(channel, t, client.got[t], q[t])' /\ (Intact' => child'.printed[t] = Behind(t)' + q[t])
    BY <1>0, <2>1, <2>2, <2>3, <2>4 DEF FlowOf
  <2>5. ASSUME NEW t \in Streams, NEW u \in Streams, t # u
        PROVE  Through(t)' + q[t] + Through(u)' + q[u] <= m'
    <3>1. Through(t) + q[t] + Through(u) + q[u] <= m
      BY <2>2, <2>5 DEF FlowOf
    <3>2. m + Allowed(s) <= m' /\ m' \in Nat /\ Allowed(s) \in Nat
      <4>1. m' \in Nat
        BY <1>0, MinOfTwo, RunAssumption
      <4> QED
        BY <1>0, <4>1
    <3> HIDE DEF m
    <3>3. Through(t)' + Through(u)' <= Through(t) + Through(u) + Allowed(s)
      BY <2>3, <2>5, <3>2
    <3> QED
      BY <2>3, <3>1, <3>2, <3>3
  <2>6. FlowOf(q)'
    BY <2>4, <2>5 DEF FlowOf
  <2> QED
    BY <2>6 DEF FlowInv
<1> QED
  BY <1>1, <1>2, <1>3, <1>4, <1>5, <1>6 DEF RunInv

\* a forward task takes bytes from its pipe, or finds that it has ended
LEMMA Step_ForwardRead ==
  ASSUME RunInv, NEW s \in Streams, Forward(s), forward[s].at = "read"
  PROVE  RunInv'
<1>0. /\ child' = child /\ copy' = copy /\ total' = total /\ limitHit' = limitHit
      /\ notified' = notified /\ drive' = drive /\ outcome' = outcome /\ channel' = channel
      /\ client' = client
      /\ forward' \in [Streams -> [at : ForwardAt, bytes : Nat]] /\ pipe' \in [Streams -> 0..PipeCapacity]
      /\ \A t \in Streams : t # s => forward'[t] = forward[t] /\ pipe'[t] = pipe[t]
      /\ forward[s].at = "read" /\ forward[s].bytes = 0
      /\ forward'[s].bytes \in Nat /\ pipe'[s] \in Nat /\ pipe'[s] + forward'[s].bytes = pipe[s]
      /\ \/ forward'[s].at = "over" /\ forward'[s].bytes = 0 /\ pipe[s] = 0 /\ pipe'[s] = 0 /\ drive # "spawn" /\ copy[s].at = "over"
         \/ forward'[s].at = "send"
  <2>1. /\ forward[s].bytes = 0 /\ pipe[s] \in 0..PipeCapacity /\ pipe[s] \in Nat
        /\ forward \in [Streams -> [at : ForwardAt, bytes : Nat]] /\ pipe \in [Streams -> 0..PipeCapacity]
        /\ 0 \in Nat /\ PipeCapacity \in Nat /\ MaxChunk \in Nat
        /\ {"over", "send"} \subseteq ForwardAt
    BY RunAssumption DEF RunInv, RunTypeOK, HoldInv, ForwardAt
  <2>2. /\ child' = child /\ copy' = copy /\ total' = total /\ limitHit' = limitHit
        /\ notified' = notified /\ drive' = drive /\ outcome' = outcome /\ channel' = channel
        /\ client' = client
    BY DEF Forward
  <2>3. CASE pipe[s] = 0 /\ Dropped(s) /\ pipe' = pipe /\ forward' = [forward EXCEPT ![s] = Task("over")]
    <3>1. forward' = [forward EXCEPT ![s] = [at |-> "over", bytes |-> 0]]
      BY <2>3 DEF Task
    <3>2. /\ forward' \in [Streams -> [at : ForwardAt, bytes : Nat]]
          /\ forward'[s].at = "over" /\ forward'[s].bytes = 0
          /\ \A t \in Streams : t # s => forward'[t] = forward[t]
      BY <2>1, <3>1, TaskSet
    <3> QED
      BY <2>1, <2>2, <2>3, <3>2 DEF Dropped
  <2>4. CASE \E n \in {Min({MaxChunk, pipe[s]})} \ {0} :
               /\ pipe' = [pipe EXCEPT ![s] = @ - n]
               /\ forward' = [forward EXCEPT ![s] = [at |-> "send", bytes |-> n]]
    <3> DEFINE n == Min({MaxChunk, pipe[s]})
    <3>1. n \in Nat /\ n <= pipe[s]
      BY <2>1, MinOfTwo
    <3>2. pipe' = [pipe EXCEPT ![s] = pipe[s] - n] /\ forward' = [forward EXCEPT ![s] = [at |-> "send", bytes |-> n]]
      BY <2>1, <2>4
    <3> HIDE DEF n
    <3>3. pipe[s] - n \in 0..PipeCapacity
      BY <2>1, <3>1
    <3>4. /\ pipe' \in [Streams -> 0..PipeCapacity] /\ pipe'[s] = pipe[s] - n
          /\ \A t \in Streams : t # s => pipe'[t] = pipe[t]
      BY <2>1, <3>2, <3>3, NumberSet
    <3>5. /\ forward' \in [Streams -> [at : ForwardAt, bytes : Nat]]
          /\ forward'[s].at = "send" /\ forward'[s].bytes = n
          /\ \A t \in Streams : t # s => forward'[t] = forward[t]
      BY <2>1, <3>1, <3>2, TaskSet
    <3>6. pipe'[s] \in Nat /\ pipe'[s] + forward'[s].bytes = pipe[s] /\ forward'[s].bytes \in Nat
      BY <2>1, <3>1, <3>4, <3>5
    <3> QED
      BY <2>1, <2>2, <3>4, <3>5, <3>6
  <2> QED
    BY <2>3, <2>4 DEF Forward
<1>1. RunTypeOK'
  BY <1>0, RunAssumption DEF RunInv, RunTypeOK
<1>2. HoldInv'
  <2> SUFFICES ASSUME NEW t \in Streams
               PROVE  /\ copy'[t].at \in {"top", "read", "over"} => copy'[t].bytes = 0
                      /\ forward'[t].at \in {"read", "over"} => forward'[t].bytes = 0
    BY DEF HoldInv
  <2>1. CASE t = s
    BY <1>0, <2>1 DEF RunInv, HoldInv
  <2>2. CASE t # s
    BY <1>0, <2>2 DEF RunInv, HoldInv
  <2> QED
    BY <2>1, <2>2
<1>3. StartInv'
  <2>1. \A t \in Streams : t # s => forward'[t].at = forward[t].at
    BY <1>0
  <2>2. drive' = "spawn" => forward'[s].at = "send"
    BY <1>0
  <2>3. Live' <=> Live
    BY <1>0 DEF Live
  <2> QED
    BY <1>0, <2>1, <2>2, <2>3 DEF RunInv, StartInv
<1>4. EndInv'
  <2>1. Live' => Live
    BY <1>0 DEF Live
  <2>2. \A t \in Streams : copy[t].at = "over" => copy'[t].at = "over"
    BY <1>0
  <2>3. ASSUME NEW t \in Streams
        PROVE  /\ Live' /\ forward'[t].at = "over" => pipe'[t] = 0 /\ copy'[t].at = "over"
               /\ Live' /\ ~limitHit' /\ drive' # "spawn" /\ copy'[t].at = "over"
                    => ~child'.alive /\ child'.unread[t] = 0
    <3>1. CASE t = s
      BY <1>0, <2>1, <3>1 DEF RunInv, EndInv
    <3>2. CASE t # s
      BY <1>0, <2>1, <3>2 DEF RunInv, EndInv
    <3> QED
      BY <3>1, <3>2
  <2>4. drive' \in {"forwarded", "over"} => \A t \in Streams : copy'[t].at = "over"
    BY <1>0, <2>2 DEF RunInv, EndInv
  <2>5. Live' /\ drive' = "over" => \A t \in Streams : forward'[t].at = "over"
    BY <1>0, <2>1 DEF RunInv, EndInv
  <2>6. Live' /\ limitHit' /\ drive' \in {"forwarded", "over"} => outcome' # "Exited"
    BY <1>0, <2>1 DEF RunInv, EndInv
  <2> QED
    BY <2>3, <2>4, <2>5, <2>6 DEF EndInv
<1>5. ChannelInv'
  BY <1>0 DEF RunInv, RunTypeOK, HoldInv, StartInv, EndInv, ChannelInv, Live
<1>6. FlowInv'
  <2>1. Intact' => Intact
    <3>1. limitHit => limitHit'
      BY <1>0
    <3>2. ASSUME NEW t \in Streams, copy[t].at = "last" PROVE Limited'
      <4>1. CASE t = s
        BY <1>0, <3>2, <4>1 DEF Limited
      <4>2. CASE t # s
        BY <1>0, <3>2, <4>2 DEF Limited
      <4> QED
        BY <4>1, <4>2
    <3> QED
      BY <1>0, <3>1, <3>2 DEF Intact, Limited, Live
  <2>2. \A t \in Streams : /\ Through(t)' <= Through(t)
                           /\ child'.printed[t] + Behind(t) = child.printed[t] + Behind(t)'
    <3> SUFFICES ASSUME NEW t \in Streams
                 PROVE  /\ Through(t)' <= Through(t)
                        /\ child'.printed[t] + Behind(t) = child.printed[t] + Behind(t)'
      OBVIOUS
    <3>1. /\ child.printed[t] \in Nat /\ child.unread[t] \in Nat /\ pipe[t] \in Nat
          /\ copy[t].bytes \in Nat /\ forward[t].bytes \in Nat
      BY FlowTypes DEF RunInv
    <3>2. CASE t = s
      BY <1>0, <3>1, <3>2 DEF Through, Behind
    <3>3. CASE t # s
      BY <1>0, <3>1, <3>3 DEF Through, Behind
    <3> QED
      BY <3>2, <3>3
  <2> QED
    BY <1>0, <1>1, <2>1, <2>2, FlowStays
<1> QED
  BY <1>1, <1>2, <1>3, <1>4, <1>5, <1>6 DEF RunInv

\* a forward task whose receiver is gone ends; the caller hung up, so nothing depends on it
LEMMA Step_ForwardFails ==
  ASSUME RunInv, NEW s \in Streams, ForwardFails(s)
  PROVE  RunInv'
<1>0. /\ child' = child /\ copy' = copy /\ total' = total /\ limitHit' = limitHit
      /\ notified' = notified /\ drive' = drive /\ outcome' = outcome /\ channel' = channel
      /\ client' = client
      /\ forward' \in [Streams -> [at : ForwardAt, bytes : Nat]] /\ pipe' \in [Streams -> 0..PipeCapacity]
      /\ \A t \in Streams : t # s => forward'[t] = forward[t] /\ pipe'[t] = pipe[t]
      /\ forward'[s].at = "over" /\ forward'[s].bytes = 0 /\ pipe'[s] = 0 /\ ~Live
  <2>1. /\ forward \in [Streams -> [at : ForwardAt, bytes : Nat]] /\ pipe \in [Streams -> 0..PipeCapacity]
        /\ 0 \in Nat /\ 0 \in 0..PipeCapacity /\ "over" \in ForwardAt
    BY RunAssumption DEF RunInv, RunTypeOK, ForwardAt
  <2>2. ~Live
    BY DEF RunInv, EndInv, ChannelInv, Live, ForwardFails
  <2>3. forward' = [forward EXCEPT ![s] = [at |-> "over", bytes |-> 0]] /\ pipe' = [pipe EXCEPT ![s] = 0]
    BY DEF ForwardFails, Task
  <2>4. /\ pipe' \in [Streams -> 0..PipeCapacity] /\ pipe'[s] = 0
        /\ \A t \in Streams : t # s => pipe'[t] = pipe[t]
    BY <2>1, <2>3, NumberSet
  <2>5. /\ forward' \in [Streams -> [at : ForwardAt, bytes : Nat]]
        /\ forward'[s].at = "over" /\ forward'[s].bytes = 0
        /\ \A t \in Streams : t # s => forward'[t] = forward[t]
    BY <2>1, <2>3, TaskSet
  <2> QED
    BY <2>2, <2>4, <2>5 DEF ForwardFails
<1>1. RunTypeOK'
  BY <1>0, RunAssumption DEF RunInv, RunTypeOK
<1>2. HoldInv'
  <2> SUFFICES ASSUME NEW t \in Streams
               PROVE  /\ copy'[t].at \in {"top", "read", "over"} => copy'[t].bytes = 0
                      /\ forward'[t].at \in {"read", "over"} => forward'[t].bytes = 0
    BY DEF HoldInv
  <2>1. CASE t = s
    BY <1>0, <2>1 DEF RunInv, HoldInv
  <2>2. CASE t # s
    BY <1>0, <2>2 DEF RunInv, HoldInv
  <2> QED
    BY <2>1, <2>2
<1>3. StartInv'
  BY <1>0 DEF RunInv, RunTypeOK, HoldInv, StartInv, EndInv, ChannelInv, Live
<1>4. EndInv'
  <2>1. Live' => Live
    BY <1>0 DEF Live
  <2>2. \A t \in Streams : copy[t].at = "over" => copy'[t].at = "over"
    BY <1>0
  <2>3. ASSUME NEW t \in Streams
        PROVE  /\ Live' /\ forward'[t].at = "over" => pipe'[t] = 0 /\ copy'[t].at = "over"
               /\ Live' /\ ~limitHit' /\ drive' # "spawn" /\ copy'[t].at = "over"
                    => ~child'.alive /\ child'.unread[t] = 0
    <3>1. CASE t = s
      BY <1>0, <2>1, <3>1 DEF RunInv, EndInv
    <3>2. CASE t # s
      BY <1>0, <2>1, <3>2 DEF RunInv, EndInv
    <3> QED
      BY <3>1, <3>2
  <2>4. drive' \in {"forwarded", "over"} => \A t \in Streams : copy'[t].at = "over"
    BY <1>0, <2>2 DEF RunInv, EndInv
  <2>5. Live' /\ drive' = "over" => \A t \in Streams : forward'[t].at = "over"
    BY <1>0, <2>1 DEF RunInv, EndInv
  <2>6. Live' /\ limitHit' /\ drive' \in {"forwarded", "over"} => outcome' # "Exited"
    BY <1>0, <2>1 DEF RunInv, EndInv
  <2> QED
    BY <2>3, <2>4, <2>5, <2>6 DEF EndInv
<1>5. ChannelInv'
  BY <1>0 DEF RunInv, RunTypeOK, HoldInv, StartInv, EndInv, ChannelInv, Live
<1>6. FlowInv'
  <2>1. Intact' => Intact
    <3>1. limitHit => limitHit'
      BY <1>0
    <3>2. ASSUME NEW t \in Streams, copy[t].at = "last" PROVE Limited'
      <4>1. CASE t = s
        BY <1>0, <3>2, <4>1 DEF Limited
      <4>2. CASE t # s
        BY <1>0, <3>2, <4>2 DEF Limited
      <4> QED
        BY <4>1, <4>2
    <3> QED
      BY <1>0, <3>1, <3>2 DEF Intact, Limited, Live
  <2>2. \A t \in Streams : /\ Through(t)' <= Through(t)
                           /\ Intact' => child'.printed[t] + Behind(t) = child.printed[t] + Behind(t)'
    <3> SUFFICES ASSUME NEW t \in Streams
                 PROVE  /\ Through(t)' <= Through(t)
                        /\ Intact' => child'.printed[t] + Behind(t) = child.printed[t] + Behind(t)'
      OBVIOUS
    <3>1. /\ child.printed[t] \in Nat /\ child.unread[t] \in Nat /\ pipe[t] \in Nat
          /\ copy[t].bytes \in Nat /\ forward[t].bytes \in Nat
      BY FlowTypes DEF RunInv
    <3>2. CASE t = s
      BY <1>0, <2>1, <3>1, <3>2 DEF Through, Behind, Intact, Live
    <3>3. CASE t # s
      BY <1>0, <3>1, <3>3 DEF Through, Behind
    <3> QED
      BY <3>2, <3>3
  <2>3. channel' = channel /\ client'.got = client.got /\ total' = total
    BY <1>0
  <2>4. \A t \in Streams : Through(t)' <= Through(t)
    BY <2>2
  <2>5. ASSUME Intact'
        PROVE  \A t \in Streams : child'.printed[t] + Behind(t) = child.printed[t] + Behind(t)'
    BY <2>2, <2>5
  <2> QED
    BY <1>1, <2>1, <2>3, <2>4, <2>5, FlowStays
<1> QED
  BY <1>1, <1>2, <1>3, <1>4, <1>5, <1>6 DEF RunInv

\* a forward task puts its bytes into the channel
LEMMA Step_ForwardSend ==
  ASSUME RunInv, NEW s \in Streams, Forward(s), forward[s].at = "send"
  PROVE  RunInv'
<1>0. /\ child' = child /\ copy' = copy /\ total' = total /\ limitHit' = limitHit
      /\ notified' = notified /\ pipe' = pipe /\ drive' = drive /\ outcome' = outcome
      /\ client' = client
      /\ forward' \in [Streams -> [at : ForwardAt, bytes : Nat]]
      /\ \A t \in Streams : t # s => forward'[t] = forward[t]
      /\ forward[s].at = "send" /\ forward'[s].at = "read" /\ forward'[s].bytes = 0
      /\ client.reads /\ Live /\ drive # "over"
      /\ [tag |-> s, bytes |-> forward[s].bytes] \in Frame
      /\ channel' = Append(channel, [tag |-> s, bytes |-> forward[s].bytes])
  <2>1. /\ forward \in [Streams -> [at : ForwardAt, bytes : Nat]] /\ 0 \in Nat /\ "read" \in ForwardAt
    BY DEF RunInv, RunTypeOK, ForwardAt
  <2>2. /\ client.reads /\ forward' = [forward EXCEPT ![s] = [at |-> "read", bytes |-> 0]]
        /\ channel' = Append(channel, [tag |-> s, bytes |-> forward[s].bytes]) /\ pipe' = pipe
        /\ child' = child /\ copy' = copy /\ total' = total /\ limitHit' = limitHit
        /\ notified' = notified /\ drive' = drive /\ outcome' = outcome /\ client' = client
    BY DEF Forward, Task
  <2>3. Live /\ drive # "over"
    BY <2>2 DEF RunInv, EndInv, Live
  <2>4. [tag |-> s, bytes |-> forward[s].bytes] \in Frame
    BY <2>1 DEF Frame
  <2>5. /\ forward' \in [Streams -> [at : ForwardAt, bytes : Nat]]
        /\ forward'[s].at = "read" /\ forward'[s].bytes = 0
        /\ \A t \in Streams : t # s => forward'[t] = forward[t]
    BY <2>1, <2>2, TaskSet
  <2> QED
    BY <2>2, <2>3, <2>4, <2>5
<1>1. RunTypeOK'
  <2>1. Append(channel, [tag |-> s, bytes |-> forward[s].bytes]) \in Seq(Frame)
    BY <1>0 DEF RunInv, RunTypeOK
  <2> QED
    BY <1>0, <2>1 DEF RunInv, RunTypeOK
<1>2. HoldInv'
  <2> SUFFICES ASSUME NEW t \in Streams
               PROVE  /\ copy'[t].at \in {"top", "read", "over"} => copy'[t].bytes = 0
                      /\ forward'[t].at \in {"read", "over"} => forward'[t].bytes = 0
    BY DEF HoldInv
  <2>1. CASE t = s
    BY <1>0, <2>1 DEF RunInv, HoldInv
  <2>2. CASE t # s
    BY <1>0, <2>2 DEF RunInv, HoldInv
  <2> QED
    BY <2>1, <2>2
<1>3. StartInv'
  <2>1. \A t \in Streams : forward[t].at # "over" => forward'[t].at # "over"
    BY <1>0
  <2>2. Live' <=> Live
    BY <1>0 DEF Live
  <2> QED
    BY <1>0, <2>1, <2>2 DEF RunInv, StartInv
<1>4. EndInv'
  <2>1. Live' => Live
    BY <1>0 DEF Live
  <2>2. \A t \in Streams : copy[t].at = "over" => copy'[t].at = "over"
    BY <1>0
  <2>3. ASSUME NEW t \in Streams
        PROVE  /\ Live' /\ forward'[t].at = "over" => pipe'[t] = 0 /\ copy'[t].at = "over"
               /\ Live' /\ ~limitHit' /\ drive' # "spawn" /\ copy'[t].at = "over"
                    => ~child'.alive /\ child'.unread[t] = 0
    <3>1. CASE t = s
      BY <1>0, <2>1, <3>1 DEF RunInv, EndInv
    <3>2. CASE t # s
      BY <1>0, <2>1, <3>2 DEF RunInv, EndInv
    <3> QED
      BY <3>1, <3>2
  <2>4. drive' \in {"forwarded", "over"} => \A t \in Streams : copy'[t].at = "over"
    BY <1>0, <2>2 DEF RunInv, EndInv
  <2>5. Live' /\ drive' = "over" => \A t \in Streams : forward'[t].at = "over"
    BY <1>0, <2>1 DEF RunInv, EndInv
  <2>6. Live' /\ limitHit' /\ drive' \in {"forwarded", "over"} => outcome' # "Exited"
    BY <1>0, <2>1 DEF RunInv, EndInv
  <2> QED
    BY <2>3, <2>4, <2>5, <2>6 DEF EndInv
<1>5. ChannelInv'
  <2> DEFINE f == [tag |-> s, bytes |-> forward[s].bytes]
  <2>1. channel \in Seq(Frame) /\ f \in Frame /\ f.tag = s
    BY <1>0 DEF RunInv, RunTypeOK
  <2> HIDE DEF f
  <2>2. \A i \in 1..Len(channel) : channel[i].tag \in Streams
    BY <1>0 DEF RunInv, ChannelInv
  <2>3. \A i \in 1..Len(channel') : channel'[i].tag \in Streams
    <3>1. channel' = Append(channel, f)
      BY <1>0 DEF f
    <3>2. \A i \in 1..Len(Append(channel, f)) : Append(channel, f)[i].tag \in Streams
      BY <2>1, <2>2
    <3> QED
      BY <3>1, <3>2
  <2> QED
    BY <1>0, <2>3 DEF RunInv, ChannelInv
<1>6. FlowInv'
  <2> DEFINE f == [tag |-> s, bytes |-> forward[s].bytes]
  <2>1. PICK q \in [Streams -> Nat] : FlowOf(q)
    BY DEF RunInv, FlowInv
  <2>2. PICK r \in [Streams -> Nat] : r = [q EXCEPT ![s] = q[s] + forward[s].bytes]
    <3>1. q[s] + forward[s].bytes \in Nat
      BY FlowTypes DEF RunInv
    <3> QED
      BY <3>1
  <2>3. ASSUME NEW t \in Streams
        PROVE  /\ q[t] \in Nat /\ r[t] \in Nat /\ r[t] = q[t] + Weight(f, t)
               /\ Weight(f, t) = IF t = s THEN forward[t].bytes ELSE 0
               /\ child.unread[t] \in Nat /\ pipe[t] \in Nat /\ child.printed[t] \in Nat
               /\ copy[t].bytes \in Nat /\ forward[t].bytes \in Nat /\ client.got[t] \in Nat
    <3>1. /\ child.unread[t] \in Nat /\ pipe[t] \in Nat /\ child.printed[t] \in Nat
          /\ copy[t].bytes \in Nat /\ forward[t].bytes \in Nat /\ client.got[t] \in Nat
      BY FlowTypes DEF RunInv
    <3>2. Weight(f, t) = IF t = s THEN forward[t].bytes ELSE 0
      BY DEF Weight
    <3> HIDE DEF f
    <3>3. q[t] \in Nat /\ r[t] \in Nat /\ r[t] = q[t] + Weight(f, t)
      <4>1. CASE t = s
        BY <2>2, <3>1, <3>2, <4>1
      <4>2. CASE t # s
        BY <2>2, <3>1, <3>2, <4>2
      <4> QED
        BY <4>1, <4>2
    <3> QED
      BY <3>1, <3>2, <3>3
  <2> HIDE DEF f
  <2>4. ASSUME NEW t \in Streams PROVE Carries(channel, t, client.got[t], r[t])'
    <3>1. Carries(channel, t, client.got[t], q[t])
      BY <2>1 DEF FlowOf
    <3>2. channel \in Seq(Frame) /\ f \in Frame
      BY <1>0 DEF RunInv, RunTypeOK, f
    <3>3. Carries(Append(channel, f), t, client.got[t], q[t] + Weight(f, t))
      BY <2>3, <3>1, <3>2, CarriesAppend
    <3> QED
      BY <1>0, <2>3, <3>3 DEF f
  <2>5. ASSUME NEW t \in Streams
        PROVE  /\ Through(t)' + r[t] <= Through(t) + q[t]
               /\ child'.printed[t] + Behind(t) + q[t] = child.printed[t] + Behind(t)' + r[t]
    <3>1. CASE t = s
      <4>1. /\ r[t] = q[t] + forward[t].bytes /\ forward'[t].bytes = 0
            /\ copy'[t] = copy[t] /\ pipe'[t] = pipe[t] /\ child'.unread[t] = child.unread[t]
            /\ child.unread[t] \in Nat /\ pipe[t] \in Nat /\ copy[t].bytes \in Nat
            /\ forward[t].bytes \in Nat
        BY <1>0, <2>3, <3>1
      <4>2. Through(t)' + forward[t].bytes = Through(t) /\ Through(t)' \in Nat /\ Through(t) \in Nat
        BY <4>1 DEF Through
      <4>3. Behind(t)' + forward[t].bytes = Behind(t) /\ Behind(t)' \in Nat /\ Behind(t) \in Nat
        BY <4>1 DEF Behind
      <4>4. child'.printed[t] = child.printed[t]
        BY <1>0
      <4> QED
        BY <2>3, <4>1, <4>2, <4>3, <4>4
    <3>2. CASE t # s
      BY <1>0, <2>3, <3>2 DEF Through, Behind
    <3> QED
      BY <3>1, <3>2
  <2>6. Intact' => Intact
    BY <1>0 DEF Intact, Live, Limited
  <2>7. total' = total
    BY <1>0
  <2> QED
    BY <1>1, <2>1, <2>4, <2>5, <2>6, <2>7, FlowMoves
<1> QED
  BY <1>1, <1>2, <1>3, <1>4, <1>5, <1>6 DEF RunInv

LEMMA Step_forward_frames ==
  ASSUME RunInv, NEW s \in Streams, forward_frames(s)
  PROVE  RunInv'
<1>1. forward[s].at \in {"read", "send"}
  BY DEF forward_frames, Forward, ForwardFails
<1> QED
  BY <1>1, Step_ForwardRead, Step_ForwardSend, Step_ForwardFails DEF forward_frames

LEMMA Step_drive_run ==
  ASSUME RunInv, drive_run
  PROVE  RunInv'
<1>0. /\ child' = child /\ copy' = copy /\ total' = total /\ limitHit' = limitHit
      /\ notified' = notified /\ pipe' = pipe /\ forward' = forward /\ outcome' = outcome
      /\ client' = client /\ drive = "forwarded" /\ drive' = "over"
      /\ \A s \in Streams : forward[s].at = "over"
      /\ [tag |-> outcome, bytes |-> 0] \in Frame
      /\ \/ client.reads /\ channel' = Append(channel, [tag |-> outcome, bytes |-> 0])
         \/ channel' = channel
  BY DEF RunInv, RunTypeOK, Frame, drive_run, SendTerminal
<1>1. RunTypeOK'
  <2>1. Append(channel, [tag |-> outcome, bytes |-> 0]) \in Seq(Frame)
    BY <1>0 DEF RunInv, RunTypeOK
  <2> QED
    BY <1>0, <2>1 DEF RunInv, RunTypeOK
<1>2. HoldInv'
  BY <1>0 DEF RunInv, HoldInv
<1>3. StartInv'
  BY <1>0 DEF RunInv, StartInv
<1>4. EndInv'
  BY <1>0 DEF RunInv, EndInv, Live
<1>5. ChannelInv'
  <2> DEFINE f == [tag |-> outcome, bytes |-> 0]
  <2>1. channel \in Seq(Frame) /\ f \in Frame /\ f.tag = outcome
    BY <1>0 DEF RunInv, RunTypeOK
  <2> HIDE DEF f
  <2>2. \A i \in 1..Len(channel) : channel[i].tag \in Streams
    BY <1>0 DEF RunInv, ChannelInv
  <2>3. \A i \in 1..Len(Append(channel, f)) :
          Append(channel, f)[i].tag \in Streams \/ (i = Len(Append(channel, f)) /\ Append(channel, f)[i].tag = outcome)
    BY <2>1, <2>2
  <2>4. \A i \in 1..Len(channel') :
          channel'[i].tag \notin Streams => i = Len(channel') /\ channel'[i].tag = outcome
    <3>1. CASE channel' = channel
      BY <2>2, <3>1
    <3>2. CASE channel' = Append(channel, f)
      BY <2>3, <3>2
    <3> QED
      BY <1>0, <3>1, <3>2 DEF f
  <2>5. ~client'.reads => channel' = <<>>
    BY <1>0 DEF RunInv, ChannelInv
  <2> QED
    BY <1>0, <2>4, <2>5 DEF RunInv, ChannelInv
<1>6. FlowInv'
  <2> DEFINE f == [tag |-> outcome, bytes |-> 0]
  <2>1. PICK q \in [Streams -> Nat] : FlowOf(q)
    BY DEF RunInv, FlowInv
  <2>2. ASSUME NEW t \in Streams PROVE Carries(channel, t, client.got[t], q[t])'
    <3>1. Carries(channel, t, client.got[t], q[t])
      BY <2>1 DEF FlowOf
    <3>2. CASE channel' = channel
      BY <1>0, <3>1, <3>2
    <3>3. CASE channel' = Append(channel, f)
      <4>1. channel \in Seq(Frame) /\ f \in Frame /\ q[t] \in Nat /\ client.got[t] \in Nat
        BY <1>0, FlowTypes DEF RunInv, RunTypeOK
      <4>2. Weight(f, t) = 0
        BY DEF Weight
      <4> HIDE DEF f
      <4>3. Carries(Append(channel, f), t, client.got[t], q[t] + Weight(f, t))
        BY <3>1, <4>1, CarriesAppend
      <4>4. q[t] + Weight(f, t) = q[t]
        BY <4>1, <4>2
      <4>5. Carries(Append(channel, f), t, client.got[t], q[t])
        BY <4>3, <4>4
      <4> QED
        BY <1>0, <3>3, <4>5
    <3> QED
      BY <1>0, <3>2, <3>3
  <2>3. ASSUME NEW t \in Streams
        PROVE  /\ Through(t)' + q[t] <= Through(t) + q[t]
               /\ child'.printed[t] + Behind(t) + q[t] = child.printed[t] + Behind(t)' + q[t]
    <3>1. Through(t)' = Through(t) /\ Behind(t)' = Behind(t) /\ child'.printed[t] = child.printed[t]
      BY <1>0 DEF Through, Behind
    <3>2. Through(t) \in Nat /\ q[t] \in Nat
      BY FlowTypes DEF RunInv
    <3> QED
      BY <3>1, <3>2
  <2>4. Intact' => Intact
    BY <1>0 DEF Intact, Live, Limited
  <2> QED
    BY <1>0, <1>1, <2>1, <2>2, <2>3, <2>4, FlowMoves
<1> QED
  BY <1>1, <1>2, <1>3, <1>4, <1>5, <1>6 DEF RunInv

LEMMA Step_HangUp ==
  ASSUME RunInv, HangUp
  PROVE  RunInv'
<1>0. /\ child' = child /\ copy' = copy /\ total' = total /\ limitHit' = limitHit
      /\ notified' = notified /\ pipe' = pipe /\ forward' = forward /\ outcome' = outcome
      /\ drive' = drive /\ channel' = <<>>
      /\ client' \in [reads : BOOLEAN, got : [Streams -> Nat],
                      result : Reasons \cup {"Unavailable", "MalformedResponse"}]
      /\ ~client'.reads /\ client'.result \in {"Cancelled", "Unavailable"} /\ client'.got = client.got
  <2>1. PICK r \in {"Cancelled", "Unavailable"} : client' = [client EXCEPT !.reads = FALSE, !.result = r]
    BY DEF HangUp
  <2>2. r \in Reasons \cup {"Unavailable", "MalformedResponse"}
    BY DEF Reasons
  <2>3. client \in [reads : BOOLEAN, got : [Streams -> Nat],
                    result : Reasons \cup {"Unavailable", "MalformedResponse"}]
    BY DEF RunInv, RunTypeOK
  <2>4. client' \in [reads : BOOLEAN, got : [Streams -> Nat],
                     result : Reasons \cup {"Unavailable", "MalformedResponse"}]
    BY <2>1, <2>2, <2>3
  <2>5. ~client'.reads /\ client'.result = r /\ client'.got = client.got
    BY <2>1, <2>3
  <2> QED
    BY <2>4, <2>5 DEF HangUp
<1>1. RunTypeOK'
  <2>1. <<>> \in Seq(Frame)
    OBVIOUS
  <2> QED
    BY <1>0, <2>1 DEF RunInv, RunTypeOK
<1>2. HoldInv'
  BY <1>0 DEF RunInv, HoldInv
<1>3. StartInv'
  BY <1>0 DEF RunInv, StartInv, Live
<1>4. EndInv'
  BY <1>0 DEF RunInv, EndInv, Live
<1>5. ChannelInv'
  BY <1>0 DEF ChannelInv
<1>6. FlowInv'
  <2>1. ~Intact'
    BY <1>0 DEF Intact, Live
  <2>2. ASSUME NEW t \in Streams PROVE Through(t)' <= Through(t)
    <3>1. Through(t)' = Through(t)
      BY <1>0 DEF Through
    <3> QED
      BY <3>1, FlowTypes DEF RunInv
  <2> QED
    BY <1>0, <1>1, <2>1, <2>2, FlowCut
<1> QED
  BY <1>1, <1>2, <1>3, <1>4, <1>5, <1>6 DEF RunInv

LEMMA Step_ServerEnds ==
  ASSUME RunInv, ServerEnds
  PROVE  RunInv'
<1>0. /\ total' = total /\ limitHit' = limitHit /\ notified' = notified /\ outcome' = outcome
      /\ drive' = "over" /\ channel' = <<>>
      /\ child' \in [alive : BOOLEAN, printed : [Streams -> Nat], unread : [Streams -> Nat]]
      /\ client' \in [reads : BOOLEAN, got : [Streams -> Nat],
                      result : Reasons \cup {"Unavailable", "MalformedResponse"}]
      /\ ~client'.reads /\ client'.result = "MalformedResponse" /\ client'.got = client.got
      /\ copy' \in [Streams -> [at : CopyAt, bytes : Nat]]
      /\ forward' \in [Streams -> [at : ForwardAt, bytes : Nat]]
      /\ pipe' \in [Streams -> 0..PipeCapacity]
      /\ \A s \in Streams : /\ copy'[s].at = "over" /\ copy'[s].bytes = 0 /\ pipe'[s] = 0
                            /\ forward'[s].at = "over" /\ forward'[s].bytes = 0
  <2>1. /\ client \in [reads : BOOLEAN, got : [Streams -> Nat],
                      result : Reasons \cup {"Unavailable", "MalformedResponse"}]
        /\ child \in [alive : BOOLEAN, printed : [Streams -> Nat], unread : [Streams -> Nat]]
    BY DEF RunInv, RunTypeOK
  <2>2. /\ client' = [client EXCEPT !.reads = FALSE, !.result = "MalformedResponse"]
        /\ child' = [child EXCEPT !.alive = FALSE]
    BY DEF ServerEnds
  <2>3. client' \in [reads : BOOLEAN, got : [Streams -> Nat],
                     result : Reasons \cup {"Unavailable", "MalformedResponse"}]
    BY <2>1, <2>2
  <2>4. ~client'.reads /\ client'.result = "MalformedResponse" /\ client'.got = client.got
    BY <2>1, <2>2
  <2>5. child' \in [alive : BOOLEAN, printed : [Streams -> Nat], unread : [Streams -> Nat]]
    BY <2>1, <2>2
  <2>6. /\ copy' = [s \in Streams |-> [at |-> "over", bytes |-> 0]]
        /\ forward' = [s \in Streams |-> [at |-> "over", bytes |-> 0]]
        /\ pipe' = [s \in Streams |-> 0]
    BY DEF ServerEnds, Task, Nothing
  <2>7. /\ copy' \in [Streams -> [at : CopyAt, bytes : Nat]]
        /\ forward' \in [Streams -> [at : ForwardAt, bytes : Nat]]
        /\ pipe' \in [Streams -> 0..PipeCapacity]
    BY <2>6, RunAssumption DEF CopyAt, ForwardAt
  <2>8. \A s \in Streams : /\ copy'[s].at = "over" /\ copy'[s].bytes = 0 /\ pipe'[s] = 0
                           /\ forward'[s].at = "over" /\ forward'[s].bytes = 0
    BY <2>6
  <2>9. /\ total' = total /\ limitHit' = limitHit /\ notified' = notified /\ outcome' = outcome
        /\ drive' = "over" /\ channel' = <<>>
    BY DEF ServerEnds
  <2> QED
    BY <2>3, <2>4, <2>5, <2>7, <2>8, <2>9
<1>1. RunTypeOK'
  <2>1. <<>> \in Seq(Frame)
    OBVIOUS
  <2> QED
    BY <1>0, <2>1 DEF RunInv, RunTypeOK
<1>2. HoldInv'
  BY <1>0 DEF HoldInv
<1>3. StartInv'
  BY <1>0 DEF StartInv
<1>4. EndInv'
  BY <1>0 DEF EndInv, Live
<1>5. ChannelInv'
  BY <1>0 DEF ChannelInv
<1>6. FlowInv'
  <2>1. ~Intact'
    BY <1>0 DEF Intact, Live
  <2>2. ASSUME NEW t \in Streams PROVE Through(t)' <= Through(t)
    <3>1. Through(t)' = 0
      BY <1>0 DEF Through
    <3> QED
      BY <3>1, FlowTypes DEF RunInv
  <2> QED
    BY <1>0, <1>1, <2>1, <2>2, FlowCut
<1> QED
  BY <1>1, <1>2, <1>3, <1>4, <1>5, <1>6 DEF RunInv

LEMMA Step_run_command ==
  ASSUME RunInv, run_command
  PROVE  RunInv'
<1> DEFINE f == Head(channel)
<1>0. /\ child' = child /\ copy' = copy /\ total' = total /\ limitHit' = limitHit
      /\ notified' = notified /\ pipe' = pipe /\ forward' = forward /\ outcome' = outcome
      /\ drive' = drive /\ channel' = Tail(channel) /\ channel' \in Seq(Frame)
      /\ client.reads /\ channel # <<>> /\ channel \in Seq(Frame) /\ f \in Frame
      /\ client' \in [reads : BOOLEAN, got : [Streams -> Nat],
                      result : Reasons \cup {"Unavailable", "MalformedResponse"}]
      /\ \A t \in Streams : client'.got[t] = client.got[t] + Weight(f, t)
      /\ \/ f.tag \in Streams /\ client'.reads /\ client'.result = client.result
         \/ /\ f.tag \notin Streams /\ ~client'.reads /\ client'.result = f.tag
            /\ channel' = <<>> /\ drive = "over" /\ f.tag = outcome
  <2>1. /\ channel \in Seq(Frame) /\ channel # <<>> /\ client.reads
        /\ client \in [reads : BOOLEAN, got : [Streams -> Nat],
                       result : Reasons \cup {"Unavailable", "MalformedResponse"}]
    BY DEF RunInv, RunTypeOK, run_command
  <2>2. f \in Frame /\ Tail(channel) \in Seq(Frame)
    BY <2>1
  <2>3. channel' = Tail(channel) /\ client' = next_frame(f)
    BY DEF run_command
  <2>4. /\ child' = child /\ copy' = copy /\ total' = total /\ limitHit' = limitHit
        /\ notified' = notified /\ pipe' = pipe /\ forward' = forward /\ outcome' = outcome
        /\ drive' = drive
    BY DEF run_command
  <2>5. f.tag \notin Streams => Len(channel) = 1 /\ drive = "over" /\ f.tag = outcome
    <3>1. f = channel[1] /\ 1 \in 1..Len(channel)
      BY <2>1
    <3> QED
      BY <3>1 DEF RunInv, ChannelInv
  <2>6. f.tag \in Streams \cup Reasons /\ f.bytes \in Nat /\ client.got \in [Streams -> Nat]
    BY <2>1, <2>2 DEF Frame
  <2> HIDE DEF f
  <2>7. CASE f.tag \in Streams
    <3>1. client' = [client EXCEPT !.got[f.tag] = @ + f.bytes]
      BY <2>3, <2>7 DEF next_frame
    <3>2. client'.got = [client.got EXCEPT ![f.tag] = client.got[f.tag] + f.bytes]
      BY <2>1, <3>1
    <3>3. client.got[f.tag] + f.bytes \in Nat
      BY <2>6, <2>7
    <3>4. /\ client'.got \in [Streams -> Nat] /\ client'.got[f.tag] = client.got[f.tag] + f.bytes
          /\ \A t \in Streams : t # f.tag => client'.got[t] = client.got[t]
      BY <2>6, <2>7, <3>2, <3>3, NumberSet
    <3>5. client'.reads /\ client'.result = client.result
      BY <2>1, <3>1
    <3>6. client' \in [reads : BOOLEAN, got : [Streams -> Nat],
                       result : Reasons \cup {"Unavailable", "MalformedResponse"}]
      BY <2>1, <3>1, <3>4
    <3>7. ASSUME NEW t \in Streams PROVE client'.got[t] = client.got[t] + Weight(f, t)
      BY <2>6, <3>4 DEF Weight
    <3> QED
      BY <2>1, <2>2, <2>3, <2>4, <2>7, <3>5, <3>6, <3>7
  <2>8. CASE f.tag \notin Streams
    <3>1. client' = [client EXCEPT !.result = f.tag, !.reads = FALSE]
      BY <2>3, <2>8 DEF next_frame
    <3>2. ~client'.reads /\ client'.result = f.tag /\ client'.got = client.got
      BY <2>1, <3>1
    <3>3. client' \in [reads : BOOLEAN, got : [Streams -> Nat],
                       result : Reasons \cup {"Unavailable", "MalformedResponse"}]
      BY <2>1, <2>6, <2>8, <3>1
    <3>4. ASSUME NEW t \in Streams PROVE client'.got[t] = client.got[t] + Weight(f, t)
      BY <2>6, <2>8, <3>2 DEF Weight
    <3>5. channel' = <<>>
      BY <2>1, <2>3, <2>5, <2>8
    <3> QED
      BY <2>1, <2>2, <2>3, <2>4, <2>5, <2>8, <3>2, <3>3, <3>4, <3>5
  <2> QED
    BY <2>7, <2>8
<1>00. Live /\ (Live' => Live)
  BY <1>0 DEF Live
<1> HIDE DEF f
<1>1. RunTypeOK'
  BY <1>0 DEF RunInv, RunTypeOK
<1>2. HoldInv'
  BY <1>0 DEF RunInv, HoldInv
<1>3. StartInv'
  BY <1>0, <1>00 DEF RunInv, StartInv
<1>4. EndInv'
  BY <1>0, <1>00 DEF RunInv, EndInv
<1>5. ChannelInv'
  <2>1. ASSUME NEW i \in 1..Len(channel'), channel'[i].tag \notin Streams
        PROVE  i = Len(channel') /\ drive = "over" /\ channel'[i].tag = outcome
    <3>1. Len(Tail(channel)) = Len(channel) - 1 /\ Len(channel) \in Nat
      BY <1>0
    <3>2. i \in 1..(Len(channel) - 1) /\ i + 1 \in 1..Len(channel)
      BY <1>0, <2>1, <3>1
    <3>3. Tail(channel)[i] = channel[i + 1]
      BY <1>0, <3>2
    <3>4. i + 1 = Len(channel) /\ drive = "over" /\ channel[i + 1].tag = outcome
      BY <1>0, <2>1, <3>2, <3>3 DEF RunInv, ChannelInv
    <3>5. Len(channel') = Len(channel) - 1 /\ channel'[i] = channel[i + 1]
      BY <1>0, <3>1, <3>3
    <3> QED
      BY <3>1, <3>2, <3>4, <3>5
  <2>2. ~client'.reads => channel' = <<>>
    BY <1>0
  <2>3. client'.reads => client'.result = "none"
    BY <1>0 DEF RunInv, ChannelInv
  <2>4. client'.result = "Exited" => drive = "over" /\ outcome = "Exited"
    BY <1>0 DEF RunInv, ChannelInv
  <2> QED
    BY <1>0, <2>1, <2>2, <2>3, <2>4 DEF ChannelInv
<1>6. FlowInv'
  <2>1. PICK q \in [Streams -> Nat] : FlowOf(q)
    BY DEF RunInv, FlowInv
  <2>2. ASSUME NEW t \in Streams PROVE Carries(channel, t, client.got[t], q[t])'
    <3>1. Carries(channel, t, client.got[t], q[t])
      BY <2>1 DEF FlowOf
    <3>2. client.got[t] \in Nat /\ q[t] \in Nat
      BY FlowTypes DEF RunInv
    <3>3. Carries(Tail(channel), t, client.got[t] + Weight(f, t), q[t])
      BY <1>0, <3>1, <3>2, CarriesTail DEF f
    <3> QED
      BY <1>0, <3>3
  <2>3. ASSUME NEW t \in Streams
        PROVE  /\ Through(t)' + q[t] <= Through(t) + q[t]
               /\ child'.printed[t] + Behind(t) + q[t] = child.printed[t] + Behind(t)' + q[t]
    <3>1. Through(t)' = Through(t) /\ Behind(t)' = Behind(t) /\ child'.printed[t] = child.printed[t]
      BY <1>0 DEF Through, Behind
    <3>2. Through(t) \in Nat /\ q[t] \in Nat
      BY FlowTypes DEF RunInv
    <3> QED
      BY <3>1, <3>2
  <2>4. Intact' => Intact
    BY <1>0, <1>00 DEF Intact, Limited
  <2> QED
    BY <1>0, <1>1, <2>1, <2>2, <2>3, <2>4, FlowMoves
<1> QED
  BY <1>1, <1>2, <1>3, <1>4, <1>5, <1>6 DEF RunInv

----------------------------------------------------------------------------
(* Invariance, and the property.                                           *)

LEMMA InitRunInv == RunInit => RunInv
<1> SUFFICES ASSUME RunInit PROVE RunInv
  OBVIOUS
<1>0. /\ child = [alive |-> FALSE, printed |-> [s \in Streams |-> 0], unread |-> [s \in Streams |-> 0]]
      /\ copy = [s \in Streams |-> [at |-> "over", bytes |-> 0]]
      /\ forward = [s \in Streams |-> [at |-> "read", bytes |-> 0]]
      /\ pipe = [s \in Streams |-> 0] /\ drive = "spawn" /\ outcome = "none" /\ channel = <<>>
      /\ client = [reads |-> TRUE, got |-> [s \in Streams |-> 0], result |-> "none"]
      /\ total = 0
  BY DEF RunInit, Task, Nothing
<1>1. limitHit = FALSE /\ notified = FALSE
  BY DEF RunInit
<1>2. RunTypeOK
  <2>1. <<>> \in Seq(Frame)
    OBVIOUS
  <2>2. /\ client \in [reads : BOOLEAN, got : [Streams -> Nat],
                       result : Reasons \cup {"Unavailable", "MalformedResponse"}]
        /\ child \in [alive : BOOLEAN, printed : [Streams -> Nat], unread : [Streams -> Nat]]
    BY <1>0 DEF Reasons
  <2>3. /\ copy \in [Streams -> [at : CopyAt, bytes : Nat]]
        /\ forward \in [Streams -> [at : ForwardAt, bytes : Nat]]
        /\ pipe \in [Streams -> 0..PipeCapacity]
    BY <1>0, RunAssumption DEF CopyAt, ForwardAt
  <2> QED
    BY <1>0, <1>1, <2>1, <2>2, <2>3 DEF RunTypeOK, Reasons
<1>3. HoldInv
  BY <1>0 DEF HoldInv
<1>4. StartInv
  BY <1>0, <1>1 DEF StartInv, Live
<1>5. EndInv
  BY <1>0, <1>1 DEF EndInv, Live
<1>6. ChannelInv
  BY <1>0 DEF ChannelInv
<1>7. FlowInv
  <2>1. PICK q \in [Streams -> Nat] : q = [s \in Streams |-> 0]
    OBVIOUS
  <2>2. ASSUME NEW s \in Streams
        PROVE  /\ Carries(channel, s, client.got[s], q[s]) /\ child.printed[s] = Behind(s) + q[s]
               /\ Through(s) + q[s] = 0 /\ Through(s) \in Nat /\ q[s] \in Nat
    <3>1. /\ client.got[s] = 0 /\ q[s] = 0 /\ child.printed[s] = 0 /\ child.unread[s] = 0
          /\ pipe[s] = 0 /\ copy[s].bytes = 0 /\ forward[s].bytes = 0 /\ copy[s].at = "over"
      BY <1>0, <2>1
    <3>2. Carries(<<>>, s, 0, 0)
      BY CarriesEmpty
    <3> QED
      BY <1>0, <3>1, <3>2 DEF Behind, Through
  <2>3. Min({total, MaxOutputBytes}) \in Nat
    BY <1>0, MinOfTwo, RunAssumption
  <2>4. ASSUME NEW s \in Streams, NEW t \in Streams
        PROVE  Through(s) + q[s] + Through(t) + q[t] <= Min({total, MaxOutputBytes})
    <3>1. Through(s) + q[s] + Through(t) + q[t] = 0
      BY <2>2
    <3> QED
      BY <2>3, <3>1
  <2>5. FlowOf(q)
    BY <2>2, <2>4 DEF FlowOf
  <2> QED
    BY <2>5 DEF FlowInv
<1> QED
  BY <1>2, <1>3, <1>4, <1>5, <1>6, <1>7 DEF RunInv

LEMMA StepRunInv == RunInv /\ [RunNext]_runVars => RunInv'
<1> SUFFICES ASSUME RunInv, [RunNext]_runVars PROVE RunInv'
  OBVIOUS
<1>1. CASE \/ spawn \/ Exits \/ Wait \/ Timeout \/ Cancel \/ Limit \/ Kill \/ join \/ drive_run
           \/ run_command \/ HangUp \/ ServerEnds
  BY <1>1, Step_spawn, Step_Exits, Step_Wait, Step_Timeout, Step_Cancel, Step_Limit, Step_Kill,
     Step_join, Step_drive_run, Step_run_command, Step_HangUp, Step_ServerEnds
<1>2. ASSUME NEW s \in Streams,
             \/ Prints(s) \/ copy_capped(s) \/ CountBytes(s) \/ WriteBytes(s) \/ ReachLimit(s)
             \/ forward_frames(s)
      PROVE  RunInv'
  BY <1>2, Step_Prints, Step_copy_capped, Step_CountBytes, Step_WriteBytes, Step_ReachLimit,
     Step_forward_frames
<1>3. CASE UNCHANGED runVars
  <2>1. /\ child' = child /\ copy' = copy /\ total' = total /\ limitHit' = limitHit
        /\ notified' = notified /\ pipe' = pipe /\ forward' = forward /\ outcome' = outcome
        /\ drive' = drive /\ channel' = channel /\ client' = client
    BY <1>3 DEF runVars
  <2>2. (Live <=> Live') /\ (Intact <=> Intact')
    BY <2>1 DEF Live, Limited, Intact
  <2>3. RunTypeOK' /\ HoldInv' /\ StartInv' /\ EndInv' /\ ChannelInv'
    BY <2>1, <2>2 DEF RunInv, RunTypeOK, HoldInv, StartInv, EndInv, ChannelInv
  <2>4. ASSUME NEW s \in Streams
        PROVE  /\ Through(s)' <= Through(s)
               /\ child'.printed[s] + Behind(s) = child.printed[s] + Behind(s)'
    <3>1. Through(s)' = Through(s) /\ Behind(s)' = Behind(s) /\ child'.printed[s] = child.printed[s]
      BY <2>1 DEF Through, Behind
    <3> QED
      BY <3>1, FlowTypes DEF RunInv
  <2>5. FlowInv'
    BY <2>1, <2>2, <2>3, <2>4, FlowStays
  <2> QED
    BY <2>3, <2>5 DEF RunInv
<1> QED
  BY <1>1, <1>2, <1>3 DEF RunNext

LEMMA RunInvariance == RunSpec => []RunInv
<1> QED
  BY InitRunInv, StepRunInv, PTL DEF RunSpec

(* Every variable keeps its type; in particular a pipe never holds more than *)
(* its capacity.                                                             *)
THEOREM RunTypeCorrect == RunSpec => []RunTypeOK
<1>1. RunInv => RunTypeOK
  BY DEF RunInv
<1> QED
  BY <1>1, RunInvariance, PTL

(* A caller that is told the command exited has every byte it printed, and   *)
(* no caller ever has more than the limit, whatever the sizes of the limit,  *)
(* the pipes, the channel and the reads, whoever is slow, and whenever the   *)
(* caller hangs up or the service ends.                                      *)
THEOREM ExitCarriesAllOutput == RunSpec => []ExitedMeansAll
<1>1. ASSUME RunInv PROVE ExitedMeansAll
  <2>1. PICK q \in [Streams -> Nat] : FlowOf(q)
    BY <1>1 DEF RunInv, FlowInv
  <2>2. ASSUME NEW s \in Streams
        PROVE  /\ Through(s) \in Nat /\ q[s] \in Nat /\ client.got[s] \in Nat
               /\ client.got[s] <= q[s] /\ child.printed[s] \in Nat
    <3>1. Through(s) \in Nat /\ q[s] \in Nat /\ client.got[s] \in Nat /\ child.printed[s] \in Nat
      BY <1>1, FlowTypes DEF RunInv
    <3>2. Carries(channel, s, client.got[s], q[s]) /\ channel \in Seq(Frame)
      BY <1>1, <2>1 DEF FlowOf, RunInv, RunTypeOK
    <3> QED
      BY <3>1, <3>2, CarriesGrows
  <2>3. client.got["stdout"] + client.got["stderr"] <= MaxOutputBytes
    <3> DEFINE m == Min({total, MaxOutputBytes})
    <3>1. "stdout" \in Streams /\ "stderr" \in Streams
      BY DEF Streams
    <3>2. Through("stdout") + q["stdout"] + Through("stderr") + q["stderr"] <= m
      BY <2>1, <3>1 DEF FlowOf
    <3>3. m \in Nat /\ m <= MaxOutputBytes
      <4>1. total \in Nat /\ MaxOutputBytes \in Nat
        BY <1>1, RunAssumption DEF RunInv, RunTypeOK
      <4> QED
        BY <4>1, MinOfTwo
    <3> HIDE DEF m
    <3> QED
      BY <2>2, <3>1, <3>2, <3>3, RunAssumption
  <2>4. ASSUME client.result = "Exited" PROVE client.got = child.printed
    <3>1. Live /\ drive = "over" /\ outcome = "Exited" /\ ~client.reads /\ channel = <<>>
      BY <1>1, <2>4 DEF RunInv, ChannelInv, Live
    <3>2. ~limitHit /\ \A s \in Streams : copy[s].at = "over" /\ forward[s].at = "over"
      BY <1>1, <3>1 DEF RunInv, EndInv
    <3>3. Intact
      BY <3>1, <3>2 DEF Intact, Limited
    <3>4. ASSUME NEW s \in Streams PROVE client.got[s] = child.printed[s]
      <4>1. child.unread[s] = 0 /\ copy[s].bytes = 0 /\ pipe[s] = 0 /\ forward[s].bytes = 0
        BY <1>1, <3>1, <3>2 DEF RunInv, EndInv, HoldInv
      <4>2. child.printed[s] = Behind(s) + q[s]
        BY <2>1, <3>3 DEF FlowOf
      <4>3. Carries(<<>>, s, client.got[s], q[s])
        BY <2>1, <3>1 DEF FlowOf
      <4>4. client.got[s] = q[s]
        BY <2>2, <4>3, CarriesEmpty
      <4> QED
        BY <2>2, <4>1, <4>2, <4>4 DEF Behind
    <3>5. client.got \in [Streams -> Nat] /\ child.printed \in [Streams -> Nat]
      BY <1>1 DEF RunInv, RunTypeOK
    <3> QED
      BY <3>4, <3>5
  <2> QED
    BY <2>3, <2>4 DEF ExitedMeansAll
<1> QED
  BY <1>1, RunInvariance, PTL

----------------------------------------------------------------------------
(* Pages: what a step does to a request and to the hidden files.           *)

LEMMA PutEffect ==
  ASSUME TypeOK, NEW c \in Clients, NEW r, Put(c, r)
  PROVE  /\ req'[c] = r /\ \A d \in Clients \ {c} : req'[d] = req[d]
         /\ r \in Requested => req' \in [Clients -> Requested]
BY DEF TypeOK, Put

LEMMA GotoEffect ==
  ASSUME TypeOK, NEW c \in Clients, NEW pc \in Pcs, Goto(c, pc)
  PROVE  /\ req' \in [Clients -> Requested] /\ \A d \in Clients \ {c} : req'[d] = req[d]
         /\ req'[c].pc = pc /\ req'[c].op = req[c].op /\ req'[c].p = req[c].p
         /\ req'[c].q = req[c].q /\ req'[c].exp = req[c].exp /\ req'[c].plan = req[c].plan
<1>1. req[c] \in Requested
  BY DEF TypeOK
<1>2. PICK r : r = [req[c] EXCEPT !.pc = pc]
  OBVIOUS
<1>3. /\ r \in Requested /\ r.pc = pc /\ r.op = req[c].op /\ r.p = req[c].p
      /\ r.q = req[c].q /\ r.exp = req[c].exp /\ r.plan = req[c].plan
  BY <1>1, <1>2 DEF Requested
<1>4. Put(c, r)
  BY <1>2 DEF Goto
<1> QED BY <1>3, <1>4, PutEffect

LEMMA QuitEffect ==
  ASSUME TypeOK, NEW c \in Clients, NEW pc \in Pcs, NEW out \in {"none", "ok", "missing", "error"},
         Quit(c, pc, out)
  PROVE  /\ req' \in [Clients -> Requested] /\ \A d \in Clients \ {c} : req'[d] = req[d]
         /\ req'[c].pc = pc /\ req'[c].op = req[c].op /\ req'[c].p = req[c].p
         /\ req'[c].exp = req[c].exp /\ req'[c].plan = {}
<1>1. req[c] \in Requested
  BY DEF TypeOK
<1>2. PICK r : r = [req[c] EXCEPT !.pc = pc, !.out = out, !.plan = {}]
  OBVIOUS
<1>3. /\ r \in Requested /\ r.pc = pc /\ r.op = req[c].op /\ r.p = req[c].p
      /\ r.exp = req[c].exp /\ r.plan = {}
  BY <1>1, <1>2 DEF Requested
<1>4. Put(c, r)
  BY <1>2 DEF Quit
<1> QED BY <1>3, <1>4, PutEffect

LEMMA BlankType == Blank \in Requested
<1>1. (CHOOSE x \in Paths : TRUE) \in Paths
  BY MemoryAssumption
<1>2. [links |-> {}, stamp |-> Nobody] \in Pages
  BY DEF Pages, Stamps
<1> QED BY <1>1, <1>2 DEF Blank, Requested, Ops, Pcs

LEMMA RequestTypes ==
  ASSUME TypeOK, NEW c \in Clients
  PROVE  /\ req[c] \in Requested /\ req[c].p \in Paths /\ req[c].q \in Paths
         /\ req[c].new \in Pages /\ req[c].plan \subseteq Paths \X Files
         /\ req[c].exp \in Files \cup {NoFile} /\ req[c].pc \in Pcs /\ req[c].op \in Ops
         /\ \A x \in req[c].plan : x[1] \in Paths /\ x[2] \in Files /\ x = <<x[1], x[2]>>
<1>1. req[c] \in Requested
  BY DEF TypeOK
<1>2. /\ req[c].p \in Paths /\ req[c].q \in Paths
      /\ req[c].new \in Pages /\ req[c].plan \subseteq Paths \X Files
      /\ req[c].exp \in Files \cup {NoFile} /\ req[c].pc \in Pcs /\ req[c].op \in Ops
  BY <1>1 DEF Requested
<1>3. \A x \in req[c].plan : x[1] \in Paths /\ x[2] \in Files /\ x = <<x[1], x[2]>>
  BY <1>2
<1> QED BY <1>1, <1>2, <1>3

LEMMA FileTypes ==
  ASSUME TypeOK, NEW p \in Paths
  PROVE  /\ files[p] \in Files \cup {NoFile} /\ files[p] # NoFile => files[p] \in Files
         /\ NoFile \notin Files /\ \A f \in Pages : f \in Files
BY MemoryAssumption DEF TypeOK, Files

LEMMA AsideType ==
  ASSUME NEW k \in {"stage", "backup"}, NEW c \in Clients, NEW p \in Paths, NEW f \in Files
  PROVE  /\ Aside(k, c, p, f) \in Hidden
         /\ Aside(k, c, p, f).kind = k /\ Aside(k, c, p, f).by = c
         /\ Aside(k, c, p, f).p = p /\ Aside(k, c, p, f).file = f
BY DEF Aside, Hidden

LEMMA HiddenTypes ==
  ASSUME TypeOK, NEW h \in hidden
  PROVE  h.p \in Paths /\ h.file \in Files /\ h.by \in Clients /\ h.file # NoFile
<1>1. h \in Hidden
  BY DEF TypeOK
<1>2. h.p \in Paths /\ h.file \in Files /\ h.by \in Clients
  BY <1>1 DEF Hidden
<1> QED BY <1>2, MemoryAssumption

LEMMA RewrittenTypes ==
  ASSUME TypeOK, NEW c \in Clients
  PROVE  /\ Rewritten(req[c]) \subseteq Paths \X Files
         /\ \A x \in Rewritten(req[c]) : x[1] \in Paths \ {req[c].p} /\ files[x[1]] # NoFile
         /\ \A x, y \in Rewritten(req[c]) : x[1] = y[1] => x = y
<1> DEFINE r == req[c]
           F(p) == [files[p] EXCEPT !.links = rewrite_links(p, @, r.p, r.q)]
           S == {x \in Paths \ {r.p} : r.p \in LinksTo(x, files[x])}
<1>1. Rewritten(r) = {<<p, F(p)>> : p \in S}
  BY DEF Rewritten
<1>2. ASSUME NEW p \in S PROVE F(p) \in Files /\ files[p] # NoFile
  <2>1. files[p] \in Pages
    BY DEF LinksTo
  <2>2. PICK ls : ls = rewrite_links(p, files[p].links, r.p, r.q)
    OBVIOUS
  <2>3. ls \subseteq Targets
    <3>1. files[p].links \subseteq Targets
      BY <2>1 DEF Pages
    <3>2. relative_target(p, r.q) \in Targets
      BY LinkAssumption, RequestTypes
    <3> QED BY <2>2, <3>1, <3>2 DEF rewrite_links
  <2>4. F(p) = [files[p] EXCEPT !.links = ls]
    BY <2>2
  <2>5. F(p) \in Pages
    BY <2>1, <2>3, <2>4 DEF Pages
  <2> QED BY <2>1, <2>5, MemoryAssumption DEF Files
<1> HIDE DEF F
<1>3. \A x \in Rewritten(r) : \E p \in S : x = <<p, F(p)>>
  BY <1>1
<1>4. ASSUME NEW x \in Rewritten(r)
      PROVE  x[1] \in S /\ x = <<x[1], F(x[1])>> /\ F(x[1]) \in Files /\ files[x[1]] # NoFile
  <2>1. PICK p \in S : x = <<p, F(p)>>
    BY <1>3
  <2>2. x[1] = p
    BY <2>1
  <2> QED BY <1>2, <2>1, <2>2
<1>5. \A x \in Rewritten(r) : x \in Paths \X Files
  BY <1>4
<1>6. ASSUME NEW x \in Rewritten(r), NEW y \in Rewritten(r), x[1] = y[1] PROVE x = y
  BY <1>4, <1>6
<1> QED BY <1>4, <1>5, <1>6

\* a request as a client makes it
Asked(r) ==
  /\ r \in Requested /\ r.pc \in {"lock", "page", "scan"}
  /\ r.op = "move" => r.q # r.p

LEMMA BlankShape == Blank.op = "read" /\ Blank.pc = "idle"
  BY DEF Blank

LEMMA AskEffect ==
  ASSUME TypeOK, NEW c \in Clients, Ask(c)
  PROVE  \E r : Put(c, r) /\ Asked(r)
<1>1. PICK op \in Routes, p \in Paths, e \in {NoFile} \cup {files[x] : x \in Paths} :
        \/ /\ op = "write"
           /\ \E ls \in Bodies, o \in BOOLEAN :
                Put(c, [Blank EXCEPT !.op = op, !.pc = "lock", !.p = p, !.exp = e, !.over = o,
                                     !.new = [links |-> ls, stamp |-> c]])
        \/ /\ op = "move"
           /\ \E q \in Paths \ {p} :
                Put(c, [Blank EXCEPT !.op = op, !.pc = "lock", !.p = p, !.q = q, !.exp = e])
        \/ op = "remove" /\ Put(c, [Blank EXCEPT !.op = op, !.pc = "lock", !.p = p, !.exp = e])
        \/ Put(c, [Blank EXCEPT !.p = p, !.pc = "page", !.exp = pages[p]])
        \/ op = "query" /\ Put(c, [Blank EXCEPT !.op = op, !.pc = "scan"])
  BY DEF Ask
<1>2. e \in Files \cup {NoFile} /\ pages[p] \in Files \cup {NoFile}
  BY DEF TypeOK
<1>3. ASSUME op = "write", NEW ls \in Bodies, NEW o \in BOOLEAN
      PROVE  Asked([Blank EXCEPT !.op = op, !.pc = "lock", !.p = p, !.exp = e, !.over = o,
                           !.new = [links |-> ls, stamp |-> c]])
  <2>1. [links |-> ls, stamp |-> c] \in Pages
    BY MemoryAssumption DEF Pages, Stamps
  <2> QED BY <1>2, <1>3, <2>1, BlankType, BlankShape DEF Asked, Requested, Ops, Pcs
<1>4. ASSUME op = "move", NEW q \in Paths \ {p}
      PROVE  Asked([Blank EXCEPT !.op = op, !.pc = "lock", !.p = p, !.q = q, !.exp = e])
  BY <1>2, <1>4, BlankType, BlankShape DEF Asked, Requested, Ops, Pcs
<1>5. ASSUME op = "remove"
      PROVE  Asked([Blank EXCEPT !.op = op, !.pc = "lock", !.p = p, !.exp = e])
  BY <1>2, <1>5, BlankType, BlankShape DEF Asked, Requested, Ops, Pcs
<1>6. Asked([Blank EXCEPT !.p = p, !.pc = "page", !.exp = pages[p]])
  BY <1>2, BlankType, BlankShape DEF Asked, Requested, Pcs
<1>7. ASSUME op = "query"
      PROVE  Asked([Blank EXCEPT !.op = op, !.pc = "scan"])
  BY <1>7, BlankType, BlankShape DEF Asked, Requested, Ops, Pcs
<1> QED BY <1>1, <1>3, <1>4, <1>5, <1>6, <1>7

LEMMA NoLinkChange ==
  ASSUME TypeOK, NEW c \in Clients,
         Ask(c) \/ with_lock(c) \/ Unlock(c) \/ read_page(c) \/ links(c) \/ list_pages(c) \/ query_pages(c)
  PROVE  TypeOK'
<1>0. /\ req[c] \in Requested /\ req[c].p \in Paths
      /\ \A q \in Paths : files[q] \in Files \cup {NoFile} /\ pages[q] \in Files \cup {NoFile}
  BY DEF TypeOK, Requested
<1>1. ASSUME req' \in [Clients -> Requested], UNCHANGED <<files, hidden, pages, cut, faults>>,
             lock' \in Clients \cup {Nobody}
      PROVE  TypeOK'
  BY <1>1 DEF TypeOK
<1>2. CASE Ask(c)
  <2>1. \E r \in Requested : Put(c, r)
    BY <1>2, AskEffect DEF Asked
  <2>2. lock' = lock
    BY <1>2 DEF Ask
  <2>3. req' \in [Clients -> Requested]
    BY <2>1, PutEffect
  <2> QED BY <1>1, <1>2, <2>2, <2>3 DEF Ask, TypeOK
<1>3. CASE with_lock(c)
  <2>1. Goto(c, "decide") /\ lock' = c
    BY <1>3 DEF with_lock
  <2>2. req' \in [Clients -> Requested]
    BY <2>1, GotoEffect DEF Pcs
  <2> QED BY <1>1, <1>3, <2>1, <2>2 DEF with_lock
<1>4. CASE Unlock(c)
  <2>1. Goto(c, "links") \/ Goto(c, "over")
    BY <1>4 DEF Unlock
  <2>2. req' \in [Clients -> Requested]
    BY <2>1, GotoEffect DEF Pcs
  <2> QED BY <1>1, <1>4, <2>2 DEF Unlock
<1>5. CASE read_page(c)
  <2>1. Goto(c, "links") \/ Quit(c, "over", "missing") \/ Quit(c, "over", "error")
    BY <1>5 DEF read_page
  <2>2. req' \in [Clients -> Requested]
    BY <2>1, GotoEffect, QuitEffect DEF Pcs
  <2> QED BY <1>1, <1>5, <2>2 DEF read_page, TypeOK
<1>6. CASE links(c)
  <2>1. Quit(c, "over", "missing") \/ Quit(c, "over", "error") \/ Quit(c, "over", "ok")
    BY <1>6 DEF links
  <2>2. req' \in [Clients -> Requested]
    BY <2>1, QuitEffect DEF Pcs
  <2> QED BY <1>1, <1>6, <2>2 DEF links, TypeOK
<1>7. CASE list_pages(c)
  <2>1. [req[c] EXCEPT !.pc = "each", !.left = Scanned] \in Requested
    BY <1>0 DEF Requested, Pcs, Scanned
  <2>2. req' \in [Clients -> Requested]
    BY <1>7, <2>1, PutEffect DEF list_pages
  <2> QED BY <1>1, <1>7, <2>2 DEF list_pages, TypeOK
<1>8. CASE query_pages(c)
  <2>0. req[c].left \subseteq Paths
    BY <1>0 DEF Requested
  <2>1. ASSUME NEW p \in req[c].left
        PROVE  /\ [req[c] EXCEPT !.pc = "over", !.out = "missing", !.p = p, !.left = {}] \in Requested
               /\ [req[c] EXCEPT !.left = @ \ {p}] \in Requested
    BY <1>0, <2>0 DEF Requested, Pcs
  <2>2. Quit(c, "over", "ok") \/ \E r \in Requested : Put(c, r)
    BY <1>8, <2>1 DEF query_pages
  <2>3. req' \in [Clients -> Requested]
    BY <2>2, PutEffect, QuitEffect DEF Pcs
  <2> QED BY <1>1, <1>8, <2>3 DEF query_pages, TypeOK
<1> QED BY <1>2, <1>3, <1>4, <1>5, <1>6, <1>7, <1>8

LEMMA FaultType == ASSUME TypeOK, NEW k, Fault(k) \/ NoFault PROVE faults' \in 0..MaxFaults
  BY MemoryAssumption DEF TypeOK, Fault, NoFault

Staged(c) == PathsOf(Mine("stage", c))
Backed(c) == PathsOf(Mine("backup", c))

LEMMA WriterTypes ==
  ASSUME TypeOK, NEW c \in Clients,
         At(c, "backup") => \A p \in Originals(req[c]) \ Backed(c) : files[p] # NoFile,
         write_page(c) \/ write_atomically(c) \/ remove_page(c) \/ remove_file(c)
         \/ move_page(c) \/ stage_change(c) \/ backup_file(c) \/ install(c) \/ remove_backups(c)
         \/ remove_installed(c) \/ restore_backups(c) \/ cleanup_staged(c) \/ Crash(c)
  PROVE  TypeOK'
<1>0. \A p \in Paths : files[p] \in Files \cup {NoFile}
  BY DEF TypeOK
<1>1. ASSUME req' \in [Clients -> Requested], files' \in [Paths -> Files \cup {NoFile}],
             pages' \in [Paths -> Files \cup {NoFile}], hidden' \subseteq Hidden,
             lock' \in Clients \cup {Nobody}, cut' \in BOOLEAN, faults' \in 0..MaxFaults
      PROVE  TypeOK'
  BY <1>1 DEF TypeOK
<1>2. CASE write_page(c) \/ remove_page(c)
  <2>1. Quit(c, "unlock", "error") \/ Goto(c, "rename") \/ Goto(c, "unlink")
    BY <1>2 DEF write_page, remove_page
  <2>2. req' \in [Clients -> Requested]
    BY <2>1, GotoEffect, QuitEffect DEF Pcs
  <2> QED BY <1>1, <1>2, <2>2 DEF write_page, remove_page, KeepStore, NoFault, TypeOK
<1>3. CASE write_atomically(c) \/ remove_file(c)
  <2>1. Quit(c, "unlock", "error") \/ Quit(c, "unlock", "ok")
    BY <1>3 DEF write_atomically, remove_file
  <2>2. req' \in [Clients -> Requested]
    BY <2>1, QuitEffect DEF Pcs
  <2>3. faults' \in 0..MaxFaults
    BY <1>3, FaultType DEF write_atomically, remove_file
  <2>4. req[c].new \in Files /\ req[c].p \in Paths
    BY RequestTypes, FileTypes
  <2>5. \/ UNCHANGED <<files, pages>>
        \/ \E f \in Files \cup {NoFile} : /\ files' = [files EXCEPT ![req[c].p] = f]
                                         /\ pages' = [pages EXCEPT ![req[c].p] = f]
    BY <1>3, <2>4 DEF write_atomically, remove_file
  <2>6. files' \in [Paths -> Files \cup {NoFile}] /\ pages' \in [Paths -> Files \cup {NoFile}]
    BY <2>5 DEF TypeOK
  <2> QED BY <1>1, <1>3, <2>2, <2>3, <2>6 DEF write_atomically, remove_file, TypeOK
<1>4. CASE move_page(c)
  <2>1. ASSUME files[req[c].p] # NoFile
        PROVE  [req[c] EXCEPT !.pc = "stage", !.plan = {<<req[c].q, files[req[c].p]>>} \cup Rewritten(req[c])]
                 \in Requested
    <3>1. <<req[c].q, files[req[c].p]>> \in Paths \X Files
      BY <1>0, <2>1, RequestTypes
    <3>2. PICK pl : pl = {<<req[c].q, files[req[c].p]>>} \cup Rewritten(req[c])
      OBVIOUS
    <3>3. pl \subseteq Paths \X Files
      BY <3>1, <3>2, RewrittenTypes
    <3>4. [req[c] EXCEPT !.pc = "stage", !.plan = pl] \in Requested
      BY <3>3, RequestTypes DEF Requested, Pcs
    <3> QED BY <3>2, <3>4
  <2>2. Quit(c, "unlock", "error") \/ \E r \in Requested : Put(c, r)
    BY <1>4, <2>1 DEF move_page
  <2>3. req' \in [Clients -> Requested]
    BY <2>2, PutEffect, QuitEffect DEF Pcs
  <2> QED BY <1>1, <1>4, <2>3 DEF move_page, KeepStore, NoFault, TypeOK
<1>5. CASE stage_change(c)
  <2>1. req' \in [Clients -> Requested]
    <3>1. Goto(c, "backup") \/ Goto(c, "unstage") \/ Quit(c, "unlock", "error") \/ UNCHANGED req
      BY <1>5 DEF stage_change
    <3> QED BY <3>1, GotoEffect, QuitEffect DEF Pcs, TypeOK
  <2>2. hidden' \subseteq Hidden
    <3>1. hidden' = hidden \/ \E x \in req[c].plan : hidden' = hidden \cup {Aside("stage", c, x[1], x[2])}
      BY <1>5 DEF stage_change, FirstOf
    <3> QED BY <3>1, AsideType, RequestTypes DEF TypeOK
  <2>3. faults' \in 0..MaxFaults
    BY <1>5, FaultType DEF stage_change
  <2> QED BY <1>1, <1>5, <2>1, <2>2, <2>3 DEF stage_change, TypeOK
<1>6. CASE backup_file(c)
  <2>0. BackUp(c, "install") /\ At(c, "backup")
    BY <1>6 DEF backup_file, BackUp
  <2>1. req' \in [Clients -> Requested] /\ faults' \in 0..MaxFaults /\ cut' \in BOOLEAN
    <3>1. Goto(c, "install") \/ Goto(c, "unstage") \/ Goto(c, "restore")
          \/ Quit(c, "unlock", "error") \/ UNCHANGED req
      BY <2>0 DEF BackUp
    <3>2. (Fault("io") \/ Fault("resolve") \/ NoFault) /\ cut' \in {cut, TRUE}
      BY <2>0 DEF BackUp
    <3>3. faults' \in 0..MaxFaults
      BY <3>2, FaultType
    <3> QED BY <3>1, <3>2, <3>3, GotoEffect, QuitEffect DEF Pcs, TypeOK
  <2>2. \/ UNCHANGED <<files, hidden>>
        \/ \E p \in Originals(req[c]) \ Backed(c) :
             /\ hidden' = hidden \cup {Aside("backup", c, p, files[p])}
             /\ files' = [files EXCEPT ![p] = NoFile]
    BY <2>0 DEF BackUp, Backed
  <2>3. Originals(req[c]) \subseteq Paths
    BY RequestTypes DEF Originals
  <2>4. \A p \in Originals(req[c]) \ Backed(c) : Aside("backup", c, p, files[p]) \in Hidden
    <3>1. \A p \in Originals(req[c]) \ Backed(c) : p \in Paths /\ files[p] \in Files
      BY <1>0, <2>0, <2>3
    <3> QED BY <3>1, AsideType
  <2>5. files' \in [Paths -> Files \cup {NoFile}] /\ hidden' \subseteq Hidden
    BY <2>2, <2>4 DEF TypeOK
  <2> QED BY <1>1, <2>0, <2>1, <2>5 DEF BackUp, TypeOK
<1>7. CASE install(c)
  <2>0. Install(c, "takeout")
    BY <1>7 DEF install
  <2>1. req' \in [Clients -> Requested] /\ faults' \in 0..MaxFaults
    <3>1. Goto(c, "clean") \/ Goto(c, "takeout") \/ UNCHANGED req
      BY <2>0 DEF Install
    <3>2. Fault("io") \/ NoFault
      BY <2>0 DEF Install
    <3>3. faults' \in 0..MaxFaults
      BY <3>2, FaultType
    <3> QED BY <3>1, <3>3, GotoEffect DEF Pcs, TypeOK
  <2>2. \/ UNCHANGED <<files, hidden>>
        \/ \E h \in hidden : files' = [files EXCEPT ![h.p] = h.file] /\ hidden' = hidden \ {h}
    BY <2>0 DEF Install, Mine
  <2>3. files' \in [Paths -> Files \cup {NoFile}] /\ hidden' \subseteq Hidden
    BY <2>2, HiddenTypes DEF TypeOK
  <2>4. pages' = pages \/ pages' = Moved(req[c])
    BY <2>0 DEF Install
  <2>5. Moved(req[c]) \in [Paths -> Files \cup {NoFile}]
    <3>1. ASSUME NEW p \in Paths, \E x \in req[c].plan : x[1] = p
          PROVE  (CHOOSE x \in req[c].plan : x[1] = p)[2] \in Files
      BY <3>1, RequestTypes
    <3>2. \A p \in Paths : pages[p] \in Files \cup {NoFile}
      BY DEF TypeOK
    <3> QED BY <3>1, <3>2 DEF Moved
  <2> QED BY <1>1, <2>0, <2>1, <2>3, <2>4, <2>5 DEF Install, TypeOK
<1>8. CASE remove_backups(c) \/ cleanup_staged(c)
  <2>1. Quit(c, "unlock", "ok") \/ Quit(c, "unlock", "error") \/ UNCHANGED req
    BY <1>8 DEF remove_backups, cleanup_staged
  <2>2. req' \in [Clients -> Requested]
    BY <2>1, QuitEffect DEF Pcs, TypeOK
  <2>3. faults' \in 0..MaxFaults
    BY <1>8, FaultType DEF remove_backups, cleanup_staged, NoFault, TypeOK
  <2>4. hidden' \subseteq Hidden
    BY <1>8 DEF remove_backups, cleanup_staged, TypeOK
  <2> QED BY <1>1, <1>8, <2>2, <2>3, <2>4 DEF remove_backups, cleanup_staged, TypeOK
<1>9. CASE remove_installed(c) \/ restore_backups(c)
  <2>1. Goto(c, "restore") \/ Goto(c, "unstage") \/ UNCHANGED req
    BY <1>9 DEF remove_installed, restore_backups
  <2>2. req' \in [Clients -> Requested]
    BY <2>1, GotoEffect DEF Pcs, TypeOK
  <2>3. \/ UNCHANGED <<files, hidden>>
        \/ hidden' = hidden /\ \E p : files' = [files EXCEPT ![p] = NoFile]
        \/ \E h \in hidden : files' = [files EXCEPT ![h.p] = h.file] /\ hidden' = hidden \ {h}
    BY <1>9 DEF remove_installed, restore_backups, Mine
  <2>4. files' \in [Paths -> Files \cup {NoFile}] /\ hidden' \subseteq Hidden
    BY <2>3, HiddenTypes DEF TypeOK
  <2> QED BY <1>1, <1>9, <2>2, <2>4 DEF remove_installed, restore_backups, TypeOK
<1>10. CASE Crash(c)
  <2>1. req' \in [Clients -> Requested] /\ faults' \in 0..MaxFaults
    BY <1>10, QuitEffect, FaultType DEF Crash, Pcs
  <2>2. lock' \in Clients \cup {Nobody} /\ cut' \in BOOLEAN
    BY <1>10 DEF Crash, TypeOK
  <2> QED BY <1>1, <1>10, <2>1, <2>2 DEF Crash, TypeOK
<1> QED BY <1>2, <1>3, <1>4, <1>5, <1>6, <1>7, <1>8, <1>9, <1>10

----------------------------------------------------------------------------
(* Pages: the invariant                                                    *)

Locked == {"decide", "stage", "rename", "unlink", "backup", "install", "clean",
           "takeout", "restore", "unstage", "unlock"}
Moving == {"backup", "install", "takeout", "restore"}

LockInv == \A c \in Clients : req[c].pc \in Locked => lock = c

\* while no move is under way the files are what the operations amount to
QuietInv == ~cut /\ (\A c \in Clients : req[c].pc \notin Moving) => files = pages

\* a page is its file, or a backup next to it
Covered(p) ==
  pages[p] # NoFile => \E h \in hidden : h.kind = "backup" /\ h.p = p /\ h.file = pages[p]
KeptInv == \A p \in Paths : files[p] = pages[p] \/ Covered(p)

\* the plan of a move: one file at each path, one of them at the destination
Planned(c) ==
  LET r == req[c]
  IN /\ r.q # r.p
     /\ \A x \in r.plan : x[1] # r.p
     /\ \A x, y \in r.plan : x[1] = y[1] => x = y
     /\ \E x \in r.plan : x[1] = r.q
     /\ \A h \in Mine("stage", c) : <<h.p, h.file>> \in r.plan

Staging(c) ==
  /\ files[req[c].q] = NoFile /\ Mine("backup", c) = {}
  /\ \A p \in Originals(req[c]) : files[p] # NoFile

\* one backup for each original; unless an earlier move was cut, it is the page
BackupsOK(c) ==
  /\ \A h \in Mine("backup", c) : h.p \in Originals(req[c])
  /\ \A h, g \in Mine("backup", c) : h.p = g.p => h = g
  /\ ~cut => /\ pages[req[c].q] = NoFile
             /\ \A h \in Mine("backup", c) : h.file = pages[h.p]

\* what no backup stands for is where it was
RestAlone(c) == ~cut => \A p \in Paths \ Backed(c) : files[p] = pages[p]

BackingUp(c) ==
  /\ files[req[c].q] = NoFile
  /\ \A x \in req[c].plan : x[1] \in Staged(c)
  /\ \A p \in Originals(req[c]) : files[p] = NoFile <=> p \in Backed(c)
  /\ Backed(c) # {} => req[c].p \in Backed(c)
  /\ RestAlone(c)

Installing(c) ==
  LET touched == Originals(req[c]) \cup {req[c].q}
  IN /\ Originals(req[c]) \subseteq Backed(c)
     /\ \A p \in touched : Covered(p)
     /\ files[req[c].p] = NoFile
     /\ \A p \in Staged(c) : files[p] = NoFile
     /\ ~cut => \A p \in Paths \ touched : files[p] = pages[p]

Installed(c) == \A x \in req[c].plan : x[1] \notin Staged(c) => files[x[1]] = x[2]

Restoring(c) == (\A p \in Backed(c) : files[p] = NoFile) /\ RestAlone(c)

Cleaning(c) ==
  /\ \A h \in Mine("backup", c) : h.p \in Originals(req[c])
  /\ pages[req[c].p] = NoFile
  /\ \A x \in req[c].plan : files[x[1]] = pages[x[1]]

MoveInv(c) ==
  LET pc == req[c].pc
  IN /\ pc \in {"idle", "lock", "decide"} => \A h \in hidden : h.by # c
     /\ pc \in {"lock", "decide"} /\ req[c].op = "move" => req[c].q # req[c].p
     /\ pc = "rename" /\ req[c].exp # NoFile => files[req[c].p] = req[c].exp
     /\ pc \in Moving \cup {"stage", "clean"} => Planned(c)
     /\ pc \in Moving => BackupsOK(c)
     /\ pc = "stage" => Staging(c)
     /\ pc = "backup" => BackingUp(c)
     /\ pc \in {"install", "takeout"} => Installing(c)
     /\ pc = "install" => Installed(c)
     /\ pc = "restore" => Restoring(c)
     /\ pc = "clean" => Cleaning(c)

PagesInv == TypeOK /\ LockInv /\ QuietInv /\ KeptInv /\ \A c \in Clients : MoveInv(c)

----------------------------------------------------------------------------
(* Pages: who a step concerns                                              *)

LEMMA PathsOfEffect == ASSUME NEW S, NEW p PROVE p \in PathsOf(S) <=> \E h \in S : h.p = p
  BY DEF PathsOf

LEMMA NoPaths == ASSUME NEW S PROVE PathsOf(S) = {} <=> S = {}
  BY DEF PathsOf

LEMMA HideEffect ==
  ASSUME NEW k, NEW c, NEW p, NEW f, hidden' = hidden \cup {Aside(k, c, p, f)}
  PROVE  /\ Mine(k, c)' = Mine(k, c) \cup {Aside(k, c, p, f)}
         /\ PathsOf(Mine(k, c))' = PathsOf(Mine(k, c)) \cup {p}
         /\ \A j : j # k => Mine(j, c)' = Mine(j, c) /\ PathsOf(Mine(j, c))' = PathsOf(Mine(j, c))
<1>1. PICK a : a = Aside(k, c, p, f)
  OBVIOUS
<1>2. a.kind = k /\ a.by = c /\ a.p = p /\ hidden' = hidden \cup {a}
  BY <1>1 DEF Aside
<1>3. Mine(k, c)' = Mine(k, c) \cup {a}
  BY <1>2 DEF Mine
<1>4. PathsOf(Mine(k, c))' = PathsOf(Mine(k, c)) \cup {p}
  BY <1>2, <1>3 DEF PathsOf
<1>5. ASSUME NEW j, j # k PROVE Mine(j, c)' = Mine(j, c) /\ PathsOf(Mine(j, c))' = PathsOf(Mine(j, c))
  <2>1. Mine(j, c)' = Mine(j, c)
    BY <1>2, <1>5 DEF Mine
  <2> QED BY <2>1 DEF PathsOf
<1> QED BY <1>1, <1>3, <1>4, <1>5

LEMMA UnhideEffect ==
  ASSUME NEW k, NEW c, NEW h \in Mine(k, c), hidden' = hidden \ {h}
  PROVE  /\ Mine(k, c)' = Mine(k, c) \ {h}
         /\ \A j : j # k => Mine(j, c)' = Mine(j, c) /\ PathsOf(Mine(j, c))' = PathsOf(Mine(j, c))
<1>1. h.kind = k /\ h.by = c
  BY DEF Mine
<1>2. Mine(k, c)' = Mine(k, c) \ {h}
  BY DEF Mine
<1>3. ASSUME NEW j, j # k PROVE Mine(j, c)' = Mine(j, c) /\ PathsOf(Mine(j, c))' = PathsOf(Mine(j, c))
  <2>1. Mine(j, c)' = Mine(j, c)
    BY <1>1, <1>3 DEF Mine
  <2> QED BY <2>1 DEF PathsOf
<1> QED BY <1>2, <1>3

Step(c) ==
  \/ Ask(c) \/ with_lock(c) \/ Unlock(c) \/ read_page(c) \/ links(c)
  \/ list_pages(c) \/ query_pages(c)
  \/ write_page(c) \/ write_atomically(c) \/ remove_page(c) \/ remove_file(c)
  \/ move_page(c) \/ stage_change(c) \/ backup_file(c) \/ install(c) \/ remove_backups(c)
  \/ remove_installed(c) \/ restore_backups(c) \/ cleanup_staged(c) \/ Crash(c)

\* only the holder of the lock touches the store, and only its own hidden files
LEMMA StepFrame ==
  ASSUME TypeOK, NEW c \in Clients, Step(c)
  PROVE  /\ \A d \in Clients \ {c} : req'[d] = req[d]
         /\ \A h : h.by # c => (h \in hidden' <=> h \in hidden)
         /\ req[c].pc \notin Locked => UNCHANGED <<files, hidden, pages>>
         /\ req[c].pc \notin Moving => cut' = cut
<1> USE DEF At
<1>1. \E r : Put(c, r) \/ UNCHANGED req
  BY DEF Step, Ask, with_lock, Unlock, read_page, links, list_pages, query_pages, write_page,
         write_atomically, remove_page, remove_file, move_page, stage_change, backup_file, BackUp,
         install, Install, remove_backups, remove_installed, restore_backups, cleanup_staged, Crash,
         Goto, Quit
<1>2. \A d \in Clients \ {c} : req'[d] = req[d]
  BY <1>1, PutEffect
<1>3. CASE /\ UNCHANGED <<files, hidden, pages>>
           /\ req[c].pc \notin Moving => cut' = cut
  BY <1>2, <1>3
<1>4. CASE Ask(c) \/ with_lock(c) \/ Unlock(c) \/ read_page(c) \/ links(c) \/ list_pages(c)
           \/ query_pages(c) \/ write_page(c) \/ remove_page(c) \/ move_page(c) \/ Crash(c)
  <2>1. UNCHANGED <<files, hidden, pages>>
    BY <1>4 DEF Ask, with_lock, Unlock, read_page, links, list_pages, query_pages, write_page,
                remove_page, move_page, Crash, KeepStore
  <2>2. req[c].pc \notin Moving => cut' = cut
    BY <1>4 DEF Ask, with_lock, Unlock, read_page, links, list_pages, query_pages, write_page,
                remove_page, move_page, Crash, KeepStore, TypeOK, Moving
  <2> QED BY <1>3, <2>1, <2>2
<1>5. CASE write_atomically(c) \/ remove_file(c)
  <2>1. req[c].pc \in Locked /\ UNCHANGED <<hidden, cut>>
    BY <1>5 DEF write_atomically, remove_file, Locked
  <2> QED BY <1>2, <2>1
<1>6. CASE stage_change(c) \/ backup_file(c)
  <2>1. req[c].pc \in Locked /\ (req[c].pc \notin Moving => cut' = cut)
    BY <1>6 DEF stage_change, backup_file, BackUp, Locked, Moving
  <2>2. hidden' = hidden \/ \E k, p, f : hidden' = hidden \cup {Aside(k, c, p, f)}
    BY <1>6 DEF stage_change, backup_file, BackUp
  <2>3. \A k, p, f : Aside(k, c, p, f).by = c
    BY DEF Aside
  <2> QED BY <1>2, <2>1, <2>2, <2>3
<1>7. CASE install(c) \/ remove_backups(c) \/ remove_installed(c) \/ restore_backups(c) \/ cleanup_staged(c)
  <2>1. req[c].pc \in Locked /\ cut' = cut
    BY <1>7 DEF install, Install, remove_backups, remove_installed, restore_backups, cleanup_staged,
                Locked
  <2>2. hidden' = hidden \/ \E h \in hidden : h.by = c /\ hidden' = hidden \ {h}
    BY <1>7 DEF install, Install, remove_backups, remove_installed, restore_backups, cleanup_staged, Mine
  <2> QED BY <1>2, <2>1, <2>2
<1> QED BY <1>4, <1>5, <1>6, <1>7 DEF Step

LEMMA QueryEffect ==
  ASSUME TypeOK, NEW c \in Clients, query_pages(c)
  PROVE  req'[c].pc \in {"each", "over"}
<1>1. CASE Quit(c, "over", "ok")
  BY <1>1, QuitEffect DEF Pcs
<1>2. CASE ~Quit(c, "over", "ok")
  <2>1. PICK p \in req[c].left :
          \/ Put(c, [req[c] EXCEPT !.pc = "over", !.out = "missing", !.p = p, !.left = {}])
          \/ Put(c, [req[c] EXCEPT !.left = @ \ {p}])
    BY <1>2 DEF query_pages
  <2>2. req[c].pc = "each"
    BY DEF query_pages, At
  <2>3. PICK r : Put(c, r) /\ r.pc \in {"each", "over"}
    <3>1. req[c] \in Requested
      BY RequestTypes
    <3>2. [req[c] EXCEPT !.pc = "over", !.out = "missing", !.p = p, !.left = {}].pc = "over"
      BY <3>1 DEF Requested
    <3>3. [req[c] EXCEPT !.left = @ \ {p}].pc = "each"
      BY <2>2, <3>1 DEF Requested
    <3> QED BY <2>1, <3>2, <3>3
  <2> QED BY <2>3, PutEffect
<1> QED BY <1>1, <1>2

LEMMA LockStep ==
  ASSUME PagesInv, NEW c \in Clients, Step(c)
  PROVE  LockInv'
<1> USE DEF At
<1>1. TypeOK /\ LockInv
  BY DEF PagesInv
<1>2. \A d \in Clients \ {c} : req'[d] = req[d]
  BY <1>1, StepFrame
<1>3. CASE with_lock(c)
  <2>1. lock = Nobody /\ lock' = c
    BY <1>3 DEF with_lock
  <2> QED BY <1>1, <1>2, <2>1, MemoryAssumption DEF LockInv
<1>4. CASE Unlock(c)
  <2>1. req[c].pc = "unlock" /\ req'[c].pc \in {"links", "over"}
    <3>1. Goto(c, "links") \/ Goto(c, "over")
      BY <1>4 DEF Unlock
    <3> QED BY <1>1, <1>4, <3>1, GotoEffect DEF Unlock, Pcs
  <2>2. lock = c /\ req'[c].pc \notin Locked
    BY <1>1, <2>1 DEF LockInv, Locked
  <2> QED BY <1>1, <1>2, <2>2 DEF LockInv
<1>5. CASE Crash(c)
  <2>1. req'[c].pc = "over"
    BY <1>1, <1>5, QuitEffect DEF Crash, Pcs
  <2>2. req'[c].pc \notin Locked
    BY <2>1 DEF Locked
  <2> QED BY <1>1, <1>2, <1>5, <2>2 DEF LockInv, Crash
<1>6. ASSUME ~with_lock(c), ~Unlock(c), ~Crash(c) PROVE LockInv'
  <2>1. lock' = lock
    BY <1>6 DEF Step, Ask, read_page, links, list_pages, query_pages, write_page,
         write_atomically, remove_page, remove_file, move_page, stage_change, backup_file, BackUp,
         install, Install, remove_backups, remove_installed, restore_backups, cleanup_staged, KeepStore
  <2>2. req'[c].pc \in Locked => req[c].pc \in Locked
    <3>1. CASE Ask(c) \/ read_page(c) \/ links(c) \/ list_pages(c) \/ query_pages(c)
      <4>1. CASE Ask(c)
        <5>1. PICK r \in Requested : Put(c, r) /\ r.pc \in {"lock", "page", "scan"}
          BY <1>1, <4>1, AskEffect DEF Asked
        <5> QED BY <1>1, <5>1, PutEffect DEF Locked
      <4>2. CASE read_page(c)
        <5>1. Goto(c, "links") \/ Quit(c, "over", "missing") \/ Quit(c, "over", "error")
          BY <4>2 DEF read_page
        <5>2. req'[c].pc \in {"links", "over"}
          BY <1>1, <5>1, GotoEffect, QuitEffect DEF Pcs
        <5> QED BY <5>2 DEF Locked
      <4>3. CASE links(c)
        <5>1. \E out \in {"missing", "error", "ok"} : Quit(c, "over", out)
          BY <4>3 DEF links
        <5>2. req'[c].pc = "over"
          BY <1>1, <5>1, QuitEffect DEF Pcs
        <5> QED BY <5>2 DEF Locked
      <4>4. CASE list_pages(c)
        <5>1. req'[c].pc = "each"
          BY <1>1, <4>4, RequestTypes DEF list_pages, Put, TypeOK, Requested
        <5> QED BY <5>1 DEF Locked
      <4>5. CASE query_pages(c)
        BY <1>1, <4>5, QueryEffect DEF Locked
      <4> QED BY <3>1, <4>1, <4>2, <4>3, <4>4, <4>5
    <3>2. CASE ~(Ask(c) \/ read_page(c) \/ links(c) \/ list_pages(c) \/ query_pages(c))
      BY <1>6, <3>2 DEF Step, write_page,
         write_atomically, remove_page, remove_file, move_page, stage_change, backup_file, BackUp,
         install, Install, remove_backups, remove_installed, restore_backups, cleanup_staged, Locked
    <3> QED BY <3>1, <3>2
  <2> QED BY <1>1, <1>2, <2>1, <2>2 DEF LockInv
<1> QED BY <1>3, <1>4, <1>5, <1>6

LEMMA BystanderStep ==
  ASSUME PagesInv, NEW c \in Clients, Step(c), NEW d \in Clients \ {c}
  PROVE  MoveInv(d)'
<1>1. TypeOK /\ LockInv /\ MoveInv(d)
  BY DEF PagesInv
<1>2. /\ req'[d] = req[d]
      /\ \A h : h.by # c => (h \in hidden' <=> h \in hidden)
  BY <1>1, StepFrame
<1>3. CASE req[c].pc \notin Locked
  <2>1. UNCHANGED <<files, hidden, pages, cut>>
    BY <1>1, <1>3, StepFrame DEF Locked, Moving
  <2> QED BY <1>1, <1>2, <2>1 DEF MoveInv, Planned, BackupsOK, Staging, BackingUp, Installing,
        Installed, Restoring, Cleaning, RestAlone, Covered, Staged, Backed, Mine, PathsOf, Originals
<1>4. CASE req[c].pc \in Locked
  <2>1. req[d].pc \notin Locked
    BY <1>1, <1>4 DEF LockInv
  <2>2. req[d].pc \notin Moving \cup {"stage", "clean", "rename", "decide", "backup", "install", "takeout", "restore"}
    BY <2>1 DEF Locked, Moving
  <2>3. req[d].pc \in {"idle", "lock"} => \A h \in hidden' : h.by # d
    BY <1>1, <1>2 DEF MoveInv
  <2> QED BY <1>1, <1>2, <2>2, <2>3 DEF MoveInv
<1> QED BY <1>3, <1>4

\* what a step of the holder has to establish
Settles(c) ==
  /\ KeptInv /\ MoveInv(c)
  /\ ~cut /\ req[c].pc \notin Moving => files = pages

LEMMA HolderQuiet ==
  ASSUME PagesInv, NEW c \in Clients, req[c].pc \in Locked
  PROVE  Settles(c)
<1>1. \A d \in Clients \ {c} : req[d].pc \notin Locked
  BY DEF PagesInv, LockInv
<1>2. \A d \in Clients \ {c} : req[d].pc \notin Moving
  BY <1>1 DEF Locked, Moving
<1> QED BY <1>2 DEF PagesInv, QuietInv, Settles

LEMMA SettledStep ==
  ASSUME PagesInv, NEW c \in Clients, Step(c), Settles(c)'
  PROVE  KeptInv' /\ QuietInv' /\ \A d \in Clients : MoveInv(d)'
<1>1. TypeOK /\ LockInv /\ QuietInv
  BY DEF PagesInv
<1>2. KeptInv' /\ \A d \in Clients : MoveInv(d)'
  BY BystanderStep DEF Settles
<1>3. QuietInv'
  BY DEF Settles, QuietInv
<1> QED BY <1>2, <1>3

LEMMA OutsideStep ==
  ASSUME PagesInv, NEW c \in Clients, Step(c), req[c].pc \notin Locked
  PROVE  KeptInv' /\ QuietInv' /\ \A d \in Clients : MoveInv(d)'
<1> USE DEF At
<1>1. TypeOK /\ LockInv /\ QuietInv /\ KeptInv /\ MoveInv(c)
  BY DEF PagesInv
<1>2. UNCHANGED <<files, hidden, pages, cut>> /\ \A d \in Clients \ {c} : req'[d] = req[d]
  BY <1>1, StepFrame DEF Locked, Moving
<1>3. KeptInv'
  BY <1>1, <1>2 DEF KeptInv, Covered
<1>4. QuietInv'
  BY <1>1, <1>2 DEF QuietInv, Locked, Moving
<1>5. MoveInv(c)'
  <2>1. ASSUME req'[c].pc \in {"page", "scan", "each", "links", "over"} PROVE MoveInv(c)'
    BY <2>1 DEF MoveInv, Moving
  <2>2. CASE Ask(c)
    <3>1. PICK r : Put(c, r) /\ Asked(r)
      BY <1>1, <2>2, AskEffect
    <3>2. req'[c] = r /\ r.pc \in {"lock", "page", "scan"} /\ (r.op = "move" => r.q # r.p)
      BY <1>1, <3>1, PutEffect DEF Asked
    <3>3. \A h \in hidden' : h.by # c
      BY <1>1, <1>2, <2>2 DEF Ask, MoveInv
    <3> QED BY <3>2, <3>3 DEF MoveInv, Moving
  <2>3. CASE with_lock(c)
    <3>1. req'[c].pc = "decide" /\ req'[c].op = req[c].op /\ req'[c].q = req[c].q /\ req'[c].p = req[c].p
      BY <1>1, <2>3, GotoEffect DEF with_lock, Pcs
    <3>2. req[c].pc = "lock"
      BY <2>3 DEF with_lock
    <3> QED BY <1>1, <1>2, <3>1, <3>2 DEF MoveInv, Moving
  <2>4. CASE read_page(c)
    <3>1. Goto(c, "links") \/ Quit(c, "over", "missing") \/ Quit(c, "over", "error")
      BY <2>4 DEF read_page
    <3>2. req'[c].pc \in {"links", "over"}
      BY <1>1, <3>1, GotoEffect, QuitEffect DEF Pcs
    <3> QED BY <2>1, <3>2
  <2>5. CASE links(c)
    <3>1. \E out \in {"missing", "error", "ok"} : Quit(c, "over", out)
      BY <2>5 DEF links
    <3>2. req'[c].pc = "over"
      BY <1>1, <3>1, QuitEffect DEF Pcs
    <3> QED BY <2>1, <3>2
  <2>6. CASE list_pages(c)
    <3>1. req'[c].pc = "each"
      BY <1>1, <2>6, RequestTypes DEF list_pages, Put, TypeOK, Requested
    <3> QED BY <2>1, <3>1
  <2>7. CASE query_pages(c)
    BY <1>1, <2>1, <2>7, QueryEffect
  <2>8. CASE Crash(c)
    <3>1. req'[c].pc = "over"
      BY <1>1, <2>8, QuitEffect DEF Crash, Pcs
    <3> QED BY <2>1, <3>1
  <2>9. ASSUME ~Ask(c), ~with_lock(c), ~read_page(c), ~links(c), ~list_pages(c), ~query_pages(c), ~Crash(c)
        PROVE FALSE
    BY <2>9 DEF Step, Unlock, write_page, write_atomically, remove_page, remove_file, move_page,
                stage_change, backup_file, BackUp, install, Install, remove_backups, remove_installed,
                restore_backups, cleanup_staged, Locked
  <2> QED BY <2>2, <2>3, <2>4, <2>5, <2>6, <2>7, <2>8, <2>9
<1> QED BY <1>2, <1>3, <1>4, <1>5, BystanderStep

----------------------------------------------------------------------------
(* Pages: the steps of the holder                                          *)

\* a step that ends the work under the lock
LEMMA EndedStep ==
  ASSUME NEW c \in Clients, req'[c].pc \in {"unlock", "over", "unstage", "links", "unlink"}, KeptInv',
         ~cut' => files' = pages'
  PROVE  Settles(c)'
BY DEF Settles, MoveInv, Moving

LEMMA KeptSame ==
  ASSUME KeptInv, UNCHANGED <<files, hidden, pages>>
  PROVE  KeptInv'
BY DEF KeptInv, Covered

LEMMA WriteSteps ==
  ASSUME PagesInv, NEW c \in Clients,
         write_page(c) \/ write_atomically(c) \/ remove_page(c) \/ remove_file(c)
         \/ cleanup_staged(c) \/ Unlock(c) \/ (Crash(c) /\ req[c].pc \in Locked)
  PROVE  Settles(c)'
<1> USE DEF At
<1>1. TypeOK /\ LockInv /\ KeptInv /\ MoveInv(c)
  BY DEF PagesInv
<1>2. ASSUME req[c].pc \in Locked \ Moving, ~cut PROVE files = pages
  BY <1>2, HolderQuiet DEF Settles
<1>3. CASE write_page(c)
  <2>0. req[c].pc = "decide" /\ UNCHANGED <<files, hidden, pages, cut>>
    BY <1>3 DEF write_page, KeepStore
  <2>1. CASE WriteRefused(req[c], files[req[c].p])
    <3>1. req'[c].pc = "unlock"
      BY <1>1, <1>3, <2>1, QuitEffect DEF write_page, Pcs
    <3> QED BY <1>1, <1>2, <2>0, <3>1, EndedStep, KeptSame DEF Locked, Moving
  <2>2. CASE ~WriteRefused(req[c], files[req[c].p])
    <3>1. req'[c].pc = "rename" /\ req'[c].exp = req[c].exp /\ req'[c].p = req[c].p
      BY <1>1, <1>3, <2>2, GotoEffect DEF write_page, Pcs
    <3>2. req[c].exp # NoFile => files[req[c].p] = req[c].exp
      BY <2>2 DEF WriteRefused
    <3>3. MoveInv(c)'
      BY <2>0, <3>1, <3>2 DEF MoveInv, Moving
    <3> QED BY <1>1, <1>2, <2>0, <3>1, <3>3, KeptSame DEF Settles, Locked, Moving
  <2> QED BY <2>1, <2>2
<1>4. CASE remove_page(c)
  <2>0. req[c].pc = "decide" /\ UNCHANGED <<files, hidden, pages, cut>>
    BY <1>4 DEF remove_page, KeepStore
  <2>1. Quit(c, "unlock", "error") \/ Goto(c, "unlink")
    BY <1>4 DEF remove_page
  <2>2. req'[c].pc \in {"unlock", "unlink"}
    BY <1>1, <2>1, GotoEffect, QuitEffect DEF Pcs
  <2> QED BY <1>1, <1>2, <2>0, <2>2, EndedStep, KeptSame DEF Locked, Moving
<1>5. CASE write_atomically(c) \/ remove_file(c)
  <2>1. req[c].pc \in {"rename", "unlink"} /\ UNCHANGED <<hidden, cut>>
    BY <1>5 DEF write_atomically, remove_file
  <2>2. Quit(c, "unlock", "ok") \/ Quit(c, "unlock", "error")
    BY <1>5 DEF write_atomically, remove_file
  <2>3. req'[c].pc = "unlock"
    BY <1>1, <2>2, QuitEffect DEF Pcs
  <2>4. \/ UNCHANGED <<files, pages>>
        \/ \E f : /\ files' = [files EXCEPT ![req[c].p] = f]
                  /\ pages' = [pages EXCEPT ![req[c].p] = f]
    BY <1>5 DEF write_atomically, remove_file
  <2>5. ~cut => files' = pages'
    BY <1>2, <2>1, <2>4 DEF Locked, Moving
  <2>6. KeptInv'
    <3>1. CASE UNCHANGED <<files, pages>>
      BY <1>1, <2>1, <3>1, KeptSame
    <3>2. ASSUME NEW f, files' = [files EXCEPT ![req[c].p] = f], pages' = [pages EXCEPT ![req[c].p] = f]
          PROVE  KeptInv'
      <4>1. ASSUME NEW p \in Paths PROVE files'[p] = pages'[p] \/ Covered(p)'
        <5>1. CASE p = req[c].p
          BY <1>1, <3>2, <5>1 DEF TypeOK
        <5>2. CASE p # req[c].p
          BY <1>1, <2>1, <3>2, <5>2 DEF TypeOK, KeptInv, Covered
        <5> QED BY <5>1, <5>2
      <4> QED BY <4>1 DEF KeptInv
    <3> QED BY <2>4, <3>1, <3>2
  <2> QED BY <2>1, <2>3, <2>5, <2>6, EndedStep
<1>6. CASE cleanup_staged(c)
  <2>1. req[c].pc = "unstage" /\ UNCHANGED <<files, pages, cut>>
    BY <1>6 DEF cleanup_staged
  <2>2. req'[c].pc \in {"unlock", "unstage"}
    <3>1. Quit(c, "unlock", "error") \/ UNCHANGED req
      BY <1>6 DEF cleanup_staged
    <3> QED BY <1>1, <2>1, <3>1, QuitEffect DEF Pcs
  <2>3. \A h \in hidden : h.kind = "backup" => h \in hidden'
    BY <1>6 DEF cleanup_staged, Mine
  <2>4. KeptInv'
    BY <1>1, <2>1, <2>3 DEF KeptInv, Covered
  <2> QED BY <1>2, <2>1, <2>2, <2>4, EndedStep DEF Locked, Moving
<1>7. CASE Unlock(c)
  <2>1. req[c].pc = "unlock" /\ UNCHANGED <<files, hidden, pages, cut>>
    BY <1>7 DEF Unlock
  <2>2. Goto(c, "links") \/ Goto(c, "over")
    BY <1>7 DEF Unlock
  <2>3. req'[c].pc \in {"links", "over"}
    BY <1>1, <2>2, GotoEffect DEF Pcs
  <2> QED BY <1>1, <1>2, <2>1, <2>3, EndedStep, KeptSame DEF Locked, Moving
<1>8. CASE Crash(c) /\ req[c].pc \in Locked
  <2>1. UNCHANGED <<files, hidden, pages>> /\ (~cut' => ~cut /\ req[c].pc \notin Moving)
    BY <1>8 DEF Crash, Moving
  <2>2. req'[c].pc = "over"
    BY <1>1, <1>8, QuitEffect DEF Crash, Pcs
  <2> QED BY <1>1, <1>2, <1>8, <2>1, <2>2, EndedStep, KeptSame
<1> QED BY <1>3, <1>4, <1>5, <1>6, <1>7, <1>8

\* the request of a move stays what it was, but for where it is
Same(c) == req'[c].p = req[c].p /\ req'[c].q = req[c].q /\ req'[c].plan = req[c].plan

LEMMA SameOriginals ==
  ASSUME NEW c, Same(c)
  PROVE  Originals(req[c])' = Originals(req[c])
BY DEF Same, Originals

LEMMA OriginalsShape ==
  ASSUME TypeOK, NEW c \in Clients
  PROVE  /\ Originals(req[c]) \subseteq Paths /\ req[c].p \in Originals(req[c])
         /\ \A p : p \in Originals(req[c]) <=> p = req[c].p \/ (p # req[c].q /\ \E x \in req[c].plan : x[1] = p)
BY RequestTypes DEF Originals

LEMMA MoveStep ==
  ASSUME PagesInv, NEW c \in Clients, move_page(c)
  PROVE  Settles(c)'
<1> USE DEF At
<1> DEFINE r == req[c]
<1>1. TypeOK /\ KeptInv /\ MoveInv(c) /\ r.pc = "decide" /\ r.op = "move" /\ r \in Requested
  BY RequestTypes DEF PagesInv, move_page
<1>2. UNCHANGED <<files, hidden, pages, cut>>
  BY DEF move_page, KeepStore
<1>3. ~cut => files = pages
  BY <1>1, HolderQuiet DEF Settles, Locked, Moving
<1>4. CASE files[r.p] = NoFile \/ ~Matches(r, files[r.p]) \/ files[r.q] # NoFile
  <2>1. req'[c].pc = "unlock"
    BY <1>1, <1>4, QuitEffect DEF move_page, Pcs
  <2> QED BY <1>1, <1>2, <1>3, <2>1, EndedStep, KeptSame
<1>5. CASE ~(files[r.p] = NoFile \/ ~Matches(r, files[r.p]) \/ files[r.q] # NoFile)
  <2>1. PICK new : new = <<r.q, files[r.p]>>
    OBVIOUS
  <2>2. PICK w : w = [r EXCEPT !.pc = "stage", !.plan = {new} \cup Rewritten(r)]
    OBVIOUS
  <2>3. w.pc = "stage" /\ w.p = r.p /\ w.q = r.q /\ w.plan = {new} \cup Rewritten(r)
    BY <1>1, <2>2 DEF Requested
  <2>4. req'[c] = w
    BY <1>1, <1>5, <2>1, <2>2, PutEffect DEF move_page
  <2>5. r.q # r.p /\ \A h \in hidden : h.by # c
    BY <1>1 DEF MoveInv
  <2>6. new[1] = r.q /\ files[r.q] = NoFile /\ files[r.p] # NoFile
    BY <1>5, <2>1
  <2>7. /\ \A x \in Rewritten(r) : x[1] \in Paths \ {r.p} /\ files[x[1]] # NoFile
        /\ \A x, y \in Rewritten(r) : x[1] = y[1] => x = y
    BY <1>1, RewrittenTypes
  <2>8. \A x \in Rewritten(r) : x[1] # r.q
    BY <2>6, <2>7
  <2>9. \A k : Mine(k, c)' = {}
    BY <1>2, <2>5 DEF Mine
  <2>10. Planned(c)'
    <3>1. \A x \in w.plan : x[1] # r.p
      BY <2>3, <2>5, <2>6, <2>7
    <3>2. \A x, y \in w.plan : x[1] = y[1] => x = y
      BY <2>3, <2>6, <2>7, <2>8
    <3>3. \E x \in w.plan : x[1] = r.q
      BY <2>3, <2>6
    <3> QED BY <2>3, <2>4, <2>5, <2>9, <3>1, <3>2, <3>3 DEF Planned
  <2>11. \A p \in Originals(w) : files[p] # NoFile
    BY <2>3, <2>6, <2>7 DEF Originals
  <2>12. Staging(c)'
    BY <1>2, <2>3, <2>4, <2>6, <2>9, <2>11 DEF Staging
  <2>13. MoveInv(c)'
    BY <2>3, <2>4, <2>10, <2>12 DEF MoveInv, Moving
  <2> QED BY <1>1, <1>2, <1>3, <2>13, KeptSame DEF Settles
<1> QED BY <1>4, <1>5

LEMMA StageStep ==
  ASSUME PagesInv, NEW c \in Clients, stage_change(c)
  PROVE  Settles(c)'
<1> USE DEF At
<1> DEFINE r == req[c]
           todo == {x \in r.plan : x[1] \notin PathsOf(Mine("stage", c))}
<1>1. TypeOK /\ KeptInv /\ MoveInv(c) /\ r.pc = "stage" /\ UNCHANGED <<files, pages, cut>>
  BY DEF PagesInv, stage_change
<1>2. ~cut => files = pages
  BY <1>1, HolderQuiet DEF Settles, Locked, Moving
<1>3. Planned(c) /\ Staging(c)
  BY <1>1 DEF MoveInv
<1>4. \A h \in hidden : h \in hidden'
  BY DEF stage_change
<1>5. KeptInv'
  BY <1>1, <1>4 DEF KeptInv, Covered
<1>6. CASE todo = {} /\ Goto(c, "backup") /\ hidden' = hidden
  <2>1. req'[c].pc = "backup" /\ Same(c)
    BY <1>1, <1>6, GotoEffect DEF Pcs, Same
  <2>2. Originals(req[c])' = Originals(r)
    BY <2>1, SameOriginals
  <2>3. \A k : Mine(k, c)' = Mine(k, c)
    BY <1>6 DEF Mine
  <2>4. Staged(c)' = Staged(c) /\ Backed(c)' = Backed(c) /\ Backed(c) = {} /\ Mine("backup", c) = {}
    BY <1>3, <2>3, NoPaths DEF Staged, Backed, PathsOf, Staging
  <2>5. Planned(c)'
    BY <1>3, <2>1, <2>3 DEF Planned, Same
  <2>6. BackupsOK(c)'
    <3>1. ~cut => pages[r.q] = NoFile
      BY <1>2, <1>3 DEF Staging
    <3> QED BY <1>1, <2>1, <2>3, <2>4, <3>1 DEF BackupsOK, Same
  <2>7. BackingUp(c)'
    <3>1. \A x \in r.plan : x[1] \in Staged(c)
      BY <1>6 DEF Staged
    <3>2. \A p \in Originals(r) : files[p] = NoFile <=> p \in Backed(c)
      BY <1>3, <2>4 DEF Staging
    <3>3. RestAlone(c)'
      BY <1>1, <1>2 DEF RestAlone
    <3> QED BY <1>1, <1>3, <2>1, <2>2, <2>4, <3>1, <3>2, <3>3 DEF BackingUp, Staging, Same
  <2>8. MoveInv(c)'
    BY <2>1, <2>5, <2>6, <2>7 DEF MoveInv, Moving
  <2> QED BY <1>5, <2>1, <2>8 DEF Settles, Moving
<1>7. ASSUME NEW x \in FirstOf(r, todo), UNCHANGED req,
             hidden' = hidden \cup {Aside("stage", c, x[1], x[2])}
      PROVE  Settles(c)'
  <2>1. x \in r.plan /\ x = <<x[1], x[2]>>
    BY <1>1, RequestTypes DEF FirstOf
  <2>2. PICK a : a = Aside("stage", c, x[1], x[2])
    OBVIOUS
  <2>3. a.p = x[1] /\ a.file = x[2]
    BY <2>2 DEF Aside
  <2>4. Mine("stage", c)' = Mine("stage", c) \cup {a} /\ Mine("backup", c)' = Mine("backup", c)
    BY <1>7, <2>2, HideEffect
  <2>5. Planned(c)'
    <3>1. <<a.p, a.file>> \in r.plan
      BY <2>1, <2>3, Zenon
    <3>2. \A h \in Mine("stage", c) : <<h.p, h.file>> \in r.plan
      BY <1>3 DEF Planned
    <3>3. \A h \in Mine("stage", c)' : <<h.p, h.file>> \in r.plan
      BY <2>4, <3>1, <3>2
    <3> QED BY <1>3, <1>7, <3>3 DEF Planned
  <2>6. Staging(c)'
    BY <1>1, <1>3, <1>7, <2>4 DEF Staging
  <2>7. MoveInv(c)'
    BY <1>1, <1>7, <2>5, <2>6 DEF MoveInv, Moving
  <2> QED BY <1>1, <1>2, <1>5, <2>7 DEF Settles
<1>8. CASE hidden' = hidden /\ (Quit(c, "unlock", "error") \/ Goto(c, "unstage"))
  <2>1. req'[c].pc \in {"unlock", "unstage"}
    BY <1>1, <1>8, GotoEffect, QuitEffect DEF Pcs
  <2> QED BY <1>1, <1>2, <1>5, <2>1, EndedStep
<1> QED BY <1>6, <1>7, <1>8 DEF stage_change

LEMMA BackupStep ==
  ASSUME PagesInv, NEW c \in Clients, backup_file(c)
  PROVE  Settles(c)'
<1> USE DEF At
<1> DEFINE r == req[c]
           todo == {p \in Originals(r) : p \notin PathsOf(Mine("backup", c))}
           next == IF r.p \in todo THEN {r.p} ELSE todo
<1>0. BackUp(c, "install")
  BY DEF backup_file
<1>1. TypeOK /\ KeptInv /\ MoveInv(c) /\ r.pc = "backup" /\ pages' = pages
  BY <1>0 DEF PagesInv, BackUp
<1>2. Planned(c) /\ BackupsOK(c) /\ BackingUp(c)
  BY <1>1 DEF MoveInv, Moving
<1>3. todo = Originals(r) \ Backed(c) /\ Originals(r) \subseteq Paths /\ r.p \in Originals(r)
  BY <1>1, OriginalsShape DEF Backed
<1>4. CASE todo = {} /\ Goto(c, "install") /\ UNCHANGED <<files, hidden, cut>>
  <2>1. req'[c].pc = "install" /\ Same(c)
    BY <1>1, <1>4, GotoEffect DEF Pcs, Same
  <2>2. Originals(req[c])' = Originals(r)
    BY <2>1, SameOriginals
  <2>3. \A k : Mine(k, c)' = Mine(k, c)
    BY <1>4 DEF Mine
  <2>4. Staged(c)' = Staged(c) /\ Backed(c)' = Backed(c)
    BY <2>3 DEF Staged, Backed, PathsOf
  <2>5. Planned(c)' /\ BackupsOK(c)'
    BY <1>1, <1>2, <1>4, <2>1, <2>2, <2>3 DEF Planned, BackupsOK, Same
  <2>6. \A p \in Originals(r) \cup {r.q} : files[p] = NoFile
    BY <1>2, <1>3, <1>4 DEF BackingUp
  <2>7. r.q \in Paths
    BY <1>1, RequestTypes
  <2>8. \A p \in Originals(r) \cup {r.q} : Covered(p)
    BY <1>1, <1>3, <2>6, <2>7 DEF KeptInv, Covered
  <2>9. \A p \in Staged(c) : p \in Originals(r) \cup {r.q}
    <3>1. ASSUME NEW p \in Staged(c) PROVE p \in Originals(r) \cup {r.q}
      <4>1. PICK h \in Mine("stage", c) : h.p = p
        BY PathsOfEffect DEF Staged
      <4>2. <<h.p, h.file>> \in r.plan
        BY <1>2 DEF Planned
      <4>3. \E x \in r.plan : x[1] = p
        BY <4>1, <4>2
      <4> QED BY <1>1, <4>3, OriginalsShape
    <3> QED BY <3>1
  <2>10. Backed(c) \subseteq Originals(r)
    BY <1>2, PathsOfEffect DEF BackupsOK, Backed
  <2>11. Installing(c)'
    <3>1. Originals(r) \subseteq Backed(c)
      BY <1>3, <1>4
    <3>2. \A p \in Originals(r) \cup {r.q} : Covered(p)'
      BY <1>1, <1>4, <2>8 DEF Covered
    <3>3. files[r.p] = NoFile /\ \A p \in Staged(c) : files[p] = NoFile
      BY <1>3, <2>6, <2>9
    <3>4. ~cut => \A p \in Paths \ (Originals(r) \cup {r.q}) : files[p] = pages[p]
      BY <1>2, <2>10 DEF BackingUp, RestAlone
    <3> QED BY <1>1, <1>4, <2>1, <2>2, <2>4, <3>1, <3>2, <3>3, <3>4 DEF Installing, Same
  <2>12. Installed(c)'
    BY <1>2, <2>1, <2>4 DEF Installed, BackingUp, Same
  <2>13. MoveInv(c)'
    BY <2>1, <2>5, <2>11, <2>12 DEF MoveInv, Moving
  <2> QED BY <1>1, <1>4, <2>1, <2>13, KeptSame DEF Settles, Moving
<1>5. ASSUME NEW p \in next, hidden' = hidden \cup {Aside("backup", c, p, files[p])},
             files' = [files EXCEPT ![p] = NoFile], UNCHANGED <<req, cut>>
      PROVE  Settles(c)'
  <2>1. p \in Originals(r) /\ p \notin Backed(c) /\ p \in Paths /\ (r.p \notin Backed(c) => p = r.p)
    BY <1>3, <1>5
  <2>2. PICK a : a = Aside("backup", c, p, files[p])
    OBVIOUS
  <2>3. a.p = p /\ a.file = files[p] /\ a.kind = "backup" /\ hidden' = hidden \cup {a}
    BY <1>5, <2>2 DEF Aside
  <2>4. /\ Mine("backup", c)' = Mine("backup", c) \cup {a} /\ Backed(c)' = Backed(c) \cup {p}
        /\ Mine("stage", c)' = Mine("stage", c) /\ Staged(c)' = Staged(c)
    BY <1>5, <2>2, HideEffect DEF Backed, Staged
  <2>5. files'[p] = NoFile /\ \A x \in Paths \ {p} : files'[x] = files[x]
    BY <1>1, <1>5, <2>1 DEF TypeOK
  <2>6. KeptInv'
    <3>1. ASSUME NEW x \in Paths PROVE files'[x] = pages'[x] \/ Covered(x)'
      <4>1. Covered(x) => Covered(x)'
        BY <1>1, <2>3 DEF Covered
      <4>2. CASE x = p /\ files[p] = pages[p]
        BY <1>1, <2>3, <4>2 DEF Covered
      <4>3. CASE x # p /\ files[x] = pages[x]
        BY <1>1, <2>5, <4>3
      <4> QED BY <1>1, <4>1, <4>2, <4>3 DEF KeptInv
    <3> QED BY <3>1 DEF KeptInv
  <2>7. Planned(c)'
    BY <1>2, <1>5, <2>4 DEF Planned
  <2>8. Originals(req[c])' = Originals(r)
    BY <1>5 DEF Originals
  <2>9. \A h \in Mine("backup", c) : h.p # p
    BY <2>1, PathsOfEffect DEF Backed
  <2>10. BackupsOK(c)'
    <3>1. \A h \in Mine("backup", c)' : h.p \in Originals(r)
      BY <1>2, <2>1, <2>3, <2>4 DEF BackupsOK
    <3>2. \A h, g \in Mine("backup", c)' : h.p = g.p => h = g
      BY <1>2, <2>3, <2>4, <2>9 DEF BackupsOK
    <3>3. ~cut => pages[r.q] = NoFile /\ \A h \in Mine("backup", c)' : h.file = pages[h.p]
      BY <1>2, <2>1, <2>3, <2>4 DEF BackupsOK, BackingUp, RestAlone
    <3> QED BY <1>1, <1>5, <2>8, <3>1, <3>2, <3>3 DEF BackupsOK
  <2>11. BackingUp(c)'
    <3>1. r.q \in Paths /\ r.q # p
      BY <1>1, <1>2, <2>1, RequestTypes, OriginalsShape DEF Planned
    <3>2. files'[r.q] = NoFile
      BY <1>2, <2>5, <3>1 DEF BackingUp
    <3>3. \A x \in Originals(r) : files'[x] = NoFile <=> x \in Backed(c)'
      BY <1>2, <1>3, <2>4, <2>5 DEF BackingUp
    <3>4. r.p \in Backed(c)'
      BY <2>1, <2>4
    <3>5. RestAlone(c)'
      BY <1>1, <1>2, <1>5, <2>4, <2>5 DEF RestAlone, BackingUp
    <3> QED BY <1>2, <1>5, <2>4, <2>8, <3>2, <3>3, <3>4, <3>5 DEF BackingUp
  <2>12. MoveInv(c)'
    BY <1>1, <1>5, <2>7, <2>10, <2>11 DEF MoveInv, Moving
  <2> QED BY <1>1, <1>5, <2>6, <2>12 DEF Settles, Moving
<1>6. ASSUME NEW p \in next, Goto(c, IF p = r.p THEN "unstage" ELSE "restore"),
             UNCHANGED <<files, hidden, cut>>
      PROVE  Settles(c)'
  <2>1. p \in Originals(r) /\ p \notin Backed(c) /\ (r.p \notin Backed(c) => p = r.p)
    BY <1>3, <1>6
  <2>2. KeptInv'
    BY <1>1, <1>6, KeptSame
  <2>3. CASE p = r.p
    <3>1. req'[c].pc = "unstage"
      BY <1>1, <1>6, <2>3, GotoEffect DEF Pcs
    <3>2. Backed(c) = {}
      BY <1>2, <2>1, <2>3 DEF BackingUp
    <3>3. ~cut => files = pages
      BY <1>1, <1>2, <3>2 DEF BackingUp, RestAlone, TypeOK
    <3> QED BY <1>1, <1>6, <2>2, <3>1, <3>3, EndedStep
  <2>4. CASE p # r.p
    <3>1. req'[c].pc = "restore" /\ Same(c)
      BY <1>1, <1>6, <2>4, GotoEffect DEF Pcs, Same
    <3>2. Originals(req[c])' = Originals(r)
      BY <3>1, SameOriginals
    <3>3. \A k : Mine(k, c)' = Mine(k, c)
      BY <1>6 DEF Mine
    <3>4. Backed(c)' = Backed(c)
      BY <3>3 DEF Backed, PathsOf
    <3>5. Planned(c)' /\ BackupsOK(c)'
      BY <1>1, <1>2, <1>6, <3>1, <3>2, <3>3 DEF Planned, BackupsOK, Same
    <3>6. \A x \in Backed(c) : files[x] = NoFile
      <4>1. Backed(c) \subseteq Originals(r)
        BY <1>2, PathsOfEffect DEF BackupsOK, Backed
      <4> QED BY <1>2, <4>1 DEF BackingUp
    <3>7. Restoring(c)'
      BY <1>1, <1>2, <1>6, <3>4, <3>6 DEF Restoring, RestAlone, BackingUp
    <3>8. MoveInv(c)'
      BY <3>1, <3>5, <3>7 DEF MoveInv, Moving
    <3> QED BY <2>2, <3>1, <3>8 DEF Settles, Moving
  <2> QED BY <2>3, <2>4
<1>7. CASE Quit(c, "unlock", "error") /\ cut' = TRUE /\ UNCHANGED <<files, hidden>>
  <2>1. req'[c].pc = "unlock"
    BY <1>1, <1>7, QuitEffect DEF Pcs
  <2> QED BY <1>1, <1>7, <2>1, EndedStep, KeptSame
<1> QED BY <1>0, <1>4, <1>5, <1>6, <1>7 DEF BackUp

LEMMA InstallStep ==
  ASSUME PagesInv, NEW c \in Clients, install(c)
  PROVE  Settles(c)'
<1> USE DEF At
<1> DEFINE r == req[c]
           todo == Mine("stage", c)
<1>0. Install(c, "takeout")
  BY DEF install
<1>1. TypeOK /\ KeptInv /\ MoveInv(c) /\ r.pc = "install" /\ cut' = cut
  BY <1>0 DEF PagesInv, Install
<1>2. Planned(c) /\ BackupsOK(c) /\ Installing(c) /\ Installed(c)
  BY <1>1 DEF MoveInv, Moving
<1>3. Originals(r) \subseteq Paths /\ r.p \in Originals(r) /\ r.p \in Paths
  BY <1>1, OriginalsShape, RequestTypes
<1>4. \A x \in r.plan : x[1] \in Paths /\ x[1] \in Originals(r) \cup {r.q}
  BY <1>1, OriginalsShape, RequestTypes
<1>5. CASE todo = {} /\ Goto(c, "clean") /\ pages' = Moved(r) /\ UNCHANGED <<files, hidden>>
  <2>1. req'[c].pc = "clean" /\ Same(c)
    BY <1>1, <1>5, GotoEffect DEF Pcs, Same
  <2>2. Originals(req[c])' = Originals(r)
    BY <2>1, SameOriginals
  <2>3. \A k : Mine(k, c)' = Mine(k, c)
    BY <1>5 DEF Mine
  <2>4. Staged(c) = {}
    BY <1>5, NoPaths DEF Staged
  <2>5. pages'[r.p] = NoFile /\ files[r.p] = NoFile
    BY <1>2, <1>3, <1>5 DEF Moved, Installing
  <2>6. ASSUME NEW x \in r.plan PROVE files[x[1]] = pages'[x[1]] /\ files[x[1]] = x[2]
    <3>1. files[x[1]] = x[2] /\ x[1] # r.p /\ x[1] \in Paths
      BY <1>2, <1>4, <2>4 DEF Installed, Planned
    <3>2. (CHOOSE y \in r.plan : y[1] = x[1]) = x
      BY <1>2 DEF Planned
    <3> QED BY <1>5, <3>1, <3>2 DEF Moved
  <2>7. ASSUME NEW p \in Paths, p \notin Originals(r) \cup {r.q} PROVE pages'[p] = pages[p]
    <3>1. p # r.p /\ \A x \in r.plan : x[1] # p
      BY <1>1, <2>7, OriginalsShape
    <3> QED BY <1>5, <3>1 DEF Moved
  <2>8. ASSUME NEW p \in Originals(r) \cup {r.q} PROVE files[p] = pages'[p]
    <3>1. CASE p = r.p
      BY <2>5, <3>1
    <3>2. CASE p # r.p
      <4>1. PICK x \in r.plan : x[1] = p
        BY <1>1, <1>2, <3>2, OriginalsShape DEF Planned
      <4> QED BY <2>6, <4>1
    <3> QED BY <3>1, <3>2
  <2>9. KeptInv'
    <3>1. ASSUME NEW p \in Paths PROVE files'[p] = pages'[p] \/ Covered(p)'
      BY <1>1, <1>5, <2>7, <2>8 DEF KeptInv, Covered
    <3> QED BY <3>1 DEF KeptInv
  <2>10. Planned(c)'
    BY <1>2, <2>1, <2>3 DEF Planned, Same
  <2>11. Cleaning(c)'
    <3>1. \A h \in Mine("backup", c) : h.p \in Originals(r)
      BY <1>2 DEF BackupsOK
    <3> QED BY <1>5, <2>1, <2>2, <2>3, <2>5, <2>6, <3>1 DEF Cleaning, Same
  <2>12. MoveInv(c)'
    BY <2>1, <2>10, <2>11 DEF MoveInv, Moving
  <2>13. ~cut => files' = pages'
    <3>1. ASSUME ~cut, NEW p \in Paths PROVE files[p] = pages'[p]
      BY <1>2, <2>7, <2>8, <3>1 DEF Installing
    <3>2. files = [p \in Paths |-> files[p]] /\ pages' = [p \in Paths |-> pages'[p]]
      BY <1>1, <1>5 DEF TypeOK, Moved
    <3> QED BY <1>5, <3>1, <3>2
  <2> QED BY <1>1, <2>9, <2>12, <2>13 DEF Settles
<1>6. ASSUME NEW h \in todo, files' = [files EXCEPT ![h.p] = h.file], hidden' = hidden \ {h},
             UNCHANGED <<req, pages>>
      PROVE  Settles(c)'
  <2>1. h.kind = "stage" /\ h.by = c /\ h \in hidden /\ <<h.p, h.file>> \in r.plan
    BY <1>2 DEF Mine, Planned
  <2>2. PICK y \in r.plan : y = <<h.p, h.file>>
    BY <2>1
  <2>3. h.p = y[1] /\ h.file = y[2]
    BY <2>2
  <2>4. h.p \in Paths /\ h.p \in Originals(r) \cup {r.q} /\ h.p # r.p
    BY <1>2, <1>4, <2>3 DEF Planned
  <2>5. files'[h.p] = h.file /\ \A x \in Paths \ {h.p} : files'[x] = files[x]
    BY <1>1, <1>6, <2>4 DEF TypeOK
  <2>6. /\ Mine("stage", c)' = Mine("stage", c) \ {h} /\ Mine("backup", c)' = Mine("backup", c)
        /\ Backed(c)' = Backed(c)
    BY <1>6, UnhideEffect DEF Backed
  <2>7. \A p : Covered(p) => Covered(p)'
    BY <1>6, <2>1 DEF Covered
  <2>8. KeptInv'
    <3>1. ASSUME NEW p \in Paths PROVE files'[p] = pages'[p] \/ Covered(p)'
      <4>1. CASE p = h.p
        BY <1>2, <2>4, <2>7, <4>1 DEF Installing
      <4>2. CASE p # h.p
        BY <1>1, <1>6, <2>5, <2>7, <4>2 DEF KeptInv
      <4> QED BY <4>1, <4>2
    <3> QED BY <3>1 DEF KeptInv
  <2>9. Planned(c)' /\ BackupsOK(c)'
    BY <1>1, <1>2, <1>6, <2>6 DEF Planned, BackupsOK, Originals
  <2>10. ASSUME NEW p \in Staged(c)' PROVE p \in Staged(c) /\ p # h.p
    <3>1. PICK g \in Mine("stage", c)' : g.p = p
      BY PathsOfEffect DEF Staged, PathsOf
    <3>2. g \in Mine("stage", c) /\ g # h
      BY <2>6, <3>1
    <3>3. <<g.p, g.file>> \in r.plan
      BY <1>2, <3>2 DEF Planned
    <3>4. p \in Staged(c)
      BY <3>1, <3>2, PathsOfEffect DEF Staged
    <3>5. ASSUME p = h.p PROVE FALSE
      <4>1. g.file = h.file
        <5>1. PICK z \in r.plan : z = <<g.p, g.file>>
          BY <3>3
        <5>2. z[1] = g.p /\ z[2] = g.file
          BY <5>1
        <5>3. z = y
          BY <1>2, <2>3, <3>1, <3>5, <5>2 DEF Planned
        <5> QED BY <2>3, <5>2, <5>3
      <4>2. g \in Hidden /\ h \in Hidden /\ g.kind = "stage" /\ g.by = c
        BY <1>1, <2>1, <3>2 DEF TypeOK, Mine
      <4> QED BY <2>1, <3>1, <3>2, <3>5, <4>1, <4>2 DEF Hidden
    <3> QED BY <3>4, <3>5
  <2>11. ASSUME NEW p \in Staged(c), p # h.p PROVE p \in Staged(c)'
    <3>1. PICK g \in Mine("stage", c) : g.p = p
      BY PathsOfEffect DEF Staged
    <3>2. g \in Mine("stage", c)'
      BY <2>6, <2>11, <3>1
    <3> QED BY <3>1, <3>2 DEF Staged, PathsOf
  <2>12. Originals(req[c])' = Originals(r)
    BY <1>6 DEF Originals
  <2>13. Installing(c)'
    <3>1. Originals(r) \subseteq Backed(c)' /\ \A p \in Originals(r) \cup {r.q} : Covered(p)'
      BY <1>2, <2>6, <2>7 DEF Installing
    <3>2. files'[r.p] = NoFile
      BY <1>2, <1>3, <2>4, <2>5 DEF Installing
    <3>3. \A p \in Staged(c)' : files'[p] = NoFile
      <4>1. ASSUME NEW p \in Staged(c)' PROVE files'[p] = NoFile
        <5>1. p \in Staged(c) /\ p # h.p
          BY <2>10
        <5>2. p \in Paths
          <6>1. PICK g \in Mine("stage", c) : g.p = p
            BY <5>1, PathsOfEffect DEF Staged
          <6> QED BY <1>1, <6>1, HiddenTypes DEF Mine
        <5> QED BY <1>2, <2>5, <5>1, <5>2 DEF Installing
      <4> QED BY <4>1
    <3>4. ~cut' => \A p \in Paths \ (Originals(r) \cup {r.q}) : files'[p] = pages'[p]
      BY <1>1, <1>2, <1>6, <2>4, <2>5 DEF Installing
    <3> QED BY <1>6, <2>12, <3>1, <3>2, <3>3, <3>4 DEF Installing
  <2>14. Installed(c)'
    <3>1. ASSUME NEW x \in r.plan, x[1] \notin Staged(c)' PROVE files'[x[1]] = x[2]
      <4>1. CASE x[1] = h.p
        <5>1. x = y
          BY <1>2, <2>3, <4>1 DEF Planned
        <5> QED BY <2>3, <2>5, <5>1
      <4>2. CASE x[1] # h.p
        <5>1. x[1] \notin Staged(c) /\ x[1] \in Paths
          BY <1>4, <2>11, <3>1, <4>2
        <5> QED BY <1>2, <2>5, <4>2, <5>1 DEF Installed
      <4> QED BY <4>1, <4>2
    <3> QED BY <1>6, <3>1 DEF Installed
  <2>15. MoveInv(c)'
    BY <1>1, <1>6, <2>9, <2>13, <2>14 DEF MoveInv, Moving
  <2> QED BY <1>1, <1>6, <2>8, <2>15 DEF Settles, Moving
<1>7. CASE Goto(c, "takeout") /\ UNCHANGED <<files, hidden, pages>>
  <2>1. req'[c].pc = "takeout" /\ Same(c)
    BY <1>1, <1>7, GotoEffect DEF Pcs, Same
  <2>2. Originals(req[c])' = Originals(r)
    BY <2>1, SameOriginals
  <2>3. \A k : Mine(k, c)' = Mine(k, c)
    BY <1>7 DEF Mine
  <2>4. Staged(c)' = Staged(c) /\ Backed(c)' = Backed(c)
    BY <2>3 DEF Staged, Backed, PathsOf
  <2>5. Planned(c)' /\ BackupsOK(c)'
    BY <1>1, <1>2, <1>7, <2>1, <2>2, <2>3 DEF Planned, BackupsOK, Same
  <2>6. \A p : Covered(p) => Covered(p)'
    BY <1>7 DEF Covered
  <2>7. Installing(c)'
    BY <1>1, <1>2, <1>7, <2>1, <2>2, <2>4, <2>6 DEF Installing, Same
  <2>8. MoveInv(c)'
    BY <2>1, <2>5, <2>7 DEF MoveInv, Moving
  <2> QED BY <1>1, <1>7, <2>1, <2>8, KeptSame DEF Settles, Moving
<1> QED BY <1>0, <1>5, <1>6, <1>7 DEF Install

LEMMA TakeoutStep ==
  ASSUME PagesInv, NEW c \in Clients, remove_installed(c)
  PROVE  Settles(c)'
<1> USE DEF At
<1> DEFINE r == req[c]
           done == {x[1] : x \in r.plan} \ PathsOf(Mine("stage", c))
           todo == {p \in done : files[p] # NoFile}
<1>1. TypeOK /\ KeptInv /\ MoveInv(c) /\ r.pc = "takeout" /\ UNCHANGED <<hidden, pages, cut>>
  BY DEF PagesInv, remove_installed
<1>2. Planned(c) /\ BackupsOK(c) /\ Installing(c)
  BY <1>1 DEF MoveInv, Moving
<1>3. Originals(r) \subseteq Paths /\ r.p \in Originals(r) /\ r.p \in Paths /\ r.q \in Paths
  BY <1>1, OriginalsShape, RequestTypes
<1>4. \A x \in r.plan : x[1] \in Paths /\ x[1] \in Originals(r) \cup {r.q}
  BY <1>1, OriginalsShape, RequestTypes
<1>5. \A k : Mine(k, c)' = Mine(k, c)
  BY <1>1 DEF Mine
<1>6. Staged(c)' = Staged(c) /\ Backed(c)' = Backed(c)
  BY <1>5 DEF Staged, Backed, PathsOf
<1>7. \A p : Covered(p) => Covered(p)'
  BY <1>1 DEF Covered
<1>8. CASE todo = {} /\ Goto(c, "restore") /\ files' = files
  <2>1. req'[c].pc = "restore" /\ Same(c)
    BY <1>1, <1>8, GotoEffect DEF Pcs, Same
  <2>2. Originals(req[c])' = Originals(r)
    BY <2>1, SameOriginals
  <2>3. Planned(c)' /\ BackupsOK(c)'
    BY <1>1, <1>2, <2>1, <2>2, <1>5 DEF Planned, BackupsOK, Same
  <2>4. ASSUME NEW p \in Originals(r) \cup {r.q} PROVE files[p] = NoFile
    <3>1. CASE p = r.p
      BY <1>2, <3>1 DEF Installing
    <3>2. CASE p # r.p
      <4>1. PICK x \in r.plan : x[1] = p
        BY <1>1, <1>2, <3>2, OriginalsShape DEF Planned
      <4>2. p \in done \/ p \in Staged(c)
        BY <4>1 DEF Staged
      <4> QED BY <1>2, <1>8, <4>2 DEF Installing
    <3> QED BY <3>1, <3>2
  <2>5. Backed(c) = Originals(r)
    <3>1. Backed(c) \subseteq Originals(r)
      BY <1>2, PathsOfEffect DEF BackupsOK, Backed
    <3> QED BY <1>2, <3>1 DEF Installing
  <2>6. ~cut => \A p \in Paths \ Backed(c) : files[p] = pages[p]
    <3>1. ASSUME ~cut, NEW p \in Paths \ Backed(c) PROVE files[p] = pages[p]
      BY <1>2, <2>4, <2>5, <3>1 DEF Installing, BackupsOK
    <3> QED BY <3>1
  <2>7. Restoring(c)'
    BY <1>1, <1>6, <1>8, <2>4, <2>5, <2>6 DEF Restoring, RestAlone
  <2>8. MoveInv(c)'
    BY <2>1, <2>3, <2>7 DEF MoveInv, Moving
  <2> QED BY <1>1, <1>8, <2>1, <2>8, KeptSame DEF Settles, Moving
<1>9. ASSUME NEW p \in todo, files' = [files EXCEPT ![p] = NoFile], UNCHANGED req
      PROVE  Settles(c)'
  <2>1. p \in Paths /\ p \in Originals(r) \cup {r.q}
    BY <1>4
  <2>2. files'[p] = NoFile /\ \A x \in Paths \ {p} : files'[x] = files[x]
    BY <1>1, <1>9, <2>1 DEF TypeOK
  <2>3. KeptInv'
    <3>1. ASSUME NEW x \in Paths PROVE files'[x] = pages'[x] \/ Covered(x)'
      BY <1>1, <1>2, <1>7, <2>1, <2>2 DEF KeptInv, Installing
    <3> QED BY <3>1 DEF KeptInv
  <2>4. Originals(req[c])' = Originals(r)
    BY <1>9 DEF Originals
  <2>5. Planned(c)' /\ BackupsOK(c)'
    BY <1>1, <1>2, <1>5, <1>9, <2>4 DEF Planned, BackupsOK
  <2>6. \A x \in Staged(c) : x \in Paths
    <3>1. ASSUME NEW x \in Staged(c) PROVE x \in Paths
      <4>1. PICK g \in Mine("stage", c) : g.p = x
        BY PathsOfEffect DEF Staged
      <4> QED BY <1>1, <4>1, HiddenTypes DEF Mine
    <3> QED BY <3>1
  <2>7. Installing(c)'
    <3>1. Originals(r) \subseteq Backed(c) /\ \A x \in Originals(r) \cup {r.q} : Covered(x)'
      BY <1>2, <1>7 DEF Installing
    <3>2. files'[r.p] = NoFile
      BY <1>2, <1>3, <2>2 DEF Installing
    <3>3. \A x \in Staged(c) : files'[x] = NoFile
      BY <1>2, <2>2, <2>6 DEF Installing
    <3>4. ~cut => \A x \in Paths \ (Originals(r) \cup {r.q}) : files'[x] = pages[x]
      BY <1>2, <2>1, <2>2 DEF Installing
    <3> QED BY <1>1, <1>6, <1>9, <2>4, <3>1, <3>2, <3>3, <3>4 DEF Installing
  <2>8. MoveInv(c)'
    BY <1>1, <1>9, <2>5, <2>7 DEF MoveInv, Moving
  <2> QED BY <1>1, <1>9, <2>3, <2>8 DEF Settles, Moving
<1> QED BY <1>8, <1>9 DEF remove_installed

LEMMA RestoreStep ==
  ASSUME PagesInv, NEW c \in Clients, restore_backups(c)
  PROVE  Settles(c)'
<1> USE DEF At
<1> DEFINE r == req[c]
<1>1. TypeOK /\ KeptInv /\ MoveInv(c) /\ r.pc = "restore" /\ UNCHANGED <<pages, cut>>
  BY DEF PagesInv, restore_backups
<1>2. Planned(c) /\ BackupsOK(c) /\ Restoring(c)
  BY <1>1 DEF MoveInv, Moving
<1>3. CASE Mine("backup", c) = {} /\ Goto(c, "unstage") /\ UNCHANGED <<files, hidden>>
  <2>1. req'[c].pc = "unstage"
    BY <1>1, <1>3, GotoEffect DEF Pcs
  <2>2. Backed(c) = {}
    BY <1>3, NoPaths DEF Backed
  <2>3. ~cut => files = pages
    BY <1>1, <1>2, <2>2 DEF Restoring, RestAlone, TypeOK
  <2> QED BY <1>1, <1>3, <2>1, <2>3, EndedStep, KeptSame
<1>4. ASSUME NEW h \in Mine("backup", c), files' = [files EXCEPT ![h.p] = h.file],
             hidden' = hidden \ {h}, UNCHANGED req
      PROVE  Settles(c)'
  <2>1. h.kind = "backup" /\ h.by = c /\ h \in hidden /\ h.p \in Paths /\ h.file # NoFile
    BY <1>1, HiddenTypes DEF Mine
  <2>2. files'[h.p] = h.file /\ \A x \in Paths \ {h.p} : files'[x] = files[x]
    BY <1>1, <1>4, <2>1 DEF TypeOK
  <2>3. /\ Mine("backup", c)' = Mine("backup", c) \ {h}
        /\ Mine("stage", c)' = Mine("stage", c)
    BY <1>4, UnhideEffect
  <2>4. files[h.p] = NoFile
    BY <1>2, PathsOfEffect DEF Restoring, Backed
  <2>5. KeptInv'
    <3>1. ASSUME NEW p \in Paths PROVE files'[p] = pages'[p] \/ Covered(p)'
      <4>1. CASE p # h.p
        <5>1. Covered(p) => Covered(p)'
          BY <1>1, <1>4, <4>1 DEF Covered
        <5> QED BY <1>1, <2>2, <4>1, <5>1 DEF KeptInv
      <4>2. CASE p = h.p /\ h.file = pages[p]
        BY <1>1, <2>2, <4>2
      <4>3. CASE p = h.p /\ h.file # pages[p]
        <5>1. Covered(p)
          BY <1>1, <2>4, <4>3 DEF KeptInv, Covered
        <5>2. Covered(p)'
          BY <1>1, <1>4, <4>3, <5>1 DEF Covered
        <5> QED BY <5>2
      <4> QED BY <4>1, <4>2, <4>3
    <3> QED BY <3>1 DEF KeptInv
  <2>6. Originals(req[c])' = Originals(r)
    BY <1>4 DEF Originals
  <2>7. Planned(c)' /\ BackupsOK(c)'
    BY <1>1, <1>2, <1>4, <2>3, <2>6 DEF Planned, BackupsOK
  <2>8. ASSUME NEW p PROVE p \in Backed(c)' <=> p \in Backed(c) /\ p # h.p
    <3>1. ASSUME p \in Backed(c)' PROVE p \in Backed(c) /\ p # h.p
      <4>1. PICK g \in Mine("backup", c)' : g.p = p
        BY <3>1, PathsOfEffect DEF Backed, PathsOf
      <4>2. g \in Mine("backup", c) /\ g # h
        BY <2>3, <4>1
      <4>3. p # h.p
        BY <1>2, <4>1, <4>2 DEF BackupsOK
      <4> QED BY <4>1, <4>2, <4>3, PathsOfEffect DEF Backed
    <3>2. ASSUME p \in Backed(c), p # h.p PROVE p \in Backed(c)'
      <4>1. PICK g \in Mine("backup", c) : g.p = p
        BY <3>2, PathsOfEffect DEF Backed
      <4>2. g \in Mine("backup", c)'
        BY <2>3, <3>2, <4>1
      <4> QED BY <4>1, <4>2 DEF Backed, PathsOf
    <3> QED BY <3>1, <3>2
  <2>9. \A p \in Backed(c) : p \in Paths
    <3>1. ASSUME NEW p \in Backed(c) PROVE p \in Paths
      <4>1. PICK g \in Mine("backup", c) : g.p = p
        BY PathsOfEffect DEF Backed
      <4> QED BY <1>1, <4>1, HiddenTypes DEF Mine
    <3> QED BY <3>1
  <2>10. Restoring(c)'
    <3>1. \A p \in Backed(c)' : files'[p] = NoFile
      BY <1>2, <2>2, <2>8, <2>9 DEF Restoring
    <3>2. RestAlone(c)'
      <4>1. ASSUME ~cut, NEW p \in Paths, p \notin Backed(c)' PROVE files'[p] = pages[p]
        <5>1. CASE p = h.p
          BY <1>2, <2>2, <4>1, <5>1 DEF BackupsOK
        <5>2. CASE p # h.p
          BY <1>2, <2>2, <2>8, <4>1, <5>2 DEF Restoring, RestAlone
        <5> QED BY <5>1, <5>2
      <4> QED BY <1>1, <4>1 DEF RestAlone
    <3> QED BY <3>1, <3>2 DEF Restoring
  <2>11. MoveInv(c)'
    BY <1>1, <1>4, <2>7, <2>10 DEF MoveInv, Moving
  <2> QED BY <1>1, <1>4, <2>5, <2>11 DEF Settles, Moving
<1> QED BY <1>3, <1>4 DEF restore_backups

LEMMA CleanStep ==
  ASSUME PagesInv, NEW c \in Clients, remove_backups(c)
  PROVE  Settles(c)'
<1> USE DEF At
<1> DEFINE r == req[c]
<1>1. TypeOK /\ KeptInv /\ MoveInv(c) /\ r.pc = "clean" /\ UNCHANGED <<files, pages, cut>>
  BY DEF PagesInv, remove_backups
<1>2. Planned(c) /\ Cleaning(c)
  BY <1>1 DEF MoveInv, Moving
<1>3. ~cut => files = pages
  BY <1>1, HolderQuiet DEF Settles, Locked, Moving
<1>4. CASE Quit(c, "unlock", "ok") /\ hidden' = hidden
  <2>1. req'[c].pc = "unlock"
    BY <1>1, <1>4, QuitEffect DEF Pcs
  <2> QED BY <1>1, <1>3, <1>4, <2>1, EndedStep, KeptSame
<1>5. ASSUME NEW h \in Mine("backup", c), hidden' = hidden \ {h}, UNCHANGED req
      PROVE  Settles(c)'
  <2>1. h.p = r.p \/ (\E x \in r.plan : x[1] = h.p)
    BY <1>1, <1>2, OriginalsShape DEF Cleaning
  <2>2. pages[h.p] = NoFile \/ files[h.p] = pages[h.p]
    BY <1>2, <2>1 DEF Cleaning
  <2>3. KeptInv'
    <3>1. ASSUME NEW p \in Paths PROVE files'[p] = pages'[p] \/ Covered(p)'
      <4>1. CASE p = h.p
        BY <1>1, <2>2, <4>1 DEF Covered
      <4>2. CASE p # h.p
        <5>1. Covered(p) => Covered(p)'
          BY <1>1, <1>5, <4>2 DEF Covered
        <5> QED BY <1>1, <5>1 DEF KeptInv
      <4> QED BY <4>1, <4>2
    <3> QED BY <3>1 DEF KeptInv
  <2>4. /\ Mine("backup", c)' = Mine("backup", c) \ {h}
        /\ Mine("stage", c)' = Mine("stage", c)
    BY <1>5, UnhideEffect
  <2>5. Originals(req[c])' = Originals(r)
    BY <1>5 DEF Originals
  <2>6. Planned(c)' /\ Cleaning(c)'
    BY <1>1, <1>2, <1>5, <2>4, <2>5 DEF Planned, Cleaning
  <2>7. MoveInv(c)'
    BY <1>1, <1>5, <2>6 DEF MoveInv, Moving
  <2> QED BY <1>1, <1>3, <2>3, <2>7 DEF Settles
<1> QED BY <1>4, <1>5 DEF remove_backups

LEMMA InitPagesInv == Init => PagesInv
<1> SUFFICES ASSUME Init PROVE PagesInv
  OBVIOUS
<1>1. \A c \in Clients : req[c].pc = "idle"
  BY BlankShape DEF Init
<1>2. TypeOK
  <2>1. req \in [Clients -> Requested]
    BY BlankType DEF Init
  <2>2. files \in [Paths -> Files \cup {NoFile}] /\ pages \in [Paths -> Files \cup {NoFile}]
    BY MemoryAssumption DEF Init
  <2>3. 0 \in 0..MaxFaults
    BY MemoryAssumption
  <2> QED BY <2>1, <2>2, <2>3 DEF Init, TypeOK
<1>3. LockInv /\ QuietInv /\ KeptInv
  BY <1>1 DEF Init, LockInv, QuietInv, KeptInv, Locked
<1>4. ASSUME NEW c \in Clients PROVE MoveInv(c)
  BY <1>1 DEF Init, MoveInv, Moving
<1> QED BY <1>2, <1>3, <1>4 DEF PagesInv

LEMMA StepPagesInv ==
  ASSUME PagesInv, [Next]_vars
  PROVE  PagesInv'
<1>1. CASE UNCHANGED vars
  <2>1. UNCHANGED <<files, hidden, lock, req, pages, cut, faults>>
    BY <1>1 DEF vars
  <2>2. TypeOK' /\ LockInv' /\ QuietInv' /\ KeptInv'
    BY <2>1 DEF PagesInv, TypeOK, LockInv, QuietInv, KeptInv, Covered
  <2>3. ASSUME NEW c \in Clients PROVE MoveInv(c)'
    BY <2>1 DEF PagesInv, MoveInv, Planned, BackupsOK, Staging, BackingUp, Installing, Installed,
      Restoring, Cleaning, RestAlone, Covered, Staged, Backed, Mine, PathsOf, Originals
  <2> QED BY <2>2, <2>3 DEF PagesInv
<1>2. ASSUME NEW c \in Clients, Step(c) PROVE PagesInv'
  <2>1. TypeOK'
    <3>1. At(c, "backup") => \A p \in Originals(req[c]) \ Backed(c) : files[p] # NoFile
      BY DEF PagesInv, MoveInv, BackingUp, At
    <3> QED BY <1>2, <3>1, NoLinkChange, WriterTypes DEF PagesInv, Step
  <2>2. LockInv'
    BY <1>2, LockStep
  <2>3. KeptInv' /\ QuietInv' /\ \A d \in Clients : MoveInv(d)'
    <3>1. CASE req[c].pc \notin Locked
      BY <1>2, <3>1, OutsideStep
    <3>2. CASE req[c].pc \in Locked
      <4>1. ~(Ask(c) \/ with_lock(c) \/ read_page(c) \/ links(c) \/ list_pages(c) \/ query_pages(c))
        BY <3>2 DEF Ask, with_lock, read_page, links, list_pages, query_pages, At, Locked
      <4>2. Settles(c)'
        BY <1>2, <3>2, <4>1, WriteSteps, MoveStep, StageStep, BackupStep, InstallStep, TakeoutStep,
           RestoreStep, CleanStep DEF Step
      <4> QED BY <1>2, <4>2, SettledStep
    <3> QED BY <3>1, <3>2
  <2> QED BY <2>1, <2>2, <2>3 DEF PagesInv
<1> QED BY <1>1, <1>2 DEF Next, Step

LEMMA PagesInvariance == Spec => []PagesInv
<1>1. Init => PagesInv
  BY InitPagesInv
<1>2. PagesInv /\ [Next]_vars => PagesInv'
  BY StepPagesInv
<1> QED BY <1>1, <1>2, PTL DEF Spec

(* Every request, page, file and hidden file keeps its type, whatever the    *)
(* handlers of PageService do and whichever renames fail.                    *)
THEOREM PagesTypeCorrect == Spec => []TypeOK
<1>1. PagesInv => TypeOK
  BY DEF PagesInv
<1> QED BY <1>1, PagesInvariance, PTL

(* Whenever nobody holds the lock of with_lock the files are the pages the   *)
(* completed operations amount to, also after commit_move failed half way    *)
(* and rolled back; no page is lost, for its bytes are its file or a hidden  *)
(* backup, also when the service ends between two renames; and write_page    *)
(* replaces the revision it quotes and no other.                             *)
THEOREM PagesAlwaysSurvive == Spec => PagesSurvive
<1>1. PagesInv => AllOrNothing /\ NothingLost
  <2> SUFFICES ASSUME PagesInv PROVE AllOrNothing /\ NothingLost
    OBVIOUS
  <2>1. AllOrNothing
    <3>1. ASSUME lock = Nobody, NEW c \in Clients PROVE req[c].pc \notin Moving
      <4>1. req[c].pc \notin Locked
        BY <3>1, MemoryAssumption DEF PagesInv, LockInv
      <4> QED BY <4>1 DEF Locked, Moving
    <3> QED BY <3>1 DEF AllOrNothing, PagesInv, QuietInv
  <2>2. NothingLost
    BY DEF NothingLost, PagesInv, KeptInv, Covered
  <2> QED BY <2>1, <2>2
<1>2. PagesInv /\ [Next]_vars => NoLostUpdate
  <2> SUFFICES ASSUME PagesInv, [Next]_vars, NEW c \in Clients, At(c, "rename"), ~cut, pages' # pages,
                      req'[c].pc = "unlock", req[c].exp # NoFile
               PROVE  pages[req[c].p] = req[c].exp
    BY DEF NoLostUpdate
  <2>1. files = pages
    BY HolderQuiet DEF Settles, Locked, Moving, At
  <2>2. files[req[c].p] = req[c].exp
    BY DEF PagesInv, MoveInv, At
  <2> QED BY <2>1, <2>2
<1>3. PagesInv' => AllOrNothing' /\ NothingLost'
  BY <1>1, PTL
<1>4. PagesInv /\ PagesInv' /\ [Next]_vars => [AllOrNothing' /\ NothingLost' /\ NoLostUpdate]_vars
  BY <1>2, <1>3
<1> QED BY <1>4, PagesInvariance, PTL DEF Spec, PagesSurvive

----------------------------------------------------------------------------
(* Pages: links                                                            *)

RewrittenPage(c, p) == [pages[p] EXCEPT !.links = rewrite_links(p, @, req[c].p, req[c].q)]

\* until it is installed, the plan rewrites the pages that refer to the source, and no other
LinksPlanned(c) ==
  req[c].pc \in {"stage", "backup", "install"} /\ ~cut =>
    \A p \in Paths \ {req[c].p, req[c].q} :
      /\ \A x \in req[c].plan :
           x[1] = p => req[c].p \in LinksTo(p, pages[p]) /\ x[2] = RewrittenPage(c, p)
      /\ req[c].p \in LinksTo(p, pages[p]) => \E x \in req[c].plan : x[1] = p

LinksInv == \A c \in Clients : LinksPlanned(c)

LEMMA LinksPlannedKept ==
  ASSUME NEW c, req'[c].pc \in {"stage", "backup", "install"} => req[c].pc \in {"stage", "backup", "install"},
         req'[c].pc \in {"stage", "backup", "install"} => Same(c) /\ UNCHANGED <<pages, cut>>,
         LinksPlanned(c)
  PROVE  LinksPlanned(c)'
BY DEF LinksPlanned, RewrittenPage, Same

LEMMA LinksPlannedStep ==
  ASSUME PagesInv, PagesInv', NEW c \in Clients, Step(c), LinksPlanned(c)
  PROVE  LinksPlanned(c)'
<1> USE DEF At
<1>1. TypeOK
  BY DEF PagesInv
<1>2. ASSUME req'[c].pc \notin {"stage", "backup", "install"} PROVE LinksPlanned(c)'
  BY <1>2 DEF LinksPlanned
<1>3. CASE move_page(c)
  <2> DEFINE r == req[c]
  <2>1. r.pc = "decide" /\ UNCHANGED <<files, hidden, pages, cut>> /\ r \in Requested
    BY <1>1, <1>3, RequestTypes DEF move_page, KeepStore
  <2>2. ~cut => files = pages
    BY <2>1, HolderQuiet DEF Settles, Locked, Moving
  <2>3. CASE files[r.p] = NoFile \/ ~Matches(r, files[r.p]) \/ files[r.q] # NoFile
    <3>1. req'[c].pc = "unlock"
      BY <1>1, <1>3, <2>3, QuitEffect DEF move_page, Pcs
    <3> QED BY <1>2, <3>1
  <2>4. CASE ~(files[r.p] = NoFile \/ ~Matches(r, files[r.p]) \/ files[r.q] # NoFile)
    <3>1. PICK new : new = <<r.q, files[r.p]>>
      OBVIOUS
    <3>2. PICK w : w = [r EXCEPT !.pc = "stage", !.plan = {new} \cup Rewritten(r)]
      OBVIOUS
    <3>3. w.pc = "stage" /\ w.p = r.p /\ w.q = r.q /\ w.plan = {new} \cup Rewritten(r)
      BY <2>1, <3>2 DEF Requested
    <3>4. req'[c] = w
      BY <1>1, <1>3, <2>4, <3>1, <3>2, PutEffect DEF move_page
    <3>5. new[1] = r.q
      BY <3>1
    <3> DEFINE F(p) == [files[p] EXCEPT !.links = rewrite_links(p, @, r.p, r.q)]
               S == {y \in Paths \ {r.p} : r.p \in LinksTo(y, files[y])}
    <3>6. Rewritten(r) = {<<p, F(p)>> : p \in S}
      BY DEF Rewritten
    <3>7. ASSUME ~cut, NEW p \in Paths \ {r.p, r.q}
          PROVE  /\ \A x \in w.plan : x[1] = p => r.p \in LinksTo(p, pages[p]) /\ x[2] = RewrittenPage(c, p)
                 /\ r.p \in LinksTo(p, pages[p]) => \E x \in w.plan : x[1] = p
      <4>1. F(p) = RewrittenPage(c, p)
        BY <2>2, <3>7 DEF RewrittenPage
      <4> HIDE DEF F
      <4>2. ASSUME NEW x \in w.plan, x[1] = p
            PROVE  r.p \in LinksTo(p, pages[p]) /\ x[2] = RewrittenPage(c, p)
        <5>1. x \in Rewritten(r)
          BY <3>3, <3>5, <4>2
        <5>2. PICK y \in S : x = <<y, F(y)>>
          BY <3>6, <5>1
        <5>3. x[1] = y /\ x[2] = F(y)
          BY <5>2
        <5> QED BY <2>2, <3>7, <4>1, <4>2, <5>3
      <4>3. ASSUME r.p \in LinksTo(p, pages[p]) PROVE \E x \in w.plan : x[1] = p
        <5>1. p \in S
          BY <2>2, <3>7, <4>3
        <5>2. <<p, F(p)>> \in w.plan
          BY <3>3, <3>6, <5>1
        <5>3. <<p, F(p)>>[1] = p
          OBVIOUS
        <5> QED BY <5>2, <5>3
      <4> QED BY <4>2, <4>3
    <3> HIDE DEF F
    <3>8. \A p : RewrittenPage(c, p)' = RewrittenPage(c, p)
      BY <2>1, <3>3, <3>4 DEF RewrittenPage
    <3> QED BY <2>1, <3>3, <3>4, <3>7, <3>8 DEF LinksPlanned
  <2> QED BY <2>3, <2>4
<1>4. CASE stage_change(c)
  <2>1. req[c].pc = "stage" /\ UNCHANGED <<pages, cut>>
    BY <1>4 DEF stage_change
  <2>2. Goto(c, "backup") \/ Goto(c, "unstage") \/ Quit(c, "unlock", "error") \/ UNCHANGED req
    BY <1>4 DEF stage_change
  <2>3. req'[c].pc = "stage" \/ req'[c].pc = "backup" => Same(c)
    BY <1>1, <2>2, GotoEffect, QuitEffect DEF Pcs, Same
  <2>4. req'[c].pc # "install"
    BY <1>1, <2>1, <2>2, GotoEffect, QuitEffect DEF Pcs
  <2> QED BY <2>1, <2>3, <2>4, LinksPlannedKept
<1>5. CASE backup_file(c)
  <2>0. BackUp(c, "install")
    BY <1>5 DEF backup_file
  <2>1. req[c].pc = "backup" /\ pages' = pages
    BY <2>0 DEF BackUp
  <2>2. \/ Goto(c, "install") /\ cut' = cut
        \/ UNCHANGED <<req, cut>>
        \/ Goto(c, "unstage") \/ Goto(c, "restore") \/ Quit(c, "unlock", "error")
    BY <2>0 DEF BackUp
  <2>3. req'[c].pc \in {"stage", "backup", "install"} => Same(c) /\ cut' = cut
    BY <1>1, <2>2, GotoEffect, QuitEffect DEF Pcs, Same
  <2> QED BY <2>1, <2>3, LinksPlannedKept
<1>6. CASE install(c)
  <2>0. Install(c, "takeout")
    BY <1>6 DEF install
  <2>1. req[c].pc = "install" /\ cut' = cut
    BY <2>0 DEF Install
  <2>2. \/ UNCHANGED <<req, pages>>
        \/ Goto(c, "clean") \/ Goto(c, "takeout")
    BY <2>0 DEF Install
  <2>3. req'[c].pc \in {"stage", "backup", "install"} => Same(c) /\ UNCHANGED <<pages, cut>>
    BY <1>1, <2>1, <2>2, GotoEffect DEF Pcs, Same
  <2> QED BY <2>1, <2>3, LinksPlannedKept
<1>7. ASSUME ~move_page(c), ~stage_change(c), ~backup_file(c), ~install(c)
      PROVE  req'[c].pc \notin {"stage", "backup", "install"}
  <2>1. CASE \E pc \in Pcs \ {"stage", "backup", "install"} : Goto(c, pc)
    BY <1>1, <2>1, GotoEffect
  <2>2. CASE \E pc \in Pcs \ {"stage", "backup", "install"}, out \in {"none", "ok", "missing", "error"} :
               Quit(c, pc, out)
    BY <1>1, <2>2, QuitEffect
  <2>3. CASE req' = req /\ req[c].pc \notin {"stage", "backup", "install"}
    BY <2>3
  <2>4. CASE Ask(c)
    <3>1. PICK r : Put(c, r) /\ Asked(r)
      BY <1>1, <2>4, AskEffect
    <3> QED BY <1>1, <3>1, PutEffect DEF Asked
  <2>5. CASE query_pages(c)
    <3>1. req'[c].pc \in {"each", "over"}
      BY <1>1, <2>5, QueryEffect
    <3> QED BY <3>1
  <2>6. CASE list_pages(c)
    <3>1. req'[c].pc = "each"
      BY <1>1, <2>6, RequestTypes DEF list_pages, Put, TypeOK, Requested
    <3> QED BY <3>1
  <2>7. CASE with_lock(c) \/ Unlock(c) \/ read_page(c) \/ links(c) \/ Crash(c)
    <3>1. CASE with_lock(c)
      BY <2>1, <3>1 DEF with_lock, Pcs
    <3>2. CASE Unlock(c)
      BY <2>1, <3>2 DEF Unlock, Pcs
    <3>3. CASE read_page(c)
      BY <2>1, <2>2, <3>3 DEF read_page, Pcs
    <3>4. CASE links(c)
      BY <2>2, <3>4 DEF links, Pcs
    <3>5. CASE Crash(c)
      BY <2>2, <3>5 DEF Crash, Pcs
    <3> QED BY <2>7, <3>1, <3>2, <3>3, <3>4, <3>5
  <2>8. CASE write_page(c) \/ write_atomically(c) \/ remove_page(c) \/ remove_file(c)
    <3>1. CASE write_page(c)
      BY <2>1, <2>2, <3>1 DEF write_page, Pcs
    <3>2. CASE write_atomically(c)
      BY <2>2, <3>2 DEF write_atomically, Pcs
    <3>3. CASE remove_page(c)
      BY <2>1, <2>2, <3>3 DEF remove_page, Pcs
    <3>4. CASE remove_file(c)
      BY <2>2, <3>4 DEF remove_file, Pcs
    <3> QED BY <2>8, <3>1, <3>2, <3>3, <3>4
  <2>9. CASE remove_backups(c) \/ remove_installed(c) \/ restore_backups(c) \/ cleanup_staged(c)
    <3>1. CASE remove_backups(c)
      BY <2>2, <2>3, <3>1 DEF remove_backups, Pcs
    <3>2. CASE remove_installed(c)
      BY <2>1, <2>3, <3>2 DEF remove_installed, Pcs
    <3>3. CASE restore_backups(c)
      BY <2>1, <2>3, <3>3 DEF restore_backups, Pcs
    <3>4. CASE cleanup_staged(c)
      BY <2>2, <2>3, <3>4 DEF cleanup_staged, Pcs
    <3> QED BY <2>9, <3>1, <3>2, <3>3, <3>4
  <2> QED BY <1>7, <2>4, <2>5, <2>6, <2>7, <2>8, <2>9 DEF Step
<1> QED BY <1>2, <1>3, <1>4, <1>5, <1>6, <1>7

LEMMA LinksInvStep ==
  ASSUME PagesInv, PagesInv', [Next]_vars, LinksInv
  PROVE  LinksInv'
<1> USE DEF LinksInv
<1>1. CASE UNCHANGED vars
  BY <1>1 DEF vars, LinksPlanned, RewrittenPage
<1>2. ASSUME NEW c \in Clients, Step(c) PROVE \A d \in Clients : LinksPlanned(d)'
  <2>1. ASSUME NEW d \in Clients \ {c} PROVE LinksPlanned(d)'
    <3>1. TypeOK /\ LockInv /\ req'[d] = req[d]
      BY <1>2, StepFrame DEF PagesInv
    <3>2. CASE req[d].pc \notin {"stage", "backup", "install"}
      BY <3>1, <3>2 DEF LinksPlanned
    <3>3. CASE req[d].pc \in {"stage", "backup", "install"}
      <4>1. req[c].pc \notin Locked
        BY <3>1, <3>3 DEF LockInv, Locked
      <4>2. UNCHANGED <<pages, cut>>
        BY <1>2, <3>1, <4>1, StepFrame DEF Locked, Moving
      <4> QED BY <3>1, <3>3, <4>2, LinksPlannedKept DEF Same
    <3> QED BY <3>2, <3>3
  <2> QED BY <1>2, <2>1, LinksPlannedStep
<1> QED BY <1>1, <1>2 DEF Next, Step

\* a rewritten page refers to the destination where it referred to the source
LEMMA RewrittenLinks ==
  ASSUME NEW p \in Paths, NEW s \in Paths, NEW d \in Paths, NEW f \in Pages
  PROVE  LinksTo(p, [f EXCEPT !.links = rewrite_links(p, @, s, d)]) =
           {IF t = s THEN d ELSE t : t \in LinksTo(p, f)}
<1> DEFINE res(t) == resolve_relative_target(p, t)
           new == relative_target(p, d)
           moved(t) == IF res(t) = s THEN new ELSE t
           ls == {moved(t) : t \in f.links}
<1>1. res(new) = d /\ new \in Targets
  BY ResolveAssumption, LinkAssumption
<1>2. rewrite_links(p, f.links, s, d) = ls
  BY DEF rewrite_links
<1>3. f.links \subseteq Targets
  BY DEF Pages
<1>4. PICK g : g = [f EXCEPT !.links = ls]
  OBVIOUS
<1>5. ls \subseteq Targets
  BY <1>1, <1>3
<1>6. g \in Pages /\ g.links = ls
  BY <1>4, <1>5 DEF Pages
<1>7. LinksTo(p, g) = {res(t) : t \in ls} /\ LinksTo(p, f) = {res(t) : t \in f.links}
  BY <1>6 DEF LinksTo
<1> HIDE DEF res, new
<1>8. {res(t) : t \in ls} = {IF t = s THEN d ELSE t : t \in {res(t) : t \in f.links}}
  BY <1>1
<1> QED BY <1>2, <1>4, <1>7, <1>8

(* A move_page that takes effect changes the references of the other pages   *)
(* from the source to the destination and leaves every other reference, for  *)
(* rewrite_links works on what with_lock keeps others from changing.         *)
THEOREM MovesAlwaysKeepLinks == Spec => MoveKeepsLinks
<1>1. Init => LinksInv
  BY BlankShape DEF Init, LinksInv, LinksPlanned
<1>2. ASSUME PagesInv, LinksInv, NEW c \in Clients, install(c), ~cut, pages' # pages, NEW p \in Paths \ {req[c].p, req[c].q}
      PROVE  LinksTo(p, pages'[p]) =
               {IF t = req[c].p THEN req[c].q ELSE t : t \in LinksTo(p, pages[p])}
  <2>1. req[c].pc = "install" /\ pages' = Moved(req[c]) /\ TypeOK
    BY <1>2 DEF install, Install, At, PagesInv
  <2>5. LinksPlanned(c)
    BY <1>2 DEF LinksInv
  <2>2. req[c].p \in Paths /\ req[c].q \in Paths
    BY <2>1, RequestTypes
  <2>3. CASE req[c].p \in LinksTo(p, pages[p])
    <3>1. PICK x \in req[c].plan : x[1] = p
      BY <1>2, <2>1, <2>3, <2>5 DEF LinksPlanned
    <3>2. x[2] = RewrittenPage(c, p)
      BY <1>2, <2>1, <2>5, <3>1 DEF LinksPlanned
    <3>3. (CHOOSE y \in req[c].plan : y[1] = p) = x
      BY <1>2, <2>1, <3>1 DEF PagesInv, MoveInv, Planned, Moving
    <3>4. pages'[p] = RewrittenPage(c, p)
      BY <1>2, <2>1, <3>1, <3>2, <3>3 DEF Moved
    <3>5. pages[p] \in Pages
      BY <2>3 DEF LinksTo
    <3> QED BY <2>2, <3>4, <3>5, RewrittenLinks DEF RewrittenPage
  <2>4. CASE req[c].p \notin LinksTo(p, pages[p])
    <3>1. \A x \in req[c].plan : x[1] # p
      BY <1>2, <2>1, <2>4, <2>5 DEF LinksPlanned
    <3>2. pages'[p] = pages[p]
      BY <1>2, <2>1, <3>1 DEF Moved
    <3> QED BY <2>4, <3>2
  <2> QED BY <2>3, <2>4
<1> DEFINE Kept == \A c \in Clients : install(c) /\ ~cut /\ pages' # pages =>
                     \A p \in Paths \ {req[c].p, req[c].q} :
                       LinksTo(p, pages'[p]) =
                         {IF t = req[c].p THEN req[c].q ELSE t : t \in LinksTo(p, pages[p])}
<1>3. PagesInv /\ LinksInv => Kept
  BY <1>2
<1>4. PagesInv /\ PagesInv' /\ LinksInv /\ [Next]_vars => LinksInv'
  BY LinksInvStep
<1> HIDE DEF Kept
<1>5. Spec => [][Kept]_vars
  BY <1>1, <1>3, <1>4, PagesInvariance, PTL DEF Spec
<1> QED BY <1>5, PTL DEF MoveKeepsLinks, Kept
=============================================================================
